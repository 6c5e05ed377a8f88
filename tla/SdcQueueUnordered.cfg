\* The network may perform the store that unlocks before the put of the tail.
CONSTANTS
  Thieves = {t1, t2}
  Owner = own
  MaxSize = 4
  MaxPush = 1
  Methods = {"half"}
  MaxSteal = 4
  OrderedComms = FALSE
  MayFill = FALSE
SPECIFICATION Spec
INVARIANT
  RegionsDisjoint
CHECK_DEADLOCK FALSE
