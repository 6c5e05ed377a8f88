\* One thief and a ring of two slots that the owner fills.
CONSTANTS
  Thieves = {t1}
  Owner = own
  MaxSize = 2
  MaxPush = 1
  Methods = {"half"}
  MaxSteal = 2
  OrderedComms = TRUE
  MayFill = TRUE
SPECIFICATION Spec
INVARIANT
  PublicSizeAsserted
CHECK_DEADLOCK FALSE
