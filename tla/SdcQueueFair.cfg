\* A ring of five slots and two thieves that take half or all.
CONSTANTS
  Thieves = {t1, t2}
  Owner = own
  MaxSize = 5
  MaxPush = 2
  Methods = {"half", "all"}
  MaxSteal = 5
  OrderedComms = TRUE
  MayFill = FALSE
SPECIFICATION LiveSpec
INVARIANTS
  TypeOK
  NothingLost
  RegionsDisjoint
  ReservedBehindTail
  TailsMeetWhenCopied
PROPERTIES
  ImplementsPool
  LockReleased
CHECK_DEADLOCK FALSE
