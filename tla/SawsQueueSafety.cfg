\* Blocks of three tasks on five slots: a block is reacquired while a claim on it is
\* being copied, and its remainder is stolen from and reacquired in turn.
CONSTANTS
  Thieves = {t1, t2, t3}
  Owner = own
  MaxSize = 5
  MaxPush = 2
  MaxStealsPerEpoch = 3
  AStealsMod = 7
  ReclaimFreq = 1
SPECIFICATION Spec
SYMMETRY Symmetry
VIEW View
INVARIANTS
  TypeOK
  NothingLost
  RegionsDisjoint
  ReservedBehindTail
  ClaimsUnambiguous
  AStealsBounded
PROPERTIES
  ImplementsPool
CHECK_DEADLOCK FALSE
