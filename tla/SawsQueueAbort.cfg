CONSTANTS
  Thieves = {t1}
  Owner = own
  MaxSize = 3
  MaxPush = 1
  MaxStealsPerEpoch = 3
  AStealsMod = 6
  ReclaimFreq = 1
SPECIFICATION Spec
INVARIANTS
  AbortsOnlyWhenFull
CHECK_DEADLOCK FALSE
