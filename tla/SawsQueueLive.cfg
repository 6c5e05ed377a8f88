CONSTANTS
  Thieves = {t1, t2}
  Owner = own
  MaxSize = 3
  MaxPush = 2
  MaxStealsPerEpoch = 2
  AStealsMod = 5
  ReclaimFreq = 1
SPECIFICATION LiveSpec
PROPERTIES
  ReacquireReturns
  SharedPartDrains
CHECK_DEADLOCK FALSE
