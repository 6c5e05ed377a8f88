CONSTANTS
  MaxItasks = 70
  MaxLog = 19
  Overshoot = 2
  Tails = {0, 5, 349525, 524287}
SPECIFICATION Spec
INVARIANTS
  ExhaustedTogether
  LogManySteals
  WordKeepsFields
CHECK_DEADLOCK FALSE
