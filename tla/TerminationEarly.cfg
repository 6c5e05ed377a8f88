\* The default build: a vote may arrive before the token it announces.
CONSTANTS
  N = 4
  MaxTasks = 1
  SignalComms = FALSE
SPECIFICATION Spec
INVARIANT
  DetectsOnlyTermination
CHECK_DEADLOCK FALSE
