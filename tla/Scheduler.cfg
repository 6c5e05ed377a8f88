CONSTANTS
  N = 3
  TaskBound <- MCTaskBound
  Confs <- MCConfs
  Externals <- MCExternals
SPECIFICATION LiveSpec
INVARIANTS
  TypeOK
  ResetAlone
  ExternalWorkHolds
PROPERTIES
  ImplementsProcessing
  EveryoneReturns
