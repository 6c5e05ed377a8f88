CONSTANTS
  N = 2
  Apps <- MCApps
  TreeHeight = 2
SPECIFICATION LiveSpec
CHECK_DEADLOCK FALSE
INVARIANTS
  TypeOK
  KeysAgree
  NothingAborts
  FinalCounts
  StatsInRankOrder
  SymmetricHeap
  DeepestOnTop
  BlankNeverShared
  EvalFindsBox
PROPERTIES
  EveryoneFinishes
