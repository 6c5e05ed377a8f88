\* Four processes: a root with two children, one of which has one child.  Tokens
\* arrive together with their votes (GTC_USE_SIGNAL_COMMS).
CONSTANTS
  N = 4
  MaxTasks = 2
  SignalComms = TRUE
SPECIFICATION LiveSpec
INVARIANTS
  TypeOK
  DetectsOnlyTermination
  OneVotePerEdge
PROPERTIES
  ImplementsDetection
  EveryoneLeaves
