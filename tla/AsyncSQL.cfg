SPECIFICATION FairSpec
CONSTANTS
  MaxMsg = 3
  MaxFault = 2
  SemMax = 2
INVARIANTS
  Conservation
  NoLostWakeup
  CleanShutdown
PROPERTIES
  QuitReturns
  Served
  ImplementsService
CHECK_DEADLOCK FALSE
