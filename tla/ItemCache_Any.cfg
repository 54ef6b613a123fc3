SPECIFICATION Spec
CONSTANTS
  Player = {p, q}
  Item = {i}
  NoOne = NoOne
  Ground = Ground
  MaxVer = 2
  MaxLogin = 1
  MaxCrash = 1
  MaxRead = 1
  EarlyEnter = TRUE
  Safebox = TRUE
  WildDrop = TRUE
  FlushPacket = TRUE
  TimersInOrder = FALSE
SYMMETRY PlayerSymmetry
INVARIANTS NoDanglingEntry DirtyReachable 
CHECK_DEADLOCK FALSE
