SPECIFICATION Spec
CONSTANTS
  Player = {p, q}
  Item = {i}
  NoOne = NoOne
  Ground = Ground
  MaxVer = 3
  MaxLogin = 2
  MaxCrash = 0
  MaxRead = 1
  EarlyEnter = FALSE
  Safebox = FALSE
  WildDrop = FALSE
  FlushPacket = FALSE
  TimersInOrder = TRUE
INVARIANTS LastSaveWins NoItemIdDup
PROPERTIES LoadFaithful Settles
CHECK_DEADLOCK FALSE
