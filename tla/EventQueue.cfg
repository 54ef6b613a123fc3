SPECIFICATION EventSpec
CONSTANTS
  Event = {e1, e2, e3}
  e1 = e1
  e2 = e2
  e3 = e3
  NoEvent = NoEvent
  Cell = {c1, c2, c3, c4}
  NoCell = NoCell
  NoInfo = {e3}
  MaxDelay = 2
  MaxPulse = 2
SYMMETRY Symmetry
INVARIANTS OneCall NotForgotten OnTime
CHECK_DEADLOCK FALSE
