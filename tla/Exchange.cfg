SPECIFICATION Spec
CONSTANTS
  A = A
  B = B
  a = a
  z = z
  s1 = s1
  t1 = t1
  b2 = b2
  b3 = b3
  Player = {A, B}
  Item = {a, z, s1, t1, b2, b3}
  NoOne = NoOne
  Gone = Gone
  NoItem = NoItem
  NoCell = NoCell
  Bound = {z, t1}
  Special = {s1, t1}
  Size <- MCSize
  Width = 2
  PageSize = 8
  Cells = 8
  SpecialCells = 1
  MaxSlot = 2
  GoldMax = 2
  Stock <- MCStock
  Purse <- MCPurse
  MaxStart = 2
  MaxOther = 1
INVARIANTS Paired LockedIsOffered KeptOnlyIfUneven LostOnlyIfEarned
PROPERTIES ImplementsSwap
CHECK_DEADLOCK FALSE
