SPECIFICATION Spec
CONSTANTS
  Pid = {p, q, r}
  Core = {c, d}
  MaxParty = 2
  MaxOp = 4
  MaxMove = 2
  MaxFault = 1
  MaxUnread = 1
SYMMETRY Symmetry
INVARIANTS Agree Linked
CHECK_DEADLOCK FALSE
