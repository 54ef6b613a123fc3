SPECIFICATION Spec
CONSTANTS
  Couple <- Couples
  Core = {host, other}
  Host = host
  Delay = 1
  Length = 2
  MaxQuest = 3
  MaxWedding = 2
  MaxFault = 1
  MaxMap = 2
INVARIANTS Agree WeddingIsReal HallWillClose
CHECK_DEADLOCK FALSE
