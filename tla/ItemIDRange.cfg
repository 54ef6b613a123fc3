SPECIFICATION Spec
CONSTANTS
  Core = {c1, c2}
  NBlock = 4
  BlockSize = 3
  MinRemain = 1
  MayCrash = TRUE
  MayReconnect = TRUE
  MaxGive = 4
  MaxBoot = 3
  MaxLoss = 1
SYMMETRY CoreSymmetry
INVARIANTS
  LentOnce
  InStep
  DuplicateExplained
CHECK_DEADLOCK FALSE
