SPECIFICATION Spec
CONSTANTS
  Core = {c1, c2}
  NBlock = 4
  BlockSize = 3
  MinRemain = 1
  MayCrash = FALSE
  MayReconnect = TRUE
  MaxGive = 4
  MaxBoot = 3
  MaxLoss = 1
SYMMETRY CoreSymmetry
INVARIANTS
  NoItemIdDup
CHECK_DEADLOCK FALSE
