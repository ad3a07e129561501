CONSTANTS
  Features = {f1, f2}
  MaxObstacles = 1
  Capacity = 1
  MaxWork = 4
  Company = FALSE
SYMMETRY FeaturesAlike
SPECIFICATION Branches
INVARIANTS
  GraphIsSound
  LedgerIsTheBranches
  StoryCatchesUp
CHECK_DEADLOCK FALSE
