SPECIFICATION Spec
CONSTANTS
  MaxDials = 2
  MaxSeq = 3
  MaxLag = 1
  MaxDrifts = 1
INVARIANTS OneConnection StageIsALogPrefix PageAgrees
PROPERTIES LossIsRepaired ConnectionComesBack
CHECK_DEADLOCK FALSE
