\* One developer, three tickets on the board, a sprint of one turn and of two.
SPECIFICATION SoloSpec
CONSTANTS
  Devs = {d1}
  NoDev = NoDev
  Capacity = 1
  Turns = 1
  MonthTurns = 1
  ExtraTurns = 1
  Drawn = {"client_bug"}
  Grace = 0
  QualityMax = 2
  HackAt = 1
  MaxObstacles = 1
  MaxTickets = 3
  MaxSprints = 2
INVARIANTS BoardAgrees FullGaugeEnds SprintPaysItsMonths
PROPERTIES ActionsEnd
CHECK_DEADLOCK FALSE
