SPECIFICATION DesksSpec
CONSTANTS
  Capacity = 3
  MaxSeats = 4
  Drawn = {"bug", "vip"}
  Reach = 1
  MaxObstacles = 1
  MaxTickets = 2
INVARIANTS DesksAgree LandsOnce
PROPERTIES LightestDesk EngineIsACrew
CHECK_DEADLOCK FALSE
