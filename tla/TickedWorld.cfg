\* One company, its seats taken in turn by two players, under the clock.
CONSTANTS
  Capacity = 2
  MaxSeats = 3
  Profiles = {p1, p2}
  Companies = {c1}
  NoOne = NoOne
  NoSeat = NoSeat
  MissLimit = 1
  ReleaseRounds = 2
  MaxRounds = 3
  SnapshotEvery = 9
  Choices = {"move"}
SPECIFICATION TickedSpec
INVARIANTS SeatsAgree CompanyIsCurrent MachineForAbsent
PROPERTIES GameGoesOn SeatingHolds
