\* Two profiles and two companies, every failure of the store.
CONSTANTS
  Profiles = {p1, p2}
  MaxCompanies = 2
  MaxSeats = 2
  MaxSeq = 2
  NoOne = NoOne
  LosesAnswers = TRUE
  Diverges = TRUE
SPECIFICATION StoreSpec
INVARIANTS BootsWhole
CHECK_DEADLOCK FALSE
