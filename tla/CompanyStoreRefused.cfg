\* Two profiles and two companies, a store that answers and a boot that refuses nothing.
CONSTANTS
  Profiles = {p1, p2}
  MaxCompanies = 2
  MaxSeats = 2
  MaxSeq = 2
  NoOne = NoOne
  LosesAnswers = FALSE
  Diverges = FALSE
SPECIFICATION StoreSpec
INVARIANTS BacklogIsAdmissible
CHECK_DEADLOCK FALSE
