\* Flushes of messages and ticks interleave, the store fails and comes back, the
\* process dies and starts again.
CONSTANTS
  RoundMs = 2
  TimerIds = {t1, t2, t3, t4, t5}
  NoTimer = NoTimer
  MaxNow = 6
  PauseAfter = 2
  MaxWrites = 4
  MaxQueue = 3
  Callers = {"tick", "message"}
  Creations = {2}
  Seatings = {4}
  Clients = TRUE
SPECIFICATION LiveSpec
INVARIANTS ChainAlive StoredIsPrefix NothingLost
PROPERTIES OneTickPerRound DeadlineMovesAhead ServiceComesBack
CHECK_DEADLOCK FALSE
