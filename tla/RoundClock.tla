----------------------------- MODULE RoundClock -----------------------------
(***************************************************************************)
(* The clock of the realtime server (src/src/realtime/clock.ts): an        *)
(* absolute schedule, tick n due at startedAt + n * RoundMs, kept over a    *)
(* host whose timers may fire late and whose tick handler is asynchronous. *)
(* A tick is two steps: Fire hands the next deadline to onTick, and        *)
(* TickDone is the continuation after the await, which schedules the next  *)
(* timer.  Stop and Resume may be called between the two.                  *)
(***************************************************************************)
EXTENDS Integers, FiniteSets

CONSTANTS
  RoundMs,        \* length of a round, in units of `now`
  TimerIds,       \* handles the host may give out at once (a bound)
  MaxNow,         \* horizon of the model (a bound)
  NoTimer         \* the null handle

ASSUME RoundMsAssumption == RoundMs \in Nat \ {0}
ASSUME MaxNowAssumption == MaxNow \in Nat
ASSUME TimersAssumption == NoTimer \notin TimerIds /\ TimerIds # {}

VARIABLES
  now,        \* the injected source of time
  startedAt,  \* moment of start()
  count,      \* ticks the schedule has reached
  running,
  timers,     \* pending timers of the host: [id, at]
  handle,     \* the timer the clock remembers, the only one stop can clear
  firing,     \* fires that await onTick
  deadline,   \* the deadline last handed to onTick (world.deadline)
  tickedAt,   \* history: when onTick was last called, -1 before the first
  crossed     \* history: resume() was called while a tick was still awaited

clockVars == <<now, startedAt, count, running, timers, handle, firing,
               deadline, tickedAt, crossed>>

Timer == [id : TimerIds, at : Nat]

ClockTypeOK ==
  /\ now \in Nat
  /\ startedAt \in Nat
  /\ count \in Nat
  /\ running \in BOOLEAN
  /\ timers \in SUBSET Timer
  /\ handle \in TimerIds \cup {NoTimer}
  /\ firing \in Nat
  /\ deadline \in Nat
  /\ tickedAt \in Nat \cup {-1}
  /\ crossed \in BOOLEAN

-----------------------------------------------------------------------------
Larger(a, b) == IF a >= b THEN a ELSE b

\* Whole rounds elapsed since start().
Elapsed(t) == (t - startedAt) \div RoundMs

\* The moment the tick after the n-th is due.
NextDeadline(n) == startedAt + (n + 1) * RoundMs

FreeIds == TimerIds \ {t.id : t \in timers}

\* A free handle, and the timer schedule() sets with it: never in the past.
NewHandle == CHOOSE id \in FreeIds : TRUE
NewTimer(n) == [id |-> NewHandle, at |-> Larger(now, NextDeadline(n))]

\* schedule() of a running clock, whose count is n by then.
Schedule(n) ==
  /\ FreeIds # {}
  /\ handle' = NewHandle
  /\ timers' = timers \cup {NewTimer(n)}

\* The server calls start() once, at boot: the first timer is set and
\* world.start is told the first deadline.
ClockInit ==
  /\ now = 0
  /\ startedAt = 0
  /\ count = 0
  /\ running = TRUE
  /\ handle = (CHOOSE id \in TimerIds : TRUE)
  /\ timers = {[id |-> CHOOSE id \in TimerIds : TRUE, at |-> RoundMs]}
  /\ firing = 0
  /\ deadline = RoundMs
  /\ tickedAt = -1
  /\ crossed = FALSE

-----------------------------------------------------------------------------
\* stop(): only the remembered handle is cleared.
StopClock ==
  /\ running' = FALSE
  /\ timers' = {t \in timers : t.id # handle}
  /\ handle' = NoTimer
  /\ UNCHANGED <<now, startedAt, count, firing, deadline, tickedAt, crossed>>

\* What resume() realigns on: the rounds elapsed, never fewer than counted.
CountAtResume == Larger(count, Elapsed(now))

\* resume(): rounds missed while stopped are skipped, then schedule().
ResumeClock ==
  /\ ~running
  /\ running' = TRUE
  /\ count' = CountAtResume
  /\ Schedule(count')
  /\ crossed' = (crossed \/ firing > 0)
  /\ UNCHANGED <<now, startedAt, firing, deadline, tickedAt>>

\* The count fire() reaches: one more, or what a late process must skip to.
CountAtFire_NoRealign == count + 1  \* mutant: missed rounds are replayed
CountAtFire == Larger(count + 1, Elapsed(now))

\* fire() forgets the handle of the timer that ran.
HandleAfterFire == NoTimer

\* fire() up to the await: a stopped clock forgets the timer, a running one
\* counts, realigns and calls onTick with the next deadline.
Fire(t) ==
  /\ t \in timers
  /\ t.at <= now
  /\ timers' = timers \ {t}
  /\ handle' = HandleAfterFire
  /\ IF running
     THEN /\ count' = CountAtFire
          /\ firing' = firing + 1
          /\ deadline' = NextDeadline(count')
          /\ tickedAt' = now
     ELSE UNCHANGED <<count, firing, deadline, tickedAt>>
  /\ UNCHANGED <<now, startedAt, running, crossed>>

TickDone_Throws ==  \* mutant: a tick that throws leaves fire()
  /\ firing > 0
  /\ firing' = firing - 1
  /\ UNCHANGED <<now, startedAt, count, running, timers, handle, deadline,
                 tickedAt, crossed>>

\* fire() after the await, whether onTick returned or threw.
TickDone ==
  /\ firing > 0
  /\ firing' = firing - 1
  /\ IF running THEN Schedule(count) ELSE UNCHANGED <<timers, handle>>
  /\ UNCHANGED <<now, startedAt, count, running, deadline, tickedAt, crossed>>

\* Time passes whether or not a due timer has run: the process may sleep.
Advance ==
  /\ now < MaxNow
  /\ now' = now + 1
  /\ UNCHANGED <<startedAt, count, running, timers, handle, firing,
                 deadline, tickedAt, crossed>>

Stop == running /\ StopClock

ClockNext ==
  \/ \E t \in timers : Fire(t)
  \/ TickDone
  \/ Advance
  \/ Stop
  \/ ResumeClock

ClockSpec == ClockInit /\ [][ClockNext]_clockVars

-----------------------------------------------------------------------------
(* What a clock must do *)

\* A running clock always has a pending timer or a tick under way: no order
\* of stops, resumes and late ticks can lose the chain and freeze the rounds.
ChainAlive == running => timers # {} \/ firing > 0

\* The handle stop() would clear is a timer that is still pending: fire()
\* forgets it, so a stale handle never cancels somebody else's timer.
HandleIsPending == handle # NoTimer => \E t \in timers : t.id = handle

\* The chain never forks: one timer or one tick, whatever was called before.
OneChain == Cardinality(timers) + firing <= 1

\* Each deadline announced to the players is in the future and later than
\* the one before, even after the process slept through several rounds.  A
\* server that starts again is on a schedule of its own.
DeadlineMovesAhead ==
  [][deadline' # deadline /\ startedAt' = startedAt
       => deadline' > now /\ deadline' > deadline]_clockVars

\* "Tick n is due at startedAt + n * roundMs": two ticks never fall in the
\* same round of the wall clock, unless a resume crossed a tick under way.
OneTickPerRound ==
  [][firing' > firing => \/ crossed
                         \/ tickedAt = -1
                         \/ Elapsed(tickedAt') > Elapsed(tickedAt)]_clockVars
=============================================================================
