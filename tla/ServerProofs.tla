---------------------------- MODULE ServerProofs ----------------------------
(***************************************************************************)
(* The server's loop: the clock alone, the persister alone, then the two   *)
(* tied by their callbacks, for any length of round, any number of timers, *)
(* writes and waiting flushes, any limit of failures, and any crash.       *)
(*                                                                         *)
(* Then the tables it writes: for any number of companies, profiles, seats *)
(* and entries, whatever commit fails or loses its answer and whatever     *)
(* boot refuses a company, they hold enough to boot from.                  *)
(***************************************************************************)
EXTENDS TickLoop, CompanyStore, FiniteSetTheorems, SequenceTheorems, WellFoundedInduction, TLAPS

-----------------------------------------------------------------------------
(*                                 THE CLOCK                               *)

-----------------------------------------------------------------------------
(* Rounds and moments *)

\* A moment of a round is before the next boundary, and not before its own.
LEMMA RoundBounds ==
  ASSUME NEW x \in Nat
  PROVE  /\ x \div RoundMs \in Nat
         /\ (x \div RoundMs) * RoundMs <= x
         /\ x < (x \div RoundMs + 1) * RoundMs
BY RoundMsAssumption, SMT

\* Later rounds are due later.
LEMMA RoundsAreOrdered ==
  ASSUME NEW m \in Nat, NEW n \in Nat, m < n
  PROVE  /\ m * RoundMs \in Nat
         /\ n * RoundMs \in Nat
         /\ m * RoundMs < n * RoundMs
<1> DEFINE d == n - m
<1>1. d \in Nat /\ d >= 1 /\ n = m + d
  OBVIOUS
<1>2. d * RoundMs >= RoundMs
  BY <1>1, RoundMsAssumption, SMT
<1>3. n * RoundMs = m * RoundMs + d * RoundMs
  BY <1>1, RoundMsAssumption, SMT
<1> QED  BY <1>2, <1>3, RoundMsAssumption, SMT

\* A moment at or after boundary n is in round n or a later one.
LEMMA RoundOfBoundary ==
  ASSUME NEW x \in Nat, NEW n \in Nat, x >= n * RoundMs
  PROVE  x \div RoundMs >= n
<1>1. CASE x \div RoundMs < n
  <2>1. x \div RoundMs + 1 \in Nat /\ x \div RoundMs + 1 <= n
    BY <1>1, RoundBounds
  <2>2. (x \div RoundMs + 1) * RoundMs <= n * RoundMs
    BY <2>1, RoundsAreOrdered, RoundMsAssumption, SMT
  <2> QED  BY <2>2, RoundBounds, RoundMsAssumption, SMT
<1> QED  BY <1>1, RoundBounds, SMT

-----------------------------------------------------------------------------
(* Types *)

LEMMA InitTypes == ClockInit => ClockTypeOK
<1> SUFFICES ASSUME ClockInit PROVE ClockTypeOK
  OBVIOUS
<1>1. handle \in TimerIds /\ timers \in SUBSET Timer
  BY RoundMsAssumption, TimersAssumption DEF ClockInit, Timer
<1>2. running \in BOOLEAN /\ crossed \in BOOLEAN
  BY DEF ClockInit
<1> QED  BY <1>1, <1>2, RoundMsAssumption DEF ClockInit, ClockTypeOK

\* schedule() sets a timer of the host, at the next deadline or later.
LEMMA NewTimerIsTimer ==
  ASSUME ClockTypeOK, NEW n \in Nat, FreeIds # {}
  PROVE  /\ NewHandle \in TimerIds
         /\ NewTimer(n) \in Timer
         /\ NewTimer(n).id = NewHandle
         /\ NewTimer(n).at >= NextDeadline(n)
<1>1. NewHandle \in TimerIds
  BY DEF NewHandle, FreeIds
<1>2. NextDeadline(n) \in Nat
  BY RoundMsAssumption, SMT DEF NextDeadline, ClockTypeOK
<1>3. Larger(now, NextDeadline(n)) \in Nat /\ Larger(now, NextDeadline(n)) >= NextDeadline(n)
  BY <1>2 DEF Larger, ClockTypeOK
<1> QED  BY <1>1, <1>3 DEF NewTimer, Timer

LEMMA ScheduleTypes ==
  ASSUME ClockTypeOK, NEW n \in Nat, Schedule(n)
  PROVE  /\ handle' = NewHandle
         /\ handle' \in TimerIds
         /\ timers' = timers \cup {NewTimer(n)}
         /\ timers' \in SUBSET Timer
BY NewTimerIsTimer DEF Schedule, ClockTypeOK

\* Time never runs before start(), so elapsed rounds are counted from zero.
Began == startedAt <= now

LEMMA ElapsedIsNat ==
  ASSUME ClockTypeOK, Began
  PROVE  Elapsed(now) \in Nat
BY RoundBounds DEF Elapsed, ClockTypeOK, Began

LEMMA CountsAreNat ==
  ASSUME ClockTypeOK, Began
  PROVE  /\ CountAtResume \in Nat /\ CountAtResume >= count /\ CountAtResume >= Elapsed(now)
         /\ CountAtFire \in Nat /\ CountAtFire > count /\ CountAtFire >= Elapsed(now)
BY ElapsedIsNat DEF CountAtResume, CountAtFire, Larger, ClockTypeOK

LEMMA StepTypes == ClockTypeOK /\ Began /\ [ClockNext]_clockVars => ClockTypeOK' /\ Began'
<1> SUFFICES ASSUME ClockTypeOK, Began, [ClockNext]_clockVars PROVE ClockTypeOK' /\ Began'
  OBVIOUS
<1>1. ASSUME NEW t \in timers, Fire(t) PROVE ClockTypeOK' /\ Began'
  <2>1. CountAtFire \in Nat /\ NextDeadline(CountAtFire) \in Nat
    BY CountsAreNat, RoundMsAssumption, SMT DEF NextDeadline, ClockTypeOK
  <2> QED  BY <1>1, <2>1 DEF Fire, HandleAfterFire, ClockTypeOK, NextDeadline, Began
<1>2. CASE TickDone
  <2>1. CASE running
    BY <1>2, <2>1, ScheduleTypes DEF TickDone, ClockTypeOK, Began
  <2>2. CASE ~running
    BY <1>2, <2>2 DEF TickDone, ClockTypeOK, Began
  <2> QED  BY <2>1, <2>2 DEF ClockTypeOK
<1>3. CASE Advance
  BY <1>3 DEF Advance, ClockTypeOK, Began
<1>4. CASE Stop
  BY <1>4 DEF Stop, StopClock, ClockTypeOK, Began
<1>5. CASE ResumeClock
  <2>1. CountAtResume \in Nat /\ count' = CountAtResume /\ Schedule(CountAtResume)
    BY <1>5, CountsAreNat DEF ResumeClock
  <2> QED  BY <1>5, <2>1, ScheduleTypes DEF ResumeClock, ClockTypeOK, Began
<1>6. CASE UNCHANGED clockVars
  BY <1>6 DEF clockVars, ClockTypeOK, Began
<1> QED  BY <1>1, <1>2, <1>3, <1>4, <1>5, <1>6 DEF ClockNext

\* Every variable of the clock keeps its type, in every schedule of stops,
\* resumes, late timers and slow ticks.
THEOREM ClockTypes == ClockSpec => [](ClockTypeOK /\ Began)
<1>1. ClockInit => ClockTypeOK /\ Began
  BY InitTypes DEF ClockInit, Began
<1> QED  BY <1>1, StepTypes, PTL DEF ClockSpec

-----------------------------------------------------------------------------
(* The chain of timers is never lost *)

Chain == ChainAlive /\ HandleIsPending

LEMMA InitChain == ClockInit => Chain
BY DEF ClockInit, Chain, ChainAlive, HandleIsPending

LEMMA StepChain == ClockTypeOK /\ Began /\ Chain /\ [ClockNext]_clockVars => Chain'
<1> SUFFICES ASSUME ClockTypeOK, Began, Chain, [ClockNext]_clockVars PROVE Chain'
  OBVIOUS
<1>1. ASSUME NEW t \in timers, Fire(t) PROVE Chain'
  BY <1>1 DEF Fire, HandleAfterFire, Chain, ChainAlive, HandleIsPending, ClockTypeOK
<1>2. ASSUME NEW n \in Nat, Schedule(n) PROVE timers' # {} /\ HandleIsPending'
  BY <1>2, ScheduleTypes, NewTimerIsTimer DEF Schedule, HandleIsPending
<1>3. CASE TickDone
  <2>1. CASE running
    BY <1>2, <1>3, <2>1 DEF TickDone, Chain, ChainAlive, ClockTypeOK
  <2>2. CASE ~running
    BY <1>3, <2>2 DEF TickDone, Chain, ChainAlive, HandleIsPending
  <2> QED  BY <2>1, <2>2
<1>4. CASE Advance
  BY <1>4 DEF Advance, Chain, ChainAlive, HandleIsPending
<1>5. CASE Stop
  BY <1>5 DEF Stop, StopClock, Chain, ChainAlive, HandleIsPending
<1>6. CASE ResumeClock
  <2>1. CountAtResume \in Nat /\ Schedule(CountAtResume)
    BY <1>6, CountsAreNat DEF ResumeClock
  <2> QED  BY <1>2, <2>1 DEF Chain, ChainAlive
<1>7. CASE UNCHANGED clockVars
  BY <1>7 DEF clockVars, Chain, ChainAlive, HandleIsPending
<1> QED  BY <1>1, <1>3, <1>4, <1>5, <1>6, <1>7 DEF ClockNext

\* A running clock always has its next tick pending or under way, and the
\* handle it would clear is a timer that is still to run.
THEOREM ClockNeverFreezes == ClockSpec => [](ChainAlive /\ HandleIsPending)
BY InitChain, StepChain, ClockTypes, PTL DEF ClockSpec, Chain

-----------------------------------------------------------------------------
(* Deadlines only move ahead *)

\* What was announced is not later than what the count would announce.
Announced == deadline <= NextDeadline(count)

\* A deadline is later the later its round is.
LEMMA DeadlinesAreOrdered ==
  ASSUME ClockTypeOK, NEW m \in Nat, NEW n \in Nat, m <= n
  PROVE  /\ NextDeadline(m) \in Nat
         /\ NextDeadline(n) \in Nat
         /\ NextDeadline(m) <= NextDeadline(n)
         /\ m < n => NextDeadline(m) < NextDeadline(n)
<1>1. CASE m < n
  <2>1. (m + 1) * RoundMs < (n + 1) * RoundMs /\ (m + 1) * RoundMs \in Nat
        /\ (n + 1) * RoundMs \in Nat
    BY <1>1, RoundsAreOrdered
  <2> QED  BY <2>1, <1>1 DEF NextDeadline, ClockTypeOK
<1>2. CASE m = n
  BY <1>2, RoundMsAssumption, SMT DEF NextDeadline, ClockTypeOK
<1> QED  BY <1>1, <1>2

LEMMA StepAnnounced ==
  ClockTypeOK /\ Began /\ Announced /\ [ClockNext]_clockVars => Announced'
<1> SUFFICES ASSUME ClockTypeOK, Began, Announced, [ClockNext]_clockVars PROVE Announced'
  OBVIOUS
<1>1. ASSUME NEW t \in timers, Fire(t) PROVE Announced'
  <2>1. CASE running
    <3>1. deadline' = NextDeadline(CountAtFire) /\ count' = CountAtFire /\ startedAt' = startedAt
      BY <1>1, <2>1 DEF Fire
    <3>2. NextDeadline(count)' = NextDeadline(CountAtFire)
      BY <3>1 DEF NextDeadline
    <3> QED  BY <3>1, <3>2, CountsAreNat, DeadlinesAreOrdered DEF Announced
  <2>2. CASE ~running
    BY <1>1, <2>2 DEF Fire, Announced, NextDeadline
  <2> QED  BY <2>1, <2>2
<1>2. CASE ResumeClock
  <2>1. count' = CountAtResume /\ deadline' = deadline /\ startedAt' = startedAt
    BY <1>2 DEF ResumeClock
  <2>2. NextDeadline(count)' = NextDeadline(CountAtResume)
    BY <2>1 DEF NextDeadline
  <2>3. NextDeadline(count) <= NextDeadline(CountAtResume)
        /\ NextDeadline(count) \in Nat /\ NextDeadline(CountAtResume) \in Nat
    BY CountsAreNat, DeadlinesAreOrdered DEF ClockTypeOK
  <2> QED  BY <2>1, <2>2, <2>3 DEF Announced, ClockTypeOK
<1>3. CASE TickDone \/ Advance \/ Stop \/ UNCHANGED clockVars
  BY <1>3 DEF TickDone, Advance, Stop, StopClock, clockVars, Announced, NextDeadline
<1> QED  BY <1>1, <1>2, <1>3 DEF ClockNext

\* A deadline is announced by fire() alone, and it is the boundary after now.
LEMMA AnnouncedAhead ==
  ClockTypeOK /\ Began /\ Announced /\ [ClockNext]_clockVars
    => (deadline' # deadline /\ startedAt' = startedAt
          => deadline' > now /\ deadline' > deadline)
<1> SUFFICES ASSUME ClockTypeOK, Began, Announced, [ClockNext]_clockVars, deadline' # deadline
             PROVE  deadline' > now /\ deadline' > deadline
  OBVIOUS
<1>1. PICK t \in timers : Fire(t) /\ running
  BY DEF ClockNext, Fire, TickDone, Advance, Stop, StopClock, ResumeClock, clockVars
<1>2. deadline' = NextDeadline(CountAtFire)
  BY <1>1 DEF Fire
<1>3. deadline' > deadline
  <2>1. NextDeadline(count) < NextDeadline(CountAtFire)
        /\ NextDeadline(count) \in Nat /\ NextDeadline(CountAtFire) \in Nat
    BY CountsAreNat, DeadlinesAreOrdered DEF ClockTypeOK
  <2> QED  BY <1>2, <2>1 DEF Announced, ClockTypeOK
<1>4. deadline' > now
  <2>1. now - startedAt \in Nat /\ now - startedAt < (Elapsed(now) + 1) * RoundMs
    BY RoundBounds DEF Elapsed, ClockTypeOK, Began
  <2>2. NextDeadline(Elapsed(now)) > now
    BY <2>1, ElapsedIsNat, RoundMsAssumption, SMT DEF NextDeadline, ClockTypeOK
  <2>3. NextDeadline(Elapsed(now)) <= NextDeadline(CountAtFire)
        /\ NextDeadline(Elapsed(now)) \in Nat /\ NextDeadline(CountAtFire) \in Nat
    BY ElapsedIsNat, CountsAreNat, DeadlinesAreOrdered
  <2> QED  BY <1>2, <2>2, <2>3 DEF ClockTypeOK
<1> QED  BY <1>3, <1>4

\* Players are only ever given a deadline that is still to come, each later
\* than the last, however long the process slept.
THEOREM DeadlinesAhead == ClockSpec => DeadlineMovesAhead
<1>1. ClockInit => Announced
  BY RoundMsAssumption, SMT DEF ClockInit, Announced, NextDeadline
<1> QED
  BY <1>1, StepAnnounced, AnnouncedAhead, ClockTypes, PTL DEF ClockSpec, DeadlineMovesAhead

-----------------------------------------------------------------------------
(* One chain, one tick per round: until resume() crosses the tick that     *)
(* stop() interrupted, which forks the chain (NeverTwoInARound of TickLoop *)
(* shows how).                                                             *)

\* The one timer is the one the handle names, it is due at the next boundary
\* or later, and it waits for no tick; the last tick was in a round counted.
OneChainInv ==
  ~crossed =>
    /\ firing \in {0, 1}
    /\ timers # {} =>
         /\ running
         /\ firing = 0
         /\ \E t \in Timer :
              timers = {t} /\ t.id = handle /\ t.at >= NextDeadline(count)

TickedInv ==
  /\ tickedAt <= now
  /\ tickedAt # -1 => startedAt <= tickedAt /\ Elapsed(tickedAt) <= count

LEMMA InitOneChain == ClockInit => OneChainInv /\ TickedInv
<1> SUFFICES ASSUME ClockInit PROVE OneChainInv /\ TickedInv
  OBVIOUS
<1> DEFINE t == [id |-> CHOOSE id \in TimerIds : TRUE, at |-> RoundMs]
<1>1. t \in Timer /\ timers = {t} /\ t.id = handle
  BY RoundMsAssumption, TimersAssumption DEF ClockInit, Timer
<1>2. t.at >= NextDeadline(count)
  BY RoundMsAssumption, SMT DEF ClockInit, NextDeadline
<1>3. firing = 0 /\ running /\ tickedAt = -1 /\ now = 0
  BY DEF ClockInit
<1> HIDE DEF t
<1>4. OneChainInv
  BY <1>1, <1>2, <1>3 DEF OneChainInv
<1> QED  BY <1>3, <1>4 DEF TickedInv

\* A new timer is the only one, and the one the handle names.
LEMMA ScheduleAlone ==
  ASSUME ClockTypeOK, NEW n \in Nat, Schedule(n), timers = {}, startedAt' = startedAt
  PROVE  \E t \in Timer : timers' = {t} /\ t.id = handle' /\ t.at >= NextDeadline(n)
<1>1. FreeIds # {} /\ timers' = {NewTimer(n)} /\ handle' = NewHandle
  BY DEF Schedule
<1> QED  BY <1>1, NewTimerIsTimer

LEMMA StepOneChain ==
  ClockTypeOK /\ Began /\ OneChainInv /\ [ClockNext]_clockVars => OneChainInv'
<1> SUFFICES ASSUME ClockTypeOK, Began, OneChainInv, [ClockNext]_clockVars, ~crossed'
             PROVE  OneChainInv'
  BY DEF OneChainInv
<1>0. ~crossed
  BY DEF ClockNext, Fire, TickDone, Advance, Stop, StopClock, ResumeClock, clockVars
<1>1. ASSUME NEW t \in timers, Fire(t) PROVE OneChainInv'
  <2>1. timers' = {} /\ firing = 0
    BY <1>0, <1>1 DEF Fire, OneChainInv
  <2>2. firing' \in {0, 1}
    BY <1>1, <2>1 DEF Fire
  <2> QED  BY <2>1, <2>2 DEF OneChainInv
<1>2. CASE TickDone
  <2>1. firing = 1 /\ firing' = 0 /\ timers = {} /\ running' = running
    BY <1>0, <1>2 DEF TickDone, OneChainInv, ClockTypeOK
  <2>2. CASE running
    <3>1. Schedule(count) /\ count' = count /\ startedAt' = startedAt
      BY <1>2, <2>2 DEF TickDone
    <3>2. NextDeadline(count)' = NextDeadline(count)
      BY <3>1 DEF NextDeadline
    <3> QED  BY <2>1, <2>2, <3>1, <3>2, ScheduleAlone DEF OneChainInv, ClockTypeOK
  <2>3. CASE ~running
    BY <1>2, <2>1, <2>3 DEF TickDone, OneChainInv
  <2> QED  BY <2>2, <2>3
<1>3. CASE Stop
  <2>1. timers' = {} /\ firing' = firing
    BY <1>0, <1>3 DEF Stop, StopClock, OneChainInv
  <2> QED  BY <1>0, <2>1 DEF OneChainInv
<1>4. CASE ResumeClock
  <2>0. ~running /\ running' /\ firing' = firing /\ (crossed' <=> firing > 0)
    BY <1>0, <1>4, Zenon DEF ResumeClock
  <2>1. firing = 0 /\ firing' = 0 /\ timers = {} /\ running'
    BY <1>0, <2>0 DEF OneChainInv, ClockTypeOK
  <2>2. CountAtResume \in Nat /\ Schedule(CountAtResume)
        /\ count' = CountAtResume /\ startedAt' = startedAt
    BY <1>4, CountsAreNat DEF ResumeClock
  <2>3. NextDeadline(count)' = NextDeadline(CountAtResume)
    BY <2>2 DEF NextDeadline
  <2> QED  BY <2>1, <2>2, <2>3, ScheduleAlone DEF OneChainInv
<1>5. CASE Advance \/ UNCHANGED clockVars
  BY <1>0, <1>5 DEF Advance, clockVars, OneChainInv, NextDeadline
<1> QED  BY <1>1, <1>2, <1>3, <1>4, <1>5 DEF ClockNext

LEMMA StepTicked == ClockTypeOK /\ Began /\ TickedInv /\ [ClockNext]_clockVars => TickedInv'
<1> SUFFICES ASSUME ClockTypeOK, Began, TickedInv, [ClockNext]_clockVars PROVE TickedInv'
  OBVIOUS
<1>1. ASSUME NEW t \in timers, Fire(t), running PROVE TickedInv'
  <2>1. tickedAt' = now /\ now' = now /\ startedAt' = startedAt /\ count' = CountAtFire
    BY <1>1 DEF Fire
  <2>2. Elapsed(tickedAt)' = Elapsed(now)
    BY <2>1 DEF Elapsed
  <2> QED  BY <2>1, <2>2, CountsAreNat DEF TickedInv, Began, ClockTypeOK
<1>2. ASSUME tickedAt' = tickedAt, startedAt' = startedAt, now' >= now,
             count' >= count, now' \in Nat, count' \in Nat
      PROVE  TickedInv'
  <2>1. CASE tickedAt = -1
    BY <1>2, <2>1 DEF TickedInv, ClockTypeOK
  <2>2. CASE tickedAt # -1
    <3>1. Elapsed(tickedAt)' = Elapsed(tickedAt)
      BY <1>2 DEF Elapsed
    <3>2. tickedAt - startedAt \in Nat
      BY <2>2 DEF TickedInv, ClockTypeOK
    <3>3. Elapsed(tickedAt) \in Nat
      BY <3>2, RoundBounds DEF Elapsed
    <3> QED  BY <1>2, <2>2, <3>1, <3>3 DEF TickedInv, ClockTypeOK
  <2> QED  BY <2>1, <2>2
<1>3. ASSUME NEW t \in timers, Fire(t), ~running PROVE TickedInv'
  BY <1>2, <1>3 DEF Fire, ClockTypeOK
<1>4. CASE TickDone
  BY <1>2, <1>4 DEF TickDone, ClockTypeOK
<1>5. CASE Advance
  BY <1>2, <1>5 DEF Advance, ClockTypeOK
<1>6. CASE Stop
  BY <1>2, <1>6 DEF Stop, StopClock, ClockTypeOK
<1>7. CASE ResumeClock
  BY <1>2, <1>7, CountsAreNat DEF ResumeClock, ClockTypeOK
<1>8. CASE UNCHANGED clockVars
  BY <1>2, <1>8 DEF clockVars, ClockTypeOK
<1> QED  BY <1>1, <1>3, <1>4, <1>5, <1>6, <1>7, <1>8 DEF ClockNext

\* Without an interrupted tick to collide with, the clock has one timer or
\* one tick under way and never two: persister pauses and resumes included.
THEOREM ClockNeverForks == ClockSpec => [](~crossed => OneChain)
<1>1. ClockTypeOK /\ OneChainInv => (~crossed => OneChain)
  <2> SUFFICES ASSUME ClockTypeOK, OneChainInv, ~crossed PROVE OneChain
    OBVIOUS
  <2>1. CASE timers = {}
    BY <2>1, FS_EmptySet DEF OneChainInv, OneChain
  <2>2. CASE timers # {}
    <3>1. PICK t \in Timer : timers = {t}
      BY <2>2 DEF OneChainInv
    <3>2. Cardinality({t}) = 1
      BY FS_Singleton
    <3> QED  BY <2>2, <3>1, <3>2 DEF OneChainInv, OneChain
  <2> QED  BY <2>1, <2>2
<1> QED  BY <1>1, InitOneChain, StepOneChain, ClockTypes, PTL DEF ClockSpec

\* A tick comes from a timer, and a timer is due in a round not ticked yet.
LEMMA TickInNewRound ==
  ClockTypeOK /\ Began /\ OneChainInv /\ TickedInv /\ [ClockNext]_clockVars
    => (firing' > firing
          => crossed \/ tickedAt = -1 \/ Elapsed(tickedAt') > Elapsed(tickedAt))
<1> SUFFICES ASSUME ClockTypeOK, Began, OneChainInv, TickedInv, [ClockNext]_clockVars,
                    firing' > firing, ~crossed, tickedAt # -1
             PROVE  Elapsed(tickedAt') > Elapsed(tickedAt)
  OBVIOUS
<1>1. PICK t \in timers : Fire(t) /\ running
  BY DEF ClockNext, Fire, TickDone, Advance, Stop, StopClock, ResumeClock, clockVars, ClockTypeOK
<1>2. tickedAt' = now /\ t.at <= now /\ t.at >= NextDeadline(count) /\ t.at \in Nat
  BY <1>1 DEF Fire, OneChainInv, Timer
<1>3. now - startedAt >= (count + 1) * RoundMs /\ now - startedAt \in Nat
  BY <1>2, RoundMsAssumption, SMT DEF NextDeadline, ClockTypeOK, Began
<1>4. Elapsed(now) >= count + 1
  BY <1>3, RoundOfBoundary DEF Elapsed, ClockTypeOK
<1>5. Elapsed(tickedAt) <= count /\ Elapsed(tickedAt) \in Nat
  <2>1. tickedAt - startedAt \in Nat
    BY DEF TickedInv, ClockTypeOK
  <2> QED  BY <2>1, RoundBounds DEF TickedInv, Elapsed
<1> QED  BY <1>2, <1>4, <1>5, ElapsedIsNat DEF ClockTypeOK

\* Two ticks never fall in the same round of the wall clock, unless a resume
\* crossed a tick under way.
THEOREM ClockTicksOncePerRound == ClockSpec => OneTickPerRound
BY InitOneChain, StepOneChain, StepTicked, TickInNewRound, ClockTypes, PTL
DEF ClockSpec, OneTickPerRound

-----------------------------------------------------------------------------
(*                               THE PERSISTER                             *)

-----------------------------------------------------------------------------
(* The inductive invariant *)

\* The store holds the writes up to n, the backlog those from m + 1 on: they
\* overlap when a commit was applied but its answer was lost (m < n), and
\* they always meet.  This is what a retry relies on.
StoreInv ==
  /\ drained <= issued
  /\ \E m \in 0..drained : \E n \in m..drained :
       /\ stored = 1..n
       /\ backlog = (m + 1)..drained

\* A flush that awaits its commit asked for the whole backlog, and is the
\* first of the queue.
FlushInv ==
  committing => /\ batch = backlog
                /\ backlog # {}
                /\ queue # <<>>

PersisterInv ==
  /\ PersisterTypeOK
  /\ StoreInv
  /\ FlushInv
  /\ PausedIffFailing
  /\ FailingHoldsBacklog

LEMMA NoCaller == <<>> \in Seq(Callers)
OBVIOUS

LEMMA InitPersister == PersisterInit => PersisterInv
<1> SUFFICES ASSUME PersisterInit PROVE PersisterInv
  OBVIOUS
<1>1. PersisterTypeOK
  <2>1. 0 \in 0..FailureCap
    BY PauseAfterAssumption DEF FailureCap
  <2>2. queue \in Seq(Callers) /\ committing \in BOOLEAN /\ paused \in BOOLEAN
    BY NoCaller, Zenon DEF PersisterInit
  <2> QED  BY <2>1, <2>2 DEF PersisterInit, PersisterTypeOK
<1>2. StoreInv
  BY SMT DEF PersisterInit, StoreInv
<1>3. FlushInv /\ PausedIffFailing /\ FailingHoldsBacklog
  BY PauseAfterAssumption DEF PersisterInit, FlushInv, PausedIffFailing, FailingHoldsBacklog
<1> QED  BY <1>1, <1>2, <1>3 DEF PersisterInv

\* A batch that is the backlog completes the store.
LEMMA BatchCompletes ==
  ASSUME PersisterInv, committing
  PROVE  AfterCommit = 1..drained
BY DEF PersisterInv, PersisterTypeOK, StoreInv, FlushInv, AfterCommit

\* The last write of a store without holes is its size.
LEMMA LastOfPrefix ==
  ASSUME NEW n \in Nat
  PROVE  LastOf(1..n) = n
<1> DEFINE S == (1..n) \cup {0}
<1>1. n \in S /\ \A v \in S : v <= n
  OBVIOUS
<1>2. \A w \in S : (\A v \in S : v <= w) => w = n
  BY <1>1
<1> QED  BY <1>1, <1>2 DEF LastOf

LEMMA CallKeeps ==
  ASSUME PersisterInv, NEW caller \in Callers, NEW changes \in 0..1, Call(caller, changes)
  PROVE  PersisterInv'
<1>1. PersisterTypeOK'
  BY DEF Call, PersisterInv, PersisterTypeOK, FailureCap
<1>2. StoreInv'
  <2>1. issued' \in Nat /\ issued' >= issued /\ drained <= issued /\ drained \in Nat
    BY DEF Call, PersisterInv, PersisterTypeOK, StoreInv
  <2>2. drained' = drained /\ stored' = stored /\ backlog' = backlog
    BY DEF Call
  <2> QED  BY <2>1, <2>2 DEF PersisterInv, PersisterTypeOK, StoreInv
<1>3. queue' # <<>>
  BY DEF Call, PersisterInv, PersisterTypeOK
<1>4. FlushInv' /\ PausedIffFailing' /\ FailingHoldsBacklog'
  BY <1>3 DEF Call, PersisterInv, FlushInv, PausedIffFailing, FailingHoldsBacklog
<1> QED  BY <1>1, <1>2, <1>4 DEF PersisterInv

LEMMA BeginKeeps ==
  ASSUME PersisterInv, Begin
  PROVE  PersisterInv'
<1>1. PersisterTypeOK'
  BY DEF Begin, Merged, Dirty, PersisterInv, PersisterTypeOK, FailureCap
<1>2. StoreInv'
  <2>1. PICK m \in 0..drained : \E n \in m..drained :
          stored = 1..n /\ backlog = (m + 1)..drained
    BY DEF PersisterInv, StoreInv
  <2>2. Merged = (m + 1)..issued
    BY <2>1 DEF Merged, Dirty, PersisterInv, PersisterTypeOK, StoreInv
  <2> QED  BY <2>1, <2>2 DEF Begin, PersisterInv, PersisterTypeOK, StoreInv
<1>3. FlushInv' /\ PausedIffFailing' /\ FailingHoldsBacklog'
  BY DEF Begin, PersisterInv, FlushInv, PausedIffFailing, FailingHoldsBacklog
<1> QED  BY <1>1, <1>2, <1>3 DEF PersisterInv

LEMMA NothingToDoKeeps ==
  ASSUME PersisterInv, NothingToDo
  PROVE  PersisterInv'
<1>1. PersisterTypeOK'
  BY DEF NothingToDo, PersisterInv, PersisterTypeOK, FailureCap
<1> QED
  BY <1>1 DEF NothingToDo, PersisterInv, StoreInv, FlushInv, PausedIffFailing,
              FailingHoldsBacklog

LEMMA CommitOkKeeps ==
  ASSUME PersisterInv, CommitOk
  PROVE  PersisterInv'
<1>1. stored' = 1..drained
  BY BatchCompletes DEF CommitOk
<1>2. PersisterTypeOK'
  <2>1. failures' \in 0..FailureCap
    BY PauseAfterAssumption DEF CommitOk, FailuresAfterCommit, FailureCap
  <2>2. paused' \in BOOLEAN /\ committing' \in BOOLEAN
    BY DEF CommitOk, StillPaused, PersisterInv, PersisterTypeOK
  <2>3. queue' \in Seq(Callers)
    BY DEF CommitOk, PersisterInv, PersisterTypeOK, FlushInv
  <2>4. stored' \in SUBSET Nat
    BY <1>1 DEF PersisterInv, PersisterTypeOK
  <2> QED  BY <2>1, <2>2, <2>3, <2>4 DEF CommitOk, PersisterInv, PersisterTypeOK
<1>3. StoreInv'
  <2>1. drained' \in Nat /\ stored' = 1..drained' /\ drained' <= issued'
    BY <1>1 DEF CommitOk, PersisterInv, PersisterTypeOK, StoreInv
  <2>2. backlog' = (drained' + 1)..drained'
    BY <2>1 DEF CommitOk
  <2> QED  BY <2>1, <2>2 DEF StoreInv
<1>4. FlushInv' /\ FailingHoldsBacklog'
  BY DEF CommitOk, FailuresAfterCommit, FlushInv, FailingHoldsBacklog
<1>5. PausedIffFailing'
  BY PauseAfterAssumption
  DEF CommitOk, StillPaused, FailuresAfterCommit, PersisterInv, PersisterTypeOK, PausedIffFailing
<1> QED  BY <1>2, <1>3, <1>4, <1>5 DEF PersisterInv

LEMMA CommitFailKeeps ==
  ASSUME PersisterInv, NEW applied \in BOOLEAN, CommitFail(applied)
  PROVE  PersisterInv'
<1>1. stored' = stored \/ stored' = 1..drained
  BY BatchCompletes DEF CommitFail
<1>2. PersisterTypeOK'
  <2>1. failures' \in 0..FailureCap
    BY PauseAfterAssumption
    DEF CommitFail, OneMoreFailure, FailureCap, PersisterInv, PersisterTypeOK
  <2>2. paused' \in BOOLEAN /\ committing' \in BOOLEAN
    BY DEF CommitFail, PersisterInv, PersisterTypeOK
  <2>3. queue' \in Seq(Callers)
    BY DEF CommitFail, PersisterInv, PersisterTypeOK, FlushInv
  <2>4. stored \in SUBSET Nat /\ 1..drained \in SUBSET Nat
    BY DEF PersisterInv, PersisterTypeOK
  <2>5. stored' \in SUBSET Nat
    BY <1>1, <2>4, Zenon
  <2> QED
    BY <2>1, <2>2, <2>3, <2>5
    DEF CommitFail, BacklogAfterFailure, PersisterInv, PersisterTypeOK
<1>3. StoreInv'
  BY <1>1 DEF CommitFail, BacklogAfterFailure, PersisterInv, PersisterTypeOK, StoreInv
<1>4. FlushInv' /\ FailingHoldsBacklog'
  BY DEF CommitFail, BacklogAfterFailure, PersisterInv, FlushInv, FailingHoldsBacklog
<1>5. PausedIffFailing'
  BY PauseAfterAssumption
  DEF CommitFail, OneMoreFailure, FailureCap, PersisterInv, PersisterTypeOK, PausedIffFailing
<1> QED  BY <1>2, <1>3, <1>4, <1>5 DEF PersisterInv

LEMMA CrashKeeps ==
  ASSUME PersisterInv, Crash
  PROVE  PersisterInv'
<1>1. PICK n \in Nat : stored = 1..n
  BY DEF PersisterInv, PersisterTypeOK, StoreInv
<1>2. issued' = n /\ drained' = n /\ stored' = 1..n /\ backlog' = {}
  BY <1>1, LastOfPrefix DEF Crash
<1>3. PersisterTypeOK'
  <2>1. failures' \in 0..FailureCap
    BY PauseAfterAssumption DEF Crash, FailureCap
  <2>2. queue' \in Seq(Callers) /\ committing' \in BOOLEAN /\ misordered' \in BOOLEAN /\ paused' \in BOOLEAN
    BY NoCaller, Zenon DEF Crash
  <2> QED  BY <1>2, <2>1, <2>2 DEF Crash, PersisterTypeOK
<1>4. StoreInv'
  BY <1>2 DEF StoreInv
<1>5. FlushInv' /\ FailingHoldsBacklog' /\ PausedIffFailing'
  BY PauseAfterAssumption DEF Crash, FlushInv, FailingHoldsBacklog, PausedIffFailing
<1> QED  BY <1>3, <1>4, <1>5 DEF PersisterInv

LEMMA StepPersister == PersisterInv /\ [PersisterNext]_persisterVars => PersisterInv'
<1> SUFFICES ASSUME PersisterInv, [PersisterNext]_persisterVars PROVE PersisterInv'
  OBVIOUS
<1>1. CASE UNCHANGED persisterVars
  BY <1>1 DEF persisterVars, PersisterInv, PersisterTypeOK, StoreInv, FlushInv,
              PausedIffFailing, FailingHoldsBacklog
<1> QED
  BY <1>1, CallKeeps, BeginKeeps, NothingToDoKeeps, CommitOkKeeps, CommitFailKeeps, CrashKeeps
  DEF PersisterNext

LEMMA PersisterAlways == PersisterSpec => []PersisterInv
BY InitPersister, StepPersister, PTL DEF PersisterSpec

-----------------------------------------------------------------------------
(* What a careful reader wants of a write path *)

\* Whatever fails, and whenever the process dies, the store is a prefix of
\* what the world did: recovery never meets a missing entry.
THEOREM StoreHasNoHole == PersisterSpec => []StoredIsPrefix
<1>1. PersisterInv => StoredIsPrefix
  BY DEF PersisterInv, PersisterTypeOK, StoreInv, StoredIsPrefix
<1> QED  BY <1>1, PersisterAlways, PTL

\* "Never losing a write": what is not in the store yet is in the backlog or
\* still in the world, through failed and doubly applied commits.
THEOREM WritesAreKept == PersisterSpec => []NothingLost
<1>1. PersisterInv => NothingLost
  BY DEF PersisterInv, PersisterTypeOK, StoreInv, NothingLost, Dirty
<1> QED  BY <1>1, PersisterAlways, PTL

\* The clock is paused exactly while the last PauseAfter commits have failed,
\* and a failing server always has something to try again.
THEOREM PauseFollowsFailures ==
  PersisterSpec => [](PersisterTypeOK /\ PausedIffFailing /\ FailingHoldsBacklog)
BY PersisterAlways, PTL DEF PersisterInv

\* The store only grows.
THEOREM StoreOnlyGrows == PersisterSpec => StoredGrows
<1>1. [PersisterNext]_persisterVars => [stored \subseteq stored']_persisterVars
  BY DEF PersisterNext, Call, Begin, NothingToDo, CommitOk, CommitFail, Crash, AfterCommit,
         persisterVars
<1> QED  BY <1>1, PTL DEF PersisterSpec, StoredGrows

-----------------------------------------------------------------------------
(*                                 THE LOOP                                *)

\* No timer is due before the first boundary, so a server that has just started
\* has announced that boundary and no other: this is what tells the deadlines
\* of one process from those of the next.
OnSchedule ==
  /\ \A t \in timers : t.at >= NextDeadline(0)
  /\ now = startedAt => deadline = NextDeadline(0)

LEMMA StepOnSchedule ==
  ClockTypeOK /\ Began /\ OnSchedule /\ [ClockNext]_clockVars => OnSchedule'
<1> SUFFICES ASSUME ClockTypeOK, Began, OnSchedule, [ClockNext]_clockVars PROVE OnSchedule'
  OBVIOUS
<1>0. startedAt' = startedAt /\ NextDeadline(0)' = NextDeadline(0) /\ NextDeadline(0) \in Nat
      /\ NextDeadline(0) > startedAt
  <2>1. startedAt' = startedAt
    BY DEF ClockNext, Fire, TickDone, Advance, Stop, StopClock, ResumeClock, clockVars
  <2> QED  BY <2>1, RoundMsAssumption, SMT DEF NextDeadline, ClockTypeOK
<1>1. ASSUME NEW t \in timers, Fire(t) PROVE OnSchedule'
  <2>1. now # startedAt /\ now' = now
    BY <1>0, <1>1 DEF Fire, OnSchedule, ClockTypeOK, Timer
  <2>2. timers' \subseteq timers
    BY <1>1 DEF Fire
  <2> QED  BY <1>0, <2>1, <2>2 DEF OnSchedule
<1>2. ASSUME NEW n \in Nat, Schedule(n) PROVE \A t \in timers' : t.at >= NextDeadline(0)
  <2>1. timers' = timers \cup {NewTimer(n)} /\ NewTimer(n) \in Timer
        /\ NewTimer(n).at >= NextDeadline(n)
    BY <1>2, NewTimerIsTimer DEF Schedule
  <2>2. NextDeadline(0) <= NextDeadline(n) /\ NextDeadline(n) \in Nat
    BY DeadlinesAreOrdered
  <2>3. NewTimer(n).at >= NextDeadline(0)
    BY <1>0, <2>1, <2>2 DEF Timer
  <2> QED  BY <2>1, <2>3 DEF OnSchedule
<1>3. CASE TickDone
  <2>1. CASE running
    BY <1>0, <1>2, <1>3, <2>1 DEF TickDone, OnSchedule, ClockTypeOK
  <2>2. CASE ~running
    BY <1>0, <1>3, <2>2 DEF TickDone, OnSchedule
  <2> QED  BY <2>1, <2>2
<1>4. CASE ResumeClock
  <2>1. CountAtResume \in Nat /\ Schedule(CountAtResume) /\ now' = now /\ deadline' = deadline
    BY <1>4, CountsAreNat DEF ResumeClock
  <2> QED  BY <1>0, <1>2, <2>1 DEF OnSchedule
<1>5. CASE Stop
  BY <1>0, <1>5 DEF Stop, StopClock, OnSchedule
<1>6. CASE Advance
  BY <1>0, <1>6 DEF Advance, OnSchedule, Began, ClockTypeOK
<1>7. CASE UNCHANGED clockVars
  BY <1>0, <1>7 DEF clockVars, OnSchedule
<1> QED  BY <1>1, <1>3, <1>4, <1>5, <1>6, <1>7 DEF ClockNext

\* All that the clock needs to be told is where it stands.
ClockInv ==
  /\ ClockTypeOK
  /\ Began
  /\ Chain
  /\ Announced
  /\ OneChainInv
  /\ TickedInv
  /\ OnSchedule

LEMMA InitClock == ClockInit => ClockInv
<1> SUFFICES ASSUME ClockInit PROVE ClockInv
  OBVIOUS
<1>1. Began /\ now = startedAt /\ NextDeadline(0) = RoundMs /\ count = 0
  BY RoundMsAssumption, SMT DEF ClockInit, Began, NextDeadline
<1>2. Announced /\ OnSchedule
  BY <1>1, RoundMsAssumption DEF ClockInit, Announced, OnSchedule
<1> QED  BY <1>1, <1>2, InitTypes, InitChain, InitOneChain DEF ClockInv

LEMMA StepClock == ClockInv /\ [ClockNext]_clockVars => ClockInv'
BY StepTypes, StepChain, StepAnnounced, StepOneChain, StepTicked, StepOnSchedule DEF ClockInv

\* The clock of the next process is as good as the first one's.
LEMMA RestartedClock == ClockInv /\ ClockRestarts => ClockInv'
<1> SUFFICES ASSUME ClockInv, ClockRestarts PROVE ClockInv'
  OBVIOUS
<1> DEFINE t == [id |-> handle', at |-> now + RoundMs]
<1>0. running' = TRUE /\ crossed' = FALSE
  BY Zenon DEF ClockRestarts
<1>1. /\ now' = now /\ startedAt' = now /\ count' = 0 /\ running' /\ firing' = 0
      /\ deadline' = now + RoundMs /\ tickedAt' = -1 /\ ~crossed'
      /\ running' \in BOOLEAN /\ crossed' \in BOOLEAN
      /\ now \in Nat /\ now + RoundMs \in Nat
  <2>1. running' \in BOOLEAN /\ crossed' \in BOOLEAN /\ running' /\ ~crossed'
    BY <1>0, Zenon
  <2>2. now \in Nat /\ now + RoundMs \in Nat
    BY RoundMsAssumption DEF ClockInv, ClockTypeOK
  <2> QED  BY <2>1, <2>2 DEF ClockRestarts
<1>2. handle' \in TimerIds /\ t \in Timer /\ t.id = handle' /\ t.at = now + RoundMs
  BY <1>1, TimersAssumption DEF ClockRestarts, Timer
<1>3. timers' = {t}
  BY DEF ClockRestarts
<1>4. NextDeadline(0)' = now + RoundMs /\ NextDeadline(count)' = now + RoundMs
  BY <1>1, RoundMsAssumption, SMT DEF NextDeadline
<1> HIDE DEF t
<1>5. ClockTypeOK' /\ Began'
  BY <1>1, <1>2, <1>3 DEF ClockTypeOK, Began
<1>6. Chain' /\ Announced' /\ OnSchedule'
  BY <1>1, <1>2, <1>3, <1>4 DEF Chain, ChainAlive, HandleIsPending, Announced, OnSchedule
<1>7. OneChainInv'
  BY <1>1, <1>2, <1>3, <1>4 DEF OneChainInv
<1>8. TickedInv'
  BY <1>1 DEF TickedInv
<1> QED  BY <1>5, <1>6, <1>7, <1>8 DEF ClockInv

-----------------------------------------------------------------------------
(* A step of the loop is a step of each *)

LoopInv ==
  /\ ClockInv
  /\ PersisterInv
  /\ RunsUnlessPaused
  /\ settled \in Nat

LEMMA InitLoop == Init => LoopInv
<1> SUFFICES ASSUME Init PROVE LoopInv
  OBVIOUS
<1>1. RunsUnlessPaused
  BY DEF Init, ClockInit, PersisterInit, RunsUnlessPaused
<1> QED  BY <1>1, InitClock, InitPersister DEF Init, LoopInv

\* The two callbacks call the clock as it allows: stop() when it runs, resume()
\* when it does not.  Everything else moves the clock alone, the persister
\* alone, or each by an action of its own.
LEMMA LoopSteps ==
  LoopInv /\ [Next]_loopVars
    => /\ [ClockNext]_clockVars \/ ClockRestarts
       /\ [PersisterNext]_persisterVars
       /\ RunsUnlessPaused'
       /\ settled' \in Nat
<1> SUFFICES ASSUME LoopInv, [Next]_loopVars
             PROVE  /\ [ClockNext]_clockVars \/ ClockRestarts
                    /\ [PersisterNext]_persisterVars
                    /\ RunsUnlessPaused'
                    /\ settled' \in Nat
  OBVIOUS
<1> DEFINE Goal == /\ [ClockNext]_clockVars \/ ClockRestarts
                   /\ [PersisterNext]_persisterVars
                   /\ RunsUnlessPaused'
                   /\ settled' \in Nat
<1>0. Settle => settled' \in Nat
  BY DEF Settle, LoopInv
<1>p. paused <=> failures >= PauseAfter
  BY DEF LoopInv, PersisterInv, PausedIffFailing
<1>1. ASSUME NEW t \in timers, Tick(t) PROVE Goal
  <2>1. Fire(t) /\ running' = running /\ settled' = settled
    BY <1>1 DEF Tick, Fire
  <2>2. Call("tick", 1) \/ UNCHANGED persisterVars
    BY <1>1 DEF Tick
  <2>3. paused' = paused /\ [PersisterNext]_persisterVars
    BY <2>2, CallersAssumption DEF Call, persisterVars, PersisterNext
  <2> QED  BY <2>1, <2>3 DEF ClockNext, RunsUnlessPaused, LoopInv
<1>2. CASE AfterTick
  <2>1. TickDone /\ running' = running /\ UNCHANGED persisterVars /\ paused' = paused
    BY <1>2 DEF AfterTick, TickDone, persisterVars
  <2>2. settled' \in Nat
    BY <1>2 DEF AfterTick, LoopInv
  <2> QED  BY <2>1, <2>2 DEF ClockNext, RunsUnlessPaused, LoopInv
<1>3. ASSUME NEW changes \in 0..1, Message(changes) PROVE Goal
  <2>1. Call("message", changes) /\ UNCHANGED clockVars /\ settled' = settled
    BY <1>3 DEF Message
  <2>2. paused' = paused /\ running' = running /\ [PersisterNext]_persisterVars
    BY <2>1, CallersAssumption DEF Call, PersisterNext, clockVars
  <2> QED  BY <2>1, <2>2 DEF RunsUnlessPaused, LoopInv
<1>4. CASE BeginFlush
  <2>1. Begin /\ UNCHANGED clockVars /\ settled' = settled
    BY <1>4 DEF BeginFlush
  <2>2. paused' = paused /\ running' = running
    BY <2>1 DEF Begin, clockVars
  <2> QED  BY <2>1, <2>2 DEF PersisterNext, RunsUnlessPaused, LoopInv
<1>5. CASE EmptyFlush
  <2>1. NothingToDo /\ UNCHANGED clockVars /\ settled' \in Nat
    BY <1>0, <1>5 DEF EmptyFlush
  <2>2. paused' = paused /\ running' = running
    BY <2>1 DEF NothingToDo, clockVars
  <2> QED  BY <2>1, <2>2 DEF PersisterNext, RunsUnlessPaused, LoopInv
<1>6. CASE Committed
  <2>1. CommitOk /\ settled' \in Nat
    BY <1>0, <1>6 DEF Committed
  <2>2. CASE failures >= PauseAfter
    <3>1. ~running /\ ResumeClock /\ ~paused' /\ running'
      BY <1>6, <1>p, <2>2
      DEF Committed, MustResume, CommitOk, StillPaused, ResumeClock, LoopInv, RunsUnlessPaused
    <3> QED  BY <2>1, <3>1 DEF ClockNext, PersisterNext, RunsUnlessPaused
  <2>3. CASE ~(failures >= PauseAfter)
    <3>1. UNCHANGED clockVars /\ paused' = paused /\ running' = running
      BY <1>6, <2>3 DEF Committed, MustResume, CommitOk, StillPaused, clockVars
    <3> QED  BY <2>1, <3>1 DEF PersisterNext, RunsUnlessPaused, LoopInv
  <2> QED  BY <2>2, <2>3
<1>7. ASSUME NEW applied \in BOOLEAN, NotCommitted(applied) PROVE Goal
  <2>1. CommitFail(applied) /\ settled' \in Nat
    BY <1>0, <1>7 DEF NotCommitted
  <2>2. CASE failures + 1 = PauseAfter
    <3>1. failures < PauseAfter
      BY <2>2, PauseAfterAssumption DEF LoopInv, PersisterInv, PersisterTypeOK
    <3>2. running
      BY <1>p, <3>1, PauseAfterAssumption
      DEF LoopInv, RunsUnlessPaused, PersisterInv, PersisterTypeOK
    <3>3. StopClock /\ ~running' /\ paused'
      BY <1>7, <2>2 DEF NotCommitted, StopClock, CommitFail
    <3> QED  BY <2>1, <3>2, <3>3 DEF ClockNext, Stop, PersisterNext, RunsUnlessPaused
  <2>3. CASE failures + 1 # PauseAfter
    <3>1. UNCHANGED clockVars /\ paused' = paused /\ running' = running
      BY <1>7, <2>3 DEF NotCommitted, CommitFail, clockVars
    <3> QED  BY <2>1, <3>1 DEF PersisterNext, RunsUnlessPaused, LoopInv
  <2> QED  BY <2>2, <2>3
<1>8. CASE TimePasses
  <2>1. Advance /\ UNCHANGED persisterVars /\ settled' = settled
    BY <1>8 DEF TimePasses
  <2>2. paused' = paused /\ running' = running
    BY <2>1 DEF Advance, persisterVars
  <2> QED  BY <2>1, <2>2 DEF ClockNext, RunsUnlessPaused, LoopInv
<1>9. CASE Restart
  BY <1>9 DEF Restart, Crash, ClockRestarts, PersisterNext, RunsUnlessPaused
<1>10. CASE UNCHANGED loopVars
  BY <1>10 DEF loopVars, clockVars, persisterVars, RunsUnlessPaused, LoopInv
<1> QED
  BY <1>1, <1>2, <1>3, <1>4, <1>5, <1>6, <1>7, <1>8, <1>9, <1>10 DEF Next

LEMMA StepLoop == LoopInv /\ [Next]_loopVars => LoopInv'
BY LoopSteps, StepClock, RestartedClock, StepPersister DEF LoopInv

LEMMA LoopAlways == Spec => []LoopInv
BY InitLoop, StepLoop, PTL DEF Spec

-----------------------------------------------------------------------------
(* What the server promises *)

\* In the whole server, where the calls to stop() and resume() come from the
\* persister, ticks await their flush behind those of messages and the process
\* may die at any step: the variables keep their types, a running clock has its
\* next tick pending or under way, the store is a prefix of what the world did,
\* and what is not in it yet is still held.
THEOREM ServerIsSafe == Spec => [](TypeOK /\ ChainAlive /\ StoredIsPrefix /\ NothingLost)
<1>1. LoopInv => TypeOK /\ ChainAlive
  BY DEF LoopInv, TypeOK, ClockInv, Chain, PersisterInv
<1>2. LoopInv => StoredIsPrefix
  BY DEF LoopInv, PersisterInv, PersisterTypeOK, StoreInv, StoredIsPrefix
<1>3. LoopInv => NothingLost
  BY DEF LoopInv, PersisterInv, PersisterTypeOK, StoreInv, NothingLost, Dirty
<1> QED  BY <1>1, <1>2, <1>3, LoopAlways, PTL

\* The clock runs exactly when the persister last told it to: no order of
\* failures, commits and continuations leaves a paused server ticking or a
\* healthy one stopped.
THEOREM ServerRunsUnlessPaused == Spec => []RunsUnlessPaused
BY LoopAlways, PTL DEF LoopInv

\* Across pauses and crashes, a deadline that replaces another of the same
\* process is still to come and later than it.
THEOREM ServerDeadlinesAhead == Spec => DeadlineMovesAhead
<1>1. LoopInv /\ [Next]_loopVars
        => [deadline' # deadline /\ startedAt' = startedAt
              => deadline' > now /\ deadline' > deadline]_clockVars
  <2> SUFFICES ASSUME LoopInv, [Next]_loopVars, deadline' # deadline, startedAt' = startedAt
               PROVE  deadline' > now /\ deadline' > deadline
    OBVIOUS
  <2>1. CASE [ClockNext]_clockVars
    BY <2>1, AnnouncedAhead DEF LoopInv, ClockInv
  <2>2. ~ClockRestarts
    <3> SUFFICES ASSUME ClockRestarts PROVE FALSE
      OBVIOUS
    <3>1. now = startedAt /\ deadline' = now + RoundMs
      BY DEF ClockRestarts
    <3>2. deadline = now + RoundMs
      BY <3>1, RoundMsAssumption, SMT DEF LoopInv, ClockInv, ClockTypeOK, OnSchedule, NextDeadline
    <3> QED  BY <3>1, <3>2
  <2> QED  BY <2>1, <2>2, LoopSteps
<1> QED  BY <1>1, LoopAlways, PTL DEF Spec, DeadlineMovesAhead

\* Across pauses and crashes, two ticks of a process never fall in one round of
\* the wall clock, unless a resume crossed a tick under way.
THEOREM ServerTicksOncePerRound == Spec => OneTickPerRound
<1>1. LoopInv /\ [Next]_loopVars
        => [firing' > firing => \/ crossed
                                \/ tickedAt = -1
                                \/ Elapsed(tickedAt') > Elapsed(tickedAt)]_clockVars
  <2> SUFFICES ASSUME LoopInv, [Next]_loopVars, firing' > firing
               PROVE  crossed \/ tickedAt = -1 \/ Elapsed(tickedAt') > Elapsed(tickedAt)
    OBVIOUS
  <2>1. CASE [ClockNext]_clockVars
    BY <2>1, TickInNewRound DEF LoopInv, ClockInv
  <2>2. ~ClockRestarts
    BY DEF ClockRestarts, LoopInv, ClockInv, ClockTypeOK
  <2> QED  BY <2>1, <2>2, LoopSteps
<1> QED  BY <1>1, LoopAlways, PTL DEF Spec, OneTickPerRound

-----------------------------------------------------------------------------
(*                                THE TABLES                               *)

-----------------------------------------------------------------------------
(* The inductive invariant *)

\* The writes of the backlog that are about company c.
Mine(c, b) == {i \in 1..Len(b) : b[i].id = c}
InMemory(co) == co.status \in {"open", "closed"}

\* Every entry and every snapshot there is of a company.
Known(c, r, b, co) ==
  r.entries \cup co.news \cup {NoSnapshot, r.snapshot, co.folded}
    \cup UNION {b[i].news \cup {b[i].folded} : i \in Mine(c, b)}

OneHistory(K) == \A e, f \in K : e.seq = f.seq => e = f

\* Seats are given in order, whoever left was a member, nobody is left in a
\* closed company, and in an open one whoever plays is a member.
Seated(v, K) ==
  /\ v.left \subseteq Members(v)
  /\ \A s \in Members(v), r \in Seats : r < s => r \in Members(v)
  /\ v.status = "closed" => LiveMembers(v) = {}
  /\ v.status = "open" => \A e \in K : e.seq = v.seq => e.seats \subseteq LiveMembers(v)

Later(v, u) ==
  /\ v.seq <= u.seq /\ v.left \subseteq u.left
  /\ \A s \in Members(v) : u.holder[s] = v.holder[s]

\* What u brings is newer than v.
Newer(v, news, folded) ==
  /\ \A e \in news : e.seq > v.seq
  /\ folded # NoSnapshot => folded.seq > v.seq
Within(v, news, folded) ==
  /\ \A e \in news : e.seq <= v.seq
  /\ folded.seq <= v.seq

RowOK(r) ==
  /\ r.snapshot.seq <= r.seq
  /\ {e.seq : e \in r.entries} = (r.snapshot.seq + 1)..r.seq

InOrder(c, b) ==
  /\ \A i \in Mine(c, b) : Within(b[i], b[i].news, b[i].folded)
  /\ \A i, j \in Mine(c, b) :
       i < j => Later(b[i], b[j]) /\ Newer(b[i], b[j].news, b[j].folded)

RowIsBehind(c, r, b) ==
  \A j \in Mine(c, b) : (\A i \in Mine(c, b) : i <= j) => Later(r, b[j])

\* What follows the row is in the writes.
Covered(c, r, b) ==
  \A j \in Mine(c, b) : \A x \in (r.seq + 1)..b[j].seq :
    \E i \in Mine(c, b) : \E e \in b[i].news : e.seq = x

\* A row that a snapshot has overtaken will be again.
Overtaken(c, r, b) ==
  \/ \E i \in Mine(c, b) : b[i].folded # NoSnapshot /\ b[i].folded.seq >= r.snapshot.seq
  \/ \A i \in Mine(c, b) : b[i].folded = NoSnapshot /\ \A e \in b[i].news : e.seq > r.snapshot.seq

MemoryOK(c, r, b, co) ==
  /\ Within(co, co.news, co.folded)
  /\ Later(r, co) /\ Newer(r, co.news, co.folded)
  /\ \A i \in Mine(c, b) : Later(b[i], co) /\ Newer(b[i], co.news, co.folded)
  /\ \A x \in (r.seq + 1)..co.seq :
       \/ \E e \in co.news : e.seq = x
       \/ \E i \in Mine(c, b) : \E e \in b[i].news : e.seq = x
  /\ co.status = "open" =>
       \A e \in Known(c, r, b, co) : e.seq = co.seq => e.seats = co.seats
  /\ co.status = "open" => co.seats \subseteq LiveMembers(co)

CompanyOK(c, r, b, co) ==
  LET K == Known(c, r, b, co)
  IN /\ OneHistory(K)
     /\ RowOK(r) /\ Seated(r, K)
     /\ \A i \in Mine(c, b) : Seated(b[i], K)
     /\ InOrder(c, b) /\ RowIsBehind(c, r, b) /\ Covered(c, r, b) /\ Overtaken(c, r, b)
     /\ InMemory(co) => MemoryOK(c, r, b, co) /\ Seated(co, K)
     /\ co.status = "undrawn" => co = Undrawn /\ r = NoRow /\ Mine(c, b) = {}
     /\ co.status = "gone" => co = [Undrawn EXCEPT !.status = "gone"]

TablesInv == StoreTypeOK /\ \A c \in Companies : CompanyOK(c, row[c], unsaved, live[c])

-----------------------------------------------------------------------------
(* Counting, and what a fold goes through *)

LEMMA Sizes ==
  /\ MaxCompanies \in Nat /\ MaxSeats \in Nat /\ MaxSeq \in Nat /\ MaxSeats > 0
  /\ Seats \subseteq Nat /\ 0 \in Seats /\ NoSnapshot \in Entry
<1>1. MaxCompanies \in Nat /\ MaxSeats \in Nat /\ MaxSeq \in Nat /\ MaxSeats > 0
  BY StoreBounds
<1>2. Seats \subseteq Nat /\ 0 \in Seats
  BY <1>1 DEF Seats
<1>3. 0 \in 0..MaxSeq /\ {0} \in SUBSET Seats
  BY <1>1, <1>2
<1> QED  BY <1>1, <1>2, <1>3 DEF NoSnapshot, Entry

LEMMA LeastExists ==
  ASSUME NEW T, T \subseteq Nat, T # {}
  PROVE  \E x \in T : \A y \in T : x <= y
<1>1. IsWellFoundedOn(OpToRel(<, Nat), Nat)
  BY NatLessThanWellFounded
<1>2. PICK x \in T : \A y \in T : ~(<<y, x>> \in OpToRel(<, Nat))
  BY <1>1, WFMin
<1>3. \A y \in T : ~(y < x)
  BY <1>2 DEF OpToRel
<1> QED  BY <1>3

\* Up to n: what holds at 0 and goes from each number to the next holds at n.
LEMMA UpTo ==
  ASSUME NEW T, NEW n \in Nat, 0 \in T, \A k \in 0..(n - 1) : k \in T => k + 1 \in T
  PROVE  n \in T
<1> DEFINE C == {k \in 0..n : k \notin T}
<1> SUFFICES ASSUME n \notin T PROVE FALSE
  OBVIOUS
<1>1. PICK k \in C : \A j \in C : k <= j
  <2>1. C \subseteq Nat /\ C # {}
    OBVIOUS
  <2> HIDE DEF C
  <2> QED  BY <2>1, LeastExists
<1>2. k # 0 /\ k - 1 \in 0..(n - 1) /\ k - 1 \notin C
  BY <1>1
<1>3. k - 1 \in T
  BY <1>2
<1> QED  BY <1>1, <1>2, <1>3

LEMMA MaxUpTo ==
  ASSUME NEW k \in Nat, k > 0
  PROVE  Max(1..k) = k /\ (1..k) \ {k} = 1..(k - 1)
<1>1. Max(1..k) = k
  BY DEF Max
<1> QED  BY <1>1

LEMMA MaxOfTop ==
  ASSUME NEW k \in Nat, NEW x \in SUBSET (1..(k + 1)), x \notin SUBSET (1..k)
  PROVE  Max(x) = k + 1 /\ x \ {Max(x)} \in SUBSET (1..k) /\ x # {}
<1>1. k + 1 \in x /\ \A y \in x : y \in Nat /\ k + 1 >= y
  OBVIOUS
<1>2. Max(x) = k + 1
  <2>1. \A m \in x : (\A y \in x : m >= y) => m = k + 1
    BY <1>1
  <2>2. k + 1 \in x /\ \A y \in x : k + 1 >= y
    BY <1>1
  <2> QED  BY <2>1, <2>2 DEF Max
<1> QED  BY <1>1, <1>2

\* A fold of Put goes through one state per write, each made from the one before.
LEMMA PutFold ==
  ASSUME NEW n \in Nat, NEW s, DOMAIN s = 1..n
  PROVE  \E db : /\ db[0] = [ok |-> TRUE, rows |-> row]
                 /\ \A k \in 1..n : db[k] = Put(db[k - 1], s[k])
                 /\ Transaction(s) = db[n]
<1> DEFINE base == [ok |-> TRUE, rows |-> row]
<1>a. Transaction(s)
        = MapThenFoldSet(LAMBDA x, y : Put(y, x), base, LAMBDA i : s[i],
                         LAMBDA S : Max(S), DOMAIN s)
  BY DEF Transaction, FoldLeft
<1> HIDE DEF base
<1> DEFINE Step(f, x) == IF x = {} THEN base ELSE Put(f[x \ {Max(x)}], s[Max(x)])
           Solves(f, k) == f = [x \in SUBSET (1..k) |-> Step(f, x)]
           T == {k \in Nat : \E f : Solves(f, k)}
<1>1. 0 \in T
  <2>1. SUBSET (1..0) = {{}}
    OBVIOUS
  <2>2. Solves([x \in SUBSET (1..0) |-> base], 0)
    BY <2>1
  <2> QED  BY <2>2
<1>2. ASSUME NEW k \in 0..(n - 1), k \in T PROVE k + 1 \in T
  <2>1. PICK f : Solves(f, k)
    BY <1>2
  <2> DEFINE g == [x \in SUBSET (1..(k + 1)) |->
                     IF x \in SUBSET (1..k) THEN f[x] ELSE Step(f, x)]
  <2>2. \A x \in SUBSET (1..k) : g[x] = f[x] /\ f[x] = Step(f, x)
    <3>1. \A x \in SUBSET (1..k) : f[x] = Step(f, x)
      <4> HIDE DEF Step, g
      <4> QED  BY <2>1
    <3>2. \A x \in SUBSET (1..k) : x \in SUBSET (1..(k + 1))
      OBVIOUS
    <3>3. \A x \in SUBSET (1..k) : g[x] = f[x]
      <4> HIDE DEF Step
      <4> QED  BY <3>2
    <3> QED  BY <3>1, <3>3
  <2>3. ASSUME NEW x \in SUBSET (1..(k + 1)) PROVE g[x] = Step(g, x)
    <3>1. CASE x \in SUBSET (1..k)
      <4>1. x \ {Max(x)} \in SUBSET (1..k)
        BY <3>1
      <4>2. g[x \ {Max(x)}] = f[x \ {Max(x)}]
        BY <2>2, <4>1
      <4>3. g[x] = Step(f, x)
        BY <2>2, <3>1
      <4> HIDE DEF g
      <4> QED  BY <4>2, <4>3
    <3>2. CASE x \notin SUBSET (1..k)
      <4>1. x \ {Max(x)} \in SUBSET (1..k)
        <5> HIDE DEF T, g, Solves, Step
        <5>1. k \in Nat
          OBVIOUS
        <5> QED  BY <3>2, <5>1, MaxOfTop
      <4>2. g[x \ {Max(x)}] = f[x \ {Max(x)}]
        BY <2>2, <4>1
      <4>3. g[x] = Step(f, x)
        BY <3>2
      <4> HIDE DEF g
      <4> QED  BY <4>2, <4>3
    <3> QED  BY <3>1, <3>2
  <2>4. Solves(g, k + 1)
    <3>1. g = [x \in SUBSET (1..(k + 1)) |-> g[x]]
      OBVIOUS
    <3> HIDE DEF g
    <3> QED  BY <2>3, <3>1
  <2> HIDE DEF g, Solves
  <2> QED  BY <2>4
<1>3. PICK f : Solves(f, n) /\ Transaction(s) = f[1..n]
  <2>1. \E f : Solves(f, n)
    <3> HIDE DEF T
    <3>1. n \in T
      BY <1>1, <1>2, UpTo
    <3> QED  BY <3>1 DEF T
  <2>2. Solves(CHOOSE f : Solves(f, n), n)
    <3> HIDE DEF Solves
    <3> QED  BY <2>1
  <2>3. Transaction(s) = (CHOOSE f : Solves(f, n))[1..n]
    BY <1>a DEF MapThenFoldSet
  <2> HIDE DEF Solves
  <2> QED  BY <2>2, <2>3
<1> DEFINE db == [k \in 0..n |-> f[1..k]]
<1>4. db[0] = base
  <2>1. 1..0 = {} /\ 0 \in 0..n
    OBVIOUS
  <2>2. f[{}] = base
    BY <1>3
  <2> QED  BY <2>1, <2>2
<1>5. ASSUME NEW k \in 1..n PROVE db[k] = Put(db[k - 1], s[k])
  <2>1. 1..k \in SUBSET (1..n) /\ 1..k # {} /\ k \in 0..n /\ k - 1 \in 0..n
    <3> HIDE DEF db, T, Solves, Step
    <3>1. k \in Nat /\ k > 0 /\ k <= n /\ k \in 1..k /\ k - 1 \in Nat
      OBVIOUS
    <3>2. \A x \in 1..k : x \in 1..n
      BY <3>1
    <3>3. 1..k \in SUBSET (1..n)
      BY <3>2
    <3> QED  BY <3>1, <3>3
  <2>2. f[1..k] = Step(f, 1..k)
    BY <1>3, <2>1
  <2>3. Max(1..k) = k /\ (1..k) \ {k} = 1..(k - 1)
    BY MaxUpTo
  <2> QED  BY <2>1, <2>2, <2>3
<1>6. n \in 0..n
  OBVIOUS
<1>7. Transaction(s) = db[n]
  BY <1>3, <1>6
<1> HIDE DEF db
<1> QED  BY <1>4, <1>5, <1>7 DEF base

\* A fold of Member goes through one state per seat, each made from the one before.
LEMMA MemberFold ==
  ASSUME NEW rows, NEW w
  PROVE  \E db : /\ db[0] = [ok |-> TRUE, rows |-> rows]
                 /\ \A k \in 1..MaxSeats : db[k] = Member(db[k - 1], w, k - 1)
                 /\ WithMembers(rows, w) = db[MaxSeats]
<1> DEFINE n == MaxSeats
           s == [i \in 1..n |-> i - 1]
           base == [ok |-> TRUE, rows |-> rows]
<1>c. n \in Nat
  BY Sizes
<1>a. DOMAIN s = 1..n /\ \A k \in 1..n : s[k] = k - 1
  OBVIOUS
<1>b. WithMembers(rows, w)
        = MapThenFoldSet(LAMBDA x, y : Member(y, w, x), base, LAMBDA i : s[i],
                         LAMBDA S : Max(S), DOMAIN s)
  BY DEF WithMembers, FoldLeft
<1> HIDE DEF n, s, base
<1> USE <1>c
<1> DEFINE Step(f, x) == IF x = {} THEN base ELSE Member(f[x \ {Max(x)}], w, s[Max(x)])
           Solves(f, k) == f = [x \in SUBSET (1..k) |-> Step(f, x)]
           T == {k \in Nat : \E f : Solves(f, k)}
<1>1. 0 \in T
  <2>1. SUBSET (1..0) = {{}}
    OBVIOUS
  <2>2. Solves([x \in SUBSET (1..0) |-> base], 0)
    BY <2>1
  <2> QED  BY <2>2
<1>2. ASSUME NEW k \in 0..(n - 1), k \in T PROVE k + 1 \in T
  <2>1. PICK f : Solves(f, k)
    BY <1>2
  <2> DEFINE g == [x \in SUBSET (1..(k + 1)) |->
                     IF x \in SUBSET (1..k) THEN f[x] ELSE Step(f, x)]
  <2>2. \A x \in SUBSET (1..k) : g[x] = f[x] /\ f[x] = Step(f, x)
    <3>1. \A x \in SUBSET (1..k) : f[x] = Step(f, x)
      <4> HIDE DEF Step, g
      <4> QED  BY <2>1
    <3>2. \A x \in SUBSET (1..k) : x \in SUBSET (1..(k + 1))
      OBVIOUS
    <3>3. \A x \in SUBSET (1..k) : g[x] = f[x]
      <4> HIDE DEF Step
      <4> QED  BY <3>2
    <3> QED  BY <3>1, <3>3
  <2>3. ASSUME NEW x \in SUBSET (1..(k + 1)) PROVE g[x] = Step(g, x)
    <3>1. CASE x \in SUBSET (1..k)
      <4>1. x \ {Max(x)} \in SUBSET (1..k)
        BY <3>1
      <4>2. g[x \ {Max(x)}] = f[x \ {Max(x)}]
        BY <2>2, <4>1
      <4>3. g[x] = Step(f, x)
        BY <2>2, <3>1
      <4> HIDE DEF g
      <4> QED  BY <4>2, <4>3
    <3>2. CASE x \notin SUBSET (1..k)
      <4>1. x \ {Max(x)} \in SUBSET (1..k)
        <5> HIDE DEF T, g, Solves, Step
        <5>1. k \in Nat
          OBVIOUS
        <5> QED  BY <3>2, <5>1, MaxOfTop
      <4>2. g[x \ {Max(x)}] = f[x \ {Max(x)}]
        BY <2>2, <4>1
      <4>3. g[x] = Step(f, x)
        BY <3>2
      <4> HIDE DEF g
      <4> QED  BY <4>2, <4>3
    <3> QED  BY <3>1, <3>2
  <2>4. Solves(g, k + 1)
    <3>1. g = [x \in SUBSET (1..(k + 1)) |-> g[x]]
      OBVIOUS
    <3> HIDE DEF g
    <3> QED  BY <2>3, <3>1
  <2> HIDE DEF g, Solves
  <2> QED  BY <2>4
<1>3. PICK f : Solves(f, n) /\ WithMembers(rows, w) = f[1..n]
  <2>1. \E f : Solves(f, n)
    <3> HIDE DEF T
    <3>1. n \in T
      BY <1>1, <1>2, UpTo
    <3> QED  BY <3>1 DEF T
  <2>2. Solves(CHOOSE f : Solves(f, n), n)
    <3> HIDE DEF Solves
    <3> QED  BY <2>1
  <2>3. WithMembers(rows, w) = (CHOOSE f : Solves(f, n))[1..n]
    BY <1>a, <1>b DEF MapThenFoldSet
  <2> HIDE DEF Solves
  <2> QED  BY <2>2, <2>3
<1> DEFINE db == [k \in 0..n |-> f[1..k]]
<1>4. db[0] = base
  <2>1. 1..0 = {} /\ 0 \in 0..n
    OBVIOUS
  <2>2. f[{}] = base
    BY <1>3
  <2> QED  BY <2>1, <2>2
<1>5. ASSUME NEW k \in 1..n PROVE db[k] = Member(db[k - 1], w, s[k])
  <2>1. 1..k \in SUBSET (1..n) /\ 1..k # {} /\ k \in 0..n /\ k - 1 \in 0..n
    <3> HIDE DEF db, T, Solves, Step
    <3>1. k \in Nat /\ k > 0 /\ k <= n /\ k \in 1..k /\ k - 1 \in Nat
      OBVIOUS
    <3>2. \A x \in 1..k : x \in 1..n
      BY <3>1
    <3>3. 1..k \in SUBSET (1..n)
      BY <3>2
    <3> QED  BY <3>1, <3>3
  <2>2. f[1..k] = Step(f, 1..k)
    BY <1>3, <2>1
  <2>3. Max(1..k) = k /\ (1..k) \ {k} = 1..(k - 1)
    BY MaxUpTo
  <2> QED  BY <2>1, <2>2, <2>3
<1>6. n \in 0..n
  OBVIOUS
<1>7. WithMembers(rows, w) = db[n]
  BY <1>3, <1>6
<1> HIDE DEF db
<1> QED  BY <1>4, <1>5, <1>7, <1>a DEF base, n

-----------------------------------------------------------------------------
(* The transaction, one member and one write at a time *)

Tables == [ok : BOOLEAN, rows : [Companies -> Row]]

\* What the statements about member s leave of the row q of their company.
MemberWritten(r, w, s, q) ==
  /\ q.status = r.status /\ q.seq = r.seq /\ q.snapshot = r.snapshot /\ q.entries = r.entries
  /\ \A t \in Seats : q.holder[t] = IF t = s /\ r.holder[t] = NoOne THEN w.holder[t] ELSE r.holder[t]
  /\ q.left = r.left \cup ({s} \cap w.left \cap Members(w))

LEMMA OneMember ==
  ASSUME NEW db \in Tables, NEW w \in Write, NEW s \in Seats
  PROVE  /\ Member(db, w, s) \in Tables
         /\ Member(db, w, s).ok =>
              /\ db.ok
              /\ \A c \in Companies \ {w.id} : Member(db, w, s).rows[c] = db.rows[c]
              /\ MemberWritten(db.rows[w.id], w, s, Member(db, w, s).rows[w.id])
<1> DEFINE m == Member(db, w, s)
           r == db.rows[w.id]
<1>1. /\ db.ok \in BOOLEAN /\ db.rows \in [Companies -> Row] /\ w.id \in Companies /\ r \in Row
      /\ db = [ok |-> db.ok, rows |-> db.rows]
      /\ w.holder \in Holders /\ w.left \in SUBSET Seats
      /\ r.holder \in Holders /\ r.left \in SUBSET Seats
  BY DEF Tables, Write, Row
<1>2. s \in Members(w) <=> w.holder[s] # NoOne
  BY DEF Members
<1>3. CASE ~db.ok
  <2>1. m = db
    BY <1>3 DEF Member
  <2> HIDE DEF m
  <2> QED  BY <1>1, <1>3, <2>1 DEF m
<1>4. CASE db.ok /\ w.holder[s] = NoOne
  <2>1. m = db
    BY <1>4 DEF Member
  <2>2. MemberWritten(r, w, s, r)
    BY <1>1, <1>2, <1>4 DEF MemberWritten
  <2> HIDE DEF m
  <2> QED  BY <1>1, <1>4, <2>1, <2>2 DEF m
<1>5. CASE db.ok /\ w.holder[s] # NoOne /\ r.holder[s] # NoOne
  <2> DEFINE q == [r EXCEPT !.left = @ \cup ({s} \cap w.left)]
  <2>1. m = [db EXCEPT !.rows = [@ EXCEPT ![w.id] = q]]
    BY <1>5 DEF Member
  <2>2. q \in Row
    BY <1>1 DEF Row
  <2>3. MemberWritten(r, w, s, q)
    BY <1>1, <1>2, <1>5 DEF MemberWritten, Row
  <2> HIDE DEF m, q
  <2>4. m.ok = db.ok /\ m.rows = [db.rows EXCEPT ![w.id] = q] /\ m = [ok |-> m.ok, rows |-> m.rows]
    BY <1>1, <2>1
  <2>5. /\ m.rows \in [Companies -> Row] /\ m.rows[w.id] = q
        /\ \A c \in Companies \ {w.id} : m.rows[c] = db.rows[c]
    BY <1>1, <2>2, <2>4
  <2>6. m \in Tables
    BY <1>1, <2>4, <2>5 DEF Tables
  <2> QED  BY <1>5, <2>3, <2>5, <2>6 DEF m
<1>6. CASE /\ db.ok /\ w.holder[s] # NoOne /\ r.holder[s] = NoOne
           /\ s \notin w.left /\ HasLiveRow(db.rows, w.holder[s])
  <2>1. m = [db EXCEPT !.ok = FALSE]
    BY <1>6 DEF Member
  <2> HIDE DEF m
  <2>2. m.ok = FALSE /\ m.rows = db.rows /\ m = [ok |-> m.ok, rows |-> m.rows]
    BY <1>1, <2>1
  <2>3. m \in Tables
    BY <1>1, <2>2 DEF Tables
  <2> QED  BY <2>2, <2>3 DEF m
<1>7. CASE /\ db.ok /\ w.holder[s] # NoOne /\ r.holder[s] = NoOne
           /\ ~(s \notin w.left /\ HasLiveRow(db.rows, w.holder[s]))
  <2> DEFINE q == [r EXCEPT !.holder[s] = w.holder[s], !.left = @ \cup ({s} \cap w.left)]
  <2>1. m = [db EXCEPT !.rows = [@ EXCEPT ![w.id] = q]]
    <3>1. m = [db EXCEPT !.rows[w.id].holder[s] = w.holder[s],
                         !.rows[w.id].left = @ \cup ({s} \cap w.left)]
      BY <1>7 DEF Member
    <3> QED  BY <1>1, <3>1
  <2>2. q \in Row /\ q.holder = [r.holder EXCEPT ![s] = w.holder[s]]
    <3>1. [r.holder EXCEPT ![s] = w.holder[s]] \in Holders
      BY <1>1 DEF Holders
    <3> QED  BY <1>1, <3>1 DEF Row
  <2>3. MemberWritten(r, w, s, q)
    BY <1>1, <1>2, <1>7, <2>2 DEF MemberWritten, Row, Holders
  <2> HIDE DEF m, q
  <2>4. m.ok = db.ok /\ m.rows = [db.rows EXCEPT ![w.id] = q] /\ m = [ok |-> m.ok, rows |-> m.rows]
    BY <1>1, <2>1
  <2>5. /\ m.rows \in [Companies -> Row] /\ m.rows[w.id] = q
        /\ \A c \in Companies \ {w.id} : m.rows[c] = db.rows[c]
    BY <1>1, <2>2, <2>4
  <2>6. m \in Tables
    BY <1>1, <2>4, <2>5 DEF Tables
  <2> QED  BY <1>7, <2>3, <2>5, <2>6 DEF m
<1> QED  BY <1>3, <1>4, <1>5, <1>6, <1>7

\* What a write leaves of the row of its company, its members included.
RowWritten(r, w, q) ==
  /\ q.status = w.status /\ q.seq = w.seq
  /\ q.entries = LogAfter(r, w)
  /\ q.snapshot = IF w.folded = NoSnapshot THEN r.snapshot ELSE w.folded
  /\ \A t \in Seats : q.holder[t] = IF r.holder[t] = NoOne THEN w.holder[t] ELSE r.holder[t]
  /\ q.left = r.left \cup (w.left \cap Members(w))

LEMMA AllMembers ==
  ASSUME NEW rows \in [Companies -> Row], NEW w \in Write
  PROVE  LET m == WithMembers(rows, w)
             r == rows[w.id]
             q == m.rows[w.id]
         IN /\ m \in Tables
            /\ m.ok =>
                 /\ \A c \in Companies \ {w.id} : m.rows[c] = rows[c]
                 /\ q.status = r.status /\ q.seq = r.seq
                 /\ q.snapshot = r.snapshot /\ q.entries = r.entries
                 /\ \A t \in Seats :
                      q.holder[t] = IF r.holder[t] = NoOne THEN w.holder[t] ELSE r.holder[t]
                 /\ q.left = r.left \cup (w.left \cap Members(w))
<1> DEFINE base == [ok |-> TRUE, rows |-> rows]
           r == rows[w.id]
<1>1. PICK d : /\ d[0] = base
               /\ \A k \in 1..MaxSeats : d[k] = Member(d[k - 1], w, k - 1)
               /\ WithMembers(rows, w) = d[MaxSeats]
  BY Sizes, MemberFold
<1>2. r \in Row /\ w.id \in Companies /\ base \in Tables /\ base.ok = TRUE /\ base.rows = rows
  BY DEF Write, Tables
<1> DEFINE Given(k, q) ==
             /\ q.status = r.status /\ q.seq = r.seq
             /\ q.snapshot = r.snapshot /\ q.entries = r.entries
             /\ \A t \in Seats :
                  q.holder[t] = IF t < k /\ r.holder[t] = NoOne THEN w.holder[t] ELSE r.holder[t]
             /\ q.left = r.left \cup {t \in w.left \cap Members(w) : t < k}
           Good(k) ==
             /\ d[k] \in Tables
             /\ d[k].ok =>
                  /\ \A c \in Companies \ {w.id} : d[k].rows[c] = rows[c]
                  /\ Given(k, d[k].rows[w.id])
           T == {k \in Nat : Good(k)}
<1>3. 0 \in T
  <2>1. \A t \in Seats : ~(t < 0)
    BY Sizes
  <2>2. {t \in w.left \cap Members(w) : t < 0} = {}
    BY <2>1 DEF Members
  <2>3. Given(0, r)
    BY <2>1, <2>2
  <2> HIDE DEF Given, base
  <2> QED  BY <1>1, <1>2, <2>3
<1>4. ASSUME NEW k \in 0..(MaxSeats - 1), k \in T PROVE k + 1 \in T
  <2>1. /\ k \in Nat /\ k + 1 \in 1..MaxSeats /\ (k + 1) - 1 = k /\ k \in Seats
    BY Sizes DEF Seats
  <2>2. d[k + 1] = Member(d[k], w, k)
    BY <1>1, <2>1
  <2>3. d[k] \in Tables /\ Good(k)
    BY <1>4
  <2>4. /\ d[k + 1] \in Tables
        /\ d[k + 1].ok =>
             /\ d[k].ok
             /\ \A c \in Companies \ {w.id} : d[k + 1].rows[c] = d[k].rows[c]
             /\ MemberWritten(d[k].rows[w.id], w, k, d[k + 1].rows[w.id])
    BY <2>1, <2>2, <2>3, OneMember
  <2>5. ASSUME d[k + 1].ok PROVE Given(k + 1, d[k + 1].rows[w.id])
    <3> DEFINE p == d[k].rows[w.id]
               q == d[k + 1].rows[w.id]
    <3>1. Given(k, p) /\ MemberWritten(p, w, k, q)
      BY <2>3, <2>4, <2>5
    <3> HIDE DEF p, q
    <3>2. \A t \in Seats : t < k + 1 <=> t < k \/ t = k
      BY <2>1, Sizes
    <3>3. \A t \in Seats :
            q.holder[t] = IF t < k + 1 /\ r.holder[t] = NoOne THEN w.holder[t] ELSE r.holder[t]
      BY <2>1, <3>1, <3>2, Sizes DEF MemberWritten
    <3>4. q.left = r.left \cup {t \in w.left \cap Members(w) : t < k + 1}
      <4>1. w.left \cap Members(w) \subseteq Seats
        BY DEF Members
      <4>2. {t \in w.left \cap Members(w) : t < k + 1}
              = {t \in w.left \cap Members(w) : t < k} \cup ({k} \cap w.left \cap Members(w))
        BY <3>2, <4>1
      <4> QED  BY <3>1, <4>2 DEF MemberWritten
    <3> QED  BY <3>1, <3>3, <3>4 DEF MemberWritten, p, q
  <2> HIDE DEF Given
  <2> QED  BY <2>1, <2>3, <2>4, <2>5
<1>5. Good(MaxSeats)
  <2> HIDE DEF Good
  <2>1. 0 \in T /\ \A k \in 0..(MaxSeats - 1) : k \in T => k + 1 \in T
    BY <1>3, <1>4
  <2> HIDE DEF T
  <2>2. MaxSeats \in T
    BY <2>1, UpTo, Sizes
  <2> QED  BY <2>2 DEF T
<1>6. \A t \in Seats : t < MaxSeats
  BY Sizes DEF Seats
<1>7. {t \in w.left \cap Members(w) : t < MaxSeats} = w.left \cap Members(w)
  BY <1>6 DEF Members
<1> HIDE DEF T, base
<1> QED  BY <1>1, <1>5, <1>6, <1>7

LEMMA OneWrite ==
  ASSUME NEW db \in Tables, NEW w \in Write
  PROVE  /\ Put(db, w) \in Tables
         /\ Put(db, w).ok =>
              /\ db.ok
              /\ \A c \in Companies \ {w.id} : Put(db, w).rows[c] = db.rows[c]
              /\ RowWritten(db.rows[w.id], w, Put(db, w).rows[w.id])
<1> DEFINE m == Put(db, w)
           r == db.rows[w.id]
<1>1. /\ db.ok \in BOOLEAN /\ db.rows \in [Companies -> Row] /\ w.id \in Companies /\ r \in Row
      /\ db = [ok |-> db.ok, rows |-> db.rows]
  BY DEF Tables, Write
<1>2. CASE ~db.ok \/ (w.made /\ r.status # "none")
  <2>1. m = [db EXCEPT !.ok = FALSE]
    BY <1>2 DEF Put
  <2> HIDE DEF m
  <2>2. m.ok = FALSE /\ m.rows = db.rows /\ m = [ok |-> m.ok, rows |-> m.rows]
    BY <1>1, <2>1
  <2>3. m \in Tables
    BY <1>1, <2>2 DEF Tables
  <2> QED  BY <2>2, <2>3 DEF m
<1>3. CASE db.ok /\ ~(w.made /\ r.status # "none")
  <2> DEFINE q == [r EXCEPT !.status = w.status, !.seq = w.seq, !.entries = LogAfter(r, w),
                            !.snapshot = IF w.folded = NoSnapshot THEN @ ELSE w.folded]
             rows == [db.rows EXCEPT ![w.id] = q]
  <2>1. m = WithMembers(rows, w)
    BY <1>3 DEF Put
  <2>2. LogAfter(r, w) \in SUBSET Entry
    BY <1>1 DEF LogAfter, Row, Write
  <2>3. q \in Row
    BY <1>1, <2>2 DEF Row, Write
  <2>4. /\ q.status = w.status /\ q.seq = w.seq /\ q.entries = LogAfter(r, w)
        /\ q.snapshot = IF w.folded = NoSnapshot THEN r.snapshot ELSE w.folded
        /\ q.holder = r.holder /\ q.left = r.left
    BY <1>1 DEF Row
  <2> HIDE DEF q
  <2>5. /\ rows \in [Companies -> Row] /\ rows[w.id] = q
        /\ \A c \in Companies \ {w.id} : rows[c] = db.rows[c]
    BY <1>1, <2>3
  <2> HIDE DEF m, rows
  <2>6. /\ m \in Tables
        /\ m.ok =>
             /\ \A c \in Companies \ {w.id} : m.rows[c] = rows[c]
             /\ m.rows[w.id].status = q.status /\ m.rows[w.id].seq = q.seq
             /\ m.rows[w.id].snapshot = q.snapshot /\ m.rows[w.id].entries = q.entries
             /\ \A t \in Seats :
                  m.rows[w.id].holder[t] = IF q.holder[t] = NoOne THEN w.holder[t] ELSE q.holder[t]
             /\ m.rows[w.id].left = q.left \cup (w.left \cap Members(w))
    BY <2>1, <2>5, AllMembers
  <2>7. m.ok => RowWritten(r, w, m.rows[w.id])
    BY <2>4, <2>6 DEF RowWritten
  <2> QED  BY <1>3, <2>5, <2>6, <2>7 DEF m
<1> QED  BY <1>2, <1>3

LEMMA GreatestExists ==
  ASSUME NEW n \in Nat, NEW T, T \subseteq 1..n, T # {}
  PROVE  \E x \in T : \A y \in T : y <= x
<1> DEFINE U == {n - x : x \in T}
<1>0. \A y \in T : y \in Nat /\ y <= n /\ n - y \in Nat
  OBVIOUS
<1>1. U \subseteq Nat /\ U # {}
  BY <1>0
<1>2. PICK u \in U : \A v \in U : u <= v
  <2> HIDE DEF U
  <2> QED  BY <1>1, LeastExists
<1>3. PICK x \in T : u = n - x
  BY <1>2
<1>4. \A y \in T : n - y \in U /\ n - x <= n - y
  BY <1>2, <1>3
<1> QED  BY <1>0, <1>3, <1>4

CompanyTypes(c, r, b, co) ==
  /\ c \in Companies /\ r \in Row /\ co \in Live
  /\ Len(b) \in Nat /\ \A i \in 1..Len(b) : b[i] \in Write

\* Every number that is compared is one.
LEMMA Numbers ==
  ASSUME NEW c, NEW r, NEW b, NEW co, CompanyTypes(c, r, b, co)
  PROVE  /\ r.seq \in Nat /\ r.snapshot \in Entry /\ r.snapshot.seq \in Nat
         /\ r.entries \subseteq Entry /\ r.holder \in Holders
         /\ co.seq \in Nat /\ co.folded \in Entry /\ co.folded.seq \in Nat /\ co.news \subseteq Entry
         /\ \A i \in Mine(c, b) :
              /\ i \in 1..Len(b) /\ i \in Nat /\ b[i] \in Write /\ b[i].seq \in Nat
              /\ b[i].folded \in Entry /\ b[i].folded.seq \in Nat /\ b[i].news \subseteq Entry
         /\ NoSnapshot.seq = 0 /\ NoSnapshot \in Entry
         /\ \A e \in Entry : e.seq \in Nat
         /\ Known(c, r, b, co) \subseteq Entry
<1>1. \A e \in Entry : e.seq \in Nat
  BY Sizes DEF Entry
<1>2. NoSnapshot.seq = 0 /\ NoSnapshot \in Entry
  BY Sizes DEF NoSnapshot
<1>3. \A n \in 0..MaxSeq : n \in Nat
  BY Sizes
<1>4. /\ r.seq \in Nat /\ r.snapshot \in Entry /\ r.entries \subseteq Entry /\ r.holder \in Holders
      /\ co.seq \in Nat /\ co.folded \in Entry /\ co.news \subseteq Entry
  BY <1>3 DEF CompanyTypes, Row, Live
<1>5. \A i \in Mine(c, b) :
         /\ i \in 1..Len(b) /\ i \in Nat /\ b[i] \in Write /\ b[i].seq \in Nat
         /\ b[i].folded \in Entry /\ b[i].news \subseteq Entry
  <2> SUFFICES ASSUME NEW i \in Mine(c, b)
               PROVE  /\ i \in 1..Len(b) /\ i \in Nat /\ b[i] \in Write /\ b[i].seq \in Nat
                      /\ b[i].folded \in Entry /\ b[i].news \subseteq Entry
    OBVIOUS
  <2>1. i \in 1..Len(b) /\ i \in Nat /\ b[i] \in Write
    BY DEF Mine, CompanyTypes
  <2> QED  BY <1>3, <2>1 DEF Write
<1>6. Known(c, r, b, co) \subseteq Entry
  BY <1>2, <1>4, <1>5 DEF Known
<1> QED  BY <1>1, <1>2, <1>4, <1>5, <1>6

-----------------------------------------------------------------------------
(* The row of a company after the first k writes of the unsaved *)

Sent(c, b, k) == {i \in Mine(c, b) : i <= k}
Logs(c, r, b, k) == r.entries \cup UNION {b[i].news : i \in Sent(c, b, k)}

\* The last snapshot there was has taken the entries it stands for.
LogThrough(c, r, b, k, q) ==
  \/ /\ \A i \in Sent(c, b, k) : b[i].folded = NoSnapshot
     /\ q.snapshot = r.snapshot /\ q.entries = Logs(c, r, b, k)
  \/ \E i \in Sent(c, b, k) :
       /\ b[i].folded # NoSnapshot
       /\ \A j \in Sent(c, b, k) : j > i => b[j].folded = NoSnapshot
       /\ q.snapshot = b[i].folded
       /\ q.entries = {e \in Logs(c, r, b, k) : e.seq > b[i].folded.seq}

MembersThrough(c, r, b, k, q) ==
  /\ \A s \in Seats :
       /\ q.holder[s] = r.holder[s] \/ \E i \in Sent(c, b, k) : q.holder[s] = b[i].holder[s]
       /\ q.holder[s] = NoOne =>
            r.holder[s] = NoOne /\ \A i \in Sent(c, b, k) : b[i].holder[s] = NoOne
  /\ q.left = r.left \cup UNION {b[i].left \cap Members(b[i]) : i \in Sent(c, b, k)}

Through(c, r, b, k, q) ==
  /\ Sent(c, b, k) = {} => q = r
  /\ \A m \in Sent(c, b, k) :
       (\A i \in Sent(c, b, k) : i <= m) => q.status = b[m].status /\ q.seq = b[m].seq
  /\ LogThrough(c, r, b, k, q)
  /\ MembersThrough(c, r, b, k, q)

LEMMA ThroughNone ==
  ASSUME NEW c, NEW r, NEW b, NEW co, CompanyTypes(c, r, b, co)
  PROVE  Through(c, r, b, 0, r)
<1>1. Sent(c, b, 0) = {}
  BY Numbers DEF Sent
<1>2. Logs(c, r, b, 0) = r.entries
  BY <1>1 DEF Logs
<1> QED  BY <1>1, <1>2 DEF Through, LogThrough, MembersThrough

\* A write adds its entries; those whose number is taken are there.
LEMMA LogAdds ==
  ASSUME NEW c, NEW r, NEW b, NEW co, NEW k, NEW q, NEW n \in Mine(c, b),
         OneHistory(Known(c, r, b, co)), q.entries \subseteq Logs(c, r, b, k)
  PROVE  \A e : e \in LogAfter(q, b[n]) <=>
           /\ e \in q.entries \/ e \in b[n].news
           /\ b[n].folded = NoSnapshot \/ e.seq > b[n].folded.seq
<1> DEFINE all == q.entries \cup {e \in b[n].news : \A f \in q.entries : f.seq # e.seq}
<1>1. \A f \in q.entries, e \in b[n].news : f.seq = e.seq => f = e
  <2>1. Logs(c, r, b, k) \subseteq Known(c, r, b, co)
    BY DEF Logs, Known, Sent
  <2>2. b[n].news \subseteq Known(c, r, b, co)
    BY DEF Known
  <2> QED  BY <2>1, <2>2 DEF OneHistory
<1>2. all = q.entries \cup b[n].news
  BY <1>1
<1>3. LogAfter(q, b[n]) = IF b[n].folded = NoSnapshot THEN all
                          ELSE {e \in all : e.seq > b[n].folded.seq}
  BY DEF LogAfter
<1> HIDE DEF all
<1> QED  BY <1>2, <1>3

LEMMA LogStep ==
  ASSUME NEW c, NEW r, NEW b, NEW co, CompanyTypes(c, r, b, co), CompanyOK(c, r, b, co),
         NEW k \in Nat, k + 1 \in Mine(c, b), NEW q, LogThrough(c, r, b, k, q),
         NEW p, p.entries = LogAfter(q, b[k + 1]),
         p.snapshot = IF b[k + 1].folded = NoSnapshot THEN q.snapshot ELSE b[k + 1].folded
  PROVE  LogThrough(c, r, b, k + 1, p)
<1> DEFINE w == b[k + 1]
           S == Sent(c, b, k)
           L == Logs(c, r, b, k)
<1>1. /\ Sent(c, b, k + 1) = S \cup {k + 1}
      /\ \A i \in S : i <= k /\ i < k + 1 /\ i \in Nat /\ i \in Mine(c, b)
  BY Numbers DEF Sent
<1>2. Logs(c, r, b, k + 1) = L \cup w.news
  BY <1>1 DEF Logs
<1>3. q.entries \subseteq L
  BY DEF LogThrough
<1>4. p.entries = IF w.folded = NoSnapshot THEN q.entries \cup w.news
                  ELSE {e \in q.entries \cup w.news : e.seq > w.folded.seq}
  <2>1. OneHistory(Known(c, r, b, co))
    BY DEF CompanyOK
  <2>2. \A e : e \in LogAfter(q, b[k + 1]) <=>
           /\ e \in q.entries \/ e \in b[k + 1].news
           /\ b[k + 1].folded = NoSnapshot \/ e.seq > b[k + 1].folded.seq
    BY <1>3, <2>1, LogAdds
  <2> QED  BY <2>2
<1>5. \A i \in S :
        /\ b[i].folded.seq <= b[i].seq /\ b[i].seq \in Nat /\ b[i].folded.seq \in Nat
        /\ \A e \in w.news : e.seq > b[i].seq /\ e.seq \in Nat
        /\ w.folded # NoSnapshot => w.folded.seq > b[i].seq
        /\ w.folded.seq \in Nat
  BY <1>1, Numbers DEF CompanyOK, InOrder, Within, Newer
<1>6. CASE w.folded = NoSnapshot
  <2>1. p.entries = q.entries \cup w.news /\ p.snapshot = q.snapshot
    BY <1>4, <1>6
  <2>2. CASE /\ \A i \in S : b[i].folded = NoSnapshot
             /\ q.snapshot = r.snapshot /\ q.entries = L
    BY <1>1, <1>2, <1>6, <2>1, <2>2 DEF LogThrough
  <2>3. ASSUME NEW i \in S, b[i].folded # NoSnapshot,
               \A j \in S : j > i => b[j].folded = NoSnapshot,
               q.snapshot = b[i].folded, q.entries = {e \in L : e.seq > b[i].folded.seq}
        PROVE  LogThrough(c, r, b, k + 1, p)
    <3>1. \A e \in w.news : e.seq > b[i].folded.seq
      BY <1>5
    <3>2. p.entries = {e \in L \cup w.news : e.seq > b[i].folded.seq}
      BY <2>1, <2>3, <3>1
    <3>3. \A j \in Sent(c, b, k + 1) : j > i => b[j].folded = NoSnapshot
      BY <1>1, <1>6, <2>3
    <3> QED  BY <1>1, <1>2, <2>1, <2>3, <3>2, <3>3 DEF LogThrough
  <2> QED  BY <2>2, <2>3 DEF LogThrough
<1>7. CASE w.folded # NoSnapshot
  <2>1. p.entries = {e \in q.entries \cup w.news : e.seq > w.folded.seq} /\ p.snapshot = w.folded
    BY <1>4, <1>7
  <2>2. {e \in q.entries : e.seq > w.folded.seq} = {e \in L : e.seq > w.folded.seq}
    <3>1. CASE q.entries = L
      BY <3>1
    <3>2. ASSUME NEW i \in S, q.entries = {e \in L : e.seq > b[i].folded.seq}
          PROVE  {e \in q.entries : e.seq > w.folded.seq} = {e \in L : e.seq > w.folded.seq}
      <4>1. w.folded.seq > b[i].folded.seq /\ w.folded.seq \in Nat /\ b[i].folded.seq \in Nat
        BY <1>5, <1>7
      <4>2. \A e \in L : e.seq \in Nat
        BY Numbers, <1>1 DEF Logs
      <4> QED  BY <3>2, <4>1, <4>2
    <3> QED  BY <3>1, <3>2 DEF LogThrough
  <2>3. p.entries = {e \in L \cup w.news : e.seq > w.folded.seq}
    BY <2>1, <2>2
  <2>4. \A j \in Sent(c, b, k + 1) : ~(j > k + 1)
    BY <1>1
  <2> QED  BY <1>1, <1>2, <1>7, <2>1, <2>3, <2>4 DEF LogThrough
<1> QED  BY <1>6, <1>7

LEMMA ThroughStep ==
  ASSUME NEW c, NEW r, NEW b, NEW co, CompanyTypes(c, r, b, co), CompanyOK(c, r, b, co),
         NEW k \in Nat, k + 1 \in Mine(c, b), NEW q, Through(c, r, b, k, q),
         NEW p, RowWritten(q, b[k + 1], p)
  PROVE  Through(c, r, b, k + 1, p)
<1> DEFINE w == b[k + 1]
           S == Sent(c, b, k)
<1>1. /\ Sent(c, b, k + 1) = S \cup {k + 1}
      /\ \A i \in S : i <= k /\ i < k + 1 /\ i \in Nat
  BY Numbers DEF Sent
<1>2. \A m \in S : ~(k + 1 <= m)
  BY <1>1
<1>3. p.status = w.status /\ p.seq = w.seq
  BY DEF RowWritten
<1>4. LogThrough(c, r, b, k + 1, p)
  BY LogStep DEF Through, RowWritten
<1>5. MembersThrough(c, r, b, k + 1, p)
  <2>1. \A s \in Seats : p.holder[s] = IF q.holder[s] = NoOne THEN w.holder[s] ELSE q.holder[s]
    BY DEF RowWritten
  <2>2. p.left = q.left \cup (w.left \cap Members(w))
    BY DEF RowWritten
  <2>3. MembersThrough(c, r, b, k, q)
    BY DEF Through
  <2>4. p.left = r.left \cup UNION {b[i].left \cap Members(b[i]) : i \in Sent(c, b, k + 1)}
    BY <1>1, <2>2, <2>3 DEF MembersThrough
  <2> QED  BY <1>1, <2>1, <2>3, <2>4 DEF MembersThrough
<1> QED  BY <1>1, <1>2, <1>3, <1>4, <1>5 DEF Through

\* A write about another company leaves the row.
LEMMA ThroughOther ==
  ASSUME NEW c, NEW r, NEW b, NEW co, CompanyTypes(c, r, b, co),
         NEW k \in Nat, k + 1 \notin Mine(c, b), NEW q, Through(c, r, b, k, q)
  PROVE  Through(c, r, b, k + 1, q)
<1>1. Sent(c, b, k + 1) = Sent(c, b, k)
  BY Numbers DEF Sent
<1>2. Logs(c, r, b, k + 1) = Logs(c, r, b, k)
  BY <1>1 DEF Logs
<1> QED  BY <1>1, <1>2 DEF Through, LogThrough, MembersThrough

LEMMA TypesOf ==
  ASSUME StoreTypeOK, NEW c \in Companies
  PROVE  CompanyTypes(c, row[c], unsaved, live[c])
BY LenProperties, ElementOfSeq DEF StoreTypeOK, CompanyTypes

LEMMA CommittedRow ==
  ASSUME StoreTypeOK, NEW c \in Companies, CompanyOK(c, row[c], unsaved, live[c]),
         Transaction(unsaved).ok
  PROVE  /\ Transaction(unsaved).rows \in [Companies -> Row]
         /\ Through(c, row[c], unsaved, Len(unsaved), Transaction(unsaved).rows[c])
<1> DEFINE n == Len(unsaved)
           base == [ok |-> TRUE, rows |-> row]
<1>1. /\ n \in Nat /\ DOMAIN unsaved = 1..n /\ row \in [Companies -> Row]
      /\ \A k \in 1..n : unsaved[k] \in Write
      /\ CompanyTypes(c, row[c], unsaved, live[c])
  BY TypesOf, LenProperties, ElementOfSeq DEF StoreTypeOK
<1>2. base \in Tables /\ base.ok = TRUE /\ base.rows = row
  BY <1>1 DEF Tables
<1> HIDE DEF n, base
<1>3. PICK db : /\ db[0] = base
                /\ \A k \in 1..n : db[k] = Put(db[k - 1], unsaved[k])
                /\ Transaction(unsaved) = db[n]
  BY <1>1, PutFold DEF base
<1> DEFINE Good(k) == /\ db[k] \in Tables
                      /\ db[k].ok => Through(c, row[c], unsaved, k, db[k].rows[c])
           T == {k \in Nat : Good(k)}
<1>4. 0 \in T
  BY <1>1, <1>2, <1>3, ThroughNone
<1>5. ASSUME NEW k \in 0..(n - 1), k \in T PROVE k + 1 \in T
  <2>1. k \in Nat /\ k + 1 \in Nat /\ k + 1 \in 1..n /\ (k + 1) - 1 = k
    BY <1>1
  <2>2. db[k + 1] = Put(db[k], unsaved[k + 1]) /\ unsaved[k + 1] \in Write
    BY <1>1, <1>3, <2>1
  <2>3. Good(k)
    BY <1>5
  <2> DEFINE w == unsaved[k + 1]
             q == db[k].rows[c]
             p == db[k + 1].rows[c]
  <2>4. /\ db[k + 1] \in Tables
        /\ db[k + 1].ok =>
             /\ db[k].ok
             /\ \A d \in Companies \ {w.id} : db[k + 1].rows[d] = db[k].rows[d]
             /\ RowWritten(db[k].rows[w.id], w, db[k + 1].rows[w.id])
    BY <2>2, <2>3, OneWrite
  <2>5. ASSUME db[k + 1].ok PROVE Through(c, row[c], unsaved, k + 1, p)
    <3>1. Through(c, row[c], unsaved, k, q)
      BY <2>3, <2>4, <2>5
    <3>2. k + 1 \in Mine(c, unsaved) <=> w.id = c
      BY <2>1 DEF Mine, n
    <3>3. CASE w.id = c
      <4>1. RowWritten(q, w, p)
        BY <2>4, <2>5, <3>3
      <4> HIDE DEF p, q
      <4> QED  BY <1>1, <2>1, <3>1, <3>2, <3>3, <4>1, ThroughStep
    <3>4. CASE w.id # c
      <4>1. p = q
        BY <2>4, <2>5, <3>4
      <4> HIDE DEF p, q
      <4> QED  BY <1>1, <2>1, <3>1, <3>2, <3>4, <4>1, ThroughOther
    <3> QED  BY <3>3, <3>4
  <2> QED  BY <2>1, <2>4, <2>5
<1>6. Good(n)
  <2> HIDE DEF Good
  <2>1. 0 \in T /\ \A k \in 0..(n - 1) : k \in T => k + 1 \in T
    BY <1>4, <1>5
  <2> HIDE DEF T
  <2>2. n \in T
    BY <1>1, <2>1, UpTo
  <2> QED  BY <2>2 DEF T
<1>7. db[n].ok
  BY <1>3
<1> QED  BY <1>3, <1>6, <1>7 DEF Tables, n

-----------------------------------------------------------------------------
(* A company whose row a commit has moved *)

LEMMA AllSent ==
  ASSUME NEW c, NEW r, NEW b, NEW co, CompanyTypes(c, r, b, co)
  PROVE  Sent(c, b, Len(b)) = Mine(c, b)
<1>1. \A i \in Mine(c, b) : i <= Len(b)
  BY DEF Mine, CompanyTypes
<1> QED  BY <1>1 DEF Sent

\* The row after the whole backlog is what the last write of its company says.
LEMMA RowIsLast ==
  ASSUME NEW c, NEW r, NEW b, NEW co, CompanyTypes(c, r, b, co), CompanyOK(c, r, b, co),
         NEW q \in Row, Through(c, r, b, Len(b), q),
         NEW m \in Mine(c, b), \A i \in Mine(c, b) : i <= m
  PROVE  /\ q.status = b[m].status /\ q.seq = b[m].seq
         /\ q.holder = b[m].holder /\ q.left = b[m].left
<1> DEFINE w == b[m]
<1>1. Sent(c, b, Len(b)) = Mine(c, b)
  BY AllSent
<1>2. q.status = w.status /\ q.seq = w.seq
  BY <1>1 DEF Through
<1>3. MembersThrough(c, r, b, Len(b), q)
  BY DEF Through
<1>4. Later(r, w) /\ \A i \in Mine(c, b) : i # m => Later(b[i], w)
  <2>1. RowIsBehind(c, r, b) /\ InOrder(c, b)
    BY DEF CompanyOK
  <2>2. \A i \in Mine(c, b) : i # m => i < m
    BY Numbers
  <2> QED  BY <2>1, <2>2 DEF RowIsBehind, InOrder
<1>5. w \in Write /\ w.holder \in Holders /\ q.holder \in Holders
  BY Numbers DEF Write, Row
<1>6. ASSUME NEW s \in Seats PROVE q.holder[s] = w.holder[s]
  <2>1. CASE q.holder[s] = NoOne
    <3>1. w.holder[s] = NoOne
      BY <1>1, <1>3, <2>1 DEF MembersThrough
    <3> QED  BY <2>1, <3>1
  <2>2. CASE q.holder[s] # NoOne
    <3>1. q.holder[s] = r.holder[s] \/ \E i \in Mine(c, b) : q.holder[s] = b[i].holder[s]
      BY <1>1, <1>3 DEF MembersThrough
    <3>2. CASE q.holder[s] = r.holder[s]
      <4>1. s \in Members(r)
        BY <2>2, <3>2 DEF Members
      <4> QED  BY <1>4, <3>2, <4>1 DEF Later
    <3>3. ASSUME NEW i \in Mine(c, b), q.holder[s] = b[i].holder[s] PROVE q.holder[s] = w.holder[s]
      <4>1. s \in Members(b[i])
        BY <2>2, <3>3 DEF Members
      <4> QED  BY <1>4, <3>3, <4>1 DEF Later
    <3> QED  BY <3>1, <3>2, <3>3
  <2> QED  BY <2>1, <2>2
<1>7. q.holder = w.holder
  BY <1>5, <1>6 DEF Holders
<1>8. q.left = w.left
  <2>1. w.left \subseteq Members(w)
    BY DEF CompanyOK, Seated
  <2>2. r.left \subseteq w.left /\ \A i \in Mine(c, b) : b[i].left \subseteq w.left
    BY <1>4 DEF Later
  <2>3. q.left = r.left \cup UNION {b[i].left \cap Members(b[i]) : i \in Mine(c, b)}
    BY <1>1, <1>3 DEF MembersThrough
  <2> QED  BY <2>1, <2>2, <2>3
<1> QED  BY <1>2, <1>7, <1>8

\* The log of the row has no hole and no overlap.
LEMMA LogIsWhole ==
  ASSUME NEW c, NEW r, NEW b, NEW co, CompanyTypes(c, r, b, co), CompanyOK(c, r, b, co),
         NEW q \in Row, Through(c, r, b, Len(b), q),
         NEW m \in Mine(c, b), \A i \in Mine(c, b) : i <= m
  PROVE  RowOK(q) /\ Overtaken(c, q, b) /\ q.snapshot.seq >= r.snapshot.seq
<1> DEFINE L == Logs(c, r, b, Len(b))
<1>1. Sent(c, b, Len(b)) = Mine(c, b) /\ L = r.entries \cup UNION {b[i].news : i \in Mine(c, b)}
  <2>1. Sent(c, b, Len(b)) = Mine(c, b)
    BY AllSent
  <2> QED  BY <2>1 DEF Logs
<1>2. q.seq = b[m].seq /\ q.seq \in Nat
  BY RowIsLast, Numbers
<1>3. /\ RowOK(r) /\ InOrder(c, b) /\ RowIsBehind(c, r, b) /\ Covered(c, r, b)
      /\ Overtaken(c, r, b) /\ LogThrough(c, r, b, Len(b), q)
  BY DEF CompanyOK, Through
<1>4. /\ r.seq <= q.seq /\ \A i \in Mine(c, b) : b[i].seq <= q.seq
      /\ \A i \in Mine(c, b) : b[i].folded.seq <= b[i].seq
      /\ \A i \in Mine(c, b) : \A e \in b[i].news : e.seq <= b[i].seq
  <2>1. Later(r, b[m])
    BY <1>3 DEF RowIsBehind
  <2>2. \A i \in Mine(c, b) : i = m \/ i < m
    BY Numbers
  <2>3. \A i \in Mine(c, b) : b[i].seq <= q.seq
    BY <1>2, <1>3, <2>2 DEF InOrder, Later
  <2> QED  BY <1>2, <1>3, <2>1, <2>3 DEF Later, InOrder, Within
<1>5. \A e \in L : e.seq <= q.seq /\ e.seq \in Nat
  <2>1. \A e \in r.entries : e.seq <= r.seq /\ e.seq \in Nat
    BY <1>3, Numbers DEF RowOK
  <2> QED  BY <1>1, <1>2, <1>4, <2>1, Numbers
<1>6. \A x \in (r.snapshot.seq + 1)..q.seq : \E e \in L : e.seq = x
  <2> SUFFICES ASSUME NEW x \in (r.snapshot.seq + 1)..q.seq PROVE \E e \in L : e.seq = x
    OBVIOUS
  <2>1. CASE x <= r.seq
    <3>1. x \in (r.snapshot.seq + 1)..r.seq
      BY <2>1, Numbers
    <3>2. x \in {e.seq : e \in r.entries}
      BY <1>3, <3>1 DEF RowOK
    <3> QED  BY <1>1, <3>2
  <2>2. CASE ~(x <= r.seq)
    <3>1. x \in (r.seq + 1)..b[m].seq
      BY <1>2, <2>2, Numbers
    <3>2. \E i \in Mine(c, b) : \E e \in b[i].news : e.seq = x
      BY <1>3, <3>1 DEF Covered
    <3> QED  BY <1>1, <3>2
  <2> QED  BY <2>1, <2>2
<1>7. CASE /\ \A i \in Mine(c, b) : b[i].folded = NoSnapshot
           /\ q.snapshot = r.snapshot /\ q.entries = L
  <2>1. \A i \in Mine(c, b) : \A e \in b[i].news : e.seq > r.snapshot.seq
    BY <1>3, <1>7 DEF Overtaken
  <2>2. \A e \in r.entries : e.seq > r.snapshot.seq
    BY <1>3, Numbers DEF RowOK
  <2>3. \A e \in L : e.seq \in (r.snapshot.seq + 1)..q.seq
    BY <1>1, <1>2, <1>5, <2>1, <2>2, Numbers
  <2>4. {e.seq : e \in q.entries} = (q.snapshot.seq + 1)..q.seq
    BY <1>6, <1>7, <2>3
  <2>5. q.snapshot.seq <= q.seq
    BY <1>2, <1>3, <1>4, <1>7, Numbers DEF RowOK
  <2> QED  BY <1>7, <2>1, <2>4, <2>5, Numbers DEF RowOK, Overtaken
<1>8. ASSUME NEW i \in Mine(c, b), b[i].folded # NoSnapshot,
             \A j \in Mine(c, b) : j > i => b[j].folded = NoSnapshot,
             q.snapshot = b[i].folded, q.entries = {e \in L : e.seq > b[i].folded.seq}
      PROVE  RowOK(q) /\ Overtaken(c, q, b) /\ q.snapshot.seq >= r.snapshot.seq
  <2>1. b[i].folded.seq \in Nat /\ b[i].folded.seq <= q.seq
    BY <1>2, <1>4, Numbers
  <2>2. b[i].folded.seq >= r.snapshot.seq
    <3>1. PICK j \in Mine(c, b) : b[j].folded # NoSnapshot /\ b[j].folded.seq >= r.snapshot.seq
      BY <1>3, <1>8 DEF Overtaken
    <3>2. j = i \/ j < i
      BY <1>8, <3>1, Numbers
    <3>3. CASE j < i
      <4>1. b[i].folded.seq > b[j].seq /\ b[j].folded.seq <= b[j].seq
        BY <1>3, <1>4, <1>8, <3>3 DEF InOrder, Newer
      <4> QED  BY <3>1, <4>1, Numbers
    <3> QED  BY <3>1, <3>2, <3>3
  <2>3. \A x \in (b[i].folded.seq + 1)..q.seq : \E e \in L : e.seq = x
    <3>1. \A x \in (b[i].folded.seq + 1)..q.seq : x \in (r.snapshot.seq + 1)..q.seq
      BY <1>2, <2>1, <2>2, Numbers
    <3> QED  BY <1>6, <3>1
  <2>4. {e.seq : e \in q.entries} = (b[i].folded.seq + 1)..q.seq
    <3>1. \A e \in q.entries : e \in L /\ e.seq \in (b[i].folded.seq + 1)..q.seq
      BY <1>2, <1>5, <1>8, <2>1
    <3>2. \A x \in (b[i].folded.seq + 1)..q.seq : \E e \in q.entries : e.seq = x
      <4>1. \A x \in (b[i].folded.seq + 1)..q.seq : x > b[i].folded.seq
        BY <1>2, <2>1
      <4> QED  BY <1>8, <2>3, <4>1
    <3> QED  BY <3>1, <3>2
  <2> QED  BY <1>8, <2>1, <2>2, <2>4, Numbers DEF RowOK, Overtaken
<1> QED  BY <1>1, <1>3, <1>7, <1>8 DEF LogThrough

LEMMA SeatedFewer ==
  ASSUME NEW v, NEW u, NEW K, NEW J, Seated(v, K), J \subseteq K,
         u.status = v.status, u.seq = v.seq, u.holder = v.holder, u.left = v.left
  PROVE  Seated(u, J)
<1>1. Members(u) = Members(v) /\ LiveMembers(u) = LiveMembers(v)
  BY DEF Members, LiveMembers
<1> QED  BY <1>1 DEF Seated

LEMMA NothingSent ==
  ASSUME NEW c
  PROVE  Mine(c, <<>>) = {}
<1>1. Len(<<>>) = 0
  OBVIOUS
<1> QED  BY <1>1 DEF Mine

\* The entries and the snapshot of the row were known before.
LEMMA NothingNew ==
  ASSUME NEW c, NEW r, NEW b, NEW co, CompanyTypes(c, r, b, co),
         NEW q, Through(c, r, b, Len(b), q)
  PROVE  /\ Known(c, q, b, co) \subseteq Known(c, r, b, co)
         /\ Known(c, q, <<>>, co) \subseteq Known(c, r, b, co)
<1>1. Sent(c, b, Len(b)) = Mine(c, b)
  BY AllSent
<1>2. q.entries \subseteq Logs(c, r, b, Len(b))
  BY DEF Through, LogThrough
<1>3. q.snapshot = r.snapshot \/ \E i \in Mine(c, b) : q.snapshot = b[i].folded
  BY <1>1 DEF Through, LogThrough
<1>4. q.entries \subseteq Known(c, r, b, co) /\ q.snapshot \in Known(c, r, b, co)
  BY <1>1, <1>2, <1>3 DEF Logs, Known
<1> QED  BY <1>4, NothingSent DEF Known

LEMMA RowMoves ==
  ASSUME NEW c, NEW r, NEW b, NEW co, CompanyTypes(c, r, b, co), CompanyOK(c, r, b, co),
         NEW q \in Row, Through(c, r, b, Len(b), q)
  PROVE  CompanyOK(c, q, b, co) /\ CompanyOK(c, q, <<>>, co)
<1> DEFINE K == Known(c, r, b, co)
<1>1. Sent(c, b, Len(b)) = Mine(c, b)
  BY AllSent
<1>2. /\ OneHistory(K) /\ RowOK(r) /\ Seated(r, K)
      /\ \A i \in Mine(c, b) : Seated(b[i], K)
      /\ InOrder(c, b) /\ RowIsBehind(c, r, b) /\ Covered(c, r, b) /\ Overtaken(c, r, b)
      /\ InMemory(co) => MemoryOK(c, r, b, co) /\ Seated(co, K)
      /\ co.status = "undrawn" => co = Undrawn /\ r = NoRow /\ Mine(c, b) = {}
      /\ co.status = "gone" => co = [Undrawn EXCEPT !.status = "gone"]
  BY DEF CompanyOK
<1>3. CASE Mine(c, b) = {}
  <2>1. q = r
    BY <1>1, <1>3 DEF Through
  <2>2. Mine(c, <<>>) = {}
    BY NothingSent
  <2>3. Known(c, r, <<>>, co) = K
    BY <1>3, <2>2 DEF Known
  <2>4. InMemory(co) => MemoryOK(c, r, <<>>, co)
    BY <1>2, <1>3, <2>2, <2>3 DEF MemoryOK
  <2>5. CompanyOK(c, r, <<>>, co)
    BY <1>2, <2>2, <2>3, <2>4 DEF CompanyOK, InOrder, RowIsBehind, Covered, Overtaken
  <2> QED  BY <2>1, <2>5
<1>4. CASE Mine(c, b) # {}
  <2>1. PICK m \in Mine(c, b) : \A i \in Mine(c, b) : i <= m
    BY <1>4, GreatestExists DEF Mine, CompanyTypes
  <2>2. q.status = b[m].status /\ q.seq = b[m].seq /\ q.holder = b[m].holder /\ q.left = b[m].left
    BY <2>1, RowIsLast
  <2>3. RowOK(q) /\ Overtaken(c, q, b)
    BY <2>1, LogIsWhole
  <2>4. Known(c, q, b, co) \subseteq K /\ Known(c, q, <<>>, co) \subseteq K
    BY NothingNew
  <2>5. \A J \in SUBSET K : OneHistory(J) /\ Seated(q, J) /\ \A i \in Mine(c, b) : Seated(b[i], J)
    <3> SUFFICES ASSUME NEW J \in SUBSET K
                 PROVE  OneHistory(J) /\ Seated(q, J) /\ \A i \in Mine(c, b) : Seated(b[i], J)
      OBVIOUS
    <3>1. OneHistory(J)
      BY <1>2 DEF OneHistory
    <3>2. Seated(q, J)
      BY <1>2, <2>2, SeatedFewer
    <3>3. \A i \in Mine(c, b) : Seated(b[i], J)
      BY <1>2, SeatedFewer
    <3> QED  BY <3>1, <3>2, <3>3
  <2>6. r.seq <= q.seq /\ \A i \in Mine(c, b) : b[i].seq <= q.seq
    <3>1. Later(r, b[m])
      BY <1>2, <2>1 DEF RowIsBehind
    <3>2. \A i \in Mine(c, b) : i = m \/ i < m
      BY <2>1, Numbers
    <3> QED  BY <1>2, <2>2, <3>1, <3>2, Numbers DEF Later, InOrder
  <2>7. RowIsBehind(c, q, b) /\ Covered(c, q, b)
    <3>1. \A j \in Mine(c, b) : (\A i \in Mine(c, b) : i <= j) => j = m
      BY <2>1, Numbers
    <3>2. Members(q) = Members(b[m])
      BY <2>2 DEF Members
    <3>3. Later(q, b[m])
      BY <2>2, <3>2, Numbers DEF Later, Members
    <3>4. \A j \in Mine(c, b) : (q.seq + 1)..b[j].seq = {}
      BY <2>2, <2>6, Numbers
    <3> QED  BY <3>1, <3>3, <3>4 DEF RowIsBehind, Covered
  <2>8. ASSUME InMemory(co)
        PROVE  /\ MemoryOK(c, q, b, co) /\ Seated(co, Known(c, q, b, co))
               /\ MemoryOK(c, q, <<>>, co) /\ Seated(co, Known(c, q, <<>>, co))
    <3>1. MemoryOK(c, r, b, co) /\ Seated(co, K)
      BY <1>2, <2>8
    <3>2. Seated(co, Known(c, q, b, co)) /\ Seated(co, Known(c, q, <<>>, co))
      BY <2>4, <3>1, SeatedFewer
    <3>3. Later(q, co) /\ Newer(q, co.news, co.folded)
      <4>1. Later(b[m], co) /\ Newer(b[m], co.news, co.folded)
        BY <3>1 DEF MemoryOK
      <4>2. Members(q) = Members(b[m])
        BY <2>2 DEF Members
      <4> QED  BY <2>2, <4>1, <4>2 DEF Later, Newer
    <3>4. \A x \in (q.seq + 1)..co.seq : \E e \in co.news : e.seq = x
      <4> SUFFICES ASSUME NEW x \in (q.seq + 1)..co.seq PROVE \E e \in co.news : e.seq = x
        OBVIOUS
      <4>0. q.seq \in Nat /\ r.seq \in Nat /\ co.seq \in Nat
        BY <2>2, Numbers
      <4>1. x \in (r.seq + 1)..co.seq /\ x > q.seq /\ x \in Nat
        BY <2>6, <4>0
      <4>2. ~\E i \in Mine(c, b) : \E e \in b[i].news : e.seq = x
        <5>1. \A i \in Mine(c, b) : \A e \in b[i].news : e.seq <= b[i].seq
          BY <1>2 DEF InOrder, Within
        <5> QED  BY <2>6, <4>0, <4>1, <5>1, Numbers
      <4> QED  BY <3>1, <4>1, <4>2 DEF MemoryOK
    <3>5. Within(co, co.news, co.folded)
      BY <3>1 DEF MemoryOK
    <3>6. co.status = "open" =>
            /\ \A e \in K : e.seq = co.seq => e.seats = co.seats
            /\ co.seats \subseteq LiveMembers(co)
      BY <3>1 DEF MemoryOK
    <3>7. MemoryOK(c, q, b, co)
      BY <2>4, <3>1, <3>3, <3>4, <3>5, <3>6 DEF MemoryOK
    <3>8. MemoryOK(c, q, <<>>, co)
      BY <2>4, <3>3, <3>4, <3>5, <3>6, NothingSent DEF MemoryOK
    <3> QED  BY <3>2, <3>7, <3>8
  <2>9. co.status # "undrawn"
    BY <1>2, <1>4
  <2>10. CompanyOK(c, q, b, co)
    BY <1>2, <2>3, <2>4, <2>5, <2>7, <2>8, <2>9 DEF CompanyOK
  <2>11. CompanyOK(c, q, <<>>, co)
    BY <1>2, <2>3, <2>4, <2>5, <2>8, <2>9, NothingSent
       DEF CompanyOK, InOrder, RowIsBehind, Covered, Overtaken
  <2> QED  BY <2>10, <2>11
<1> QED  BY <1>3, <1>4

-----------------------------------------------------------------------------
(* A boot *)

\* What a replay ends at is the entry, or the snapshot, with the row's number.
LEMMA ReplayEnds ==
  ASSUME NEW c, NEW r, NEW b, NEW co, CompanyTypes(c, r, b, co), CompanyOK(c, r, b, co)
  PROVE  \E e \in r.entries \cup {r.snapshot} : e.seq = r.seq /\ Replayed(r) = e.seats
<1>1. RowOK(r)
  BY DEF CompanyOK
<1>2. CASE r.entries = {}
  <2>1. (r.snapshot.seq + 1)..r.seq = {}
    BY <1>1, <1>2 DEF RowOK
  <2>2. r.snapshot.seq = r.seq
    BY <1>1, <2>1, Numbers DEF RowOK
  <2> QED  BY <1>2, <2>2 DEF Replayed
<1>3. CASE r.entries # {}
  <2>1. \A e \in r.entries : e.seq \in (r.snapshot.seq + 1)..r.seq
    BY <1>1 DEF RowOK
  <2>2. r.seq \in (r.snapshot.seq + 1)..r.seq
    BY <1>3, <2>1, Numbers
  <2>3. PICK e \in r.entries : e.seq = r.seq
    BY <1>1, <2>2 DEF RowOK
  <2>4. \A f \in r.entries : f.seq <= e.seq
    BY <2>1, <2>3, Numbers
  <2> DEFINE g == CHOOSE f \in r.entries : \A h \in r.entries : h.seq <= f.seq
  <2>5. g \in r.entries /\ \A h \in r.entries : h.seq <= g.seq
    BY <2>3, <2>4
  <2>6. Replayed(r) = g.seats
    BY <1>3 DEF Replayed
  <2> HIDE DEF g
  <2>7. g.seq = r.seq
    BY <2>1, <2>3, <2>5, Numbers
  <2> QED  BY <2>5, <2>6, <2>7
<1> QED  BY <1>2, <1>3

LEMMA RowAlone ==
  ASSUME NEW c, NEW r, NEW b, NEW co, CompanyTypes(c, r, b, co), CompanyOK(c, r, b, co),
         NEW d, d = Undrawn => co = Undrawn,
         d \in {Undrawn, [Undrawn EXCEPT !.status = "gone"]}
  PROVE  CompanyOK(c, r, <<>>, d)
<1>1. d.news = {} /\ d.folded = NoSnapshot /\ d.status \in {"undrawn", "gone"}
  BY DEF Undrawn
<1>2. Known(c, r, <<>>, d) \subseteq Known(c, r, b, co)
  BY <1>1, NothingSent DEF Known
<1>3. Seated(r, Known(c, r, <<>>, d))
  BY <1>2, SeatedFewer DEF CompanyOK
<1>4. OneHistory(Known(c, r, <<>>, d)) /\ RowOK(r)
  BY <1>2 DEF CompanyOK, OneHistory
<1>5. d.status = "undrawn" => d = Undrawn
  BY DEF Undrawn
<1>6. d.status = "undrawn" => r = NoRow
  <2>1. Undrawn.status = "undrawn"
    BY DEF Undrawn
  <2> QED  BY <1>5, <2>1 DEF CompanyOK
<1>7. d.status = "gone" => d = [Undrawn EXCEPT !.status = "gone"]
  BY DEF Undrawn
<1>8. ~InMemory(d)
  BY <1>1 DEF InMemory
<1> QED
  BY <1>3, <1>4, <1>5, <1>6, <1>7, <1>8, NothingSent
     DEF CompanyOK, InOrder, RowIsBehind, Covered, Overtaken

LEMMA RowBoots ==
  ASSUME NEW c, NEW r, NEW b, NEW co, CompanyTypes(c, r, b, co), CompanyOK(c, r, b, co),
         r.status = "open"
  PROVE  Recovered(r) \in Live /\ CompanyOK(c, r, <<>>, Recovered(r))
<1> DEFINE d == Recovered(r)
           K == Known(c, r, b, co)
           J == Known(c, r, <<>>, d)
<1>1. PICK e \in r.entries \cup {r.snapshot} : e.seq = r.seq /\ Replayed(r) = e.seats
  BY ReplayEnds
<1>2. /\ d.status = "open" /\ d.seats = Replayed(r) /\ d.seq = r.seq
      /\ d.holder = r.holder /\ d.left = r.left /\ d.news = {} /\ d.folded = NoSnapshot
  BY DEF Recovered, Undrawn
<1>3. d \in Live
  <2>1. e \in Entry
    BY <1>1, Numbers
  <2>2. r \in Row /\ Replayed(r) \in SUBSET Seats
    BY <1>1, <2>1 DEF CompanyTypes, Entry
  <2> QED  BY <2>2, Sizes DEF Recovered, Undrawn, Live, Row
<1> HIDE DEF d
<1>4. J \subseteq K /\ e \in J /\ e \in K
  BY <1>1, <1>2, NothingSent DEF Known
<1>5. OneHistory(K) /\ RowOK(r) /\ Seated(r, K)
  BY DEF CompanyOK
<1>6. OneHistory(J) /\ Seated(r, J) /\ Seated(d, J)
  BY <1>2, <1>4, <1>5, SeatedFewer DEF OneHistory
<1>7. MemoryOK(c, r, <<>>, d)
  <2>1. Within(d, d.news, d.folded) /\ Newer(r, d.news, d.folded)
    BY <1>2, Numbers DEF Within, Newer
  <2>2. Later(r, d)
    BY <1>2, Numbers DEF Later
  <2>3. \A f \in J : f.seq = d.seq => f.seats = d.seats
    BY <1>1, <1>2, <1>4, <1>6 DEF OneHistory
  <2>4. d.seats \subseteq LiveMembers(d)
    <3>1. e.seats \subseteq LiveMembers(r)
      BY <1>1, <1>4, <1>5 DEF Seated
    <3>2. LiveMembers(d) = LiveMembers(r)
      BY <1>2 DEF LiveMembers, Members
    <3> QED  BY <1>1, <1>2, <3>1, <3>2
  <2>5. (r.seq + 1)..d.seq = {}
    BY <1>2, Numbers
  <2> QED  BY <1>2, <2>1, <2>2, <2>3, <2>4, <2>5, NothingSent DEF MemoryOK
<1>8. CompanyOK(c, r, <<>>, d)
  BY <1>2, <1>5, <1>6, <1>7, NothingSent
     DEF CompanyOK, InOrder, RowIsBehind, Covered, Overtaken
<1> QED  BY <1>3, <1>8 DEF d

-----------------------------------------------------------------------------
(* What the world does with a company in memory *)

LEMMA KnownBelow ==
  ASSUME NEW c, NEW r, NEW b, NEW co, CompanyTypes(c, r, b, co), CompanyOK(c, r, b, co),
         InMemory(co)
  PROVE  /\ \A e \in Known(c, r, b, co) : e.seq <= co.seq
         /\ r.seq <= co.seq /\ \A i \in Mine(c, b) : b[i].seq <= co.seq
<1>1. MemoryOK(c, r, b, co) /\ RowOK(r) /\ InOrder(c, b)
  BY DEF CompanyOK
<1>2. r.seq <= co.seq /\ \A i \in Mine(c, b) : b[i].seq <= co.seq
  BY <1>1 DEF MemoryOK, Later
<1>3. \A e \in r.entries : e.seq <= r.seq
  BY <1>1, Numbers DEF RowOK
<1>4. \A i \in Mine(c, b) : b[i].folded.seq <= b[i].seq /\ \A e \in b[i].news : e.seq <= b[i].seq
  BY <1>1 DEF InOrder, Within
<1>5. \A e \in Known(c, r, b, co) :
        \/ e \in r.entries \/ e \in co.news \/ e \in {NoSnapshot, r.snapshot, co.folded}
        \/ \E i \in Mine(c, b) : e \in b[i].news \/ e = b[i].folded
  BY DEF Known
<1> QED  BY <1>1, <1>2, <1>3, <1>4, <1>5, Numbers DEF MemoryOK, Within, RowOK

LEMMA CompanyMoves ==
  ASSUME NEW c, NEW r, NEW b, NEW co, CompanyTypes(c, r, b, co), CompanyOK(c, r, b, co),
         NEW d \in Live, InMemory(d), NEW J, J = Known(c, r, b, d),
         OneHistory(J), Seated(d, J), MemoryOK(c, r, b, d),
         \A e \in J : \/ e \in Known(c, r, b, co)
                      \/ e.seq > r.seq /\ \A i \in Mine(c, b) : e.seq > b[i].seq
  PROVE  CompanyOK(c, r, b, d)
<1> DEFINE K == Known(c, r, b, co)
<1>1. \A e \in J : e.seq \in Nat
  <2>1. CompanyTypes(c, r, b, d)
    BY DEF CompanyTypes
  <2> QED  BY <2>1, Numbers
<1>2. Seated(r, K) /\ \A i \in Mine(c, b) : Seated(b[i], K)
  BY DEF CompanyOK
<1>3. Seated(r, J)
  <2>1. \A e \in J : e.seq = r.seq => e \in K
    BY <1>1, Numbers
  <2> QED  BY <1>2, <2>1 DEF Seated
<1>4. ASSUME NEW i \in Mine(c, b) PROVE Seated(b[i], J)
  <2>1. \A e \in J : e.seq = b[i].seq => e \in K
    BY <1>1, Numbers
  <2>2. Seated(b[i], K)
    BY <1>2
  <2> QED  BY <2>1, <2>2 DEF Seated
<1>5. d.status # "undrawn" /\ d.status # "gone"
  BY DEF InMemory
<1> QED  BY <1>3, <1>4, <1>5 DEF CompanyOK

\* An entry more, after which only members who play have a seat.
LEMMA LogsOK ==
  ASSUME NEW c, NEW r, NEW b, NEW co, CompanyTypes(c, r, b, co), CompanyOK(c, r, b, co),
         co.status = "open", NEW d \in Live, d.status = "open", d.seq = co.seq + 1,
         d.news = co.news \cup {[seq |-> co.seq + 1, seats |-> d.seats]},
         d.folded = co.folded, d.left = co.left,
         \A s \in Members(co) : d.holder[s] = co.holder[s],
         \A s \in Members(d), t \in Seats : t < s => t \in Members(d),
         d.seats \subseteq LiveMembers(d)
  PROVE  CompanyOK(c, r, b, d)
<1> DEFINE K == Known(c, r, b, co)
           J == Known(c, r, b, d)
           new == [seq |-> co.seq + 1, seats |-> d.seats]
<1>0. InMemory(co) /\ InMemory(d)
  BY DEF InMemory
<1>1. MemoryOK(c, r, b, co) /\ OneHistory(K) /\ Seated(co, K)
  BY <1>0 DEF CompanyOK
<1>2. J = K \cup {new}
  BY DEF Known
<1>3. /\ \A e \in K : e.seq <= co.seq /\ e.seq \in Nat
      /\ co.seq \in Nat /\ r.seq \in Nat /\ r.seq <= co.seq
      /\ \A i \in Mine(c, b) : b[i].seq <= co.seq /\ b[i].seq \in Nat
  BY <1>0, KnownBelow, Numbers
<1>4. new.seq = co.seq + 1 /\ new.seats = d.seats
  OBVIOUS
<1> HIDE DEF J, K, new
<1>5. \A e \in J : e.seq = d.seq => e = new
  BY <1>2, <1>3
<1>6. OneHistory(J)
  BY <1>1, <1>2, <1>3, <1>4 DEF OneHistory
<1>7. Members(co) \subseteq Members(d)
  BY DEF Members
<1>8. Seated(d, J)
  <2>1. d.left \subseteq Members(d)
    BY <1>1, <1>7 DEF Seated
  <2> QED  BY <1>4, <1>5, <2>1 DEF Seated
<1>9. ASSUME NEW v, Later(v, co), Newer(v, co.news, co.folded), v.seq \in Nat
      PROVE  Later(v, d) /\ Newer(v, d.news, d.folded)
  <2>1. \A s \in Members(v) : s \in Members(co)
    BY <1>9 DEF Later, Members
  <2>2. v.seq <= d.seq
    BY <1>3, <1>9 DEF Later
  <2>3. Later(v, d)
    BY <1>9, <2>1, <2>2 DEF Later
  <2>4. new.seq > v.seq
    BY <1>3, <1>4, <1>9 DEF Later
  <2>5. d.news = co.news \cup {new}
    BY DEF new
  <2> QED  BY <1>9, <2>3, <2>4, <2>5 DEF Newer
<1>10. MemoryOK(c, r, b, d)
  <2>0. d.news = co.news \cup {new}
    BY DEF new
  <2>1. Within(d, d.news, d.folded)
    BY <1>1, <1>3, <1>4, <2>0, Numbers DEF MemoryOK, Within
  <2>2. Later(r, d) /\ Newer(r, d.news, d.folded)
    BY <1>1, <1>3, <1>9 DEF MemoryOK
  <2>3. \A i \in Mine(c, b) : Later(b[i], d) /\ Newer(b[i], d.news, d.folded)
    BY <1>1, <1>3, <1>9 DEF MemoryOK
  <2>4. \A x \in (r.seq + 1)..d.seq :
          \/ \E e \in d.news : e.seq = x
          \/ \E i \in Mine(c, b) : \E e \in b[i].news : e.seq = x
    <3>1. \A x \in (r.seq + 1)..d.seq : x \in (r.seq + 1)..co.seq \/ x = new.seq
      BY <1>3, <1>4
    <3> QED  BY <1>1, <2>0, <3>1 DEF MemoryOK
  <2>5. \A e \in Known(c, r, b, d) : e.seq = d.seq => e.seats = d.seats
    BY <1>4, <1>5 DEF J
  <2> QED  BY <2>1, <2>2, <2>3, <2>4, <2>5 DEF MemoryOK
<1>11. \A e \in J : e \in K \/ (e.seq > r.seq /\ \A i \in Mine(c, b) : e.seq > b[i].seq)
  <2>1. new.seq > r.seq
    BY <1>3, <1>4
  <2>2. \A i \in Mine(c, b) : new.seq > b[i].seq
    BY <1>3, <1>4
  <2>3. ASSUME NEW e \in J, e \notin K
        PROVE  e.seq > r.seq /\ \A i \in Mine(c, b) : e.seq > b[i].seq
    <3>1. e = new
      BY <1>2, <2>3
    <3> QED  BY <2>1, <2>2, <3>1
  <2> QED  BY <2>3
<1> QED  BY <1>0, <1>6, <1>8, <1>10, <1>11, CompanyMoves DEF J, K

\* The snapshot of an entry just made is no other history.
LEMMA CompactsOK ==
  ASSUME NEW c, NEW r, NEW b, NEW co, CompanyTypes(c, r, b, co), CompanyOK(c, r, b, co),
         co.status = "open", [seq |-> co.seq, seats |-> co.seats] \in co.news
  PROVE  Compacted(co) \in Live /\ CompanyOK(c, r, b, Compacted(co))
<1> DEFINE d == Compacted(co)
           K == Known(c, r, b, co)
           J == Known(c, r, b, d)
           top == [seq |-> co.seq, seats |-> co.seats]
<1>0. co \in Live /\ InMemory(co) /\ top.seq = co.seq
  BY DEF CompanyTypes, InMemory
<1>1. /\ d.status = "open" /\ d.seats = co.seats /\ d.seq = co.seq /\ d.holder = co.holder
      /\ d.left = co.left /\ d.news = co.news /\ d.folded = top
  BY <1>0 DEF Compacted, Live
<1>2. d \in Live
  BY <1>0 DEF Compacted, Live, Entry
<1>3. MemoryOK(c, r, b, co) /\ OneHistory(K) /\ Seated(co, K)
  BY <1>0 DEF CompanyOK
<1> HIDE DEF d, top
<1>4. top \in co.news
  BY DEF top
<1>5. J \subseteq K
  BY <1>1, <1>4 DEF Known
<1>6. OneHistory(J) /\ Seated(d, J)
  BY <1>1, <1>3, <1>5, SeatedFewer DEF OneHistory
<1>7. Members(d) = Members(co) /\ LiveMembers(d) = LiveMembers(co)
  BY <1>1 DEF Members, LiveMembers
<1>8. \A v : Later(v, co) /\ Newer(v, co.news, co.folded) => Later(v, d) /\ Newer(v, d.news, d.folded)
  BY <1>1, <1>4 DEF Later, Newer
<1>9. Within(d, d.news, d.folded)
  BY <1>0, <1>1, <1>3, Numbers DEF MemoryOK, Within
<1>10. MemoryOK(c, r, b, d)
  BY <1>1, <1>3, <1>5, <1>7, <1>8, <1>9 DEF MemoryOK
<1> QED  BY <1>1, <1>2, <1>5, <1>6, <1>10, CompanyMoves DEF InMemory, d

\* Members leave who have no seat, all of them when the company closes.
LEMMA LeavesOK ==
  ASSUME NEW c, NEW r, NEW b, NEW co, CompanyTypes(c, r, b, co), CompanyOK(c, r, b, co),
         InMemory(co), NEW d \in Live,
         d.seats = co.seats, d.seq = co.seq, d.holder = co.holder,
         d.news = co.news, d.folded = co.folded,
         co.left \subseteq d.left, d.left \subseteq Members(co),
         \/ co.status = "open" /\ d.status = "open" /\ d.seats \cap d.left = {}
         \/ d.status = "closed" /\ d.left = Members(co)
  PROVE  CompanyOK(c, r, b, d)
<1> DEFINE K == Known(c, r, b, co)
<1>1. MemoryOK(c, r, b, co) /\ OneHistory(K) /\ Seated(co, K)
  BY DEF CompanyOK
<1>2. Known(c, r, b, d) = K
  BY DEF Known
<1>3. Members(d) = Members(co)
  BY DEF Members
<1>4. LiveMembers(d) \subseteq LiveMembers(co)
  BY <1>3 DEF LiveMembers
<1>5. d.status = "open" => d.seats \subseteq LiveMembers(d)
  BY <1>1, <1>3 DEF MemoryOK, LiveMembers
<1>6. d.status = "open" => \A e \in K : e.seq = d.seq => e.seats = d.seats
  BY <1>1 DEF MemoryOK
<1>7. Seated(d, K)
  <2>1. d.status = "open" => \A e \in K : e.seq = d.seq => e.seats \subseteq LiveMembers(d)
    BY <1>5, <1>6
  <2>2. d.status = "closed" => LiveMembers(d) = {}
    BY <1>3 DEF LiveMembers
  <2> QED  BY <1>1, <1>3, <2>1, <2>2 DEF Seated
<1>8. \A v : Later(v, co) => Later(v, d)
  BY DEF Later
<1>9. MemoryOK(c, r, b, d)
  BY <1>1, <1>2, <1>5, <1>6, <1>8 DEF MemoryOK, Within
<1>10. InMemory(d)
  BY DEF InMemory
<1> QED  BY <1>1, <1>2, <1>7, <1>9, <1>10, CompanyMoves

\* Nobody who plays has a seat that nobody holds.
LEMMA LogsFewer ==
  ASSUME NEW c, NEW r, NEW b, NEW co, CompanyTypes(c, r, b, co), CompanyOK(c, r, b, co),
         co.status = "open", co.seq < MaxSeq, NEW seats \in SUBSET co.seats,
         NEW d, d = Logged(co, seats)
  PROVE  d \in Live /\ CompanyOK(c, r, b, d)
<1>1. co \in Live /\ co.seats \subseteq Seats /\ co.seq \in Nat /\ co.seq + 1 \in 0..MaxSeq
  BY Sizes, Numbers DEF CompanyTypes, Live
<1>2. /\ d.status = co.status /\ d.seats = seats /\ d.seq = co.seq + 1
      /\ d.holder = co.holder /\ d.left = co.left /\ d.folded = co.folded
      /\ d.news = co.news \cup {[seq |-> co.seq + 1, seats |-> seats]}
  BY <1>1 DEF Logged, Live
<1>3. [seq |-> co.seq + 1, seats |-> seats] \in Entry
  BY <1>1 DEF Entry
<1>4. d \in Live
  BY <1>1, <1>3 DEF Logged, Live
<1>5. InMemory(co)
  BY DEF InMemory
<1>6. co.seats \subseteq LiveMembers(co) /\ Seated(co, Known(c, r, b, co))
  BY <1>5 DEF CompanyOK, MemoryOK
<1>7. Members(d) = Members(co) /\ LiveMembers(d) = LiveMembers(co)
  BY <1>2 DEF Members, LiveMembers
<1>8. \A s \in Members(d), t \in Seats : t < s => t \in Members(d)
  BY <1>6, <1>7 DEF Seated
<1>9. CompanyOK(c, r, b, d)
  BY <1>2, <1>4, <1>6, <1>7, <1>8, LogsOK
<1> QED  BY <1>4, <1>9

LEMMA Closes ==
  ASSUME NEW c, NEW r, NEW b, NEW co, CompanyTypes(c, r, b, co), CompanyOK(c, r, b, co),
         InMemory(co)
  PROVE  Closed(co) \in Live /\ CompanyOK(c, r, b, Closed(co)) /\ Closed(co).status = "closed"
<1> DEFINE d == Closed(co)
<1>1. co \in Live /\ Members(co) \subseteq Seats
  BY DEF CompanyTypes, Members
<1>2. /\ d.status = "closed" /\ d.seats = co.seats /\ d.seq = co.seq /\ d.holder = co.holder
      /\ d.left = Members(co) /\ d.news = co.news /\ d.folded = co.folded
  BY <1>1 DEF Closed, Live
<1>3. d \in Live
  BY <1>1 DEF Closed, Live
<1> HIDE DEF d
<1>4. co.left \subseteq Members(co)
  BY DEF CompanyOK, Seated
<1> QED  BY <1>2, <1>3, <1>4, LeavesOK DEF d

LEMMA Reconciles ==
  ASSUME NEW c, NEW r, NEW b, NEW co, CompanyTypes(c, r, b, co), CompanyOK(c, r, b, co),
         co.status = "open"
  PROVE  LET d == Reconciled(co)
         IN /\ d \in Live /\ CompanyOK(c, r, b, d) /\ InMemory(d)
            /\ co.seats # {} => d.status = "open" /\ d.seats = co.seats /\ d.seq = co.seq
<1> DEFINE there == [co EXCEPT !.left = @ \cup (Members(co) \ co.seats)]
<1>1. co \in Live /\ Members(co) \subseteq Seats /\ co.left \subseteq Seats /\ InMemory(co)
  BY DEF CompanyTypes, Members, Live, InMemory
<1>2. /\ there.status = "open" /\ there.seats = co.seats /\ there.seq = co.seq
      /\ there.holder = co.holder /\ there.left = co.left \cup (Members(co) \ co.seats)
      /\ there.news = co.news /\ there.folded = co.folded
  BY <1>1 DEF Live
<1>3. there \in Live
  BY <1>1 DEF Live
<1>4. Reconciled(co) = IF co.seats = {} THEN Closed(there) ELSE there
  BY DEF Reconciled
<1> HIDE DEF there
<1>5. co.left \subseteq Members(co) /\ co.seats \subseteq LiveMembers(co)
  BY <1>1 DEF CompanyOK, Seated, MemoryOK
<1>6. co.left \subseteq there.left /\ there.left \subseteq Members(co)
  BY <1>2, <1>5
<1>7. there.seats \cap there.left = {}
  BY <1>2, <1>5 DEF LiveMembers
<1>8. CompanyOK(c, r, b, there) /\ InMemory(there) /\ CompanyTypes(c, r, b, there)
  BY <1>1, <1>2, <1>3, <1>6, <1>7, LeavesOK DEF InMemory, CompanyTypes
<1>9. Closed(there) \in Live /\ CompanyOK(c, r, b, Closed(there)) /\ Closed(there).status = "closed"
  BY <1>8, Closes
<1> QED  BY <1>2, <1>3, <1>4, <1>8, <1>9 DEF InMemory

\* Seats given in order are counted by their number.
LEMMA NextSeat ==
  ASSUME NEW T, T \subseteq Seats, \A x \in T, y \in Seats : y < x => y \in T,
         Cardinality(T) \in Seats
  PROVE  \A x \in Seats : x \in T <=> x < Cardinality(T)
<1> DEFINE U == (0..MaxSeats) \ T
<1>0. MaxSeats \in Nat /\ Seats = 0..(MaxSeats - 1) /\ Seats \subseteq 0..MaxSeats
  BY Sizes DEF Seats
<1>1. MaxSeats \in U
  BY <1>0
<1>2. PICK z \in U : \A x \in U : z <= x
  <2>1. U \subseteq Nat /\ U # {}
    BY <1>1
  <2> HIDE DEF U
  <2> QED  BY <2>1, LeastExists
<1>3. z \in Nat /\ z <= MaxSeats /\ z \notin T
  BY <1>0, <1>2
<1>4. \A x \in Seats : x < z => x \in T
  BY <1>0, <1>2, <1>3
<1>5. \A x \in T : x < z /\ x \in Nat
  <2> SUFFICES ASSUME NEW x \in T PROVE x < z /\ x \in Nat
    OBVIOUS
  <2>1. x \in Seats /\ x \in Nat /\ x <= MaxSeats - 1 /\ x # z
    BY <1>0, <1>3
  <2>2. CASE z < x
    <3>1. z \in Seats
      BY <1>0, <1>3, <2>1, <2>2
    <3> QED  BY <1>3, <2>2, <3>1
  <2> QED  BY <1>3, <2>1, <2>2
<1>6. T = 0..(z - 1)
  <2>1. \A x \in 0..(z - 1) : x \in Seats /\ x < z
    BY <1>0, <1>3
  <2>2. \A x \in T : x \in 0..(z - 1)
    BY <1>3, <1>5
  <2> QED  BY <1>4, <2>1, <2>2
<1>7. Cardinality(T) = z
  <2>1. 0 \in Int /\ z - 1 \in Int
    BY <1>3
  <2>2. Cardinality(0..(z - 1)) = IF 0 > z - 1 THEN 0 ELSE z - 1 - 0 + 1
    BY <2>1, FS_Interval
  <2> QED  BY <1>3, <1>6, <2>2
<1> QED  BY <1>4, <1>5, <1>7

LEMMA Joins ==
  ASSUME NEW c, NEW r, NEW b, NEW co, CompanyTypes(c, r, b, co), CompanyOK(c, r, b, co),
         co.status = "open", co.seq < MaxSeq, NEW p \in Profiles,
         NEW s \in Seats, s = Cardinality(Members(co))
  PROVE  LET d == Reconciled([Logged(co, co.seats \cup {s}) EXCEPT !.holder[s] = p])
         IN d \in Live /\ CompanyOK(c, r, b, d)
<1> DEFINE d == [Logged(co, co.seats \cup {s}) EXCEPT !.holder[s] = p]
<1>1. /\ co \in Live /\ co.seats \subseteq Seats /\ co.seq \in Nat /\ co.seq + 1 \in 0..MaxSeq
      /\ co.holder \in Holders /\ InMemory(co)
  BY Sizes, Numbers DEF CompanyTypes, Live, InMemory
<1>2. /\ d.status = "open" /\ d.seats = co.seats \cup {s} /\ d.seq = co.seq + 1
      /\ d.holder = [co.holder EXCEPT ![s] = p] /\ d.left = co.left /\ d.folded = co.folded
      /\ d.news = co.news \cup {[seq |-> co.seq + 1, seats |-> d.seats]}
  BY <1>1 DEF Logged, Live
<1>3. d \in Live
  <2>1. [seq |-> co.seq + 1, seats |-> co.seats \cup {s}] \in Entry
    BY <1>1 DEF Entry
  <2>2. [co.holder EXCEPT ![s] = p] \in Holders
    BY <1>1 DEF Holders
  <2> QED  BY <1>1, <2>1, <2>2 DEF Logged, Live
<1> HIDE DEF d
<1>4. Seated(co, Known(c, r, b, co)) /\ co.seats \subseteq LiveMembers(co)
  BY <1>1 DEF CompanyOK, MemoryOK
<1>5. Members(co) \subseteq Seats /\ \A x \in Seats : x \in Members(co) <=> x < s
  <2>1. \A x \in Members(co), y \in Seats : y < x => y \in Members(co)
    BY <1>4 DEF Seated
  <2>2. Members(co) \subseteq Seats
    BY DEF Members
  <2> HIDE DEF d
  <2> QED  BY <2>1, <2>2, NextSeat
<1>6. s \notin Members(co) /\ s \in Nat
  BY <1>5, Sizes
<1>7. /\ Members(d) = Members(co) \cup {s}
      /\ \A x \in Members(co) : d.holder[x] = co.holder[x]
  <2>1. p # NoOne
    BY StoreNull
  <2>2. \A x \in Seats : d.holder[x] = IF x = s THEN p ELSE co.holder[x]
    BY <1>1, <1>2 DEF Holders
  <2> QED  BY <1>6, <2>1, <2>2 DEF Members
<1>8. \A x \in Members(d), y \in Seats : y < x => y \in Members(d)
  <2>1. \A x \in Seats : x \in Nat
    BY Sizes
  <2>2. ASSUME NEW x \in Members(d) PROVE x \in Nat /\ x <= s
    <3>1. CASE x \in Members(co)
      <4>1. x \in Seats
        BY <1>5, <3>1
      <4>2. x \in Nat /\ x < s
        BY <1>5, <2>1, <3>1, <4>1
      <4> QED  BY <1>6, <4>2
    <3>2. CASE x = s
      BY <1>6, <3>2
    <3> QED  BY <1>7, <3>1, <3>2
  <2>3. \A x \in Members(d), y \in Seats : y < x => y < s
    BY <1>6, <2>1, <2>2
  <2> QED  BY <1>5, <1>7, <2>3
<1>9. d.seats \subseteq LiveMembers(d)
  <2>1. s \notin d.left
    BY <1>2, <1>4, <1>6 DEF Seated
  <2> QED  BY <1>2, <1>4, <1>7, <2>1 DEF LiveMembers
<1>10. CompanyOK(c, r, b, d) /\ CompanyTypes(c, r, b, d)
  BY <1>2, <1>3, <1>7, <1>8, <1>9, LogsOK DEF CompanyTypes
<1> QED  BY <1>2, <1>10, Reconciles DEF d

LEMMA Leaves ==
  ASSUME NEW c, NEW r, NEW b, NEW co, CompanyTypes(c, r, b, co), CompanyOK(c, r, b, co),
         co.status = "open", co.seq < MaxSeq, NEW s
  PROVE  LET d == Reconciled(Logged(co, co.seats \ {s}))
         IN d \in Live /\ CompanyOK(c, r, b, d)
<1> DEFINE d == Logged(co, co.seats \ {s})
<1>1. d \in Live /\ CompanyOK(c, r, b, d)
  <2> DEFINE seats == co.seats \ {s}
  <2>1. seats \in SUBSET co.seats
    OBVIOUS
  <2>2. d = Logged(co, seats)
    OBVIOUS
  <2> HIDE DEF seats, d
  <2> QED  BY <2>1, <2>2, LogsFewer
<1>3. d.status = "open"
  BY DEF Logged, CompanyTypes, Live
<1>2. CompanyTypes(c, r, b, d)
  BY <1>1 DEF CompanyTypes
<1> HIDE DEF d
<1> QED  BY <1>1, <1>2, <1>3, Reconciles DEF d

LEMMA Plays ==
  ASSUME NEW c, NEW r, NEW b, NEW co, CompanyTypes(c, r, b, co), CompanyOK(c, r, b, co),
         co.status = "open", co.seats # {}, NEW folds \in BOOLEAN, NEW last \in BOOLEAN,
         NEW idle \in SUBSET Seats, Cardinality(idle) <= 1,
         co.seq + 1 + Cardinality(idle) <= MaxSeq
  PROVE  LET played == Logged(co, co.seats)
             kept == Reconciled(IF folds THEN Compacted(played) ELSE played)
             released == IF idle = {} THEN kept ELSE Logged(kept, kept.seats \ idle)
             d == IF last THEN Closed(released) ELSE released
         IN d \in Live /\ CompanyOK(c, r, b, d)
<1> DEFINE played == Logged(co, co.seats)
           snapped == IF folds THEN Compacted(played) ELSE played
           kept == Reconciled(snapped)
           released == IF idle = {} THEN kept ELSE Logged(kept, kept.seats \ idle)
<1>0. co.seq \in Nat /\ MaxSeq \in Nat
  BY Numbers, Sizes
<1>1. Cardinality(idle) \in Nat /\ (idle # {} => Cardinality(idle) >= 1)
  <2>1. IsFiniteSet(idle)
    <3>1. IsFiniteSet(0..(MaxSeats - 1))
      <4>1. 0 \in Int /\ MaxSeats - 1 \in Int
        BY Sizes
      <4> QED  BY <4>1, FS_Interval
    <3> QED  BY <3>1, FS_Subset DEF Seats
  <2>2. Cardinality(idle) \in Nat
    BY <2>1, FS_CardinalityType
  <2>3. Cardinality(idle) = 0 => idle = {}
    BY <2>1, FS_EmptySet
  <2> QED  BY <2>2, <2>3
<1>2. co.seq < MaxSeq /\ (idle # {} => co.seq + 1 < MaxSeq)
  BY <1>0, <1>1
<1>3. /\ played \in Live /\ CompanyOK(c, r, b, played) /\ played.status = "open"
      /\ played.seats = co.seats /\ played.seq = co.seq + 1
      /\ [seq |-> played.seq, seats |-> played.seats] \in played.news
  <2>1. co.seats \in SUBSET co.seats
    OBVIOUS
  <2>2. played = Logged(co, co.seats)
    OBVIOUS
  <2>3. co \in Live
    BY DEF CompanyTypes
  <2>4. /\ played.status = "open" /\ played.seats = co.seats /\ played.seq = co.seq + 1
        /\ [seq |-> played.seq, seats |-> played.seats] \in played.news
    BY <2>3 DEF Logged, Live
  <2> HIDE DEF played
  <2> QED  BY <1>2, <2>1, <2>2, <2>4, LogsFewer
<1> HIDE DEF played
<1>4. CompanyTypes(c, r, b, played)
  BY <1>3 DEF CompanyTypes
<1>5. /\ Compacted(played).status = "open" /\ Compacted(played).seats = played.seats
      /\ Compacted(played).seq = played.seq
  BY <1>3 DEF Compacted, Live
<1>6. /\ snapped \in Live /\ CompanyOK(c, r, b, snapped) /\ snapped.status = "open"
      /\ snapped.seats = co.seats /\ snapped.seq = co.seq + 1
  BY <1>3, <1>4, <1>5, CompactsOK
<1> HIDE DEF snapped
<1>7. CompanyTypes(c, r, b, snapped)
  BY <1>6 DEF CompanyTypes
<1>8. /\ kept \in Live /\ CompanyOK(c, r, b, kept) /\ kept.status = "open"
      /\ kept.seq = co.seq + 1
  BY <1>6, <1>7, Reconciles
<1> HIDE DEF kept
<1>9. CompanyTypes(c, r, b, kept)
  BY <1>8 DEF CompanyTypes
<1>10. released \in Live /\ CompanyOK(c, r, b, released) /\ released.status = "open"
  <2>1. CASE idle = {}
    BY <1>8, <2>1
  <2>2. CASE idle # {}
    <3> DEFINE seats == kept.seats \ idle
    <3>1. seats \in SUBSET kept.seats
      OBVIOUS
    <3> DEFINE e == Logged(kept, seats)
    <3>4. e = Logged(kept, seats)
      OBVIOUS
    <3> HIDE DEF seats, e
    <3>2. kept.seq < MaxSeq
      BY <1>2, <1>8, <2>2
    <3>3. e \in Live /\ CompanyOK(c, r, b, e)
      BY <1>8, <1>9, <3>1, <3>2, <3>4, LogsFewer
    <3>5. e.status = "open"
      BY <1>8, <3>4 DEF Logged, Live
    <3> QED  BY <2>2, <3>3, <3>5 DEF seats, e
  <2> QED  BY <2>1, <2>2
<1> HIDE DEF released
<1>11. CompanyTypes(c, r, b, released) /\ InMemory(released)
  BY <1>10 DEF CompanyTypes, InMemory
<1>12. Closed(released) \in Live /\ CompanyOK(c, r, b, Closed(released))
  BY <1>10, <1>11, Closes
<1> QED  BY <1>10, <1>12 DEF released, kept, snapped, played

LEMMA Creates ==
  ASSUME NEW c, NEW r, NEW b, CompanyTypes(c, r, b, Undrawn), CompanyOK(c, r, b, Undrawn),
         NEW p \in Profiles
  PROVE  LET d == [Undrawn EXCEPT !.status = "open", !.seats = {0},
                                  !.holder[0] = p, !.made = TRUE]
         IN d \in Live /\ CompanyOK(c, r, b, d)
<1> DEFINE d == [Undrawn EXCEPT !.status = "open", !.seats = {0},
                                !.holder[0] = p, !.made = TRUE]
           empty == [s \in Seats |-> NoOne]
<1>1. /\ d.status = "open" /\ d.seats = {0} /\ d.seq = 0 /\ d.left = {} /\ d.news = {}
      /\ d.folded = NoSnapshot /\ d.holder = [empty EXCEPT ![0] = p]
  BY DEF Undrawn
<1>2. d \in Live
  <2>1. [empty EXCEPT ![0] = p] \in Holders
    BY Sizes DEF Holders
  <2>2. 0 \in 0..MaxSeq /\ NoSnapshot \in Entry /\ {0} \in SUBSET Seats
    BY Sizes
  <2>3. Undrawn \in [status : {"undrawn"}, seats : {{}}, seq : {0}, holder : {empty}, left : {{}},
                     made : {FALSE}, news : {{}}, folded : {NoSnapshot}]
    BY DEF Undrawn
  <2>4. Undrawn.holder = empty
    BY DEF Undrawn
  <2> HIDE DEF empty
  <2> QED  BY <2>1, <2>2, <2>3, <2>4 DEF Live
<1> HIDE DEF d
<1>3. Members(d) = {0} /\ LiveMembers(d) = {0}
  <2>1. \A s \in Seats : d.holder[s] = IF s = 0 THEN p ELSE NoOne
    BY <1>1
  <2>2. Members(d) = {0}
    BY <2>1, StoreNull, Sizes DEF Members
  <2> QED  BY <1>1, <2>2 DEF LiveMembers
<1>4. r = NoRow /\ Mine(c, b) = {}
  <2>1. Undrawn.status = "undrawn"
    BY DEF Undrawn
  <2> QED  BY <2>1 DEF CompanyOK
<1>5. /\ r.seq = 0 /\ r.entries = {} /\ r.snapshot = NoSnapshot /\ r.left = {}
      /\ \A s \in Seats : r.holder[s] = NoOne
  BY <1>4 DEF NoRow
<1>6. Members(r) = {}
  BY <1>5 DEF Members
<1>7. Known(c, r, b, d) = {NoSnapshot} /\ Known(c, r, b, Undrawn) = {NoSnapshot}
  <2>1. Undrawn.news = {} /\ Undrawn.folded = NoSnapshot
    BY DEF Undrawn
  <2> QED  BY <1>1, <1>4, <1>5, <2>1 DEF Known
<1>8. NoSnapshot.seats = {0} /\ NoSnapshot.seq = 0
  BY DEF NoSnapshot
<1>9. Seated(d, {NoSnapshot}) /\ OneHistory({NoSnapshot})
  BY <1>1, <1>3, <1>8, Sizes DEF Seated, OneHistory
<1>10. MemoryOK(c, r, b, d)
  <2>1. Within(d, d.news, d.folded) /\ Newer(r, d.news, d.folded) /\ Later(r, d)
    BY <1>1, <1>5, <1>6, <1>8 DEF Within, Newer, Later
  <2>2. (r.seq + 1)..d.seq = {}
    BY <1>1, <1>5
  <2> QED  BY <1>1, <1>3, <1>4, <1>7, <1>8, <2>1, <2>2 DEF MemoryOK
<1>11. InMemory(d)
  BY <1>1 DEF InMemory
<1>12. CompanyOK(c, r, b, d)
  BY <1>2, <1>7, <1>9, <1>10, <1>11, CompanyMoves
<1> QED  BY <1>2, <1>12 DEF d

-----------------------------------------------------------------------------
(* The drain *)

\* Each company that changed has one write, and there is no other write.
LEMMA Drains ==
  ASSUME StoreTypeOK
  PROVE  /\ Drained \in Seq(Write) /\ Len(Drained) \in Nat
         /\ \A i \in 1..Len(Drained) :
              \E c \in Companies : IsDirty(live[c]) /\ Drained[i] = WriteOf(c)
         /\ \A c \in Companies : IsDirty(live[c]) =>
              \E i \in 1..Len(Drained) :
                /\ Drained[i] = WriteOf(c)
                /\ \A j \in 1..Len(Drained) : Drained[j].id = c => j = i
<1> DEFINE D == {c \in Companies : IsDirty(live[c])}
           Upto(c) == {d \in 1..c : IsDirty(live[d])}
           n == Cardinality(D)
           rank == [c \in D |-> Cardinality(Upto(c))]
           Nth(i) == CHOOSE c \in Companies : IsDirty(live[c]) /\ Cardinality(Upto(c)) = i
<1>1. MaxCompanies \in Nat /\ Companies = 1..MaxCompanies /\ live \in [Companies -> Live]
  BY Sizes DEF Companies, StoreTypeOK
<1>2. IsFiniteSet(D) /\ n \in Nat
  <2>1. IsFiniteSet(Companies)
    <3>1. 1 \in Int /\ MaxCompanies \in Int
      BY <1>1
    <3> QED  BY <1>1, <3>1, FS_Interval
  <2>2. D \in SUBSET Companies
    OBVIOUS
  <2>3. IsFiniteSet(D)
    BY <2>1, <2>2, FS_Subset
  <2> QED  BY <2>3, FS_CardinalityType
<1>3. ASSUME NEW c \in D
      PROVE  /\ IsFiniteSet(Upto(c)) /\ Cardinality(Upto(c)) \in 1..n
             /\ \A d \in D : d < c => Cardinality(Upto(d)) < Cardinality(Upto(c))
  <2>1. c \in Nat /\ c \in Upto(c) /\ Upto(c) \in SUBSET D
    BY <1>1
  <2>2. IsFiniteSet(Upto(c)) /\ Cardinality(Upto(c)) \in Nat /\ Cardinality(Upto(c)) <= n
    <3> HIDE DEF D, Upto
    <3> QED  BY <1>2, <2>1, FS_Subset, FS_CardinalityType
  <2>3. Cardinality(Upto(c)) # 0
    <3> HIDE DEF D, Upto
    <3> QED  BY <2>1, <2>2, FS_EmptySet
  <2>4. ASSUME NEW d \in D, d < c PROVE Cardinality(Upto(d)) < Cardinality(Upto(c))
    <3>1. d \in Nat
      BY <1>1
    <3>2. Upto(d) \in SUBSET (Upto(c) \ {c})
      BY <2>1, <2>4, <3>1
    <3>3. /\ IsFiniteSet(Upto(c) \ {c})
          /\ Cardinality(Upto(c) \ {c}) = Cardinality(Upto(c)) - 1
      <4> HIDE DEF Upto
      <4> QED  BY <2>1, <2>2, FS_RemoveElement
    <3>4. Cardinality(Upto(d)) <= Cardinality(Upto(c)) - 1 /\ Cardinality(Upto(d)) \in Nat
      <4> HIDE DEF Upto
      <4> QED  BY <3>2, <3>3, FS_Subset, FS_CardinalityType
    <3> HIDE DEF Upto
    <3> QED  BY <2>2, <3>4
  <2> HIDE DEF D, Upto
  <2> QED  BY <1>2, <2>2, <2>3, <2>4
<1>4. \A c, d \in D : Cardinality(Upto(c)) = Cardinality(Upto(d)) => c = d
  <2> SUFFICES ASSUME NEW c \in D, NEW d \in D, Cardinality(Upto(c)) = Cardinality(Upto(d)), c # d
               PROVE  FALSE
    OBVIOUS
  <2>1. c \in Nat /\ d \in Nat
    BY <1>1
  <2>2. c < d \/ d < c
    BY <2>1
  <2>3. Cardinality(Upto(c)) \in 1..n /\ Cardinality(Upto(d)) \in 1..n
    BY <1>3
  <2>4. Cardinality(Upto(c)) < Cardinality(Upto(d)) \/ Cardinality(Upto(d)) < Cardinality(Upto(c))
    BY <1>3, <2>2
  <2> HIDE DEF Upto
  <2> QED  BY <1>2, <2>3, <2>4
<1>5. \A i \in 1..n : \E c \in D : Cardinality(Upto(c)) = i
  <2>1. rank \in [D -> 1..n] /\ \A c \in D : rank[c] = Cardinality(Upto(c))
    BY <1>3
  <2>2. rank \in Injection(D, 1..n)
    <3>1. \A c, d \in D : rank[c] = rank[d] => c = d
      <4> HIDE DEF rank, Upto, D
      <4> QED  BY <1>4, <2>1
    <3> HIDE DEF rank, Upto, D
    <3> QED  BY <2>1, <3>1 DEF Injection, IsInjective
  <2>3. IsFiniteSet(1..n) /\ Cardinality(1..n) = n
    <3> HIDE DEF n
    <3>1. 1 \in Int /\ n \in Int
      BY <1>2
    <3>2. Cardinality(1..n) = IF 1 > n THEN 0 ELSE n - 1 + 1
      BY <3>1, FS_Interval
    <3> QED  BY <1>2, <3>1, <3>2, FS_Interval
  <2>4. rank \in Surjection(D, 1..n)
    <3>1. Cardinality(D) = Cardinality(1..n)
      BY <2>3
    <3> HIDE DEF rank, n, D
    <3> QED  BY <2>2, <2>3, <3>1, FS_Injection
  <2> HIDE DEF rank, Upto, n, D
  <2> QED  BY <2>1, <2>4 DEF Surjection
<1>6. ASSUME NEW i \in 1..n PROVE Nth(i) \in D /\ Cardinality(Upto(Nth(i))) = i
  <2>1. \E c \in Companies : IsDirty(live[c]) /\ Cardinality(Upto(c)) = i
    BY <1>5, <1>6
  <2> HIDE DEF Upto
  <2>2. Nth(i) \in Companies /\ IsDirty(live[Nth(i)]) /\ Cardinality(Upto(Nth(i))) = i
    BY <2>1
  <2> QED  BY <2>2
<1>7. Drained = [i \in 1..n |-> WriteOf(Nth(i))]
  BY DEF Drained
<1>8. \A c \in D : WriteOf(c) \in Write /\ WriteOf(c).id = c
  <2> SUFFICES ASSUME NEW c \in D PROVE WriteOf(c) \in Write /\ WriteOf(c).id = c
    OBVIOUS
  <2>1. c \in Companies /\ live[c] \in Live /\ live[c].status \in {"open", "closed"}
    BY <1>1 DEF IsDirty
  <2> QED  BY <2>1 DEF WriteOf, Live, Write
<1> HIDE DEF n, Nth
<1>9. \A i \in 1..n : Drained[i] = WriteOf(Nth(i)) /\ Drained[i] \in Write /\ Drained[i].id = Nth(i)
  BY <1>6, <1>7, <1>8
<1>10. Drained \in Seq(Write) /\ Len(Drained) = n
  <2>1. Drained \in [1..n -> Write]
    BY <1>7, <1>9
  <2> QED  BY <1>2, <2>1, IsASeq, LenProperties
<1>11. ASSUME NEW c \in D
       PROVE  \E i \in 1..n : Drained[i] = WriteOf(c) /\ \A j \in 1..n : Drained[j].id = c => j = i
  <2> DEFINE i == Cardinality(Upto(c))
  <2>1. i \in 1..n
    BY <1>3
  <2>2. Nth(i) = c
    BY <1>4, <1>6, <2>1
  <2>3. \A j \in 1..n : Drained[j].id = c => j = i
    BY <1>6, <1>9
  <2> HIDE DEF i
  <2> QED  BY <1>9, <2>1, <2>2, <2>3
<1>12. \A i \in 1..Len(Drained) :
         \E c \in Companies : IsDirty(live[c]) /\ Drained[i] = WriteOf(c)
  BY <1>6, <1>9, <1>10
<1>13. \A c \in Companies : IsDirty(live[c]) =>
         \E i \in 1..Len(Drained) :
           /\ Drained[i] = WriteOf(c)
           /\ \A j \in 1..Len(Drained) : Drained[j].id = c => j = i
  BY <1>10, <1>11
<1> QED  BY <1>2, <1>10, <1>12, <1>13

-----------------------------------------------------------------------------
(* A flush, a commit, and the theorem *)

\* A batch that says nothing of a company leaves it as it was.
LEMMA SaysNothing ==
  ASSUME NEW c, NEW r, NEW b, NEW co, CompanyOK(c, r, b, co), NEW a,
         Mine(c, a) = Mine(c, b), \A i \in Mine(c, b) : a[i] = b[i]
  PROVE  CompanyOK(c, r, a, co)
<1>1. Known(c, r, a, co) = Known(c, r, b, co)
  BY DEF Known
<1>2. /\ InOrder(c, a) /\ RowIsBehind(c, r, a) /\ Covered(c, r, a) /\ Overtaken(c, r, a)
  BY DEF CompanyOK, InOrder, RowIsBehind, Covered, Overtaken
<1>3. MemoryOK(c, r, b, co) => MemoryOK(c, r, a, co)
  BY <1>1 DEF MemoryOK
<1> QED  BY <1>1, <1>2, <1>3 DEF CompanyOK

\* What the world drains of a company is the last write of it.
LEMMA LastWrite ==
  ASSUME NEW c, NEW r, NEW b, NEW co, CompanyTypes(c, r, b, co), CompanyOK(c, r, b, co),
         InMemory(co), NEW a, NEW z \in Nat, NEW w, w = a[z],
         Mine(c, a) = Mine(c, b) \cup {z}, \A i \in Mine(c, b) : i < z /\ a[i] = b[i],
         w.seq = co.seq, w.status = co.status, w.holder = co.holder, w.left = co.left,
         w.news = co.news, w.folded = co.folded
  PROVE  /\ InOrder(c, a) /\ RowIsBehind(c, r, a) /\ Covered(c, r, a) /\ Overtaken(c, r, a)
         /\ \A K : Seated(co, K) => Seated(w, K)
<1>1. MemoryOK(c, r, b, co) /\ InOrder(c, b) /\ RowOK(r)
  BY DEF CompanyOK
<1>2. \A v : Later(v, co) => Later(v, w)
  BY DEF Later
<1>3. InOrder(c, a)
  <2>1. \A i \in Mine(c, a) : Within(a[i], a[i].news, a[i].folded)
    BY <1>1 DEF MemoryOK, InOrder, Within
  <2>2. ASSUME NEW i \in Mine(c, a), NEW j \in Mine(c, a), i < j
        PROVE  Later(a[i], a[j]) /\ Newer(a[i], a[j].news, a[j].folded)
    <3>1. i \in Mine(c, b)
      <4>1. ~(z < z) /\ \A k \in Mine(c, b) : k \in Nat /\ ~(z < k)
        BY Numbers
      <4> QED  BY <2>2, <4>1
    <3>2. CASE j \in Mine(c, b)
      BY <1>1, <2>2, <3>1, <3>2 DEF InOrder
    <3>3. CASE j = z
      BY <1>1, <1>2, <3>1, <3>3 DEF MemoryOK
    <3> QED  BY <3>2, <3>3
  <2> QED  BY <2>1, <2>2 DEF InOrder
<1>4. RowIsBehind(c, r, a)
  <2> SUFFICES ASSUME NEW j \in Mine(c, a), \A i \in Mine(c, a) : i <= j
               PROVE  Later(r, a[j])
    BY DEF RowIsBehind
  <2>1. CASE j \in Mine(c, b)
    BY <2>1 DEF CompanyOK, RowIsBehind
  <2>2. CASE j = z
    BY <1>1, <1>2, <2>2 DEF MemoryOK
  <2> QED  BY <2>1, <2>2
<1>5. Covered(c, r, a)
  <2> SUFFICES ASSUME NEW j \in Mine(c, a), NEW x \in (r.seq + 1)..a[j].seq
               PROVE  \E i \in Mine(c, a) : \E e \in a[i].news : e.seq = x
    BY DEF Covered
  <2>1. CASE j \in Mine(c, b)
    <3>1. \E i \in Mine(c, b) : \E e \in b[i].news : e.seq = x
      BY <2>1 DEF CompanyOK, Covered
    <3> QED  BY <3>1
  <2>2. CASE j = z
    <3>1. \/ \E e \in co.news : e.seq = x
          \/ \E i \in Mine(c, b) : \E e \in b[i].news : e.seq = x
      BY <1>1, <2>2 DEF MemoryOK
    <3> QED  BY <3>1
  <2> QED  BY <2>1, <2>2
<1>6. Overtaken(c, r, a)
  <2>1. CASE \E i \in Mine(c, b) : b[i].folded # NoSnapshot /\ b[i].folded.seq >= r.snapshot.seq
    BY <2>1 DEF Overtaken
  <2>2. CASE \A i \in Mine(c, b) :
               b[i].folded = NoSnapshot /\ \A e \in b[i].news : e.seq > r.snapshot.seq
    <3>1. r.snapshot.seq <= r.seq /\ Newer(r, co.news, co.folded)
      BY <1>1 DEF RowOK, MemoryOK
    <3>2. CASE w.folded = NoSnapshot
      <4>1. \A e \in w.news : e.seq > r.snapshot.seq
        BY <3>1, Numbers DEF Newer
      <4> QED  BY <2>2, <3>2, <4>1 DEF Overtaken
    <3>3. CASE w.folded # NoSnapshot
      <4>1. w.folded.seq >= r.snapshot.seq
        BY <3>1, <3>3, Numbers DEF Newer
      <4> QED  BY <3>3, <4>1 DEF Overtaken
    <3> QED  BY <3>2, <3>3
  <2> QED  BY <2>1, <2>2 DEF CompanyOK, Overtaken
<1>7. ASSUME NEW K, Seated(co, K) PROVE Seated(w, K)
  <2>1. K \subseteq K
    OBVIOUS
  <2> QED  BY <1>7, <2>1, SeatedFewer
<1> QED  BY <1>3, <1>4, <1>5, <1>6, <1>7

\* A company after a drain.
Drawn(co) ==
  CASE co.status = "closed" -> [Undrawn EXCEPT !.status = "gone"]
    [] co.status = "open"   -> [co EXCEPT !.made = FALSE, !.news = {}, !.folded = NoSnapshot]
    [] OTHER                -> co

LEMMA UndrawnIsLive ==
  /\ Undrawn \in Live /\ [Undrawn EXCEPT !.status = "gone"] \in Live
  /\ NoRow \in Row
<1> DEFINE empty == [s \in Seats |-> NoOne]
<1>1. empty \in Holders
  BY DEF Holders
<1>2. 0 \in 0..MaxSeq /\ NoSnapshot \in Entry
  BY Sizes
<1>3. Undrawn \in [status : {"undrawn"}, seats : {{}}, seq : {0}, holder : {empty}, left : {{}},
                   made : {FALSE}, news : {{}}, folded : {NoSnapshot}]
  BY DEF Undrawn
<1>4. NoRow \in [status : {"none"}, seq : {0}, snapshot : {NoSnapshot}, entries : {{}},
                 holder : {empty}, left : {{}}]
  BY DEF NoRow
<1> HIDE DEF empty
<1>5. Undrawn \in Live /\ NoRow \in Row
  BY <1>1, <1>2, <1>3, <1>4 DEF Live, Row
<1> QED  BY <1>5 DEF Live

LEMMA DrawnIsLive ==
  ASSUME NEW co \in Live
  PROVE  Drawn(co) \in Live
<1>1. [Undrawn EXCEPT !.status = "gone"] \in Live
  BY UndrawnIsLive
<1>2. CASE co.status = "closed"
  BY <1>1, <1>2 DEF Drawn
<1>3. CASE co.status = "open"
  BY <1>3, Sizes DEF Drawn, Live
<1>4. CASE co.status \notin {"open", "closed"}
  BY <1>4 DEF Drawn
<1> QED  BY <1>2, <1>3, <1>4

LEMMA Untouched ==
  ASSUME NEW co \in Live, ~IsDirty(co)
  PROVE  Drawn(co) = co
<1>1. CASE co.status \in {"undrawn", "gone"}
  BY <1>1 DEF Drawn
<1>2. CASE co.status = "open"
  <2>1. co.made = FALSE /\ co.news = {} /\ co.folded = NoSnapshot
    BY <1>2 DEF IsDirty, Live
  <2> QED  BY <1>2, <2>1 DEF Drawn, Live
<1>3. CASE co.status = "closed"
  BY <1>3 DEF IsDirty
<1> QED  BY <1>1, <1>2, <1>3 DEF Live

LEMMA Drain ==
  ASSUME NEW c, NEW r, NEW b, NEW co, CompanyTypes(c, r, b, co), CompanyOK(c, r, b, co),
         InMemory(co), NEW a, NEW z \in Nat, NEW w, w = a[z],
         Mine(c, a) = Mine(c, b) \cup {z}, \A i \in Mine(c, b) : i < z /\ a[i] = b[i],
         w.seq = co.seq, w.status = co.status, w.holder = co.holder, w.left = co.left,
         w.news = co.news, w.folded = co.folded
  PROVE  CompanyOK(c, r, a, Drawn(co))
<1> DEFINE d == Drawn(co)
           K == Known(c, r, b, co)
           J == Known(c, r, a, d)
<1>1. co \in Live /\ co.status \in {"open", "closed"}
  BY DEF CompanyTypes, InMemory
<1>2. /\ d.news = {} /\ d.folded = NoSnapshot
      /\ co.status = "closed" => d = [Undrawn EXCEPT !.status = "gone"] /\ d.status = "gone"
      /\ co.status = "open" => /\ d.status = "open" /\ d.seats = co.seats /\ d.seq = co.seq
                               /\ d.holder = co.holder /\ d.left = co.left
  BY <1>1 DEF Drawn, Undrawn, Live
<1> HIDE DEF d
<1>3. MemoryOK(c, r, b, co) /\ OneHistory(K) /\ Seated(co, K) /\ RowOK(r) /\ Seated(r, K)
      /\ \A i \in Mine(c, b) : Seated(b[i], K)
  BY DEF CompanyOK
<1>4. J \subseteq K
  <2>1. \A i \in Mine(c, a) : a[i].news \cup {a[i].folded} \subseteq K
    BY DEF Known
  <2> QED  BY <1>2, <2>1 DEF Known
<1>5. /\ InOrder(c, a) /\ RowIsBehind(c, r, a) /\ Covered(c, r, a) /\ Overtaken(c, r, a)
      /\ Seated(w, K)
  <2>1. /\ InOrder(c, a) /\ RowIsBehind(c, r, a) /\ Covered(c, r, a) /\ Overtaken(c, r, a)
        /\ \A L : Seated(co, L) => Seated(w, L)
    BY LastWrite
  <2> QED  BY <1>3, <2>1
<1>6. OneHistory(J) /\ Seated(r, J) /\ Seated(w, J) /\ \A i \in Mine(c, b) : Seated(b[i], J)
  <2>1. OneHistory(J)
    BY <1>3, <1>4 DEF OneHistory
  <2>2. Seated(r, J)
    BY <1>3, <1>4, SeatedFewer
  <2>3. Seated(w, J)
    BY <1>4, <1>5, SeatedFewer
  <2>4. \A i \in Mine(c, b) : Seated(b[i], J)
    BY <1>3, <1>4, SeatedFewer
  <2> QED  BY <2>1, <2>2, <2>3, <2>4
<1>7. \A i \in Mine(c, a) : Seated(a[i], J)
  BY <1>6
<1>8. ASSUME co.status = "open" PROVE MemoryOK(c, r, a, d) /\ Seated(d, J)
  <2>1. Seated(d, J)
    BY <1>2, <1>3, <1>4, <1>8, SeatedFewer
  <2>2. Members(d) = Members(co) /\ LiveMembers(d) = LiveMembers(co)
    BY <1>2, <1>8 DEF Members, LiveMembers
  <2>3. \A v : Later(v, co) => Later(v, d)
    BY <1>2, <1>8 DEF Later
  <2>4. \A v : Newer(v, d.news, d.folded)
    BY <1>2 DEF Newer
  <2>5. Within(d, d.news, d.folded)
    BY <1>2, <1>8, Numbers DEF Within
  <2>6. Later(w, d)
    <3>1. \A s \in Members(w) : d.holder[s] = w.holder[s]
      BY <1>2, <1>8
    <3>2. w.seq <= d.seq
      BY <1>2, <1>8, Numbers
    <3> QED  BY <1>2, <1>8, <3>1, <3>2 DEF Later
  <2>7. \A i \in Mine(c, a) : Later(a[i], d)
    BY <1>3, <2>3, <2>6 DEF MemoryOK
  <2>8. \A x \in (r.seq + 1)..d.seq : \E i \in Mine(c, a) : \E e \in a[i].news : e.seq = x
    <3> SUFFICES ASSUME NEW x \in (r.seq + 1)..d.seq
                 PROVE  \E i \in Mine(c, a) : \E e \in a[i].news : e.seq = x
      OBVIOUS
    <3>1. \/ \E e \in co.news : e.seq = x
          \/ \E i \in Mine(c, b) : \E e \in b[i].news : e.seq = x
      BY <1>2, <1>3, <1>8 DEF MemoryOK
    <3> QED  BY <3>1
  <2>9. \A e \in J : e.seq = d.seq => e.seats = d.seats
    BY <1>2, <1>3, <1>4, <1>8 DEF MemoryOK
  <2>10. d.seats \subseteq LiveMembers(d)
    BY <1>2, <1>3, <1>8, <2>2 DEF MemoryOK
  <2>11. Later(r, d)
    BY <1>3, <2>3 DEF MemoryOK
  <2> QED  BY <2>1, <2>4, <2>5, <2>7, <2>8, <2>9, <2>10, <2>11 DEF MemoryOK
<1>9. d.status # "undrawn" /\ (InMemory(d) => co.status = "open")
      /\ (d.status = "gone" => d = [Undrawn EXCEPT !.status = "gone"])
  BY <1>1, <1>2 DEF InMemory
<1> HIDE DEF J
<1>10. CompanyOK(c, r, a, d)
  BY <1>3, <1>5, <1>6, <1>7, <1>8, <1>9 DEF CompanyOK, J
<1> QED  BY <1>10 DEF d

LEMMA FlushOK ==
  ASSUME TablesInv, Flush
  PROVE  TablesInv'
<1> DEFINE b == unsaved
           a == unsaved \o Drained
<1>1. StoreTypeOK /\ \A c \in Companies : CompanyOK(c, row[c], b, live[c])
  BY DEF TablesInv
<1>2. /\ unsaved' = a /\ row' = row /\ sending' = TRUE
      /\ live' = [c \in Companies |-> Drawn(live[c])]
  BY DEF Flush, Drawn
<1>3. /\ Drained \in Seq(Write) /\ Len(Drained) \in Nat
      /\ \A i \in 1..Len(Drained) :
           \E c \in Companies : IsDirty(live[c]) /\ Drained[i] = WriteOf(c)
      /\ \A c \in Companies : IsDirty(live[c]) =>
           \E i \in 1..Len(Drained) :
             /\ Drained[i] = WriteOf(c)
             /\ \A j \in 1..Len(Drained) : Drained[j].id = c => j = i
  BY <1>1, Drains
<1>4. b \in Seq(Write) /\ Len(b) \in Nat
  BY <1>1, LenProperties DEF StoreTypeOK
<1>5. /\ a \in Seq(Write) /\ Len(a) = Len(b) + Len(Drained)
      /\ \A i \in 1..Len(b) : a[i] = b[i]
      /\ \A i \in 1..Len(Drained) : a[Len(b) + i] = Drained[i]
  BY <1>3, <1>4
<1>6. \A i \in 1..Len(a) : i \in 1..Len(b) \/ \E k \in 1..Len(Drained) : i = Len(b) + k
  <2> SUFFICES ASSUME NEW i \in 1..Len(a), i \notin 1..Len(b)
               PROVE  \E k \in 1..Len(Drained) : i = Len(b) + k
    OBVIOUS
  <2>1. i - Len(b) \in 1..Len(Drained) /\ i = Len(b) + (i - Len(b))
    BY <1>3, <1>4, <1>5
  <2> QED  BY <2>1
<1> HIDE DEF a, b
<1>7. ASSUME NEW c \in Companies
      PROVE  Drawn(live[c]) \in Live /\ CompanyOK(c, row[c], a, Drawn(live[c]))
  <2> DEFINE co == live[c]
             r == row[c]
  <2>1. CompanyTypes(c, r, b, co) /\ CompanyOK(c, r, b, co)
    BY <1>1, TypesOf DEF b
  <2>2. co \in Live
    BY <2>1 DEF CompanyTypes
  <2>3. \A i \in Mine(c, b) : i \in 1..Len(b) /\ i \in Nat /\ i <= Len(b) /\ i \in Mine(c, a) /\ a[i] = b[i]
    <3>1. \A i \in 1..Len(b) : i \in Nat /\ i <= Len(b) /\ i \in 1..Len(a)
      BY <1>3, <1>4, <1>5
    <3> QED  BY <1>5, <3>1 DEF Mine
  <2>4. \A i \in Mine(c, a) :
          i \in Mine(c, b) \/ \E k \in 1..Len(Drained) : i = Len(b) + k /\ Drained[k].id = c
    BY <1>5, <1>6 DEF Mine
  <2>5. CASE ~IsDirty(co)
    <3>1. \A k \in 1..Len(Drained) : Drained[k].id # c
      <4>1. \A d \in Companies : WriteOf(d).id = d
        BY DEF WriteOf
      <4> QED  BY <1>3, <2>5, <4>1
    <3>2. Mine(c, a) = Mine(c, b)
      BY <2>3, <2>4, <3>1
    <3>3. CompanyOK(c, r, a, co)
      BY <2>1, <2>3, <3>2, SaysNothing
    <3> QED  BY <2>2, <2>5, <3>3, Untouched
  <2>6. CASE IsDirty(co)
    <3>1. PICK k \in 1..Len(Drained) :
            /\ Drained[k] = WriteOf(c)
            /\ \A j \in 1..Len(Drained) : Drained[j].id = c => j = k
      BY <1>3, <2>6
    <3> DEFINE z == Len(b) + k
               w == a[z]
    <3>2. z \in Nat /\ z \in 1..Len(a) /\ z > Len(b)
      BY <1>3, <1>4, <1>5
    <3>3. w = WriteOf(c)
      BY <1>5, <3>1
    <3> HIDE DEF w
    <3>4. /\ w.id = c /\ w.seq = co.seq /\ w.status = co.status /\ w.holder = co.holder
          /\ w.left = co.left /\ w.news = co.news /\ w.folded = co.folded
      BY <3>3 DEF WriteOf
    <3>5. Mine(c, a) = Mine(c, b) \cup {z}
      <4>1. z \in Mine(c, a)
        BY <3>2, <3>4 DEF Mine, w
      <4> QED  BY <2>3, <2>4, <3>1, <4>1
    <3>6. InMemory(co)
      BY <2>6 DEF IsDirty, InMemory
    <3>7. \A i \in Mine(c, b) : i < z /\ a[i] = b[i]
      <4>1. \A i \in Mine(c, b) : i \in Nat /\ i <= Len(b)
        BY <2>3
      <4> HIDE DEF z
      <4>2. \A i \in Mine(c, b) : i < z
        BY <1>4, <3>2, <4>1
      <4> QED  BY <2>3, <4>2
    <3>8. w = a[z]
      BY DEF w
    <3> HIDE DEF z, co, r
    <3>9. CompanyOK(c, r, a, Drawn(co))
      BY <2>1, <3>2, <3>4, <3>5, <3>6, <3>7, <3>8, Drain
    <3>10. Drawn(co) \in Live
      BY <2>2, DrawnIsLive
    <3> QED  BY <3>9, <3>10 DEF co, r
  <2> QED  BY <2>5, <2>6
<1>8. StoreTypeOK'
  <2>1. live' \in [Companies -> Live]
    BY <1>2, <1>7
  <2> QED  BY <1>1, <1>2, <1>5, <2>1 DEF StoreTypeOK
<1>9. ASSUME NEW c \in Companies PROVE CompanyOK(c, row[c], unsaved, live[c])'
  <2>1. live'[c] = Drawn(live[c])
    BY <1>2
  <2>2. CompanyOK(c, row'[c], unsaved', live'[c])
    BY <1>2, <1>7, <2>1
  <2> QED  BY <2>2
<1> QED  BY <1>8, <1>9 DEF TablesInv

LEMMA InitOK ==
  ASSUME StoreInit
  PROVE  TablesInv
<1>1. StoreTypeOK
  BY UndrawnIsLive, EmptySeq DEF StoreInit, StoreTypeOK
<1>2. ASSUME NEW c \in Companies PROVE CompanyOK(c, row[c], unsaved, live[c])
  <2>1. live[c] = Undrawn /\ row[c] = NoRow /\ unsaved = <<>>
    BY DEF StoreInit
  <2>2. /\ NoRow.seq = 0 /\ NoRow.snapshot = NoSnapshot /\ NoRow.entries = {} /\ NoRow.left = {}
        /\ NoRow.status = "none" /\ \A s \in Seats : NoRow.holder[s] = NoOne
    BY DEF NoRow
  <2>3. Undrawn.status = "undrawn" /\ Undrawn.news = {} /\ Undrawn.folded = NoSnapshot
    BY DEF Undrawn
  <2>4. NoSnapshot.seq = 0
    BY DEF NoSnapshot
  <2>5. Mine(c, <<>>) = {}
    BY NothingSent
  <2>6. Known(c, NoRow, <<>>, Undrawn) = {NoSnapshot}
    BY <2>2, <2>3, <2>5 DEF Known
  <2>7. RowOK(NoRow)
    <3>1. {e.seq : e \in NoRow.entries} = {} /\ (NoRow.snapshot.seq + 1)..NoRow.seq = {}
      BY <2>2, <2>4
    <3> QED  BY <2>2, <2>4, <3>1 DEF RowOK
  <2>8. Members(NoRow) = {}
    BY <2>2 DEF Members
  <2>9. Seated(NoRow, {NoSnapshot}) /\ OneHistory({NoSnapshot})
    BY <2>2, <2>8 DEF Seated, OneHistory
  <2>10. ~InMemory(Undrawn) /\ Undrawn.status # "gone"
    BY <2>3 DEF InMemory
  <2>11. CompanyOK(c, NoRow, <<>>, Undrawn)
    BY <2>5, <2>6, <2>7, <2>9, <2>10
       DEF CompanyOK, InOrder, RowIsBehind, Covered, Overtaken
  <2> QED  BY <2>1, <2>11
<1> QED  BY <1>1, <1>2 DEF TablesInv

LEMMA PlayOK ==
  ASSUME TablesInv, Play
  PROVE  TablesInv'
<1>1. StoreTypeOK /\ \A c \in Companies : CompanyOK(c, row[c], unsaved, live[c])
  BY DEF TablesInv
<1>2. ASSUME NEW c \in Companies, NEW d, d \in Live, CompanyOK(c, row[c], unsaved, d),
             live' = [live EXCEPT ![c] = d], UNCHANGED <<row, unsaved, sending>>
      PROVE  TablesInv'
  <2>1. live \in [Companies -> Live]
    BY <1>1 DEF StoreTypeOK
  <2>2. live' \in [Companies -> Live] /\ \A e \in Companies : live'[e] = IF e = c THEN d ELSE live[e]
    BY <1>2, <2>1
  <2>3. StoreTypeOK'
    BY <1>1, <1>2, <2>2 DEF StoreTypeOK
  <2>4. \A e \in Companies : CompanyOK(e, row[e], unsaved, live'[e])
    BY <1>1, <1>2, <2>2
  <2>5. \A e \in Companies : CompanyOK(e, row'[e], unsaved', live'[e])
    BY <1>2, <2>4
  <2> QED  BY <2>3, <2>5 DEF TablesInv
<1>3. PICK c \in Companies :
        \/ \E p \in Profiles : CreateCompany(p, c) \/ JoinCompany(p, c) \/ Leave(p, c)
        \/ \E folds, last \in BOOLEAN, idle \in SUBSET Seats : PlayRound(c, folds, idle, last)
  BY DEF Play
<1> DEFINE r == row[c]
           b == unsaved
           co == live[c]
<1>4. CompanyTypes(c, r, b, co) /\ CompanyOK(c, r, b, co) /\ co.seq \in Nat
  BY <1>1, TypesOf, Numbers
<1>5. ASSUME NEW p \in Profiles, CreateCompany(p, c) PROVE TablesInv'
  <2> DEFINE d == [Undrawn EXCEPT !.status = "open", !.seats = {0}, !.holder[0] = p, !.made = TRUE]
  <2>1. co = Undrawn
    BY <1>4, <1>5 DEF CompanyOK, CreateCompany
  <2>2. CompanyTypes(c, r, b, Undrawn) /\ CompanyOK(c, r, b, Undrawn)
    BY <1>4, <2>1
  <2>3. d \in Live /\ CompanyOK(c, r, b, d)
    <3> HIDE DEF r, b, co
    <3> QED  BY <2>2, Creates
  <2>4. live' = [live EXCEPT ![c] = d] /\ UNCHANGED <<row, unsaved, sending>>
    BY <1>5 DEF CreateCompany
  <2> HIDE DEF d
  <2> QED  BY <1>2, <2>3, <2>4
<1>6. ASSUME NEW p \in Profiles, JoinCompany(p, c) PROVE TablesInv'
  <2> DEFINE s == Cardinality(Members(co))
             d == Reconciled([Logged(co, co.seats \cup {s}) EXCEPT !.holder[s] = p])
  <2>1. co.status = "open" /\ s \in Seats /\ co.seq < MaxSeq
    BY <1>6 DEF JoinCompany
  <2>2. d \in Live /\ CompanyOK(c, r, b, d)
    <3>1. s = Cardinality(Members(co))
      OBVIOUS
    <3> HIDE DEF r, b, co, s
    <3> QED  BY <1>4, <2>1, <3>1, Joins
  <2>3. live' = [live EXCEPT ![c] = d] /\ UNCHANGED <<row, unsaved, sending>>
    BY <1>6 DEF JoinCompany
  <2> HIDE DEF d
  <2> QED  BY <1>2, <2>2, <2>3
<1>7. ASSUME NEW p \in Profiles, Leave(p, c) PROVE TablesInv'
  <2>1. PICK s \in LiveMembers(co) \cap co.seats :
          live' = [live EXCEPT ![c] = Reconciled(Logged(co, co.seats \ {s}))]
    BY <1>7 DEF Leave
  <2> DEFINE d == Reconciled(Logged(co, co.seats \ {s}))
  <2>2. co.status = "open" /\ co.seq < MaxSeq /\ UNCHANGED <<row, unsaved, sending>>
    BY <1>7 DEF Leave
  <2>3. d \in Live /\ CompanyOK(c, r, b, d)
    <3> HIDE DEF r, b, co
    <3> QED  BY <1>4, <2>2, Leaves
  <2>4. live' = [live EXCEPT ![c] = d]
    BY <2>1
  <2> HIDE DEF d
  <2> QED  BY <1>2, <2>2, <2>3, <2>4
<1>8. ASSUME NEW folds \in BOOLEAN, NEW last \in BOOLEAN, NEW idle \in SUBSET Seats,
             PlayRound(c, folds, idle, last)
      PROVE  TablesInv'
  <2> DEFINE played == Logged(co, co.seats)
             kept == Reconciled(IF folds THEN Compacted(played) ELSE played)
             released == IF idle = {} THEN kept ELSE Logged(kept, kept.seats \ idle)
             d == IF last THEN Closed(released) ELSE released
  <2>1. /\ co.status = "open" /\ co.seats # {} /\ Cardinality(idle) <= 1
        /\ co.seq + 1 + Cardinality(idle) <= MaxSeq
    BY <1>8 DEF PlayRound
  <2>2. live' = [live EXCEPT ![c] = d] /\ UNCHANGED <<row, unsaved, sending>>
    BY <1>8 DEF PlayRound
  <2>3. d \in Live /\ CompanyOK(c, r, b, d)
    <3> HIDE DEF r, b, co
    <3> QED  BY <1>4, <2>1, Plays
  <2> HIDE DEF d
  <2> QED  BY <1>2, <2>2, <2>3
<1> QED  BY <1>3, <1>5, <1>6, <1>7, <1>8

LEMMA CommitOK ==
  ASSUME TablesInv, NEW answered \in BOOLEAN, Commit(answered)
  PROVE  TablesInv'
<1> DEFINE rows == Transaction(unsaved).rows
<1>1. StoreTypeOK /\ \A c \in Companies : CompanyOK(c, row[c], unsaved, live[c])
  BY DEF TablesInv
<1>2. /\ Transaction(unsaved).ok /\ row' = rows /\ live' = live /\ sending' = FALSE
      /\ unsaved' = IF answered THEN <<>> ELSE unsaved
  BY DEF Commit
<1>3. \A c \in Companies :
        rows \in [Companies -> Row] /\ Through(c, row[c], unsaved, Len(unsaved), rows[c])
  BY <1>1, <1>2, CommittedRow
<1> HIDE DEF rows
<1>4. rows \in [Companies -> Row]
  <2>1. 1 \in Companies
    BY StoreBounds DEF Companies
  <2> QED  BY <1>3, <2>1
<1>5. ASSUME NEW c \in Companies
      PROVE  CompanyOK(c, rows[c], unsaved, live[c]) /\ CompanyOK(c, rows[c], <<>>, live[c])
  <2>1. CompanyTypes(c, row[c], unsaved, live[c])
    BY <1>1, TypesOf
  <2> QED  BY <1>1, <1>3, <1>4, <2>1, RowMoves
<1>6. StoreTypeOK'
  <2>1. unsaved' \in Seq(Write)
    BY <1>1, <1>2, EmptySeq DEF StoreTypeOK
  <2> QED  BY <1>1, <1>2, <1>4, <2>1 DEF StoreTypeOK
<1>7. \A c \in Companies : CompanyOK(c, row'[c], unsaved', live'[c])
  <2>1. CASE answered
    BY <1>2, <1>5, <2>1
  <2>2. CASE ~answered
    BY <1>2, <1>5, <2>2
  <2> QED  BY <2>1, <2>2
<1> QED  BY <1>6, <1>7 DEF TablesInv

LEMMA BootOK ==
  ASSUME TablesInv, NEW refused, Boot(refused)
  PROVE  TablesInv'
<1>1. StoreTypeOK /\ \A c \in Companies : CompanyOK(c, row[c], unsaved, live[c])
  BY DEF TablesInv
<1>2. /\ unsaved' = <<>> /\ row' = row /\ sending' = FALSE
      /\ live' = [c \in Companies |->
           IF row[c].status = "open" /\ c \notin refused THEN Recovered(row[c])
           ELSE IF live[c].status = "undrawn" THEN Undrawn
           ELSE [Undrawn EXCEPT !.status = "gone"]]
  BY DEF Boot
<1>3. ASSUME NEW c \in Companies PROVE live'[c] \in Live /\ CompanyOK(c, row[c], <<>>, live'[c])
  <2>1. CompanyTypes(c, row[c], unsaved, live[c]) /\ CompanyOK(c, row[c], unsaved, live[c])
    BY <1>1, TypesOf
  <2>2. CASE row[c].status = "open" /\ c \notin refused
    <3>1. live'[c] = Recovered(row[c])
      BY <1>2, <2>2
    <3>2. Recovered(row[c]) \in Live /\ CompanyOK(c, row[c], <<>>, Recovered(row[c]))
      BY <2>1, <2>2, RowBoots
    <3> QED  BY <3>1, <3>2
  <2>3. CASE ~(row[c].status = "open" /\ c \notin refused)
    <3> DEFINE d == IF live[c].status = "undrawn" THEN Undrawn
                    ELSE [Undrawn EXCEPT !.status = "gone"]
    <3>1. live'[c] = d
      BY <1>2, <2>3
    <3>2. d \in Live /\ d \in {Undrawn, [Undrawn EXCEPT !.status = "gone"]}
      BY UndrawnIsLive
    <3>3. d = Undrawn => live[c] = Undrawn
      <4>1. Undrawn.status = "undrawn" /\ [Undrawn EXCEPT !.status = "gone"].status = "gone"
        BY DEF Undrawn
      <4>2. d = Undrawn => live[c].status = "undrawn"
        BY <4>1
      <4> QED  BY <2>1, <4>2 DEF CompanyOK
    <3> HIDE DEF d
    <3>4. CompanyOK(c, row[c], <<>>, d)
      BY <2>1, <3>2, <3>3, RowAlone
    <3> QED  BY <3>1, <3>2, <3>4
  <2> QED  BY <2>2, <2>3
<1>4. StoreTypeOK'
  <2>1. live' \in [Companies -> Live]
    BY <1>2, <1>3
  <2> QED  BY <1>1, <1>2, <2>1, EmptySeq DEF StoreTypeOK
<1>5. \A c \in Companies : CompanyOK(c, row'[c], unsaved', live'[c])
  BY <1>2, <1>3
<1> QED  BY <1>4, <1>5 DEF TablesInv

LEMMA StepsKeep ==
  ASSUME TablesInv, [StoreNext]_storeVars
  PROVE  TablesInv'
<1>1. CASE Play
  BY <1>1, PlayOK
<1>2. CASE Flush
  BY <1>2, FlushOK
<1>3. CASE \E answered \in BOOLEAN : Commit(answered)
  BY <1>3, CommitOK
<1>4. CASE CommitFails
  <2>1. live' = live /\ row' = row /\ unsaved' = unsaved /\ sending' = FALSE
    BY <1>4 DEF CommitFails
  <2> QED  BY <2>1 DEF TablesInv, StoreTypeOK
<1>5. CASE \E refused \in SUBSET Companies : (Diverges \/ refused = {}) /\ Boot(refused)
  BY <1>5, BootOK
<1>6. CASE UNCHANGED storeVars
  <2>1. live' = live /\ row' = row /\ unsaved' = unsaved /\ sending' = sending
    BY <1>6 DEF storeVars
  <2> QED  BY <2>1 DEF TablesInv, StoreTypeOK
<1> QED  BY <1>1, <1>2, <1>3, <1>4, <1>5, <1>6 DEF StoreNext

LEMMA InvBoots ==
  ASSUME TablesInv
  PROVE  BootsWhole
<1>1. StoreTypeOK /\ \A c \in Companies : CompanyOK(c, row[c], unsaved, live[c])
  BY DEF TablesInv
<1>2. RowsReplay
  BY <1>1 DEF RowsReplay, CompanyOK, RowOK
<1>3. ASSUME NEW c \in Companies, row[c].status = "open"
      PROVE  Replayed(row[c]) \subseteq LiveMembers(row[c])
  <2>1. CompanyTypes(c, row[c], unsaved, live[c]) /\ CompanyOK(c, row[c], unsaved, live[c])
    BY <1>1, TypesOf
  <2>2. PICK e \in row[c].entries \cup {row[c].snapshot} :
          e.seq = row[c].seq /\ Replayed(row[c]) = e.seats
    BY <2>1, ReplayEnds
  <2>3. e \in Known(c, row[c], unsaved, live[c])
    BY DEF Known
  <2>4. Seated(row[c], Known(c, row[c], unsaved, live[c]))
    BY <2>1 DEF CompanyOK
  <2> QED  BY <1>3, <2>2, <2>3, <2>4 DEF Seated
<1>4. \A c \in Companies : row[c].status = "closed" => LiveMembers(row[c]) = {}
  BY <1>1 DEF CompanyOK, Seated
<1> QED  BY <1>2, <1>3, <1>4 DEF BootsWhole, SeatsHaveRows

\* Every company the tables hold open replays from its snapshot and its entries
\* to seats that live members hold, and none is held in a closed one
\* (prismaStore.ts, save; recover.ts): after any commit, applied once or twice,
\* refused or without an answer, and after any boot.
THEOREM StoreBootsWhole == StoreSpec => []BootsWhole
<1>1. StoreInit => TablesInv
  BY InitOK
<1>2. TablesInv /\ [StoreNext]_storeVars => TablesInv'
  BY StepsKeep
<1>3. TablesInv => BootsWhole
  BY InvBoots
<1> QED  BY <1>1, <1>2, <1>3, PTL DEF StoreSpec

\* Whatever is drained, sent, stored or booted is a company, a write and a row.
THEOREM StoreTypes == StoreSpec => []StoreTypeOK
<1>1. StoreInit => TablesInv
  BY InitOK
<1>2. TablesInv /\ [StoreNext]_storeVars => TablesInv'
  BY StepsKeep
<1>3. TablesInv => StoreTypeOK
  BY DEF TablesInv
<1> QED  BY <1>1, <1>2, <1>3, PTL DEF StoreSpec

=============================================================================
