------------------------------ MODULE TickLoop ------------------------------
(***************************************************************************)
(* The server's loop (server.ts): the round clock and the persister, tied  *)
(* by two callbacks.  A tick moves the world and awaits its own flush; a   *)
(* message changes the world and flushes without waiting; the persister    *)
(* stops the clock after too many failures and resumes it on a commit.     *)
(*                                                                         *)
(* A promise that settles runs its continuation before any other timer,    *)
(* message or answer of the store is looked at: `settled` counts the ticks *)
(* whose flush is over and whose continuation is next.                     *)
(***************************************************************************)
EXTENDS Persister, RoundClock

CONSTANT
  Clients       \* is any client connected?

ASSUME ClientsAssumption == Clients \in BOOLEAN
ASSUME CallersAssumption == {"tick", "message"} \subseteq Callers

VARIABLE
  settled       \* ticks whose onTick has returned and whose fire has not

loopVars == <<now, startedAt, count, running, timers, handle, firing, deadline,
              tickedAt, crossed, issued, drained, backlog, queue, batch,
              committing, failures, paused, stored, misordered, settled>>

-----------------------------------------------------------------------------
Init ==
  /\ ClockInit
  /\ PersisterInit
  /\ settled = 0

\* onTick: the world ticks, which always changes its cursor, then flush() is
\* awaited.  A stopped clock's timer does nothing.
Tick(t) ==
  /\ settled = 0
  /\ Fire(t)
  /\ IF running THEN Call("tick", 1) ELSE UNCHANGED persisterVars
  /\ UNCHANGED settled

\* The continuation of the await in fire().
AfterTick ==
  /\ settled > 0
  /\ TickDone
  /\ settled' = settled - 1
  /\ UNCHANGED persisterVars

\* A client's message: it changes the world or not (a ping), and flushes.
Message(changes) ==
  /\ Clients
  /\ settled = 0
  /\ Call("message", changes)
  /\ UNCHANGED <<clockVars, settled>>

\* The flush at the head of the queue ends: a tick may have been waiting.
Settle == settled' = IF Head(queue) = "tick" THEN settled + 1 ELSE settled

BeginFlush ==
  /\ settled = 0
  /\ Begin
  /\ UNCHANGED <<clockVars, settled>>

EmptyFlush ==
  /\ settled = 0
  /\ NothingToDo
  /\ Settle
  /\ UNCHANGED clockVars

\* onResume is called after a run of failures of at least the limit.
MustResume_Exactly == failures = PauseAfter  \* mutant: only at the limit
MustResume == failures >= PauseAfter

\* The batch is committed; after a pause onResume() calls clock.resume(),
\* which does nothing on a running clock.
Committed ==
  /\ settled = 0
  /\ CommitOk
  /\ IF MustResume /\ ~running
     THEN ResumeClock
     ELSE UNCHANGED clockVars
  /\ Settle

\* The commit fails, applied or not; the PauseAfter-th in a row calls clock.stop().
NotCommitted(applied) ==
  /\ settled = 0
  /\ CommitFail(applied)
  /\ IF failures + 1 = PauseAfter
     THEN StopClock
     ELSE UNCHANGED clockVars
  /\ Settle

TimePasses ==
  /\ settled = 0
  /\ Advance
  /\ UNCHANGED <<persisterVars, settled>>

\* The clock of a process that starts, on a schedule of its own.
ClockRestarts ==
  /\ startedAt' = now
  /\ count' = 0
  /\ running' = TRUE
  /\ handle' = (CHOOSE id \in TimerIds : TRUE)
  /\ timers' = {[id |-> handle', at |-> now + RoundMs]}
  /\ firing' = 0
  /\ deadline' = now + RoundMs
  /\ tickedAt' = -1
  /\ crossed' = FALSE
  /\ UNCHANGED now

\* The process dies at any moment and another one starts from the store.
Restart ==
  /\ Crash
  /\ ClockRestarts
  /\ settled' = 0

Next ==
  \/ \E t \in timers : Tick(t)
  \/ AfterTick
  \/ \E changes \in 0..1 : Message(changes)
  \/ BeginFlush
  \/ EmptyFlush
  \/ Committed
  \/ \E applied \in BOOLEAN : NotCommitted(applied)
  \/ TimePasses
  \/ Restart

Spec == Init /\ [][Next]_loopVars

-----------------------------------------------------------------------------
TypeOK == ClockTypeOK /\ PersisterTypeOK /\ settled \in Nat

\* The clock runs exactly when the persister last told it to: the two
\* callbacks and the continuation of a tick never contradict each other.
RunsUnlessPaused == running <=> ~paused

\* "Tick n is due at startedAt + n * roundMs" (clock.ts:13): never two ticks in
\* one round.  It fails: a resume in the middle of a tick forks the chain.
NeverTwoInARound ==
  [][firing' > firing
       => tickedAt = -1 \/ Elapsed(tickedAt') > Elapsed(tickedAt)]_loopVars

-----------------------------------------------------------------------------
(* Liveness: promises and flushes run, and the store comes back for good:  *)
(* it answers, and a commit it would accept does not fail for ever.  A     *)
(* client pings.                                                           *)
Fairness ==
  /\ WF_loopVars(AfterTick)
  /\ WF_loopVars(BeginFlush)
  /\ WF_loopVars(EmptyFlush)
  /\ WF_loopVars(Committed \/ \E applied \in BOOLEAN : NotCommitted(applied))
  /\ SF_loopVars(Committed)
  /\ WF_loopVars(Message(0))

LiveSpec == Spec /\ Fairness

\* "Pauses the clock after ten failures in a row and resumes when the store
\* is back": a paused clock runs again, unless the store refuses the backlog.
PauseEnds == ~running ~> running \/ Refused

\* Whatever the world changed is eventually in the store, the writes of a last
\* tick before a pause included, unless the process dies with it or the store
\* refuses the backlog that holds it.
AllStored ==
  \A w \in 1..MaxWrites :
    w <= issued ~> w \in stored \/ issued < w \/ Refused

\* A store that is back is a server that is back, for any backlog the store
\* does not refuse: rounds run again and nothing that was changed meanwhile
\* stays in memory only.  A refused backlog is retried for ever, and blocks.
ServiceComesBack == PauseEnds /\ AllStored
=============================================================================
