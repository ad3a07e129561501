----------------------------- MODULE Persister -----------------------------
(***************************************************************************)
(* The write path of the realtime server (persister.ts): what the world    *)
(* changed is drained into a backlog and committed, one flush at a time.   *)
(* Writes are numbered in the order the world makes them: a set of numbers *)
(* is both a batch and the content of the store, and a store that holds a  *)
(* write without the ones before it has a hole.                            *)
(*                                                                         *)
(* A flush is two steps: Begin runs up to `await store.commit(batch)`, and *)
(* CommitOk or CommitFail is the answer.  Messages keep arriving between   *)
(* the two.  A failed commit may have been applied all the same, when only *)
(* its acknowledgement was lost.  Entries are stored with skipDuplicates   *)
(* and can be committed again; the row of a new company cannot, nor can a  *)
(* member be seated in one company before the other let them go: such a    *)
(* batch is Refused, and as it is retried whole it is refused for ever.    *)
(***************************************************************************)
EXTENDS Naturals, Sequences

CONSTANTS
  PauseAfter,   \* failedWritesBeforePause
  MaxWrites,    \* writes the world makes (a bound)
  MaxQueue,     \* flushes waiting at once (a bound)
  Callers,      \* who calls flush: the tick, a message
  Creations,    \* the writes that create a company
  Seatings      \* the writes that seat, in an older company, the player whom
                \* the write before took from a younger one

ASSUME PauseAfterAssumption == PauseAfter \in Nat \ {0}
ASSUME PersisterBounds == MaxWrites \in Nat /\ MaxQueue \in Nat
ASSUME WritesAssumption == Creations \subseteq Nat /\ Seatings \subseteq Nat

VARIABLES
  issued,       \* writes made by the world since the company began
  drained,      \* the writes up to this one have left the world
  backlog,      \* drained writes no commit has confirmed
  queue,        \* callers of the flushes chained on `flushing`, oldest first
  batch,        \* what the running flush asked the store to commit
  committing,   \* is a commit awaited?
  failures,     \* failed commits in a row
  paused,       \* last callback: onPause (TRUE) or onResume (FALSE)
  stored,       \* what the store holds
  misordered    \* does a drain of the backlog take a seat before it is left?

persisterVars == <<issued, drained, backlog, queue, batch, committing,
                   failures, paused, stored, misordered>>

\* Only "the limit-th failure" and "at least the limit" are told apart.
FailureCap == PauseAfter + 1

PersisterTypeOK ==
  /\ issued \in Nat
  /\ drained \in Nat
  /\ backlog \in SUBSET Nat
  /\ queue \in Seq(Callers)
  /\ batch \in SUBSET Nat
  /\ committing \in BOOLEAN
  /\ failures \in 0..FailureCap
  /\ paused \in BOOLEAN
  /\ stored \in SUBSET Nat
  /\ misordered \in BOOLEAN

-----------------------------------------------------------------------------
\* What the world has changed since the last drain.
Dirty == (drained + 1)..issued

\* What the next commit would carry: the batches that wait and the drain.
Merged == backlog \cup Dirty

\* One drain lists its companies by age, whatever the order of the changes: the
\* older one, which takes the member, before the younger one, which let them go.
DrainMisorders == \E w \in Seatings : {w - 1, w} \subseteq Dirty

\* The batch the store refuses, now and whenever it is tried again: the company
\* it creates is there already (the primary key), or a member would hold two
\* live seats while it is written (the unique index).
Refused == misordered \/ backlog \cap stored \cap Creations # {}

\* The last write of a store, 0 when it has none.
LastOf(store) == CHOOSE w \in store \cup {0} : \A v \in store : v <= w

PersisterInit ==
  /\ issued = 0
  /\ drained = 0
  /\ backlog = {}
  /\ queue = <<>>
  /\ batch = {}
  /\ committing = FALSE
  /\ failures = 0
  /\ paused = FALSE
  /\ stored = {}
  /\ misordered = FALSE

-----------------------------------------------------------------------------
\* A handler of the server: it may change the world, then it calls flush(),
\* which chains one more run behind those already asked for.
Call(caller, changes) ==
  /\ Len(queue) < MaxQueue
  /\ issued + changes <= MaxWrites
  /\ issued' = issued + changes
  /\ queue' = Append(queue, caller)
  /\ UNCHANGED <<drained, backlog, batch, committing, failures, paused, stored,
                 misordered>>

Begin_NewOnly ==  \* mutant: only the new batch is committed
  /\ queue # <<>>
  /\ ~committing
  /\ Merged # {}
  /\ backlog' = Merged
  /\ drained' = issued
  /\ batch' = Dirty
  /\ committing' = TRUE
  /\ misordered' = (misordered \/ DrainMisorders)
  /\ UNCHANGED <<issued, queue, failures, paused, stored>>

\* run() with something to commit: the world is drained into the backlog and
\* the whole backlog becomes the batch.
Begin ==
  /\ queue # <<>>
  /\ ~committing
  /\ Merged # {}
  /\ backlog' = Merged
  /\ drained' = issued
  /\ batch' = Merged
  /\ committing' = TRUE
  /\ misordered' = (misordered \/ DrainMisorders)
  /\ UNCHANGED <<issued, queue, failures, paused, stored>>

\* run() that drains nothing and finds no backlog returns at once.
NothingToDo ==
  /\ queue # <<>>
  /\ ~committing
  /\ Merged = {}
  /\ queue' = Tail(queue)
  /\ UNCHANGED <<issued, drained, backlog, batch, committing, failures,
                 paused, stored, misordered>>

\* After a commit the server resumes if it was paused; failures start over.
StillPaused == IF failures >= PauseAfter THEN FALSE ELSE paused

FailuresAfterCommit == 0

\* What a commit leaves in the store: it adds, and never rewrites.
AfterCommit == stored \cup batch

\* The store committed: the backlog is forgotten, a paused server resumes.
CommitOk ==
  /\ committing
  /\ ~Refused
  /\ stored' = AfterCommit
  /\ backlog' = {}
  /\ paused' = StillPaused
  /\ failures' = FailuresAfterCommit
  /\ committing' = FALSE
  /\ batch' = {}
  /\ queue' = Tail(queue)
  /\ UNCHANGED <<issued, drained, misordered>>

\* One more failure in a row.
OneMoreFailure == IF failures < FailureCap THEN failures + 1 ELSE failures

\* What a failed commit leaves to be tried again: all of it.
BacklogAfterFailure_Dropped == {}  \* mutant: the batch is given up
BacklogAfterFailure == backlog

\* The store refused, or its answer was lost after it had committed
\* (applied): the backlog stays, and the PauseAfter-th failure pauses.  A
\* batch is one transaction: a refused one leaves nothing.
CommitFail(applied) ==
  /\ committing
  /\ applied => ~Refused
  /\ stored' = IF applied THEN AfterCommit ELSE stored
  /\ failures' = OneMoreFailure
  /\ paused' = IF failures + 1 = PauseAfter THEN TRUE ELSE paused
  /\ committing' = FALSE
  /\ batch' = {}
  /\ queue' = Tail(queue)
  /\ backlog' = BacklogAfterFailure
  /\ UNCHANGED <<issued, drained, misordered>>

\* The process dies, between two flushes or during one, and the next one
\* starts from the store: what was not committed is gone.
Crash ==
  /\ issued' = LastOf(stored)
  /\ drained' = LastOf(stored)
  /\ backlog' = {}
  /\ queue' = <<>>
  /\ batch' = {}
  /\ committing' = FALSE
  /\ failures' = 0
  /\ paused' = FALSE
  /\ misordered' = FALSE
  /\ UNCHANGED stored

PersisterNext ==
  \/ \E caller \in Callers, changes \in 0..1 : Call(caller, changes)
  \/ Begin
  \/ NothingToDo
  \/ CommitOk
  \/ \E applied \in BOOLEAN : CommitFail(applied)
  \/ Crash

PersisterSpec == PersisterInit /\ [][PersisterNext]_persisterVars

-----------------------------------------------------------------------------
(* What the write path promises *)

\* "In order, without ever losing a write": the store holds the first writes
\* of the world, all of them up to some point, so that replaying it after a
\* crash at any moment meets no hole.
StoredIsPrefix == \A w \in stored : 1..w \subseteq stored

\* Every write the world made is in the store, in the backlog, or still in
\* the world: a commit that fails, even after it was applied, and flushes
\* that arrive while it runs, drop nothing.
NothingLost == 1..issued \subseteq stored \cup backlog \cup Dirty

\* The clock is told to pause and to resume exactly as the run of failures
\* crosses the limit: it is paused when, and only when, the last PauseAfter
\* commits or more all failed.
PausedIffFailing == paused <=> failures >= PauseAfter

\* A server whose commits fail still holds what it could not write, so the
\* next flush tries again: it never waits for a new change to do so.
FailingHoldsBacklog == failures > 0 => backlog # {}

\* What the store has it keeps, whatever a retried batch carries again.
StoredGrows == [][stored \subseteq stored']_persisterVars

=============================================================================
