------------------------------ MODULE Accounts ------------------------------
(***************************************************************************)
(* Progress and runs between a browser and its account: the page of the    *)
(* game (PlayClient.tsx) in one or more tabs, the storage the tabs share   *)
(* (lib/storage), and the server actions on the database (lib/profile,     *)
(* lib/run).  Next.js dispatches the server actions of a page one at a     *)
(* time; those of two tabs interleave between a query they await and the   *)
(* write that relies on it.                                                *)
(*                                                                         *)
(* A log is the run's number and its length, and whether the development   *)
(* panel wrote in it: that log does not replay on the server.  A run of    *)
(* EndsAt moves is over.  Experience, level, commits and tickets grow      *)
(* together: `xp` counts the moves a player was credited for.              *)
(***************************************************************************)
EXTENDS Integers, Sequences, FiniteSets, FiniteSetsExt

CONSTANTS
  Tabs,       \* the pages of the browser, and the ones whose last call is still out
  Panel,      \* the runs the development panel may be used on (none, in production)
  PanelAt,    \* bound: the moves of such a run that may be the panel's
  MaxRuns,    \* bound: runs started
  EndsAt,     \* moves after which a run is over
  MaxOpens,   \* bound: page loads, hence synchronisations
  MaxWaiting  \* bound: calls of a tab when it pushes or submits

ASSUME AccountBounds == MaxRuns \in Nat /\ EndsAt \in Nat \ {0} /\ MaxOpens \in Nat /\ MaxWaiting \in Nat

VARIABLES
  tab,      \* by tab: the page, its copy of the progress, its run
  disk,     \* localStorage: the progress and the run in progress
  sync,     \* by tab: what syncProgress() holds between its calls
  calls,    \* by tab: the server actions it dispatched; the first is under way
  step,     \* by tab: the query the first call has reached, and what it read
  profile,  \* the account's row, if there is one
  rows,     \* by run: its row
  played,   \* by run: the longest log it ever had
  opens

vars == <<tab, disk, sync, calls, step, profile, rows, played, opens>>

Runs == 1..MaxRuns
NoRun == [id |-> 0, len |-> 0, claim |-> 0, edited |-> FALSE]
NoRow == [status |-> "none", len |-> 0, claim |-> 0, edited |-> FALSE, awards |-> 0]
Fresh == [xp |-> 0, ver |-> 0]
NoProfile == [xp |-> 0, ver |-> -1]
NoSync == [local |-> Fresh, incoming |-> Fresh, first |-> FALSE, again |-> FALSE]
NoStep == [at |-> "start", stored |-> NoProfile]

NoPage == [stage |-> "closed", meta |-> Fresh, run |-> NoRun, resumable |-> NoRun,
           dirty |-> FALSE, submitted |-> FALSE, state |-> "offline"]

Init ==
  /\ tab = [t \in Tabs |-> NoPage]
  /\ disk = [meta |-> Fresh, run |-> NoRun]
  /\ sync = [t \in Tabs |-> NoSync]
  /\ calls = [t \in Tabs |-> <<>>]
  /\ step = [t \in Tabs |-> NoStep]
  /\ profile = NoProfile
  /\ rows = [r \in Runs |-> NoRow]
  /\ played = [r \in Runs |-> 0]
  /\ opens = 0

-----------------------------------------------------------------------------
(* The rules of progress, shared by the browser and the server *)

\* mergeMeta(): the better of the two copies; the lock is the higher version.
MergeMeta(a, b) == [xp |-> Max({a.xp, b.xp}), ver |-> Max({a.ver, b.ver})]

\* applyRunToMeta(): what a run leaves behind.
ApplyRunToMeta(meta, moves) == [meta EXCEPT !.xp = meta.xp + moves]

\* pickLongerRun()
PickLonger(a, b) ==
  IF a = NoRun THEN b ELSE IF b = NoRun THEN a ELSE IF a.len >= b.len THEN a ELSE b

\* overclaims(): the level a run says it started under, against the account's.
Overclaims(run, stored) == run.claim > stored.xp

\* replayRun(): what the log of a run comes to.
Finished(run) == run.len = EndsAt

-----------------------------------------------------------------------------
(* The page *)

Call(kind, run) == [kind |-> kind, run |-> run]
Queued(t, kind) == \E i \in DOMAIN calls[t] : calls[t][i].kind = kind

InProgress == {r \in Runs : rows[r].status = "in_progress"}

\* findOpenRun(): the bookmark the server hands the page.
FindOpenRun ==
  IF InProgress = {} THEN {NoRun}
  ELSE {[id |-> r, len |-> rows[r].len, claim |-> rows[r].claim, edited |-> rows[r].edited] :
          r \in InProgress}

Gone(t) == tab[t].stage = "closed"

\* A page load or a reload: the store is read from storage, the longer of the two
\* runs is offered, and the two copies of the progress are merged once.  The calls
\* of the page before it that the server has not begun are lost.
Open(t) ==
  /\ opens < MaxOpens
  /\ step[t].at = "start"
  /\ opens' = opens + 1
  /\ \E served \in FindOpenRun :
       tab' = [tab EXCEPT ![t] = [NoPage EXCEPT !.stage = "setup", !.meta = disk.meta,
                 !.resumable = PickLonger(disk.run, served), !.state = "syncing"]]
  /\ sync' = [sync EXCEPT ![t] = [NoSync EXCEPT !.local = disk.meta]]
  /\ calls' = [calls EXCEPT ![t] = <<Call("profile", NoRun)>>]
  /\ UNCHANGED <<disk, step, profile, rows, played>>

\* The page is left, to be loaded again as another of Tabs, with a call under way: it
\* goes on at the server and its answer is lost; those that were waiting are never sent.
Leave(t) ==
  /\ ~Gone(t)
  /\ calls[t] # <<>>
  /\ opens < MaxOpens
  /\ tab' = [tab EXCEPT ![t] = NoPage]
  /\ calls' = [calls EXCEPT ![t] = <<Head(@)>>]
  /\ UNCHANGED <<disk, sync, step, profile, rows, played, opens>>

Unused == {r \in Runs : played[r] = 0 /\ \A t \in Tabs : tab[t].run.id # r}

\* start(): the run left behind is credited, and a new one begins under the
\* level the page knows.
Start(t) ==
  /\ tab[t].stage = "setup"
  /\ Unused # {}
  /\ LET left == PickLonger(disk.run, tab[t].resumable)
         meta == IF left.len > 0 /\ ~Finished(left) THEN ApplyRunToMeta(tab[t].meta, left.len)
                 ELSE tab[t].meta
         run == [id |-> CHOOSE r \in Unused : TRUE, len |-> 0, claim |-> meta.xp,
                edited |-> FALSE]
     IN /\ tab' = [tab EXCEPT ![t] = [@ EXCEPT !.stage = "running", !.meta = meta,
                                               !.run = run, !.submitted = FALSE]]
        /\ disk' = [meta |-> IF meta = tab[t].meta THEN disk.meta ELSE meta, run |-> NoRun]
  /\ UNCHANGED <<sync, calls, step, profile, rows, played, opens>>

\* resume()
Resume(t) ==
  /\ tab[t].stage = "setup"
  /\ tab[t].resumable # NoRun
  /\ tab' = [tab EXCEPT ![t] = [@ EXCEPT !.stage = "running", !.run = tab[t].resumable,
                                         !.submitted = FALSE]]
  /\ UNCHANGED <<disk, sync, calls, step, profile, rows, played, opens>>

\* The log with one action more, the panel's or not.
Longer(run) ==
  {[run EXCEPT !.len = @ + 1, !.edited = by] :
     by \in {run.edited} \cup {panel \in {TRUE} : run.id \in Panel /\ run.len + 1 \in PanelAt}}

\* An action of the player.  The one that ends the run credits it, once, and
\* forgets where it was kept.
Move(t) ==
  /\ tab[t].stage = "running"
  /\ \E run \in Longer(tab[t].run) :
     LET meta == ApplyRunToMeta(tab[t].meta, run.len)
     IN /\ played' = [played EXCEPT ![run.id] = Max({@, run.len})]
        /\ \/ /\ ~Finished(run)
              /\ tab' = [tab EXCEPT ![t] = [@ EXCEPT !.run = run, !.dirty = TRUE]]
              /\ UNCHANGED <<disk, calls>>
           \/ /\ Finished(run)
              /\ tab' = [tab EXCEPT ![t] = [@ EXCEPT !.run = run, !.stage = "over",
                                                     !.meta = meta, !.dirty = FALSE]]
              /\ disk' = [meta |-> meta, run |-> NoRun]
              /\ calls' = [calls EXCEPT ![t] = Append(@, Call("drop", run))]
  /\ UNCHANGED <<sync, step, profile, rows, opens>>

\* writeLocalRun(): never a shorter log of the same run.
WriteLocalRun(held, run) == IF held.id = run.id /\ held.len > run.len THEN held ELSE run

\* The debounced save of the run on screen, and now and then a push of it; it does
\* nothing once the run is over.
Save(t) ==
  /\ tab[t].dirty
  /\ tab' = [tab EXCEPT ![t].dirty = FALSE]
  /\ disk' = [disk EXCEPT !.run = WriteLocalRun(disk.run, tab[t].run)]
  /\ \/ UNCHANGED calls
     \/ /\ ~Queued(t, "push")
        /\ Len(calls[t]) <= MaxWaiting
        /\ calls' = [calls EXCEPT ![t] = Append(@, Call("push", tab[t].run))]
  /\ UNCHANGED <<sync, step, profile, rows, played, opens>>

\* playAgain()
PlayAgain(t) ==
  /\ tab[t].stage = "over"
  /\ tab' = [tab EXCEPT ![t] = [@ EXCEPT !.stage = "setup", !.run = NoRun,
                                         !.resumable = NoRun]]
  /\ disk' = [disk EXCEPT !.run = NoRun]
  /\ calls' = IF Queued(t, "drop") THEN calls
              ELSE [calls EXCEPT ![t] = Append(@, Call("drop", tab[t].run))]
  /\ UNCHANGED <<sync, step, profile, rows, played, opens>>

\* The submit button.
Press(t) ==
  /\ tab[t].stage = "over"
  /\ ~tab[t].submitted
  /\ ~Queued(t, "submit")
  /\ Len(calls[t]) <= MaxWaiting
  /\ calls' = [calls EXCEPT ![t] = Append(@, Call("submit", tab[t].run))]
  /\ UNCHANGED <<tab, disk, sync, step, profile, rows, played, opens>>

-----------------------------------------------------------------------------
(* The server actions.  The first call of a tab is at a query. *)

At(t, kind, query) ==
  /\ calls[t] # <<>>
  /\ Head(calls[t]).kind = kind
  /\ step[t].at = query

Run(t) == Head(calls[t]).run

\* The call goes on to a query, or is answered.
GoesTo(t, query) == step' = [step EXCEPT ![t].at = query] /\ UNCHANGED calls
Reads(t, query) ==
  step' = [step EXCEPT ![t] = [at |-> query, stored |-> profile]] /\ UNCHANGED calls
Answered(t) ==
  /\ step' = [step EXCEPT ![t] = NoStep]
  /\ calls' = [calls EXCEPT ![t] = Tail(@)]
AnsweredThen(t, kind) ==
  /\ step' = [step EXCEPT ![t] = NoStep]
  /\ calls' = [calls EXCEPT ![t] = Append(Tail(@), Call(kind, NoRun))]

\* The page, if it is still there, takes the outcome of a synchronisation for its
\* progress.
Outcome(t, meta, state) ==
  /\ sync' = [sync EXCEPT ![t] = NoSync]
  /\ IF Gone(t) THEN UNCHANGED <<tab, disk>>
     ELSE /\ tab' = [tab EXCEPT ![t].meta = meta, ![t].state = state]
          /\ disk' = [disk EXCEPT !.meta = meta]

\* (Mutant) After a conflict the account's copy is sent back as it is.
Merged_FreshOnly(t) == IF sync[t].again THEN profile ELSE MergeMeta(profile, sync[t].local)

\* The copy the page sends: the account's merged with the page's, read at the start.
Merged(t) == MergeMeta(profile, sync[t].local)

\* getMyProfile(), and the merge of the page.
GetMyProfile(t) ==
  /\ At(t, "profile", "start")
  /\ \/ /\ ~Gone(t)
        /\ sync' = [sync EXCEPT ![t] = [@ EXCEPT !.first = profile = NoProfile,
                     !.incoming = IF profile = NoProfile THEN sync[t].local ELSE Merged(t)]]
        /\ AnsweredThen(t, "meta")
        /\ UNCHANGED <<tab, disk>>
     \/ /\ Outcome(t, IF sync[t].again THEN sync[t].incoming ELSE sync[t].local, "error")
        /\ Answered(t)
  /\ UNCHANGED <<profile, rows, played, opens>>

\* syncMeta() up to its write.
SyncMetaFinds(t) ==
  /\ At(t, "meta", "start")
  /\ Reads(t, "write")
  /\ UNCHANGED <<tab, disk, sync, profile, rows, played, opens>>

\* (Mutant) The write of progress does not look at the version.
Unchanged_Any(ver) == TRUE

\* The optimistic lock: nobody wrote since the version was read.
Unchanged(ver) == profile.ver = ver

\* A first profile is created, unless another tab just did; a merge is written
\* under the lock; a conflict is retried once.
SyncMetaWrites(t) ==
  /\ At(t, "meta", "write")
  /\ LET existing == step[t].stored
         incoming == sync[t].incoming
         creates == existing = NoProfile
         new == IF creates THEN [xp |-> incoming.xp, ver |-> 1]
                ELSE [MergeMeta(existing, incoming) EXCEPT !.ver = profile.ver + 1]
         free == IF creates THEN profile = NoProfile ELSE Unchanged(incoming.ver)
     IN \/ /\ free
           /\ profile' = new
           /\ Outcome(t, new, "synced")
           /\ Answered(t)
        \/ /\ ~free
           /\ UNCHANGED profile
           /\ IF Gone(t) \/ sync[t].first \/ sync[t].again
              THEN /\ IF sync[t].first THEN Outcome(t, sync[t].local, "error")
                      ELSE Outcome(t, incoming, "conflict")
                   /\ Answered(t)
              ELSE /\ sync' = [sync EXCEPT ![t].again = TRUE]
                   /\ AnsweredThen(t, "profile")
                   /\ UNCHANGED <<tab, disk>>
  /\ UNCHANGED <<rows, played, opens>>

\* saveRun(): a run that is not in progress is left alone.
SaveRunFinds(t) ==
  /\ At(t, "push", "start")
  /\ LET status == rows[Run(t).id].status
     IN IF profile = NoProfile \/ status \notin {"none", "in_progress"} THEN Answered(t)
        ELSE GoesTo(t, IF status = "none" THEN "create" ELSE "update")
  /\ UNCHANGED <<tab, disk, sync, profile, rows, played, opens>>

SaveRunUpdates(t) ==
  /\ At(t, "push", "update")
  /\ rows' = [rows EXCEPT ![Run(t).id].len = Run(t).len, ![Run(t).id].edited = Run(t).edited]
  /\ Answered(t)
  /\ UNCHANGED <<tab, disk, sync, profile, played, opens>>

\* The older run is abandoned.
SaveRunAbandons(t) ==
  /\ At(t, "push", "create")
  /\ rows' = [r \in Runs |-> IF r \in InProgress THEN [rows[r] EXCEPT !.status = "abandoned"]
                              ELSE rows[r]]
  /\ GoesTo(t, "insert")
  /\ UNCHANGED <<tab, disk, sync, profile, played, opens>>

\* Then the row is created, unless the run has one by now, by another tab.
SaveRunCreates(t) ==
  /\ At(t, "push", "insert")
  /\ LET run == Run(t)
     IN rows' = IF rows[run.id].status # "none" THEN rows
                ELSE [rows EXCEPT ![run.id] =
                        [status |-> "in_progress", len |-> run.len, claim |-> run.claim,
                         edited |-> run.edited, awards |-> 0]]
  /\ Answered(t)
  /\ UNCHANGED <<tab, disk, sync, profile, played, opens>>

\* Only a run in progress is abandoned.
Discardable(r) == rows[r].status = "in_progress"

\* discardRun(): one statement.
DiscardRun(t) ==
  /\ At(t, "drop", "start")
  /\ rows' = IF Discardable(Run(t).id) THEN [rows EXCEPT ![Run(t).id].status = "abandoned"]
             ELSE rows
  /\ Answered(t)
  /\ UNCHANGED <<tab, disk, sync, profile, played, opens>>

\* The button of the page says so once a submission is accepted.
Accepted(t) == tab' = IF tab[t].stage = "over" THEN [tab EXCEPT ![t].submitted = TRUE] ELSE tab

\* submitRun(): the account, and what the save claims of it.
SubmitRunReads(t) ==
  /\ At(t, "submit", "start")
  /\ IF profile = NoProfile \/ Overclaims(Run(t), profile) THEN Answered(t)
     ELSE Reads(t, "existing")
  /\ UNCHANGED <<tab, disk, sync, profile, rows, played, opens>>

\* A run that is finished is answered as it stands.
SubmitRunFinds(t) ==
  /\ At(t, "submit", "existing")
  /\ IF rows[Run(t).id].status = "finished"
     THEN Answered(t) /\ Accepted(t)
     ELSE GoesTo(t, "write") /\ UNCHANGED tab
  /\ UNCHANGED <<disk, sync, profile, rows, played, opens>>

\* The replay says the run has ended: its row is finished, whatever it said.
SubmitRunWrites(t) ==
  /\ At(t, "submit", "write")
  /\ Finished(Run(t)) /\ ~Run(t).edited
  /\ rows' = [rows EXCEPT ![Run(t).id].status = "finished", ![Run(t).id].len = Run(t).len,
                          ![Run(t).id].edited = FALSE]
  /\ GoesTo(t, "award")
  /\ UNCHANGED <<tab, disk, sync, profile, played, opens>>

\* markRejected(): a log that does not replay is kept, and its row marked, whatever
\* it said.
SubmitRunRejects(t) ==
  /\ At(t, "submit", "write")
  /\ Run(t).edited
  /\ LET run == Run(t)
     IN rows' = IF rows[run.id].status # "none" THEN [rows EXCEPT ![run.id].status = "rejected"]
                ELSE [rows EXCEPT ![run.id] =
                        [status |-> "rejected", len |-> run.len, claim |-> run.claim,
                         edited |-> TRUE, awards |-> 0]]
  /\ Answered(t)
  /\ UNCHANGED <<tab, disk, sync, profile, played, opens>>

\* The award, under the version read at the start; the loser goes without.
SubmitRunAwards(t) ==
  /\ At(t, "submit", "award")
  /\ LET stored == step[t].stored
     IN IF Unchanged(stored.ver)
        THEN /\ profile' = [ApplyRunToMeta(stored, Run(t).len) EXCEPT !.ver = profile.ver + 1]
             /\ rows' = [rows EXCEPT ![Run(t).id].awards = @ + 1]
        ELSE UNCHANGED <<profile, rows>>
  /\ Answered(t)
  /\ Accepted(t)
  /\ UNCHANGED <<disk, sync, played, opens>>

\* The server or the connection dies between the row and the award.
SubmitRunDies(t) ==
  /\ At(t, "submit", "award")
  /\ Answered(t)
  /\ UNCHANGED <<tab, disk, sync, profile, rows, played, opens>>

-----------------------------------------------------------------------------

Next ==
  \E t \in Tabs :
    \/ Open(t) \/ Leave(t) \/ Start(t) \/ Resume(t) \/ Move(t) \/ Save(t) \/ PlayAgain(t) \/ Press(t)
    \/ GetMyProfile(t) \/ SyncMetaFinds(t) \/ SyncMetaWrites(t)
    \/ SaveRunFinds(t) \/ SaveRunUpdates(t) \/ SaveRunAbandons(t) \/ SaveRunCreates(t)
    \/ DiscardRun(t)
    \/ SubmitRunReads(t) \/ SubmitRunFinds(t) \/ SubmitRunWrites(t) \/ SubmitRunRejects(t)
    \/ SubmitRunAwards(t) \/ SubmitRunDies(t)

Spec == Init /\ [][Next]_vars

-----------------------------------------------------------------------------
(* Properties *)

\* Statuses, stages, and the shape of the calls.
AccountsTypeOK ==
  /\ \A t \in Tabs :
       /\ tab[t].stage \in {"closed", "setup", "running", "over"}
       /\ tab[t].state \in {"offline", "syncing", "synced", "conflict", "error"}
       /\ tab[t].run.len \in 0..EndsAt
       /\ \A i \in DOMAIN calls[t] :
            calls[t][i].kind \in {"profile", "meta", "push", "drop", "submit"}
  /\ disk.run.len < EndsAt
  /\ \A r \in Runs : rows[r].status \in {"none", "in_progress", "abandoned", "finished", "rejected"}

\* The account is awarded a run once at most, however many tabs submit it at the
\* same time and wherever a submission dies (actions.ts:243-268).  A run the panel
\* was used on is left out: a log that does not replay marks its row over the rank
\* another copy of it won, and that copy may then be submitted again.
AwardedOnce == \A r \in Runs \ Panel : rows[r].awards <= 1

\* The account never loses progress, nor a ranked run: synchronisations and awards
\* that overlap never write over one another (the optimistic lock of syncMeta),
\* and no save or discard in flight brings a ranked run down (actions.ts:78, 114).
CloudNeverLoses ==
  [][/\ profile'.xp >= profile.xp
     /\ \A r \in Runs \ Panel :
          rows[r].status = "finished" => rows'[r].status = "finished"]_vars

\* A page that says "synced" has handed over all it knew when it asked, also when
\* it lost a race and merged again (sync.ts).
SyncedCoversLocal ==
  [][\A t \in Tabs : tab[t].state = "syncing" /\ tab'[t].state = "synced"
       => profile'.xp >= sync[t].local.xp]_vars

\* (Violated) merge.ts:10-12 "take the better of the two, never the sum ... adding
\* them would hand out a free doubling to anyone who opened a second tab".
NeverTheSum == profile.xp <= MapThenSumSet(LAMBDA r : played[r], Runs)

\* (Violated) PlayClient.tsx:112-113 "Everything after that is written locally first
\* and pushed when a run ends": a run played here is one the account can claim.
HonestRunsRank ==
  \A t \in Tabs : tab[t].stage = "over" /\ tab[t].state = "synced" => tab[t].run.claim <= profile.xp

\* (Violated) actions.ts:78 "A finished run is immutable".
FinishedKeepsItsLog ==
  [][\A r \in Runs : rows[r].status = "finished" => rows'[r].len = rows[r].len]_vars

\* (Violated) sync.ts:20 "the player keeps playing against localStorage and nobody
\* has a bad time": what a tab shows of its progress is not taken back.
LocalNeverLoses ==
  [][\A t \in Tabs :
       tab'[t].stage \notin {"closed", "setup"} => tab'[t].meta.xp >= tab[t].meta.xp]_vars
=============================================================================
