------------------------------- MODULE Branches -------------------------------
(***************************************************************************)
(* The commit graph of a run played alone: what is written on which branch *)
(* (rules/write.ts, map/graph.ts, map/layout.ts), the pushes the page      *)
(* reads in the events of a batch (bridge/pushes.ts), and the screen that  *)
(* catches up with them (render/storyboard.ts, bridge/reveal.ts).          *)
(*                                                                         *)
(* `at` is where the batch stands: the player moves at "idle", the team    *)
(* then works, the clock may close the sprint, the session publishes the   *)
(* events with the state they led to, and the story is told before the     *)
(* player moves again.  Points, bugs and dice are choices: what is left of *)
(* them is whether a commit went through, and whether its ticket is done.  *)
(***************************************************************************)
EXTENDS Naturals, FiniteSets, Sequences, SequencesExt, TLC

CONSTANTS
  Features,      \* the tickets of the board
  MaxObstacles,  \* obstacles a feature may turn up
  Capacity,      \* tickets the team holds at once
  MaxWork,       \* bound: commits written and sprints shipped, together
  Company        \* may a batch hold what happens to a colleague?

ASSUME BranchesAssumption ==
  /\ IsFiniteSet(Features)
  /\ {MaxObstacles, Capacity, MaxWork} \subseteq Nat
  /\ Company \in BOOLEAN

\* A ticket is a feature and a rank: 0 for the feature, then its obstacles.
Tickets == Features \X (0..MaxObstacles)
NoTicket == <<0, 0>>
Parent(t) == <<t[1], 0>>
IsObstacle(t) == t[2] > 0

Main == 0
Dev == 1
FirstFeatureLane == 2
NoLane == 0

VARIABLES
  repo,          \* the commits, and the tickets they are on
  hand,          \* the ticket the player writes
  asked,         \* the question the player is asked, and its ticket
  team,          \* is there a developer?
  shift,         \* the team's tickets still to work on this turn
  at,            \* where the batch stands
  sent,          \* the events of the batch
  ledger,        \* which commits are local, which are folded into another
  screen         \* what is drawn, drawn local, drawn inside another

branchVars == <<repo, hand, asked, team, shift, at, sent, ledger, screen>>

Nodes(r) == DOMAIN r.nodes
Open(r) == {t \in Tickets : r.tickets[t].status = "open"}
Backlog(r) == {t \in Tickets : r.tickets[t].status = "backlog"}
Mine(r) == {t \in Open(r) : ~r.tickets[t].theirs}
Theirs(r) == Open(r) \ Mine(r)
Obstacles(r, t) == {o \in Open(r) : IsObstacle(o) /\ Parent(o) = t} \ {t}
NothingToDo(r) == Mine(r) \cup Backlog(r) = {}
Ready(r, t) == r.tickets[t].done /\ Obstacles(r, t) = {}

BranchesTypeOK ==
  /\ repo.nodes \in Seq([kind : {"init", "sprint_start", "commit", "obstacle_merge",
                                 "feature_merge", "sprint_merge", "release"},
                         lane : Nat, parents : Seq(Nat), ticket : Tickets \cup {NoTicket},
                         broken : BOOLEAN, theirs : BOOLEAN])
  /\ repo.tickets \in [Tickets -> [status : {"none", "backlog", "open", "merged"},
                                   lane : Nat, ids : Seq(Nat),
                                   done : BOOLEAN, theirs : BOOLEAN]]
  /\ hand \in Tickets \cup {NoTicket}
  /\ asked \in [kind : {"action", "accepted", "rejected", "conflict", "bonus"},
                ticket : Tickets \cup {NoTicket}]
  /\ team \in BOOLEAN
  /\ shift \subseteq Tickets
  /\ at \in {"idle", "pull", "team", "sprint", "publish", "told"}
  /\ ledger.local \in [Tickets -> Seq(Nat)]
  /\ screen.nodes \cup screen.local \subseteq Nodes(repo)

-----------------------------------------------------------------------------
(* Writing the graph *)

\* tipOfLane(): rows are global, so the newest is the last one written.
TipOfLane(r, lane) ==
  CHOOSE n \in Nodes(r) :
    /\ r.nodes[n].lane = lane
    /\ \A m \in Nodes(r) : r.nodes[m].lane = lane => m <= n

\* forkPointOf(): its own tip, or its feature's, or dev.
ForkPoint(r, t) ==
  IF r.tickets[t].ids # <<>> THEN Last(r.tickets[t].ids)
  ELSE IF IsObstacle(t) THEN Last(r.tickets[Parent(t)].ids)
  ELSE TipOfLane(r, Dev)

\* pushBranch(): the broken commits leave the ticket.
Working(r, ids) ==
  LET of[i \in 0..Len(ids)] ==
        IF i = 0 THEN <<>>
        ELSE IF r.nodes[ids[i]].broken THEN of[i - 1] ELSE Append(of[i - 1], ids[i])
  IN of[Len(ids)]
Pushed(r, t) == [r EXCEPT !.tickets[t].ids = Working(r, r.tickets[t].ids)]

\* (Mutant) The columns taken are those of the player's own tickets.
FreeLane_Mine(r) ==
  LET taken == {r.tickets[t].lane : t \in Mine(r)}
  IN CHOOSE l \in FirstFeatureLane..(FirstFeatureLane + Cardinality(Tickets)) :
       l \notin taken /\ \A k \in FirstFeatureLane..(l - 1) : k \in taken

\* pickFeatureLane(): the leftmost column no open ticket is using.
FreeLane(r) ==
  LET taken == {r.tickets[t].lane : t \in Open(r)}
  IN CHOOSE l \in FirstFeatureLane..(FirstFeatureLane + Cardinality(Tickets)) :
       l \notin taken /\ \A k \in FirstFeatureLane..(l - 1) : k \in taken

\* ensureLane(): taken by the ticket's first commit, not before.
LaneOf(r, t) == IF r.tickets[t].lane = NoLane THEN FreeLane(r) ELSE r.tickets[t].lane

Node(kind, lane, parents, t, broken, theirs) ==
  [kind |-> kind, lane |-> lane, parents |-> parents, ticket |-> t,
   broken |-> broken, theirs |-> theirs]

\* writeNode(), for a commit the ticket keeps.
WithNode(r, node) ==
  [r EXCEPT !.nodes = Append(@, node),
            !.tickets[node.ticket].ids = Append(@, Len(r.nodes) + 1)]
OnTrunk(r, kind, lane, parents) ==
  [r EXCEPT !.nodes = Append(@, Node(kind, lane, parents, NoTicket, FALSE, FALSE))]

Commit(r, t, broken, theirs) ==
  LET lane == LaneOf(r, t)
      node == Node("commit", lane, <<ForkPoint(r, t)>>, t, broken, theirs)
  IN [WithNode(r, node) EXCEPT !.tickets[t].lane = lane]

\* maybeSpawnObstacle(): one at a time, on a feature, up to a cap.
Spawns(r, t) ==
  {o \in Tickets : /\ IsObstacle(o) /\ Parent(o) = t
                   /\ Obstacles(r, t) = {}
                   /\ r.tickets[o].status = "none"
                   /\ \A k \in 1..(o[2] - 1) : r.tickets[<<o[1], k>>].status # "none"}
Spawned(r, o) ==
  [r EXCEPT !.tickets[o].status = "open", !.tickets[o].theirs = r.tickets[Parent(o)].theirs]

\* What a commit that went through may lead to: its ticket done, an obstacle.
Filled(r, t, full) == [r EXCEPT !.tickets[t].done = full]
Fillings(r, t) == {Filled(r, t, r.tickets[t].done), Filled(r, t, TRUE)}
Outcomes(r, t) ==
  Fillings(r, t) \cup {Spawned(f, o) : f \in Fillings(r, t), o \in Spawns(r, t)}
Grown(r, t) == r.tickets[t].status = "open" /\ repo.tickets[t].status = "none"

\* completeObstacle(): both branches go up before one lands on the other.
ObstacleLanded(r, t, theirs) ==
  LET pushed == Pushed(Pushed(r, t), Parent(t))
      node == Node("obstacle_merge", r.tickets[Parent(t)].lane,
                   <<Last(pushed.tickets[Parent(t)].ids), Last(pushed.tickets[t].ids)>>, Parent(t),
                   FALSE, theirs)
  IN [WithNode(pushed, node) EXCEPT
        !.tickets[t].status = "merged", !.tickets[t].lane = NoLane, !.tickets[t].theirs = FALSE]

\* completeMerge(): the ticket lands on dev.
FeatureLanded(r, t, theirs) ==
  LET pushed == Pushed(r, t)
      node == Node("feature_merge", Dev, <<Last(pushed.tickets[t].ids), TipOfLane(r, Dev)>>, t,
                   FALSE, theirs)
  IN [pushed EXCEPT
        !.nodes = Append(@, node),
        !.tickets[t].status = "merged", !.tickets[t].lane = NoLane, !.tickets[t].theirs = FALSE]

-----------------------------------------------------------------------------
(* The events of a batch *)

Event(type, t) == [type |-> type, node |-> 0, ticket |-> t, colleague |-> FALSE]
NodeDone(n) == [Event("node_done", NoTicket) EXCEPT !.node = n]
\* What a colleague's turn costs them, in the round this batch plays.
ColleaguesCost == [Event("energy", NoTicket) EXCEPT !.colleague = TRUE]
CostsBefore == IF Company THEN {<<>>, <<ColleaguesCost>>} ELSE {<<>>}
New(r) == Len(r.nodes)

Emit(es) == sent' = sent \o es

\* The bound of the model.
MoreWork ==
  Cardinality({n \in Nodes(repo) : repo.nodes[n].kind \in {"commit", "release"}}) < MaxWork

-----------------------------------------------------------------------------
(* The player.  A free action is published at once; a turn is the team's    *)
(* next.                                                                   *)

Asks(kind) == at = "idle" /\ asked.kind = kind
Ask(kind, t) == asked' = [kind |-> kind, ticket |-> t]
Ordinary == Ask("action", NoTicket)

IsFree == at' = "publish" /\ UNCHANGED shift
TakesTurn == at' = "pull" /\ UNCHANGED shift
SamePage == UNCHANGED <<ledger, screen>>

OpenedFor(r, ts, theirs) ==
  [r EXCEPT !.tickets = [t \in Tickets |->
     IF t \in ts THEN [r.tickets[t] EXCEPT !.status = "open", !.theirs = theirs]
     ELSE r.tickets[t]]]

\* settleCurrent()
Settled(r, h) ==
  IF h \in Open(r) THEN {h} ELSE IF Mine(r) = {} THEN {NoTicket} ELSE Mine(r)

StartTicket ==
  /\ Asks("action")
  /\ \E t \in Backlog(repo) :
       /\ repo' = OpenedFor(repo, {t}, FALSE)
       /\ hand' = t
       /\ sent' = IF hand = NoTicket THEN <<>> ELSE <<Event("checkout", t)>>
  /\ IsFree /\ SamePage /\ UNCHANGED <<asked, team>>

Checkout ==
  /\ Asks("action")
  /\ \E t \in Mine(repo) \ {hand} : hand' = t /\ sent' = <<Event("checkout", t)>>
  /\ IsFree /\ SamePage /\ UNCHANGED <<repo, asked, team>>

HireDev ==
  /\ Asks("action") /\ ~team
  /\ team' = TRUE /\ sent' = <<>>
  /\ IsFree /\ SamePage /\ UNCHANGED <<repo, hand, asked>>

\* writeCommit() on ticket t: broken, it stays on the player's machine; else the
\* branch goes up first, and the commit is built on the last code that worked.
Writes(t) ==
  /\ MoreWork
  /\ \E broken \in BOOLEAN :
       repo' \in IF broken THEN {Commit(repo, t, TRUE, FALSE)}
                ELSE Outcomes(Commit(Pushed(repo, t), t, FALSE, FALSE), t)
  /\ hand' = IF \E o \in Tickets : Grown(repo', o) /\ hand = Parent(o)
             THEN CHOOSE o \in Tickets : Grown(repo', o) ELSE hand
  /\ \E before \in CostsBefore : sent' = Append(before, NodeDone(New(repo')))

WriteCommit ==
  /\ Asks("action") /\ hand # NoTicket
  /\ Writes(hand)
  /\ TakesTurn /\ SamePage /\ UNCHANGED <<asked, team>>

Rest ==
  /\ Asks("action") /\ ~NothingToDo(repo)
  /\ sent' = <<>>
  /\ TakesTurn /\ SamePage /\ UNCHANGED <<repo, hand, asked, team>>

\* performSubmit(): the branch goes up before it is read.
SubmitAccepted ==
  /\ Asks("action") /\ hand # NoTicket /\ ~IsObstacle(hand) /\ Ready(repo, hand)
  /\ repo' = Pushed(repo, hand)
  /\ Ask("accepted", hand)
  /\ sent' = <<Event("pr_reviewed", hand)>>
  /\ IsFree /\ SamePage /\ UNCHANGED <<hand, team>>

\* Refused, it has more to fill, and another ticket opens beside it.
SubmitRefused ==
  /\ Asks("action") /\ hand # NoTicket /\ ~IsObstacle(hand) /\ Ready(repo, hand)
  /\ LET refused == Filled(Pushed(repo, hand), hand, FALSE)
     IN repo' \in IF Backlog(repo) = {} THEN {refused}
                  ELSE {OpenedFor(refused, {t}, FALSE) : t \in Backlog(repo)}
  /\ Ask("rejected", hand)
  /\ sent' = <<Event("pr_reviewed", hand)>>
  /\ IsFree /\ SamePage /\ UNCHANGED <<hand, team>>

\* resumeTicket(), and the fix it writes at once.
Resume ==
  /\ Asks("rejected")
  /\ Writes(asked.ticket) /\ Ordinary
  /\ TakesTurn /\ SamePage /\ UNCHANGED team

Followup ==
  /\ Asks("rejected")
  /\ repo' = Filled(repo, asked.ticket, TRUE)
  /\ Ask("accepted", asked.ticket) /\ sent' = <<>>
  /\ IsFree /\ SamePage /\ UNCHANGED <<hand, team>>

LandsFeature(t) ==
  /\ repo' = FeatureLanded(repo, t, FALSE)
  /\ hand' \in Settled(repo', hand)
  /\ \E before \in CostsBefore :
       sent' = before \o <<Event("ticket_merged", t), NodeDone(New(repo'))>>
  /\ Ordinary /\ TakesTurn

Merge ==
  /\ Asks("accepted")
  /\ LandsFeature(asked.ticket)
  /\ SamePage /\ UNCHANGED team

MergeConflicts ==
  /\ Asks("accepted")
  /\ Ask("conflict", asked.ticket) /\ sent' = <<>>
  /\ IsFree /\ SamePage /\ UNCHANGED <<repo, hand, team>>

ResolveConflict ==
  /\ Asks("conflict")
  /\ \/ LandsFeature(asked.ticket)
     \/ sent' = <<>> /\ TakesTurn /\ UNCHANGED <<repo, hand, asked>>
  /\ SamePage /\ UNCHANGED team

MergeObstacle ==
  /\ Asks("action") /\ IsObstacle(hand) /\ Ready(repo, hand)
  /\ repo' = ObstacleLanded(repo, hand, FALSE)
  /\ hand' = Parent(hand)
  /\ sent' = <<Event("obstacle_cleared", hand), NodeDone(New(repo'))>>
  /\ TakesTurn /\ SamePage /\ UNCHANGED <<asked, team>>

-----------------------------------------------------------------------------
(* The team and the clock *)

\* pullTeam(): what is waiting, up to what the team may hold.
Pulls(r) ==
  {OpenedFor(r, ts, TRUE) : ts \in {u \in SUBSET Backlog(r) :
     u # {} => team /\ Cardinality(Theirs(r) \cup u) <= Capacity}}

PullTeam ==
  /\ at = "pull"
  /\ repo' \in Pulls(repo)
  /\ shift' = Theirs(repo')
  /\ at' = "team"
  /\ SamePage /\ UNCHANGED <<hand, asked, team, sent>>

\* What a turn of the team leaves of a ticket: full, it lands at once, unless an
\* obstacle stands on it.
TeamLanded(r, t) ==
  IF ~Ready(r, t) THEN r
  ELSE IF IsObstacle(t) THEN ObstacleLanded(r, t, TRUE) ELSE FeatureLanded(r, t, TRUE)
LandedEvents(r, t) ==
  IF ~Ready(r, t) THEN <<>>
  ELSE <<Event(IF IsObstacle(t) THEN "obstacle_cleared" ELSE "ticket_merged", t),
         NodeDone(New(r) + 1)>>

\* workTeam(), one ticket: obstacles first.
TeamWorks(t) ==
  /\ at = "team" /\ t \in shift
  /\ IsObstacle(t) \/ \A u \in shift : ~IsObstacle(u)
  /\ \/ repo' = TeamLanded(repo, t) /\ Emit(LandedEvents(repo, t))
     \/ /\ MoreWork /\ ~repo.tickets[t].done
        /\ \E r \in Outcomes(Commit(repo, t, FALSE, TRUE), t) :
             repo' = TeamLanded(r, t) /\ Emit(<<NodeDone(New(r))>> \o LandedEvents(r, t))
  /\ hand' \in Settled(repo', hand)
  /\ shift' = shift \ {t}
  /\ SamePage /\ UNCHANGED <<asked, team, at>>

\* releaseDev(): an unpaid developer leaves, what they held is mine.
Departure(r, leaves) ==
  /\ team' = (team /\ ~leaves)
  /\ repo' = IF leaves THEN OpenedFor(r, Theirs(r), FALSE) ELSE r
  /\ hand' \in IF leaves THEN Settled(repo', hand) ELSE {hand}

Clock == at = "team" /\ shift = {}

\* endTurn(); with nothing to do the turns pass by themselves, in the same batch.
TurnEnds ==
  /\ Clock
  /\ \E leaves \in {FALSE, team} : Departure(repo, leaves)
  /\ at' = IF NothingToDo(repo') /\ Theirs(repo') # {} THEN "pull" ELSE "publish"
  /\ SamePage /\ UNCHANGED <<asked, shift, sent>>

\* endSprint(): dev is merged into main and tagged; a bonus is asked about, unless
\* there is none left.  A conflict that is not resolved by then is forgotten.
Shipped(r) ==
  LET merged == OnTrunk(r, "sprint_merge", Main, <<TipOfLane(r, Main), TipOfLane(r, Dev)>>)
  IN OnTrunk(merged, "release", Main, <<New(merged)>>)
SprintCloses ==
  /\ Clock /\ MoreWork
  /\ \E leaves \in {FALSE, team} : Departure(Shipped(repo), leaves)
  /\ Emit(<<NodeDone(New(repo) + 1), NodeDone(New(repo) + 2)>>)
  /\ \/ Ask("bonus", NoTicket) /\ at' = "publish"
     \/ Ordinary /\ at' = "sprint"
  /\ SamePage /\ UNCHANGED shift

ChooseBonus ==
  /\ at = "idle" /\ asked.kind = "bonus"
  /\ Ordinary /\ at' = "sprint" /\ sent' = <<>>
  /\ SamePage /\ UNCHANGED <<repo, hand, team, shift>>

\* startNextSprint(): main merged back into dev, then the team takes what waits,
\* then what waited too long is mine.
NextSprint ==
  /\ at = "sprint"
  /\ LET opened == OnTrunk(repo, "sprint_start", Dev, <<TipOfLane(repo, Main)>>)
     IN /\ \E pulled \in Pulls(opened) : \E stale \in SUBSET Backlog(pulled) :
             repo' = OpenedFor(pulled, stale, FALSE)
        /\ Emit(<<NodeDone(New(opened))>>)
  /\ hand' \in IF hand = NoTicket THEN Settled(repo', hand) ELSE {hand}
  /\ at' = "publish"
  /\ SamePage /\ UNCHANGED <<asked, team, shift>>

-----------------------------------------------------------------------------
(* The pushes of a batch (bridge/pushes.ts) *)

BornLocal(r, n) == r.nodes[n].kind = "commit" /\ ~r.nodes[n].theirs
\* The obstacles of a feature, as they turned up.
Children(t) == [k \in 1..MaxObstacles |-> <<t[1], k>>]

\* The last of the group stays, the others fold into it.
Together(acc, group, i, kind) ==
  LET into == Last(group)
  IN [acc EXCEPT !.absorbed = @ \cup {<<n, into>> : n \in ToSet(group) \ {into}},
                 !.ops = @ \cup {[ids |-> ToSet(group), into |-> into, at |-> i,
                                  kind |-> kind]}]

\* The branch goes up: what broke folds into the commit it now ends on.
Flush(acc, r, t, i) ==
  LET group == acc.local[t]
      ids == r.tickets[t].ids
  IN IF group = <<>> \/ ids = <<>> THEN acc
     ELSE Together([acc EXCEPT !.local[t] = <<>>], Append(group, Last(ids)), i, "flush")

FlushAll(acc, r, ts, i) ==
  LET of[k \in 0..Len(ts)] == IF k = 0 THEN acc ELSE Flush(of[k - 1], r, ts[k], i)
  IN of[Len(ts)]

\* (Mutant) An obstacle that lands sends up its own branch alone.
Flushed_ObstacleOnly(e) ==
  CASE e.type \in {"pr_reviewed", "ticket_merged"} -> <<e.ticket>> \o Children(e.ticket)
    [] e.type = "obstacle_cleared" -> <<e.ticket>>
    [] OTHER -> <<>>

\* The branches an event sends up.
Flushed(e) ==
  CASE e.type \in {"pr_reviewed", "ticket_merged"} -> <<e.ticket>> \o Children(e.ticket)
    [] e.type = "obstacle_cleared" -> <<e.ticket, Parent(e.ticket)>>
    [] OTHER -> <<>>

PushesOf(acc, r, e, i) ==
  IF e.type # "node_done" THEN FlushAll(acc, r, Flushed(e), i)
  ELSE IF ~BornLocal(r, e.node) THEN acc
  ELSE LET t == r.nodes[e.node].ticket
           group == Append(acc.local[t], e.node)
       IN IF r.nodes[e.node].broken THEN [acc EXCEPT !.local[t] = group]
          ELSE Together([acc EXCEPT !.local[t] = <<>>], group, i, "commit")

\* advancePushes(): the events of the batch, over the state they led to.
Advancing(l, es, r) ==
  LET of[i \in 0..Len(es)] ==
        IF i = 0 THEN [local |-> l.local, absorbed |-> l.absorbed, ops |-> {}]
        ELSE PushesOf(of[i - 1], r, es[i], i)
  IN of
Advanced(l, es, r) == Advancing(l, es, r)[Len(es)]

LocalOf(l) == UNION {ToSet(l.local[t]) : t \in Tickets}

-----------------------------------------------------------------------------
(* The story (render/storyboard.ts), by what it leaves on the screen *)

\* pushSteps(), for each of these pushes, in whatever order: nothing for a commit
\* that is not drawn yet.
PushSteps(s, ops) ==
  LET told == {op \in ops : op.into \in s.nodes}
      folded(op) == (op.ids \cap s.nodes) \ {op.into}
  IN [s EXCEPT !.local = @ \ UNION {folded(op) \cup {op.into} : op \in told},
               !.absorbed = @ \cup UNION {folded(op) \X {op.into} : op \in told}]

\* settle(): what the last commit had to tell is told, it goes up.
Settle(acc) == [screen |-> PushSteps(acc.screen, acc.pending), pending |-> {}]

Reveal(s, r, n) ==
  [s EXCEPT !.nodes = @ \cup {n}, !.local = IF BornLocal(r, n) THEN @ \cup {n} ELSE @]

OpsAt(ops, i, kind) == {op \in ops : op.at = i /\ op.kind = kind}

\* (Mutant) A commit reaches the remote when the next one is written, and the
\* last one never.
Ended_Unsettled(acc) == acc

\* The end of the plan: the last commit goes up too.
Ended(acc) == Settle(acc)

StepOf(acc, r, ops, e, i) ==
  LET flushes == OpsAt(ops, i, "flush")
      up == IF flushes = {} THEN acc
            ELSE [screen |-> PushSteps(Settle(acc).screen, flushes), pending |-> {}]
      mine == e.type = "node_done" /\ ~r.nodes[e.node].theirs
      told == IF mine \/ e.type \in {"pr_reviewed", "checkout"} THEN Settle(up) ELSE up
  IN IF e.type # "node_done" THEN told
     ELSE [screen |-> Reveal(told.screen, r, e.node),
           pending |-> told.pending \cup OpsAt(ops, i, "commit")]

\* planBatch(), played to its end.
Telling(s, es, r, ops) ==
  LET of[i \in 0..Len(es)] ==
        IF i = 0 THEN [screen |-> s, pending |-> {}] ELSE StepOf(of[i - 1], r, ops, es[i], i)
  IN of
Told(s, es, r, ops) == Ended(Telling(s, es, r, ops)[Len(es)]).screen

\* showAll(): everything the engine has written, as the ledger has it.
Whole(r, l) == [nodes |-> Nodes(r), local |-> LocalOf(l), absorbed |-> l.absorbed]

\* What happens to a colleague is no event of mine.
Own(es) ==
  LET of[i \in 0..Len(es)] ==
        IF i = 0 THEN <<>>
        ELSE IF es[i].colleague THEN of[i - 1] ELSE Append(of[i - 1], es[i])
  IN of[Len(es)]

\* The session applies the batch and publishes it: in a company, without what is
\* a colleague's.  The story is told before the player moves again.
Publish ==
  /\ at = "publish"
  /\ LET pushed == Advanced(ledger, sent, repo)
     IN /\ ledger' = [local |-> pushed.local, absorbed |-> pushed.absorbed]
        /\ screen' = Told(screen, Own(sent), repo, pushed.ops)
  /\ at' = "told" /\ sent' = <<>>
  /\ UNCHANGED <<repo, hand, asked, team, shift>>

\* The end of the batch, or a skip: the screen is whole.
Complete ==
  /\ at = "told"
  /\ screen' = Whole(repo, ledger)
  /\ at' = "idle"
  /\ UNCHANGED <<repo, hand, asked, team, shift, sent, ledger>>

-----------------------------------------------------------------------------
\* createRun(): the first commit of main, merged back into dev.
BranchesInit ==
  /\ repo = [nodes |-> <<Node("init", Main, <<>>, NoTicket, FALSE, FALSE),
                         Node("sprint_start", Dev, <<1>>, NoTicket, FALSE, FALSE)>>,
             tickets |-> [t \in Tickets |->
               [status |-> IF IsObstacle(t) THEN "none" ELSE "backlog",
                lane |-> NoLane, ids |-> <<>>, done |-> FALSE, theirs |-> FALSE]]]
  /\ hand = NoTicket
  /\ asked = [kind |-> "action", ticket |-> NoTicket]
  /\ team = FALSE /\ shift = {}
  /\ at = "idle" /\ sent = <<>>
  /\ ledger = [local |-> [t \in Tickets |-> <<>>], absorbed |-> {}]
  /\ screen = [nodes |-> {1, 2}, local |-> {}, absorbed |-> {}]

Plays ==
  \/ StartTicket \/ Checkout \/ HireDev \/ WriteCommit \/ Rest
  \/ SubmitAccepted \/ SubmitRefused \/ Resume \/ Followup
  \/ Merge \/ MergeConflicts \/ ResolveConflict \/ MergeObstacle \/ ChooseBonus
BranchesNext ==
  \/ Plays
  \/ PullTeam \/ (\E t \in Tickets : TeamWorks(t))
  \/ TurnEnds \/ SprintCloses \/ NextSprint
  \/ Publish \/ Complete

\* Features are alike.
FeaturesAlike == Permutations(Features)

Branches == BranchesInit /\ [][BranchesNext]_branchVars

-----------------------------------------------------------------------------
(* Properties *)

\* A commit and everything it was built on.
Ancestors(r) ==
  LET of[n \in Nodes(r)] == {n} \cup UNION {of[p] : p \in ToSet(r.nodes[n].parents)}
  IN of

Kept(t) == repo.tickets[t].ids

\* What checkInvariants() asks of the graph (map/graph.ts), whatever was written,
\* broken, interrupted, taken over or merged: two open tickets never share a
\* column, a column is held exactly by a ticket that has written and holds all of
\* its commits, a ticket is a chain from dev or from its feature's column, an open
\* obstacle stands on an open feature.  And what is merged is whole: nothing broken
\* is left on the ticket, and dev is built on every commit of it.
GraphIsSound ==
  /\ \A t \in Open(repo) :
       /\ (repo.tickets[t].lane = NoLane) = (Kept(t) = <<>>)
       /\ \A n \in ToSet(Kept(t)) : repo.nodes[n].lane = repo.tickets[t].lane
       /\ \A u \in Open(repo) \ {t} :
            repo.tickets[u].lane = repo.tickets[t].lane => repo.tickets[t].lane = NoLane
       /\ Parent(t) \in Open(repo)
  /\ \A t \in Tickets : \A i \in DOMAIN Kept(t) :
       LET first == Head(repo.nodes[Kept(t)[i]].parents)
       IN IF i > 1 THEN first = Kept(t)[i - 1]
          ELSE IF IsObstacle(t) THEN repo.nodes[first].ticket = Parent(t)
          ELSE repo.nodes[first].lane = Dev
  /\ \A t \in Tickets :
       repo.tickets[t].status = "merged" /\ repo.tickets[Parent(t)].status = "merged" =>
         \A n \in ToSet(Kept(t)) :
           ~repo.nodes[n].broken /\ n \in Ancestors(repo)[TipOfLane(repo, Dev)]

\* (Violated) The chain as checkInvariants() states it: an obstacle forks off a
\* commit its feature still has.
TicketIsAChain ==
  \A t \in Tickets : IsObstacle(t) /\ Kept(t) # <<>> =>
    Head(repo.nodes[Kept(t)[1]].parents) \in ToSet(Kept(Parent(t)))

\* The page folds events to know which commits are local (pushes.ts), the engine
\* drops them from the ticket (pushBranch): the two agree.  Once a batch is
\* published, what the ledger holds local on a branch is what broke on it since its
\* last push, at its tip; everything else that broke was folded, once, into a
\* later or an earlier commit that the same ticket keeps.
LedgerIsTheBranches ==
  at \in {"idle", "told"} =>
    /\ \A t \in Tickets :
         /\ Kept(t) = Working(repo, Kept(t)) \o ledger.local[t]
         /\ \A n \in ToSet(ledger.local[t]) : repo.nodes[n].broken
    /\ \A n \in {m \in Nodes(repo) : repo.nodes[m].broken} \ LocalOf(ledger) :
         \E f \in ledger.absorbed :
           /\ f[1] = n
           /\ \A g \in ledger.absorbed : g[1] = n => g = f
           /\ f[2] \in ToSet(Kept(repo.nodes[n].ticket))

\* The story of a batch tells all of it: when it ends every commit is drawn, and
\* drawn local or folded as the ledger has it, so that the completion at the end of
\* a batch (showAll) changes nothing.  Except for what broke on a feature while its
\* obstacle was written: the merge it folds into is drawn after the push.
StoryCatchesUp ==
  at = "told" =>
    /\ screen.nodes = Nodes(repo)
    /\ LocalOf(ledger) \subseteq screen.local
    /\ screen.absorbed \subseteq ledger.absorbed
    /\ \A n \in screen.local \ LocalOf(ledger) : \E f \in ledger.absorbed :
         f[1] = n /\ repo.nodes[f[2]].kind = "obstacle_merge"

\* (Violated) Without the exception.
StoryIsWhole == at = "told" => screen = Whole(repo, ledger)
=============================================================================
