-------------------------------- MODULE Desks --------------------------------
(***************************************************************************)
(* One run played by several humans (rules/crew.ts): who holds which       *)
(* ticket, what each has in hand and is asked, and how work changes desks  *)
(* when somebody leaves, burns out or is let go.                           *)
(*                                                                         *)
(* Between two rounds ("idle") any seat takes free actions and people come *)
(* and go.  A round is one call in the code (applyRound); here every seat  *)
(* plays in seat order, then the team works, then the month, the release   *)
(* and the burnouts follow.  A round that throws is lost whole, and the    *)
(* model stops there ("thrown").                                           *)
(*                                                                         *)
(* Points, energy, money and dice are choices: `done` is a ticket whose    *)
(* points are full and which has nothing flagged.  There is one developer. *)
(***************************************************************************)
EXTENDS Naturals, FiniteSets, FiniteSetsExt

CONSTANTS
  Capacity, MaxSeats,      \* as in CrewEngine: people at the site, arrivals
  Drawn,                   \* kinds of ticket a sprint may bring besides a feature
  Reach,                   \* tickets the developer may hold
  MaxObstacles,            \* obstacles a ticket may turn up
  MaxTickets               \* tickets over the life of the run (a bound)

ASSUME DesksSizes == {Capacity, MaxSeats, Reach, MaxTickets} \subseteq Nat \ {0}
ASSUME DesksDrawn == Drawn \subseteq {"feature", "bug", "vip", "debt"} /\ MaxObstacles \in Nat

Seats == 0..(MaxSeats - 1)
SoloSeat == 0
NoSeat == MaxSeats
Ids == 1..MaxTickets
NoId == 0

\* "feature" is also a migration, "bug" a customer's, "forced" a hotfix or a
\* refactor, and "debt" the codebase's own request.
Kinds == {"feature", "bug", "vip", "debt", "forced", "obstacle"}
TeamTakes == {"feature", "bug"}
ForcedWhenStale == {"feature", "bug"}
Dated == {"bug", "vip"}
SpawnsObstacles == {"feature", "vip"}

VARIABLES
  board,     \* tickets; seats with a human, their hands and questions; the developer
  next,      \* the seat the next arrival gets
  phase,     \* what the company is doing: play, event, relic, over
  at,        \* the part of the round the engine is in, "idle" between two
  todo,      \* seats that have still to play in the round
  queue,     \* tickets the developer has still to work on this turn
  burnt,     \* seats that burnt out in this round
  parted     \* has a departure left a ticket and its obstacle at two desks?

deskVars == <<board, next, phase, at, todo, queue, burnt, parted>>

NoTicket ==
  [kind |-> "none", status |-> "none", parent |-> NoId, holder |-> NoSeat,
   team |-> FALSE, done |-> FALSE, landed |-> 0]

Ticket ==
  [kind : Kinds \cup {"none"}, status : {"none", "backlog", "open", "merged", "cancelled"},
   parent : Ids \cup {NoId}, holder : Seats \cup {NoSeat}, team : BOOLEAN,
   done : BOOLEAN, landed : 0..2]

Ask(kind, t) == [kind |-> kind, ticket |-> t]
Nothing == Ask("nothing", NoId)

Board ==
  [tickets : [Ids -> Ticket], seats : SUBSET Seats, hired : BOOLEAN,
   hand : [Seats -> Ids \cup {NoId}],
   asked : [Seats -> [kind : {"nothing", "accepted", "rejected", "conflict"},
                      ticket : Ids \cup {NoId}]]]

DesksTypeOK ==
  /\ board \in Board
  /\ next \in 0..MaxSeats
  /\ phase \in {"play", "event", "relic", "over"}
  /\ at \in {"idle", "round", "team", "ship", "shipEarly", "thrown"}
  /\ todo \subseteq Seats
  /\ queue \subseteq Ids
  /\ burnt \subseteq Seats
  /\ parted \in BOOLEAN

-----------------------------------------------------------------------------
(* A board b, and what the rules do to it                                    *)

Open(b) == {t \in Ids : b.tickets[t].status = "open"}
Backlog(b) == {t \in Ids : b.tickets[t].status = "backlog"}
Team(b) == {t \in Open(b) : b.tickets[t].team}
Obstacles(b, t) == {o \in Open(b) : b.tickets[o].parent = t}
Children(b, t) == {o \in Ids : b.tickets[o].parent = t}
Unused(b) == {t \in Ids : b.tickets[t].status = "none"}
BoardIsEmpty(b) == Open(b) \cup Backlog(b) = {}

\* ticketHolder(): a ticket without a holder counts for seat 0.
Holder(b, t) == IF b.tickets[t].holder = NoSeat THEN SoloSeat ELSE b.tickets[t].holder
Desk(b, s) == {t \in Open(b) \ Team(b) : Holder(b, t) = s}
Load(b, s) == Cardinality(Desk(b, s))

LeadSeat(b) == IF b.seats = {} THEN SoloSeat ELSE Min(b.seats)
LightestSeat(b) ==
  IF b.seats = {} THEN SoloSeat
  ELSE Min({s \in b.seats : \A r \in b.seats : Load(b, s) <= Load(b, r)})

\* Over the tickets or the seats of xs, oldest first.
InOrder(Op(_, _), b, xs) ==
  LET after[n \in 0..(MaxTickets + MaxSeats)] ==
        IF n = 0 THEN b
        ELSE IF n - 1 \in xs THEN Op(after[n - 1], n - 1) ELSE after[n - 1]
  IN after[MaxTickets + MaxSeats]

IsReady(b, t) == b.tickets[t].done /\ Obstacles(b, t) = {}

\* openTicket(), started by a seat or handed to a human on the spot.
Given(b, t, s) ==
  [b EXCEPT !.tickets[t].status = "open", !.tickets[t].holder = s, !.hand[s] = t]

\* openTicket(), forced.  The ticket is open, and counted, before it is routed.
Forced(b, t) ==
  LET opened == [b EXCEPT !.tickets[t].status = "open"]
      s == LightestSeat(opened)
  IN [opened EXCEPT !.tickets[t].holder = s,
                    !.hand[s] = IF @ = NoId THEN t ELSE @]
ForcedAll(b, ts) == InOrder(Forced, b, ts)

\* Tickets that arrive in the backlog, on the next ids.
Arrived(b, kinds) ==
  [b EXCEPT !.tickets =
     [t \in Ids |-> IF t \in DOMAIN kinds
                    THEN [NoTicket EXCEPT !.kind = kinds[t], !.status = "backlog"]
                    ELSE b.tickets[t]]]
NextIds(b) == {ids \in SUBSET Unused(b) : ids # {} /\ \A t \in ids, u \in Unused(b) \ ids : t < u}
OneOf(b, kind) == [t \in {Min(Unused(b))} |-> kind]

\* arriveTickets(): a feature and others.  A run out of ids takes no more.
Arrivals(b) ==
  IF Unused(b) = {} THEN {b}
  ELSE {Arrived(b, kinds) :
          kinds \in {k \in UNION {[ids -> Drawn \cup {"feature"}] : ids \in NextIds(b)} :
                       k[Min(DOMAIN k)] = "feature"}}

\* forceTicket()
WithForced(b) == LET t == Min(Unused(b)) IN Forced(Arrived(b, OneOf(b, "forced")), t)

\* spawnObstacle(): in the hands of the ticket's, and of whoever had it in hand.
CanSpawn(b, t) ==
  /\ b.tickets[t].kind \in SpawnsObstacles
  /\ Obstacles(b, t) = {}
  /\ Cardinality(Children(b, t)) < MaxObstacles
  /\ Unused(b) # {}
WithObstacle(b, t) ==
  LET o == Min(Unused(b))
  IN [b EXCEPT
        !.tickets[o] = [NoTicket EXCEPT !.kind = "obstacle", !.status = "open", !.parent = t,
                                        !.holder = b.tickets[t].holder,
                                        !.team = b.tickets[t].team],
        !.hand = [s \in Seats |-> IF b.hand[s] = t THEN o ELSE b.hand[s]]]

\* A commit may break, fill the ticket or not, and turn something up.
Written(b, t) == {b, [b EXCEPT !.tickets[t].done = TRUE]}
WrittenOrSpawned(b, t) ==
  Written(b, t) \cup {WithObstacle(w, t) : w \in {v \in Written(b, t) : CanSpawn(v, t)}}

\* What is left of a ticket that has left the board.
Merged(ticket) ==
  [NoTicket EXCEPT !.status = "merged", !.parent = ticket.parent,
                   !.landed = Min({2, ticket.landed + 1})]
Cancelled(b, gone) ==
  [b EXCEPT !.tickets = [t \in Ids |-> IF t \in gone
                                       THEN [NoTicket EXCEPT !.status = "cancelled"]
                                       ELSE b.tickets[t]]]

\* settleCurrent(): the ticket in hand while it is open, else the oldest held.
Settled(b, s) ==
  IF b.hand[s] \in Open(b) THEN b
  ELSE [b EXCEPT !.hand[s] = IF Desk(b, s) = {} THEN NoId ELSE Min(Desk(b, s))]

\* completeObstacle(): every hand on the obstacle is back on what it stood on,
\* which must still have a column to land in.
HasWhereToLand(b, o) == b.tickets[o].parent \in Open(b)
ObstacleLanded(b, o) ==
  [b EXCEPT !.tickets[o] = Merged(@),
            !.hand = [s \in Seats |-> IF b.hand[s] = o THEN b.tickets[o].parent ELSE b.hand[s]]]

\* completeMerge(), up to settleCurrent() for seat s.  A customer's bug may be
\* the follow-up of a commit that holds another ticket back.
Landed(b, t, s) ==
  LET landed == [b EXCEPT !.tickets[t] = Merged(@)]
      freed == IF b.tickets[t].kind = "bug" THEN Open(landed) ELSE {}
  IN {Settled(l, s) : l \in {landed} \cup {[landed EXCEPT !.tickets[u].done = TRUE] : u \in freed}}

\* (Mutant) The question is left where it was.
LandedFor_KeepsQuestion(b, s) == Landed(b, b.asked[s].ticket, s)

\* land(): the seat lands what it was asked about.
LandedFor(b, s) == {[l EXCEPT !.asked[s] = Nothing] : l \in Landed(b, b.asked[s].ticket, s)}

\* (Mutant) The lightest desk is looked up once.
Moved_Together(b, ts) ==
  [b EXCEPT !.tickets = [t \in Ids |-> IF t \in ts
                                       THEN [b.tickets[t] EXCEPT !.holder = LightestSeat(b)]
                                       ELSE b.tickets[t]]]

\* One ticket after the other, each to the desk that is lightest by then.
Move(m, t) == [m EXCEPT !.tickets[t].holder = LightestSeat(m)]
Moved(b, ts) == InOrder(Move, b, ts)

\* (Mutant) Empty hands stay empty.
Picked_Nobody(b) == b

\* A desk whose hand is empty takes the oldest of its tickets.
Picked(b) ==
  [b EXCEPT !.hand = [s \in Seats |->
     IF s \in b.seats /\ b.hand[s] = NoId /\ Desk(b, s) # {} THEN Min(Desk(b, s)) ELSE b.hand[s]]]

\* leaveSeat(): what a human held goes to the others, if there are any.
Departed(b, s) ==
  LET gone == [b EXCEPT !.seats = @ \ {s}, !.hand[s] = NoId, !.asked[s] = Nothing]
  IN IF gone.seats = {} THEN gone ELSE Picked(Moved(gone, Desk(b, s)))
BurntOut(b, ss) == InOrder(Departed, b, ss)

\* releaseDev(): each ticket is nobody's, so seat 0's, while it is routed.
Route(m, t) == Move([m EXCEPT !.tickets[t].team = FALSE], t)
Routed(b, ts) == InOrder(Route, b, ts)
SettledAll(b, ss) == InOrder(Settled, b, ss)
Released(b) == SettledAll(Routed([b EXCEPT !.hired = FALSE], Team(b)), b.seats)

\* pullTeam(): the developer takes the oldest tickets there is room for.
Take(m, t) ==
  IF m.hired /\ Cardinality(Team(m)) < Reach
  THEN [m EXCEPT !.tickets[t].status = "open", !.tickets[t].team = TRUE]
  ELSE m
Taken(b, ts) == InOrder(Take, b, ts)
Pulled(b) == Taken(b, {t \in Backlog(b) : b.tickets[t].kind \in TeamTakes})

\* A ticket and its obstacle in different hands.
Split(b) ==
  \E o \in Open(b) :
    LET t == b.tickets[o].parent
    IN t \in Open(b) /\ (b.tickets[t].team # b.tickets[o].team \/ Holder(b, t) # Holder(b, o))

DesksInit ==
  /\ board \in Arrivals([tickets |-> [t \in Ids |-> NoTicket], seats |-> {SoloSeat},
                         hired |-> FALSE, hand |-> [s \in Seats |-> NoId],
                         asked |-> [s \in Seats |-> Nothing]])
  /\ next = 1
  /\ phase = "play"
  /\ at = "idle"
  /\ todo = {}
  /\ queue = {}
  /\ burnt = {}
  /\ parted = FALSE

-----------------------------------------------------------------------------
(* Between two rounds: people come and go                                    *)

Idle == at = "idle"
SameRound == UNCHANGED <<at, todo, queue, burnt>>
Parts(b) == parted' = (parted \/ Split(b))

Headcount == Cardinality(board.seats) + IF board.hired THEN 1 ELSE 0
HasRoom == Headcount < Capacity

\* (Mutant) A newcomer sits down on the first seat that is vacant.
JoinCrew_FirstVacant ==
  /\ Idle /\ phase # "over" /\ HasRoom
  /\ Seats \ board.seats # {}
  /\ board' = [board EXCEPT !.seats = @ \cup {Min(Seats \ board.seats)}]
  /\ next' = IF next < MaxSeats THEN next + 1 ELSE next
  /\ SameRound /\ UNCHANGED <<phase, parted>>

JoinCrew ==
  /\ Idle /\ phase # "over" /\ HasRoom
  /\ next < MaxSeats
  /\ board' = [board EXCEPT !.seats = @ \cup {next}]
  /\ next' = next + 1
  /\ SameRound /\ UNCHANGED <<phase, parted>>

\* The last human to go dissolves the company.
LeaveCrew ==
  /\ Idle
  /\ \E s \in board.seats : board' = Departed(board, s)
  /\ phase' = IF board'.seats = {} THEN "over" ELSE phase
  /\ Parts(board')
  /\ SameRound /\ UNCHANGED next

-----------------------------------------------------------------------------
(* Free actions of a seat (applyAction)                                      *)

\* phaseOf(): the company's question comes before the seat's own.
IsAsked(s, kind) == phase = "play" /\ board.asked[s].kind = kind
InHand(s) == board.hand[s] \in Open(board)

Acts(s, kind) ==
  /\ Idle /\ s \in board.seats
  /\ IsAsked(s, kind)
  /\ SameRound /\ UNCHANGED <<next, parted>>

Start(s) ==
  /\ Acts(s, "nothing")
  /\ \E t \in Backlog(board) : board' = Given(board, t, s)
  /\ UNCHANGED phase

Checkout(s) ==
  /\ Acts(s, "nothing")
  /\ \E t \in Desk(board, s) \ {board.hand[s]} : board' = [board EXCEPT !.hand[s] = t]
  /\ UNCHANGED phase

Submits(s) ==
  /\ Acts(s, "nothing")
  /\ InHand(s)
  /\ board.tickets[board.hand[s]].parent = NoId
  /\ IsReady(board, board.hand[s])

SubmitAccepted(s) ==
  /\ Submits(s)
  /\ board' = [board EXCEPT !.asked[s] = Ask("accepted", board.hand[s])]
  /\ UNCHANGED phase

\* The refusal may fill the gauge, which is the end.  Else the next ticket of the
\* backlog is opened at the lightest desk.
SubmitRefused(s) ==
  /\ Submits(s)
  /\ LET t == board.hand[s]
         flagged == [board EXCEPT !.tickets[t].done = FALSE]
         extra == IF Backlog(board) = {} THEN flagged ELSE Forced(flagged, Min(Backlog(board)))
     IN \/ phase' = "over" /\ board' = flagged
        \/ phase' = "play" /\ board' = [extra EXCEPT !.asked[s] = Ask("rejected", t)]

\* followupTicket(): accepted as it is, with a customer's bug for each flag.
Followup(s) ==
  /\ Acts(s, "rejected")
  /\ \E ids \in NextIds(board) :
       board' = [Arrived(board, [t \in ids |-> "bug"]) EXCEPT
                   !.asked[s] = Ask("accepted", board.asked[s].ticket)]
  /\ UNCHANGED phase

Hire(s) ==
  /\ Acts(s, "nothing")
  /\ ~board.hired /\ HasRoom
  /\ board' = [board EXCEPT !.hired = TRUE]
  /\ UNCHANGED phase

\* recordIncident(): a hotfix on a desk, patience lost, perhaps a question.
Incident(b) ==
  /\ Unused(b) # {}
  /\ board' = WithForced(b)
  /\ phase' \in IF phase = "play" THEN {"play", "event", "over"} ELSE {phase, "over"}

\* acquire(): its team needs no seat, and the large ones break something.
Acquire(s) ==
  /\ Acts(s, "nothing")
  /\ LET bought == [board EXCEPT !.hired = TRUE]
     IN \/ board' = bought /\ UNCHANGED phase
        \/ Incident(bought)

-----------------------------------------------------------------------------
(* Answers of the lead seat to what the company is asked                     *)

Answers(question) ==
  /\ Idle /\ phase = question /\ board.seats # {}
  /\ SameRound /\ UNCHANGED next

AnswerEvent ==
  /\ Answers("event")
  /\ \/ board' = board /\ phase' \in {"play", "over"}
     \/ /\ Unused(board) # {}
        /\ board' = Arrived(board, OneOf(board, "bug")) /\ phase' = "play"
     \/ /\ Unused(board) # {}   \* a deal: the work starts now, in the lead's hand
        /\ board' = Given(Arrived(board, OneOf(board, "vip")), Min(Unused(board)), LeadSeat(board))
        /\ phase' = "play"
     \/ board.hired /\ board' = Released(board) /\ phase' = "play"
  /\ Parts(board')

\* chooseRelic(): a developer, a ticket, an empty backlog, or what is not modelled.
Bonuses ==
  {board}
  \cup (IF HasRoom THEN {[board EXCEPT !.hired = TRUE]} ELSE {})
  \cup {Cancelled(board, Backlog(board))}
  \cup (IF Unused(board) = {} THEN {} ELSE {Arrived(board, OneOf(board, "vip"))})

\* startNextSprint(): offers expire, the team picks up, what has waited too
\* long is forced, oldest first, and each may be the last straw; work arrives.
OpenSprint(b) ==
  \E gone \in SUBSET {t \in Backlog(b) : b.tickets[t].kind \in {"feature", "vip"}},
     old \in Ids \cup {NoId} :
    LET staffed == Pulled(Cancelled(b, gone))
        stale == {t \in Backlog(staffed) :
                    t <= old /\ staffed.tickets[t].kind \in ForcedWhenStale}
    IN board' \in Arrivals(ForcedAll(staffed, stale))

ChooseRelic ==
  /\ Answers("relic")
  /\ \E b \in Bonuses : OpenSprint(b)
  /\ phase' \in {"play", "event", "over"}
  /\ UNCHANGED parted

-----------------------------------------------------------------------------
(* A round: every seat plays, in seat order                                  *)

\* From here on it is a round.
InRound ==
  \/ at = "round"
  \/ Idle /\ phase = "play" /\ board.seats # {}

\* The seats before s that had not played have done nothing: they missed the
\* round, passed, rested, were skipped, read a diff, hacked or failed to fix.
Waiting == IF Idle THEN board.seats ELSE todo
Turn(s) == InRound /\ s \in Waiting
Played(s) ==
  /\ at' = IF phase' = "over" THEN "idle" ELSE "round"
  /\ todo' = IF phase' = "over" THEN {} ELSE {r \in Waiting : r > s}
  /\ UNCHANGED <<next, queue, burnt, parted>>
Acted(s) == UNCHANGED phase /\ Played(s)

\* Patience runs out, or a hack ends the run.
RunEnds ==
  /\ InRound
  /\ phase' = "over" /\ at' = "idle" /\ todo' = {}
  /\ UNCHANGED <<board, next, queue, burnt, parted>>

\* The rules throw: nothing of the round is kept.
Throws == at' = "thrown" /\ UNCHANGED <<board, next, phase, todo, queue, burnt, parted>>

Commit(s) ==
  /\ Turn(s) /\ IsAsked(s, "nothing") /\ InHand(s)
  /\ board' \in WrittenOrSpawned(board, board.hand[s])
  /\ Acted(s)

\* resumeTicket(), and a fix of the ticket in hand.
Resume(s) ==
  /\ Turn(s) /\ IsAsked(s, "rejected")
  /\ IF InHand(s)
     THEN /\ board' \in Written([board EXCEPT !.asked[s] = Nothing], board.hand[s])
          /\ Acted(s)
     ELSE Throws

MergeObstacle(s) ==
  /\ Turn(s) /\ IsAsked(s, "nothing") /\ InHand(s)
  /\ board.tickets[board.hand[s]].parent # NoId
  /\ IsReady(board, board.hand[s])
  /\ IF HasWhereToLand(board, board.hand[s])
     THEN board' = ObstacleLanded(board, board.hand[s]) /\ Acted(s)
     ELSE Throws

Merge(s) ==
  /\ Turn(s) /\ IsAsked(s, "accepted")
  /\ \/ board' \in LandedFor(board, s)
     \/ board' = [board EXCEPT !.asked[s] = Ask("conflict", board.asked[s].ticket)]
  /\ Acted(s)

ResolveConflict(s) ==
  /\ Turn(s) /\ IsAsked(s, "conflict")
  /\ board' \in LandedFor(board, s)
  /\ Acted(s)

HackBreaks(s) ==
  /\ Turn(s) /\ IsAsked(s, "nothing")
  /\ Incident(board)
  /\ Played(s)

-----------------------------------------------------------------------------
(* The end of the turn (endTurn), for the whole company                      *)

\* A run that is over is left as it is.
Goes(from, to) ==
  /\ at = from
  /\ at' = IF phase' = "over" THEN "idle" ELSE to
  /\ burnt' = IF at' = "idle" THEN {} ELSE burnt
  /\ UNCHANGED <<next, todo>>

\* checkExplosion(), then workTeam(): the developer works on what is held after
\* the pull.
SeatsArePlayed ==
  /\ InRound
  /\ \E b \in {board} \cup IF Unused(board) = {} THEN {} ELSE {WithForced(board)} :
       board' = Pulled(b)
  /\ queue' = Team(board')
  /\ at' = "team" /\ todo' = {}
  /\ UNCHANGED <<next, phase, burnt, parted>>

\* Obstacles come first.
IsNext(t) == board.tickets[t].parent # NoId \/ \A o \in queue : board.tickets[o].parent = NoId

\* The team's merge has no acting seat: the lead's hand is settled.
TeamLanded(b, t) ==
  IF b.tickets[t].parent # NoId THEN {ObstacleLanded(b, t)} ELSE Landed(b, t, LeadSeat(b))
TeamWorks ==
  /\ at = "team"
  /\ \E t \in queue :
       /\ IsNext(t)
       /\ queue' = queue \ {t}
       /\ \E b \in IF board.tickets[t].done THEN {board} ELSE WrittenOrSpawned(board, t) :
            IF IsReady(b, t) THEN board' \in TeamLanded(b, t) ELSE board' = b
  /\ UNCHANGED <<next, phase, at, todo, burnt, parted>>

\* Those at zero for too long leave, in seat order, unless the run is over.  Then
\* the release ships if nothing is left on the board.
TurnEnds(b, p) ==
  /\ \E gone \in IF p = "over" THEN {{}} ELSE SUBSET b.seats :
       board' = BurntOut(b, gone)
  /\ phase' = IF board'.seats = {} THEN "over" ELSE p
  /\ at' = IF phase' = "play" /\ BoardIsEmpty(board') THEN "shipEarly" ELSE "idle"
  /\ burnt' = IF at' = "idle" THEN {} ELSE b.seats \ board'.seats
  /\ Parts(board')
  /\ UNCHANGED <<next, todo, queue>>

\* closeMonth(): outages, a developer unpaid.
Months(b) == {b} \cup IF b.hired THEN {Released(b)} ELSE {}

\* The team has worked.  The turn ends a month, and perhaps asks a question, or
\* the sprint (dated work that nobody started goes), or neither.
TeamIsDone == at = "team" /\ queue = {}
Payday ==
  /\ TeamIsDone
  /\ \E b \in Months(board), p \in {phase, "over"} \cup IF phase = "play" THEN {"event"} ELSE {} :
       TurnEnds(b, p)
BoxGoesOn == TeamIsDone /\ TurnEnds(board, phase)
BoxEnds ==
  /\ TeamIsDone
  /\ \E gone \in SUBSET {t \in Backlog(board) : board.tickets[t].kind \in Dated} :
       board' = Cancelled(board, gone)
  /\ phase' \in {phase, "over"}
  /\ UNCHANGED <<queue, parted>>
  /\ Goes("team", "ship")

\* endSprint(), up to its verdict: bugs found, months due.
Shipping == at \in {"ship", "shipEarly"}
ShipBugs == Shipping /\ Incident(board) /\ UNCHANGED <<queue, parted>> /\ Goes(at, at)
MonthsDue ==
  /\ Shipping
  /\ board' \in Months(board)
  /\ phase' \in {phase, "over"}
  /\ Parts(board')
  /\ UNCHANGED queue
  /\ Goes(at, at)

\* The verdict, and a bonus to choose.
Ship == at = "ship" /\ \E p \in {"relic", "over"} : TurnEnds(board, p)
ShipEarly ==
  /\ phase' \in {"relic", "over"}
  /\ UNCHANGED <<board, queue, parted>>
  /\ Goes("shipEarly", "idle")

-----------------------------------------------------------------------------
BetweenRounds ==
  \/ JoinCrew \/ LeaveCrew \/ AnswerEvent \/ ChooseRelic
  \/ \E s \in Seats :
       Start(s) \/ Checkout(s) \/ SubmitAccepted(s) \/ SubmitRefused(s) \/ Followup(s)
       \/ Hire(s) \/ Acquire(s)

SeatsPlay ==
  \/ RunEnds
  \/ \E s \in Seats :
       Commit(s) \/ Resume(s) \/ MergeObstacle(s) \/ Merge(s) \/ ResolveConflict(s)
       \/ HackBreaks(s)

EndOfTurn ==
  \/ SeatsArePlayed \/ TeamWorks \/ Payday \/ BoxGoesOn \/ BoxEnds \/ ShipBugs \/ MonthsDue
  \/ Ship \/ ShipEarly

DesksNext == BetweenRounds \/ SeatsPlay \/ EndOfTurn

DesksSpec == DesksInit /\ [][DesksNext]_deskVars

-----------------------------------------------------------------------------
(* What must hold                                                            *)

\* Work is never left on the desk of somebody who has gone: while a human is
\* there, an open ticket is a hired developer's or is held by an occupied seat
\* (crew.ts leaveSeat, team.ts releaseDev).
WorkIsHeld ==
  board.seats # {} =>
    \A t \in Open(board) :
      IF board.tickets[t].team THEN board.hired ELSE Holder(board, t) \in board.seats

\* A ticket and its obstacle are in the same hands, what is in a seat's hand is
\* on its desk, no desk with work on it has an empty hand, and a seat is asked
\* about work of its own, open, with nothing in its way.
HandsAgree ==
  /\ ~Split(board)
  /\ \A s \in board.seats :
       /\ IF Desk(board, s) = {} THEN board.hand[s] = NoId ELSE board.hand[s] \in Desk(board, s)
       /\ LET t == board.asked[s].ticket
          IN t # NoId => t \in Desk(board, s) /\ Obstacles(board, t) = {}

\* The hands of the company agree with its desks, until a departure hands a
\* ticket and its obstacle to two people: from there on the two go their ways
\* (crew.ts leaveSeat routes them one by one).
DesksAgree == WorkIsHeld /\ (~parted => HandsAgree)

\* "A merge is the end of a ticket": none is delivered twice, and a round never
\* throws for a parent that is gone (write.ts completeMerge, completeObstacle),
\* with the same restriction.
LandsOnce == ~parted => at # "thrown" /\ \A t \in Ids : board.tickets[t].landed <= 1

\* Whoever goes, hired or human, their work spreads over the lightest desks:
\* none that receives a ticket ends up more than one ahead of another.
Goner == board'.seats # board.seats \/ (board.hired /\ ~board'.hired)
LightestDesk ==
  [][(Goner /\ board.seats \cap board'.seats = board'.seats) =>
       \A s, r \in board'.seats :
         (\E t \in Desk(board', s) \ Desk(board, s) : TRUE) =>
           Load(board', s) <= Load(board', r) + 1]_deskVars

\* Seen from the realtime world, a round is one step and the burnt out leave
\* with it: the company is the one CrewEngine describes.
Seen ==
  [phase |-> IF at = "idle" THEN phase ELSE "play", seats |-> board.seats \cup burnt,
   next |-> next]
Engine == INSTANCE Crew WITH engine <- Seen
EngineIsACrew == Engine!CrewSpec
=============================================================================
