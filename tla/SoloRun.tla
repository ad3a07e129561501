------------------------------- MODULE SoloRun -------------------------------
(***************************************************************************)
(* One run of the rules engine, played alone (rules/reducer.ts): the       *)
(* questions it asks, the tickets of the board and who holds them, the     *)
(* turns and paydays of a sprint, production's patience.                   *)
(*                                                                         *)
(* `applyAction` is one call in the code.  Here it is the player's step    *)
(* and then the engine's, one per rule it goes through, in the order of    *)
(* the calls: `step` says which rule is next, and the player moves again   *)
(* only at "idle", so that what a player sees is a state where step is     *)
(* "idle".  What is drawn or measured (dice, points, energy, money, debt)  *)
(* is a choice; what is left of it is whether a ticket is full, flagged by *)
(* the review, held by a developer, and how full the gauge is.             *)
(***************************************************************************)
EXTENDS Naturals, FiniteSets

CONSTANTS
  Devs, Capacity,                   \* developers to hire, tickets each may hold
  Turns, MonthTurns, ExtraTurns,    \* the box, a month of it, what a bonus adds
  Drawn,                            \* kinds of ticket a sprint may bring, by tier
  Grace, QualityMax, HackAt, MaxObstacles,  \* of the balance
  NoDev, MaxTickets, MaxSprints     \* bounds: tickets on the board at once, sprints

ASSUME RunDevs == IsFiniteSet(Devs) /\ NoDev \notin Devs /\ Capacity \in Nat
ASSUME RunBox ==
  /\ {Turns, MonthTurns} \subseteq Nat \ {0}
  /\ Turns % MonthTurns = 0
  /\ ExtraTurns \in 0..MonthTurns
ASSUME RunGauge == QualityMax \in Nat \ {0} /\ {Grace, HackAt, MaxObstacles} \subseteq Nat
ASSUME RunDrawn == Drawn \subseteq {"feature", "client_bug", "vip", "debt"}
ASSUME RunBounds == {MaxTickets, MaxSprints} \subseteq Nat \ {0}

Ids == 1..MaxTickets
NoId == 0
MonthsPerSprint == Turns \div MonthTurns

\* The kinds of work, by what the rules ask of them.
Kinds == {"feature", "vip", "client_bug", "debt", "hotfix", "refactor", "obstacle"}
TeamTakes == {"feature", "client_bug"}
ForcedWhenStale == {"feature", "client_bug"}
Dated == {"client_bug", "vip"}
SpawnsObstacles == {"feature", "vip"}
MayGrantSkill == {"feature", "vip"}

VARIABLES
  tickets,       \* the board; an id is free again once its ticket is gone
  hand,          \* the ticket being written, or NoId
  team,          \* developers hired
  phase,         \* what the player is asked, and about which ticket
  step,          \* the rule the engine is at, "idle" between two actions
  queue,         \* tickets the team has still to work on this turn
  passing,       \* does this turn pass by itself?
  sprint, sprintTurn, sprintMonths, extraTurns,
  shipped,       \* has the player landed work the release may find a bug in?
  delivered,     \* has the player landed a ticket this sprint?
  marred,        \* did the sprint have an incident, or force a ticket?
  hacked,        \* has the player tried a hack this sprint?
  quality        \* production's impatience

boardVars == <<tickets, hand, team>>
boxVars == <<sprint, sprintTurn, sprintMonths, extraTurns>>
tallyVars == <<shipped, delivered, marred, hacked>>
turnVars == <<queue, passing>>
soloVars == <<boardVars, phase, step, turnVars, boxVars, tallyVars, quality>>

Steps ==
  {"idle", "settle", "turn", "pull", "work", "clock", "payday", "box", "deadlines",
   "objective", "bugs", "months", "opening", "staff", "stale", "arrive", "more"}

\* What is asked about a ticket, and what is asked about the run.
TicketQuestions == {"pr_accepted", "ticket_rejected", "resolve_conflict"}
Questions == TicketQuestions \cup {"choose_action", "choose_relic", "event", "game_over"}

Ask(kind, t) == [kind |-> kind, ticket |-> t]
Ordinary == Ask("choose_action", NoId)
GameOver == Ask("game_over", NoId)

NoTicket ==
  [kind |-> "none", status |-> "none", parent |-> NoId, dev |-> NoDev,
   full |-> FALSE, flagged |-> FALSE, spawned |-> 0, arrived |-> 0]

Ticket ==
  [kind : Kinds \cup {"none"}, status : {"none", "backlog", "open"},
   parent : Ids \cup {NoId}, dev : Devs \cup {NoDev}, full : BOOLEAN,
   flagged : BOOLEAN, spawned : 0..MaxObstacles, arrived : 0..MaxSprints]

SoloTypeOK ==
  /\ tickets \in [Ids -> Ticket]
  /\ hand \in Ids \cup {NoId}
  /\ team \subseteq Devs
  /\ phase \in [kind : Questions, ticket : Ids \cup {NoId}]
  /\ step \in Steps
  /\ queue \subseteq Ids
  /\ {passing, shipped, delivered, marred, hacked} \subseteq BOOLEAN
  /\ sprint \in 1..MaxSprints
  /\ sprintTurn \in 0..(Turns + ExtraTurns)
  /\ sprintMonths \in 0..MonthsPerSprint
  /\ extraTurns \in {0, ExtraTurns}
  /\ quality \in 0..QualityMax

\* createRun() up to the tickets of the first sprint, which the engine draws.
SoloInit ==
  /\ tickets = [t \in Ids |-> NoTicket]
  /\ hand = NoId
  /\ team = {}
  /\ phase = Ordinary
  /\ step = "arrive"
  /\ queue = {}
  /\ passing = FALSE
  /\ sprint = 1
  /\ sprintTurn = 0
  /\ sprintMonths = 0
  /\ extraTurns = 0
  /\ shipped = FALSE
  /\ delivered = FALSE
  /\ marred = FALSE
  /\ hacked = FALSE
  /\ quality = 0

-----------------------------------------------------------------------------
(* The board *)

Open(ts) == {t \in Ids : ts[t].status = "open"}
Backlog(ts) == {t \in Ids : ts[t].status = "backlog"}
Mine(ts) == {t \in Open(ts) : ts[t].dev = NoDev}
HeldBy(ts, d) == {t \in Open(ts) : ts[t].dev = d}
Obstacles(ts, t) == {o \in Open(ts) : ts[o].parent = t}

\* Room on the board for one more ticket: a bound of the model.
Free == {t \in Ids : tickets[t].status = "none"}
NewId == CHOOSE t \in Free : \A u \in Free : t <= u

\* The ids new tickets take, however many: the lowest of those that are free.
NewIds == {ids \in SUBSET Free : ids # {} /\ \A t \in ids, u \in Free \ ids : t < u}
Arrived(ts, ids, kind) ==
  [t \in Ids |->
     IF t \in ids
     THEN [NoTicket EXCEPT !.kind = kind, !.status = "backlog", !.arrived = sprint]
     ELSE ts[t]]

\* Opened in the player's name: nothing forced ever enters a hand that is full.
Opened(ts, t) == [ts EXCEPT ![t].status = "open", ![t].arrived = 0]
HandIfFree(t) == IF hand = NoId THEN t ELSE hand

\* forceTicket(): a hotfix or a refactor, open from birth.
Forced(ts, kind) ==
  [ts EXCEPT ![NewId] = [NoTicket EXCEPT !.kind = kind, !.status = "open"]]

\* spawnObstacle(): open, in the hands of whoever writes the feature.
CanSpawn(ts, t) ==
  /\ ts[t].kind \in SpawnsObstacles
  /\ Obstacles(ts, t) = {}
  /\ ts[t].spawned < MaxObstacles
  /\ Free # {}
WithObstacle(ts, t) ==
  [ts EXCEPT ![t].spawned = @ + 1,
             ![NewId] = [NoTicket EXCEPT !.kind = "obstacle", !.status = "open",
                                         !.parent = t, !.dev = ts[t].dev]]

IsReady(ts, t) == ts[t].full /\ ~ts[t].flagged /\ Obstacles(ts, t) = {}

\* Tickets that leave the board, delivered or cancelled.
Without(ts, gone) == [t \in Ids |-> IF t \in gone THEN NoTicket ELSE ts[t]]

\* A customer's bug that lands may be the follow-up of a flagged commit, shipped
\* or on a ticket a conflict sent back: the flag goes with it.
Landed(ts, t) ==
  LET sentBack == {u \in Open(ts) \ {t} : ts[u].full /\ ts[u].flagged}
      repaired == IF ts[t].kind = "client_bug" THEN sentBack ELSE {}
  IN {Without(ts, {t})} \cup {[Without(ts, {t}) EXCEPT ![u].flagged = FALSE] : u \in repaired}

\* settleCurrent(): the ticket in hand while it is open, else another of mine.
Settled(ts) ==
  IF hand \in Open(ts) THEN {hand} ELSE IF Mine(ts) = {} THEN {NoId} ELSE Mine(ts)

\* releaseDev(): what they held is mine now.
Release(gone) ==
  /\ team' = team \ gone
  /\ tickets' = [t \in Ids |->
       IF tickets[t].dev \in gone THEN [tickets[t] EXCEPT !.dev = NoDev] ELSE tickets[t]]
  /\ hand' \in Settled(tickets')

-----------------------------------------------------------------------------
(* The gauge, the questions of the run *)

\* maybeNarrative(): in an ordinary turn, from the second sprint on.
MayAsk ==
  IF phase = Ordinary /\ sprint > 1 THEN {phase, Ask("event", NoId)} ELSE {phase}

\* raiseQuality() by n, and gameOver() when the gauge is full, the engine being
\* then at `ended`; else it is at `next`, with one of these questions.
SufferThen(n, questions, next, ended) ==
  IF quality + n >= QualityMax
  THEN quality' = QualityMax /\ phase' = GameOver /\ step' = ended
  ELSE quality' = quality + n /\ phase' \in questions /\ step' = next
Suffer(n, questions, next) == SufferThen(n, questions, next, "settle")

\* lowerQuality()
Eased == IF quality = 0 THEN 0 ELSE quality - 1

\* (Mutant) What follows an incident does not look whether the run is over.
Incident_Unchecked(next) ==
  /\ Free # {}
  /\ tickets' = Forced(tickets, "hotfix")
  /\ hand' = HandIfFree(NewId)
  /\ marred' = TRUE
  /\ SufferThen(1, MayAsk, next, next)

\* recordIncident(): a hotfix on the board, patience lost, perhaps a question.
Incident(next) ==
  /\ Free # {}
  /\ tickets' = Forced(tickets, "hotfix")
  /\ hand' = HandIfFree(NewId)
  /\ marred' = TRUE
  /\ Suffer(1, MayAsk, next)

\* closeMonth(): revenue, perhaps of a new tier, outages, unpaid departures.
CloseMonth(next) ==
  /\ sprintMonths' = sprintMonths + 1
  /\ \E gone \in SUBSET team : Release(gone)
  /\ \E outage \in 0..1 : Suffer(outage, MayAsk, next)
  /\ UNCHANGED <<turnVars, sprint, sprintTurn, extraTurns, tallyVars>>

-----------------------------------------------------------------------------
(* The player's actions.  A free one leaves the engine at "settle", one that *)
(* takes the turn at "turn".                                                 *)

Asked(kind) == step = "idle" /\ phase.kind = kind
Acts == Asked("choose_action")
InHand == Acts /\ hand # NoId

IsFree == step' = "settle" /\ UNCHANGED turnVars
TakesTurn == step' = "turn" /\ UNCHANGED turnVars
\* A turn that costs patience: it may be the last.
TakesTurnAndPatience(n) == Suffer(n, {Ordinary}, "turn") /\ UNCHANGED turnVars
SameRun == UNCHANGED <<boxVars, tallyVars>>
SamePatience == UNCHANGED <<phase, quality>>

StartTicket ==
  /\ Acts
  /\ \E t \in Backlog(tickets) : tickets' = Opened(tickets, t) /\ hand' = t
  /\ IsFree /\ SameRun /\ SamePatience /\ UNCHANGED team

Checkout ==
  /\ Acts
  /\ hand' \in Mine(tickets) \ {hand}
  /\ IsFree /\ SameRun /\ SamePatience /\ UNCHANGED <<tickets, team>>

\* A commit may be broken, fill the ticket or not.
Written(t) == {tickets, [tickets EXCEPT ![t].full = TRUE]}
\* A fix that goes through redoes one flagged commit, perhaps the last of them.
Fixed(t) == {[ts EXCEPT ![t].flagged = f] : ts \in Written(t), f \in BOOLEAN}

Commit ==
  /\ InHand
  /\ \E ts \in Written(hand) :
       \/ tickets' = ts /\ UNCHANGED hand
       \/ CanSpawn(ts, hand) /\ tickets' = WithObstacle(ts, hand) /\ hand' = NewId
  /\ TakesTurn /\ SameRun /\ SamePatience /\ UNCHANGED team

Fix ==
  /\ InHand
  /\ tickets[hand].flagged
  /\ tickets' \in Fixed(hand)
  /\ TakesTurn /\ SameRun /\ SamePatience /\ UNCHANGED <<hand, team>>

Review == InHand /\ TakesTurn /\ SameRun /\ SamePatience /\ UNCHANGED boardVars

Rest == Acts /\ TakesTurnAndPatience(1) /\ SameRun /\ UNCHANGED boardVars

Submits == InHand /\ IsReady(tickets, hand) /\ tickets[hand].parent = NoId

SubmitAccepted ==
  /\ Submits
  /\ phase' = Ask("pr_accepted", hand)
  /\ IsFree /\ SameRun /\ UNCHANGED <<boardVars, quality>>

\* The refused ticket has more points to fill, and another one is opened beside
\* it, unless the refusal was the end of the run.
SubmitRefused ==
  /\ Submits
  /\ \E blame \in 0..1 : Suffer(blame, {Ask("ticket_rejected", hand)}, "settle")
  /\ LET flagged == [tickets EXCEPT ![hand].flagged = TRUE]
         refused == [flagged EXCEPT ![hand].full = FALSE]
     IN IF phase' = GameOver THEN tickets' = flagged
        ELSE IF Backlog(tickets) = {} THEN tickets' = refused
        ELSE \E t \in Backlog(tickets) : tickets' = Opened(refused, t)
  /\ UNCHANGED <<hand, team, turnVars>> /\ SameRun

MergeObstacle ==
  /\ InHand
  /\ IsReady(tickets, hand)
  /\ tickets[hand].parent # NoId
  /\ tickets' = Without(tickets, {hand})
  /\ hand' = tickets[hand].parent
  /\ TakesTurn /\ SameRun /\ SamePatience /\ UNCHANGED team

\* hireDev(), and acquire() when nothing breaks.
Hire ==
  /\ Acts
  /\ \E ds \in SUBSET (Devs \ team) \ {{}} : team' = team \cup ds
  /\ IsFree /\ SameRun /\ SamePatience /\ UNCHANGED <<tickets, hand>>

AcquireAndBreak ==
  /\ Acts
  /\ \E ds \in SUBSET (Devs \ team) : team' = team \cup ds
  /\ Incident("settle")
  /\ UNCHANGED <<turnVars, boxVars, shipped, delivered, hacked>>

\* performHack(): with the gauge nearly full it is won or it ends the run.
Hacks == Acts /\ ~hacked /\ hacked' = TRUE
HackWon ==
  /\ Hacks
  /\ quality' = IF quality >= HackAt THEN Eased ELSE quality
  /\ TakesTurn /\ UNCHANGED <<boardVars, phase, boxVars, shipped, delivered, marred>>
HackCaught ==
  /\ Hacks /\ quality >= HackAt
  /\ phase' = GameOver
  /\ IsFree /\ UNCHANGED <<boardVars, boxVars, shipped, delivered, marred, quality>>
HackBroke ==
  /\ Hacks /\ quality < HackAt
  /\ Incident("turn")
  /\ UNCHANGED <<team, turnVars, boxVars, shipped, delivered>>

-----------------------------------------------------------------------------
(* The answers to what the rules ask.                                        *)

\* completeMerge() by the player: what they wrote has shipped.
Lands(t) ==
  /\ tickets' \in Landed(tickets, t)
  /\ hand' \in Settled(tickets')
  /\ delivered' = TRUE
  /\ quality' \in IF tickets[t].kind = "client_bug" THEN {quality, Eased} ELSE {quality}
  /\ phase' = Ordinary
  /\ TakesTurn /\ UNCHANGED <<team, boxVars, marred, hacked>>

MergeTicket ==
  /\ Asked("pr_accepted")
  /\ Lands(phase.ticket)
  /\ shipped' = (shipped \/ tickets[phase.ticket].kind # "hotfix")

MergeConflicts ==
  /\ Asked("pr_accepted")
  /\ phase' = Ask("resolve_conflict", phase.ticket)
  /\ IsFree /\ SameRun /\ UNCHANGED <<boardVars, quality>>

ResolveFails ==
  /\ Asked("resolve_conflict")
  /\ TakesTurn /\ SameRun /\ SamePatience /\ UNCHANGED boardVars

\* By hand, or by the machine: it always works, and may leave a bug.
ResolveLands ==
  /\ Asked("resolve_conflict")
  /\ Lands(phase.ticket)
  /\ \E ai \in BOOLEAN : shipped' = (shipped \/ ai \/ tickets[phase.ticket].kind # "hotfix")

\* resumeTicket(), and the first fix of the ticket in hand.
Resume ==
  /\ Asked("ticket_rejected")
  /\ phase' = Ordinary
  /\ tickets' \in Fixed(hand)
  /\ TakesTurn /\ SameRun /\ UNCHANGED <<hand, team, quality>>

\* followupTicket(): shipped as it is, with a customer's bug for each bug.
Followup ==
  /\ Asked("ticket_rejected")
  /\ \E ids \in NewIds :
       tickets' = [Arrived(tickets, ids, "client_bug") EXCEPT ![phase.ticket].full = TRUE]
  /\ phase' = Ask("pr_accepted", phase.ticket)
  /\ IsFree /\ SameRun /\ UNCHANGED <<hand, team, quality>>

\* answerEvent(): patience, a ticket, a ticket in hand, a departure.
Answered == Asked("event") /\ UNCHANGED turnVars /\ SameRun
AnswerPatience ==
  /\ Answered
  /\ \/ \E n \in 0..1 : Suffer(n, {Ordinary}, "settle")
     \/ quality' = Eased /\ phase' = Ordinary /\ step' = "settle"
  /\ UNCHANGED boardVars
AnswerBug ==
  /\ Answered /\ Free # {}
  /\ tickets' = Arrived(tickets, {NewId}, "client_bug")
  /\ phase' = Ordinary /\ step' = "settle" /\ UNCHANGED <<hand, team, quality>>
AnswerDeal ==
  /\ Answered /\ Free # {}
  /\ tickets' = Opened(Arrived(tickets, {NewId}, "vip"), NewId)
  /\ hand' = NewId
  /\ phase' = Ordinary /\ step' = "settle" /\ UNCHANGED <<team, quality>>
AnswerDeparture ==
  /\ Answered
  /\ \E d \in team : Release({d})
  /\ phase' = Ordinary /\ step' = "settle" /\ UNCHANGED quality

\* chooseRelic(): some of what a bonus brings.
Boost ==
  \/ UNCHANGED <<tickets, team, quality, extraTurns>>
  \/ extraTurns' = ExtraTurns /\ UNCHANGED <<tickets, team, quality>>
  \/ \E d \in Devs \ team : team' = team \cup {d} /\ UNCHANGED <<tickets, quality, extraTurns>>
  \/ tickets' = Without(tickets, Backlog(tickets)) /\ UNCHANGED <<team, quality, extraTurns>>
  \/ Free # {} /\ tickets' = Arrived(tickets, {NewId}, "vip")
     /\ UNCHANGED <<team, quality, extraTurns>>
  \/ quality' = Eased /\ UNCHANGED <<tickets, team, extraTurns>>

\* chooseRelic(), and startNextSprint() up to the board of the new sprint.
ChooseRelic ==
  /\ Asked("choose_relic")
  /\ sprint < MaxSprints
  /\ Boost
  /\ sprint' = sprint + 1 /\ sprintTurn' = 0 /\ sprintMonths' = 0
  /\ delivered' = FALSE /\ marred' = FALSE /\ hacked' = FALSE
  /\ phase' = Ordinary
  /\ step' = "opening"
  /\ UNCHANGED <<hand, turnVars, shipped>>

-----------------------------------------------------------------------------
(* The engine: the loop at the end of applyAction().                         *)

At(rule) == step = rule
Over == phase = GameOver
GoesTo(rule) == step' = rule /\ UNCHANGED <<phase, quality>>
BoardIsEmpty == Open(tickets) \cup Backlog(tickets) = {}
NothingToDo == Mine(tickets) \cup Backlog(tickets) = {}

\* The player is asked, or has something to do.
Hands ==
  /\ At("settle")
  /\ phase = Ordinary => ~NothingToDo
  /\ passing' = FALSE
  /\ GoesTo("idle")
  /\ SameRun /\ UNCHANGED <<boardVars, queue>>

\* Nothing to do while the team works: the turn passes by itself.
TurnPasses ==
  /\ At("settle") /\ phase = Ordinary /\ NothingToDo /\ ~BoardIsEmpty
  /\ passing' = TRUE
  /\ GoesTo("turn")
  /\ SameRun /\ UNCHANGED <<boardVars, queue>>

\* endSprint() is entered here and in BoxEnds: the turns of a bonus are over.
EndsSprint ==
  /\ extraTurns' = 0
  /\ GoesTo("deadlines")
  /\ UNCHANGED <<boardVars, turnVars, sprint, sprintTurn, sprintMonths, tallyVars>>
ShipsEarly ==
  /\ At("settle") /\ phase = Ordinary /\ BoardIsEmpty
  /\ EndsSprint

(* endTurn() *)

\* checkExplosion(): one refactor at a time.
Explodes ==
  /\ At("turn")
  /\ \A t \in Open(tickets) : tickets[t].kind # "refactor"
  /\ Free # {}
  /\ tickets' = Forced(tickets, "refactor")
  /\ hand' = HandIfFree(NewId)
  /\ GoesTo("pull") /\ SameRun /\ UNCHANGED <<team, turnVars>>
Holds ==
  /\ At("turn")
  /\ GoesTo("pull") /\ SameRun /\ UNCHANGED <<boardVars, turnVars>>

\* pullTeam(): a developer with a free hand takes what is waiting.
CanTake(d, t) ==
  /\ t \in Backlog(tickets)
  /\ tickets[t].kind \in TeamTakes
  /\ Cardinality(HeldBy(tickets, d)) < Capacity
Takes ==
  /\ step \in {"pull", "staff"}
  /\ \E d \in team, t \in Ids :
       /\ CanTake(d, t)
       /\ tickets' = [tickets EXCEPT ![t].status = "open", ![t].dev = d, ![t].arrived = 0]
  /\ SameRun /\ SamePatience /\ UNCHANGED <<hand, team, turnVars, step>>
NoneTakes == \A d \in team, t \in Ids : ~CanTake(d, t)
StartsWork ==
  /\ At("pull") /\ NoneTakes
  /\ queue' = {t \in Open(tickets) : tickets[t].dev \in team}
  /\ GoesTo("work") /\ SameRun /\ UNCHANGED <<boardVars, passing>>

\* workTeam(), one ticket: points if there is budget left for it, an obstacle
\* perhaps, and it lands when it is full.  Of what a developer holds, obstacles
\* come first.
IsNext(t) ==
  \/ tickets[t].parent # NoId
  \/ \A o \in queue : tickets[o].dev = tickets[t].dev => tickets[o].parent = NoId
WrittenByTeam(t) ==
  LET full == [tickets EXCEPT ![t].full = TRUE]
  IN {tickets, full} \cup
     (IF tickets[t].full THEN {}
      ELSE {WithObstacle(ts, t) : ts \in {u \in {tickets, full} : CanSpawn(u, t)}})
\* (Mutant) A full ticket lands, whatever still stands on it.
MayLand_Blind(ts, t) == ts[t].full
MayLand(ts, t) == ts[t].full /\ Obstacles(ts, t) = {}
TeamWorks ==
  /\ At("work")
  /\ \E t \in queue :
       /\ IsNext(t)
       /\ \E ts \in WrittenByTeam(t) :
            IF MayLand(ts, t)
            THEN /\ tickets' \in Landed(ts, t)
                 /\ hand' \in Settled(tickets')
                 /\ quality' \in {quality} \cup
                      (IF tickets[t].kind = "client_bug" THEN {Eased} ELSE {})
            ELSE tickets' = ts /\ UNCHANGED <<hand, quality>>
       /\ queue' = queue \ {t}
  /\ SameRun /\ UNCHANGED <<team, phase, step, passing>>
TeamIsDone ==
  /\ At("work") /\ queue = {}
  /\ GoesTo("clock") /\ SameRun /\ UNCHANGED <<boardVars, turnVars>>

SprintTurns == Turns + extraTurns
\* (Mutant) The box's last turn pays too.
Clock_PaysAtTheEnd ==
  /\ At("clock")
  /\ sprintTurn' = sprintTurn + 1
  /\ GoesTo(IF sprintTurn' % MonthTurns = 0 /\ sprintTurn' <= SprintTurns
            THEN "payday" ELSE "box")
  /\ UNCHANGED <<boardVars, turnVars, sprint, sprintMonths, extraTurns, tallyVars>>
\* (Mutant) A turn that passed by itself is not counted.
Clock_OnlyPlayed ==
  /\ At("clock")
  /\ sprintTurn' = IF passing THEN sprintTurn ELSE sprintTurn + 1
  /\ GoesTo(IF ~passing /\ sprintTurn' % MonthTurns = 0 /\ sprintTurn' < SprintTurns
            THEN "payday" ELSE "box")
  /\ UNCHANGED <<boardVars, turnVars, sprint, sprintMonths, extraTurns, tallyVars>>
Clock ==
  /\ At("clock")
  /\ sprintTurn' = sprintTurn + 1
  /\ GoesTo(IF sprintTurn' % MonthTurns = 0 /\ sprintTurn' < SprintTurns
            THEN "payday" ELSE "box")
  /\ UNCHANGED <<boardVars, turnVars, sprint, sprintMonths, extraTurns, tallyVars>>

Payday == At("payday") /\ CloseMonth("box")

BoxEnds == At("box") /\ sprintTurn >= SprintTurns /\ EndsSprint
BurnsOut ==
  /\ At("box") /\ sprintTurn < SprintTurns /\ ~passing
  /\ phase' = GameOver
  /\ step' = "settle" /\ SameRun /\ UNCHANGED <<boardVars, turnVars, quality>>
TurnEnds ==
  /\ At("box") /\ sprintTurn < SprintTurns
  /\ GoesTo("settle") /\ SameRun /\ UNCHANGED <<boardVars, turnVars>>

(* endSprint() *)

\* settleDeadlines(): a dated ticket nobody started is gone.
DueNow == {t \in Backlog(tickets) : tickets[t].kind \in Dated}
DeadlineMissed ==
  /\ At("deadlines")
  /\ \E t \in DueNow :
       /\ tickets' = Without(tickets, {t})
       /\ IF tickets[t].kind = "client_bug"
          THEN Suffer(1, {phase}, "deadlines")
          ELSE GoesTo("deadlines")
  /\ SameRun /\ UNCHANGED <<hand, team, turnVars>>
DeadlinesSettled ==
  /\ At("deadlines") /\ DueNow = {}
  /\ GoesTo("objective") /\ SameRun /\ UNCHANGED <<boardVars, turnVars>>

\* settleObjective(); shipBugs() then takes what has shipped, once.
ObjectiveSettled ==
  /\ At("objective")
  /\ \E failed \in 0..1 : Suffer(failed, MayAsk, IF shipped THEN "bugs" ELSE "months")
  /\ shipped' = (shipped /\ phase' = GameOver)
  /\ UNCHANGED <<boardVars, turnVars, boxVars, delivered, marred, hacked>>

BugFound ==
  /\ At("bugs")
  /\ Incident("bugs")
  /\ UNCHANGED <<team, turnVars, boxVars, shipped, delivered, hacked>>
BugsRolled ==
  /\ At("bugs")
  /\ GoesTo("months") /\ SameRun /\ UNCHANGED <<boardVars, turnVars>>

MonthFallsDue ==
  /\ At("months") /\ sprintMonths < MonthsPerSprint
  /\ CloseMonth("months")

\* The sprint is judged, and a bonus offered in place of what was asked.
Verdict ==
  /\ At("months") /\ sprintMonths >= MonthsPerSprint
  /\ IF ~delivered
     THEN Suffer(1, {Ask("choose_relic", NoId)}, "settle")
     ELSE /\ quality' = IF marred THEN quality ELSE Eased
          /\ phase' = Ask("choose_relic", NoId)
          /\ step' = "settle"
  /\ SameRun /\ UNCHANGED <<boardVars, turnVars>>

(* startNextSprint() *)

\* expireSkillTickets(): any of those that may grant a skill.
SkillsExpire ==
  /\ At("opening")
  /\ \E gone \in SUBSET {t \in Backlog(tickets) : tickets[t].kind \in MayGrantSkill} :
       tickets' = Without(tickets, gone)
  /\ GoesTo("staff") /\ SameRun /\ UNCHANGED <<hand, team, turnVars>>
TeamIsStaffed ==
  /\ At("staff") /\ NoneTakes
  /\ GoesTo("stale") /\ SameRun /\ UNCHANGED <<boardVars, turnVars>>

\* assignStaleTickets(): patience first, then the ticket is opened.
Stale ==
  {t \in Backlog(tickets) :
     tickets[t].kind \in ForcedWhenStale /\ tickets[t].arrived + Grace < sprint}
StaleForced ==
  /\ At("stale")
  /\ SufferThen(1, {phase}, "stale", "arrive")
  /\ \E t \in Stale :
       IF phase' = GameOver
       THEN UNCHANGED <<tickets, hand>>
       ELSE tickets' = Opened(tickets, t) /\ hand' = HandIfFree(t)
  /\ marred' = TRUE
  /\ UNCHANGED <<team, turnVars, boxVars, shipped, delivered, hacked>>
NoneStale ==
  /\ At("stale") /\ Stale = {}
  /\ GoesTo("arrive") /\ SameRun /\ UNCHANGED <<boardVars, turnVars>>

\* arriveTickets(): a feature, and as many others as the sprint brings; then
\* maybeNarrative().  A full board takes no more: a bound of the model.
FeatureArrives ==
  /\ At("arrive")
  /\ tickets' = IF Free = {} THEN tickets ELSE Arrived(tickets, {NewId}, "feature")
  /\ GoesTo("more") /\ SameRun /\ UNCHANGED <<hand, team, turnVars>>
Arrives ==
  /\ At("more") /\ Free # {}
  /\ \E kind \in Drawn :
       tickets' = Arrived(tickets, {NewId}, kind)
  /\ SameRun /\ SamePatience /\ UNCHANGED <<hand, team, turnVars, step>>
SprintOpens ==
  /\ At("more")
  /\ phase' \in MayAsk
  /\ step' = "settle"
  /\ SameRun /\ UNCHANGED <<boardVars, turnVars, quality>>

Player ==
  \/ StartTicket \/ Checkout \/ Commit \/ Fix \/ Review \/ Rest
  \/ SubmitAccepted \/ SubmitRefused \/ MergeObstacle
  \/ Hire \/ AcquireAndBreak \/ HackWon \/ HackCaught \/ HackBroke
  \/ MergeTicket \/ MergeConflicts \/ ResolveFails \/ ResolveLands
  \/ Resume \/ Followup
  \/ AnswerPatience \/ AnswerBug \/ AnswerDeal \/ AnswerDeparture \/ ChooseRelic

Engine ==
  \/ Hands \/ TurnPasses \/ ShipsEarly
  \/ Explodes \/ Holds \/ Takes \/ StartsWork \/ TeamWorks \/ TeamIsDone
  \/ Clock \/ Payday \/ BoxEnds \/ BurnsOut \/ TurnEnds
  \/ DeadlineMissed \/ DeadlinesSettled \/ ObjectiveSettled
  \/ BugFound \/ BugsRolled \/ MonthFallsDue \/ Verdict
  \/ SkillsExpire \/ TeamIsStaffed \/ StaleForced \/ NoneStale
  \/ FeatureArrives \/ Arrives \/ SprintOpens

SoloNext == Player \/ Engine

\* The engine is one synchronous call: it is always carried through.
SoloSpec == SoloInit /\ [][SoloNext]_soloVars /\ WF_soloVars(Engine)

-----------------------------------------------------------------------------
(* Properties *)

\* What the player writes is one of their own open tickets, and they have one
\* in hand as soon as they hold any; a question about a ticket is about that
\* one.  (Resume writes in the hand, and the merge in the question's ticket.)
HandIsMine ==
  /\ hand \in Mine(tickets) \/ (hand = NoId /\ Mine(tickets) = {})
  /\ phase.kind \in TicketQuestions => phase.ticket = hand

\* An obstacle has a feature to land on, in the same hands, for as long as it
\* is open: nobody lands, cancels or is given the feature without it.
ObstaclesHoldTheirFeature ==
  \A o \in Open(tickets) :
    tickets[o].parent # NoId =>
      /\ tickets[o].parent \in Open(tickets)
      /\ tickets[tickets[o].parent].dev = tickets[o].dev

\* The board agrees with the hand, the question and the obstacles, whatever
\* rule moved a ticket: the team's landing, a payday, a departure, a deadline.
BoardAgrees == HandIsMine /\ ObstaclesHoldTheirFeature

\* A full gauge is the end of the run, whatever is asked afterwards.
FullGaugeEnds == quality = QualityMax => Over

\* Every sprint pays its months, each once: when the bonus is offered they have
\* all been closed, those of its box, of a longer one, and of an early release.
SprintPaysItsMonths == phase.kind = "choose_relic" => sprintMonths = MonthsPerSprint

\* A conflict is asked until it is resolved: a merge cannot be walked away from.
ConflictIsAnswered ==
  [][phase.kind = "resolve_conflict" =>
       \/ phase' = phase
       \/ phase'.kind = "game_over"
       \/ phase.ticket \notin Open(tickets')]_soloVars

\* Every action comes to an end, however many turns pass by themselves, and
\* hands the player a question or a board with something to do on it.
ActionsEnd ==
  (step # "idle") ~> (step = "idle" /\ (phase = Ordinary => ~NothingToDo))
=============================================================================
