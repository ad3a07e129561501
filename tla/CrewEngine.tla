----------------------------- MODULE CrewEngine -----------------------------
(***************************************************************************)
(* The rules engine of a company, as the realtime world sees it: who sits  *)
(* where, and what the run is waiting for.  Tickets, money, energy and the *)
(* dice are abstracted to the outcomes they allow, so each operator is the *)
(* set of states its entry of the log may lead to (dto/company.ts          *)
(* applyEntry, core/rules/reducer.ts, core/rules/crew.ts).                 *)
(*                                                                         *)
(* phase "play" is choose_action, "relic" is choose_relic, "event" is      *)
(* event, "over" is game_over.  Seats are numbered in order of arrival and *)
(* `next` is the seat the next arrival gets.  Hired developers, who share  *)
(* the seats of a site, and second sites are left out: one site, humans.   *)
(***************************************************************************)
EXTENDS Naturals, FiniteSets

CONSTANTS
  Capacity,   \* seats of the head office
  MaxSeats    \* arrivals over the life of a company (a bound)

ASSUME CapacityAssumption == Capacity \in Nat \ {0}
ASSUME MaxSeatsAssumption == MaxSeats \in Nat \ {0}

Seats == 0..(MaxSeats - 1)
Deciding == {"relic", "event"}
Phases == {"play", "over"} \cup Deciding

Engine == [phase : Phases, seats : SUBSET Seats, next : 0..MaxSeats]

\* createRun with a founder: seat 0 is theirs.
Started == [phase |-> "play", seats |-> {0}, next |-> 1]

\* The earliest seat still occupied, seat 0 when there is none.
LeadSeat(e) ==
  IF e.seats = {} THEN 0 ELSE CHOOSE s \in e.seats : \A t \in e.seats : s <= t

\* joinCrew: refused once the run is over, or when the site is full.
CanJoin(e) ==
  /\ e.phase # "over"
  /\ Cardinality(e.seats) < Capacity
  /\ e.next < MaxSeats

Joined(e) == [e EXCEPT !.seats = @ \cup {e.next}, !.next = @ + 1]

\* leaveSeat: the last one to go dissolves the company.  gameOver keeps the
\* first reason, so a run that is over stays over.
Without(e, gone) ==
  [e EXCEPT !.seats = @ \ gone,
            !.phase = IF e.seats \subseteq gone THEN "over" ELSE @]

\* A free action of a seat (applyAction): playing goes on, a refused pull
\* request fills the client's patience and the run ends, or what an acquisition
\* breaks puts a question to the company (acquisitions.ts).
ActEnds == {"play", "event", "over"}

\* The company's answer: a relic opens the next sprint, which may begin with
\* an event; an event gives the turn back.  Either may end the run.
AnswerEnds(e) ==
  IF e.phase = "relic" THEN {"play", "event", "over"} ELSE {"play", "over"}

\* One round (applyRound) burns some seats out and ends in a phase.  A run may
\* end before anybody burns out, or after: the release of a board left empty.
RoundEnds(e) == [end : {"play", "relic", "event", "over"}, burnt : SUBSET e.seats]

InPhase(e, p) == [e EXCEPT !.phase = p]
AfterRound(e, end, burnt) == Without(InPhase(e, end), burnt)
=============================================================================
