------------------------------- MODULE World -------------------------------
(***************************************************************************)
(* The realtime world (world.ts): the companies, the seats profiles hold   *)
(* in them, the lobby, and the one action per message of a player, plus    *)
(* the tick.  The world is single-threaded and every handler runs to its   *)
(* end, so each handler is one step; what it may be interleaved with is    *)
(* every other handler.                                                    *)
(*                                                                         *)
(* The engine of a company is CrewEngine.  `kept` is what the store knows  *)
(* of a member: it is refreshed with every entry of the log, and only then,*)
(* so what a player does without an entry is unknown to a restart.         *)
(***************************************************************************)
EXTENDS CrewEngine, Integers

CONSTANTS
  Profiles, Companies,
  NoOne, NoSeat,
  MissLimit,       \* missesBeforeAutopilot
  ReleaseRounds,   \* autopilotReleaseRounds
  MaxRounds,       \* maxRounds
  SnapshotEvery,   \* snapshotEvery
  Choices          \* turn actions players send

ASSUME NullsAssumption == NoOne \notin Profiles /\ NoSeat \notin Companies \X Seats
ASSUME LimitsAssumption ==
  /\ {MissLimit, ReleaseRounds, MaxRounds, SnapshotEvery} \subseteq Nat \ {0}
  /\ "none" \notin Choices

VARIABLES
  company,   \* every company ever created, by id
  seated,    \* the company and seat each profile holds
  online,    \* profiles with a socket that said hello
  waiting    \* profiles waiting in the lobby for a recruiter

worldVars == <<company, seated, online, waiting>>

NoChoice == [choice |-> "none", round |-> 0]
Choice == [choice : Choices, round : 0..MaxRounds]

NoMember == [profile |-> NoOne, misses |-> 0, auto |-> FALSE, rounds |-> 0,
             left |-> TRUE, kept |-> <<0, FALSE>>]

Member == [profile : Profiles \cup {NoOne}, misses : 0..MissLimit,
           auto : BOOLEAN, rounds : 0..ReleaseRounds, left : BOOLEAN,
           kept : (0..MissLimit) \X BOOLEAN]

NewMember(p) == [NoMember EXCEPT !.profile = p, !.left = FALSE]

\* A company that does not exist yet: its id is still to be drawn.
Unborn ==
  [status  |-> "unborn",
   engine  |-> [Started EXCEPT !.seats = {}, !.next = 0],
   members |-> [s \in Seats |-> NoMember],
   pending |-> [s \in Seats |-> NoChoice],
   asking  |-> FALSE,
   votes   |-> {},
   round   |-> 0,
   since   |-> 0,
   played  |-> 0]

Company ==
  [status  : {"unborn", "open", "closed", "gone"},
   engine  : Engine,
   members : [Seats -> Member],
   pending : [Seats -> Choice \cup {NoChoice}],
   asking  : BOOLEAN,
   votes   : SUBSET Seats,
   round   : 0..MaxRounds,
   since   : 0..MaxRounds,
   played  : 0..(MaxRounds + 1)]

TypeOK ==
  /\ company \in [Companies -> Company]
  /\ seated \in [Profiles -> (Companies \X Seats) \cup {NoSeat}]
  /\ online \subseteq Profiles
  /\ waiting \subseteq Profiles

Init ==
  /\ company = [c \in Companies |-> Unborn]
  /\ seated = [p \in Profiles |-> NoSeat]
  /\ online = {}
  /\ waiting = {}

-----------------------------------------------------------------------------
(* A company's members, log and questions *)

Open == {c \in Companies : company[c].status = "open"}
LiveSeats(co) == {s \in Seats : ~co.members[s].left}

\* What the store knows after the entries of this handler are written.
Written(co) ==
  [co EXCEPT !.members =
     [s \in Seats |-> [co.members[s] EXCEPT !.kept =
                         <<co.members[s].misses, co.members[s].auto>>]]]

\* (Mutant) The misses are forgotten, the machine stays.
Seen_KeepsMachine(co, s) == [co EXCEPT !.members[s].misses = 0]

\* seen(): the player is back, and the machine lets go.
Seen(co, s) ==
  [co EXCEPT !.members[s].misses = 0, !.members[s].auto = FALSE,
             !.members[s].rounds = 0]

\* openQuestionIfNeeded: the lead seat always has at least one option.
WithQuestion(co) ==
  IF co.status = "open" /\ ~co.asking /\ co.engine.phase \in Deciding
  THEN [co EXCEPT !.asking = TRUE, !.votes = {}]
  ELSE co

\* The members of these seats have left, for good.
Departed(co, gone) ==
  [co EXCEPT
     !.members = [s \in Seats |-> IF s \in gone
                                  THEN [co.members[s] EXCEPT !.left = TRUE, !.auto = FALSE]
                                  ELSE co.members[s]],
     !.pending = [s \in Seats |-> IF s \in gone THEN NoChoice ELSE co.pending[s]]]

\* close(): nobody holds a seat any more, and no question stays open.  It
\* leaves the machine's mark and the choices where they were.
Closed(co) ==
  IF co.status # "open" THEN co
  ELSE [co EXCEPT
          !.status = "closed",
          !.asking = FALSE,
          !.votes = {},
          !.members = [s \in Seats |-> [co.members[s] EXCEPT !.left = TRUE]]]

\* releaseIdleSeats: seats the machine has played for long enough leave the
\* engine.  Their members are reconciled by the next entry, not by this one.
IdleSeats(co) ==
  {s \in LiveSeats(co) : co.members[s].auto /\ co.members[s].rounds >= ReleaseRounds}

\* (Mutant) The members go, the engine keeps their seats.
Released_MembersOnly(co) == Departed(co, IdleSeats(co))

Released(co) == [co EXCEPT !.engine = Without(co.engine, IdleSeats(co))]

\* afterEntry: members without a seat leave, a run that is over closes the
\* company, idle seats are released, and a question is put.
AfterEntry(co) ==
  LET there == Departed(co, LiveSeats(co) \ co.engine.seats)
  IN IF there.engine.phase = "over" THEN Closed(there)
     ELSE WithQuestion(IF IdleSeats(there) = {} THEN there ELSE Released(there))

-----------------------------------------------------------------------------
(* What a tick does to one company.  A roll holds what the model leaves    *)
(* open: how the entry ends, who burns out, which seats are silent, which  *)
(* of them the engine counts as misses, whether free actions of the        *)
(* machine are in the log before the round, and what makes the round throw.*)

NoRoll == [end |-> "play", burnt |-> {}, silent |-> {}, missed |-> {},
           driven |-> FALSE, throw |-> "nothing"]

\* resolveQuestion: the winner is applied for the lead seat.  A question with
\* no option left to apply is dropped.
Resolved(co, end) ==
  LET asked == [co EXCEPT !.asking = FALSE, !.votes = {}]
  IN IF co.engine.phase \in Deciding
     THEN Written(AfterEntry([asked EXCEPT !.engine = InPhase(@, end)]))
     ELSE asked

Playing(co) == LiveSeats(co) \cap co.engine.seats
Machine(co) == {s \in Playing(co) : co.members[s].auto}
Sent(co) == {s \in Playing(co) \ Machine(co) : co.pending[s] # NoChoice}
Turns(co) == Machine(co) \cup Sent(co)

\* settleMisses: `silent` seats had no turn in the round, `missed` are those
\* the engine counted.  A turn clears the misses, a pass leaves them.
Settled(co, silent, missed) ==
  LET After(s) ==
        LET m == co.members[s]
            misses == IF s \in missed
                      THEN IF m.misses < MissLimit THEN m.misses + 1 ELSE MissLimit
                      ELSE IF s \notin silent /\ ~m.auto THEN 0 ELSE m.misses
            auto == m.auto \/ (s \in missed /\ misses >= MissLimit)
            before == IF m.auto THEN m.rounds ELSE 0
        IN [m EXCEPT !.misses = misses, !.auto = auto,
                     !.rounds = IF ~auto THEN m.rounds
                                ELSE IF before < ReleaseRounds THEN before + 1
                                ELSE ReleaseRounds]
  IN [co EXCEPT !.members =
        [s \in Seats |-> IF s \in LiveSeats(co) THEN After(s) ELSE co.members[s]]]

\* (Mutant) The choices of the round are left for the next one.
Counted_KeepsChoices(co) ==
  [co EXCEPT !.round = @ + 1,
             !.since = IF @ + 1 >= SnapshotEvery THEN 0 ELSE @ + 1,
             !.played = IF @ <= MaxRounds THEN @ + 1 ELSE @]

\* The round is in the log: the choices are spent and the numbers move on.
\* compact() folds the log into a snapshot every SnapshotEvery rounds.
Counted(co) ==
  [co EXCEPT !.pending = [s \in Seats |-> NoChoice],
             !.round = @ + 1,
             !.since = IF @ + 1 >= SnapshotEvery THEN 0 ELSE @ + 1,
             !.played = IF @ <= MaxRounds THEN @ + 1 ELSE @]

\* What can make the rules throw in the middle of a round.  A review, chosen
\* or by the bot of any seat at the end of the turn, ends the AI chain of the
\* player of seat 0 and a hack won for energy refills that player, whoever
\* plays: they throw when seat 0 is vacant.  An obstacle may have nothing to
\* land on once a departure has parted it from its ticket.
ThrowCauses(co) ==
  LET vacant == {s \in Seats : s < co.engine.next} \ co.engine.seats
  IN {cause \in {"review", "bot", "hack", "obstacle"} :
        /\ cause = "bot" \/ Turns(co) # {}
        /\ IF cause = "obstacle" THEN vacant # {} ELSE 0 \in vacant}

\* The round, once the machine has played its free actions.
Round(co, roll) ==
  LET resolved == Counted([co EXCEPT !.engine = AfterRound(@, roll.end, roll.burnt)])
      done == AfterEntry(Settled(resolved, roll.silent, roll.missed))
  IN Written(IF done.round >= MaxRounds THEN Closed(done) ELSE done)

\* (Mutant) The round waits until every seat has sent a turn.
PlayRound_WaitsForAll(co, roll) ==
  IF Turns(co) # Playing(co) \/ co.engine.phase # "play" THEN co
  ELSE Round(co, roll)

\* playRound: the free actions of the machine are in the log before the round
\* is tried.  When they end the run, or when the round throws, the tick
\* catches the error, and the rest of playRound is skipped: the choices stay,
\* the round is not counted, and afterEntry does not run.
PlayRound(co, roll) ==
  LET driven == IF roll.driven THEN Written(co) ELSE co
  IN IF co.engine.phase # "play" THEN co
     ELSE IF roll.throw = "over" THEN Written([co EXCEPT !.engine = InPhase(@, "over")])
     ELSE IF roll.throw # "nothing" THEN driven
     ELSE Round(co, roll)

Ticked(co, roll) ==
  WithQuestion(IF co.asking THEN Resolved(co, roll.end) ELSE PlayRound(co, roll))

\* Seats that sent nothing are silent, and so may be those whose driver found
\* no turn to take; a silent seat is missed unless it had nothing to do.
Silences(co) ==
  {Playing(co) \ turns : turns \in SUBSET Turns(co)}

PlayedRolls(co) ==
  UNION {{[end |-> r.end, burnt |-> r.burnt, silent |-> silent, missed |-> missed,
           driven |-> FALSE, throw |-> "nothing"] :
            r \in RoundEnds(co.engine), missed \in SUBSET silent} : silent \in Silences(co)}

\* A tick that gets no round: the machine's own actions end the run, or it throws.
ThrownRolls(co) ==
  {[NoRoll EXCEPT !.driven = driven, !.throw = cause] :
     driven \in {FALSE, Turns(co) # {}},
     cause \in ThrowCauses(co) \cup {"over" : s \in Turns(co)}}

Rolls(co) ==
  IF co.asking THEN {[NoRoll EXCEPT !.end = p] : p \in AnswerEnds(co.engine)}
  ELSE IF co.engine.phase # "play" THEN {NoRoll}
  ELSE PlayedRolls(co) \cup ThrownRolls(co)

-----------------------------------------------------------------------------
(* Messages of a player.  A refused message changes nothing, so only the   *)
(* accepted ones are steps.                                                *)

\* Profiles whose member left between two states of their companies.
NewlyLeft(before, after) ==
  {p \in Profiles : \E c \in Companies, s \in Seats :
     /\ before[c].members[s].profile = p
     /\ ~before[c].members[s].left
     /\ after[c].members[s].left}

\* The handler's company becomes co; whoever left it is unseated.
Becomes(c, co) ==
  LET after == [company EXCEPT ![c] = co]
  IN /\ company' = after
     /\ seated' = [p \in Profiles |->
                     IF p \in NewlyLeft(company, after) THEN NoSeat ELSE seated[p]]

\* requireSeat: the company and the live member of a seated profile.
HoldsSeat(p, c, s) ==
  /\ p \in online
  /\ seated[p] = <<c, s>>
  /\ ~company[c].members[s].left

Connect(p) ==
  /\ p \notin online
  /\ online' = online \cup {p}
  /\ UNCHANGED <<company, seated, waiting>>

\* A seated player's seat stays, offline.
Disconnect(p) ==
  /\ p \in online
  /\ online' = online \ {p}
  /\ waiting' = waiting \ {p}
  /\ UNCHANGED <<company, seated>>

Wait(p) ==
  /\ p \in online
  /\ seated[p] = NoSeat
  /\ waiting' = waiting \cup {p}
  /\ UNCHANGED <<company, seated, online>>

Unwait(p) ==
  /\ p \in waiting
  /\ waiting' = waiting \ {p}
  /\ UNCHANGED <<company, seated, online>>

CreateCompany(p, c) ==
  /\ p \in online
  /\ seated[p] = NoSeat
  /\ company[c].status = "unborn"
  /\ company' = [company EXCEPT ![c] =
                   [@ EXCEPT !.status = "open", !.engine = Started,
                             !.members[0] = NewMember(p)]]
  /\ seated' = [seated EXCEPT ![p] = <<c, 0>>]
  /\ waiting' = waiting \ {p}
  /\ UNCHANGED online

\* seat(): the join is in the log, the newcomer gets the next seat.
Seat(p, c) ==
  LET co == company[c]
      s == co.engine.next
      joined == [co EXCEPT !.engine = Joined(co.engine), !.members[s] = NewMember(p)]
      after == [company EXCEPT ![c] = Written(AfterEntry(joined))]
  IN /\ co.status = "open"
     /\ CanJoin(co.engine)
     /\ company' = after
     /\ seated' = [q \in Profiles |-> IF q = p THEN <<c, s>>
                                      ELSE IF q \in NewlyLeft(company, after) THEN NoSeat
                                      ELSE seated[q]]
     /\ waiting' = waiting \ {p}
     /\ UNCHANGED online

\* (Mutant) Nobody asks whether the newcomer is free.
JoinCompany_Seated(p, c) ==
  /\ p \in online
  /\ Seat(p, c)

JoinCompany(p, c) ==
  /\ p \in online
  /\ seated[p] = NoSeat
  /\ Seat(p, c)

\* A seated player takes somebody out of the lobby.
Recruit(p, q) ==
  \E c \in Companies, s \in Seats :
    /\ HoldsSeat(p, c, s)
    /\ q \in waiting
    /\ seated[q] = NoSeat
    /\ Seat(q, c)

Leave(p) ==
  \E c \in Companies, s \in Seats :
    /\ p \in online
    /\ seated[p] = <<c, s>>
    /\ s \in company[c].engine.seats
    /\ Becomes(c, Written(AfterEntry(
         [company[c] EXCEPT !.engine = Without(@, {s})])))
    /\ UNCHANGED <<online, waiting>>

\* A free action, applied at once.
Act(p) ==
  \E c \in Companies, s \in Seats :
    /\ HoldsSeat(p, c, s)
    /\ company[c].status = "open"
    /\ ~company[c].asking
    /\ company[c].engine.phase = "play"
    /\ s \in company[c].engine.seats
    /\ \E end \in ActEnds :
         Becomes(c, Written(AfterEntry(
           [Seen(company[c], s) EXCEPT !.engine = InPhase(@, end)])))
    /\ UNCHANGED <<online, waiting>>

\* The turn action of round r, kept until the deadline and replaceable.
RoundAct(p, r, choice) ==
  \E c \in Companies, s \in Seats :
    /\ HoldsSeat(p, c, s)
    /\ company[c].status = "open"
    /\ ~company[c].asking
    /\ r = company[c].round
    /\ company[c].engine.phase = "play"
    /\ s \in company[c].engine.seats
    /\ company' = [company EXCEPT ![c] =
         [Seen(company[c], s) EXCEPT !.pending[s] = [choice |-> choice, round |-> r]]]
    /\ UNCHANGED <<seated, online, waiting>>

\* Everybody who is there has voted: no reason to wait for the clock.
AllVoted(co) ==
  LET voters == {s \in LiveSeats(co) : co.members[s].profile \in online}
  IN voters # {} /\ voters \subseteq co.votes

Vote(p) ==
  \E c \in Companies, s \in Seats :
    /\ HoldsSeat(p, c, s)
    /\ company[c].asking
    /\ LET voted == [Seen(company[c], s) EXCEPT !.votes = @ \cup {s}]
       IN IF AllVoted(voted)
          THEN \E end \in AnswerEnds(voted.engine) : Becomes(c, Resolved(voted, end))
          ELSE Becomes(c, voted)
    /\ UNCHANGED <<online, waiting>>

-----------------------------------------------------------------------------
(* The tick, the store, the process *)

\* Every open company counts its vote or plays its round.
Tick ==
  /\ \E roll \in [Open -> UNION {Rolls(company[c]) : c \in Open}] :
       LET after == [c \in Companies |->
                      IF c \in Open THEN Ticked(company[c], roll[c]) ELSE company[c]]
       IN /\ \A c \in Open : roll[c] \in Rolls(company[c])
          /\ company' = after
          /\ seated' = [p \in Profiles |->
                          IF p \in NewlyLeft(company, after) THEN NoSeat ELSE seated[p]]
  /\ UNCHANGED <<online, waiting>>

\* drainWrites: a closed company is written once and forgotten.  Its id is
\* never drawn again.
Drain ==
  /\ \E c \in Companies : company[c].status = "closed"
  /\ company' = [c \in Companies |->
                   IF company[c].status = "closed"
                   THEN [Unborn EXCEPT !.status = "gone"] ELSE company[c]]
  /\ UNCHANGED <<seated, online, waiting>>

\* A restart on a store that has every entry: open companies are rebuilt from
\* their snapshot and the entries since, members from their rows.  Choices
\* and votes are gone, the question is put again, everybody is offline.
Recovered(co) ==
  WithQuestion(
    [co EXCEPT
       !.members = [s \in Seats |-> [co.members[s] EXCEPT
                                       !.misses = co.members[s].kept[1],
                                       !.auto = co.members[s].kept[2],
                                       !.rounds = 0]],
       !.pending = [s \in Seats |-> NoChoice],
       !.asking = FALSE,
       !.votes = {},
       !.round = co.since])

Restart ==
  /\ \A c \in Companies : company[c].status # "closed"
  /\ company' = [c \in Companies |->
                   IF c \in Open THEN Recovered(company[c]) ELSE company[c]]
  /\ online' = {}
  /\ waiting' = {}
  /\ UNCHANGED seated

PlayerMessage ==
  \E p \in Profiles :
    \/ Connect(p)
    \/ Disconnect(p)
    \/ Wait(p)
    \/ Unwait(p)
    \/ \E c \in Companies : CreateCompany(p, c) \/ JoinCompany(p, c)
    \/ \E q \in Profiles : Recruit(p, q)
    \/ Leave(p)
    \/ Act(p)
    \/ \E r \in 0..MaxRounds, choice \in Choices : RoundAct(p, r, choice)
    \/ Vote(p)

Next == PlayerMessage \/ Tick \/ Drain \/ Restart

Spec == Init /\ [][Next]_worldVars

-----------------------------------------------------------------------------
(* What the world promises *)

\* One seat per profile, and the same story on both sides: a profile is
\* seated somewhere exactly when an open company has it as a live member
\* there.
SeatedMatchesMembers ==
  \A p \in Profiles, c \in Companies, s \in Seats :
    seated[p] = <<c, s>> <=>
      /\ company[c].status = "open"
      /\ company[c].members[s].profile = p
      /\ ~company[c].members[s].left

\* Nobody sits in a company without being its member: no seat of the engine
\* is played by the machine or missed for want of an owner.
SeatsHaveMembers ==
  \A c \in Open : company[c].engine.seats \subseteq LiveSeats(company[c])

\* The table of seats, the members and the seats of the engine say the same.
SeatsAgree == SeatedMatchesMembers /\ SeatsHaveMembers

\* A company asks exactly when its engine waits for an answer, so it is never
\* stuck deciding with nothing to vote on.
AskingWhenDeciding ==
  \A c \in Open : company[c].asking <=> company[c].engine.phase \in Deciding

\* The choice a seat sent is for the round about to be played, never for one
\* that is over.
PendingIsCurrent ==
  \A c \in Open, s \in Seats :
    company[c].pending[s] # NoChoice => company[c].pending[s].round = company[c].round

\* What a company keeps in memory is about the state its engine is in, through
\* votes, ticks and restarts: its question and its choices.
CompanyIsCurrent == AskingWhenDeciding /\ PendingIsCurrent

\* The machine never holds a seat whose player has sent a choice, and it only
\* holds seats that missed MissLimit rounds.
MachineForAbsent ==
  \A c \in Open : \A s \in LiveSeats(company[c]) :
    company[c].members[s].auto =>
      /\ company[c].pending[s] = NoChoice
      /\ company[c].members[s].misses >= MissLimit

\* The seats of the world are what Seating says: one per profile, one profile
\* each, never given twice, through joins, departures, closings and restarts.
Sitting == INSTANCE Seating WITH
  Slots  <- Companies \X Seats,
  NoSlot <- NoSeat,
  seat   <- seated,
  used   <- {slot \in Companies \X Seats :
               \/ company[slot[1]].members[slot[2]].profile # NoOne
               \/ company[slot[1]].status = "gone"}

SeatingHolds == Sitting!SeatingSpec

\* "The last seat released dissolves the company", "then closes a dead
\* company": a run that is over does not stay open.
OverIsClosed == \A c \in Open : company[c].engine.phase # "over"

\* "Rounds a company may play, after which it closes".
LogIsBounded == \A c \in Companies : company[c].played <= MaxRounds

=============================================================================
