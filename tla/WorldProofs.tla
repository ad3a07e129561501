---------------------------- MODULE WorldProofs ----------------------------
(***************************************************************************)
(* For any number of players, companies and seats: the table of seats, the *)
(* members and the engines agree, what a company keeps is about the state  *)
(* its engine is in, the machine plays for those who are away, and the     *)
(* world does with its seats what Seating says.                            *)
(***************************************************************************)
EXTENDS World, TLAPS

-----------------------------------------------------------------------------
(* The inductive invariant *)

\* A seat nobody was given has no member, only members of an open company are
\* live, the machine plays for those who missed enough rounds and have sent
\* nothing, and the store knows no better.
MembersOK(co) ==
  \A s \in Seats :
    LET m == co.members[s]
    IN /\ m.profile = NoOne => m.left
       /\ s >= co.engine.next => m.profile = NoOne
       /\ ~m.left => co.status = "open"
       /\ m.auto => m.misses >= MissLimit
       /\ ~m.left /\ m.auto => co.pending[s] = NoChoice
       /\ m.kept[2] => m.kept[1] >= MissLimit

Idle(m) == m.auto /\ m.rounds >= ReleaseRounds

SeatsAreLive(co) == \A s \in co.engine.seats : ~co.members[s].left
ChoicesAreCurrent(co) ==
  \A s \in Seats : co.pending[s] # NoChoice => co.pending[s].round = co.round
RoundsLeft(co) == co.round < MaxRounds /\ co.since <= co.round
NobodyIdle(co) == \A s \in co.engine.seats : ~Idle(co.members[s])
Asks(co) == co.asking <=> co.engine.phase \in Deciding

\* Idle seats matter: one released while a question is open could end the run
\* and leave the question.
CompanyInv(co) ==
  /\ co \in Company
  /\ MembersOK(co)
  /\ co.status = "unborn" => co = Unborn
  /\ co.status = "open" =>
       /\ SeatsAreLive(co) /\ ChoicesAreCurrent(co) /\ RoundsLeft(co)
       /\ NobodyIdle(co) /\ Asks(co)

WorldInv ==
  /\ TypeOK
  /\ \A c \in Companies : CompanyInv(company[c])
  /\ SeatedMatchesMembers

\* What an entry of the log may find when afterEntry runs.
MidEntry(co) ==
  /\ co \in Company
  /\ MembersOK(co)
  /\ co.status = "open"
  /\ SeatsAreLive(co) /\ ChoicesAreCurrent(co)
  /\ co.since <= co.round
  /\ co.asking => NobodyIdle(co) /\ co.engine.phase \in Deciding \cup {"over"}

\* What a handler may do to a company: close it and let members go, but neither
\* replace a member nor take one back.
Evolves(co, after) ==
  /\ after.status = co.status \/ (co.status = "open" /\ after.status = "closed")
  /\ \A s \in Seats :
       /\ after.members[s].profile = co.members[s].profile
       /\ co.members[s].left => after.members[s].left

-----------------------------------------------------------------------------
(* Operators on one company *)

LEMMA Limits ==
  /\ MissLimit \in Nat \ {0} /\ ReleaseRounds \in Nat \ {0}
  /\ MaxRounds \in Nat \ {0} /\ SnapshotEvery \in Nat \ {0}
BY LimitsAssumption

LEMMA GoneMember ==
  ASSUME NEW m \in Member, NEW g, g = [m EXCEPT !.left = TRUE, !.auto = FALSE]
  PROVE  /\ g \in Member
         /\ g.left /\ ~g.auto
         /\ g.profile = m.profile /\ g.misses = m.misses /\ g.rounds = m.rounds
         /\ g.kept = m.kept
BY DEF Member

LEMMA DepartedFields ==
  ASSUME NEW co \in Company, NEW gone \in SUBSET Seats, NEW d, d = Departed(co, gone)
  PROVE  /\ d \in Company
         /\ d.status = co.status /\ d.engine = co.engine /\ d.asking = co.asking
         /\ d.round = co.round /\ d.since = co.since
         /\ \A s \in Seats :
              /\ d.members[s].profile = co.members[s].profile
              /\ d.members[s].misses = co.members[s].misses
              /\ d.members[s].kept = co.members[s].kept
              /\ d.members[s].left <=> co.members[s].left \/ s \in gone
              /\ s \notin gone => d.members[s] = co.members[s] /\ d.pending[s] = co.pending[s]
              /\ s \in gone => ~d.members[s].auto /\ d.pending[s] = NoChoice
<1> DEFINE ms == [s \in Seats |-> IF s \in gone
                                  THEN [co.members[s] EXCEPT !.left = TRUE, !.auto = FALSE]
                                  ELSE co.members[s]]
           ps == [s \in Seats |-> IF s \in gone THEN NoChoice ELSE co.pending[s]]
<1>1. ms \in [Seats -> Member]
  BY GoneMember DEF Company
<1>2. ps \in [Seats -> Choice \cup {NoChoice}]
  BY DEF Company
<1>3. d = [co EXCEPT !.members = ms, !.pending = ps]
  BY DEF Departed
<1>4. /\ d \in Company /\ d.members = ms /\ d.pending = ps
      /\ d.status = co.status /\ d.engine = co.engine /\ d.asking = co.asking
      /\ d.round = co.round /\ d.since = co.since
  <2> HIDE DEF ms, ps
  <2> QED  BY <1>1, <1>2, <1>3 DEF Company
<1>5. ASSUME NEW s \in Seats
      PROVE  /\ ms[s].profile = co.members[s].profile
             /\ ms[s].misses = co.members[s].misses
             /\ ms[s].kept = co.members[s].kept
             /\ ms[s].left <=> co.members[s].left \/ s \in gone
             /\ s \notin gone => ms[s] = co.members[s] /\ ps[s] = co.pending[s]
             /\ s \in gone => ~ms[s].auto /\ ps[s] = NoChoice
  <2>1. co.members[s] \in Member
    BY DEF Company
  <2>2. ms[s] = IF s \in gone THEN [co.members[s] EXCEPT !.left = TRUE, !.auto = FALSE]
                              ELSE co.members[s]
    OBVIOUS
  <2> HIDE DEF ms
  <2> QED  BY <2>1, <2>2, GoneMember
<1> HIDE DEF ms, ps
<1> QED  BY <1>4, <1>5

LEMMA DepartedKeeps ==
  ASSUME NEW co, MidEntry(co), NEW gone \in SUBSET Seats, gone \cap co.engine.seats = {},
         NEW d, d = Departed(co, gone)
  PROVE  MidEntry(d) /\ Evolves(co, d)
<1>1. co \in Company
  BY DEF MidEntry
<1>2. /\ d \in Company
      /\ d.status = co.status /\ d.engine = co.engine /\ d.asking = co.asking
      /\ d.round = co.round /\ d.since = co.since
      /\ \A s \in Seats :
           /\ d.members[s].profile = co.members[s].profile
           /\ d.members[s].misses = co.members[s].misses
           /\ d.members[s].kept = co.members[s].kept
           /\ d.members[s].left <=> co.members[s].left \/ s \in gone
           /\ s \notin gone => d.members[s] = co.members[s] /\ d.pending[s] = co.pending[s]
           /\ s \in gone => ~d.members[s].auto /\ d.pending[s] = NoChoice
  BY <1>1, DepartedFields
<1>3. MembersOK(d)
  BY <1>2 DEF MidEntry, MembersOK
<1>4. \A s \in co.engine.seats : s \in Seats /\ s \notin gone
  BY <1>1 DEF Company, Engine
<1>5. SeatsAreLive(d) /\ ChoicesAreCurrent(d) /\ (NobodyIdle(co) => NobodyIdle(d))
  BY <1>2, <1>4 DEF MidEntry, SeatsAreLive, ChoicesAreCurrent, NobodyIdle, Idle
<1>6. Evolves(co, d)
  BY <1>2 DEF Evolves
<1> QED  BY <1>2, <1>3, <1>5, <1>6 DEF MidEntry

\* A closed company keeps its members, and none of them is live.
LEMMA ClosedFields ==
  ASSUME NEW co \in Company, co.status = "open", NEW d, d = Closed(co)
  PROVE  /\ d \in Company
         /\ d.status = "closed" /\ d.engine = co.engine /\ d.round = co.round
         /\ \A s \in Seats :
              /\ d.members[s].profile = co.members[s].profile
              /\ d.members[s].misses = co.members[s].misses
              /\ d.members[s].auto = co.members[s].auto
              /\ d.members[s].kept = co.members[s].kept
              /\ d.members[s].left
<1> DEFINE ms == [s \in Seats |-> [co.members[s] EXCEPT !.left = TRUE]]
<1>1. ASSUME NEW s \in Seats
      PROVE  /\ ms[s] \in Member
             /\ ms[s].profile = co.members[s].profile
             /\ ms[s].misses = co.members[s].misses
             /\ ms[s].auto = co.members[s].auto
             /\ ms[s].kept = co.members[s].kept
             /\ ms[s].left
  <2>1. co.members[s] \in Member
    BY DEF Company
  <2> QED  BY <2>1 DEF Member
<1>2. ms \in [Seats -> Member]
  BY <1>1
<1>3. d = [co EXCEPT !.status = "closed", !.asking = FALSE, !.votes = {}, !.members = ms]
  BY DEF Closed
<1> HIDE DEF ms
<1>4. /\ d \in Company /\ d.members = ms
      /\ d.status = "closed" /\ d.engine = co.engine /\ d.round = co.round
  BY <1>2, <1>3 DEF Company
<1> QED  BY <1>1, <1>4

LEMMA ClosedKeeps ==
  ASSUME NEW co, co \in Company, MembersOK(co), co.status = "open", NEW d, d = Closed(co)
  PROVE  CompanyInv(d) /\ Evolves(co, d)
<1>1. MembersOK(d)
  BY ClosedFields DEF MembersOK
<1>2. Evolves(co, d)
  BY ClosedFields DEF Evolves
<1> QED  BY <1>1, <1>2, ClosedFields DEF CompanyInv

LEMMA QuestionFields ==
  ASSUME NEW co \in Company, NEW d, d = WithQuestion(co)
  PROVE  /\ d \in Company
         /\ d.status = co.status /\ d.engine = co.engine /\ d.members = co.members
         /\ d.pending = co.pending /\ d.round = co.round /\ d.since = co.since
         /\ d.asking <=> co.asking \/ (co.status = "open" /\ co.engine.phase \in Deciding)
BY DEF WithQuestion, Company

\* The idle seats go, and may end the run when nobody is left.
LEMMA ReleasedFields ==
  ASSUME NEW co \in Company, NEW d, d = Released(co)
  PROVE  /\ d \in Company
         /\ d.status = co.status /\ d.members = co.members /\ d.asking = co.asking
         /\ d.pending = co.pending /\ d.round = co.round /\ d.since = co.since
         /\ d.engine.next = co.engine.next
         /\ d.engine.seats = co.engine.seats \ IdleSeats(co)
         /\ d.engine.phase \in {co.engine.phase, "over"}
<1> DEFINE e == Without(co.engine, IdleSeats(co))
<1>1. co.engine \in Engine
  BY DEF Company
<1>2. /\ e \in Engine
      /\ e.next = co.engine.next
      /\ e.seats = co.engine.seats \ IdleSeats(co)
      /\ e.phase \in {co.engine.phase, "over"}
  BY <1>1 DEF Without, Engine, Phases
<1>3. d = [co EXCEPT !.engine = e]
  BY DEF Released
<1> HIDE DEF e
<1> QED  BY <1>2, <1>3 DEF Company

\* afterEntry leaves the company as it should be, whatever the entry did.
LEMMA AfterEntryKeeps ==
  ASSUME NEW co, MidEntry(co), NEW d, d = AfterEntry(co)
  PROVE  /\ Evolves(co, d)
         /\ d \in Company /\ MembersOK(d) /\ d.round = co.round
         /\ d.engine.seats \subseteq co.engine.seats
         /\ d.status = "closed" \/ RoundsLeft(co) => CompanyInv(d)
<1> DEFINE gone == LiveSeats(co) \ co.engine.seats
           there == Departed(co, gone)
<1>1. gone \in SUBSET Seats /\ gone \cap co.engine.seats = {}
  BY DEF LiveSeats
<1>2. MidEntry(there) /\ Evolves(co, there)
  BY <1>1, DepartedKeeps
<1>3. there.round = co.round /\ there.since = co.since /\ there.engine = co.engine
  BY <1>1, DepartedFields DEF MidEntry
<1>4. d = IF there.engine.phase = "over" THEN Closed(there)
          ELSE WithQuestion(IF IdleSeats(there) = {} THEN there ELSE Released(there))
  BY DEF AfterEntry
<1> HIDE DEF there, gone
<1>5. RoundsLeft(co) => RoundsLeft(there)
  BY <1>3 DEF RoundsLeft
<1>6. CASE there.engine.phase = "over"
  <2>1. CompanyInv(d) /\ Evolves(there, d)
    BY <1>2, <1>4, <1>6, ClosedKeeps DEF MidEntry
  <2>2. d.round = there.round /\ d.engine = there.engine
    BY <1>2, <1>4, <1>6, ClosedFields DEF MidEntry
  <2> QED  BY <1>2, <1>3, <2>1, <2>2 DEF Evolves, CompanyInv
<1>7. CASE there.engine.phase # "over"
  <2> DEFINE r == IF IdleSeats(there) = {} THEN there ELSE Released(there)
  <2>0. there \in Company /\ MembersOK(there) /\ there.status = "open"
    BY <1>2 DEF MidEntry
  <2>1. /\ r \in Company
        /\ r.status = there.status /\ r.members = there.members /\ r.asking = there.asking
        /\ r.pending = there.pending /\ r.round = there.round /\ r.since = there.since
        /\ r.engine.next = there.engine.next
        /\ r.engine.seats = there.engine.seats \ IdleSeats(there)
        /\ r.engine.phase \in {there.engine.phase, "over"}
    BY <2>0, ReleasedFields
  <2>2. \A s \in IdleSeats(there) : s \in Seats /\ s \in there.engine.seats /\ Idle(there.members[s])
    <3>1. \A s \in Seats : ~there.members[s].left => s \in there.engine.seats
      <4>1. /\ there.engine = co.engine
            /\ \A s \in Seats : there.members[s].left <=> co.members[s].left \/ s \in gone
        BY <1>1, DepartedFields DEF MidEntry, there
      <4> QED  BY <4>1 DEF gone, LiveSeats
    <3> QED  BY <3>1 DEF IdleSeats, LiveSeats, Idle
  <2>3. there.asking => r = there
    BY <1>2, <2>2 DEF MidEntry, NobodyIdle
  <2>4. NobodyIdle(r)
    BY <1>2, <2>1 DEF MidEntry, NobodyIdle, IdleSeats, LiveSeats, Idle, SeatsAreLive, Company, Engine
  <2>5. SeatsAreLive(r) /\ ChoicesAreCurrent(r) /\ (RoundsLeft(co) => RoundsLeft(r)) /\ MembersOK(r)
    BY <1>2, <1>5, <2>0, <2>1 DEF MidEntry, SeatsAreLive, ChoicesAreCurrent, RoundsLeft, MembersOK
  <2>6. r.asking => r.engine.phase \in Deciding
    <3> HIDE DEF r
    <3> QED  BY <1>2, <1>7, <2>1, <2>3 DEF MidEntry
  <2>7. d = WithQuestion(r)
    BY <1>4, <1>7
  <2> HIDE DEF r
  <2>8. /\ d \in Company
        /\ d.status = "open" /\ d.engine = r.engine /\ d.members = r.members
        /\ d.pending = r.pending /\ d.round = r.round /\ d.since = r.since
        /\ d.asking <=> r.engine.phase \in Deciding
    BY <2>0, <2>1, <2>6, <2>7, QuestionFields
  <2>9. MembersOK(d) /\ (RoundsLeft(co) => CompanyInv(d))
    BY <2>4, <2>5, <2>8, <2>0, <2>1
       DEF CompanyInv, SeatsAreLive, ChoicesAreCurrent, RoundsLeft, MembersOK, NobodyIdle, Asks
  <2> QED  BY <1>2, <1>3, <2>0, <2>1, <2>8, <2>9 DEF Evolves
<1> QED  BY <1>6, <1>7

-----------------------------------------------------------------------------
(* Handlers of a company *)

\* An entry that is written leaves the store knowing what the members are.
LEMMA WrittenKeeps ==
  ASSUME NEW co, CompanyInv(co), co.status # "unborn", NEW d, d = Written(co)
  PROVE  /\ CompanyInv(d) /\ Evolves(co, d)
         /\ d.status = co.status /\ d.engine = co.engine
         /\ \A s \in Seats : d.members[s].left = co.members[s].left
<1> DEFINE ms == [s \in Seats |-> [co.members[s] EXCEPT !.kept =
                                     <<co.members[s].misses, co.members[s].auto>>]]
<1>0. co \in Company
  BY DEF CompanyInv
<1>1. ASSUME NEW s \in Seats
      PROVE  /\ ms[s] \in Member
             /\ ms[s].profile = co.members[s].profile
             /\ ms[s].misses = co.members[s].misses
             /\ ms[s].auto = co.members[s].auto
             /\ ms[s].rounds = co.members[s].rounds
             /\ ms[s].left = co.members[s].left
             /\ ms[s].kept[1] = co.members[s].misses
             /\ ms[s].kept[2] = co.members[s].auto
  <2>1. co.members[s] \in Member
    BY <1>0 DEF Company
  <2> QED  BY <2>1 DEF Member
<1>2. ms \in [Seats -> Member]
  BY <1>1
<1>3. d = [co EXCEPT !.members = ms]
  BY DEF Written
<1> HIDE DEF ms
<1>4. /\ d \in Company /\ d.members = ms
      /\ d.status = co.status /\ d.engine = co.engine /\ d.asking = co.asking
      /\ d.pending = co.pending /\ d.round = co.round /\ d.since = co.since
  BY <1>0, <1>2, <1>3 DEF Company
<1>5. MembersOK(d)
  BY <1>1, <1>4 DEF CompanyInv, MembersOK
<1>6. \A s \in co.engine.seats : s \in Seats
  BY <1>0 DEF Company, Engine
<1>7. co.status = "open" =>
        /\ SeatsAreLive(d) /\ ChoicesAreCurrent(d) /\ RoundsLeft(d)
        /\ NobodyIdle(d) /\ Asks(d)
  BY <1>1, <1>4, <1>6
     DEF CompanyInv, SeatsAreLive, ChoicesAreCurrent, RoundsLeft, NobodyIdle, Asks, Idle
<1> QED  BY <1>1, <1>4, <1>5, <1>7 DEF CompanyInv, Evolves

\* An entry and what follows it.
LEMMA EntryKeeps ==
  ASSUME NEW co, MidEntry(co), RoundsLeft(co), NEW d, d = Written(AfterEntry(co))
  PROVE  CompanyInv(d) /\ Evolves(co, d)
<1> DEFINE a == AfterEntry(co)
<1>1. CompanyInv(a) /\ Evolves(co, a)
  BY AfterEntryKeeps
<1>2. a.status # "unborn"
  BY <1>1 DEF Evolves, MidEntry
<1>3. CompanyInv(d) /\ Evolves(a, d)
  BY <1>1, <1>2, WrittenKeeps
<1> HIDE DEF a
<1> QED  BY <1>1, <1>3 DEF Evolves

\* The player is back: the machine lets go of their seat.
LEMMA SeenKeeps ==
  ASSUME NEW co, CompanyInv(co), co.status = "open", NEW s \in Seats, NEW d, d = Seen(co, s)
  PROVE  /\ CompanyInv(d) /\ Evolves(co, d)
         /\ d.status = "open" /\ d.engine = co.engine /\ d.round = co.round
         /\ d.asking = co.asking /\ d.pending = co.pending /\ ~d.members[s].auto
         /\ d.votes = co.votes
         /\ \A t \in Seats : d.members[t].left = co.members[t].left
<1> DEFINE m == [co.members[s] EXCEPT !.misses = 0, !.auto = FALSE, !.rounds = 0]
           ms == [co.members EXCEPT ![s] = m]
<1>0. co \in Company /\ co.members \in [Seats -> Member] /\ co.members[s] \in Member
  BY DEF CompanyInv, Company
<1>1. /\ m \in Member
      /\ m.profile = co.members[s].profile /\ m.left = co.members[s].left
      /\ m.kept = co.members[s].kept
      /\ ~m.auto
  <2>1. 0 \in 0..MissLimit /\ 0 \in 0..ReleaseRounds
    BY Limits
  <2> QED  BY <1>0, <2>1 DEF Member
<1>2. d = [co EXCEPT !.members = ms]
  <2>1. /\ Seen(co, s).members = ms
        /\ Seen(co, s) = [co EXCEPT !.members = ms]
    BY <1>0 DEF Seen, Company, Member
  <2> QED  BY <2>1
<1> HIDE DEF m
<1>3. /\ ms \in [Seats -> Member]
      /\ \A t \in Seats : ms[t] = IF t = s THEN m ELSE co.members[t]
  BY <1>0, <1>1
<1> HIDE DEF ms
<1>4. /\ d \in Company /\ d.members = ms
      /\ d.status = co.status /\ d.engine = co.engine /\ d.asking = co.asking
      /\ d.pending = co.pending /\ d.round = co.round /\ d.since = co.since /\ d.votes = co.votes
  BY <1>0, <1>2, <1>3 DEF Company
<1>5. MembersOK(d)
  BY <1>1, <1>3, <1>4 DEF CompanyInv, MembersOK
<1>6. \A t \in co.engine.seats : t \in Seats
  BY <1>0 DEF Company, Engine
<1>7. /\ SeatsAreLive(d) /\ ChoicesAreCurrent(d) /\ RoundsLeft(d)
      /\ NobodyIdle(d) /\ Asks(d)
  BY <1>1, <1>3, <1>4, <1>6
     DEF CompanyInv, SeatsAreLive, ChoicesAreCurrent, RoundsLeft, NobodyIdle, Asks, Idle
<1> QED  BY <1>1, <1>3, <1>4, <1>5, <1>7 DEF CompanyInv, Evolves

-----------------------------------------------------------------------------
(* The tick of a company *)

\* The machine takes over a seat only after MissLimit misses, and gives it up
\* only to its player.
LEMMA SettledFields ==
  ASSUME NEW co \in Company, MembersOK(co), co.status = "open",
         \A s \in Seats : co.pending[s] = NoChoice,
         NEW silent, NEW missed, NEW d, d = Settled(co, silent, missed)
  PROVE  /\ d \in Company /\ MembersOK(d) /\ Evolves(co, d)
         /\ d.status = co.status /\ d.engine = co.engine /\ d.asking = co.asking
         /\ d.pending = co.pending /\ d.round = co.round /\ d.since = co.since
         /\ \A s \in Seats : d.members[s].left = co.members[s].left
<1> DEFINE misses(s) ==
             IF s \in missed
             THEN IF co.members[s].misses < MissLimit THEN co.members[s].misses + 1 ELSE MissLimit
             ELSE IF s \notin silent /\ ~co.members[s].auto THEN 0 ELSE co.members[s].misses
           auto(s) == co.members[s].auto \/ (s \in missed /\ misses(s) >= MissLimit)
           before(s) == IF co.members[s].auto THEN co.members[s].rounds ELSE 0
           rounds(s) == IF ~auto(s) THEN co.members[s].rounds
                        ELSE IF before(s) < ReleaseRounds THEN before(s) + 1 ELSE ReleaseRounds
           m(s) == IF s \in LiveSeats(co)
                   THEN [co.members[s] EXCEPT !.misses = misses(s), !.auto = auto(s), !.rounds = rounds(s)]
                   ELSE co.members[s]
           ms == [s \in Seats |-> m(s)]
<1>1. ASSUME NEW s \in Seats
      PROVE  /\ m(s) \in Member
             /\ m(s).profile = co.members[s].profile
             /\ m(s).left = co.members[s].left
             /\ m(s).kept = co.members[s].kept
             /\ m(s).auto => m(s).misses >= MissLimit
  <2>1. co.members[s] \in Member
    BY DEF Company
  <2>2. co.members[s].auto => co.members[s].misses >= MissLimit
    BY DEF MembersOK
  <2>3. misses(s) \in 0..MissLimit /\ (auto(s) => misses(s) >= MissLimit)
    BY <2>1, <2>2, Limits DEF Member
  <2>4. auto(s) \in BOOLEAN
    BY <2>1 DEF Member
  <2> HIDE DEF misses, auto
  <2>5. rounds(s) \in 0..ReleaseRounds
    BY <2>1, Limits DEF Member
  <2> HIDE DEF rounds
  <2> QED  BY <2>1, <2>2, <2>3, <2>4, <2>5 DEF Member
<1>2. ms \in [Seats -> Member]
  BY <1>1
<1>3. d = [co EXCEPT !.members = ms]
  BY DEF Settled
<1>4. \A s \in Seats : ms[s] = m(s)
  OBVIOUS
<1> HIDE DEF m, ms
<1>5. /\ d \in Company /\ d.members = ms
      /\ d.status = co.status /\ d.engine = co.engine /\ d.asking = co.asking
      /\ d.pending = co.pending /\ d.round = co.round /\ d.since = co.since
  BY <1>2, <1>3 DEF Company
<1>6. MembersOK(d)
  BY <1>1, <1>4, <1>5 DEF MembersOK
<1> QED  BY <1>1, <1>4, <1>5, <1>6 DEF Evolves

\* The round is counted, once per round of the log.
LEMMA CountedFields ==
  ASSUME NEW co \in Company, RoundsLeft(co), NEW d, d = Counted(co)
  PROVE  /\ d \in Company
         /\ d.status = co.status /\ d.engine = co.engine /\ d.members = co.members
         /\ d.asking = co.asking
         /\ \A s \in Seats : d.pending[s] = NoChoice
         /\ d.round = co.round + 1 /\ d.since <= d.round
<1> DEFINE since == IF co.since + 1 >= SnapshotEvery THEN 0 ELSE co.since + 1
           played == IF co.played <= MaxRounds THEN co.played + 1 ELSE co.played
<1>1. /\ co.round \in 0..MaxRounds /\ co.since \in 0..MaxRounds /\ co.played \in 0..(MaxRounds + 1)
      /\ co.round < MaxRounds /\ co.since <= co.round
  BY DEF Company, RoundsLeft
<1>2. since \in 0..MaxRounds /\ since <= co.round + 1 /\ played \in 0..(MaxRounds + 1)
      /\ co.round + 1 \in 0..MaxRounds
  BY <1>1, Limits
<1> DEFINE none == [s \in Seats |-> NoChoice]
<1>3. none \in [Seats -> Choice \cup {NoChoice}] /\ \A s \in Seats : none[s] = NoChoice
  OBVIOUS
<1>4. d = [co EXCEPT !.pending = none, !.round = co.round + 1,
                     !.since = since, !.played = played]
  BY DEF Counted, Company
<1> HIDE DEF since, played, none
<1> QED  BY <1>2, <1>3, <1>4 DEF Company

\* Some seats of the engine burn out, and it ends the round in some phase.
LEMMA AfterRoundFields ==
  ASSUME NEW e \in Engine, NEW end \in Phases, NEW burnt, NEW f, f = AfterRound(e, end, burnt)
  PROVE  f \in Engine /\ f.next = e.next /\ f.seats \subseteq e.seats
BY DEF AfterRound, InPhase, Without, Engine, Phases

LEMMA RoundKeeps ==
  ASSUME NEW co, CompanyInv(co), co.status = "open", ~co.asking,
         NEW roll, roll.end \in Phases, NEW d, d = Round(co, roll)
  PROVE  CompanyInv(d) /\ Evolves(co, d)
<1> DEFINE e == AfterRound(co.engine, roll.end, roll.burnt)
           played == [co EXCEPT !.engine = e]
           counted == Counted(played)
           settled == Settled(counted, roll.silent, roll.missed)
           done == AfterEntry(settled)
           closed == Closed(done)
<1>0. co \in Company /\ co.engine \in Engine
  BY DEF CompanyInv, Company
<1>1. e \in Engine /\ e.next = co.engine.next /\ e.seats \subseteq co.engine.seats
  BY <1>0, AfterRoundFields
<1> HIDE DEF e
<1>2. /\ played \in Company
      /\ played.status = "open" /\ played.engine = e /\ played.members = co.members
      /\ played.pending = co.pending /\ ~played.asking
      /\ played.round = co.round /\ played.since = co.since
  BY <1>0, <1>1 DEF Company
<1>3. RoundsLeft(played)
  BY <1>2 DEF CompanyInv, RoundsLeft
<1> HIDE DEF played
<1>4. /\ counted \in Company
      /\ counted.status = "open" /\ counted.engine = e /\ counted.members = co.members
      /\ ~counted.asking
      /\ \A s \in Seats : counted.pending[s] = NoChoice
      /\ counted.since <= counted.round
  BY <1>2, <1>3, CountedFields
<1>5. MembersOK(counted)
  BY <1>1, <1>4 DEF CompanyInv, MembersOK
<1> HIDE DEF counted
<1>6. /\ settled \in Company /\ MembersOK(settled) /\ Evolves(counted, settled)
      /\ settled.status = "open" /\ settled.engine = e /\ ~settled.asking
      /\ settled.pending = counted.pending
      /\ settled.round = counted.round /\ settled.since = counted.since
      /\ \A s \in Seats : settled.members[s].left = counted.members[s].left
  BY <1>4, <1>5, SettledFields
<1> HIDE DEF settled
<1>7. MidEntry(settled)
  <2>1. \A s \in e.seats : s \in Seats /\ ~co.members[s].left
    BY <1>0, <1>1 DEF CompanyInv, SeatsAreLive, Engine
  <2>2. SeatsAreLive(settled)
    BY <1>4, <1>6, <2>1 DEF SeatsAreLive
  <2>3. ChoicesAreCurrent(settled)
    BY <1>4, <1>6 DEF ChoicesAreCurrent
  <2> QED  BY <1>4, <1>6, <2>2, <2>3 DEF MidEntry
<1>8. /\ Evolves(settled, done) /\ done \in Company /\ MembersOK(done)
      /\ done.round = settled.round
      /\ done.status = "closed" \/ RoundsLeft(settled) => CompanyInv(done)
  BY <1>7, AfterEntryKeeps
<1> HIDE DEF done
<1>9. Evolves(co, done) /\ (done.status = "open" \/ done.status = "closed")
  BY <1>4, <1>6, <1>8 DEF Evolves
<1>10. d = Written(IF done.round >= MaxRounds THEN closed ELSE done)
  BY DEF Round, done, settled, counted, played, e
<1>11. CASE done.round >= MaxRounds /\ done.status = "open"
  <2>1. CompanyInv(closed) /\ Evolves(done, closed)
    BY <1>8, <1>11, ClosedKeeps
  <2>2. closed.status = "closed"
    BY <1>8, <1>11, ClosedFields
  <2> HIDE DEF closed
  <2>3. CompanyInv(d) /\ Evolves(closed, d)
    BY <1>10, <1>11, <2>1, <2>2, WrittenKeeps
  <2> QED  BY <1>9, <2>1, <2>3 DEF Evolves
<1>12. CASE ~(done.round >= MaxRounds /\ done.status = "open")
  <2>1. d = Written(done)
    BY <1>9, <1>10, <1>12 DEF Closed
  <2>2. CompanyInv(done)
    <3>1. CASE done.status = "closed"
      BY <1>8, <3>1
    <3>2. CASE done.status = "open"
      <4>1. RoundsLeft(settled)
        BY <1>4, <1>6, <1>8, <1>12, <3>2, Limits DEF RoundsLeft, Company
      <4> QED  BY <1>8, <4>1
    <3> QED  BY <1>9, <3>1, <3>2
  <2>3. CompanyInv(d) /\ Evolves(done, d)
    BY <1>9, <2>1, <2>2, WrittenKeeps
  <2> QED  BY <1>9, <2>3 DEF Evolves
<1> QED  BY <1>11, <1>12

LEMMA EvolvesBySelf ==
  ASSUME NEW co
  PROVE  Evolves(co, co)
BY DEF Evolves

\* playRound, with its early returns.
LEMMA PlayRoundKeeps ==
  ASSUME NEW co, CompanyInv(co), co.status = "open", ~co.asking,
         NEW roll, roll.end \in Phases, NEW d, d = PlayRound(co, roll)
  PROVE  CompanyInv(d) /\ Evolves(co, d)
<1>0. co \in Company /\ co.engine \in Engine
  BY DEF CompanyInv, Company
<1> DEFINE driven == IF roll.driven THEN Written(co) ELSE co
<1>1. /\ CompanyInv(driven) /\ Evolves(co, driven)
      /\ driven.status = "open" /\ ~driven.asking
  <2>1. CASE roll.driven
    <3>1. driven = Written(co)
      BY <2>1
    <3>2. Written(co).asking = co.asking
      BY <1>0 DEF Written, Company
    <3> HIDE DEF driven
    <3>3. CompanyInv(driven) /\ Evolves(co, driven) /\ driven.status = co.status
      BY <3>1, WrittenKeeps
    <3> QED  BY <3>1, <3>2, <3>3
  <2>2. CASE ~roll.driven
    BY <2>2, EvolvesBySelf
  <2> QED  BY <2>1, <2>2
<1>2. CASE co.engine.phase # "play"
  <2>1. d = co
    BY <1>2 DEF PlayRound
  <2> QED  BY <2>1, EvolvesBySelf
<1>3. CASE co.engine.phase = "play" /\ roll.throw = "over"
  <2> DEFINE e == InPhase(co.engine, "over")
             over == [co EXCEPT !.engine = e]
  <2>1. e \in Engine /\ e.next = co.engine.next /\ e.seats = co.engine.seats /\ e.phase = "over"
    BY <1>0 DEF InPhase, Engine, Phases
  <2>2. d = Written(over)
    BY <1>3 DEF PlayRound
  <2> HIDE DEF e
  <2>3. /\ over \in Company
        /\ over.status = co.status /\ over.engine = e /\ over.members = co.members
        /\ over.pending = co.pending /\ over.asking = co.asking
        /\ over.round = co.round /\ over.since = co.since
    BY <1>0, <2>1 DEF Company
  <2> HIDE DEF over
  <2>4. "over" \notin Deciding
    BY DEF Deciding
  <2>5. CompanyInv(over) /\ Evolves(co, over)
    BY <2>1, <2>3, <2>4
       DEF CompanyInv, MembersOK, SeatsAreLive, ChoicesAreCurrent, RoundsLeft, NobodyIdle, Asks,
           Evolves
  <2>6. CompanyInv(d) /\ Evolves(over, d)
    BY <2>2, <2>3, <2>5, WrittenKeeps
  <2> QED  BY <2>5, <2>6 DEF Evolves
<1>4. CASE co.engine.phase = "play" /\ roll.throw # "over" /\ roll.throw # "nothing"
  <2>1. d = driven
    BY <1>4 DEF PlayRound
  <2> HIDE DEF driven
  <2> QED  BY <1>1, <2>1
<1>5. CASE co.engine.phase = "play" /\ roll.throw = "nothing"
  <2>1. d = Round(co, roll)
    BY <1>5 DEF PlayRound
  <2> QED  BY <2>1, RoundKeeps
<1> QED  BY <1>2, <1>3, <1>4, <1>5

\* A company is only between entries with the question its engine needs.
LEMMA QuestionIsThere ==
  ASSUME NEW co, CompanyInv(co)
  PROVE  WithQuestion(co) = co
BY DEF WithQuestion, CompanyInv, Asks

\* The answer of the company is an entry of its log.
LEMMA ResolvedKeeps ==
  ASSUME NEW co, CompanyInv(co), co.status = "open", co.asking,
         NEW end \in Phases, NEW d, d = Resolved(co, end)
  PROVE  CompanyInv(d) /\ Evolves(co, d)
<1> DEFINE e == InPhase(co.engine, end)
           asked == [co EXCEPT !.asking = FALSE, !.votes = {}]
           answered == [asked EXCEPT !.engine = e]
<1>0. co \in Company /\ co.engine \in Engine /\ co.engine.phase \in Deciding
  BY DEF CompanyInv, Company, Asks
<1>1. e \in Engine /\ e.next = co.engine.next /\ e.seats = co.engine.seats
  BY <1>0 DEF InPhase, Engine
<1>2. d = Written(AfterEntry(answered))
  <2>1. asked.engine = co.engine
    BY <1>0 DEF Company
  <2> QED  BY <1>0, <2>1 DEF Resolved
<1> HIDE DEF e
<1>3. /\ answered \in Company
      /\ answered.status = co.status /\ answered.engine = e /\ answered.members = co.members
      /\ answered.pending = co.pending /\ ~answered.asking
      /\ answered.round = co.round /\ answered.since = co.since
  BY <1>0, <1>1 DEF Company
<1> HIDE DEF answered
<1>4. MidEntry(answered) /\ RoundsLeft(answered)
  BY <1>1, <1>3
     DEF CompanyInv, MidEntry, MembersOK, SeatsAreLive, ChoicesAreCurrent, RoundsLeft
<1>5. CompanyInv(d) /\ Evolves(answered, d)
  BY <1>2, <1>4, EntryKeeps
<1> QED  BY <1>3, <1>5 DEF Evolves

LEMMA RollsEndInAPhase ==
  ASSUME NEW co, NEW roll \in Rolls(co)
  PROVE  roll.end \in Phases
<1>1. CASE co.asking
  <2>1. PICK p \in AnswerEnds(co.engine) : roll = [NoRoll EXCEPT !.end = p]
    BY <1>1 DEF Rolls
  <2>2. roll.end = p
    BY <2>1 DEF NoRoll
  <2> QED  BY <2>2 DEF AnswerEnds, Phases, Deciding
<1>2. NoRoll.end = "play"
  BY DEF NoRoll
<1>3. CASE ~co.asking /\ co.engine.phase # "play"
  BY <1>2, <1>3 DEF Rolls, Phases
<1>4. CASE ~co.asking /\ co.engine.phase = "play"
  <2>1. roll \in PlayedRolls(co) \/ roll \in ThrownRolls(co)
    BY <1>4 DEF Rolls
  <2>2. CASE roll \in PlayedRolls(co)
    <3>1. \E silent \in Silences(co) : \E r \in RoundEnds(co.engine) : roll.end = r.end
      BY <2>2 DEF PlayedRolls
    <3> QED  BY <3>1 DEF RoundEnds, Phases, Deciding
  <2>3. CASE roll \in ThrownRolls(co)
    <3> DEFINE Of(driven, cause) == [NoRoll EXCEPT !.driven = driven, !.throw = cause]
               Was == {FALSE, Turns(co) # {}}
               Why == ThrowCauses(co) \cup {"over" : s \in Turns(co)}
               Thrown == {Of(driven, cause) : driven \in Was, cause \in Why}
    <3>1. \E driven, cause : roll = Of(driven, cause)
      <4>1. ThrownRolls(co) = Thrown
        BY DEF ThrownRolls
      <4> HIDE DEF Of, Was, Why, Thrown
      <4>2. roll \in Thrown
        BY <2>3, <4>1
      <4> QED  BY <4>2 DEF Thrown
    <3>2. roll.end = "play"
      BY <3>1 DEF NoRoll
    <3> QED  BY <3>2 DEF Phases
  <2> QED  BY <2>1, <2>2, <2>3
<1> QED  BY <1>1, <1>3, <1>4

LEMMA TickedKeeps ==
  ASSUME NEW co, CompanyInv(co), co.status = "open",
         NEW roll \in Rolls(co), NEW d, d = Ticked(co, roll)
  PROVE  CompanyInv(d) /\ Evolves(co, d)
<1> DEFINE x == IF co.asking THEN Resolved(co, roll.end) ELSE PlayRound(co, roll)
<1>1. CompanyInv(x) /\ Evolves(co, x)
  BY RollsEndInAPhase, ResolvedKeeps, PlayRoundKeeps
<1>2. d = WithQuestion(x)
  BY DEF Ticked
<1> HIDE DEF x
<1>3. d = x
  BY <1>1, <1>2, QuestionIsThere
<1> QED  BY <1>1, <1>3

\* A restart: what the store knew of the members, the rounds since the snapshot.
LEMMA RecoveredKeeps ==
  ASSUME NEW co, CompanyInv(co), co.status = "open", NEW d, d = Recovered(co)
  PROVE  /\ CompanyInv(d) /\ d.status = "open"
         /\ \A s \in Seats : /\ d.members[s].profile = co.members[s].profile
                             /\ d.members[s].left = co.members[s].left
<1> DEFINE m(s) == [co.members[s] EXCEPT !.misses = co.members[s].kept[1],
                                         !.auto = co.members[s].kept[2], !.rounds = 0]
           ms == [s \in Seats |-> m(s)]
           ps == [s \in Seats |-> NoChoice]
           x == [co EXCEPT !.members = ms, !.pending = ps, !.asking = FALSE, !.votes = {},
                           !.round = co.since]
<1>0. co \in Company /\ co.engine \in Engine
  BY DEF CompanyInv, Company
<1>1. ASSUME NEW s \in Seats
      PROVE  /\ m(s) \in Member
             /\ m(s).profile = co.members[s].profile
             /\ m(s).left = co.members[s].left
             /\ m(s).kept = co.members[s].kept
             /\ m(s).misses = co.members[s].kept[1] /\ m(s).auto = co.members[s].kept[2]
             /\ m(s).rounds = 0
  <2>1. co.members[s] \in Member
    BY <1>0 DEF Company
  <2>2. co.members[s].kept[1] \in 0..MissLimit /\ co.members[s].kept[2] \in BOOLEAN
    BY <2>1 DEF Member
  <2>3. 0 \in 0..ReleaseRounds
    BY Limits
  <2> QED  BY <2>1, <2>2, <2>3 DEF Member
<1>2. ms \in [Seats -> Member] /\ \A s \in Seats : ms[s] = m(s)
  BY <1>1
<1>3. ps \in [Seats -> Choice \cup {NoChoice}] /\ \A s \in Seats : ps[s] = NoChoice
  OBVIOUS
<1>4. d = WithQuestion(x)
  BY DEF Recovered
<1> HIDE DEF m, ms, ps
<1>5. /\ x \in Company
      /\ x.status = co.status /\ x.engine = co.engine /\ x.members = ms
      /\ x.pending = ps /\ x.asking = FALSE /\ x.round = co.since /\ x.since = co.since
  BY <1>0, <1>2, <1>3 DEF Company
<1> HIDE DEF x
<1>6. /\ d \in Company
      /\ d.status = "open" /\ d.engine = co.engine /\ d.members = ms
      /\ d.pending = ps /\ d.round = co.since /\ d.since = co.since
      /\ d.asking <=> co.engine.phase \in Deciding
  BY <1>4, <1>5, QuestionFields
<1>7. MembersOK(d)
  BY <1>1, <1>2, <1>3, <1>6 DEF CompanyInv, MembersOK
<1>8. SeatsAreLive(d) /\ NobodyIdle(d)
  <2>1. \A s \in co.engine.seats : s \in Seats
    BY <1>0 DEF Engine
  <2> QED  BY <1>1, <1>2, <1>6, <2>1, Limits DEF CompanyInv, SeatsAreLive, NobodyIdle, Idle
<1>9. ChoicesAreCurrent(d) /\ Asks(d)
  BY <1>3, <1>6 DEF ChoicesAreCurrent, Asks
<1>10. RoundsLeft(d)
  BY <1>0, <1>6, Limits DEF CompanyInv, RoundsLeft, Company
<1> QED  BY <1>1, <1>2, <1>6, <1>7, <1>8, <1>9, <1>10 DEF CompanyInv

-----------------------------------------------------------------------------
(* The messages of a player *)

LEMMA LeaveKeeps ==
  ASSUME NEW co, CompanyInv(co), co.status = "open", NEW s \in Seats,
         NEW d, d = Written(AfterEntry([co EXCEPT !.engine = Without(@, {s})]))
  PROVE  CompanyInv(d) /\ Evolves(co, d)
<1> DEFINE e == Without(co.engine, {s})
           x == [co EXCEPT !.engine = e]
<1>0. co \in Company /\ co.engine \in Engine
  BY DEF CompanyInv, Company
<1>1. /\ e \in Engine /\ e.next = co.engine.next /\ e.seats \subseteq co.engine.seats
      /\ e.phase \in {co.engine.phase, "over"}
  BY <1>0 DEF Without, Engine, Phases
<1>2. d = Written(AfterEntry(x))
  OBVIOUS
<1> HIDE DEF e
<1>3. /\ x \in Company
      /\ x.status = co.status /\ x.engine = e /\ x.members = co.members
      /\ x.pending = co.pending /\ x.asking = co.asking
      /\ x.round = co.round /\ x.since = co.since
  BY <1>0, <1>1 DEF Company
<1> HIDE DEF x
<1>4. MidEntry(x) /\ RoundsLeft(x)
  BY <1>1, <1>3
     DEF CompanyInv, MidEntry, MembersOK, SeatsAreLive, ChoicesAreCurrent, RoundsLeft, NobodyIdle,
         Asks
<1>5. CompanyInv(d) /\ Evolves(x, d)
  BY <1>2, <1>4, EntryKeeps
<1> QED  BY <1>3, <1>5 DEF Evolves

LEMMA ActKeeps ==
  ASSUME NEW co, CompanyInv(co), co.status = "open", ~co.asking, NEW s \in Seats,
         NEW end \in Phases,
         NEW d, d = Written(AfterEntry([Seen(co, s) EXCEPT !.engine = InPhase(@, end)]))
  PROVE  CompanyInv(d) /\ Evolves(co, d)
<1> DEFINE seen == Seen(co, s)
           e == InPhase(seen.engine, end)
           x == [seen EXCEPT !.engine = e]
<1>1. /\ CompanyInv(seen) /\ Evolves(co, seen) /\ seen.status = "open" /\ ~seen.asking
  BY SeenKeeps
<1>2. d = Written(AfterEntry(x))
  OBVIOUS
<1> HIDE DEF seen
<1>3. seen \in Company /\ seen.engine \in Engine
  BY <1>1 DEF CompanyInv, Company
<1>4. e \in Engine /\ e.next = seen.engine.next /\ e.seats = seen.engine.seats
  BY <1>3 DEF InPhase, Engine
<1> HIDE DEF e
<1>5. /\ x \in Company
      /\ x.status = seen.status /\ x.engine = e /\ x.members = seen.members
      /\ x.pending = seen.pending /\ x.asking = seen.asking
      /\ x.round = seen.round /\ x.since = seen.since
  BY <1>3, <1>4 DEF Company
<1> HIDE DEF x
<1>6. MidEntry(x) /\ RoundsLeft(x)
  BY <1>1, <1>4, <1>5
     DEF CompanyInv, MidEntry, MembersOK, SeatsAreLive, ChoicesAreCurrent, RoundsLeft
<1>7. CompanyInv(d) /\ Evolves(x, d)
  BY <1>2, <1>6, EntryKeeps
<1> QED  BY <1>1, <1>5, <1>7 DEF Evolves

\* The choice of a seat for the round the company is on.
Chosen(co, s, choice) ==
  [Seen(co, s) EXCEPT !.pending[s] = [choice |-> choice, round |-> co.round]]

LEMMA RoundActKeeps ==
  ASSUME NEW co, CompanyInv(co), co.status = "open", NEW s \in Seats,
         NEW choice \in Choices,
         NEW d, d = Chosen(co, s, choice)
  PROVE  /\ CompanyInv(d) /\ Evolves(co, d)
         /\ \A t \in Seats : d.members[t].left = co.members[t].left
<1> DEFINE seen == Seen(co, s)
           chosen == [choice |-> choice, round |-> co.round]
           ps == [seen.pending EXCEPT ![s] = chosen]
<1>1. /\ CompanyInv(seen) /\ Evolves(co, seen) /\ seen.status = "open"
      /\ seen.round = co.round /\ ~seen.members[s].auto
      /\ \A t \in Seats : seen.members[t].left = co.members[t].left
  BY SeenKeeps
<1>2. d = [seen EXCEPT !.pending = ps]
  BY DEF Chosen
<1> HIDE DEF seen
<1>3. seen \in Company /\ seen.pending \in [Seats -> Choice \cup {NoChoice}]
      /\ seen.engine \in Engine /\ co.round \in 0..MaxRounds
  BY <1>1 DEF CompanyInv, Company
<1>4. /\ ps \in [Seats -> Choice \cup {NoChoice}]
      /\ \A t \in Seats : ps[t] = IF t = s THEN chosen ELSE seen.pending[t]
      /\ chosen.round = seen.round
  BY <1>1, <1>3 DEF Choice
<1> HIDE DEF chosen, ps
<1>5. /\ d \in Company
      /\ d.status = seen.status /\ d.engine = seen.engine /\ d.members = seen.members
      /\ d.pending = ps /\ d.asking = seen.asking
      /\ d.round = seen.round /\ d.since = seen.since
  BY <1>2, <1>3, <1>4 DEF Company
<1>6. MembersOK(d)
  BY <1>1, <1>4, <1>5 DEF CompanyInv, MembersOK
<1>7. SeatsAreLive(d) /\ ChoicesAreCurrent(d) /\ RoundsLeft(d) /\ NobodyIdle(d) /\ Asks(d)
  BY <1>1, <1>4, <1>5
     DEF CompanyInv, SeatsAreLive, ChoicesAreCurrent, RoundsLeft, NobodyIdle, Asks
<1> QED  BY <1>1, <1>5, <1>6, <1>7 DEF CompanyInv, Evolves

LEMMA VoteKeeps ==
  ASSUME NEW co, CompanyInv(co), co.status = "open", NEW s \in Seats,
         NEW d, d = [Seen(co, s) EXCEPT !.votes = @ \cup {s}]
  PROVE  /\ CompanyInv(d) /\ Evolves(co, d)
         /\ d.status = "open" /\ d.asking = co.asking /\ d.engine = co.engine
<1> DEFINE seen == Seen(co, s)
<1>1. /\ CompanyInv(seen) /\ Evolves(co, seen) /\ seen.status = "open"
      /\ seen.asking = co.asking /\ seen.engine = co.engine
  BY SeenKeeps
<1> HIDE DEF seen
<1> DEFINE votes == seen.votes \cup {s}
<1>2. d = [seen EXCEPT !.votes = votes]
  BY DEF seen
<1>3. seen \in Company /\ votes \in SUBSET Seats
  BY <1>1 DEF CompanyInv, Company
<1> HIDE DEF votes
<1>4. /\ d \in Company
      /\ d.status = seen.status /\ d.engine = seen.engine /\ d.members = seen.members
      /\ d.pending = seen.pending /\ d.asking = seen.asking
      /\ d.round = seen.round /\ d.since = seen.since
  BY <1>2, <1>3 DEF Company
<1>5. CompanyInv(d)
  BY <1>1, <1>4
     DEF CompanyInv, MembersOK, SeatsAreLive, ChoicesAreCurrent, RoundsLeft, NobodyIdle, Asks
<1> QED  BY <1>1, <1>4, <1>5 DEF Evolves

\* A seat of the engine that is not idle is there after the entry too.
LEMMA AfterEntryStays ==
  ASSUME NEW co, MidEntry(co), co.engine.phase # "over",
         NEW s \in co.engine.seats, NEW d, d = AfterEntry(co)
  PROVE  d.status = "open" /\ ~d.members[s].left
<1> DEFINE gone == LiveSeats(co) \ co.engine.seats
           there == Departed(co, gone)
           r == IF IdleSeats(there) = {} THEN there ELSE Released(there)
<1>1. gone \in SUBSET Seats /\ gone \cap co.engine.seats = {} /\ s \in Seats
  BY DEF LiveSeats, MidEntry, Company, Engine
<1>2. /\ there \in Company /\ there.status = "open" /\ there.engine = co.engine
      /\ ~there.members[s].left
  BY <1>1, DepartedFields DEF MidEntry, SeatsAreLive
<1>3. d = WithQuestion(r)
  BY <1>2 DEF AfterEntry
<1> HIDE DEF there
<1>4. r \in Company /\ r.status = "open" /\ r.members = there.members
  BY <1>2, ReleasedFields
<1> HIDE DEF r
<1> QED  BY <1>2, <1>3, <1>4, QuestionFields

\* The newcomer gets the next seat, and keeps it.
Hired(co, p) ==
  Written(AfterEntry([co EXCEPT !.engine = Joined(co.engine),
                                !.members[co.engine.next] = NewMember(p)]))

LEMMA SeatKeeps ==
  ASSUME NEW co, CompanyInv(co), co.status = "open", CanJoin(co.engine),
         NEW p \in Profiles, NEW s, s = co.engine.next,
         NEW d, d = Hired(co, p)
  PROVE  /\ CompanyInv(d) /\ d.status = "open"
         /\ s \in Seats /\ co.members[s].profile = NoOne
         /\ d.members[s].profile = p /\ ~d.members[s].left
         /\ \A t \in Seats \ {s} :
              /\ d.members[t].profile = co.members[t].profile
              /\ co.members[t].left => d.members[t].left
<1> DEFINE e == Joined(co.engine)
           ms == [co.members EXCEPT ![s] = NewMember(p)]
           x == [co EXCEPT !.engine = e, !.members = ms]
           a == AfterEntry(x)
<1>0. co \in Company /\ co.engine \in Engine /\ co.members \in [Seats -> Member]
  BY DEF CompanyInv, Company
<1>1. s \in Seats /\ s + 1 \in 0..MaxSeats /\ co.engine.phase # "over"
  BY <1>0, MaxSeatsAssumption DEF CanJoin, Engine, Seats
<1>2. co.members[s].profile = NoOne
  BY <1>1, <1>0 DEF CompanyInv, MembersOK, Seats
<1>3. /\ e \in Engine /\ e.next = s + 1 /\ e.seats = co.engine.seats \cup {s}
      /\ e.phase = co.engine.phase
  BY <1>0, <1>1 DEF Joined, Engine
<1>4. /\ NewMember(p) \in Member
      /\ NewMember(p).profile = p /\ ~NewMember(p).left /\ ~NewMember(p).auto
      /\ NewMember(p).kept[2] = FALSE
  <2>1. 0 \in 0..MissLimit /\ 0 \in 0..ReleaseRounds
    BY Limits
  <2> QED  BY <2>1 DEF NewMember, NoMember, Member
<1>5. /\ ms \in [Seats -> Member]
      /\ \A t \in Seats : ms[t] = IF t = s THEN NewMember(p) ELSE co.members[t]
  BY <1>0, <1>4
<1>6. d = Written(a)
  BY DEF Hired
<1> HIDE DEF e, ms
<1>7. /\ x \in Company
      /\ x.status = co.status /\ x.engine = e /\ x.members = ms
      /\ x.pending = co.pending /\ x.asking = co.asking
      /\ x.round = co.round /\ x.since = co.since
  BY <1>0, <1>3, <1>5 DEF Company
<1> HIDE DEF x
<1>8. MembersOK(x)
  <2>1. p # NoOne
    BY NullsAssumption
  <2>2. \A t \in Seats : t >= s + 1 => t >= s /\ t # s
    BY <1>1 DEF Seats
  <2> QED  BY <1>3, <1>4, <1>5, <1>7, <2>1, <2>2 DEF CompanyInv, MembersOK
<1>9. MidEntry(x) /\ RoundsLeft(x)
  <2>1. \A t \in co.engine.seats : t \in Seats
    BY <1>0 DEF Engine
  <2>2. SeatsAreLive(x)
    BY <1>1, <1>3, <1>4, <1>5, <1>7, <2>1 DEF CompanyInv, SeatsAreLive
  <2>3. NobodyIdle(x)
    BY <1>1, <1>3, <1>4, <1>5, <1>7, <2>1 DEF CompanyInv, NobodyIdle, Idle
  <2>4. ChoicesAreCurrent(x) /\ RoundsLeft(x)
    BY <1>7 DEF CompanyInv, ChoicesAreCurrent, RoundsLeft
  <2> QED  BY <1>3, <1>7, <1>8, <2>2, <2>3, <2>4 DEF CompanyInv, MidEntry, RoundsLeft, Asks
<1>10. a.status = "open" /\ ~a.members[s].left
  BY <1>1, <1>3, <1>7, <1>9, AfterEntryStays
<1>11. CompanyInv(a) /\ Evolves(x, a)
  BY <1>9, AfterEntryKeeps
<1> HIDE DEF a
<1>12. CompanyInv(d) /\ Evolves(a, d) /\ d.status = "open" /\ ~d.members[s].left
  <2>1. a.status # "unborn"
    BY <1>10
  <2>2. /\ CompanyInv(d) /\ Evolves(a, d) /\ d.status = a.status
        /\ \A t \in Seats : d.members[t].left = a.members[t].left
    BY <1>6, <1>11, <2>1, WrittenKeeps
  <2> QED  BY <1>1, <1>10, <2>2
<1>13. \A t \in Seats :
         /\ d.members[t].profile = ms[t].profile
         /\ ms[t].left => d.members[t].left
  BY <1>7, <1>11, <1>12 DEF Evolves
<1>14. d.members[s].profile = p
  BY <1>1, <1>4, <1>5, <1>13
<1>15. \A t \in Seats \ {s} : ms[t] = co.members[t]
  BY <1>5
<1> QED  BY <1>1, <1>2, <1>12, <1>13, <1>14, <1>15

-----------------------------------------------------------------------------
(* The steps of the world *)

\* Companies evolve, and whoever they let go holds no seat any more.
Lets(after) == [p \in Profiles |-> IF p \in NewlyLeft(company, after) THEN NoSeat ELSE seated[p]]

CompaniesEvolve ==
  /\ company' \in [Companies -> Company]
  /\ \A c \in Companies : CompanyInv(company'[c]) /\ Evolves(company[c], company'[c])
  /\ seated' = Lets(company')
  /\ online' \subseteq Profiles /\ waiting' \subseteq Profiles

LEMMA EvolvingKeeps ==
  ASSUME WorldInv, CompaniesEvolve
  PROVE  WorldInv'
<1> USE DEF CompaniesEvolve
<1>1. TypeOK'
  BY DEF WorldInv, TypeOK, Lets
<1>2. ASSUME NEW p \in Profiles, NEW c \in Companies, NEW s \in Seats
      PROVE  seated'[p] = <<c, s>> <=>
               /\ company'[c].status = "open"
               /\ company'[c].members[s].profile = p
               /\ ~company'[c].members[s].left
  <2>1. seated'[p] = IF p \in NewlyLeft(company, company') THEN NoSeat ELSE seated[p]
    BY DEF Lets
  <2>2. <<c, s>> # NoSeat
    BY NullsAssumption
  <2>3. /\ company'[c].members[s].profile = company[c].members[s].profile
        /\ company[c].members[s].left => company'[c].members[s].left
    BY DEF Evolves
  <2>4. /\ ~company[c].members[s].left => company[c].status = "open"
        /\ ~company'[c].members[s].left => company'[c].status = "open"
    BY DEF WorldInv, CompanyInv, MembersOK
  <2>5. seated[p] = <<c, s>> <=>
          company[c].members[s].profile = p /\ ~company[c].members[s].left
    BY <2>4 DEF WorldInv, SeatedMatchesMembers
  <2>6. ASSUME p \in NewlyLeft(company, company'), seated[p] = <<c, s>>
        PROVE  company'[c].members[s].left
    <3>1. PICK d \in Companies, t \in Seats :
            /\ company[d].members[t].profile = p
            /\ ~company[d].members[t].left
            /\ company'[d].members[t].left
      BY <2>6 DEF NewlyLeft
    <3>2. seated[p] = <<d, t>>
      BY <3>1 DEF WorldInv, SeatedMatchesMembers, CompanyInv, MembersOK
    <3> QED  BY <2>6, <3>1, <3>2
  <2>7. ASSUME p \notin NewlyLeft(company, company'), seated[p] = <<c, s>>
        PROVE  ~company'[c].members[s].left
    BY <2>5, <2>7 DEF NewlyLeft
  <2>8. p \in NewlyLeft(company, company') => seated'[p] # <<c, s>>
    BY <2>1, <2>2
  <2> QED  BY <2>1, <2>3, <2>4, <2>5, <2>6, <2>7, <2>8
<1>3. SeatedMatchesMembers'
  BY <1>2 DEF SeatedMatchesMembers
<1> QED  BY <1>1, <1>3 DEF WorldInv

LEMMA BecomesEvolves ==
  ASSUME WorldInv, NEW c \in Companies, NEW co, CompanyInv(co), Evolves(company[c], co),
         Becomes(c, co), UNCHANGED <<online, waiting>>
  PROVE  CompaniesEvolve
<1>1. company' = [company EXCEPT ![c] = co] /\ seated' = Lets(company')
  BY DEF Becomes, Lets
<1>2. company \in [Companies -> Company] /\ co \in Company
  BY DEF WorldInv, TypeOK, CompanyInv
<1>3. company' \in [Companies -> Company]
  BY <1>1, <1>2
<1>4. \A d \in Companies : company'[d] = IF d = c THEN co ELSE company[d]
  BY <1>1, <1>2
<1>5. \A d \in Companies : CompanyInv(company'[d]) /\ Evolves(company[d], company'[d])
  BY <1>4, EvolvesBySelf DEF WorldInv
<1> QED  BY <1>1, <1>3, <1>5 DEF CompaniesEvolve, WorldInv, TypeOK

\* Whoever holds a seat is the member of an open company there.
LEMMA SeatedIsOpen ==
  ASSUME WorldInv, NEW p \in Profiles, NEW c \in Companies, NEW s \in Seats,
         seated[p] = <<c, s>>
  PROVE  CompanyInv(company[c]) /\ company[c].status = "open"
BY DEF WorldInv, SeatedMatchesMembers

LEMMA LeaveEvolves ==
  ASSUME WorldInv, NEW p \in Profiles, Leave(p)
  PROVE  CompaniesEvolve
<1>1. PICK c \in Companies, s \in Seats :
        /\ seated[p] = <<c, s>>
        /\ Becomes(c, Written(AfterEntry([company[c] EXCEPT !.engine = Without(@, {s})])))
        /\ UNCHANGED <<online, waiting>>
  BY DEF Leave
<1> QED  BY <1>1, SeatedIsOpen, LeaveKeeps, BecomesEvolves

LEMMA ActEvolves ==
  ASSUME WorldInv, NEW p \in Profiles, Act(p)
  PROVE  CompaniesEvolve
<1>1. PICK c \in Companies, s \in Seats :
        /\ seated[p] = <<c, s>> /\ ~company[c].asking
        /\ \E end \in ActEnds :
             Becomes(c, Written(AfterEntry([Seen(company[c], s) EXCEPT !.engine = InPhase(@, end)])))
        /\ UNCHANGED <<online, waiting>>
  BY DEF Act, HoldsSeat
<1>2. PICK end \in ActEnds :
        Becomes(c, Written(AfterEntry([Seen(company[c], s) EXCEPT !.engine = InPhase(@, end)])))
  BY <1>1
<1>3. end \in Phases
  BY DEF ActEnds, Phases, Deciding
<1> QED  BY <1>1, <1>2, <1>3, SeatedIsOpen, ActKeeps, BecomesEvolves

LEMMA VoteEvolves ==
  ASSUME WorldInv, NEW p \in Profiles, Vote(p)
  PROVE  CompaniesEvolve
<1>1. PICK c \in Companies, s \in Seats :
        /\ seated[p] = <<c, s>> /\ company[c].asking
        /\ LET voted == [Seen(company[c], s) EXCEPT !.votes = @ \cup {s}]
           IN IF AllVoted(voted)
              THEN \E end \in AnswerEnds(voted.engine) : Becomes(c, Resolved(voted, end))
              ELSE Becomes(c, voted)
        /\ UNCHANGED <<online, waiting>>
  BY DEF Vote, HoldsSeat
<1> DEFINE voted == [Seen(company[c], s) EXCEPT !.votes = @ \cup {s}]
<1>2. /\ CompanyInv(voted) /\ Evolves(company[c], voted)
      /\ voted.status = "open" /\ voted.asking
  BY <1>1, SeatedIsOpen, VoteKeeps
<1>3. IF AllVoted(voted)
      THEN \E end \in AnswerEnds(voted.engine) : Becomes(c, Resolved(voted, end))
      ELSE Becomes(c, voted)
  BY <1>1
<1> HIDE DEF voted
<1>4. CASE Becomes(c, voted)
  BY <1>1, <1>2, <1>4, BecomesEvolves
<1>5. ASSUME NEW end \in AnswerEnds(voted.engine), Becomes(c, Resolved(voted, end))
      PROVE  CompaniesEvolve
  <2>1. end \in Phases
    BY <1>5 DEF AnswerEnds, Phases, Deciding
  <2>2. CompanyInv(Resolved(voted, end)) /\ Evolves(voted, Resolved(voted, end))
    BY <1>2, <2>1, ResolvedKeeps
  <2>3. Evolves(company[c], Resolved(voted, end))
    BY <1>2, <2>2 DEF Evolves
  <2> QED  BY <1>1, <1>5, <2>2, <2>3, BecomesEvolves
<1> QED  BY <1>3, <1>4, <1>5

LEMMA RoundActEvolves ==
  ASSUME WorldInv, NEW p \in Profiles, NEW r \in 0..MaxRounds, NEW choice \in Choices,
         RoundAct(p, r, choice)
  PROVE  CompaniesEvolve
<1>1. PICK c \in Companies, s \in Seats :
        /\ seated[p] = <<c, s>> /\ r = company[c].round
        /\ company' = [company EXCEPT ![c] =
             [Seen(company[c], s) EXCEPT !.pending[s] = [choice |-> choice, round |-> r]]]
        /\ UNCHANGED <<seated, online, waiting>>
  BY DEF RoundAct, HoldsSeat
<1> DEFINE co == Chosen(company[c], s, choice)
<1>2. /\ CompanyInv(co) /\ Evolves(company[c], co)
      /\ \A t \in Seats : co.members[t].left = company[c].members[t].left
  BY <1>1, SeatedIsOpen, RoundActKeeps
<1>3. company' = [company EXCEPT ![c] = co]
  BY <1>1 DEF Chosen
<1> HIDE DEF co
<1>4. NewlyLeft(company, company') = {}
  BY <1>2, <1>3 DEF NewlyLeft, WorldInv, TypeOK
<1>5. seated = [q \in Profiles |-> seated[q]]
  BY DEF WorldInv, TypeOK
<1>6. Becomes(c, co)
  BY <1>1, <1>3, <1>4, <1>5 DEF Becomes
<1> QED  BY <1>1, <1>2, <1>6, BecomesEvolves

LEMMA TickEvolves ==
  ASSUME WorldInv, Tick
  PROVE  CompaniesEvolve
<1>1. PICK roll \in [Open -> UNION {Rolls(company[c]) : c \in Open}] :
        LET after == [c \in Companies |->
                       IF c \in Open THEN Ticked(company[c], roll[c]) ELSE company[c]]
        IN /\ \A c \in Open : roll[c] \in Rolls(company[c])
           /\ company' = after
           /\ seated' = Lets(after)
  BY DEF Tick, Lets
<1>2. /\ \A c \in Open : roll[c] \in Rolls(company[c])
      /\ company' = [c \in Companies |->
                       IF c \in Open THEN Ticked(company[c], roll[c]) ELSE company[c]]
      /\ seated' = Lets(company')
  BY <1>1
<1>3. ASSUME NEW c \in Companies
      PROVE  CompanyInv(company'[c]) /\ Evolves(company[c], company'[c])
  <2>1. company'[c] = IF c \in Open THEN Ticked(company[c], roll[c]) ELSE company[c]
    BY <1>2
  <2>2. c \in Open => roll[c] \in Rolls(company[c]) /\ company[c].status = "open"
    BY <1>2 DEF Open
  <2>3. CompanyInv(company[c])
    BY DEF WorldInv
  <2>4. CASE c \in Open
    BY <2>1, <2>2, <2>3, <2>4, TickedKeeps
  <2>5. CASE c \notin Open
    BY <2>1, <2>3, <2>5, EvolvesBySelf
  <2> QED  BY <2>4, <2>5
<1>4. company' \in [Companies -> Company]
  BY <1>2, <1>3 DEF CompanyInv
<1> QED  BY <1>2, <1>3, <1>4 DEF CompaniesEvolve, Tick, WorldInv, TypeOK

\* Somebody who holds no seat is given one nobody was ever given, in a company
\* which becomes co and lets some of its members go.
SitsDown(p, c, s, co, gone) ==
  /\ seated[p] = NoSeat
  /\ company[c].status \in {"open", "unborn"} /\ company[c].members[s].profile = NoOne
  /\ CompanyInv(co) /\ co.status = "open"
  /\ co.members[s].profile = p /\ ~co.members[s].left
  /\ \A t \in Seats \ {s} :
       /\ co.members[t].profile = company[c].members[t].profile
       /\ company[c].members[t].left => co.members[t].left
  /\ company' = [company EXCEPT ![c] = co]
  /\ gone = NewlyLeft(company, company')
  /\ seated' = [q \in Profiles |-> IF q = p THEN <<c, s>>
                                   ELSE IF q \in gone THEN NoSeat ELSE seated[q]]
  /\ waiting' = waiting \ {p} /\ online' = online

LEMMA NewcomerSits ==
  ASSUME WorldInv,
         NEW p \in Profiles, NEW c \in Companies, NEW s \in Seats, NEW co, NEW gone,
         SitsDown(p, c, s, co, gone)
  PROVE  WorldInv' /\ gone \in SUBSET Profiles /\ Sitting!Sit(p, <<c, s>>, gone)
<1> USE DEF SitsDown
<1>1. /\ company' \in [Companies -> Company]
      /\ \A d \in Companies : company'[d] = IF d = c THEN co ELSE company[d]
  BY DEF WorldInv, TypeOK, CompanyInv
<1>2. \A d \in Companies : CompanyInv(company'[d])
  BY <1>1 DEF WorldInv
<1>3. seated' \in [Profiles -> (Companies \X Seats) \cup {NoSeat}]
  BY DEF WorldInv, TypeOK
<1>4. TypeOK'
  BY <1>1, <1>3 DEF WorldInv, TypeOK
<1>5. \A d \in Companies, t \in Seats : <<d, t>> # <<c, s>> =>
        /\ company'[d].members[t].profile = company[d].members[t].profile
        /\ company[d].members[t].left => company'[d].members[t].left
  BY <1>1
<1>6. ASSUME NEW q \in Profiles, NEW d \in Companies, NEW t \in Seats
      PROVE  seated'[q] = <<d, t>> <=>
               /\ company'[d].status = "open"
               /\ company'[d].members[t].profile = q
               /\ ~company'[d].members[t].left
  <2>1. /\ ~company[d].members[t].left => company[d].status = "open"
        /\ ~company'[d].members[t].left => company'[d].status = "open"
    BY <1>2 DEF WorldInv, CompanyInv, MembersOK
  <2>2. seated[q] = <<d, t>> <=>
          company[d].members[t].profile = q /\ ~company[d].members[t].left
    BY <2>1 DEF WorldInv, SeatedMatchesMembers
  <2>3. <<d, t>> # NoSeat
    BY NullsAssumption
  <2>4. CASE <<d, t>> = <<c, s>>
    <3>1. d = c /\ t = s
      BY <2>4
    <3>2. seated[q] # <<d, t>>
      BY <2>2, <3>1, NullsAssumption
    <3> QED  BY <1>1, <2>1, <2>3, <3>1, <3>2
  <2>5. CASE <<d, t>> # <<c, s>> /\ q = p
    BY <1>5, <2>2, <2>3, <2>5
  <2>6. CASE <<d, t>> # <<c, s>> /\ q # p
    <3>1. seated'[q] = IF q \in gone THEN NoSeat ELSE seated[q]
      BY <2>6
    <3>2. ASSUME q \in gone, seated[q] = <<d, t>>
          PROVE  company'[d].members[t].left
      <4>1. PICK f \in Companies, u \in Seats :
              /\ company[f].members[u].profile = q
              /\ ~company[f].members[u].left
              /\ company'[f].members[u].left
        BY <3>2 DEF NewlyLeft
      <4>2. seated[q] = <<f, u>>
        BY <4>1 DEF WorldInv, SeatedMatchesMembers, CompanyInv, MembersOK
      <4> QED  BY <3>2, <4>1, <4>2
    <3>3. ASSUME q \notin gone, seated[q] = <<d, t>>
          PROVE  ~company'[d].members[t].left
      BY <2>2, <3>3 DEF NewlyLeft
    <3> QED  BY <1>5, <2>1, <2>2, <2>3, <2>6, <3>1, <3>2, <3>3
  <2> QED  BY <2>4, <2>5, <2>6
<1>7. SeatedMatchesMembers'
  BY <1>6 DEF SeatedMatchesMembers
<1>8. Sitting!Sit(p, <<c, s>>, gone)
  <2>1. Sitting!IsFresh(<<c, s>>)
    BY DEF Sitting!IsFresh
  <2>2. seated' = [Sitting!Unseat(gone) EXCEPT ![p] = <<c, s>>]
    BY DEF Sitting!Unseat
  <2>3. ASSUME NEW slot \in Companies \X Seats
        PROVE  (company'[slot[1]].members[slot[2]].profile # NoOne
                  \/ company'[slot[1]].status = "gone")
               <=> \/ company[slot[1]].members[slot[2]].profile # NoOne
                   \/ company[slot[1]].status = "gone"
                   \/ slot = <<c, s>>
    <3>1. PICK d \in Companies, t \in Seats : slot = <<d, t>>
      OBVIOUS
    <3>2. slot[1] = d /\ slot[2] = t
      BY <3>1
    <3> QED  BY <1>1, <1>5, <3>1, <3>2, NullsAssumption
  <2> DEFINE used == {slot \in Companies \X Seats :
                        \/ company[slot[1]].members[slot[2]].profile # NoOne
                        \/ company[slot[1]].status = "gone"}
             after == {slot \in Companies \X Seats :
                        \/ company'[slot[1]].members[slot[2]].profile # NoOne
                        \/ company'[slot[1]].status = "gone"}
  <2>4. after = used \cup {<<c, s>>}
    BY <2>3
  <2> QED  BY <2>1, <2>2, <2>4 DEF Sitting!Sit
<1>9. WorldInv'
  BY <1>2, <1>4, <1>7 DEF WorldInv
<1>10. gone \in SUBSET Profiles
  BY DEF NewlyLeft
<1> QED  BY <1>8, <1>9, <1>10

LEMMA SeatStep ==
  ASSUME WorldInv, NEW p \in Profiles, NEW c \in Companies, seated[p] = NoSeat, Seat(p, c)
  PROVE  WorldInv' /\ Sitting!SeatingNext
<1>1. PICK s, co, gone :
        /\ s = company[c].engine.next
        /\ co = Hired(company[c], p)
        /\ gone = NewlyLeft(company, company')
  OBVIOUS
<1>2. /\ company[c].status = "open" /\ CanJoin(company[c].engine)
      /\ company' = [company EXCEPT ![c] = co]
      /\ seated' = [q \in Profiles |-> IF q = p THEN <<c, s>>
                                       ELSE IF q \in gone THEN NoSeat ELSE seated[q]]
      /\ waiting' = waiting \ {p} /\ online' = online
  BY <1>1 DEF Seat, Hired
<1>3. /\ CompanyInv(co) /\ co.status = "open"
      /\ s \in Seats /\ company[c].members[s].profile = NoOne
      /\ co.members[s].profile = p /\ ~co.members[s].left
      /\ \A t \in Seats \ {s} :
           /\ co.members[t].profile = company[c].members[t].profile
           /\ company[c].members[t].left => co.members[t].left
  BY <1>1, <1>2, SeatKeeps DEF WorldInv
<1>4. WorldInv' /\ gone \in SUBSET Profiles /\ Sitting!Sit(p, <<c, s>>, gone)
  <2>1. SitsDown(p, c, s, co, gone)
    BY <1>1, <1>2, <1>3 DEF SitsDown
  <2> QED  BY <1>3, <2>1, NewcomerSits
<1>5. <<c, s>> \in Companies \X Seats
  BY <1>3
<1>6. Sitting!SeatingNext
  BY <1>4, <1>5 DEF Sitting!SeatingNext
<1> QED  BY <1>4, <1>6

\* A company's first state, with its founder in seat 0.
Founded(p) ==
  [Unborn EXCEPT !.status = "open", !.engine = Started, !.members[0] = NewMember(p)]

LEMMA UnbornFields ==
  /\ 0 \in Seats
  /\ Unborn \in Company
  /\ Unborn.engine.next = 0 /\ Unborn.engine.phase = "play" /\ ~Unborn.asking
  /\ Unborn.status = "unborn" /\ Unborn.round = 0 /\ Unborn.since = 0
  /\ \A s \in Seats : Unborn.members[s] = NoMember /\ Unborn.pending[s] = NoChoice
  /\ NoMember \in Member
  /\ NoMember.profile = NoOne /\ NoMember.left /\ ~NoMember.auto /\ NoMember.kept[2] = FALSE
<1> DEFINE ms == [s \in Seats |-> NoMember]
           ps == [s \in Seats |-> NoChoice]
           e == [Started EXCEPT !.seats = {}, !.next = 0]
<1>1. 0 \in Seats /\ 0 \in 0..MaxSeats
  BY MaxSeatsAssumption DEF Seats
<1>2. /\ 0 \in 0..MissLimit /\ 0 \in 0..ReleaseRounds /\ 0 \in 0..MaxRounds
      /\ 0 \in 0..(MaxRounds + 1)
  BY Limits
<1>3. /\ NoMember \in Member
      /\ NoMember.profile = NoOne /\ NoMember.left /\ ~NoMember.auto /\ NoMember.kept[2] = FALSE
  BY <1>2 DEF NoMember, Member
<1>4. ms \in [Seats -> Member] /\ ps \in [Seats -> Choice \cup {NoChoice}]
  BY <1>3
<1>5. e \in Engine /\ e.next = 0 /\ e.phase = "play"
  BY <1>1 DEF Started, Engine, Phases
<1>6. \A s \in Seats : ms[s] = NoMember /\ ps[s] = NoChoice
  OBVIOUS
<1>7. Unborn = [status |-> "unborn", engine |-> e, members |-> ms, pending |-> ps,
                asking |-> FALSE, votes |-> {}, round |-> 0, since |-> 0, played |-> 0]
  BY DEF Unborn
<1> HIDE DEF ms, ps, e
<1>8. Unborn \in Company
  BY <1>2, <1>4, <1>5, <1>7 DEF Company
<1> QED  BY <1>1, <1>3, <1>5, <1>6, <1>7, <1>8

LEMMA FoundedFields ==
  ASSUME NEW p \in Profiles, NEW d, d = Founded(p)
  PROVE  /\ CompanyInv(d) /\ d.status = "open"
         /\ d.members[0].profile = p /\ ~d.members[0].left
         /\ \A s \in Seats \ {0} : d.members[s] = NoMember
<1> DEFINE ms == [Unborn.members EXCEPT ![0] = NewMember(p)]
<1>1. /\ NewMember(p) \in Member
      /\ NewMember(p).profile = p /\ ~NewMember(p).left /\ ~NewMember(p).auto
      /\ NewMember(p).kept[2] = FALSE
  BY UnbornFields DEF NewMember, Member
<1>2. Unborn.members \in [Seats -> Member]
  BY UnbornFields DEF Company
<1>3. /\ ms \in [Seats -> Member]
      /\ \A s \in Seats : ms[s] = IF s = 0 THEN NewMember(p) ELSE NoMember
  BY <1>1, <1>2, UnbornFields
<1>4. Started \in Engine /\ Started.next = 1 /\ Started.seats = {0} /\ Started.phase = "play"
  BY MaxSeatsAssumption DEF Started, Engine, Phases, Seats
<1>5. d = [Unborn EXCEPT !.status = "open", !.engine = Started, !.members = ms]
  BY UnbornFields DEF Founded, Company
<1> HIDE DEF ms
<1>6. /\ d \in Company
      /\ d.status = "open" /\ d.engine = Started /\ d.members = ms
      /\ d.pending = Unborn.pending /\ ~d.asking /\ d.round = 0 /\ d.since = 0
  BY <1>3, <1>4, <1>5, UnbornFields DEF Company
<1>7. MembersOK(d)
  <2>1. p # NoOne
    BY NullsAssumption
  <2>2. \A s \in Seats : s >= 1 => s # 0
    BY DEF Seats
  <2> QED  BY <1>1, <1>3, <1>4, <1>6, <2>1, <2>2, UnbornFields DEF MembersOK
<1>8. SeatsAreLive(d) /\ NobodyIdle(d)
  BY <1>1, <1>3, <1>4, <1>6, UnbornFields DEF SeatsAreLive, NobodyIdle, Idle
<1>9. ChoicesAreCurrent(d) /\ RoundsLeft(d) /\ Asks(d)
  BY <1>4, <1>6, UnbornFields, Limits DEF ChoicesAreCurrent, RoundsLeft, Asks, Deciding
<1> QED  BY <1>1, <1>3, <1>6, <1>7, <1>8, <1>9, UnbornFields DEF CompanyInv

LEMMA CreateStep ==
  ASSUME WorldInv, NEW p \in Profiles, NEW c \in Companies, CreateCompany(p, c)
  PROVE  WorldInv' /\ Sitting!SeatingNext
<1>1. PICK co, gone : co = Founded(p) /\ gone = NewlyLeft(company, company')
  OBVIOUS
<1>2. company[c] = Unborn /\ company \in [Companies -> Company]
  BY DEF CreateCompany, WorldInv, CompanyInv, TypeOK
<1>3. /\ seated[p] = NoSeat
      /\ company' = [company EXCEPT ![c] = co]
      /\ seated' = [seated EXCEPT ![p] = <<c, 0>>]
      /\ waiting' = waiting \ {p} /\ online' = online
  BY <1>1, <1>2 DEF CreateCompany, Founded
<1>4. /\ CompanyInv(co) /\ co.status = "open"
      /\ co.members[0].profile = p /\ ~co.members[0].left
      /\ \A s \in Seats \ {0} : co.members[s] = NoMember
  BY <1>1, FoundedFields
<1>5. gone = {}
  <2>1. \A d \in Companies : company'[d] = IF d = c THEN co ELSE company[d]
    BY <1>2, <1>3
  <2> QED  BY <1>1, <1>2, <2>1, UnbornFields DEF NewlyLeft
<1>6. seated' = [q \in Profiles |-> IF q = p THEN <<c, 0>>
                                   ELSE IF q \in gone THEN NoSeat ELSE seated[q]]
  BY <1>3, <1>5 DEF WorldInv, TypeOK
<1>7. SitsDown(p, c, 0, co, gone)
  BY <1>1, <1>2, <1>3, <1>4, <1>6, UnbornFields DEF SitsDown
<1>8. WorldInv' /\ gone \in SUBSET Profiles /\ Sitting!Sit(p, <<c, 0>>, gone)
  BY <1>7, NewcomerSits, UnbornFields
<1>9. <<c, 0>> \in Companies \X Seats
  BY UnbornFields
<1>10. Sitting!SeatingNext
  BY <1>8, <1>9 DEF Sitting!SeatingNext
<1> QED  BY <1>8, <1>10

\* Companies that evolve give no seat to anybody.
LEMMA EvolvingFrees ==
  ASSUME WorldInv, CompaniesEvolve
  PROVE  Sitting!SeatingNext
<1>1. PICK gone : gone = NewlyLeft(company, company')
  OBVIOUS
<1>2. gone \in SUBSET Profiles
  BY <1>1 DEF NewlyLeft
<1>3. \A c \in Companies, s \in Seats :
        /\ company'[c].members[s].profile = company[c].members[s].profile
        /\ company'[c].status = "gone" <=> company[c].status = "gone"
  BY DEF CompaniesEvolve, Evolves
<1>4. \A slot \in Companies \X Seats :
        /\ company'[slot[1]].members[slot[2]].profile = company[slot[1]].members[slot[2]].profile
        /\ company'[slot[1]].status = "gone" <=> company[slot[1]].status = "gone"
  BY <1>3
<1>5. Sitting!Free(gone)
  BY <1>1, <1>4 DEF Sitting!Free, Sitting!Unseat, CompaniesEvolve, Lets
<1> QED  BY <1>2, <1>5 DEF Sitting!SeatingNext

LEMMA GoneFields ==
  ASSUME NEW d, d = [Unborn EXCEPT !.status = "gone"]
  PROVE  /\ CompanyInv(d) /\ d.status = "gone"
         /\ \A s \in Seats : d.members[s] = NoMember
<1>1. /\ d \in Company /\ d.status = "gone" /\ d.members = Unborn.members
      /\ d.engine = Unborn.engine
  BY UnbornFields DEF Company
<1> QED  BY <1>1, UnbornFields DEF CompanyInv, MembersOK

\* A closed company is forgotten: nobody sat there any more.
LEMMA DrainStep ==
  ASSUME WorldInv, Drain
  PROVE  WorldInv' /\ Sitting!SeatingNext
<1>1. \A c \in Companies :
        /\ company[c].status = "closed" =>
             /\ CompanyInv(company'[c]) /\ company'[c].status = "gone"
             /\ \A s \in Seats : company'[c].members[s] = NoMember
        /\ company[c].status # "closed" => company'[c] = company[c]
  BY GoneFields DEF Drain
<1>2. \A c \in Companies : CompanyInv(company'[c])
  BY <1>1 DEF WorldInv
<1>3. TypeOK'
  <2>1. company' \in [Companies -> Company]
    BY <1>2 DEF Drain, CompanyInv
  <2> QED  BY <2>1 DEF WorldInv, TypeOK, Drain
<1>4. ASSUME NEW p \in Profiles, NEW c \in Companies, NEW s \in Seats
      PROVE  seated'[p] = <<c, s>> <=>
               /\ company'[c].status = "open"
               /\ company'[c].members[s].profile = p
               /\ ~company'[c].members[s].left
  BY <1>1 DEF WorldInv, SeatedMatchesMembers, Drain
<1>5. SeatedMatchesMembers'
  BY <1>4 DEF SeatedMatchesMembers
<1>6. PICK slots : slots = {slot \in Companies \X Seats : company[slot[1]].status = "closed"}
  OBVIOUS
<1>7. \A slot \in Companies \X Seats :
        (\/ company'[slot[1]].members[slot[2]].profile # NoOne
         \/ company'[slot[1]].status = "gone")
        <=> \/ company[slot[1]].members[slot[2]].profile # NoOne
            \/ company[slot[1]].status = "gone"
            \/ slot \in slots
  BY <1>1, <1>6
<1>8. Sitting!Retire(slots) /\ slots \in SUBSET (Companies \X Seats)
  BY <1>6, <1>7 DEF Sitting!Retire, Drain
<1>9. Sitting!SeatingNext
  BY <1>8 DEF Sitting!SeatingNext
<1> QED  BY <1>2, <1>3, <1>5, <1>9 DEF WorldInv

\* A restart moves nobody.
LEMMA RestartStep ==
  ASSUME WorldInv, Restart
  PROVE  WorldInv' /\ Sitting!SeatingNext
<1>1. \A c \in Companies :
        /\ c \in Open =>
             /\ CompanyInv(company'[c]) /\ company'[c].status = "open"
             /\ \A s \in Seats :
                  /\ company'[c].members[s].profile = company[c].members[s].profile
                  /\ company'[c].members[s].left = company[c].members[s].left
        /\ c \notin Open => company'[c] = company[c]
  BY RecoveredKeeps DEF Restart, WorldInv, Open
<1>2. \A c \in Companies :
        /\ CompanyInv(company'[c]) /\ company'[c].status = company[c].status
        /\ \A s \in Seats :
             /\ company'[c].members[s].profile = company[c].members[s].profile
             /\ company'[c].members[s].left = company[c].members[s].left
  BY <1>1 DEF WorldInv, Open
<1>3. TypeOK'
  <2>1. company' \in [Companies -> Company]
    BY <1>2 DEF Restart, CompanyInv
  <2> QED  BY <2>1 DEF WorldInv, TypeOK, Restart
<1>4. SeatedMatchesMembers'
  BY <1>2 DEF WorldInv, SeatedMatchesMembers, Restart
<1>5. \A slot \in Companies \X Seats :
        /\ company'[slot[1]].members[slot[2]].profile = company[slot[1]].members[slot[2]].profile
        /\ company'[slot[1]].status = company[slot[1]].status
  BY <1>2
<1>6. Sitting!Free({})
  BY <1>5 DEF Sitting!Free, Sitting!Unseat, Restart, WorldInv, TypeOK
<1>7. Sitting!SeatingNext
  BY <1>6 DEF Sitting!SeatingNext
<1> QED  BY <1>2, <1>3, <1>4, <1>7 DEF WorldInv

\* Coming, going and waiting in the lobby change no company and no seat.
LEMMA LobbyStep ==
  ASSUME WorldInv, UNCHANGED <<company, seated>>,
         online' \subseteq Profiles, waiting' \subseteq Profiles
  PROVE  WorldInv' /\ UNCHANGED Sitting!seatingVars
<1>1. WorldInv'
  BY DEF WorldInv, TypeOK, SeatedMatchesMembers
<1>2. UNCHANGED Sitting!seatingVars
  BY DEF Sitting!seatingVars
<1> QED  BY <1>1, <1>2

LEMMA WorldStep ==
  ASSUME WorldInv, [Next]_worldVars
  PROVE  WorldInv' /\ [Sitting!SeatingNext]_Sitting!seatingVars
<1>1. ASSUME NEW p \in Profiles, Connect(p) \/ Disconnect(p) \/ Wait(p) \/ Unwait(p)
      PROVE  WorldInv' /\ UNCHANGED Sitting!seatingVars
  <2>1. online \subseteq Profiles /\ waiting \subseteq Profiles
    BY DEF WorldInv, TypeOK
  <2>2. UNCHANGED <<company, seated>> /\ online' \subseteq Profiles /\ waiting' \subseteq Profiles
    BY <1>1, <2>1 DEF Connect, Disconnect, Wait, Unwait
  <2> QED  BY <2>2, LobbyStep
<1>2. ASSUME NEW p \in Profiles, NEW c \in Companies, CreateCompany(p, c)
      PROVE  WorldInv' /\ Sitting!SeatingNext
  BY <1>2, CreateStep
<1>3. ASSUME NEW p \in Profiles, NEW c \in Companies, JoinCompany(p, c)
      PROVE  WorldInv' /\ Sitting!SeatingNext
  BY <1>3, SeatStep DEF JoinCompany
<1>4. ASSUME NEW p \in Profiles, NEW q \in Profiles, Recruit(p, q)
      PROVE  WorldInv' /\ Sitting!SeatingNext
  <2>1. PICK c \in Companies : seated[q] = NoSeat /\ Seat(q, c)
    BY <1>4 DEF Recruit
  <2> QED  BY <2>1, SeatStep
<1>5. CompaniesEvolve => WorldInv' /\ Sitting!SeatingNext
  BY EvolvingKeeps, EvolvingFrees
<1>6. ASSUME NEW p \in Profiles, Leave(p) PROVE CompaniesEvolve
  BY <1>6, LeaveEvolves
<1>7. ASSUME NEW p \in Profiles, Act(p) PROVE CompaniesEvolve
  BY <1>7, ActEvolves
<1>8. ASSUME NEW p \in Profiles, NEW r \in 0..MaxRounds, NEW choice \in Choices,
             RoundAct(p, r, choice)
      PROVE  CompaniesEvolve
  BY <1>8, RoundActEvolves
<1>9. ASSUME NEW p \in Profiles, Vote(p) PROVE CompaniesEvolve
  BY <1>9, VoteEvolves
<1>10. Tick => CompaniesEvolve
  BY TickEvolves
<1>11. Drain \/ Restart => WorldInv' /\ Sitting!SeatingNext
  BY DrainStep, RestartStep
<1>12. UNCHANGED worldVars => WorldInv' /\ UNCHANGED Sitting!seatingVars
  BY LobbyStep DEF worldVars, WorldInv, TypeOK
<1> QED
  BY <1>1, <1>2, <1>3, <1>4, <1>5, <1>6, <1>7, <1>8, <1>9, <1>10, <1>11, <1>12
     DEF Next, PlayerMessage

LEMMA WorldStarts ==
  ASSUME Init
  PROVE  WorldInv /\ Sitting!SeatingInit
<1>1. \A c \in Companies : company[c] = Unborn
  BY DEF Init
<1>2. CompanyInv(Unborn)
  BY UnbornFields DEF CompanyInv, MembersOK
<1>3. TypeOK
  BY UnbornFields DEF Init, TypeOK
<1>4. SeatedMatchesMembers
  BY <1>1, UnbornFields, NullsAssumption DEF Init, SeatedMatchesMembers
<1>5. Sitting!SeatingInit
  BY <1>1, UnbornFields DEF Init, Sitting!SeatingInit
<1> QED  BY <1>1, <1>2, <1>3, <1>4, <1>5 DEF WorldInv

-----------------------------------------------------------------------------
(* Theorems *)

LEMMA WorldInvSays ==
  ASSUME WorldInv
  PROVE  TypeOK /\ SeatsAgree /\ CompanyIsCurrent /\ MachineForAbsent
<1>1. \A c \in Open : CompanyInv(company[c]) /\ company[c].status = "open"
  BY DEF WorldInv, Open
<1>2. SeatsHaveMembers
  BY <1>1 DEF SeatsHaveMembers, LiveSeats, CompanyInv, SeatsAreLive, Company, Engine
<1>3. CompanyIsCurrent
  BY <1>1 DEF CompanyIsCurrent, AskingWhenDeciding, PendingIsCurrent, CompanyInv, Asks, ChoicesAreCurrent
<1>4. MachineForAbsent
  BY <1>1 DEF MachineForAbsent, LiveSeats, CompanyInv, MembersOK
<1> QED  BY <1>2, <1>3, <1>4 DEF WorldInv, SeatsAgree

LEMMA WorldKeepsInv == Spec => []WorldInv
<1>1. Init => WorldInv
  BY WorldStarts
<1>2. WorldInv /\ [Next]_worldVars => WorldInv'
  BY WorldStep
<1> QED  BY <1>1, <1>2, PTL DEF Spec

\* The table of seats, the members of the companies and the seats of their
\* engines say the same, whatever players, ticks, releases and restarts do
\* (seat, leave, afterEntry, close, releaseIdleSeats, recover).
THEOREM SeatsAlwaysAgree == Spec => []SeatsAgree
BY WorldKeepsInv, WorldInvSays, PTL

\* A company asks exactly when its engine waits for an answer, and the choices
\* it keeps are for the round it is about to play (openQuestionIfNeeded,
\* resolveQuestion, playRound, recover).
THEOREM CompanyStaysCurrent == Spec => []CompanyIsCurrent
BY WorldKeepsInv, WorldInvSays, PTL

\* The machine holds no seat whose player has sent a choice, and none that has
\* not missed MissLimit rounds (settleMisses, seen, recover).
THEOREM MachinePlaysForAbsent == Spec => []MachineForAbsent
BY WorldKeepsInv, WorldInvSays, PTL

\* The world implements Seating: every handler gives one fresh seat to one free
\* player, or frees seats, or forgets a closed company, or moves nobody.
THEOREM WorldImplementsSeating == Spec => SeatingHolds
<1>1. Init => Sitting!SeatingInit
  BY WorldStarts
<1>2. WorldInv /\ [Next]_worldVars => [Sitting!SeatingNext]_Sitting!seatingVars
  BY WorldStep
<1> QED  BY <1>1, <1>2, WorldKeepsInv, PTL DEF Spec, SeatingHolds, Sitting!SeatingSpec

-----------------------------------------------------------------------------
(* What Seating promises, of the world *)

\* OneHolder is not inductive: a slot somebody holds could look fresh.
SeatingInv == Sitting!SeatingTypeOK /\ Sitting!HeldIsUsed /\ Sitting!OneHolder

\* Unseating some profiles moves nobody to another slot.
LEMMA UnseatKeeps ==
  ASSUME Sitting!SeatingTypeOK, NEW gone
  PROVE  /\ Sitting!Unseat(gone) \in [Profiles -> (Companies \X Seats) \cup {NoSeat}]
         /\ \A p \in Profiles : Sitting!Unseat(gone)[p] \in {seated[p], NoSeat}
BY DEF Sitting!Unseat, Sitting!SeatingTypeOK

LEMMA SeatingStep ==
  ASSUME SeatingInv, [Sitting!SeatingNext]_Sitting!seatingVars
  PROVE  SeatingInv'
<1>1. ASSUME NEW gone \in SUBSET Profiles, NEW p \in Profiles, NEW slot \in Companies \X Seats,
             Sitting!Sit(p, slot, gone)
      PROVE  SeatingInv'
  <2>1. Sitting!SeatingTypeOK'
    BY <1>1, UnseatKeeps DEF Sitting!Sit, SeatingInv, Sitting!SeatingTypeOK
  <2>2. \A q \in Profiles : seated'[q] = IF q = p THEN slot ELSE Sitting!Unseat(gone)[q]
    BY <1>1, UnseatKeeps DEF Sitting!Sit, SeatingInv
  <2>3. Sitting!HeldIsUsed'
    BY <1>1, <2>2, UnseatKeeps DEF Sitting!Sit, SeatingInv, Sitting!HeldIsUsed
  <2>4. \A q \in Profiles \ {p} : seated'[q] # slot
    BY <1>1, <2>2, UnseatKeeps, NullsAssumption
       DEF Sitting!Sit, Sitting!IsFresh, SeatingInv, Sitting!HeldIsUsed
  <2>5. Sitting!OneHolder'
    BY <2>2, <2>4, UnseatKeeps DEF SeatingInv, Sitting!OneHolder
  <2> QED  BY <2>1, <2>3, <2>5 DEF SeatingInv
<1>2. ASSUME NEW gone \in SUBSET Profiles, Sitting!Free(gone) PROVE SeatingInv'
  BY <1>2, UnseatKeeps
     DEF Sitting!Free, SeatingInv, Sitting!SeatingTypeOK, Sitting!HeldIsUsed, Sitting!OneHolder
<1>3. ASSUME NEW slots \in SUBSET (Companies \X Seats), Sitting!Retire(slots) PROVE SeatingInv'
  BY <1>3
     DEF Sitting!Retire, SeatingInv, Sitting!SeatingTypeOK, Sitting!HeldIsUsed, Sitting!OneHolder
<1>4. CASE UNCHANGED Sitting!seatingVars
  BY <1>4 DEF Sitting!seatingVars, SeatingInv, Sitting!SeatingTypeOK,
     Sitting!HeldIsUsed, Sitting!OneHolder
<1> QED  BY <1>1, <1>2, <1>3, <1>4 DEF Sitting!SeatingNext

\* A seat of the world has one holder, and the world never gives a held seat
\* to somebody else: requireFree, the seat numbers of joinSeat, and the one
\* afterEntry that unseats whoever the engine let go.
THEOREM SeatingIsSafe ==
  Spec => [](Sitting!SeatingTypeOK /\ Sitting!HeldIsUsed /\ Sitting!OneHolder)
<1>1. Sitting!SeatingInit => SeatingInv
  BY DEF Sitting!SeatingInit, SeatingInv, Sitting!SeatingTypeOK, Sitting!HeldIsUsed,
         Sitting!OneHolder
<1>2. SeatingInv /\ [Sitting!SeatingNext]_Sitting!seatingVars => SeatingInv'
  BY SeatingStep
<1> QED  BY <1>1, <1>2, WorldImplementsSeating, PTL
         DEF SeatingHolds, Sitting!SeatingSpec, SeatingInv
=============================================================================
