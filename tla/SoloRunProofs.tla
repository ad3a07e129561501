---------------------------- MODULE SoloRunProofs ----------------------------
(***************************************************************************)
(* A run played alone, whatever the balance, the team and the board: a     *)
(* full gauge ends it, the board agrees with the hand and the questions,   *)
(* every sprint is paid its months, and the types.                         *)
(*                                                                         *)
(* Three invariants: Gauge follows the engine to the few rules that run    *)
(* after the end; Board is what moves a ticket keeps of hands, questions   *)
(* and obstacles; Box counts turns and months, and needs Gauge to know     *)
(* that no turn is played by a run that is over.                           *)
(***************************************************************************)
EXTENDS SoloRun, WellFoundedInduction, TLAPS

-----------------------------------------------------------------------------
(* The gauge *)

\* What FullGaugeEnds needs: a gauge within its range, and a run that is over
\* only at the rules that ask nothing any more.
Gauge ==
  /\ quality \in 0..QualityMax
  /\ FullGaugeEnds
  /\ Over => step \in {"settle", "idle", "arrive", "more"}

\* What is asked of a run that is not over.
LEMMA NotOver ==
  /\ Ordinary # GameOver
  /\ \A k, t : Ask(k, t) = GameOver => k = "game_over"
  /\ \A kind : phase.kind = kind /\ kind # "game_over" => ~Over
  BY DEF Ordinary, GameOver, Ask, Over

\* lowerQuality() keeps the gauge in its range, and away from full.
LEMMA EasedGauge ==
  ASSUME quality \in 0..QualityMax
  PROVE  Eased \in 0..QualityMax /\ (quality # QualityMax => Eased # QualityMax)
  BY RunGauge DEF Eased

\* raiseQuality() keeps the gauge in its range and ends the run when it fills
\* it, if what it goes on with is not of a run that is over.
LEMMA SufferGauge ==
  ASSUME NEW n \in 0..1, NEW questions, NEW next, NEW ended,
         Gauge, GameOver \notin questions, ended \in {"settle", "arrive"},
         SufferThen(n, questions, next, ended)
  PROVE  Gauge'
  BY RunGauge DEF SufferThen, Gauge, FullGaugeEnds, Over

LEMMA SufferedGauge ==
  ASSUME NEW n \in 0..1, NEW questions, NEW next,
         Gauge, GameOver \notin questions, Suffer(n, questions, next)
  PROVE  Gauge'
  BY SufferGauge DEF Suffer

\* A step that leaves the gauge where it is, or eases it, and asks the player
\* something of a run that goes on.
LEMMA CalmGauge ==
  ASSUME Gauge, ~Over, quality' \in {quality, Eased}, phase' # GameOver
  PROVE  Gauge'
  BY EasedGauge, RunGauge DEF Gauge, FullGaugeEnds, Over

\* maybeNarrative() never ends the run.
LEMMA MayAskGoesOn == ~Over => GameOver \notin MayAsk
  BY NotOver DEF MayAsk, Over

\* recordIncident() ends the run when it fills the gauge.
LEMMA IncidentGauge ==
  ASSUME NEW next, Gauge, ~Over, Incident(next)
  PROVE  Gauge'
  BY SufferedGauge, MayAskGoesOn DEF Incident

\* The player's own actions.
LEMMA ActionGauge ==
  ASSUME Gauge,
         \/ StartTicket \/ Checkout \/ Commit \/ Fix \/ Review \/ Rest
         \/ SubmitAccepted \/ SubmitRefused \/ MergeObstacle
         \/ Hire \/ AcquireAndBreak \/ HackWon \/ HackCaught \/ HackBroke
  PROVE  Gauge'
<1>1. Acts
  BY DEF StartTicket, Checkout, InHand, Commit, Fix, Review, Rest, Submits, SubmitAccepted,
         SubmitRefused, MergeObstacle, Hire, AcquireAndBreak, Hacks, HackWon, HackCaught, HackBroke
<1>2. ~Over
  BY <1>1, NotOver DEF Acts, Asked
<1>3. CASE StartTicket \/ Checkout \/ Commit \/ Fix \/ Review \/ MergeObstacle \/ Hire
  <2>1. UNCHANGED <<phase, quality>>
    BY <1>3 DEF StartTicket, Checkout, Commit, Fix, Review, MergeObstacle, Hire, SamePatience
  <2>. QED  BY <1>2, <2>1, CalmGauge DEF Over
<1>4. CASE Rest
  BY <1>2, <1>4, NotOver, SufferedGauge DEF Rest, TakesTurnAndPatience
<1>5. CASE SubmitAccepted
  BY <1>2, <1>5, NotOver, CalmGauge DEF SubmitAccepted
<1>6. CASE SubmitRefused
  BY <1>2, <1>6, NotOver, SufferedGauge DEF SubmitRefused
<1>7. CASE AcquireAndBreak
  BY <1>2, <1>7, IncidentGauge DEF AcquireAndBreak
<1>8. CASE HackWon
  BY <1>2, <1>8, CalmGauge DEF HackWon, Over
<1>9. CASE HackCaught
  BY <1>9 DEF HackCaught, IsFree, Gauge, FullGaugeEnds, Over
<1>10. CASE HackBroke
  BY <1>2, <1>10, IncidentGauge DEF HackBroke
<1>. QED  BY <1>3, <1>4, <1>5, <1>6, <1>7, <1>8, <1>9, <1>10

\* The answers to a question.
LEMMA AnswerGauge ==
  ASSUME Gauge,
         \/ MergeTicket \/ MergeConflicts \/ ResolveFails \/ ResolveLands
         \/ Resume \/ Followup
         \/ AnswerPatience \/ AnswerBug \/ AnswerDeal \/ AnswerDeparture \/ ChooseRelic
  PROVE  Gauge'
<1>1. ~Over
  BY NotOver DEF MergeTicket, MergeConflicts, ResolveFails, ResolveLands, Resume, Followup,
         Answered, AnswerPatience, AnswerBug, AnswerDeal, AnswerDeparture, ChooseRelic, Asked
<1>2. CASE MergeTicket \/ ResolveLands
  <2>1. phase' = Ordinary /\ quality' \in {quality, Eased}
    BY <1>2 DEF MergeTicket, ResolveLands, Lands
  <2>. QED  BY <1>1, <2>1, NotOver, CalmGauge
<1>3. CASE MergeConflicts \/ Followup
  BY <1>1, <1>3, NotOver, CalmGauge DEF MergeConflicts, Followup
<1>4. CASE ResolveFails
  BY <1>1, <1>4, CalmGauge DEF ResolveFails, SamePatience, Over
<1>5. CASE Resume \/ AnswerBug \/ AnswerDeal \/ AnswerDeparture
  BY <1>1, <1>5, NotOver, CalmGauge DEF Resume, AnswerBug, AnswerDeal, AnswerDeparture
<1>6. CASE AnswerPatience
  <2>1. CASE \E n \in 0..1 : Suffer(n, {Ordinary}, "settle")
    BY <2>1, NotOver, SufferedGauge
  <2>2. CASE quality' = Eased /\ phase' = Ordinary
    BY <1>1, <2>2, NotOver, CalmGauge
  <2>. QED  BY <1>6, <2>1, <2>2 DEF AnswerPatience
<1>7. CASE ChooseRelic
  <2>1. phase' = Ordinary /\ quality' \in {quality, Eased}
    BY <1>7 DEF ChooseRelic, Boost
  <2>. QED  BY <1>1, <2>1, NotOver, CalmGauge
<1>. QED  BY <1>2, <1>3, <1>4, <1>5, <1>6, <1>7

\* The loop of applyAction() and the end of a turn.
LEMMA TurnGauge ==
  ASSUME Gauge,
         \/ Hands \/ TurnPasses \/ ShipsEarly
         \/ Explodes \/ Holds \/ Takes \/ StartsWork \/ TeamWorks \/ TeamIsDone
         \/ Clock \/ Payday \/ BoxEnds \/ BurnsOut \/ TurnEnds
  PROVE  Gauge'
<1>1. CASE Hands
  BY <1>1 DEF Hands, At, GoesTo, Gauge, FullGaugeEnds, Over
<1>2. CASE TurnPasses \/ ShipsEarly
  <2>1. ~Over
    BY <1>2, NotOver DEF TurnPasses, ShipsEarly, Over
  <2>. QED  BY <1>2, <2>1, CalmGauge DEF TurnPasses, ShipsEarly, EndsSprint, GoesTo, Over
<1>3. CASE \/ Explodes \/ Holds \/ Takes \/ StartsWork \/ TeamIsDone
           \/ Clock \/ BoxEnds \/ TurnEnds
  <2>1. ~Over
    BY <1>3 DEF Explodes, Holds, Takes, StartsWork, TeamIsDone, Clock, BoxEnds, TurnEnds, At, Gauge
  <2>2. UNCHANGED <<phase, quality>>
    BY <1>3 DEF Explodes, Holds, Takes, StartsWork, TeamIsDone, Clock, BoxEnds, EndsSprint,
                TurnEnds, GoesTo, SamePatience
  <2>. QED  BY <2>1, <2>2, CalmGauge DEF Over
<1>4. CASE TeamWorks
  <2>1. ~Over
    BY <1>4 DEF TeamWorks, At, Gauge
  <2>2. quality' \in {quality, Eased} /\ UNCHANGED phase
    BY <1>4 DEF TeamWorks
  <2>. QED  BY <2>1, <2>2, CalmGauge DEF Over
<1>5. CASE Payday
  <2>1. ~Over
    BY <1>5 DEF Payday, At, Gauge
  <2>. QED  BY <1>5, <2>1, MayAskGoesOn, SufferedGauge DEF Payday, CloseMonth
<1>6. CASE BurnsOut
  BY <1>6 DEF BurnsOut, Gauge, FullGaugeEnds, Over
<1>. QED  BY <1>1, <1>2, <1>3, <1>4, <1>5, <1>6

\* The release: nothing of it runs once the run is over.
LEMMA ReleaseGauge ==
  ASSUME Gauge,
         \/ DeadlineMissed \/ DeadlinesSettled \/ ObjectiveSettled
         \/ BugFound \/ BugsRolled \/ MonthFallsDue \/ Verdict
  PROVE  Gauge'
<1>1. ~Over
  BY DEF DeadlineMissed, DeadlinesSettled, ObjectiveSettled, BugFound, BugsRolled,
         MonthFallsDue, Verdict, At, Gauge
<1>2. CASE DeadlineMissed
  <2>1. CASE Suffer(1, {phase}, "deadlines")
    BY <1>1, <2>1, SufferedGauge DEF Over
  <2>2. CASE GoesTo("deadlines")
    BY <1>1, <2>2, CalmGauge DEF GoesTo, Over
  <2>. QED  BY <1>2, <2>1, <2>2 DEF DeadlineMissed
<1>3. CASE DeadlinesSettled \/ BugsRolled
  BY <1>1, <1>3, CalmGauge DEF DeadlinesSettled, BugsRolled, GoesTo, Over
<1>4. CASE ObjectiveSettled
  BY <1>1, <1>4, MayAskGoesOn, SufferedGauge DEF ObjectiveSettled
<1>5. CASE BugFound
  BY <1>1, <1>5, IncidentGauge DEF BugFound
<1>6. CASE MonthFallsDue
  BY <1>1, <1>6, MayAskGoesOn, SufferedGauge DEF MonthFallsDue, CloseMonth
<1>7. CASE Verdict
  <2>1. CASE ~delivered
    BY <1>7, <2>1, NotOver, SufferedGauge DEF Verdict
  <2>2. CASE delivered
    BY <1>1, <1>7, <2>2, NotOver, CalmGauge DEF Verdict
  <2>. QED  BY <2>1, <2>2
<1>. QED  BY <1>2, <1>3, <1>4, <1>5, <1>6, <1>7

\* The opening of a sprint: after a ticket that was forced and filled the gauge
\* the new work still arrives, and nothing is asked.
LEMMA OpeningGauge ==
  ASSUME Gauge,
         \/ SkillsExpire \/ TeamIsStaffed \/ StaleForced \/ NoneStale
         \/ FeatureArrives \/ Arrives \/ SprintOpens
  PROVE  Gauge'
<1>1. CASE SkillsExpire \/ TeamIsStaffed \/ NoneStale
  <2>1. ~Over
    BY <1>1 DEF SkillsExpire, TeamIsStaffed, NoneStale, At, Gauge
  <2>2. UNCHANGED <<phase, quality>>
    BY <1>1 DEF SkillsExpire, TeamIsStaffed, NoneStale, GoesTo
  <2>. QED  BY <2>1, <2>2, CalmGauge DEF Over
<1>2. CASE StaleForced
  <2>1. ~Over
    BY <1>2 DEF StaleForced, At, Gauge
  <2>. QED  BY <1>2, <2>1, SufferGauge DEF StaleForced, Over
<1>3. CASE FeatureArrives \/ Arrives
  BY <1>3 DEF FeatureArrives, Arrives, At, GoesTo, SamePatience, Gauge, FullGaugeEnds, Over
<1>4. CASE SprintOpens
  <2>1. CASE Over
    <3>1. phase' = phase
      BY <1>4, <2>1, NotOver DEF SprintOpens, MayAsk, Over
    <3>. QED  BY <1>4, <3>1 DEF SprintOpens, Gauge, FullGaugeEnds, Over
  <2>2. CASE ~Over
    BY <1>4, <2>2, MayAskGoesOn, CalmGauge DEF SprintOpens
  <2>. QED  BY <2>1, <2>2
<1>. QED  BY <1>1, <1>2, <1>3, <1>4

\* Gauge is inductive.
LEMMA GaugeHolds == SoloSpec => []Gauge
<1>1. SoloInit => Gauge
  BY RunGauge, NotOver DEF SoloInit, Gauge, FullGaugeEnds, Over
<1>2. Gauge /\ [SoloNext]_soloVars => Gauge'
  <2> SUFFICES ASSUME Gauge, [SoloNext]_soloVars
               PROVE  Gauge'
    OBVIOUS
  <2>1. CASE Player
    BY <2>1, ActionGauge, AnswerGauge DEF Player
  <2>2. CASE Engine
    BY <2>2, TurnGauge, ReleaseGauge, OpeningGauge DEF Engine
  <2>3. CASE UNCHANGED soloVars
    BY <2>3 DEF soloVars, Gauge, FullGaugeEnds, Over
  <2>. QED  BY <2>1, <2>2, <2>3 DEF SoloNext
<1>. QED  BY <1>1, <1>2, PTL DEF SoloSpec

\* Production's patience, once lost, is the end of the run: no rule of a turn,
\* of a release or of a new sprint asks the player anything after it
\* (raiseQuality in rules/quality.ts, and the isOver tests of rules/sprint.ts
\* and rules/reducer.ts).
THEOREM PatienceLostEndsTheRun == SoloSpec => []FullGaugeEnds
<1>1. Gauge => FullGaugeEnds
  BY DEF Gauge
<1>. QED  BY <1>1, GaugeHolds, PTL

-----------------------------------------------------------------------------
(* The board: what moves a ticket keeps every open obstacle on an open       *)
(* feature in the same hands.                                                *)

\* A board, whoever holds what: a ticket that is not open is in nobody's hands
\* and stands on nothing, and an open obstacle stands on an open ticket of the
\* same hands.
SoundBoard(ts) ==
  /\ ts \in [Ids -> Ticket]
  /\ \A t \in Ids \ Open(ts) : ts[t].parent = NoId /\ ts[t].dev = NoDev
  /\ \A o \in Open(ts) :
       ts[o].parent # NoId =>
         /\ ts[o].parent \in Open(ts)
         /\ ts[ts[o].parent].dev = ts[o].dev

SoundHand(ts, h) == h \in Mine(ts) \/ (h = NoId /\ Mine(ts) = {})

\* The same tickets in the same hands: what is written or found in them differs.
Rewritten(ts) ==
  {us \in [Ids -> Ticket] :
     \A t \in Ids : /\ us[t].status = ts[t].status
                    /\ us[t].parent = ts[t].parent
                    /\ us[t].dev = ts[t].dev}

SameObstacles(ts, us) == \A t \in Ids : Obstacles(us, t) = Obstacles(ts, t)

\* The ids are numbers, and none of them stands for no ticket.
LEMMA IdsAreIds == Ids \subseteq Nat /\ NoId \notin Ids
  BY RunBounds DEF Ids, NoId

\* A non-empty set of numbers has a least one.
LEMMA LeastOf ==
  ASSUME NEW T, T \subseteq Nat, T # {}
  PROVE  \E x \in T : \A y \in T : x <= y
<1> DEFINE R == {ss \in Nat \X Nat : ss[1] < ss[2]}
<1>1. IsWellFoundedOn(R, Nat)
  BY NatLessThanWellFounded DEF OpToRel
<1> HIDE DEF R
<1>2. PICK x \in T : \A y \in T : ~(<<y, x>> \in R)
  BY <1>1, WFMin
<1>3. \A y \in T : ~(y < x)
  BY <1>2 DEF R
<1> QED  BY <1>3

\* The id of a new ticket is free while any is.
LEMMA NewIdIsFree == Free # {} => NewId \in Free
<1> SUFFICES ASSUME Free # {}
             PROVE  NewId \in Free
  OBVIOUS
<1>1. Free \subseteq Nat
  BY IdsAreIds DEF Free
<1>2. \E t \in Free : \A u \in Free : t <= u
  BY <1>1, LeastOf
<1>. QED  BY <1>2 DEF NewId

LEMMA RewrittenBoard ==
  \A ts, us : SoundBoard(ts) /\ us \in Rewritten(ts) =>
    /\ SoundBoard(us) /\ SameObstacles(ts, us)
    /\ Open(us) = Open(ts) /\ Mine(us) = Mine(ts) /\ Backlog(us) = Backlog(ts)
<1> SUFFICES ASSUME NEW ts, NEW us, SoundBoard(ts), us \in Rewritten(ts)
             PROVE  /\ SoundBoard(us) /\ SameObstacles(ts, us)
                    /\ Open(us) = Open(ts) /\ Mine(us) = Mine(ts) /\ Backlog(us) = Backlog(ts)
  OBVIOUS
<1>1. /\ us \in [Ids -> Ticket]
      /\ \A t \in Ids : /\ us[t].status = ts[t].status
                         /\ us[t].parent = ts[t].parent
                         /\ us[t].dev = ts[t].dev
  BY DEF Rewritten
<1>2. Open(us) = Open(ts) /\ Backlog(us) = Backlog(ts)
  BY <1>1 DEF Open, Backlog
<1>3. Mine(us) = Mine(ts) /\ SameObstacles(ts, us)
  BY <1>1, <1>2 DEF Mine, Obstacles, SameObstacles, Open
<1>4. SoundBoard(us)
  <2>1. Open(ts) \subseteq Ids
    BY DEF Open
  <2>. QED  BY <1>1, <1>2, <2>1 DEF SoundBoard
<1>. QED  BY <1>2, <1>3, <1>4

\* writeCommit() and what the review, a refusal or a release make of a ticket.
LEMMA Rewrites ==
  \A ts \in [Ids -> Ticket], t \in Ids, b \in BOOLEAN :
    /\ ts \in Rewritten(ts)
    /\ [ts EXCEPT ![t].full = b] \in Rewritten(ts)
    /\ [ts EXCEPT ![t].flagged = b] \in Rewritten(ts)
  BY DEF Rewritten, Ticket

LEMMA RewritesTwice ==
  \A ts, us, ws : us \in Rewritten(ts) /\ ws \in Rewritten(us) => ws \in Rewritten(ts)
  BY DEF Rewritten

\* A ticket leaves the backlog, for the player or for a developer.
TakenBy(ts, t, d) == [ts EXCEPT ![t].status = "open", ![t].dev = d, ![t].arrived = 0]

LEMMA TakenBoard ==
  \A ts, t, d : SoundBoard(ts) /\ t \in Backlog(ts) /\ d \in Devs \cup {NoDev} =>
    /\ SoundBoard(TakenBy(ts, t, d)) /\ SameObstacles(ts, TakenBy(ts, t, d))
    /\ Open(TakenBy(ts, t, d)) = Open(ts) \cup {t}
    /\ Mine(TakenBy(ts, t, d)) = Mine(ts) \cup (IF d = NoDev THEN {t} ELSE {})
<1> SUFFICES ASSUME NEW ts, NEW t, NEW d,
                    SoundBoard(ts), t \in Backlog(ts), d \in Devs \cup {NoDev}
             PROVE  /\ SoundBoard(TakenBy(ts, t, d)) /\ SameObstacles(ts, TakenBy(ts, t, d))
                    /\ Open(TakenBy(ts, t, d)) = Open(ts) \cup {t}
                    /\ Mine(TakenBy(ts, t, d)) = Mine(ts) \cup (IF d = NoDev THEN {t} ELSE {})
  OBVIOUS
<1> DEFINE us == TakenBy(ts, t, d)
<1>1. t \in Ids /\ t \notin Open(ts) /\ ts \in [Ids -> Ticket] /\ ts[t].status = "backlog"
  BY DEF Backlog, Open, SoundBoard
<1>2. ts[t].parent = NoId
  BY <1>1 DEF SoundBoard
<1>3. /\ us \in [Ids -> Ticket]
      /\ \A u \in Ids \ {t} : us[u] = ts[u]
      /\ us[t].status = "open" /\ us[t].dev = d /\ us[t].parent = ts[t].parent
  <2>1. ts[t] \in Ticket /\ 0 \in 0..MaxSprints
    BY <1>1, RunBounds
  <2>2. [ts[t] EXCEPT !.status = "open", !.dev = d, !.arrived = 0] \in Ticket
    BY <2>1 DEF Ticket
  <2>. QED  BY <1>1, <2>1, <2>2 DEF TakenBy, Ticket
<1> HIDE DEF us
<1>4. Open(us) = Open(ts) \cup {t}
  BY <1>1, <1>3 DEF Open
<1>5. Mine(us) = Mine(ts) \cup (IF d = NoDev THEN {t} ELSE {})
  BY <1>1, <1>3, <1>4 DEF Mine, Open
<1>6. SameObstacles(ts, us)
  <2>1. \A u \in Ids, o \in Ids : o \in Obstacles(us, u) <=> o \in Obstacles(ts, u)
    BY <1>1, <1>2, <1>3, <1>4, IdsAreIds DEF Obstacles
  <2>2. \A u \in Ids : Obstacles(us, u) \subseteq Ids /\ Obstacles(ts, u) \subseteq Ids
    BY DEF Obstacles, Open
  <2>. QED  BY <2>1, <2>2 DEF SameObstacles
<1>7. SoundBoard(us)
  <2>1. \A u \in Ids \ Open(us) : us[u].parent = NoId /\ us[u].dev = NoDev
    BY <1>1, <1>3, <1>4 DEF SoundBoard
  <2>2. \A o \in Open(us) : us[o].parent # NoId => us[o].parent \in Open(us) /\ us[us[o].parent].dev = us[o].dev
    <3> SUFFICES ASSUME NEW o \in Open(us), us[o].parent # NoId
                 PROVE  us[o].parent \in Open(us) /\ us[us[o].parent].dev = us[o].dev
      OBVIOUS
    <3>1. o \in Open(ts) /\ o # t /\ o \in Ids
      BY <1>1, <1>2, <1>3, <1>4 DEF Open
    <3>2. ts[o].parent \in Open(ts) /\ ts[ts[o].parent].dev = ts[o].dev
      BY <1>3, <3>1 DEF SoundBoard
    <3>3. ts[o].parent \in Ids \ {t}
      BY <1>1, <3>2 DEF Open
    <3>. QED  BY <1>3, <1>4, <3>1, <3>2, <3>3
  <2>. QED  BY <1>3, <2>1, <2>2 DEF SoundBoard
<1>. QED  BY <1>4, <1>5, <1>6, <1>7 DEF us

\* startTicket() and openTicket(): what nobody held is the player's.
LEMMA OpenedIsMine ==
  \A ts, t : SoundBoard(ts) /\ t \in Backlog(ts) =>
    /\ SoundBoard(Opened(ts, t)) /\ SameObstacles(ts, Opened(ts, t))
    /\ Open(Opened(ts, t)) = Open(ts) \cup {t}
    /\ Mine(Opened(ts, t)) = Mine(ts) \cup {t}
<1> SUFFICES ASSUME NEW ts, NEW t, SoundBoard(ts), t \in Backlog(ts)
             PROVE  /\ SoundBoard(Opened(ts, t)) /\ SameObstacles(ts, Opened(ts, t))
                    /\ Open(Opened(ts, t)) = Open(ts) \cup {t}
                    /\ Mine(Opened(ts, t)) = Mine(ts) \cup {t}
  OBVIOUS
<1>1. t \in Ids \ Open(ts) /\ ts \in [Ids -> Ticket]
  BY DEF Backlog, Open, SoundBoard
<1>2. ts[t].dev = NoDev /\ ts[t] \in Ticket
  BY <1>1 DEF SoundBoard
<1>3. Opened(ts, t) = TakenBy(ts, t, NoDev)
  BY <1>1, <1>2 DEF Opened, TakenBy, Ticket
<1>. QED  BY <1>3, TakenBoard

\* Work that arrives takes free ids, and stands on nothing.
LEMMA ArrivedBoard ==
  \A ts, ids, kind :
    SoundBoard(ts) /\ ids \subseteq Ids \ (Open(ts) \cup Backlog(ts)) /\ kind \in Kinds /\ sprint \in 1..MaxSprints =>
      /\ SoundBoard(Arrived(ts, ids, kind)) /\ SameObstacles(ts, Arrived(ts, ids, kind))
      /\ Open(Arrived(ts, ids, kind)) = Open(ts)
      /\ Mine(Arrived(ts, ids, kind)) = Mine(ts)
      /\ Backlog(Arrived(ts, ids, kind)) = Backlog(ts) \cup ids
<1> SUFFICES ASSUME NEW ts, NEW ids, NEW kind, SoundBoard(ts), ids \subseteq Ids \ (Open(ts) \cup Backlog(ts)),
                    kind \in Kinds, sprint \in 1..MaxSprints
             PROVE  /\ SoundBoard(Arrived(ts, ids, kind)) /\ SameObstacles(ts, Arrived(ts, ids, kind))
                    /\ Open(Arrived(ts, ids, kind)) = Open(ts)
                    /\ Mine(Arrived(ts, ids, kind)) = Mine(ts)
                    /\ Backlog(Arrived(ts, ids, kind)) = Backlog(ts) \cup ids
  OBVIOUS
<1> DEFINE us == Arrived(ts, ids, kind)
           new == [NoTicket EXCEPT !.kind = kind, !.status = "backlog", !.arrived = sprint]
<1>1. ts \in [Ids -> Ticket]
  BY DEF SoundBoard
<1>2. /\ new \in Ticket /\ new.status = "backlog" /\ new.parent = NoId /\ new.dev = NoDev
  <2>1. 0 \in 0..MaxObstacles /\ sprint \in 0..MaxSprints
    BY RunGauge, RunBounds
  <2>. QED  BY <2>1 DEF NoTicket, Ticket
<1>3. /\ us \in [Ids -> Ticket]
      /\ \A t \in ids : us[t] = new
      /\ \A t \in Ids \ ids : us[t] = ts[t]
  BY <1>1, <1>2 DEF Arrived
<1> HIDE DEF us, new
<1>4. Open(us) = Open(ts) /\ Backlog(us) = Backlog(ts) \cup ids
  BY <1>2, <1>3 DEF Open, Backlog
<1>5. Mine(us) = Mine(ts) /\ SameObstacles(ts, us)
  BY <1>2, <1>3, <1>4 DEF Open, Mine, SameObstacles, Obstacles
<1>6. SoundBoard(us)
  <2>1. \A u \in Open(us) : us[u] = ts[u]
    BY <1>3, <1>4 DEF Open
  <2>2. \A u \in Ids \ Open(us) : us[u].parent = NoId /\ us[u].dev = NoDev
    BY <1>2, <1>3, <1>4 DEF SoundBoard
  <2>. QED  BY <1>3, <1>4, <2>1, <2>2 DEF SoundBoard
<1>. QED  BY <1>4, <1>5, <1>6 DEF us

\* A ticket that is born open: forced on the player, or an obstacle.
Placed(ts, n, new) == [ts EXCEPT ![n] = new]

LEMMA PlacedBoard ==
  \A ts, n, new :
    /\ SoundBoard(ts) /\ n \in Ids \ Open(ts)
    /\ new \in Ticket /\ new.status = "open"
    /\ new.parent # NoId => new.parent \in Open(ts) /\ ts[new.parent].dev = new.dev
    => /\ SoundBoard(Placed(ts, n, new))
       /\ Open(Placed(ts, n, new)) = Open(ts) \cup {n}
       /\ Mine(Placed(ts, n, new)) = Mine(ts) \cup (IF new.dev = NoDev THEN {n} ELSE {})
       /\ \A u \in Ids \ {new.parent} : Obstacles(Placed(ts, n, new), u) = Obstacles(ts, u)
<1> SUFFICES ASSUME NEW ts, NEW n, NEW new, SoundBoard(ts), n \in Ids \ Open(ts),
                    new \in Ticket, new.status = "open",
                    new.parent # NoId => new.parent \in Open(ts) /\ ts[new.parent].dev = new.dev
             PROVE  /\ SoundBoard(Placed(ts, n, new))
                    /\ Open(Placed(ts, n, new)) = Open(ts) \cup {n}
                    /\ Mine(Placed(ts, n, new)) = Mine(ts) \cup (IF new.dev = NoDev THEN {n} ELSE {})
                    /\ \A u \in Ids \ {new.parent} : Obstacles(Placed(ts, n, new), u) = Obstacles(ts, u)
  OBVIOUS
<1> DEFINE us == Placed(ts, n, new)
<1>1. /\ us \in [Ids -> Ticket] /\ us[n] = new
      /\ \A u \in Ids \ {n} : us[u] = ts[u]
  BY DEF Placed, SoundBoard
<1> HIDE DEF us
<1>2. Open(us) = Open(ts) \cup {n}
  BY <1>1 DEF Open
<1>3. Mine(us) = Mine(ts) \cup (IF new.dev = NoDev THEN {n} ELSE {})
  BY <1>1, <1>2 DEF Mine, Open
<1>4. \A u \in Ids \ {new.parent} : Obstacles(us, u) = Obstacles(ts, u)
  <2>1. \A u \in Ids \ {new.parent}, o \in Ids : o \in Obstacles(us, u) <=> o \in Obstacles(ts, u)
    BY <1>1, <1>2 DEF Obstacles
  <2>2. \A u \in Ids : Obstacles(us, u) \subseteq Ids /\ Obstacles(ts, u) \subseteq Ids
    BY DEF Obstacles, Open
  <2>. QED  BY <2>1, <2>2
<1>5. SoundBoard(us)
  <2>1. \A u \in Ids \ Open(us) : us[u].parent = NoId /\ us[u].dev = NoDev
    BY <1>1, <1>2 DEF SoundBoard
  <2>2. ASSUME NEW o \in Open(us), us[o].parent # NoId
        PROVE  us[o].parent \in Open(us) /\ us[us[o].parent].dev = us[o].dev
    <3>1. us[o].parent \in Open(ts) /\ ts[us[o].parent].dev = us[o].dev
      BY <1>1, <1>2, <2>2 DEF SoundBoard, Open
    <3>. QED  BY <1>1, <1>2, <3>1 DEF Open
  <2>. QED  BY <1>1, <2>1, <2>2 DEF SoundBoard
<1>. QED  BY <1>2, <1>3, <1>4, <1>5 DEF us

\* forceTicket(): a hotfix or a refactor for the player.
LEMMA ForcedBoard ==
  ASSUME NEW kind \in Kinds, SoundBoard(tickets), Free # {}
  PROVE  LET us == Forced(tickets, kind)
         IN /\ NewId \in Ids \ Open(tickets)
            /\ SoundBoard(us) /\ SameObstacles(tickets, us)
            /\ Open(us) = Open(tickets) \cup {NewId}
            /\ Mine(us) = Mine(tickets) \cup {NewId}
<1> DEFINE new == [NoTicket EXCEPT !.kind = kind, !.status = "open"]
<1>1. NewId \in Ids \ Open(tickets)
  BY NewIdIsFree DEF Free, Open
<1>2. new \in Ticket /\ new.status = "open" /\ new.parent = NoId /\ new.dev = NoDev
  <2>1. 0 \in 0..MaxObstacles /\ 0 \in 0..MaxSprints
    BY RunGauge, RunBounds
  <2>. QED  BY <2>1 DEF NoTicket, Ticket
<1>3. Forced(tickets, kind) = Placed(tickets, NewId, new)
  BY DEF Forced, Placed
<1> HIDE DEF new
<1>. QED  BY <1>1, <1>2, <1>3, PlacedBoard, IdsAreIds DEF SameObstacles

\* spawnObstacle(): in the hands of whoever writes the feature.
LEMMA SpawnedBoard ==
  ASSUME NEW ts \in Rewritten(tickets), NEW t \in Open(tickets),
         SoundBoard(tickets), CanSpawn(ts, t)
  PROVE  LET us == WithObstacle(ts, t)
         IN /\ NewId \in Ids \ Open(tickets)
            /\ SoundBoard(us)
            /\ Open(us) = Open(tickets) \cup {NewId}
            /\ Mine(us) = Mine(tickets) \cup (IF tickets[t].dev = NoDev THEN {NewId} ELSE {})
            /\ \A u \in Ids \ {t} : Obstacles(us, u) = Obstacles(tickets, u)
<1> DEFINE new == [NoTicket EXCEPT !.kind = "obstacle", !.status = "open",
                                   !.parent = t, !.dev = ts[t].dev]
           tt == [ts EXCEPT ![t].spawned = @ + 1]
<1>1. NewId \in Ids \ Open(tickets) /\ t \in Ids
  BY NewIdIsFree DEF Free, Open, CanSpawn
<1>2. SoundBoard(ts) /\ Open(ts) = Open(tickets) /\ Mine(ts) = Mine(tickets) /\ SameObstacles(tickets, ts)
  BY RewrittenBoard
<1>3. ts \in [Ids -> Ticket] /\ ts[t] \in Ticket /\ ts[t].dev = tickets[t].dev
  BY <1>1 DEF Rewritten
<1>4. new \in Ticket /\ new.status = "open" /\ new.parent = t /\ new.dev = tickets[t].dev
  <2>1. 0 \in 0..MaxObstacles /\ 0 \in 0..MaxSprints
    BY RunGauge, RunBounds
  <2>. QED  BY <1>1, <1>3, <2>1 DEF NoTicket, Ticket, Kinds
<1>5. tt \in Rewritten(ts)
  <2>1. ts[t].spawned + 1 \in 0..MaxObstacles
    BY <1>3, RunGauge DEF CanSpawn, Ticket
  <2>2. [ts[t] EXCEPT !.spawned = @ + 1] \in Ticket
    BY <1>3, <2>1 DEF Ticket
  <2>. QED  BY <1>1, <1>3, <2>2 DEF Rewritten, Ticket
<1>6. WithObstacle(ts, t) = Placed(tt, NewId, new)
  BY DEF WithObstacle, Placed
<1>7. /\ SoundBoard(tt) /\ Open(tt) = Open(tickets) /\ Mine(tt) = Mine(tickets)
      /\ SameObstacles(ts, tt)
  BY <1>2, <1>5, RewrittenBoard
<1>8. tt[t].dev = tickets[t].dev
  BY <1>1, <1>3, <1>5 DEF Rewritten
<1> HIDE DEF new, tt
<1>9. SoundBoard(Placed(tt, NewId, new)) /\ Open(Placed(tt, NewId, new)) = Open(tt) \cup {NewId}
  BY <1>1, <1>4, <1>7, <1>8, PlacedBoard
<1>10. Mine(Placed(tt, NewId, new)) = Mine(tt) \cup (IF new.dev = NoDev THEN {NewId} ELSE {})
  BY <1>1, <1>4, <1>7, <1>8, PlacedBoard
<1>11. \A u \in Ids \ {t} : Obstacles(Placed(tt, NewId, new), u) = Obstacles(tt, u)
  BY <1>1, <1>4, <1>7, <1>8, PlacedBoard
<1>. QED  BY <1>1, <1>2, <1>4, <1>6, <1>7, <1>9, <1>10, <1>11 DEF SameObstacles

\* Tickets that leave the board, if none is left standing on one of them.
LEMMA WithoutBoard ==
  \A ts, gone :
    /\ SoundBoard(ts)
    /\ \A o \in Open(ts) : ts[o].parent \in gone /\ ts[o].parent # NoId => o \in gone
    => /\ SoundBoard(Without(ts, gone))
       /\ Open(Without(ts, gone)) = Open(ts) \ gone
       /\ Mine(Without(ts, gone)) = Mine(ts) \ gone
       /\ \A u \in Ids : Obstacles(Without(ts, gone), u) = Obstacles(ts, u) \ gone
<1> SUFFICES ASSUME NEW ts, NEW gone, SoundBoard(ts),
                    \A o \in Open(ts) : ts[o].parent \in gone /\ ts[o].parent # NoId => o \in gone
             PROVE  /\ SoundBoard(Without(ts, gone))
                    /\ Open(Without(ts, gone)) = Open(ts) \ gone
                    /\ Mine(Without(ts, gone)) = Mine(ts) \ gone
                    /\ \A u \in Ids : Obstacles(Without(ts, gone), u) = Obstacles(ts, u) \ gone
  OBVIOUS
<1> DEFINE us == Without(ts, gone)
<1>1. NoTicket \in Ticket /\ NoTicket.status = "none" /\ NoTicket.parent = NoId /\ NoTicket.dev = NoDev
  <2>1. 0 \in 0..MaxObstacles /\ 0 \in 0..MaxSprints
    BY RunGauge, RunBounds
  <2>. QED  BY <2>1 DEF NoTicket, Ticket
<1>2. /\ us \in [Ids -> Ticket]
      /\ \A u \in Ids : u \in gone => us[u] = NoTicket
      /\ \A u \in Ids : u \notin gone => us[u] = ts[u]
  BY <1>1 DEF Without, SoundBoard
<1> HIDE DEF us
<1>3. Open(us) = Open(ts) \ gone
  BY <1>1, <1>2 DEF Open
<1>4. Mine(us) = Mine(ts) \ gone
  BY <1>1, <1>2, <1>3 DEF Mine, Open
<1>5. \A u \in Ids : Obstacles(us, u) = Obstacles(ts, u) \ gone
  <2>1. \A u \in Ids, o \in Ids : o \in Obstacles(us, u) <=> o \in Obstacles(ts, u) \ gone
    BY <1>1, <1>2, <1>3 DEF Obstacles
  <2>2. \A u \in Ids : Obstacles(us, u) \subseteq Ids /\ Obstacles(ts, u) \subseteq Ids
    BY DEF Obstacles, Open
  <2>. QED  BY <2>1, <2>2
<1>6. SoundBoard(us)
  <2>1. \A u \in Ids \ Open(us) : us[u].parent = NoId /\ us[u].dev = NoDev
    <3> TAKE u \in Ids \ Open(us)
    <3>1. CASE u \in gone
      BY <1>1, <1>2, <3>1
    <3>2. CASE u \notin gone
      BY <1>2, <1>3, <3>2 DEF SoundBoard
    <3>. QED  BY <3>1, <3>2
  <2>2. ASSUME NEW o \in Open(us), us[o].parent # NoId
        PROVE  us[o].parent \in Open(us) /\ us[us[o].parent].dev = us[o].dev
    <3>1. o \in Open(ts) /\ o \notin gone /\ us[o] = ts[o]
      BY <1>2, <1>3 DEF Open
    <3>2. ts[o].parent \in Open(ts) /\ ts[ts[o].parent].dev = ts[o].dev /\ ts[o].parent \notin gone
      BY <2>2, <3>1 DEF SoundBoard
    <3>3. ts[o].parent \in Open(us) /\ us[ts[o].parent] = ts[ts[o].parent]
      BY <1>2, <1>3, <3>2 DEF Open
    <3>. QED  BY <3>1, <3>2, <3>3
  <2>. QED  BY <1>2, <2>1, <2>2 DEF SoundBoard
<1>. QED  BY <1>3, <1>4, <1>5, <1>6 DEF us

\* completeMerge(): a ticket lands with nothing standing on it.
LEMMA LandedBoard ==
  \A ts, t, us :
    SoundBoard(ts) /\ t \in Ids /\ Obstacles(ts, t) = {} /\ us \in Landed(ts, t) =>
      /\ SoundBoard(us)
      /\ Open(us) = Open(ts) \ {t}
      /\ Mine(us) = Mine(ts) \ {t}
      /\ \A u \in Ids : Obstacles(us, u) = Obstacles(ts, u) \ {t}
      /\ \A u \in Ids \ {t} : us[u].dev = ts[u].dev
<1> SUFFICES ASSUME NEW ts, NEW t, NEW us,
                    SoundBoard(ts), t \in Ids, Obstacles(ts, t) = {}, us \in Landed(ts, t)
             PROVE  /\ SoundBoard(us)
                    /\ Open(us) = Open(ts) \ {t}
                    /\ Mine(us) = Mine(ts) \ {t}
                    /\ \A u \in Ids : Obstacles(us, u) = Obstacles(ts, u) \ {t}
                    /\ \A u \in Ids \ {t} : us[u].dev = ts[u].dev
  OBVIOUS
<1> DEFINE ws == Without(ts, {t})
<1>1. \A o \in Open(ts) : ts[o].parent \in {t} /\ ts[o].parent # NoId => o \in {t}
  BY DEF Obstacles
<1>2. /\ SoundBoard(ws) /\ Open(ws) = Open(ts) \ {t} /\ Mine(ws) = Mine(ts) \ {t}
      /\ \A u \in Ids : Obstacles(ws, u) = Obstacles(ts, u) \ {t}
  BY <1>1, WithoutBoard
<1>3. \A u \in Ids \ {t} : ws[u].dev = ts[u].dev
  BY DEF Without
<1>4. us \in Rewritten(ws)
  <2>1. ws \in [Ids -> Ticket]
    BY <1>2 DEF SoundBoard
  <2>2. us = ws \/ \E u \in Ids : us = [ws EXCEPT ![u].flagged = FALSE]
    BY DEF Landed, Open
  <2> HIDE DEF ws
  <2>. QED  BY <2>1, <2>2, Rewrites
<1> HIDE DEF ws
<1>5. /\ SoundBoard(us) /\ SameObstacles(ws, us) /\ Open(us) = Open(ws) /\ Mine(us) = Mine(ws)
  BY <1>2, <1>4, RewrittenBoard
<1>6. \A u \in Ids \ {t} : us[u].dev = ts[u].dev
  BY <1>3, <1>4 DEF Rewritten
<1>. QED  BY <1>2, <1>5, <1>6 DEF SameObstacles

\* releaseDev(): a feature and what stands on it come back together.
LEMMA ReleasedBoard ==
  ASSUME NEW gone \in SUBSET Devs, SoundBoard(tickets), Release(gone)
  PROVE  /\ SoundBoard(tickets') /\ SameObstacles(tickets, tickets')
         /\ Open(tickets') = Open(tickets)
         /\ Mine(tickets) \subseteq Mine(tickets')
<1>1. NoDev \notin gone
  BY RunDevs
<1>2. /\ tickets' \in [Ids -> Ticket]
      /\ \A u \in Ids : /\ tickets'[u].status = tickets[u].status
                        /\ tickets'[u].parent = tickets[u].parent
                        /\ tickets'[u].dev = IF tickets[u].dev \in gone THEN NoDev ELSE tickets[u].dev
  <2>1. tickets \in [Ids -> Ticket]
    BY DEF SoundBoard
  <2>2. \A u \in Ids : [tickets[u] EXCEPT !.dev = NoDev] \in Ticket
    BY <2>1 DEF Ticket
  <2>. QED  BY <2>1, <2>2 DEF Release, Ticket
<1>3. Open(tickets') = Open(tickets)
  BY <1>2 DEF Open
<1>4. Mine(tickets) \subseteq Mine(tickets')
  BY <1>1, <1>2, <1>3 DEF Mine, Open
<1>5. SameObstacles(tickets, tickets')
  <2>1. \A u \in Ids, o \in Ids : o \in Obstacles(tickets', u) <=> o \in Obstacles(tickets, u)
    BY <1>2, <1>3 DEF Obstacles
  <2>2. \A u \in Ids : Obstacles(tickets', u) \subseteq Ids /\ Obstacles(tickets, u) \subseteq Ids
    BY DEF Obstacles, Open
  <2>. QED  BY <2>1, <2>2 DEF SameObstacles
<1>6. SoundBoard(tickets')
  <2>1. Open(tickets) \subseteq Ids
    BY DEF Open
  <2>. QED  BY <1>2, <1>3, <2>1 DEF SoundBoard
<1>. QED  BY <1>3, <1>4, <1>5, <1>6

\* settleCurrent(): a ticket in hand that is still the player's stays there.
LEMMA SettledHand ==
  \A ts : (hand \in Open(ts) => hand \in Mine(ts)) =>
    \A h \in Settled(ts) : SoundHand(ts, h) /\ (hand \in Open(ts) => h = hand)
  BY DEF Settled, SoundHand

-----------------------------------------------------------------------------
(* The invariant of the board *)

Plain == [kind : Questions \ TicketQuestions, ticket : Ids \cup {NoId}]

\* A question about a ticket is about the one in hand, and nothing stands on it.
AsksOfHand(p, h, ts) ==
  p.kind \in TicketQuestions => p.ticket = h /\ h # NoId /\ Obstacles(ts, h) = {}

OfTheTeam(ts) == {t \in Open(ts) : ts[t].dev # NoDev}

\* The board and the hand; the queue of the team's turn, which holds its own
\* open tickets and is empty outside of it.
Board ==
  /\ SoundBoard(tickets)
  /\ SoundHand(tickets, hand)
  /\ team \subseteq Devs
  /\ sprint \in 1..MaxSprints
  /\ phase \in [kind : Questions, ticket : Ids \cup {NoId}]
  /\ AsksOfHand(phase, hand, tickets)
  /\ queue \subseteq OfTheTeam(tickets)
  /\ step # "work" => queue = {}

\* What keeps a question that is pending: the hand stays where it is, and
\* nothing new stands on what it holds.
Kept ==
  /\ SoundBoard(tickets')
  /\ SoundHand(tickets', hand')
  /\ hand # NoId => hand' = hand /\ Obstacles(tickets', hand) = Obstacles(tickets, hand)

LEMMA PlainPhases ==
  /\ Ordinary \in Plain /\ GameOver \in Plain
  /\ Ask("event", NoId) \in Plain /\ Ask("choose_relic", NoId) \in Plain
  BY DEF Plain, Ordinary, GameOver, Ask, Questions, TicketQuestions

LEMMA KeptStep ==
  ASSUME Board, Kept, phase' \in {phase} \cup Plain,
         team' \subseteq Devs, sprint' \in 1..MaxSprints, queue' = {}
  PROVE  Board'
<1>1. phase' \in [kind : Questions, ticket : Ids \cup {NoId}]
  BY DEF Board, Plain
<1>2. AsksOfHand(phase', hand', tickets')
  BY DEF Board, Kept, AsksOfHand, Plain
<1>. QED  BY <1>1, <1>2 DEF Board, Kept

LEMMA PlainStep ==
  ASSUME SoundBoard(tickets'), SoundHand(tickets', hand'), phase' \in Plain,
         team' \subseteq Devs, sprint' \in 1..MaxSprints, queue' = {}
  PROVE  Board'
<1>1. phase' \in [kind : Questions, ticket : Ids \cup {NoId}]
  BY DEF Plain
<1>2. AsksOfHand(phase', hand', tickets')
  BY DEF AsksOfHand, Plain
<1>. QED  BY <1>1, <1>2 DEF Board

\* Between two actions, and outside the team's turn, its queue is empty.
LEMMA QueueEmpty == Board /\ step # "work" => queue = {}
  BY DEF Board

\* A board nobody touches.
LEMMA SameBoardKept ==
  ASSUME Board, UNCHANGED <<tickets, hand>>
  PROVE  Kept
  BY DEF Board, Kept

LEMMA SufferedPhase ==
  ASSUME NEW n, NEW questions, NEW next, NEW ended, SufferThen(n, questions, next, ended)
  PROVE  phase' \in questions \cup {GameOver}
  BY DEF SufferThen

LEMMA MayAskPhases == MayAsk \subseteq {phase} \cup Plain
  BY PlainPhases DEF MayAsk

\* The hand after a ticket was forced on the player: unless it was empty, the same.
LEMMA FreeHand ==
  ASSUME NEW ts, NEW n \in Ids, Board, SoundBoard(ts), SameObstacles(tickets, ts),
         Mine(ts) = Mine(tickets) \cup {n}
  PROVE  /\ SoundHand(ts, HandIfFree(n))
         /\ hand # NoId => HandIfFree(n) = hand /\ Obstacles(ts, hand) = Obstacles(tickets, hand)
<1>1. hand # NoId => hand \in Mine(tickets) /\ hand \in Ids
  BY DEF Board, SoundHand, Mine, Open
<1>. QED  BY <1>1 DEF SoundHand, HandIfFree, SameObstacles

LEMMA ForcedKept ==
  ASSUME NEW kind \in Kinds, Board, Free # {},
         tickets' = Forced(tickets, kind), hand' = HandIfFree(NewId)
  PROVE  Kept
<1> DEFINE us == Forced(tickets, kind)
<1>1. /\ NewId \in Ids /\ SoundBoard(us) /\ SameObstacles(tickets, us)
      /\ Mine(us) = Mine(tickets) \cup {NewId}
  BY ForcedBoard DEF Board
<1> HIDE DEF us
<1>2. /\ SoundHand(us, HandIfFree(NewId))
      /\ hand # NoId => HandIfFree(NewId) = hand /\ Obstacles(us, hand) = Obstacles(tickets, hand)
  BY <1>1, FreeHand
<1>3. tickets' = us
  BY DEF us
<1>. QED  BY <1>1, <1>2, <1>3 DEF Kept

LEMMA IncidentKept ==
  ASSUME NEW next, Board, Incident(next)
  PROVE  Kept /\ phase' \in {phase} \cup Plain
<1>1. "hotfix" \in Kinds
  BY DEF Kinds
<1>2. Kept
  BY <1>1, ForcedKept DEF Incident
<1>3. phase' \in MayAsk \cup {GameOver}
  BY SufferedPhase DEF Incident, Suffer
<1>. QED  BY <1>2, <1>3, MayAskPhases, PlainPhases

\* releaseDev(), in a payday or an answer.
LEMMA ReleaseKept ==
  ASSUME NEW gone \in SUBSET team, Board, Release(gone)
  PROVE  Kept /\ team' \subseteq Devs
<1>1. gone \in SUBSET Devs /\ team' \subseteq Devs
  BY DEF Board, Release
<1>2. /\ SoundBoard(tickets') /\ SameObstacles(tickets, tickets')
      /\ Open(tickets') = Open(tickets) /\ Mine(tickets) \subseteq Mine(tickets')
  BY <1>1, ReleasedBoard DEF Board
<1>3. hand # NoId => hand \in Mine(tickets) /\ hand \in Ids /\ hand \in Open(tickets)
  BY DEF Board, SoundHand, Mine, Open
<1>4. hand \notin Open(tickets) \/ hand # NoId
  BY IdsAreIds DEF Open
<1>5. hand' \in Settled(tickets')
  BY DEF Release
<1>6. SoundHand(tickets', hand') /\ (hand \in Open(tickets') => hand' = hand)
  BY <1>2, <1>3, <1>4, <1>5, SettledHand
<1>. QED  BY <1>1, <1>2, <1>3, <1>6 DEF Kept, SameObstacles

LEMMA MonthKept ==
  ASSUME NEW next, Board, CloseMonth(next)
  PROVE  Kept /\ phase' \in {phase} \cup Plain /\ team' \subseteq Devs
<1>1. PICK gone \in SUBSET team : Release(gone)
  BY DEF CloseMonth
<1>2. Kept /\ team' \subseteq Devs
  BY <1>1, ReleaseKept
<1>3. phase' \in MayAsk \cup {GameOver}
  BY SufferedPhase DEF CloseMonth, Suffer
<1>. QED  BY <1>2, <1>3, MayAskPhases, PlainPhases

\* A question about the ticket in hand, on which nothing stands.
LEMMA AskStep ==
  ASSUME Board, SoundBoard(tickets'), hand' = hand, hand \in Mine(tickets'),
         Obstacles(tickets', hand) = {},
         phase' \in {Ask(k, hand) : k \in TicketQuestions} \cup Plain,
         team' \subseteq Devs, sprint' \in 1..MaxSprints, queue' = {}
  PROVE  Board'
<1>1. hand \in Ids
  BY DEF Mine, Open
<1>2. phase' \in [kind : Questions, ticket : Ids \cup {NoId}]
  BY <1>1 DEF Ask, Plain, Questions
<1>3. AsksOfHand(phase', hand', tickets')
  BY <1>1, IdsAreIds DEF AsksOfHand, Plain, Ask
<1>4. SoundHand(tickets', hand')
  BY DEF SoundHand
<1>. QED  BY <1>2, <1>3, <1>4 DEF Board

\* What an action of the player finds: its ticket, if it needs one, is an open
\* one of theirs; nothing is asked, and the team rests.
LEMMA ActsOnBoard ==
  ASSUME Board, Acts
  PROVE  /\ phase \in Plain /\ queue = {} /\ step = "idle"
         /\ hand # NoId => /\ hand \in Mine(tickets) /\ hand \in Open(tickets) /\ hand \in Ids
                           /\ tickets[hand].dev = NoDev
  BY DEF Acts, Asked, Board, Plain, TicketQuestions, SoundHand, Mine, Open

LEMMA WorkBoard ==
  ASSUME Board,
         StartTicket \/ Checkout \/ Commit \/ Fix \/ Review \/ Rest \/ MergeObstacle
  PROVE  Board'
<1>1. /\ Acts /\ UNCHANGED <<queue, team, sprint>>
      /\ phase' \in {phase} \cup Plain
  <2>1. Acts
    BY DEF StartTicket, Checkout, InHand, Commit, Fix, Review, Rest, MergeObstacle
  <2>2. UNCHANGED <<queue, team, sprint>>
    BY DEF StartTicket, Checkout, Commit, Fix, Review, Rest, MergeObstacle, IsFree, TakesTurn,
           TakesTurnAndPatience, SameRun, boxVars, turnVars, boardVars
  <2>3. CASE Rest
    <3>1. SufferThen(1, {Ordinary}, "turn", "settle")
      BY <2>3 DEF Rest, TakesTurnAndPatience, Suffer
    <3>2. phase' \in {Ordinary} \cup {GameOver}
      BY <3>1, SufferedPhase
    <3>. QED  BY <2>1, <2>2, <3>2, PlainPhases
  <2>4. CASE StartTicket \/ Checkout \/ Commit \/ Fix \/ Review \/ MergeObstacle
    <3>1. UNCHANGED <<phase, quality>>
      BY <2>4 DEF StartTicket, Checkout, Commit, Fix, Review, MergeObstacle, SamePatience
    <3>. QED  BY <2>1, <2>2, <3>1
  <2>. QED  BY <2>1, <2>2, <2>3, <2>4
<1>2. /\ phase' \in Plain /\ queue' = {} /\ team' \subseteq Devs /\ sprint' \in 1..MaxSprints
      /\ hand # NoId => /\ hand \in Mine(tickets) /\ hand \in Open(tickets) /\ hand \in Ids
                        /\ tickets[hand].dev = NoDev
  BY <1>1, ActsOnBoard DEF Board
<1>3. SoundBoard(tickets) /\ SoundHand(tickets, hand) /\ tickets \in [Ids -> Ticket]
  BY DEF Board, SoundBoard
<1>4. CASE StartTicket
  <2>1. PICK t \in Backlog(tickets) : tickets' = Opened(tickets, t) /\ hand' = t
    BY <1>4 DEF StartTicket
  <2>2. SoundBoard(tickets') /\ hand' \in Mine(tickets')
    BY <1>3, <2>1, OpenedIsMine
  <2>. QED  BY <1>2, <2>2, PlainStep DEF SoundHand
<1>5. CASE Checkout
  <2>1. hand' \in Mine(tickets) /\ tickets' = tickets
    BY <1>5 DEF Checkout
  <2>. QED  BY <1>2, <1>3, <2>1, PlainStep DEF SoundHand
<1>6. CASE Commit
  <2>1. hand # NoId
    BY <1>6 DEF Commit, InHand
  <2>2. PICK ts \in Written(hand) :
          \/ tickets' = ts /\ UNCHANGED hand
          \/ CanSpawn(ts, hand) /\ tickets' = WithObstacle(ts, hand) /\ hand' = NewId
    BY <1>6 DEF Commit
  <2>3. ts \in Rewritten(tickets)
    BY <1>2, <1>3, <2>1, Rewrites DEF Written
  <2>4. CASE tickets' = ts /\ UNCHANGED hand
    <3>1. SoundBoard(ts) /\ Mine(ts) = Mine(tickets)
      BY <1>3, <2>3, RewrittenBoard
    <3>. QED  BY <1>2, <2>1, <2>4, <3>1, PlainStep DEF SoundHand
  <2>5. CASE CanSpawn(ts, hand) /\ tickets' = WithObstacle(ts, hand) /\ hand' = NewId
    <3>1. SoundBoard(tickets') /\ NewId \in Mine(tickets')
      BY <1>2, <1>3, <2>1, <2>3, <2>5, SpawnedBoard
    <3>. QED  BY <1>2, <2>5, <3>1, PlainStep DEF SoundHand
  <2>. QED  BY <2>2, <2>4, <2>5
<1>7. CASE Fix
  <2>1. hand # NoId /\ hand' = hand
    BY <1>7 DEF Fix, InHand
  <2>2. PICK ts \in Written(hand), f \in BOOLEAN : tickets' = [ts EXCEPT ![hand].flagged = f]
    BY <1>7 DEF Fix, Fixed
  <2>3. ts \in Rewritten(tickets)
    BY <1>2, <1>3, <2>1, Rewrites DEF Written
  <2>4. ts \in [Ids -> Ticket]
    BY <2>3 DEF Rewritten
  <2>5. tickets' \in Rewritten(ts)
    BY <1>2, <2>1, <2>2, <2>4, Rewrites
  <2>6. tickets' \in Rewritten(tickets)
    BY <2>3, <2>5, RewritesTwice
  <2>7. SoundBoard(tickets') /\ Mine(tickets') = Mine(tickets)
    BY <1>3, <2>6, RewrittenBoard
  <2>. QED  BY <1>2, <2>1, <2>7, PlainStep DEF SoundHand
<1>8. CASE Review \/ Rest
  <2>1. UNCHANGED <<tickets, hand>>
    BY <1>8 DEF Review, Rest, boardVars
  <2>. QED  BY <1>2, <1>3, <2>1, PlainStep
<1>9. CASE MergeObstacle
  <2> DEFINE p == tickets[hand].parent
  <2>1. /\ hand # NoId /\ p # NoId /\ Obstacles(tickets, hand) = {}
        /\ tickets' = Without(tickets, {hand}) /\ hand' = p
    BY <1>9 DEF MergeObstacle, InHand, IsReady
  <2>2. p \in Open(tickets) /\ tickets[p].dev = NoDev
    BY <1>2, <1>3, <2>1 DEF SoundBoard
  <2>3. p # hand /\ p \in Mine(tickets)
    BY <1>2, <2>1, <2>2 DEF Obstacles, Mine
  <2>4. \A o \in Open(tickets) : tickets[o].parent \in {hand} /\ tickets[o].parent # NoId => o \in {hand}
    BY <2>1 DEF Obstacles
  <2>5. SoundBoard(tickets') /\ Mine(tickets') = Mine(tickets) \ {hand}
    BY <1>3, <2>1, <2>4, WithoutBoard
  <2>. QED  BY <1>2, <2>1, <2>3, <2>5, PlainStep DEF SoundHand
<1>. QED  BY <1>4, <1>5, <1>6, <1>7, <1>8, <1>9

\* A ticket is submitted with nothing standing on it.
LEMMA SubmitBoard ==
  ASSUME Board, SubmitAccepted \/ SubmitRefused
  PROVE  Board'
<1>1. /\ Acts /\ hand # NoId /\ Obstacles(tickets, hand) = {}
      /\ UNCHANGED <<hand, queue, team, sprint>>
  BY DEF SubmitAccepted, SubmitRefused, Submits, InHand, IsReady, IsFree, SameRun, boxVars,
         turnVars, boardVars
<1>2. /\ queue' = {} /\ team' \subseteq Devs /\ sprint' \in 1..MaxSprints
      /\ hand \in Mine(tickets) /\ hand \in Ids
  BY <1>1, ActsOnBoard DEF Board
<1>3. SoundBoard(tickets) /\ tickets \in [Ids -> Ticket]
  BY DEF Board, SoundBoard
<1>4. CASE SubmitAccepted
  <2>1. tickets' = tickets /\ phase' = Ask("pr_accepted", hand)
    BY <1>4 DEF SubmitAccepted, boardVars
  <2>2. phase' \in {Ask(k, hand) : k \in TicketQuestions}
    BY <2>1 DEF TicketQuestions
  <2>. QED  BY <1>1, <1>2, <1>3, <2>1, <2>2, AskStep
<1>5. CASE SubmitRefused
  <2> DEFINE flagged == [tickets EXCEPT ![hand].flagged = TRUE]
             refused == [flagged EXCEPT ![hand].full = FALSE]
  <2>1. flagged \in Rewritten(tickets)
    BY <1>2, <1>3, Rewrites
  <2>2. flagged \in [Ids -> Ticket]
    BY <2>1 DEF Rewritten
  <2> HIDE DEF flagged
  <2>3. refused \in Rewritten(flagged)
    BY <1>2, <2>2, Rewrites
  <2>4. refused \in Rewritten(tickets)
    BY <2>1, <2>3, RewritesTwice
  <2> HIDE DEF refused
  <2>5. \A ts \in {flagged, refused} :
          /\ SoundBoard(ts) /\ SameObstacles(tickets, ts)
          /\ Mine(ts) = Mine(tickets) /\ Backlog(ts) = Backlog(tickets)
    BY <1>3, <2>1, <2>4, RewrittenBoard
  <2>6. \/ tickets' \in {flagged, refused}
        \/ \E t \in Backlog(tickets) : tickets' = Opened(refused, t)
    BY <1>5 DEF SubmitRefused, flagged, refused
  <2>7. /\ SoundBoard(tickets') /\ hand \in Mine(tickets')
        /\ Obstacles(tickets', hand) = Obstacles(tickets, hand)
    <3>1. CASE tickets' \in {flagged, refused}
      BY <1>2, <2>5, <3>1 DEF SameObstacles
    <3>2. CASE \E t \in Backlog(tickets) : tickets' = Opened(refused, t)
      <4>1. PICK t \in Backlog(refused) : tickets' = Opened(refused, t)
        BY <2>5, <3>2
      <4>2. /\ SoundBoard(tickets') /\ SameObstacles(refused, tickets')
            /\ Mine(tickets') = Mine(refused) \cup {t}
        BY <2>5, <4>1, OpenedIsMine
      <4>. QED  BY <1>2, <2>5, <4>2 DEF SameObstacles
    <3>. QED  BY <2>6, <3>1, <3>2
  <2>8. phase' \in {Ask("ticket_rejected", hand), GameOver}
    BY <1>5, SufferedPhase DEF SubmitRefused, Suffer
  <2>9. phase' \in {Ask(k, hand) : k \in TicketQuestions} \cup Plain
    BY <2>8, PlainPhases DEF TicketQuestions
  <2>. QED  BY <1>1, <1>2, <2>7, <2>9, AskStep
<1>. QED  BY <1>4, <1>5

\* What is bought or tried beside the tickets.
LEMMA ExtraBoard ==
  ASSUME Board, Hire \/ AcquireAndBreak \/ HackWon \/ HackCaught \/ HackBroke
  PROVE  Board'
<1>1. /\ Acts /\ UNCHANGED <<queue, sprint>>
  BY DEF Hire, AcquireAndBreak, Hacks, HackWon, HackCaught, HackBroke, IsFree, TakesTurn,
         SameRun, boxVars, turnVars
<1>2. queue' = {} /\ sprint' \in 1..MaxSprints
  BY <1>1, ActsOnBoard DEF Board
<1>3. team' \subseteq Devs
  BY DEF Hire, AcquireAndBreak, HackWon, HackCaught, HackBroke, boardVars, Board
<1>4. CASE Hire
  BY <1>2, <1>3, <1>4, SameBoardKept, KeptStep DEF Hire, SamePatience
<1>5. CASE AcquireAndBreak \/ HackBroke
  <2>1. \E next : Incident(next)
    BY <1>5 DEF AcquireAndBreak, HackBroke
  <2>. QED  BY <1>2, <1>3, <2>1, IncidentKept, KeptStep
<1>6. CASE HackWon \/ HackCaught
  <2>1. UNCHANGED <<tickets, hand>> /\ phase' \in {phase, GameOver}
    BY <1>6 DEF HackWon, HackCaught, boardVars
  <2>. QED  BY <1>2, <1>3, <2>1, SameBoardKept, KeptStep, PlainPhases
<1>. QED  BY <1>4, <1>5, <1>6

\* A question about a ticket finds it in hand, with nothing standing on it.
LEMMA AnswersOnBoard ==
  ASSUME Board, NEW kind \in TicketQuestions, Asked(kind)
  PROVE  /\ queue = {} /\ phase.ticket = hand /\ Obstacles(tickets, hand) = {}
         /\ hand \in Mine(tickets) /\ hand \in Open(tickets) /\ hand \in Ids
  BY DEF Asked, Board, AsksOfHand, SoundHand, Mine, Open

LEMMA FreeIds == Free = Ids \ (Open(tickets) \cup Backlog(tickets)) \/ ~SoundBoard(tickets)
<1> SUFFICES ASSUME SoundBoard(tickets)
             PROVE  Free = Ids \ (Open(tickets) \cup Backlog(tickets))
  OBVIOUS
<1>1. \A t \in Ids : tickets[t].status \in {"none", "backlog", "open"}
  BY DEF SoundBoard, Ticket
<1>. QED  BY <1>1 DEF Free, Open, Backlog

\* Work that arrives leaves hands and questions alone.
LEMMA ArrivedKept ==
  ASSUME NEW ids \in SUBSET Free, NEW kind \in Kinds, Board,
         tickets' = Arrived(tickets, ids, kind), hand' = hand
  PROVE  Kept
<1> DEFINE us == Arrived(tickets, ids, kind)
<1>1. /\ SoundBoard(us) /\ SameObstacles(tickets, us) /\ Mine(us) = Mine(tickets)
  <2>1. ids \subseteq Ids \ (Open(tickets) \cup Backlog(tickets))
    BY FreeIds DEF Board
  <2>2. SoundBoard(tickets) /\ sprint \in 1..MaxSprints
    BY DEF Board
  <2>. QED  BY <2>1, <2>2, ArrivedBoard
<1>2. tickets' = us
  OBVIOUS
<1> HIDE DEF us
<1>3. hand # NoId => hand \in Ids
  BY DEF Board, SoundHand, Mine, Open
<1>. QED  BY <1>1, <1>2, <1>3 DEF Kept, Board, SoundHand, SameObstacles

\* Waiting tickets that leave the board take nothing along.
LEMMA DroppedKept ==
  ASSUME NEW gone \in SUBSET Backlog(tickets), Board,
         tickets' = Without(tickets, gone), hand' = hand
  PROVE  Kept
<1>1. SoundBoard(tickets) /\ gone \cap Open(tickets) = {}
  BY DEF Board, Backlog, Open
<1>2. \A o \in Open(tickets) : tickets[o].parent \in gone /\ tickets[o].parent # NoId => o \in gone
  BY <1>1 DEF SoundBoard
<1>3. /\ SoundBoard(tickets') /\ Mine(tickets') = Mine(tickets) \ gone
      /\ \A u \in Ids : Obstacles(tickets', u) = Obstacles(tickets, u) \ gone
  BY <1>1, <1>2, WithoutBoard
<1>4. Mine(tickets') = Mine(tickets) /\ \A u \in Ids : Obstacles(tickets', u) = Obstacles(tickets, u)
  <2>1. Mine(tickets) \subseteq Open(tickets) /\ \A u \in Ids : Obstacles(tickets, u) \subseteq Open(tickets)
    BY DEF Mine, Obstacles
  <2>. QED  BY <1>1, <1>3, <2>1
<1>5. hand # NoId => hand \in Ids
  BY DEF Board, SoundHand, Mine, Open
<1>. QED  BY <1>3, <1>4, <1>5 DEF Kept, Board, SoundHand

\* The answers about a ticket.
LEMMA MergeBoard ==
  ASSUME Board,
         MergeTicket \/ MergeConflicts \/ ResolveFails \/ ResolveLands \/ Resume \/ Followup
  PROVE  Board'
<1>1. UNCHANGED <<queue, team, sprint>>
  BY DEF MergeTicket, MergeConflicts, ResolveFails, ResolveLands, Resume, Followup, Lands,
         TakesTurn, IsFree, SameRun, boxVars, turnVars, boardVars
<1>2. \E kind \in TicketQuestions : Asked(kind)
  BY DEF MergeTicket, MergeConflicts, ResolveFails, ResolveLands, Resume, Followup, TicketQuestions
<1>3. /\ phase.ticket = hand /\ Obstacles(tickets, hand) = {}
      /\ hand \in Mine(tickets) /\ hand \in Open(tickets) /\ hand \in Ids
  BY <1>2, AnswersOnBoard
<1>4. queue' = {} /\ team' \subseteq Devs /\ sprint' \in 1..MaxSprints
  BY <1>1, <1>2, AnswersOnBoard DEF Board
<1>5. SoundBoard(tickets) /\ tickets \in [Ids -> Ticket]
  BY DEF Board, SoundBoard
<1>6. CASE MergeTicket \/ ResolveLands
  <2>1. tickets' \in Landed(tickets, hand) /\ hand' \in Settled(tickets') /\ phase' = Ordinary
    BY <1>3, <1>6 DEF MergeTicket, ResolveLands, Lands
  <2>2. SoundBoard(tickets') /\ Open(tickets') = Open(tickets) \ {hand}
    BY <1>3, <1>5, <2>1, LandedBoard
  <2>3. SoundHand(tickets', hand')
    BY <2>1, <2>2, SettledHand
  <2>. QED  BY <1>4, <2>1, <2>2, <2>3, PlainStep, PlainPhases
<1>7. CASE MergeConflicts
  <2>1. UNCHANGED <<tickets, hand>> /\ phase' = Ask("resolve_conflict", hand)
    BY <1>3, <1>7 DEF MergeConflicts, boardVars
  <2>2. phase' \in {Ask(k, hand) : k \in TicketQuestions}
    BY <2>1 DEF TicketQuestions
  <2>. QED  BY <1>3, <1>4, <1>5, <2>1, <2>2, AskStep
<1>8. CASE ResolveFails
  <2>1. UNCHANGED <<tickets, hand>> /\ phase' = phase
    BY <1>8 DEF ResolveFails, boardVars, SamePatience
  <2>. QED  BY <1>4, <2>1, SameBoardKept, KeptStep
<1>9. CASE Resume
  <2>1. hand' = hand /\ phase' = Ordinary /\ tickets' \in Fixed(hand)
    BY <1>9 DEF Resume
  <2>2. PICK ts \in Written(hand), f \in BOOLEAN : tickets' = [ts EXCEPT ![hand].flagged = f]
    BY <2>1 DEF Fixed
  <2>3. ts \in Rewritten(tickets)
    BY <1>3, <1>5, Rewrites DEF Written
  <2>4. ts \in [Ids -> Ticket]
    BY <2>3 DEF Rewritten
  <2>5. tickets' \in Rewritten(ts)
    BY <1>3, <2>2, <2>4, Rewrites
  <2>6. tickets' \in Rewritten(tickets)
    BY <2>3, <2>5, RewritesTwice
  <2>7. SoundBoard(tickets') /\ Mine(tickets') = Mine(tickets)
    BY <1>5, <2>6, RewrittenBoard
  <2>. QED  BY <1>3, <1>4, <2>1, <2>7, PlainStep, PlainPhases DEF SoundHand
<1>10. CASE Followup
  <2>1. PICK ids \in NewIds :
          tickets' = [Arrived(tickets, ids, "client_bug") EXCEPT ![hand].full = TRUE]
    BY <1>3, <1>10 DEF Followup
  <2>2. hand' = hand /\ phase' = Ask("pr_accepted", hand)
    BY <1>3, <1>10 DEF Followup
  <2> DEFINE ts == Arrived(tickets, ids, "client_bug")
  <2>3. SoundBoard(ts) /\ SameObstacles(tickets, ts) /\ Mine(ts) = Mine(tickets)
    <3>1. ids \subseteq Ids \ (Open(tickets) \cup Backlog(tickets))
      BY FreeIds DEF Board, NewIds
    <3>2. "client_bug" \in Kinds /\ sprint \in 1..MaxSprints
      BY DEF Kinds, Board
    <3>. QED  BY <1>5, <3>1, <3>2, ArrivedBoard
  <2>4. tickets' = [ts EXCEPT ![hand].full = TRUE]
    BY <2>1
  <2> HIDE DEF ts
  <2>5. tickets' \in Rewritten(ts)
    BY <1>3, <2>3, <2>4, Rewrites DEF SoundBoard
  <2>6. /\ SoundBoard(tickets') /\ Mine(tickets') = Mine(tickets)
        /\ Obstacles(tickets', hand) = {}
    BY <1>3, <2>3, <2>5, RewrittenBoard DEF SameObstacles
  <2>7. phase' \in {Ask(k, hand) : k \in TicketQuestions}
    BY <2>2 DEF TicketQuestions
  <2>. QED  BY <1>3, <1>4, <2>2, <2>6, <2>7, AskStep
<1>. QED  BY <1>6, <1>7, <1>8, <1>9, <1>10

\* The answers to the story, and the bonus of a release.
LEMMA StoryBoard ==
  ASSUME Board,
         AnswerPatience \/ AnswerBug \/ AnswerDeal \/ AnswerDeparture \/ ChooseRelic
  PROVE  Board'
<1>1. step = "idle" /\ UNCHANGED queue
  BY DEF AnswerPatience, AnswerBug, AnswerDeal, AnswerDeparture, ChooseRelic, Answered, Asked, turnVars
<1>2. queue' = {}
  BY <1>1, QueueEmpty
<1>3. SoundBoard(tickets) /\ SoundHand(tickets, hand) /\ sprint \in 1..MaxSprints /\ team \subseteq Devs
  BY DEF Board
<1>4. CASE AnswerPatience
  <2>1. UNCHANGED <<tickets, hand, team, sprint>>
    BY <1>4 DEF AnswerPatience, Answered, SameRun, boxVars, boardVars
  <2>2. phase' \in {Ordinary} \cup {GameOver}
    BY <1>4, SufferedPhase DEF AnswerPatience, Suffer
  <2>. QED  BY <1>2, <1>3, <2>1, <2>2, PlainStep, PlainPhases
<1>5. CASE AnswerBug
  <2>1. /\ UNCHANGED <<hand, team, sprint>> /\ phase' = Ordinary
        /\ Free # {} /\ tickets' = Arrived(tickets, {NewId}, "client_bug")
    BY <1>5 DEF AnswerBug, Answered, SameRun, boxVars
  <2>2. {NewId} \in SUBSET Free /\ "client_bug" \in Kinds
    BY <2>1, NewIdIsFree DEF Kinds
  <2>. QED  BY <1>2, <1>3, <2>1, <2>2, ArrivedKept, KeptStep, PlainPhases
<1>6. CASE AnswerDeal
  <2> DEFINE ts == Arrived(tickets, {NewId}, "vip")
  <2>1. /\ UNCHANGED <<team, sprint>> /\ phase' = Ordinary /\ hand' = NewId
        /\ Free # {} /\ tickets' = Opened(ts, NewId)
    BY <1>6 DEF AnswerDeal, Answered, SameRun, boxVars
  <2>2. {NewId} \subseteq Ids \ (Open(tickets) \cup Backlog(tickets)) /\ "vip" \in Kinds
    BY <1>3, <2>1, NewIdIsFree, FreeIds DEF Kinds
  <2>3. SoundBoard(ts) /\ Backlog(ts) = Backlog(tickets) \cup {NewId}
    BY <1>3, <2>2, ArrivedBoard
  <2> HIDE DEF ts
  <2>4. SoundBoard(tickets') /\ NewId \in Mine(tickets')
    BY <2>1, <2>3, OpenedIsMine
  <2>. QED  BY <1>2, <1>3, <2>1, <2>4, PlainStep, PlainPhases DEF SoundHand
<1>7. CASE AnswerDeparture
  <2>1. PICK d \in team : Release({d})
    BY <1>7 DEF AnswerDeparture
  <2>2. UNCHANGED sprint /\ phase' = Ordinary
    BY <1>7 DEF AnswerDeparture, Answered, SameRun, boxVars
  <2>3. {d} \in SUBSET team
    OBVIOUS
  <2>. QED  BY <1>2, <1>3, <2>1, <2>2, <2>3, ReleaseKept, KeptStep, PlainPhases
<1>8. CASE ChooseRelic
  <2>1. hand' = hand /\ phase' = Ordinary /\ sprint' = sprint + 1 /\ sprint < MaxSprints /\ Boost
    BY <1>8 DEF ChooseRelic
  <2>2. sprint' \in 1..MaxSprints
    BY <1>3, <2>1, RunBounds
  <2>3. team' \subseteq Devs
    BY <1>3, <2>1 DEF Boost
  <2>4. Kept
    <3>1. CASE tickets' = tickets
      BY <2>1, <3>1, SameBoardKept
    <3>2. CASE tickets' = Without(tickets, Backlog(tickets))
      BY <2>1, <3>2, DroppedKept
    <3>3. CASE Free # {} /\ tickets' = Arrived(tickets, {NewId}, "vip")
      <4>1. {NewId} \in SUBSET Free /\ "vip" \in Kinds
        BY <3>3, NewIdIsFree DEF Kinds
      <4>. QED  BY <2>1, <3>3, <4>1, ArrivedKept
    <3>. QED  BY <2>1, <3>1, <3>2, <3>3 DEF Boost
  <2>. QED  BY <1>2, <2>1, <2>2, <2>3, <2>4, KeptStep, PlainPhases
<1>. QED  BY <1>4, <1>5, <1>6, <1>7, <1>8

\* workTeam(): a developer writes a ticket of theirs, turns up an obstacle on it,
\* or lands it with nothing standing on it; the player's ticket is not theirs.
LEMMA TeamBoard ==
  ASSUME Board, TeamWorks
  PROVE  Board'
<1>1. step = "work" /\ UNCHANGED <<team, phase, step, sprint>>
  BY DEF TeamWorks, At, SameRun, boxVars
<1>2. PICK t \in queue : \E ts \in WrittenByTeam(t) :
        /\ IF MayLand(ts, t)
           THEN /\ tickets' \in Landed(ts, t) /\ hand' \in Settled(tickets')
           ELSE tickets' = ts /\ hand' = hand
        /\ queue' = queue \ {t}
  BY DEF TeamWorks
<1>3. PICK ts \in WrittenByTeam(t) :
        /\ IF MayLand(ts, t)
           THEN /\ tickets' \in Landed(ts, t) /\ hand' \in Settled(tickets')
           ELSE tickets' = ts /\ hand' = hand
        /\ queue' = queue \ {t}
  BY <1>2
<1>4. SoundBoard(tickets) /\ SoundHand(tickets, hand) /\ tickets \in [Ids -> Ticket]
  BY DEF Board, SoundBoard
<1>5. /\ t \in Open(tickets) /\ t \in Ids /\ tickets[t].dev # NoDev
      /\ queue \subseteq OfTheTeam(tickets)
  BY DEF Board, OfTheTeam, Open
<1>6. /\ hand # NoId => hand \in Mine(tickets) /\ hand \in Ids \ {t} /\ hand \in Open(tickets)
      /\ hand \in Open(tickets) => hand # NoId
  BY <1>4, <1>5, IdsAreIds DEF SoundHand, Mine, Open
\* What is written, with or without an obstacle.
<1>7. /\ SoundBoard(ts) /\ Open(tickets) \subseteq Open(ts) /\ Mine(ts) = Mine(tickets)
      /\ \A u \in Ids \ {t} : Obstacles(ts, u) = Obstacles(tickets, u)
      /\ \A u \in Open(tickets) : ts[u].dev = tickets[u].dev
  <2> DEFINE full == [tickets EXCEPT ![t].full = TRUE]
  <2>1. tickets \in Rewritten(tickets) /\ full \in Rewritten(tickets)
    BY <1>4, <1>5, Rewrites
  <2>2. \/ ts \in {tickets, full}
        \/ \E us \in {tickets, full} : CanSpawn(us, t) /\ ts = WithObstacle(us, t)
    BY DEF WrittenByTeam
  <2> HIDE DEF full
  <2>3. CASE ts \in {tickets, full}
    <3>1. ts \in Rewritten(tickets)
      BY <2>1, <2>3
    <3>2. SoundBoard(ts) /\ SameObstacles(tickets, ts) /\ Open(ts) = Open(tickets) /\ Mine(ts) = Mine(tickets)
      BY <1>4, <3>1, RewrittenBoard
    <3>3. \A u \in Open(tickets) : ts[u].dev = tickets[u].dev
      BY <3>1 DEF Rewritten, Open
    <3>. QED  BY <3>2, <3>3 DEF SameObstacles
  <2>4. ASSUME NEW us \in {tickets, full}, CanSpawn(us, t), ts = WithObstacle(us, t)
        PROVE  /\ SoundBoard(ts) /\ Open(tickets) \subseteq Open(ts) /\ Mine(ts) = Mine(tickets)
               /\ \A u \in Ids \ {t} : Obstacles(ts, u) = Obstacles(tickets, u)
               /\ \A u \in Open(tickets) : ts[u].dev = tickets[u].dev
    <3>1. us \in Rewritten(tickets)
      BY <2>1
    <3>2. /\ NewId \in Ids \ Open(tickets) /\ SoundBoard(ts)
          /\ Open(ts) = Open(tickets) \cup {NewId} /\ Mine(ts) = Mine(tickets)
          /\ \A u \in Ids \ {t} : Obstacles(ts, u) = Obstacles(tickets, u)
      BY <1>4, <1>5, <2>4, <3>1, SpawnedBoard
    <3>3. us \in [Ids -> Ticket] /\ \A u \in Open(tickets) : us[u].dev = tickets[u].dev
      BY <3>1 DEF Rewritten, Open
    <3>4. \A u \in Ids \ {NewId} : ts[u].dev = us[u].dev
      BY <2>4, <3>3, <1>5 DEF WithObstacle, Ticket
    <3>. QED  BY <3>2, <3>3, <3>4 DEF Open
  <2>. QED  BY <2>2, <2>3, <2>4
<1>8. CASE ~MayLand(ts, t)
  <2>1. tickets' = ts /\ hand' = hand
    BY <1>3, <1>8
  <2>2. Kept
    BY <1>4, <1>6, <1>7, <2>1 DEF Kept, SoundHand
  <2>3. queue' \subseteq OfTheTeam(tickets')
    BY <1>3, <1>5, <1>7, <2>1 DEF OfTheTeam
  <2>4. AsksOfHand(phase', hand', tickets')
    BY <1>1, <2>2 DEF Board, Kept, AsksOfHand
  <2>. QED  BY <1>1, <2>2, <2>3, <2>4 DEF Board, Kept
<1>9. CASE MayLand(ts, t)
  <2>1. Obstacles(ts, t) = {} /\ tickets' \in Landed(ts, t) /\ hand' \in Settled(tickets')
    BY <1>3, <1>9 DEF MayLand
  <2>2. /\ SoundBoard(tickets') /\ Open(tickets') = Open(ts) \ {t} /\ Mine(tickets') = Mine(ts) \ {t}
        /\ \A u \in Ids : Obstacles(tickets', u) = Obstacles(ts, u) \ {t}
        /\ \A u \in Ids \ {t} : tickets'[u].dev = ts[u].dev
    BY <1>5, <1>7, <2>1, LandedBoard
  <2>3. hand \in Open(tickets') => hand # NoId
    BY IdsAreIds DEF Open
  <2>4. hand # NoId => hand \in Mine(tickets') /\ hand \in Open(tickets')
    BY <1>6, <1>7, <2>2
  <2>5. SoundHand(tickets', hand') /\ (hand # NoId => hand' = hand)
    BY <2>1, <2>3, <2>4, SettledHand
  <2>6. queue' \subseteq OfTheTeam(tickets')
    BY <1>3, <1>5, <1>7, <2>2 DEF OfTheTeam, Open
  <2>7. AsksOfHand(phase', hand', tickets')
    <3>1. SUFFICES ASSUME phase.kind \in TicketQuestions
                   PROVE  phase.ticket = hand' /\ hand' # NoId /\ Obstacles(tickets', hand') = {}
      BY <1>1 DEF AsksOfHand
    <3>2. phase.ticket = hand /\ hand # NoId /\ Obstacles(tickets, hand) = {}
      BY <3>1 DEF Board, AsksOfHand
    <3>3. hand' = hand /\ hand \in Ids \ {t}
      BY <1>6, <2>5, <3>2
    <3>. QED  BY <1>7, <2>2, <3>2, <3>3
  <2>. QED  BY <1>1, <2>2, <2>5, <2>6, <2>7 DEF Board
<1>. QED  BY <1>8, <1>9

\* pullTeam(): a developer takes a waiting ticket, which is nobody's hand.
LEMMA TakesBoard ==
  ASSUME Board, Takes
  PROVE  Board'
<1>1. PICK d \in team, t \in Ids : CanTake(d, t) /\ tickets' = TakenBy(tickets, t, d)
  BY DEF Takes, TakenBy
<1>2. step # "work" /\ UNCHANGED <<hand, team, queue, step, phase, sprint>>
  BY DEF Takes, SamePatience, SameRun, boxVars, turnVars
<1>3. d \in Devs /\ d # NoDev /\ t \in Backlog(tickets) /\ SoundBoard(tickets)
  BY <1>1, RunDevs DEF Board, CanTake
<1>4. SoundBoard(tickets') /\ SameObstacles(tickets, tickets') /\ Mine(tickets') = Mine(tickets)
  BY <1>1, <1>3, TakenBoard
<1>5. Kept
  <2>1. hand # NoId => hand \in Ids
    BY DEF Board, SoundHand, Mine, Open
  <2>. QED  BY <1>2, <1>4, <2>1 DEF Kept, Board, SoundHand, SameObstacles
<1>6. queue' = {}
  BY <1>2, QueueEmpty
<1>. QED  BY <1>2, <1>5, <1>6, KeptStep DEF Board

\* The other rules of the turn.
LEMMA TurnBoard ==
  ASSUME Board,
         \/ Hands \/ TurnPasses \/ ShipsEarly \/ Explodes \/ Holds \/ StartsWork \/ TeamIsDone
         \/ Clock \/ Payday \/ BoxEnds \/ BurnsOut \/ TurnEnds
  PROVE  Board'
<1>1. team \subseteq Devs /\ sprint' \in 1..MaxSprints
  BY DEF Hands, TurnPasses, ShipsEarly, Explodes, Holds, StartsWork, TeamIsDone, Clock, Payday,
         BoxEnds, BurnsOut, TurnEnds, EndsSprint, CloseMonth, SameRun, boxVars, Board
<1>2. CASE \/ Hands \/ TurnPasses \/ ShipsEarly \/ Holds \/ TeamIsDone
           \/ Clock \/ BoxEnds \/ BurnsOut \/ TurnEnds
  <2>1. /\ UNCHANGED <<tickets, hand, team, queue>> /\ phase' \in {phase, GameOver}
        /\ step # "work" \/ queue = {}
    BY <1>2 DEF Hands, TurnPasses, ShipsEarly, Holds, TeamIsDone, Clock, BoxEnds, BurnsOut,
                TurnEnds, EndsSprint, At, GoesTo, boardVars, turnVars
  <2>2. queue' = {}
    BY <2>1, QueueEmpty
  <2>. QED  BY <1>1, <2>1, <2>2, SameBoardKept, KeptStep, PlainPhases
<1>3. CASE StartsWork
  <2>1. /\ UNCHANGED <<tickets, hand, team, phase>>
        /\ step' = "work" /\ queue' = {t \in Open(tickets) : tickets[t].dev \in team}
    BY <1>3 DEF StartsWork, GoesTo, boardVars
  <2>2. queue' \subseteq OfTheTeam(tickets')
    BY <1>1, <2>1, RunDevs DEF OfTheTeam
  <2>. QED  BY <1>1, <2>1, <2>2 DEF Board
<1>4. CASE Explodes
  <2>1. /\ Free # {} /\ tickets' = Forced(tickets, "refactor") /\ hand' = HandIfFree(NewId)
        /\ UNCHANGED <<team, queue, phase>> /\ step = "turn"
    BY <1>4 DEF Explodes, At, GoesTo, turnVars
  <2>2. "refactor" \in Kinds /\ queue' = {}
    BY <2>1, QueueEmpty DEF Kinds
  <2>. QED  BY <1>1, <2>1, <2>2, ForcedKept, KeptStep
<1>5. CASE Payday
  <2>1. CloseMonth("box") /\ step = "payday" /\ UNCHANGED queue
    BY <1>5 DEF Payday, At, CloseMonth, turnVars
  <2>. QED  BY <1>1, <2>1, QueueEmpty, MonthKept, KeptStep
<1>. QED  BY <1>2, <1>3, <1>4, <1>5

\* The release, and the opening of the next sprint.
LEMMA ReleaseBoard ==
  ASSUME Board,
         \/ DeadlineMissed \/ DeadlinesSettled \/ ObjectiveSettled
         \/ BugFound \/ BugsRolled \/ MonthFallsDue \/ Verdict
         \/ SkillsExpire \/ TeamIsStaffed \/ StaleForced \/ NoneStale
         \/ FeatureArrives \/ Arrives \/ SprintOpens
  PROVE  Board'
<1>1. /\ step # "work" /\ UNCHANGED <<queue, sprint>>
  BY DEF DeadlineMissed, DeadlinesSettled, ObjectiveSettled, BugFound, BugsRolled, MonthFallsDue,
         Verdict, SkillsExpire, TeamIsStaffed, StaleForced, NoneStale, FeatureArrives, Arrives,
         SprintOpens, At, CloseMonth, SameRun, boxVars, turnVars, boardVars
<1>2. queue' = {} /\ sprint' \in 1..MaxSprints /\ team \subseteq Devs
  BY <1>1, QueueEmpty DEF Board
<1>3. CASE \/ DeadlinesSettled \/ ObjectiveSettled \/ BugsRolled \/ Verdict
           \/ TeamIsStaffed \/ NoneStale \/ SprintOpens
  <2>1. UNCHANGED <<tickets, hand, team>>
    BY <1>3 DEF DeadlinesSettled, ObjectiveSettled, BugsRolled, Verdict, TeamIsStaffed, NoneStale,
                SprintOpens, boardVars
  <2>2. phase' \in {phase} \cup Plain
    <3>1. CASE \/ DeadlinesSettled \/ BugsRolled \/ TeamIsStaffed \/ NoneStale
      BY <3>1 DEF DeadlinesSettled, BugsRolled, TeamIsStaffed, NoneStale, GoesTo
    <3>2. CASE ObjectiveSettled
      <4>1. phase' \in MayAsk \cup {GameOver}
        BY <3>2, SufferedPhase DEF ObjectiveSettled, Suffer
      <4>. QED  BY <4>1, MayAskPhases, PlainPhases
    <3>3. CASE Verdict
      <4>1. phase' \in {Ask("choose_relic", NoId)} \cup {GameOver}
        BY <3>3, SufferedPhase DEF Verdict, Suffer
      <4>. QED  BY <4>1, PlainPhases
    <3>4. CASE SprintOpens
      BY <3>4, MayAskPhases DEF SprintOpens
    <3>. QED  BY <1>3, <3>1, <3>2, <3>3, <3>4
  <2>. QED  BY <1>2, <2>1, <2>2, SameBoardKept, KeptStep
<1>4. CASE DeadlineMissed
  <2>1. PICK t \in DueNow : tickets' = Without(tickets, {t})
    BY <1>4 DEF DeadlineMissed
  <2>2. {t} \in SUBSET Backlog(tickets) /\ UNCHANGED <<hand, team>>
    BY <1>4 DEF DeadlineMissed, DueNow
  <2>3. phase' \in {phase} \cup {GameOver}
    BY <1>4, SufferedPhase DEF DeadlineMissed, Suffer, GoesTo
  <2>. QED  BY <1>2, <2>1, <2>2, <2>3, DroppedKept, KeptStep, PlainPhases
<1>5. CASE BugFound
  <2>1. Incident("bugs") /\ UNCHANGED team
    BY <1>5 DEF BugFound
  <2>. QED  BY <1>2, <2>1, IncidentKept, KeptStep
<1>6. CASE MonthFallsDue
  <2>1. CloseMonth("months")
    BY <1>6 DEF MonthFallsDue
  <2>. QED  BY <1>2, <2>1, MonthKept, KeptStep
<1>7. CASE SkillsExpire
  <2>1. PICK gone \in SUBSET Backlog(tickets) : tickets' = Without(tickets, gone)
    BY <1>7 DEF SkillsExpire
  <2>2. UNCHANGED <<hand, team, phase>>
    BY <1>7 DEF SkillsExpire, GoesTo
  <2>. QED  BY <1>2, <2>1, <2>2, DroppedKept, KeptStep
<1>8. CASE StaleForced
  <2>1. phase' \in {phase} \cup {GameOver} /\ UNCHANGED team
    BY <1>8, SufferedPhase DEF StaleForced
  <2>2. PICK t \in Stale : \/ UNCHANGED <<tickets, hand>>
                           \/ tickets' = Opened(tickets, t) /\ hand' = HandIfFree(t)
    BY <1>8 DEF StaleForced
  <2>3. CASE UNCHANGED <<tickets, hand>>
    BY <1>2, <2>1, <2>3, SameBoardKept, KeptStep, PlainPhases
  <2>4. CASE tickets' = Opened(tickets, t) /\ hand' = HandIfFree(t)
    <3>1. t \in Backlog(tickets) /\ t \in Ids /\ SoundBoard(tickets)
      BY DEF Stale, Backlog, Board
    <3>2. /\ SoundBoard(tickets') /\ SameObstacles(tickets, tickets')
          /\ Mine(tickets') = Mine(tickets) \cup {t}
      BY <2>4, <3>1, OpenedIsMine
    <3>3. /\ SoundHand(tickets', hand')
          /\ hand # NoId => hand' = hand /\ Obstacles(tickets', hand) = Obstacles(tickets, hand)
      BY <2>4, <3>1, <3>2, FreeHand
    <3>4. Kept
      BY <3>2, <3>3 DEF Kept
    <3>. QED  BY <1>2, <2>1, <3>4, KeptStep, PlainPhases
  <2>. QED  BY <2>2, <2>3, <2>4
<1>9. CASE FeatureArrives
  <2>1. UNCHANGED <<hand, team, phase>>
    BY <1>9 DEF FeatureArrives, GoesTo
  <2>2. CASE Free = {}
    BY <1>2, <1>9, <2>1, <2>2, SameBoardKept, KeptStep DEF FeatureArrives
  <2>3. CASE Free # {}
    <3>1. {NewId} \in SUBSET Free /\ "feature" \in Kinds /\ tickets' = Arrived(tickets, {NewId}, "feature")
      BY <1>9, <2>3, NewIdIsFree DEF FeatureArrives, Kinds
    <3>. QED  BY <1>2, <2>1, <3>1, ArrivedKept, KeptStep
  <2>. QED  BY <2>2, <2>3
<1>10. CASE Arrives
  <2>1. UNCHANGED <<hand, team, phase>> /\ Free # {}
    BY <1>10 DEF Arrives, SamePatience
  <2>2. PICK kind \in Drawn : tickets' = Arrived(tickets, {NewId}, kind)
    BY <1>10 DEF Arrives
  <2>3. {NewId} \in SUBSET Free /\ kind \in Kinds
    BY <2>1, NewIdIsFree, RunDrawn DEF Kinds
  <2>. QED  BY <1>2, <2>1, <2>2, <2>3, ArrivedKept, KeptStep
<1>. QED  BY <1>3, <1>4, <1>5, <1>6, <1>7, <1>8, <1>9, <1>10

\* Board is inductive.
LEMMA BoardHolds == SoloSpec => []Board
<1>1. SoloInit => Board
  <2> SUFFICES ASSUME SoloInit
               PROVE  Board
    OBVIOUS
  <2>1. NoTicket \in Ticket /\ NoTicket.status = "none" /\ NoTicket.parent = NoId /\ NoTicket.dev = NoDev
    <3>1. 0 \in 0..MaxObstacles /\ 0 \in 0..MaxSprints
      BY RunGauge, RunBounds
    <3>. QED  BY <3>1 DEF NoTicket, Ticket
  <2>2. /\ tickets \in [Ids -> Ticket] /\ \A t \in Ids : tickets[t] = NoTicket
    BY <2>1 DEF SoloInit
  <2>3. Open(tickets) = {} /\ Mine(tickets) = {}
    BY <2>1, <2>2 DEF Open, Mine
  <2>4. SoundBoard(tickets)
    BY <2>1, <2>2, <2>3 DEF SoundBoard
  <2>5. phase \in Plain /\ 1 \in 1..MaxSprints
    BY PlainPhases, RunBounds DEF SoloInit
  <2>. QED  BY <2>3, <2>4, <2>5 DEF SoloInit, Board, SoundHand, AsksOfHand, Plain
<1>2. Board /\ [SoloNext]_soloVars => Board'
  <2> SUFFICES ASSUME Board, [SoloNext]_soloVars
               PROVE  Board'
    OBVIOUS
  <2>1. CASE Player
    BY <2>1, WorkBoard, SubmitBoard, ExtraBoard, MergeBoard, StoryBoard DEF Player
  <2>2. CASE Engine
    BY <2>2, TurnBoard, TeamBoard, TakesBoard, ReleaseBoard DEF Engine
  <2>3. CASE UNCHANGED soloVars
    <3>1. UNCHANGED <<tickets, hand, team, sprint, phase, queue, step>>
      BY <2>3 DEF soloVars, boardVars, boxVars, turnVars
    <3>. QED  BY <3>1 DEF Board, SoundBoard, SoundHand, AsksOfHand, OfTheTeam, Open, Mine, Obstacles
  <2>. QED  BY <2>1, <2>2, <2>3 DEF SoloNext
<1>. QED  BY <1>1, <1>2, PTL DEF SoloSpec

\* Whatever rule moves a ticket (a landing of the team, a payday, a departure, a
\* deadline, a bonus), what the player has in hand is one of their open tickets,
\* a question about a ticket is about that one, and every open obstacle is on an
\* open feature in the same hands (rules/tickets.ts, write.ts, team.ts).
THEOREM TheBoardAgrees == SoloSpec => []BoardAgrees
<1>1. Board => BoardAgrees
  BY DEF Board, BoardAgrees, HandIsMine, ObstaclesHoldTheirFeature, SoundBoard, SoundHand, AsksOfHand
<1>. QED  BY <1>1, BoardHolds, PTL

-----------------------------------------------------------------------------
(* The box of a sprint and its months *)

LEMMA Multiples ==
  \A a, b \in Nat, m \in Nat \ {0} : a * m < b * m => a + 1 <= b
<1> SUFFICES ASSUME NEW a \in Nat, NEW b \in Nat, NEW m \in Nat \ {0}, b <= a
             PROVE  b * m <= a * m
  OBVIOUS
<1>1. PICK d \in Nat : a = b + d
  <2>1. a - b \in Nat /\ a = b + (a - b)
    OBVIOUS
  <2>. QED  BY <2>1
<1>2. a * m = b * m + d * m
  BY <1>1
<1>3. d * m \in Nat /\ b * m \in Nat
  OBVIOUS
<1>. QED  BY <1>2, <1>3

LEMMA Divides ==
  \A s \in Nat, m \in Nat \ {0} :
    /\ s \div m \in Nat
    /\ s % m = 0 => s = (s \div m) * m
  OBVIOUS

\* A sprint has its months, and a bonus adds one at most.
LEMMA BoxNumbers ==
  /\ Turns \in Nat \ {0} /\ MonthTurns \in Nat \ {0} /\ ExtraTurns \in 0..MonthTurns
  /\ MonthsPerSprint \in Nat /\ Turns = MonthsPerSprint * MonthTurns
<1>1. Turns \in Nat \ {0} /\ MonthTurns \in Nat \ {0} /\ ExtraTurns \in 0..MonthTurns
  BY RunBox
<1>. QED  BY <1>1, RunBox, Divides DEF MonthsPerSprint

\* When a turn ends a month, one more fits in the turns that have passed.
LEMMA MonthEnds ==
  \A k, s \in Nat : k * MonthTurns <= s /\ (s + 1) % MonthTurns = 0 => (k + 1) * MonthTurns <= s + 1
<1> SUFFICES ASSUME NEW k \in Nat, NEW s \in Nat,
                    k * MonthTurns <= s, (s + 1) % MonthTurns = 0
             PROVE  (k + 1) * MonthTurns <= s + 1
  OBVIOUS
<1> DEFINE q == (s + 1) \div MonthTurns
<1>1. MonthTurns \in Nat \ {0} /\ s + 1 \in Nat
  BY BoxNumbers
<1>2. q \in Nat /\ s + 1 = q * MonthTurns
  BY <1>1, Divides
<1> HIDE DEF q
<1>3. k * MonthTurns \in Nat /\ k * MonthTurns < q * MonthTurns
  BY <1>1, <1>2
<1>4. k + 1 <= q
  BY <1>1, <1>2, <1>3, Multiples
<1>5. PICK d \in Nat : q = (k + 1) + d
  <2>1. q - (k + 1) \in Nat /\ q = (k + 1) + (q - (k + 1))
    BY <1>2, <1>4
  <2>. QED  BY <2>1
<1>6. q * MonthTurns = (k + 1) * MonthTurns + d * MonthTurns
  BY <1>1, <1>5
<1>7. d * MonthTurns \in Nat /\ (k + 1) * MonthTurns \in Nat
  BY <1>1
<1>. QED  BY <1>2, <1>6, <1>7

\* The months that fit before the last turn of a box, longer or not, are those
\* of the sprint at most.
LEMMA MonthsFit ==
  \A k, s \in Nat : (k + 1) * MonthTurns <= s /\ s < Turns + ExtraTurns => k + 1 <= MonthsPerSprint
<1> SUFFICES ASSUME NEW k \in Nat, NEW s \in Nat,
                    (k + 1) * MonthTurns <= s, s < Turns + ExtraTurns
             PROVE  k + 1 <= MonthsPerSprint
  OBVIOUS
<1>1. (MonthsPerSprint + 1) * MonthTurns = Turns + MonthTurns
  BY BoxNumbers
<1>2. (k + 1) * MonthTurns < (MonthsPerSprint + 1) * MonthTurns
  <2>1. (k + 1) * MonthTurns \in Nat
    BY BoxNumbers
  <2>. QED  BY <1>1, <2>1, BoxNumbers
<1>3. (k + 1) + 1 <= MonthsPerSprint + 1
  BY <1>2, BoxNumbers, Multiples
<1>. QED  BY <1>3, BoxNumbers

\* The rules of a sprint that still has turns to play.
InBox == {"settle", "idle", "turn", "pull", "work", "clock", "opening", "staff", "stale",
          "arrive", "more"}

\* While turns are left the months closed fit in those that have passed; the
\* release closes what is missing, and only a sprint that is paid offers a bonus.
Box ==
  /\ step \in Steps
  /\ extraTurns \in {0, ExtraTurns}
  /\ sprintTurn \in 0..(Turns + ExtraTurns)
  /\ sprintMonths \in 0..MonthsPerSprint
  /\ phase.kind = "choose_relic" => step \in {"settle", "idle"} /\ sprintMonths = MonthsPerSprint
  /\ step \in InBox /\ phase.kind # "choose_relic" /\ ~Over =>
       sprintTurn < SprintTurns /\ sprintMonths * MonthTurns <= sprintTurn
  /\ step = "payday" => sprintTurn < SprintTurns /\ (sprintMonths + 1) * MonthTurns <= sprintTurn
  /\ step = "box" => sprintTurn <= SprintTurns /\ sprintMonths * MonthTurns <= sprintTurn

\* A rule of a sprint that has turns left and goes on with it, or ends the run.
LEMMA InBoxStep ==
  ASSUME Box, UNCHANGED <<sprintTurn, sprintMonths, extraTurns>>,
         step \in InBox, step' \in InBox,
         phase'.kind = "choose_relic" => phase' = phase /\ step' \in {"settle", "idle"},
         phase.kind = "choose_relic" \/ Over => phase' = phase
  PROVE  Box'
<1>1. step' \in Steps /\ step' \notin {"payday", "box"}
  BY DEF InBox, Steps
<1>. QED  BY <1>1 DEF Box, Over, SprintTurns

\* A rule that leaves the box: the release has begun, or the run is over.
LEMMA OutOfBoxStep ==
  ASSUME Box, UNCHANGED sprintTurn, extraTurns' \in {0, ExtraTurns},
         sprintMonths' \in 0..MonthsPerSprint, phase'.kind # "choose_relic",
         \/ step' \in {"deadlines", "objective", "bugs", "months"}
         \/ phase' = GameOver /\ step' \in {"settle", "arrive"}
  PROVE  Box'
<1>1. step' \in Steps /\ step' \notin {"payday", "box"}
  BY DEF Steps
<1>. QED  BY <1>1 DEF Box, Over, SprintTurns, InBox

LEMMA Kindly ==
  /\ Ordinary.kind = "choose_action" /\ GameOver.kind = "game_over"
  /\ \A k, t : Ask(k, t).kind = k
  /\ Over => phase.kind = "game_over"
  BY DEF Ordinary, GameOver, Ask, Over

LEMMA SufferedStep ==
  ASSUME NEW n, NEW questions, NEW next, NEW ended, SufferThen(n, questions, next, ended)
  PROVE  (phase' = GameOver /\ step' = ended) \/ (phase' \in questions /\ step' = next)
  BY DEF SufferThen

LEMMA MayAskKinds == \A p \in MayAsk : p.kind = "choose_relic" => p = phase
  BY Kindly DEF MayAsk

\* The player's actions but the choice of a bonus.
LEMMA PlayerBox ==
  ASSUME Box, Player, ~ChooseRelic
  PROVE  Box'
<1>1. step = "idle" /\ phase.kind \notin {"choose_relic", "game_over"}
  <2>1. \E kind \in {"choose_action", "pr_accepted", "resolve_conflict", "ticket_rejected", "event"} : Asked(kind)
    BY DEF Player, StartTicket, Checkout, InHand, Commit, Fix, Review, Rest, Submits,
           SubmitAccepted, SubmitRefused, MergeObstacle, Hire, AcquireAndBreak, Hacks, HackWon,
           HackCaught, HackBroke, Acts, MergeTicket, MergeConflicts, ResolveFails, ResolveLands,
           Resume, Followup, Answered, AnswerPatience, AnswerBug, AnswerDeal, AnswerDeparture
  <2>. QED  BY <2>1 DEF Asked
<1>2. UNCHANGED <<sprintTurn, sprintMonths, extraTurns>>
  BY DEF Player, StartTicket, Checkout, Commit, Fix, Review, Rest,
         SubmitAccepted, SubmitRefused, MergeObstacle, Hire, AcquireAndBreak, HackWon,
         HackCaught, HackBroke, MergeTicket, MergeConflicts, ResolveFails, ResolveLands, Lands,
         Resume, Followup, Answered, AnswerPatience, AnswerBug, AnswerDeal, AnswerDeparture,
         SameRun, boxVars
<1>3. step' \in {"settle", "turn"} /\ phase'.kind # "choose_relic"
  <2>1. CASE \/ StartTicket \/ Checkout \/ Commit \/ Fix \/ Review \/ MergeObstacle
             \/ Hire \/ ResolveFails
    <3>1. UNCHANGED <<phase, quality>>
      BY <2>1 DEF StartTicket, Checkout, Commit, Fix, Review, MergeObstacle, Hire, ResolveFails, SamePatience
    <3>2. step' \in {"settle", "turn"}
      BY <2>1 DEF StartTicket, Checkout, Commit, Fix, Review, MergeObstacle, Hire, ResolveFails,
                  IsFree, TakesTurn
    <3>. QED  BY <1>1, <3>1, <3>2
  <2>2. CASE Rest
    <3>1. SufferThen(1, {Ordinary}, "turn", "settle")
      BY <2>2 DEF Rest, TakesTurnAndPatience, Suffer
    <3>. QED  BY <3>1, SufferedStep, Kindly
  <2>3. CASE SubmitAccepted \/ MergeConflicts \/ Followup
    BY <2>3, Kindly DEF SubmitAccepted, MergeConflicts, Followup, IsFree
  <2>4. CASE SubmitRefused
    <3>1. PICK blame \in 0..1 : SufferThen(blame, {Ask("ticket_rejected", hand)}, "settle", "settle")
      BY <2>4 DEF SubmitRefused, Suffer
    <3>. QED  BY <3>1, SufferedStep, Kindly
  <2>5. CASE AcquireAndBreak \/ HackBroke
    <3>1. PICK next \in {"settle", "turn"} : SufferThen(1, MayAsk, next, "settle")
      BY <2>5 DEF AcquireAndBreak, HackBroke, Incident, Suffer
    <3>. QED  BY <1>1, <3>1, SufferedStep, Kindly, MayAskKinds
  <2>6. CASE HackWon \/ HackCaught
    BY <1>1, <2>6, Kindly DEF HackWon, HackCaught, TakesTurn, IsFree
  <2>7. CASE MergeTicket \/ ResolveLands \/ Resume
    BY <2>7, Kindly DEF MergeTicket, ResolveLands, Resume, Lands, TakesTurn
  <2>8. CASE AnswerBug \/ AnswerDeal \/ AnswerDeparture
    BY <2>8, Kindly DEF AnswerBug, AnswerDeal, AnswerDeparture
  <2>9. CASE AnswerPatience
    <3>1. CASE \E n \in 0..1 : SufferThen(n, {Ordinary}, "settle", "settle")
      BY <3>1, SufferedStep, Kindly
    <3>2. CASE phase' = Ordinary /\ step' = "settle"
      BY <3>2, Kindly
    <3>. QED  BY <2>9, <3>1, <3>2 DEF AnswerPatience, Suffer
  <2>. QED  BY <2>1, <2>2, <2>3, <2>4, <2>5, <2>6, <2>7, <2>8, <2>9 DEF Player
<1>4. step \in InBox /\ step' \in InBox /\ ~Over
  BY <1>1, <1>3, Kindly DEF InBox
<1>. QED  BY <1>1, <1>2, <1>3, <1>4, InBoxStep

\* The bonus opens a box of its own.
LEMMA RelicBox ==
  ASSUME Box, ChooseRelic
  PROVE  Box'
<1>1. /\ sprintTurn' = 0 /\ sprintMonths' = 0 /\ step' = "opening" /\ phase' = Ordinary
      /\ extraTurns' \in {0, ExtraTurns}
  BY DEF ChooseRelic, Boost, Box
<1>2. ExtraTurns \in Nat /\ Turns \in Nat /\ Turns > 0 /\ MonthsPerSprint \in Nat
  BY BoxNumbers
<1>3. 0 * MonthTurns = 0
  BY BoxNumbers
<1>4. 0 \in 0..(Turns + ExtraTurns) /\ 0 \in 0..MonthsPerSprint
  BY <1>2
<1>5. 0 < Turns + extraTurns'
  <2>1. CASE extraTurns' = 0
    BY <1>2, <2>1
  <2>2. CASE extraTurns' = ExtraTurns
    BY <1>2, <2>2
  <2>. QED  BY <1>1, <2>1, <2>2
<1>6. phase'.kind # "choose_relic" /\ step' \notin {"payday", "box"} /\ step' \in Steps
  BY <1>1, Kindly DEF Steps
<1>7. sprintMonths' * MonthTurns <= sprintTurn'
  BY <1>1, <1>3
<1>. QED  BY <1>1, <1>4, <1>5, <1>6, <1>7 DEF Box, SprintTurns

\* At most rules the run is not over and no bonus is offered.
LEMMA Underway ==
  ASSUME Box, Gauge, step \notin {"settle", "idle"}
  PROVE  /\ phase.kind # "choose_relic"
         /\ step \notin {"arrive", "more"} => ~Over
  BY DEF Box, Gauge

LEMMA TurnBox ==
  ASSUME Box, Gauge,
         \/ Hands \/ TurnPasses \/ ShipsEarly
         \/ Explodes \/ Holds \/ Takes \/ StartsWork \/ TeamWorks \/ TeamIsDone
         \/ Clock \/ Payday \/ BoxEnds \/ BurnsOut \/ TurnEnds
  PROVE  Box'
<1>1. CASE Hands
  <2>1. /\ step = "settle" /\ step' = "idle" /\ phase' = phase
        /\ UNCHANGED <<sprintTurn, sprintMonths, extraTurns>>
    BY <1>1 DEF Hands, At, GoesTo, SameRun, boxVars
  <2>. QED  BY <2>1, InBoxStep DEF InBox
<1>2. CASE TurnPasses
  <2>1. /\ step = "settle" /\ step' = "turn" /\ phase' = phase /\ phase = Ordinary
        /\ UNCHANGED <<sprintTurn, sprintMonths, extraTurns>>
    BY <1>2 DEF TurnPasses, At, GoesTo, SameRun, boxVars
  <2>. QED  BY <2>1, Kindly, InBoxStep DEF InBox
<1>3. CASE ShipsEarly \/ BoxEnds
  <2>1. /\ step' = "deadlines" /\ phase' = phase /\ extraTurns' = 0
        /\ UNCHANGED <<sprintTurn, sprintMonths>> /\ (phase = Ordinary \/ step = "box")
    BY <1>3 DEF ShipsEarly, BoxEnds, EndsSprint, At, GoesTo
  <2>2. phase.kind # "choose_relic"
    BY <2>1, Kindly, Underway
  <2>. QED  BY <2>1, <2>2, OutOfBoxStep DEF Box
<1>4. CASE Explodes \/ Holds \/ Takes \/ StartsWork \/ TeamWorks \/ TeamIsDone
  <2>1. /\ step \in {"turn", "pull", "staff", "work"} /\ step' \in {"pull", "staff", "work", "clock"}
        /\ phase' = phase /\ UNCHANGED <<sprintTurn, sprintMonths, extraTurns>>
    BY <1>4 DEF Explodes, Holds, Takes, StartsWork, TeamWorks, TeamIsDone, At, GoesTo, SamePatience,
                SameRun, boxVars
  <2>. QED  BY <2>1, Underway, InBoxStep DEF InBox
<1>5. CASE Clock
  <2>1. /\ step = "clock" /\ sprintTurn' = sprintTurn + 1 /\ phase' = phase
        /\ UNCHANGED <<sprintMonths, extraTurns>>
        /\ step' = IF sprintTurn' % MonthTurns = 0 /\ sprintTurn' < SprintTurns
                   THEN "payday" ELSE "box"
    BY <1>5 DEF Clock, At, GoesTo
  <2>2. phase.kind # "choose_relic" /\ ~Over
    BY <2>1, Underway
  <2>3. sprintTurn < SprintTurns /\ sprintMonths * MonthTurns <= sprintTurn
    BY <2>1, <2>2 DEF Box, InBox
  <2>4. /\ sprintTurn \in Nat /\ sprintMonths \in Nat /\ SprintTurns \in Nat
        /\ SprintTurns <= Turns + ExtraTurns /\ SprintTurns' = SprintTurns
        /\ sprintMonths * MonthTurns \in Nat
    BY <2>1, BoxNumbers DEF Box, SprintTurns
  <2>5. /\ sprintTurn' \in 0..(Turns + ExtraTurns) /\ sprintTurn' <= SprintTurns
        /\ sprintMonths * MonthTurns <= sprintTurn'
    BY <2>1, <2>3, <2>4, BoxNumbers
  <2>6. step' = "payday" => sprintTurn' < SprintTurns /\ (sprintMonths + 1) * MonthTurns <= sprintTurn'
    BY <2>1, <2>3, <2>4, MonthEnds
  <2>7. step' \in {"payday", "box"}
    BY <2>1
  <2>. QED  BY <2>1, <2>2, <2>4, <2>5, <2>6, <2>7 DEF Box, InBox, Steps
<1>6. CASE Payday
  <2>1. /\ step = "payday" /\ sprintMonths' = sprintMonths + 1
        /\ UNCHANGED <<sprintTurn, extraTurns>>
        /\ \E outage \in 0..1 : SufferThen(outage, MayAsk, "box", "settle")
    BY <1>6 DEF Payday, At, CloseMonth, Suffer
  <2>2. phase.kind # "choose_relic" /\ phase'.kind # "choose_relic"
    BY <2>1, Underway, SufferedStep, MayAskKinds, Kindly
  <2>3. sprintTurn < SprintTurns /\ (sprintMonths + 1) * MonthTurns <= sprintTurn
    BY <2>1 DEF Box
  <2>4. /\ sprintTurn \in Nat /\ sprintMonths \in Nat /\ SprintTurns \in Nat
        /\ SprintTurns <= Turns + ExtraTurns /\ SprintTurns' = SprintTurns
    BY <2>1, BoxNumbers DEF Box, SprintTurns
  <2>5. sprintMonths' \in 0..MonthsPerSprint
    <3>1. sprintTurn < Turns + ExtraTurns
      BY <2>3, <2>4, BoxNumbers
    <3>. QED  BY <2>1, <2>3, <2>4, <3>1, MonthsFit, BoxNumbers
  <2>6. (phase' = GameOver /\ step' = "settle") \/ step' = "box"
    BY <2>1, SufferedStep
  <2>7. CASE phase' = GameOver /\ step' = "settle"
    BY <2>1, <2>2, <2>5, <2>7, OutOfBoxStep DEF Box
  <2>8. CASE step' = "box"
    BY <2>1, <2>2, <2>3, <2>4, <2>5, <2>8 DEF Box, InBox, Steps
  <2>. QED  BY <2>6, <2>7, <2>8
<1>7. CASE BurnsOut
  <2>1. step' = "settle" /\ phase' = GameOver /\ UNCHANGED <<sprintTurn, sprintMonths, extraTurns>>
    BY <1>7 DEF BurnsOut, SameRun, boxVars
  <2>. QED  BY <2>1, Kindly, OutOfBoxStep DEF Box
<1>8. CASE TurnEnds
  <2>1. /\ step = "box" /\ step' = "settle" /\ phase' = phase /\ sprintTurn < SprintTurns
        /\ UNCHANGED <<sprintTurn, sprintMonths, extraTurns>>
    BY <1>8 DEF TurnEnds, At, GoesTo, SameRun, boxVars
  <2>2. phase.kind # "choose_relic"
    BY <2>1, Underway
  <2>. QED  BY <2>1, <2>2 DEF Box, SprintTurns, Steps
<1>. QED  BY <1>1, <1>2, <1>3, <1>4, <1>5, <1>6, <1>7, <1>8

\* The release closes the months that are missing, and only then judges.
LEMMA ReleaseBox ==
  ASSUME Box, Gauge,
         \/ DeadlineMissed \/ DeadlinesSettled \/ ObjectiveSettled
         \/ BugFound \/ BugsRolled \/ MonthFallsDue \/ Verdict
  PROVE  Box'
<1>1. /\ step \in {"deadlines", "objective", "bugs", "months"}
      /\ UNCHANGED <<sprintTurn, extraTurns>>
  BY DEF DeadlineMissed, DeadlinesSettled, ObjectiveSettled, BugFound, BugsRolled, MonthFallsDue,
         Verdict, At, CloseMonth, SameRun, boxVars
<1>2. phase.kind # "choose_relic" /\ extraTurns' \in {0, ExtraTurns} /\ sprintMonths \in 0..MonthsPerSprint
  BY <1>1, Underway DEF Box
<1>3. CASE DeadlinesSettled \/ BugsRolled
  <2>1. /\ step' \in {"objective", "months"} /\ phase' = phase /\ UNCHANGED sprintMonths
    BY <1>3 DEF DeadlinesSettled, BugsRolled, GoesTo, SameRun, boxVars
  <2>. QED  BY <1>1, <1>2, <2>1, OutOfBoxStep
<1>4. CASE DeadlineMissed
  <2>1. UNCHANGED sprintMonths
    BY <1>4 DEF DeadlineMissed, SameRun, boxVars
  <2>2. SufferThen(1, {phase}, "deadlines", "settle") \/ (step' = "deadlines" /\ phase' = phase)
    BY <1>4 DEF DeadlineMissed, Suffer, GoesTo
  <2>3. \/ phase' = GameOver /\ step' = "settle"
        \/ phase' = phase /\ step' = "deadlines"
    BY <2>2, SufferedStep
  <2>. QED  BY <1>1, <1>2, <2>1, <2>3, Kindly, OutOfBoxStep
<1>5. CASE ObjectiveSettled
  <2>1. UNCHANGED sprintMonths
    BY <1>5 DEF ObjectiveSettled, boxVars
  <2>2. PICK failed \in 0..1 :
          SufferThen(failed, MayAsk, IF shipped THEN "bugs" ELSE "months", "settle")
    BY <1>5 DEF ObjectiveSettled, Suffer
  <2>3. \/ phase' = GameOver /\ step' = "settle"
        \/ phase' \in MayAsk /\ step' \in {"bugs", "months"}
    BY <2>2, SufferedStep
  <2>. QED  BY <1>1, <1>2, <2>1, <2>3, Kindly, MayAskKinds, OutOfBoxStep
<1>6. CASE BugFound
  <2>1. UNCHANGED sprintMonths
    BY <1>6 DEF BugFound, boxVars
  <2>2. SufferThen(1, MayAsk, "bugs", "settle")
    BY <1>6 DEF BugFound, Incident, Suffer
  <2>3. \/ phase' = GameOver /\ step' = "settle"
        \/ phase' \in MayAsk /\ step' = "bugs"
    BY <2>2, SufferedStep
  <2>. QED  BY <1>1, <1>2, <2>1, <2>3, Kindly, MayAskKinds, OutOfBoxStep
<1>7. CASE MonthFallsDue
  <2>1. sprintMonths < MonthsPerSprint /\ sprintMonths' = sprintMonths + 1
    BY <1>7 DEF MonthFallsDue, CloseMonth
  <2>2. sprintMonths' \in 0..MonthsPerSprint
    BY <1>2, <2>1, BoxNumbers
  <2>3. PICK outage \in 0..1 : SufferThen(outage, MayAsk, "months", "settle")
    BY <1>7 DEF MonthFallsDue, CloseMonth, Suffer
  <2>4. \/ phase' = GameOver /\ step' = "settle"
        \/ phase' \in MayAsk /\ step' = "months"
    BY <2>3, SufferedStep
  <2>. QED  BY <1>1, <1>2, <2>2, <2>4, Kindly, MayAskKinds, OutOfBoxStep
<1>8. CASE Verdict
  <2>1. UNCHANGED sprintMonths /\ sprintMonths = MonthsPerSprint
    <3>1. sprintMonths >= MonthsPerSprint /\ UNCHANGED sprintMonths
      BY <1>8 DEF Verdict, SameRun, boxVars
    <3>. QED  BY <1>2, <3>1, BoxNumbers
  <2>2. SufferThen(1, {Ask("choose_relic", NoId)}, "settle", "settle")
        \/ (step' = "settle" /\ phase' = Ask("choose_relic", NoId))
    BY <1>8 DEF Verdict, Suffer
  <2>3. step' = "settle" /\ phase' \in {GameOver, Ask("choose_relic", NoId)}
    BY <2>2, SufferedStep
  <2>4. CASE phase' = GameOver
    BY <1>1, <1>2, <2>1, <2>3, <2>4, Kindly, OutOfBoxStep
  <2>5. CASE phase' = Ask("choose_relic", NoId)
    BY <1>1, <1>2, <2>1, <2>3, <2>5, Kindly DEF Box, Steps
  <2>. QED  BY <2>3, <2>4, <2>5
<1>. QED  BY <1>3, <1>4, <1>5, <1>6, <1>7, <1>8

LEMMA OpeningBox ==
  ASSUME Box, Gauge,
         \/ SkillsExpire \/ TeamIsStaffed \/ StaleForced \/ NoneStale
         \/ FeatureArrives \/ Arrives \/ SprintOpens
  PROVE  Box'
<1>1. /\ step \in {"opening", "staff", "stale", "arrive", "more"}
      /\ UNCHANGED <<sprintTurn, sprintMonths, extraTurns>>
  BY DEF SkillsExpire, TeamIsStaffed, StaleForced, NoneStale, FeatureArrives, Arrives, SprintOpens,
         At, SameRun, boxVars
<1>2. /\ phase.kind # "choose_relic" /\ step \in InBox
      /\ step \notin {"arrive", "more"} => ~Over
  BY <1>1, Underway DEF InBox
<1>3. CASE SkillsExpire \/ TeamIsStaffed \/ NoneStale \/ FeatureArrives \/ Arrives
  <2>1. step' \in {"staff", "stale", "arrive", "more"} /\ phase' = phase
    BY <1>1, <1>3 DEF SkillsExpire, TeamIsStaffed, NoneStale, FeatureArrives, Arrives, At, GoesTo, SamePatience
  <2>. QED  BY <1>1, <1>2, <2>1, InBoxStep DEF InBox
<1>4. CASE StaleForced
  <2>1. SufferThen(1, {phase}, "stale", "arrive") /\ step = "stale"
    BY <1>4 DEF StaleForced, At
  <2>2. \/ phase' = GameOver /\ step' = "arrive"
        \/ phase' = phase /\ step' = "stale"
    BY <2>1, SufferedStep
  <2>3. step' \in InBox /\ phase'.kind # "choose_relic" /\ ~Over
    BY <1>2, <2>1, <2>2, Kindly DEF InBox
  <2>. QED  BY <1>1, <1>2, <2>3, InBoxStep
<1>5. CASE SprintOpens
  <2>1. step' = "settle" /\ phase' \in MayAsk
    BY <1>5 DEF SprintOpens
  <2>2. phase'.kind # "choose_relic" /\ (Over => phase' = phase)
    BY <1>2, <2>1, MayAskKinds, NotOver DEF MayAsk, Over
  <2>. QED  BY <1>1, <1>2, <2>1, <2>2, InBoxStep DEF InBox
<1>. QED  BY <1>3, <1>4, <1>5

\* Box is inductive, of a gauge that ends the run.
LEMMA BoxHolds == SoloSpec => []Box
<1>1. SoloInit => Box
  <2>1. 0 * MonthTurns = 0 /\ 0 < Turns + 0 /\ 0 \in 0..(Turns + ExtraTurns) /\ 0 \in 0..MonthsPerSprint
    BY BoxNumbers
  <2>. QED  BY <2>1, Kindly DEF SoloInit, Box, InBox, Steps, SprintTurns
<1>2. Box /\ Gauge /\ [SoloNext]_soloVars => Box'
  <2> SUFFICES ASSUME Box, Gauge, [SoloNext]_soloVars
               PROVE  Box'
    OBVIOUS
  <2>1. CASE Player
    BY <2>1, PlayerBox, RelicBox
  <2>2. CASE Engine
    BY <2>2, TurnBox, ReleaseBox, OpeningBox DEF Engine
  <2>3. CASE UNCHANGED soloVars
    BY <2>3 DEF soloVars, boxVars, Box, Over, SprintTurns
  <2>. QED  BY <2>1, <2>2, <2>3 DEF SoloNext
<1>. QED  BY <1>1, <1>2, GaugeHolds, PTL DEF SoloSpec

\* The paydays inside a box, longer or not, and the months that its end settles
\* are together those of the sprint when its bonus is offered, and never more
\* (endTurn in rules/reducer.ts, endSprint in rules/sprint.ts).
THEOREM EverySprintIsPaid == SoloSpec => [](SprintPaysItsMonths /\ sprintMonths <= MonthsPerSprint)
<1>1. Box => SprintPaysItsMonths /\ sprintMonths <= MonthsPerSprint
  BY BoxNumbers DEF Box, SprintPaysItsMonths
<1>. QED  BY <1>1, BoxHolds, PTL

-----------------------------------------------------------------------------
(* The types *)

Marks == {passing, shipped, delivered, marred, hacked} \subseteq BOOLEAN

LEMMA PlayerMarks ==
  ASSUME Marks, Player
  PROVE  Marks'
<1>1. CASE \/ StartTicket \/ Checkout \/ Commit \/ Fix \/ Review \/ Rest
           \/ SubmitAccepted \/ SubmitRefused \/ MergeObstacle \/ Hire \/ MergeConflicts
           \/ ResolveFails \/ Resume \/ Followup
           \/ AnswerPatience \/ AnswerBug \/ AnswerDeal \/ AnswerDeparture
  <2>1. UNCHANGED <<passing, shipped, delivered, marred, hacked>>
    BY <1>1 DEF StartTicket, Checkout, Commit, Fix, Review, Rest, SubmitAccepted, SubmitRefused,
                MergeObstacle, Hire, MergeConflicts, ResolveFails, Resume, Followup, Answered,
                AnswerPatience, AnswerBug, AnswerDeal, AnswerDeparture, IsFree, TakesTurn,
                TakesTurnAndPatience, SameRun, tallyVars, turnVars
  <2>. QED  BY <2>1 DEF Marks
<1>2. CASE AcquireAndBreak \/ HackWon \/ HackCaught \/ HackBroke
  <2>1. /\ UNCHANGED <<passing, shipped, delivered>>
        /\ marred' \in {marred, TRUE} /\ hacked' \in {hacked, TRUE}
    BY <1>2 DEF AcquireAndBreak, HackWon, HackCaught, HackBroke, Hacks, Incident, IsFree, TakesTurn, turnVars
  <2>. QED  BY <2>1 DEF Marks
<1>3. CASE MergeTicket \/ ResolveLands
  <2>1. /\ UNCHANGED <<passing, marred, hacked>> /\ delivered' = TRUE /\ shipped' \in BOOLEAN
    BY <1>3 DEF MergeTicket, ResolveLands, Lands, TakesTurn, turnVars
  <2>. QED  BY <2>1 DEF Marks
<1>4. CASE ChooseRelic
  <2>1. UNCHANGED <<passing, shipped>> /\ delivered' = FALSE /\ marred' = FALSE /\ hacked' = FALSE
    BY <1>4 DEF ChooseRelic, turnVars
  <2>. QED  BY <2>1 DEF Marks
<1>. QED  BY <1>1, <1>2, <1>3, <1>4 DEF Player

LEMMA EngineMarks ==
  ASSUME Marks, Engine
  PROVE  Marks'
<1>1. CASE \/ ShipsEarly \/ Explodes \/ Holds \/ Takes \/ StartsWork \/ TeamWorks \/ TeamIsDone
           \/ Clock \/ Payday \/ BoxEnds \/ BurnsOut \/ TurnEnds
           \/ DeadlineMissed \/ DeadlinesSettled \/ BugsRolled \/ MonthFallsDue \/ Verdict
           \/ SkillsExpire \/ TeamIsStaffed \/ NoneStale \/ FeatureArrives \/ Arrives \/ SprintOpens
  <2>1. UNCHANGED <<passing, shipped, delivered, marred, hacked>>
    BY <1>1 DEF ShipsEarly, Explodes, Holds, Takes, StartsWork, TeamWorks, TeamIsDone, Clock, Payday,
                BoxEnds, BurnsOut, TurnEnds, DeadlineMissed, DeadlinesSettled, BugsRolled,
                MonthFallsDue, Verdict, SkillsExpire, TeamIsStaffed, NoneStale, FeatureArrives,
                Arrives, SprintOpens, EndsSprint, CloseMonth, SameRun, tallyVars, turnVars
  <2>. QED  BY <2>1 DEF Marks
<1>2. CASE Hands \/ TurnPasses
  <2>1. passing' \in BOOLEAN /\ UNCHANGED <<shipped, delivered, marred, hacked>>
    BY <1>2 DEF Hands, TurnPasses, SameRun, tallyVars
  <2>. QED  BY <2>1 DEF Marks
<1>3. CASE ObjectiveSettled
  <2>1. UNCHANGED <<passing, delivered, marred, hacked>> /\ shipped' \in BOOLEAN
    BY <1>3 DEF ObjectiveSettled, turnVars
  <2>. QED  BY <2>1 DEF Marks
<1>4. CASE BugFound \/ StaleForced
  <2>1. UNCHANGED <<passing, shipped, delivered, hacked>> /\ marred' = TRUE
    BY <1>4 DEF BugFound, StaleForced, Incident, turnVars
  <2>. QED  BY <2>1 DEF Marks
<1>. QED  BY <1>1, <1>2, <1>3, <1>4 DEF Engine

\* Everything a run keeps stays what it is declared to be: ids of the board,
\* developers hired, turns and months of the box, a gauge in its range.
THEOREM SoloTypes == SoloSpec => []SoloTypeOK
<1>1. SoloInit => Marks
  BY DEF SoloInit, Marks
<1>2. Marks /\ [SoloNext]_soloVars => Marks'
  BY PlayerMarks, EngineMarks DEF SoloNext, soloVars, turnVars, tallyVars, Marks
<1>3. SoloSpec => []Marks
  BY <1>1, <1>2, PTL DEF SoloSpec
<1>4. Marks /\ Board /\ Box /\ Gauge => SoloTypeOK
  <2> SUFFICES ASSUME Marks, Board, Box, Gauge
               PROVE  SoloTypeOK
    OBVIOUS
  <2>1. tickets \in [Ids -> Ticket] /\ hand \in Ids \cup {NoId} /\ queue \subseteq Ids
    BY DEF Board, SoundBoard, SoundHand, Mine, Open, OfTheTeam
  <2>. QED  BY <2>1 DEF SoloTypeOK, Marks, Board, Box, Gauge
<1>. QED  BY <1>3, <1>4, BoardHolds, BoxHolds, GaugeHolds, PTL
=============================================================================
