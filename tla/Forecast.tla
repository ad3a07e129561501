------------------------------ MODULE Forecast ------------------------------
(***************************************************************************)
(* What a player is told before it happens, and what then happens: the     *)
(* price shown on an action (rules/preview.ts) and the one the rules take  *)
(* (write.ts, review.ts, acceptance.ts, energy.ts, debt.ts), the turn at   *)
(* zero energy and the burnout (reducer.ts).                               *)
(*                                                                         *)
(* One run played alone.  `applyAction` is one call: here it is the        *)
(* player's step, and then the engine's in the order of the calls (`step`),*)
(* so that the panel is only ever read at "prompt".  Dice are choices.     *)
(* The ticket in hand is written in full, with those of its commits that a *)
(* review, a fix or a refactor may come back to; the other tickets are     *)
(* counted.  Obstacles, hacks, patience and the story's questions are left *)
(* to SoloRun, and so is money but for the developers it cannot pay; the   *)
(* free refactor a hand-written commit may earn and the longer review of a *)
(* streak of machine commits are left out, only an unwritten ticket is put *)
(* down for another, and whether a feature is a migration (a library to    *)
(* leave: its every commit costs the codebase, and no panel says so) is    *)
(* found out as it comes to hand.  Skills, the tree and the shop enlarge   *)
(* the tank, for nothing and between two turns; what they change of the    *)
(* other numbers is not modelled.                                          *)
(***************************************************************************)
EXTENDS Integers, Sequences, FiniteSets, FiniteSetsExt

CONSTANTS
  Balance,             \* the numbers of the game (core/balance.ts)
  Turns, MonthTurns,   \* turns of a sprint, of a month
  Arrivals,            \* tickets that may arrive in a sprint
  MaxCommits, MaxOpen, MaxWaiting, MaxRework, MaxDocs,  \* bounds
  MaxTank              \* energy a tank holds at its largest

ASSUME ForecastBox == {Turns, MonthTurns} \subseteq Nat \ {0} /\ Turns % MonthTurns = 0
ASSUME ForecastBounds ==
  /\ {MaxCommits, MaxRework, MaxDocs, MaxWaiting} \subseteq Nat
  /\ Arrivals \in 1..MaxWaiting
  /\ MaxOpen \in [{"feature", "hotfix", "refactor"} -> Nat] /\ MaxOpen["refactor"] > 0
ASSUME ForecastBalance ==
  /\ \A f \in {"energyMax", "ai", "craft", "review", "conflict", "mergeRegen",
               "releaseRegen", "restRegen", "perAi", "perCraft", "perRisky",
               "perConflict", "perTakeover", "refactorRepay", "explosionRepay",
               "reviewRepay", "debtMax", "floor", "explodeAt", "cleans",
               "docs", "rework", "perMigration", "stamina"} : Balance[f] \in Nat
  /\ \A k \in {"commit", "refactor", "fix", "risky", "docs", "hotfix", "feature_merge",
              "sprint_merge"} : Balance.cost[k] \in Nat
  /\ \A p \in {"craft", "ai", "risky", "forced"} : Balance.points[p] \in Nat
  /\ \A k \in {"feature", "hotfix", "refactor"} : Balance.size[k] \in Nat \ {0}
  /\ Balance.energyMax > 0 /\ MaxTank \in Nat /\ MaxTank >= Balance.energyMax
  /\ Balance.burnoutStreak \in Nat \ {0, 1}
\* A commit written by hand costs the codebase nothing.
ASSUME CraftIsClean == Balance.perCraft = 0

VARIABLES
  player,    \* energy and what the tank holds, turns at zero in a row,
             \* commits documentation covers
  debt,
  hand,      \* the ticket being written, or NoTicket
  board,     \* the others: yours by kind, those of the team, those that wait
  turn,      \* turns of the sprint
  phase,     \* what the player is asked
  step,      \* the rule the engine is at
  act        \* the action under way, as the panel showed it, when no dice
             \* disturbed it; and what was seen since a turn was last counted

vars == <<player, debt, hand, board, turn, phase, step, act>>

Yours == {"feature", "hotfix", "refactor"}
CountsWip == {"feature", "refactor"}
OpensUnderFloor == {"hotfix", "refactor"}
Detours == {"plain", "docs", "risky", "fix", "refactor"}

NoTicket == [kind |-> "none", migration |-> FALSE, filled |-> 0, rework |-> 0, commits |-> <<>>]
NoAct == [type |-> "none", mode |-> "none", detour |-> "plain", dull |-> FALSE,
          low |-> FALSE, spared |-> FALSE]

Commits == [unread : BOOLEAN, cost : 0..Balance.debtMax, bugged : BOOLEAN]

Others == board[1]
Team == board[2]
Waiting == board[3]

TypeOK ==
  /\ player \in [energy : 0..MaxTank, max : 1..MaxTank, streak : 0..Balance.burnoutStreak,
                 docs : 0..MaxDocs]
  /\ player.energy <= player.max
  /\ debt \in 0..Balance.debtMax
  /\ hand.kind \in Yours \cup {"none"} /\ (hand.migration => hand.kind = "feature") /\ hand.filled \in Nat /\ hand.rework \in 0..MaxRework
  /\ \A k \in Yours : Others[k] <= MaxOpen[k]
  /\ hand.commits \in Seq(Commits) /\ Len(hand.commits) <= MaxCommits
  /\ board \in [Yours -> Nat] \X (0..MaxWaiting) \X (0..MaxWaiting)
  /\ turn \in 0..Turns
  /\ phase \in {"choose", "accepted", "rejected", "conflict", "relic", "over"}
  /\ step \in {"prompt", "turn", "calendar", "settle"}

Init == /\ player = [energy |-> Balance.energyMax, max |-> Balance.energyMax, streak |-> 0, docs |-> 0]
        /\ debt = 0
        /\ hand = NoTicket
        /\ board = <<[k \in Yours |-> 0], 0, Arrivals>>
        /\ turn = 0
        /\ phase = "choose"
        /\ step = "prompt"
        /\ act = NoAct

-----------------------------------------------------------------------------
(* The numbers *)

Least(a, b) == Min({a, b})
Within(n, most) == IF n < 0 THEN 0 ELSE Least(n, most)

\* Story points of a ticket, the fixes a refusal added included.
Size(t) == Balance.size[t.kind] + t.rework

Unread(t) == {i \in DOMAIN t.commits : t.commits[i].unread}
Bugged(t) == {i \in DOMAIN t.commits : t.commits[i].bugged}
First(is) == IF is = {} THEN 0 ELSE Min(is)

\* The commit that cost the most, the first of them, or 0.
MostIndebted(cs) ==
  First({i \in DOMAIN cs : cs[i].cost > 0 /\ \A j \in DOMAIN cs : cs[j].cost <= cs[i].cost})

\* Tickets in your head beyond the first: a hotfix does not count, nor the team's.
WipExtra ==
  LET held == Others.feature + Others.refactor + (IF hand.kind \in CountsWip THEN 1 ELSE 0)
  IN IF held > 1 THEN held - 1 ELSE 0

\* A turn of rest always gives something back.
RestRegen == IF Balance.restRegen - WipExtra > 1 THEN Balance.restRegen - WipExtra ELSE 1

\* Energy for a commit, or for a landing (no mode): the machine's price is flat,
\* and each ticket too many adds a quarter, rounded half up.
PriceAt(kind, mode, extra) ==
  LET plain == IF mode = "ai" THEN Balance.ai
               ELSE Balance.cost[kind] + (IF mode = "craft" THEN Balance.craft ELSE 0)
  IN (plain * (4 + extra) + 2) \div 4
Price(kind, mode) == PriceAt(kind, mode, WipExtra)

Spend(p, n) == [p EXCEPT !.energy = Within(@ - n, p.max)]
Gain(p, n) == [p EXCEPT !.energy = Within(@ + n, p.max)]
InDebt(n) == Within(n, Balance.debtMax)

\* A larger tank comes full of what it gained.
Raised(p) ==
  IF p.max + Balance.stamina > MaxTank THEN p
  ELSE [p EXCEPT !.max = @ + Balance.stamina, !.energy = @ + Balance.stamina]

\* What a commit is written as: a fix, the kind the ticket forces, the detour.
CommitKind(t, detour) ==
  IF detour = "fix" THEN "fix"
  ELSE IF t.kind \in {"hotfix", "refactor"} THEN t.kind
  ELSE IF detour = "plain" THEN "commit" ELSE detour

PointsFor(t, mode, kind) ==
  IF t.kind \in {"hotfix", "refactor"} THEN Balance.points.forced
  ELSE Balance.points[mode] + (IF kind = "risky" THEN Balance.points.risky ELSE 0)

NothingToDo == hand = NoTicket /\ (\A k \in Yours : Others[k] = 0) /\ Waiting = 0
BoardIsEmpty == NothingToDo /\ Team = 0

-----------------------------------------------------------------------------
(* What the panel shows *)

\* The debt a commit is announced with: documentation is seen to cover it, and
\* a refactor names the commit it will take back.
QuotedDebt(mode, kind) ==
  LET target == MostIndebted(hand.commits)
      written == IF mode = "craft" THEN Balance.perCraft
                 ELSE IF player.docs > 0 THEN 0 ELSE Balance.perAi
      repaid == IF target = 0 THEN Balance.refactorRepay ELSE hand.commits[target].cost
  IN written + (IF kind = "risky" THEN Balance.perRisky ELSE 0)
             - (IF kind = "refactor" THEN repaid ELSE 0)

QuotedClean == Least(Cardinality(Unread(hand)), Balance.cleans)

Shown(cost, back, d, points, takesTurn) ==
  [cost |-> cost, back |-> back, debt |-> d, points |-> points, turn |-> takesTurn]

\* getActionPreview: energy taken, energy given back by the notes, debt, points
\* and whether the turn goes by.
Quote(a) ==
  LET kind == CommitKind(hand, a.detour) IN
  CASE a.type \in {"commit", "resume"} ->
         Shown(Price(kind, a.mode), 0, QuotedDebt(a.mode, kind), PointsFor(hand, a.mode, kind), TRUE)
    [] a.type = "review" -> Shown(Balance.review, 0, -(QuotedClean * Balance.reviewRepay), 0, TRUE)
    [] a.type = "merge" -> Shown(Price("feature_merge", "none"), Balance.mergeRegen, 0, 0, TRUE)
    [] a.type = "rest" -> Shown(0, RestRegen, 0, 0, TRUE)
    [] a.type = "by_hand" -> Shown(Balance.conflict, 0, 0, 0, TRUE)
    [] a.type = "by_machine" -> Shown(0, 0, Balance.perConflict, 0, TRUE)
    [] OTHER -> Shown(0, 0, 0, 0, FALSE)

-----------------------------------------------------------------------------
(* The player's actions *)

\* The action played, if the dice added nothing to it, and whether the player
\* read a panel at zero energy since a turn was last counted; then the turn ends
\* or it does not.
Played(type, mode, detour, dull, endsTurn) ==
  /\ \E shown \in {IF dull THEN [NoAct EXCEPT !.type = type, !.mode = mode, !.detour = detour,
                                              !.dull = TRUE]
                    ELSE NoAct} :
       act' = [shown EXCEPT !.low = act.low \/ player.energy = 0, !.spared = act.spared]
  /\ step' = IF endsTurn THEN "turn" ELSE "settle"

Asked(question) == step = "prompt" /\ phase = question

Calm == [energy |-> 0, debt |-> 0]
Weather == {Calm, [energy |-> 1, debt |-> 0], [energy |-> -1, debt |-> 1]}

OffersOf(t) ==
  (IF t.kind = "feature" THEN {"plain", "docs", "risky"} ELSE {"plain"})
    \cup (IF Bugged(t) # {} THEN {"fix"} ELSE {})
    \cup (IF t.kind = "feature" /\ MostIndebted(t.commits) # 0 THEN {"refactor"} ELSE {})

\* Commits nobody will read, fix or redo are forgotten.
Matters(c) == c.unread \/ c.cost > 0 \/ c.bugged
Noted(cs) ==
  LET of[n \in 0..Len(cs)] ==
        IF n = 0 THEN <<>>
        ELSE IF Matters(cs[n]) THEN Append(of[n - 1], cs[n]) ELSE of[n - 1]
  IN of[Len(cs)]

\* What a commit costs the codebase: the machine's hand, documentation paid
\* first, a risk, and each step of a migration.
OwnDebt_Uncovered(mode, kind) ==  \* mutant: the charge is used, the debt is not covered
  (IF mode = "ai" THEN Balance.perAi ELSE Balance.perCraft)
    + (IF kind = "risky" THEN Balance.perRisky ELSE 0)
    + (IF hand.migration THEN Balance.perMigration ELSE 0)
OwnDebt(mode, kind) ==
  (IF mode = "ai" THEN (IF player.docs > 0 THEN 0 ELSE Balance.perAi) ELSE Balance.perCraft)
    + (IF kind = "risky" THEN Balance.perRisky ELSE 0)
    + (IF hand.migration THEN Balance.perMigration ELSE 0)

\* The debt and the commits a commit that goes through leaves: its own debt is
\* recorded on it, a refactor takes back the dearest, a fix redoes the first bug.
Written(mode, kind) ==
  LET after == InDebt(debt + OwnDebt(mode, kind))
      new == [unread |-> mode = "ai", cost |-> after - debt, bugged |-> FALSE]
      all == Append(hand.commits, new)
      target == IF kind = "refactor" THEN MostIndebted(all) ELSE 0
      fixed == IF kind = "fix" THEN First(Bugged(hand)) ELSE 0
      repaid == IF kind # "refactor" THEN 0
                ELSE IF target = 0 THEN Balance.refactorRepay ELSE all[target].cost
  IN [debt |-> InDebt(after - repaid),
      commits |-> Noted([i \in DOMAIN all |->
                           [all[i] EXCEPT !.cost = IF i = target THEN 0 ELSE @,
                                          !.bugged = @ /\ i # fixed]])]

\* Your own counters after it.
Practised(p, mode, kind) ==
  [p EXCEPT !.docs = (IF mode = "ai" /\ @ > 0 THEN @ - 1 ELSE @)
                       + (IF kind = "docs" THEN Balance.docs ELSE 0)]

\* performCommit: the energy goes whether or not the commit does.
CommitAs(type, mode, detour) ==
  LET kind == CommitKind(hand, detour)
      spent == Spend(player, Price(kind, mode))
      left == Written(mode, kind)
      filled == Within(hand.filled + PointsFor(hand, mode, kind), Size(hand))
  IN /\ phase' = "choose"
     /\ UNCHANGED <<board, turn>>
     /\ \/ /\ player' = spent
           /\ UNCHANGED <<debt, hand>>
           /\ Played(type, mode, detour, FALSE, TRUE)
        \/ \E weather \in Weather :
             /\ Len(left.commits) <= MaxCommits
             /\ kind = "docs" => player.docs + Balance.docs <= MaxDocs
             /\ player' = Gain(Practised(spent, mode, kind), weather.energy)
             /\ debt' = InDebt(left.debt + weather.debt)
             /\ hand' = [hand EXCEPT !.filled = filled, !.commits = left.commits]
             /\ Played(type, mode, detour, weather = Calm, TRUE)

Commit(mode, detour) ==
  /\ Asked("choose")
  /\ hand # NoTicket
  /\ detour \in OffersOf(hand)
  /\ CommitAs("commit", mode, detour)

\* The unread commits a review reads: as many as it may, the freshest first.
ReadNow == {i \in Unread(hand) : Cardinality({j \in Unread(hand) : j > i}) < Balance.cleans}

Review ==
  /\ Asked("choose")
  /\ Unread(hand) # {}
  /\ player' = Spend(player, Balance.review)
  /\ debt' = InDebt(debt - Cardinality(ReadNow) * Balance.reviewRepay)
  /\ hand' = [hand EXCEPT !.commits =
                Noted([i \in DOMAIN hand.commits |->
                         [hand.commits[i] EXCEPT !.unread = @ /\ i \notin ReadNow]])]
  /\ Played("review", "none", "plain", TRUE, TRUE)
  /\ UNCHANGED <<board, turn, phase>>

Rest ==
  /\ Asked("choose")
  /\ ~NothingToDo
  /\ player' = Gain(player, RestRegen)
  /\ Played("rest", "none", "plain", TRUE, TRUE)
  /\ UNCHANGED <<debt, hand, board, turn, phase>>

\* The ticket in hand, if any, joins your others: only an unwritten one does,
\* in this model, so that the others need no more than a count.
Unwritten(kind) == [NoTicket EXCEPT !.kind = kind]
Migration == [Unwritten("feature") EXCEPT !.migration = TRUE]
Fresh(kind) == {t \in {Unwritten(kind), Migration} : t.kind = kind}
PutDown == [k \in Yours |-> Others[k] + (IF k = hand.kind THEN 1 ELSE 0)]
MayPutDown == hand # NoTicket => hand \in Fresh(hand.kind) /\ Others[hand.kind] < MaxOpen[hand.kind]

Start ==
  /\ Asked("choose")
  /\ Waiting > 0 /\ MayPutDown
  /\ board' = <<PutDown, Team, Waiting - 1>>
  /\ hand' \in Fresh("feature")
  /\ Played("start", "none", "plain", TRUE, FALSE)
  /\ UNCHANGED <<player, debt, turn, phase>>

Checkout(kind) ==
  /\ Asked("choose")
  /\ hand # NoTicket /\ hand.kind # kind /\ Others[kind] > 0 /\ MayPutDown
  /\ board' = <<[PutDown EXCEPT ![kind] = @ - 1], Team, Waiting>>
  /\ hand' \in Fresh(kind)
  /\ Played("checkout", "none", "plain", TRUE, FALSE)
  /\ UNCHANGED <<player, debt, turn, phase>>

IsReady(t) == t.filled >= Size(t) /\ Bugged(t) = {}

\* The pull request is read: accepted, or refused with the commits caught, and
\* what waits opens meanwhile.
Submit(caught) ==
  /\ Asked("choose")
  /\ hand # NoTicket
  /\ IsReady(hand)
  /\ debt <= Balance.floor \/ hand.kind \in OpensUnderFloor
  /\ caught \subseteq Unread(hand)
  /\ IF caught = {}
     THEN phase' = "accepted" /\ UNCHANGED <<hand, board>>
     ELSE /\ phase' = "rejected"
          /\ hand.rework + Cardinality(caught) * Balance.rework <= MaxRework
          /\ hand' = [hand EXCEPT
                        !.rework = @ + Cardinality(caught) * Balance.rework,
                        !.commits = Noted([i \in DOMAIN hand.commits |->
                          [hand.commits[i] EXCEPT !.unread = FALSE,
                                                  !.bugged = @ \/ i \in caught]])]
          /\ Waiting > 0 => Others.feature < MaxOpen.feature
          /\ board' = IF Waiting = 0 THEN board
                      ELSE <<[Others EXCEPT !.feature = @ + 1], Team, Waiting - 1>>
  /\ Played("submit", "none", "plain", TRUE, FALSE)
  /\ UNCHANGED <<player, debt, turn>>

\* A refusal is answered by its first fix, now and by hand...
Resume == Asked("rejected") /\ CommitAs("resume", "craft", "fix")

\* ...or shipped as it is, a ticket per bug in the backlog.
Followup ==
  /\ Asked("rejected")
  /\ Waiting + Cardinality(Bugged(hand)) <= MaxWaiting
  /\ phase' = "accepted"
  /\ board' = <<Others, Team, Waiting + Cardinality(Bugged(hand))>>
  /\ hand' = [hand EXCEPT !.rework = 0, !.filled = Least(@, Balance.size[hand.kind])]
  /\ Played("followup", "none", "plain", TRUE, FALSE)
  /\ UNCHANGED <<player, debt, turn>>

\* The oldest of your other tickets comes to hand, or none is left.
TakeNext ==
  IF \A k \in Yours : Others[k] = 0
  THEN hand' = NoTicket /\ board' = board
  ELSE \E k \in {k \in Yours : Others[k] > 0} :
         hand' \in Fresh(k) /\ board' = <<[Others EXCEPT ![k] = @ - 1], Team, Waiting>>

\* completeMerge, `p` and `d` being what is left of you and of the debt; a
\* feature may teach a skill, which may enlarge the tank.
Land(p, d, noRegen, skill) ==
  LET paid == Spend(p, Price("feature_merge", "none"))
      left == IF noRegen THEN paid ELSE Gain(paid, Balance.mergeRegen)
  IN /\ player' = IF skill THEN Raised(left) ELSE left
     /\ debt' = IF hand.kind = "refactor" THEN InDebt(d - Balance.explosionRepay) ELSE d
     /\ TakeNext
     /\ phase' = "choose"

Taught == {FALSE, hand.kind = "feature"}

\* What may happen on the way in, short of a conflict: nothing, or one of these.
Incidents == {[energy |-> 0, debt |-> 0, noRegen |-> FALSE],
              [energy |-> 0, debt |-> 0, noRegen |-> TRUE],
              [energy |-> 1, debt |-> 0, noRegen |-> FALSE],
              [energy |-> 2, debt |-> 1, noRegen |-> FALSE]}

Merge ==
  /\ Asked("accepted")
  /\ \/ /\ Land(player, debt, FALSE, FALSE)
        /\ Played("merge", "none", "plain", TRUE, TRUE)
     \/ \E e \in Incidents, skill \in Taught :
          /\ Land(Spend(player, e.energy), InDebt(debt + e.debt), e.noRegen, skill)
          /\ Played("merge", "none", "plain", FALSE, TRUE)
     \/ /\ phase' = "conflict"
        /\ Played("merge", "none", "plain", FALSE, FALSE)
        /\ UNCHANGED <<player, debt, hand, board>>
  /\ UNCHANGED turn

\* By hand it costs energy and may fail, and the question stays...
ResolveByHand ==
  /\ Asked("conflict")
  /\ \/ /\ player' = Spend(player, Balance.conflict)
        /\ Played("by_hand", "none", "plain", TRUE, TRUE)
        /\ UNCHANGED <<debt, hand, board, phase>>
     \/ /\ \E skill \in Taught : Land(Spend(player, Balance.conflict), debt, FALSE, skill)
        /\ Played("by_hand", "none", "plain", FALSE, TRUE)
  /\ UNCHANGED turn

\* ...by the machine it always works, and costs the codebase.
ResolveByMachine ==
  /\ Asked("conflict")
  /\ \E skill \in Taught : Land(player, InDebt(debt + Balance.perConflict), FALSE, skill)
  /\ Played("by_machine", "none", "plain", FALSE, TRUE)
  /\ UNCHANGED turn

\* Forced work joins your others, or your hand when it is empty.
MayForce(kind) == hand # NoTicket => Others[kind] < MaxOpen[kind]
Forced(kind) ==
  /\ MayForce(kind)
  /\ IF hand = NoTicket
     THEN hand' \in Fresh(kind) /\ board' = board
     ELSE /\ UNCHANGED hand
          /\ board' = <<[Others EXCEPT ![kind] = @ + 1], Team, Waiting>>

\* A company bought: its debt, and for the large ones an incident.
Acquire ==
  /\ Asked("choose")
  /\ debt' = InDebt(debt + Balance.perTakeover)
  /\ Forced("hotfix") \/ UNCHANGED <<hand, board>>
  /\ Played("acquire", "none", "plain", FALSE, FALSE)
  /\ UNCHANGED <<player, turn, phase>>

\* A point of the tree or a purchase, free of time: a larger tank, or Dependabot,
\* who walks the migrations for you.
Place ==
  /\ Asked("choose")
  /\ \/ player' = Raised(player) /\ UNCHANGED hand
     \/ hand' = [hand EXCEPT !.migration = FALSE] /\ UNCHANGED player
  /\ Played("place", "none", "plain", FALSE, FALSE)
  /\ UNCHANGED <<debt, board, turn, phase>>

\* The sprint's bonus, then the next sprint: the team picks up what waits, what
\* waited too long is forced on you, and the new work arrives.
ChooseRelic ==
  /\ Asked("relic")
  /\ \/ UNCHANGED <<player, debt>>
     \/ player' = [player EXCEPT !.energy = player.max] /\ UNCHANGED debt
     \/ player' = Raised(player) /\ UNCHANGED debt
     \/ debt' = 0 /\ UNCHANGED player
  /\ \E pulled \in 0..Waiting, stale \in 0..Waiting, fresh \in 1..Arrivals :
       LET kept == Waiting - pulled - stale
           first == IF hand = NoTicket /\ stale > 0 THEN 1 ELSE 0
       IN /\ kept >= 0 /\ kept + fresh <= MaxWaiting /\ Team + pulled <= MaxWaiting
          /\ Others.feature + stale - first <= MaxOpen.feature
          /\ hand' \in IF first = 1 THEN Fresh("feature") ELSE {hand}
          /\ board' = <<[Others EXCEPT !.feature = @ + stale - first],
                        Team + pulled, kept + fresh>>
  /\ turn' = 0
  /\ phase' = "choose"
  /\ Played("relic", "none", "plain", FALSE, FALSE)

-----------------------------------------------------------------------------
(* The end of a turn, one rule after the other *)

OpenRefactor == hand.kind = "refactor" \/ Others.refactor > 0

\* Developers who leave hand their tickets back: the first to an empty hand.
HandedBack ==
  \E back \in 0..Team :
    LET first == IF hand = NoTicket /\ back > 0 THEN 1 ELSE 0
    IN /\ Others.feature + back - first <= MaxOpen.feature
       /\ hand' \in IF first = 1 THEN Fresh("feature") ELSE {hand}
       /\ board' = <<[Others EXCEPT !.feature = @ + back - first], Team - back, Waiting>>

\* What the count of turns at zero goes by: panels read, and streaks spared.
Since(spared) == [NoAct EXCEPT !.low = act.low, !.spared = act.spared \/ spared]

\* checkExplosion, workTeam; then the turn is counted.
EndTurn ==
  LET explodes == debt >= Balance.explodeAt /\ ~OpenRefactor
      mine == IF explodes /\ hand # NoTicket THEN [Others EXCEPT !.refactor = 1] ELSE Others
  IN /\ step = "turn"
     /\ hand' = IF explodes /\ hand = NoTicket THEN Unwritten("refactor") ELSE hand
     /\ \E pulled \in 0..Waiting :
          \E left \in 0..Least(Team + pulled, MaxWaiting) :
            board' = <<mine, left, Waiting - pulled>>
     /\ turn' = turn + 1
     /\ step' = "calendar"
     /\ act' = Since(FALSE)
     /\ UNCHANGED <<player, debt, phase>>

\* endSprint: the release is merged and costs its merge, and the weekend gives
\* half a tank. Production may break, and a month is paid.
Rested(p) ==
  Gain(Gain(Spend(p, Price("sprint_merge", "none")), Balance.releaseRegen),
       (p.max + 1) \div 2)
Shipped == Forced("hotfix") \/ HandedBack

\* Turns ended in a row at zero energy.
StreakAfter_Kept(p) == IF p.energy > 0 THEN p.streak ELSE p.streak + 1  \* mutant: never reset
StreakAfter(p) == IF p.energy > 0 THEN 0 ELSE p.streak + 1

\* The box runs out before the burnout check; a payday may fall within it.
Calendar ==
  LET ended == turn >= Turns
      left == IF ended THEN Rested(player) ELSE player
      streak == StreakAfter(left)
      burned == left.energy = 0 /\ streak >= Balance.burnoutStreak
  IN /\ step = "calendar"
     /\ step' = "settle"
     /\ IF ended THEN Shipped
        ELSE IF turn % MonthTurns = 0 THEN HandedBack ELSE UNCHANGED <<hand, board>>
     /\ player' = [left EXCEPT !.streak = streak]
     /\ phase' = IF burned THEN "over" ELSE IF ended THEN "relic" ELSE phase
     /\ act' = IF burned THEN act ELSE NoAct
     /\ UNCHANGED <<debt, turn>>

\* Nothing to do: the turn passes as a free rest while the team works, and an
\* empty board ships the sprint at once, with no burnout check: what was a streak
\* of turns at zero is one still, the player rested.
Settle ==
  /\ step = "settle"
  /\ \/ /\ phase # "choose" \/ ~NothingToDo
        /\ step' = "prompt"
        /\ UNCHANGED <<player, hand, board, phase>>
        /\ act' = IF phase = "over" THEN act ELSE Since(FALSE)
     \/ /\ phase = "choose" /\ NothingToDo /\ Team > 0
        /\ player' = Gain(player, RestRegen)
        /\ step' = "turn"
        /\ UNCHANGED <<hand, board, phase>>
        /\ act' = Since(FALSE)
     \/ /\ phase = "choose" /\ BoardIsEmpty
        /\ step' = "prompt"
        /\ player' = Rested(player)
        /\ Shipped
        /\ phase' = "relic"
        /\ act' = Since(player.streak > 0)
  /\ UNCHANGED <<debt, turn>>

Next ==
  \/ \E mode \in {"craft", "ai"}, detour \in Detours : Commit(mode, detour)
  \/ Review \/ Rest \/ Start \/ (\E kind \in Yours : Checkout(kind))
  \/ \E caught \in SUBSET Unread(hand) : Submit(caught)
  \/ Resume \/ Followup \/ Merge \/ ResolveByHand \/ ResolveByMachine
  \/ Acquire \/ Place \/ ChooseRelic
  \/ EndTurn \/ Calendar \/ Settle

Spec == Init /\ [][Next]_vars

-----------------------------------------------------------------------------
(* Properties *)

\* What the panel shows is what the rules take. Both compute the same numbers
\* apart (preview.ts:54 for the one, write.ts, review.ts, energy.ts and debt.ts
\* for the other), clipping on the way: an action that goes through and that no
\* dice disturbed leaves exactly the energy, the debt and the points announced,
\* and ends the turn when the panel says so. Its one silence is the debt of a
\* migration, which each commit adds to what was announced, and never anything
\* else. Left out: a pull request, announced as a turn and none; what landing a
\* refactor pays back, never announced; and a refactor whose own commit costs
\* debt, by the machine or on a migration, which may take back itself.
Unannounced == IF act'.type \in {"commit", "resume"} /\ hand.migration
               THEN Balance.perMigration ELSE 0
QuoteIsCharged ==
  [][(step = "prompt" /\ act'.dull
        /\ ~((act'.mode = "ai" \/ hand.migration) /\ CommitKind(hand, act'.detour) = "refactor"))
     => LET q == Quote(act')
        IN /\ player'.energy = Within(Within(player.energy - q.cost, player.max) + q.back, player.max)
           /\ act'.type # "merge" \/ hand.kind # "refactor"
                => debt' = InDebt(debt + q.debt + Unannounced)
           /\ act'.type \in {"commit", "resume"} => hand'.filled = Least(hand.filled + q.points, Size(hand))
           /\ act'.type # "submit" => q.turn = (step' = "turn")]_vars

\* "zero is survivable for one turn and the approach to it is signposted"
\* (energy.ts:13): no turn ends a run in burnout unless its player was asked
\* something before an empty gauge since the turn counted before it; and whenever
\* actions are chosen a rest, which always gives something back, is one of them.
\* Turns that pass alone, energy that comes for nothing between two turns,
\* releases and questions fall in between. One exception: the release of an
\* emptied board rests the player and counts no turn, so the streak it falls
\* into may end a run whose gauge was full again.
BurnoutIsSignposted ==
  /\ phase = "over" => act.low \/ act.spared
  /\ step = "prompt" /\ phase = "choose" => ~NothingToDo

(* Not so of the code; the README says how. *)

\* The debt shown on a refactor written by the machine is the debt it leaves.
MachineRefactorIsQuoted ==
  [][(step = "prompt" /\ act'.dull /\ act'.mode = "ai" /\ ~hand.migration)
     => debt' = InDebt(debt + Quote(act').debt)]_vars

\* The debt shown on a commit of a migration is the debt it leaves.
MigrationIsQuoted ==
  [][(step = "prompt" /\ act'.dull /\ act'.mode = "craft" /\ CommitKind(hand, act'.detour) # "refactor")
     => debt' = InDebt(debt + Quote(act').debt)]_vars

\* The release of an emptied board makes no exception.
BurnoutIsAlwaysSignposted == phase = "over" => act.low

\* The release of an emptied board saves from the burnout as any other would.
ReleaseSaves == phase = "over" => ~BoardIsEmpty

\* Under the floor, some ticket of yours can still be refactored or landed.
DoorHasARefactor ==
  (step = "prompt" /\ phase = "choose" /\ debt > Balance.floor /\ hand # NoTicket /\ IsReady(hand))
    => "refactor" \in OffersOf(hand) \/ hand.kind \in OpensUnderFloor \/ Waiting > 0
       \/ \E k \in Yours : Others[k] > 0

=============================================================================
