--------------------------- MODULE ForecastProofs ---------------------------
(***************************************************************************)
(* For any balance, any sprint and month, and any numbers of tickets and   *)
(* commits: what the panel shows is charged, and no run burns out whose     *)
(* player was not asked something at zero energy since the turn counted     *)
(* before, but for the release of an emptied board, which rests the player  *)
(* without a count.                                                         *)
(***************************************************************************)
EXTENDS Forecast, FiniteSetTheorems, SequenceTheorems, WellFoundedInduction, TLAPS

-----------------------------------------------------------------------------
(* The numbers *)

\* The balance, number by number.
LEMMA Numbers ==
  /\ Balance.energyMax \in Nat /\ Balance.energyMax > 0
  /\ Balance.ai \in Nat /\ Balance.craft \in Nat /\ Balance.review \in Nat
  /\ Balance.conflict \in Nat /\ Balance.mergeRegen \in Nat /\ Balance.releaseRegen \in Nat
  /\ Balance.restRegen \in Nat /\ Balance.perAi \in Nat /\ Balance.perRisky \in Nat
  /\ Balance.perConflict \in Nat /\ Balance.perTakeover \in Nat /\ Balance.refactorRepay \in Nat
  /\ Balance.explosionRepay \in Nat /\ Balance.reviewRepay \in Nat /\ Balance.debtMax \in Nat
  /\ Balance.floor \in Nat /\ Balance.explodeAt \in Nat /\ Balance.cleans \in Nat
  /\ Balance.docs \in Nat /\ Balance.rework \in Nat /\ Balance.perCraft = 0
  /\ Balance.burnoutStreak \in Nat /\ Balance.burnoutStreak > 1
  /\ Balance.perMigration \in Nat /\ Balance.stamina \in Nat
  /\ MaxTank \in Nat /\ Balance.energyMax <= MaxTank
  /\ \A k \in {"commit", "refactor", "fix", "risky", "docs", "hotfix", "feature_merge",
               "sprint_merge"} : Balance.cost[k] \in Nat
  /\ \A p \in {"craft", "ai", "risky", "forced"} : Balance.points[p] \in Nat
  /\ Balance.points.risky \in Nat /\ Balance.points.forced \in Nat
  /\ \A k \in Yours : Balance.size[k] \in Nat /\ Balance.size[k] > 0
  /\ Turns \in Nat /\ Turns > 0 /\ MonthTurns \in Nat /\ MonthTurns > 0
  /\ MaxCommits \in Nat /\ MaxRework \in Nat /\ MaxDocs \in Nat
  /\ MaxWaiting \in Nat /\ Arrivals \in Nat /\ Arrivals > 0 /\ Arrivals <= MaxWaiting
  /\ \A k \in Yours : MaxOpen[k] \in Nat
  /\ MaxOpen["refactor"] > 0
<1>1. /\ Balance.ai \in Nat /\ Balance.craft \in Nat /\ Balance.review \in Nat
      /\ Balance.conflict \in Nat /\ Balance.mergeRegen \in Nat /\ Balance.releaseRegen \in Nat
      /\ Balance.restRegen \in Nat /\ Balance.perAi \in Nat /\ Balance.perRisky \in Nat
      /\ Balance.perConflict \in Nat /\ Balance.perTakeover \in Nat /\ Balance.refactorRepay \in Nat
      /\ Balance.explosionRepay \in Nat /\ Balance.reviewRepay \in Nat /\ Balance.debtMax \in Nat
      /\ Balance.floor \in Nat /\ Balance.explodeAt \in Nat /\ Balance.cleans \in Nat
      /\ Balance.docs \in Nat /\ Balance.rework \in Nat /\ Balance.energyMax \in Nat
      /\ Balance.perMigration \in Nat /\ Balance.stamina \in Nat
  BY ForecastBalance
<1>2. /\ Balance.energyMax > 0 /\ Balance.burnoutStreak \in Nat /\ Balance.burnoutStreak > 1
      /\ MaxTank \in Nat /\ Balance.energyMax <= MaxTank /\ Balance.perCraft = 0
  BY ForecastBalance, CraftIsClean
<1>3. /\ \A k \in {"commit", "refactor", "fix", "risky", "docs", "hotfix", "feature_merge",
                   "sprint_merge"} : Balance.cost[k] \in Nat
      /\ \A p \in {"craft", "ai", "risky", "forced"} : Balance.points[p] \in Nat
      /\ \A k \in Yours : Balance.size[k] \in Nat /\ Balance.size[k] > 0
  BY ForecastBalance DEF Yours
<1>4. Balance.points.risky \in Nat /\ Balance.points.forced \in Nat
  BY <1>3
<1>5. /\ Turns \in Nat /\ Turns > 0 /\ MonthTurns \in Nat /\ MonthTurns > 0
      /\ MaxCommits \in Nat /\ MaxRework \in Nat /\ MaxDocs \in Nat
      /\ MaxWaiting \in Nat /\ Arrivals \in Nat /\ Arrivals > 0 /\ Arrivals <= MaxWaiting
      /\ \A k \in Yours : MaxOpen[k] \in Nat
      /\ MaxOpen["refactor"] > 0
  BY ForecastBox, ForecastBounds DEF Yours
<1> QED  BY <1>1, <1>2, <1>3, <1>4, <1>5

\* The lesser of two numbers.
LEMMA LeastOfTwo ==
  ASSUME NEW a \in Int, NEW b \in Int
  PROVE  Least(a, b) = IF a <= b THEN a ELSE b
<1>1. \E x \in {a, b} : \A y \in {a, b} : x <= y
  <2>1. CASE a <= b
    BY <2>1
  <2>2. CASE b <= a
    BY <2>2
  <2> QED  BY <2>1, <2>2
<1>2. Least(a, b) \in {a, b} /\ \A y \in {a, b} : Least(a, b) <= y
  BY <1>1 DEF Least, Min
<1> QED  BY <1>2

\* A number clipped to a gauge.
LEMMA Clipped ==
  ASSUME NEW n \in Int, NEW most \in Nat
  PROVE  Within(n, most) = IF n < 0 THEN 0 ELSE IF n <= most THEN n ELSE most
BY LeastOfTwo DEF Within

LEMMA LeastNumber ==
  ASSUME NEW T, T \subseteq Nat, T # {}
  PROVE  \E x \in T : \A y \in T : x <= y
<1>1. IsWellFoundedOn(OpToRel(<, Nat), Nat)
  BY NatLessThanWellFounded
<1>2. PICK x \in T : \A y \in T : ~(<<y, x>> \in OpToRel(<, Nat))
  BY <1>1, WFMin
<1>3. \A y \in T : ~(y < x)
  BY <1>2 DEF OpToRel
<1> QED  BY <1>3

\* Up to n: what holds at 0 and goes from each number to the next.
LEMMA FromZero ==
  ASSUME NEW T, NEW n \in Nat, 0 \in T, \A k \in 0..(n - 1) : k \in T => k + 1 \in T
  PROVE  n \in T
<1> DEFINE C == {k \in 0..n : k \notin T}
<1> SUFFICES ASSUME C # {} PROVE FALSE
  OBVIOUS
<1>1. PICK k \in C : \A j \in C : k <= j
  <2>1. C \subseteq Nat /\ C # {}
    OBVIOUS
  <2> HIDE DEF C
  <2> QED  BY <2>1, LeastNumber
<1>2. k # 0 /\ k - 1 \in 0..(n - 1) /\ k - 1 \notin C
  BY <1>1
<1>3. k - 1 \in T
  BY <1>2
<1> QED  BY <1>1, <1>2, <1>3

\* The first of some ranks.
LEMMA FirstOf ==
  ASSUME NEW is \in SUBSET (Nat \ {0})
  PROVE  /\ is = {} => First(is) = 0
         /\ is # {} => First(is) \in is /\ First(is) # 0
<1>1. CASE is # {}
  <2>1. \E x \in is : \A y \in is : x <= y
    BY <1>1, LeastNumber
  <2>2. Min(is) \in is
    BY <2>1 DEF Min
  <2> QED  BY <1>1, <2>2 DEF First
<1> QED  BY <1>1 DEF First

-----------------------------------------------------------------------------
(* The commits of a ticket *)

Keeps(acc, c) == IF Matters(c) THEN Append(acc, c) ELSE acc

\* Those that matter, gathered one after the other.
LEMMA NotedAreCommits ==
  ASSUME NEW cs \in Seq(Commits)
  PROVE  Noted(cs) \in Seq(Commits) /\ Len(Noted(cs)) <= Len(cs)
<1>1. Len(cs) \in Nat /\ \A n \in 1..Len(cs) : cs[n] \in Commits
  OBVIOUS
<1> DEFINE L == Len(cs)
           Grows(g, k) ==
             /\ g[0] = <<>>
             /\ \A n \in 1..k : g[n] = Keeps(g[n - 1], cs[n])
           T == {k \in 0..L : \E g \in [0..k -> Seq(Commits)] :
                   Grows(g, k) /\ \A n \in 0..k : Len(g[n]) <= n}
<1> HIDE DEF Grows
<1>2. 0 \in T
  <2>1. [n \in 0..0 |-> <<>>] \in [0..0 -> Seq(Commits)] /\ Grows([n \in 0..0 |-> <<>>], 0)
    BY DEF Grows
  <2>2. \A n \in 0..0 : Len([m \in 0..0 |-> <<>>][n]) <= n
    OBVIOUS
  <2> QED  BY <1>1, <2>1, <2>2
<1>3. ASSUME NEW k \in 0..(L - 1), k \in T PROVE k + 1 \in T
  <2>1. PICK g \in [0..k -> Seq(Commits)] : Grows(g, k) /\ \A n \in 0..k : Len(g[n]) <= n
    BY <1>3
  <2> DEFINE next == Keeps(g[k], cs[k + 1])
             h == [n \in 0..(k + 1) |-> IF n \in 0..k THEN g[n] ELSE next]
  <2>2. next \in Seq(Commits) /\ Len(next) <= k + 1
    <3>1. g[k] \in Seq(Commits) /\ cs[k + 1] \in Commits /\ Len(g[k]) <= k
      BY <1>1, <2>1
    <3> QED  BY <3>1 DEF Keeps
  <2>3. /\ h \in [0..(k + 1) -> Seq(Commits)] /\ h[k + 1] = next
        /\ \A n \in 0..k : h[n] = g[n]
    <3> HIDE DEF next
    <3> QED  BY <2>2
  <2> HIDE DEF h
  <2>4. Grows(h, k + 1)
    <3>1. h[0] = <<>>
      BY <2>1, <2>3 DEF Grows
    <3>2. ASSUME NEW n \in 1..(k + 1) PROVE h[n] = Keeps(h[n - 1], cs[n])
      <4>1. CASE n = k + 1
        <5>1. n - 1 = k /\ k \in 0..k
          BY <4>1
        <5> QED  BY <2>3, <4>1, <5>1
      <4>2. CASE n # k + 1
        <5>1. n \in 1..k /\ n \in 0..k /\ n - 1 \in 0..k
          BY <4>2
        <5> QED  BY <2>1, <2>3, <5>1 DEF Grows
      <4> QED  BY <4>1, <4>2
    <3> QED  BY <3>1, <3>2 DEF Grows
  <2>5. \A n \in 0..(k + 1) : Len(h[n]) <= n
    <3> TAKE n \in 0..(k + 1)
    <3>1. n \in 0..k \/ n = k + 1
      OBVIOUS
    <3> HIDE DEF next
    <3> QED  BY <2>1, <2>2, <2>3, <3>1
  <2>6. k + 1 \in 0..L
    BY <1>1
  <2> QED  BY <2>3, <2>4, <2>5, <2>6
<1>4. PICK g \in [0..L -> Seq(Commits)] : Grows(g, L) /\ \A n \in 0..L : Len(g[n]) <= n
  <2>1. L \in T
    <3> HIDE DEF T
    <3> QED  BY <1>1, <1>2, <1>3, FromZero
  <2> QED  BY <2>1
<1> DEFINE Is(f) == f = [n \in 0..L |-> IF n = 0 THEN <<>>
                          ELSE IF Matters(cs[n]) THEN Append(f[n - 1], cs[n]) ELSE f[n - 1]]
<1>5. Is(g)
  <2>1. ASSUME NEW n \in 0..L, n # 0
        PROVE  g[n] = IF Matters(cs[n]) THEN Append(g[n - 1], cs[n]) ELSE g[n - 1]
    <3>1. n \in 1..L
      BY <1>1, <2>1
    <3> QED  BY <1>4, <3>1 DEF Grows, Keeps
  <2> QED  BY <1>4, <2>1 DEF Grows
<1> DEFINE h == CHOOSE f : Is(f)
<1>6. Is(h) /\ Noted(cs) = h[L]
  <2>1. Is(CHOOSE f : Is(f))
    <3> HIDE DEF Is
    <3> QED  BY <1>5
  <2> QED  BY <2>1 DEF Noted
<1> HIDE DEF h
<1>7. h[0] = <<>> /\ \A n \in 1..L : h[n] = Keeps(h[n - 1], cs[n])
  <2>1. h[0] = <<>>
    BY <1>1, <1>6
  <2>2. ASSUME NEW n \in 1..L PROVE h[n] = Keeps(h[n - 1], cs[n])
    <3>1. n \in 0..L /\ n # 0
      BY <1>1
    <3> QED  BY <1>6, <3>1 DEF Keeps
  <2> QED  BY <2>1, <2>2
<1> HIDE DEF Is
<1>8. L \in {k \in 0..L : h[k] = g[k]}
  <2> DEFINE S == {k \in 0..L : h[k] = g[k]}
  <2>1. 0 \in S
    BY <1>1, <1>4, <1>7 DEF Grows
  <2>2. ASSUME NEW k \in 0..(L - 1), k \in S PROVE k + 1 \in S
    <3>1. k + 1 \in 1..L /\ k + 1 \in 0..L /\ (k + 1) - 1 = k
      BY <1>1
    <3>2. h[k + 1] = Keeps(h[k], cs[k + 1]) /\ g[k + 1] = Keeps(g[k], cs[k + 1])
      BY <1>4, <1>7, <3>1 DEF Grows
    <3> QED  BY <2>2, <3>1, <3>2
  <2> HIDE DEF S
  <2>3. L \in S
    BY <1>1, <2>1, <2>2, FromZero
  <2> QED  BY <2>3 DEF S
<1>9. L \in 0..L
  BY <1>1
<1> QED  BY <1>4, <1>6, <1>8, <1>9

\* The dearest commit is one of them, and costs something.
LEMMA Dearest ==
  ASSUME NEW cs \in Seq(Commits)
  PROVE  MostIndebted(cs) # 0 => /\ MostIndebted(cs) \in 1..Len(cs)
                                 /\ cs[MostIndebted(cs)].cost \in 0..Balance.debtMax
<1> DEFINE is == {i \in DOMAIN cs : cs[i].cost > 0 /\ \A j \in DOMAIN cs : cs[j].cost <= cs[i].cost}
<1>1. Len(cs) \in Nat /\ DOMAIN cs = 1..Len(cs) /\ \A i \in 1..Len(cs) : cs[i] \in Commits
  OBVIOUS
<1>2. is \subseteq 1..Len(cs)
  BY <1>1
<1>3. is \in SUBSET (Nat \ {0})
  BY <1>1, <1>2
<1>4. MostIndebted(cs) = First(is)
  BY DEF MostIndebted
<1> HIDE DEF is
<1>5. First(is) # 0 => First(is) \in 1..Len(cs)
  BY <1>2, <1>3, FirstOf
<1> QED  BY <1>1, <1>4, <1>5 DEF Commits

\* A commit that costs nothing is not the one a refactor takes back.
LEMMA FreeIsNotDearest ==
  ASSUME NEW cs \in Seq(Commits), NEW c \in Commits, c.cost = 0
  PROVE  MostIndebted(Append(cs, c)) = MostIndebted(cs)
<1> DEFINE all == Append(cs, c)
           is(s) == {i \in DOMAIN s : s[i].cost > 0 /\ \A j \in DOMAIN s : s[j].cost <= s[i].cost}
<1>1. /\ Len(cs) \in Nat /\ DOMAIN cs = 1..Len(cs)
      /\ \A i \in 1..Len(cs) : cs[i] \in Commits /\ cs[i].cost \in Nat
  <2>1. \A x \in Commits : x.cost \in Nat
    BY Numbers DEF Commits
  <2> QED  BY <2>1
<1>2. /\ DOMAIN all = 1..(Len(cs) + 1) /\ all[Len(cs) + 1] = c
      /\ \A i \in 1..Len(cs) : all[i] = cs[i]
  OBVIOUS
<1> HIDE DEF all
<1>3. \A i : i \in 1..(Len(cs) + 1) <=> i \in 1..Len(cs) \/ i = Len(cs) + 1
  BY <1>1
<1>4. is(all) = is(cs)
  <2>1. ASSUME NEW i \in is(all) PROVE i \in is(cs)
    <3>1. i \in 1..Len(cs)
      BY <1>2, <1>3, <2>1
    <3> QED  BY <1>1, <1>2, <1>3, <2>1, <3>1
  <2>2. ASSUME NEW i \in is(cs) PROVE i \in is(all)
    <3>1. i \in 1..Len(cs) /\ all[i].cost > 0
      BY <1>1, <1>2, <2>2
    <3>2. ASSUME NEW j \in DOMAIN all PROVE all[j].cost <= all[i].cost
      BY <1>1, <1>2, <1>3, <2>2, <3>1, <3>2
    <3> QED  BY <1>2, <1>3, <3>1, <3>2
  <2> QED  BY <2>1, <2>2
<1>5. MostIndebted(all) = First(is(all)) /\ MostIndebted(cs) = First(is(cs))
  BY DEF MostIndebted
<1> HIDE DEF is
<1> QED  BY <1>4, <1>5 DEF all

\* How many are read when a review reads the freshest: as many as it may.
LEMMA Freshest ==
  ASSUME NEW n \in Nat, NEW S \in SUBSET (1..n), NEW c \in Nat
  PROVE  Cardinality({i \in S : Cardinality({j \in S : j > i}) < c})
           = IF Cardinality(S) <= c THEN Cardinality(S) ELSE c
<1> DEFINE After(R, i) == {j \in R : j > i}
           Read(R) == {i \in R : Cardinality(After(R, i)) < c}
           T == {k \in Nat : \A R \in SUBSET (1..n) :
                   Cardinality(R) = k =>
                     Cardinality(Read(R)) = IF Cardinality(R) <= c THEN Cardinality(R) ELSE c}
<1>1. ASSUME NEW R \in SUBSET (1..n) PROVE IsFiniteSet(R) /\ Cardinality(R) \in Nat
  <2>1. IsFiniteSet(1..n)
    BY FS_Interval
  <2>2. IsFiniteSet(R)
    BY <2>1, FS_Subset
  <2> QED  BY <2>2, FS_CardinalityType
<1>2. ASSUME NEW R \in SUBSET (1..n), Cardinality(R) <= c
      PROVE  Read(R) = R
  <2>1. ASSUME NEW i \in R PROVE Cardinality(After(R, i)) < Cardinality(R)
    <3>1. After(R, i) \subseteq R /\ i \in R /\ i \notin After(R, i)
      BY <1>1
    <3> HIDE DEF After
    <3>2. After(R, i) # R
      BY <3>1
    <3>3. IsFiniteSet(R)
      BY <1>1
    <3>4. /\ IsFiniteSet(After(R, i))
          /\ Cardinality(After(R, i)) <= Cardinality(R)
          /\ Cardinality(After(R, i)) = Cardinality(R) => After(R, i) = R
      BY <3>1, <3>3, FS_Subset
    <3> QED  BY <1>1, <3>2, <3>4, FS_CardinalityType
  <2>2. ASSUME NEW i \in R PROVE Cardinality(After(R, i)) < c
    <3>1. After(R, i) \in SUBSET (1..n)
      OBVIOUS
    <3> HIDE DEF After
    <3>2. Cardinality(After(R, i)) \in Nat /\ Cardinality(R) \in Nat
      BY <1>1, <3>1
    <3> QED  BY <1>2, <2>1, <3>2
  <2> HIDE DEF After
  <2> QED  BY <2>2
<1>3. 0 \in T
  <2>1. ASSUME NEW R \in SUBSET (1..n), Cardinality(R) = 0 PROVE Read(R) = R
    BY <1>2, <2>1
  <2> HIDE DEF Read
  <2> QED  BY <2>1
<1>4. ASSUME NEW k \in Nat, k \in T PROVE k + 1 \in T
  <2> SUFFICES ASSUME NEW R \in SUBSET (1..n), Cardinality(R) = k + 1
               PROVE  Cardinality(Read(R)) = IF Cardinality(R) <= c THEN Cardinality(R) ELSE c
    <3> HIDE DEF Read
    <3> QED  OBVIOUS
  <2>1. CASE k + 1 <= c
    <3>1. Read(R) = R
      BY <1>2, <2>1
    <3> HIDE DEF Read
    <3> QED  BY <2>1, <3>1
  <2>2. CASE k >= c
    <3>1. IsFiniteSet(R) /\ R # {}
      BY <1>1, FS_EmptySet
    <3>2. PICK m \in R : \A i \in R : m <= i
      <4>1. R \subseteq Nat
        OBVIOUS
      <4> QED  BY <3>1, <4>1, LeastNumber
    <3> DEFINE Q == R \ {m}
    <3>3. Q \in SUBSET (1..n) /\ Cardinality(Q) = k
      <4>1. Cardinality(Q) = Cardinality(R) - 1
        BY <3>1, FS_RemoveElement
      <4> QED  BY <4>1
    <3>4. Cardinality(Read(Q)) = c
      <4>1. Cardinality(Read(Q)) = IF Cardinality(Q) <= c THEN Cardinality(Q) ELSE c
        <5> HIDE DEF Read, Q
        <5> QED  BY <1>4, <3>3
      <4> HIDE DEF Read, Q
      <4> QED  BY <2>2, <3>3, <4>1
    <3>5. After(R, m) = Q
      <4>1. \A i \in R : i > m <=> i # m
        BY <3>2
      <4> QED  BY <4>1
    <3>6. ASSUME NEW i \in Q PROVE After(R, i) = After(Q, i)
      <4>1. ~(m > i)
        BY <3>2
      <4> QED  BY <4>1
    <3>7. Read(R) = Read(Q)
      <4>1. m \notin Read(R)
        <5>1. ~(Cardinality(After(R, m)) < c)
          <6> HIDE DEF After, Q
          <6> QED  BY <2>2, <3>3, <3>5
        <5> HIDE DEF After
        <5> QED  BY <5>1
      <4>2. \A i \in Q : i \in Read(R) <=> i \in Read(Q)
        <5> HIDE DEF After
        <5> QED  BY <3>6
      <4>3. Read(R) \subseteq R /\ Read(Q) \subseteq Q
        OBVIOUS
      <4> HIDE DEF Read
      <4> QED  BY <4>1, <4>2, <4>3
    <3> HIDE DEF Read, Q
    <3> QED  BY <2>2, <3>4, <3>7
  <2> QED  BY <2>1, <2>2
<1>5. Cardinality(S) \in T
  <2>1. Cardinality(S) \in Nat
    BY <1>1
  <2> HIDE DEF T
  <2> QED  BY <1>3, <1>4, <2>1, FromZero
<1>6. Cardinality(Read(S)) = IF Cardinality(S) <= c THEN Cardinality(S) ELSE c
  <2> HIDE DEF Read
  <2> QED  BY <1>5
<1> QED  BY <1>6

-----------------------------------------------------------------------------
(* Prices *)

\* A price is a number, and grows with the tickets too many.
LEMMA Prices ==
  ASSUME NEW kind \in {"commit", "refactor", "fix", "risky", "docs", "hotfix", "feature_merge",
                       "sprint_merge"},
         NEW mode \in {"craft", "ai", "none"}, NEW a \in Nat, NEW b \in Nat, a <= b
  PROVE  /\ PriceAt(kind, mode, a) \in Nat /\ PriceAt(kind, mode, b) \in Nat
         /\ PriceAt(kind, mode, a) <= PriceAt(kind, mode, b)
<1> DEFINE plain == IF mode = "ai" THEN Balance.ai
                    ELSE Balance.cost[kind] + (IF mode = "craft" THEN Balance.craft ELSE 0)
<1>1. plain \in Nat
  BY Numbers
<1>2. /\ PriceAt(kind, mode, a) = (plain * (4 + a) + 2) \div 4
      /\ PriceAt(kind, mode, b) = (plain * (4 + b) + 2) \div 4
  BY DEF PriceAt
<1> HIDE DEF plain
<1>3. \A p \in Nat, d \in Nat : p * d \in Nat
  OBVIOUS
<1>4. plain * (4 + a) \in Nat /\ plain * (4 + b) \in Nat /\ plain * (4 + a) <= plain * (4 + b)
  <2>1. plain * (4 + b) = plain * (4 + a) + plain * (b - a)
    BY <1>1
  <2>2. b - a \in Nat /\ 4 + a \in Nat /\ 4 + b \in Nat
    OBVIOUS
  <2>3. plain * (b - a) \in Nat /\ plain * (4 + a) \in Nat /\ plain * (4 + b) \in Nat
    BY <1>1, <1>3, <2>2
  <2> QED  BY <2>1, <2>3
<1>5. \A x \in Nat, y \in Nat : x <= y =>
        (x + 2) \div 4 \in Nat /\ (y + 2) \div 4 \in Nat /\ (x + 2) \div 4 <= (y + 2) \div 4
  OBVIOUS
<1> QED  BY <1>2, <1>4, <1>5

-----------------------------------------------------------------------------
(* The inductive invariant *)

Tanks == [energy : 0..MaxTank, max : 1..MaxTank, streak : 0..Balance.burnoutStreak,
          docs : 0..MaxDocs]
Players == {p \in Tanks : p.energy <= p.max}
Hands == [kind : Yours \cup {"none"}, migration : BOOLEAN, filled : Nat, rework : 0..MaxRework,
          commits : Seq(Commits)]
Boards == [Yours -> Nat] \X (0..MaxWaiting) \X (0..MaxWaiting)

HandOK(h) ==
  /\ h \in Hands /\ Len(h.commits) <= MaxCommits
  /\ (h.kind = "none" => h = NoTicket) /\ (h.migration => h.kind = "feature")
BoardOK(b) == b \in Boards /\ \A k \in Yours : b[1][k] <= MaxOpen[k]

\* The types; a question about a ticket is about one in hand.
Shape ==
  /\ player \in Players
  /\ debt \in 0..Balance.debtMax
  /\ HandOK(hand)
  /\ BoardOK(board)
  /\ turn \in 0..Turns
  /\ phase \in {"choose", "accepted", "rejected", "conflict", "relic", "over"}
  /\ step \in {"prompt", "turn", "calendar", "settle"}
  /\ phase \in {"accepted", "rejected", "conflict"} => hand # NoTicket

\* A turn is played while some are left.
Boxed ==
  /\ step \in {"turn", "calendar"} => phase \notin {"relic", "over"}
  /\ step = "turn" => turn < Turns
  /\ step \in {"prompt", "settle"} /\ phase \notin {"relic", "over"} => turn < Turns

\* Turns at zero behind you show: on the gauge, or on what you were asked, or in
\* an early release.
Streaks ==
  /\ phase # "over" => player.streak < Balance.burnoutStreak
  /\ step \in {"prompt", "settle"} /\ phase # "over" /\ player.streak > 0
       => player.energy = 0 \/ act.low \/ act.spared
  /\ step \in {"turn", "calendar"} /\ player.energy = 0 /\ player.streak > 0
       => act.low \/ act.spared

ForecastInv == Shape /\ Boxed /\ Streaks /\ BurnoutIsSignposted

-----------------------------------------------------------------------------
(* The gauges *)

\* A player is energy in a tank, a streak and the commits covered.
LEMMA PlayerIs ==
  ASSUME NEW p \in Players
  PROVE  /\ p = [energy |-> p.energy, max |-> p.max, streak |-> p.streak, docs |-> p.docs]
         /\ p.energy \in Nat /\ p.max \in Nat /\ p.max > 0 /\ p.max <= MaxTank
         /\ p.energy <= p.max /\ p.energy \in 0..p.max
         /\ p.streak \in 0..Balance.burnoutStreak /\ p.docs \in 0..MaxDocs
<1>1. p \in Tanks /\ p.energy <= p.max
  BY DEF Players
<1>2. /\ p = [energy |-> p.energy, max |-> p.max, streak |-> p.streak, docs |-> p.docs]
      /\ p.energy \in 0..MaxTank /\ p.max \in 1..MaxTank
      /\ p.streak \in 0..Balance.burnoutStreak /\ p.docs \in 0..MaxDocs
  BY <1>1 DEF Tanks
<1> QED  BY <1>1, <1>2, Numbers

LEMMA PlayerOf ==
  ASSUME NEW max \in 1..MaxTank, NEW energy \in 0..max, NEW streak \in 0..Balance.burnoutStreak,
         NEW docs \in 0..MaxDocs
  PROVE  [energy |-> energy, max |-> max, streak |-> streak, docs |-> docs] \in Players
<1>1. energy \in 0..MaxTank /\ energy <= max
  BY Numbers
<1> QED  BY <1>1 DEF Players, Tanks

LEMMA TankWith ==
  ASSUME NEW E, NEW M, NEW S, NEW D, NEW p \in [energy : E, max : M, streak : S, docs : D],
         NEW e \in E, NEW m \in M, NEW s \in S, NEW d \in D
  PROVE  /\ [p EXCEPT !.energy = e] \in [energy : E, max : M, streak : S, docs : D]
         /\ [p EXCEPT !.streak = s] \in [energy : E, max : M, streak : S, docs : D]
         /\ [p EXCEPT !.docs = d] \in [energy : E, max : M, streak : S, docs : D]
         /\ [p EXCEPT !.max = m, !.energy = e] \in [energy : E, max : M, streak : S, docs : D]
OBVIOUS

LEMMA TankReads ==
  ASSUME NEW E, NEW M, NEW S, NEW D, NEW p \in [energy : E, max : M, streak : S, docs : D],
         NEW e, NEW m, NEW s, NEW d
  PROVE  /\ LET q == [p EXCEPT !.energy = e]
            IN q.energy = e /\ q.max = p.max /\ q.streak = p.streak /\ q.docs = p.docs
         /\ LET q == [p EXCEPT !.streak = s]
            IN q.energy = p.energy /\ q.max = p.max /\ q.streak = s /\ q.docs = p.docs
         /\ LET q == [p EXCEPT !.docs = d]
            IN q.energy = p.energy /\ q.max = p.max /\ q.streak = p.streak /\ q.docs = d
         /\ LET q == [p EXCEPT !.max = m, !.energy = e]
            IN q.energy = e /\ q.max = m /\ q.streak = p.streak /\ q.docs = p.docs
OBVIOUS

\* A player with another energy, another streak, other documentation, another tank.
LEMMA EnergyIs ==
  ASSUME NEW p \in Players, NEW e \in 0..p.max
  PROVE  LET q == [p EXCEPT !.energy = e]
         IN /\ q \in Players
            /\ q.energy = e /\ q.max = p.max /\ q.streak = p.streak /\ q.docs = p.docs
<1> DEFINE q == [p EXCEPT !.energy = e]
<1>1. p \in Tanks /\ e \in 0..MaxTank /\ e <= p.max
  BY PlayerIs, Numbers DEF Players
<1>2. q \in Tanks
  BY <1>1, TankWith DEF Tanks
<1>3. q.energy = e /\ q.max = p.max /\ q.streak = p.streak /\ q.docs = p.docs
  BY <1>1, TankReads DEF Tanks
<1> HIDE DEF q
<1>4. q \in Players
  BY <1>1, <1>2, <1>3 DEF Players
<1> QED  BY <1>3, <1>4 DEF q

LEMMA StreakIs ==
  ASSUME NEW p \in Players, NEW s \in 0..Balance.burnoutStreak
  PROVE  LET q == [p EXCEPT !.streak = s]
         IN /\ q \in Players
            /\ q.energy = p.energy /\ q.max = p.max /\ q.streak = s /\ q.docs = p.docs
<1> DEFINE q == [p EXCEPT !.streak = s]
<1>1. p \in Tanks /\ p.energy <= p.max
  BY DEF Players
<1>2. q \in Tanks
  BY <1>1, TankWith DEF Tanks
<1>3. q.energy = p.energy /\ q.max = p.max /\ q.streak = s /\ q.docs = p.docs
  BY <1>1, TankReads DEF Tanks
<1> HIDE DEF q
<1>4. q \in Players
  BY <1>1, <1>2, <1>3 DEF Players
<1> QED  BY <1>3, <1>4 DEF q

LEMMA DocsAre ==
  ASSUME NEW p \in Players, NEW d \in 0..MaxDocs
  PROVE  LET q == [p EXCEPT !.docs = d]
         IN /\ q \in Players
            /\ q.energy = p.energy /\ q.max = p.max /\ q.streak = p.streak /\ q.docs = d
<1> DEFINE q == [p EXCEPT !.docs = d]
<1>1. p \in Tanks /\ p.energy <= p.max
  BY DEF Players
<1>2. q \in Tanks
  BY <1>1, TankWith DEF Tanks
<1>3. q.energy = p.energy /\ q.max = p.max /\ q.streak = p.streak /\ q.docs = d
  BY <1>1, TankReads DEF Tanks
<1> HIDE DEF q
<1>4. q \in Players
  BY <1>1, <1>2, <1>3 DEF Players
<1> QED  BY <1>3, <1>4 DEF q

\* What a spending and a gain leave.
LEMMA Gauged ==
  ASSUME NEW p \in Players, NEW n \in Int
  PROVE  /\ Spend(p, n) \in Players /\ Gain(p, n) \in Players
         /\ Spend(p, n).energy = Within(p.energy - n, p.max)
         /\ Gain(p, n).energy = Within(p.energy + n, p.max)
         /\ Spend(p, n).max = p.max /\ Gain(p, n).max = p.max
         /\ Spend(p, n).streak = p.streak /\ Gain(p, n).streak = p.streak
         /\ Spend(p, n).docs = p.docs /\ Gain(p, n).docs = p.docs
<1> DEFINE low == Within(p.energy - n, p.max)
           high == Within(p.energy + n, p.max)
<1>1. p.energy \in Nat /\ p.max \in Nat
  BY PlayerIs
<1>2. low \in 0..p.max /\ high \in 0..p.max
  <2>1. p.energy - n \in Int /\ p.energy + n \in Int
    BY <1>1
  <2> QED  BY <1>1, <2>1, Clipped
<1>3. Spend(p, n) = [p EXCEPT !.energy = low] /\ Gain(p, n) = [p EXCEPT !.energy = high]
  BY DEF Spend, Gain
<1> HIDE DEF low, high
<1>4. /\ Spend(p, n) \in Players /\ Spend(p, n).energy = low /\ Spend(p, n).max = p.max
      /\ Spend(p, n).streak = p.streak /\ Spend(p, n).docs = p.docs
  BY <1>2, <1>3, EnergyIs
<1>5. /\ Gain(p, n) \in Players /\ Gain(p, n).energy = high /\ Gain(p, n).max = p.max
      /\ Gain(p, n).streak = p.streak /\ Gain(p, n).docs = p.docs
  BY <1>2, <1>3, EnergyIs
<1> QED  BY <1>4, <1>5 DEF low, high

\* A larger tank.
LEMMA RaisedIs ==
  ASSUME NEW p \in Players
  PROVE  Raised(p) \in Players /\ Raised(p).streak = p.streak
<1> DEFINE m == p.max + Balance.stamina
           e == p.energy + Balance.stamina
           q == [p EXCEPT !.max = m, !.energy = e]
<1>1. CASE m > MaxTank
  BY <1>1 DEF Raised
<1>2. CASE ~(m > MaxTank)
  <2>1. m \in 1..MaxTank /\ e \in 0..MaxTank /\ e <= m
    BY <1>2, PlayerIs, Numbers
  <2>2. p \in Tanks
    BY DEF Players
  <2>3. Raised(p) = q
    BY <1>2 DEF Raised
  <2> HIDE DEF m, e
  <2>4. q \in Tanks
    BY <2>1, <2>2, TankWith DEF Tanks
  <2>5. q.energy = e /\ q.max = m /\ q.streak = p.streak
    BY <2>2, TankReads DEF Tanks
  <2> HIDE DEF q
  <2>6. q \in Players
    BY <2>1, <2>4, <2>5 DEF Players
  <2> QED  BY <2>3, <2>5, <2>6
<1> QED  BY <1>1, <1>2

\* Tickets too many, and what they do to a rest and to a price.
LEMMA Burdens ==
  ASSUME HandOK(hand), BoardOK(board)
  PROVE  /\ WipExtra \in Nat
         /\ RestRegen \in Nat /\ RestRegen > 0
         /\ \A kind \in {"commit", "refactor", "fix", "risky", "docs", "hotfix", "feature_merge",
                         "sprint_merge"}, mode \in {"craft", "ai", "none"} :
              Price(kind, mode) \in Nat
<1>1. Others.feature \in Nat /\ Others.refactor \in Nat
  BY DEF BoardOK, Boards, Others, Yours
<1>2. WipExtra \in Nat
  BY <1>1 DEF WipExtra
<1>3. RestRegen \in Nat /\ RestRegen > 0
  BY <1>2, Numbers DEF RestRegen
<1>4. \A kind \in {"commit", "refactor", "fix", "risky", "docs", "hotfix", "feature_merge",
                   "sprint_merge"}, mode \in {"craft", "ai", "none"} :
        PriceAt(kind, mode, WipExtra) \in Nat
  <2>1. WipExtra <= WipExtra
    BY <1>2
  <2> QED  BY <1>2, <2>1, Prices
<1> QED  BY <1>2, <1>3, <1>4 DEF Price

\* A release leaves energy.
LEMMA Weekends ==
  ASSUME NEW p \in Players, HandOK(hand), BoardOK(board)
  PROVE  /\ Rested(p) \in Players
         /\ Rested(p).energy > 0 /\ Rested(p).streak = p.streak
<1> DEFINE price == Price("sprint_merge", "none")
           half == (p.max + 1) \div 2
           a == Spend(p, price)
           b == Gain(a, Balance.releaseRegen)
<1>1. price \in Int /\ half \in Nat /\ half > 0 /\ Balance.releaseRegen \in Int
  BY Burdens, Numbers, PlayerIs
<1>2. Rested(p) = Gain(b, half)
  BY DEF Rested
<1> HIDE DEF price, half
<1>3. a \in Players /\ a.streak = p.streak
  BY <1>1, Gauged
<1> HIDE DEF a
<1>4. b \in Players /\ b.streak = p.streak
  BY <1>1, <1>3, Gauged
<1> HIDE DEF b
<1>5. /\ Gain(b, half) \in Players /\ Gain(b, half).streak = p.streak
      /\ Gain(b, half).energy = Within(b.energy + half, b.max)
  <2>1. half \in Int
    BY <1>1
  <2> QED  BY <1>4, <2>1, Gauged
<1>6. Within(b.energy + half, b.max) > 0
  <2>1. b.energy \in Nat /\ b.max \in Nat /\ b.max > 0
    BY <1>4, PlayerIs
  <2>2. b.energy + half \in Int /\ b.energy + half > 0
    BY <1>1, <2>1
  <2> QED  BY <2>1, <2>2, Clipped
<1> QED  BY <1>2, <1>5, <1>6

\* Debt stays within its gauge.
LEMMA Owed ==
  ASSUME NEW n \in Int
  PROVE  InDebt(n) \in 0..Balance.debtMax
BY Numbers, Clipped DEF InDebt

-----------------------------------------------------------------------------
(* What a commit and a review leave *)

\* The kinds of commit.
Kinds == {"commit", "docs", "risky", "fix", "refactor", "hotfix"}

LEMMA KindOfCommit ==
  ASSUME HandOK(hand), hand # NoTicket, NEW detour \in OffersOf(hand)
  PROVE  /\ CommitKind(hand, detour) \in Kinds
<1>1. detour \in {"plain", "docs", "risky", "fix", "refactor"}
  BY DEF OffersOf
<1> QED  BY <1>1 DEF CommitKind, Kinds

\* A commit whose fields are rewritten is one still.
LEMMA Rewritten ==
  ASSUME NEW U, NEW C, NEW B, NEW c \in [unread : U, cost : C, bugged : B],
         NEW u \in U, NEW n \in C, NEW b \in B
  PROVE  /\ [c EXCEPT !.cost = n, !.bugged = b] \in [unread : U, cost : C, bugged : B]
         /\ [c EXCEPT !.unread = u, !.bugged = b] \in [unread : U, cost : C, bugged : B]
         /\ [c EXCEPT !.unread = u] \in [unread : U, cost : C, bugged : B]
OBVIOUS

LEMMA Edited ==
  ASSUME NEW c \in Commits, NEW u \in BOOLEAN, NEW n \in 0..Balance.debtMax, NEW b \in BOOLEAN
  PROVE  /\ [c EXCEPT !.cost = n, !.bugged = b] \in Commits
         /\ [c EXCEPT !.unread = u, !.bugged = b] \in Commits
         /\ [c EXCEPT !.unread = u] \in Commits
BY Rewritten, Zenon DEF Commits

\* A record of commits, one by one.
LEMMA Remade ==
  ASSUME NEW cs \in Seq(Commits), NEW f, DOMAIN f = DOMAIN cs,
         f = [i \in DOMAIN f |-> f[i]], \A i \in DOMAIN cs : f[i] \in Commits
  PROVE  f \in Seq(Commits) /\ Len(f) = Len(cs)
<1>1. DOMAIN cs = 1..Len(cs) /\ Len(cs) \in Nat
  OBVIOUS
<1>2. f \in [1..Len(cs) -> Commits]
  BY <1>1
<1> QED  BY <1>1, <1>2

\* What a commit that goes through leaves: its debt is what it cost, and what a
\* refactor takes back comes off it.
LEMMA WrittenIsSound ==
  ASSUME Shape, NEW mode \in {"craft", "ai"}, NEW kind \in Kinds
  PROVE  /\ Written(mode, kind).debt \in 0..Balance.debtMax
         /\ Written(mode, kind).commits \in Seq(Commits)
         /\ OwnDebt(mode, kind) \in Nat
         /\ kind # "refactor" => Written(mode, kind).debt = InDebt(debt + OwnDebt(mode, kind))
         /\ kind = "refactor" /\ mode = "craft" /\ ~hand.migration =>
              Written(mode, kind).debt
                = LET target == MostIndebted(hand.commits)
                  IN InDebt(debt - IF target = 0 THEN Balance.refactorRepay
                                   ELSE hand.commits[target].cost)
<1> DEFINE own == OwnDebt(mode, kind)
           after == InDebt(debt + own)
           new == [unread |-> mode = "ai", cost |-> after - debt, bugged |-> FALSE]
           all == Append(hand.commits, new)
           target == IF kind = "refactor" THEN MostIndebted(all) ELSE 0
           fixed == IF kind = "fix" THEN First(Bugged(hand)) ELSE 0
           repaid == IF kind # "refactor" THEN 0
                     ELSE IF target = 0 THEN Balance.refactorRepay ELSE all[target].cost
           left == [i \in DOMAIN all |->
                      [all[i] EXCEPT !.cost = IF i = target THEN 0 ELSE @,
                                     !.bugged = @ /\ i # fixed]]
<1>1. own \in Nat
  BY Numbers DEF OwnDebt
<1>2. debt \in 0..Balance.debtMax /\ hand.commits \in Seq(Commits) /\ Balance.debtMax \in Nat
  BY Numbers DEF Shape, HandOK, Hands
<1> HIDE DEF own
<1>3. after \in 0..Balance.debtMax /\ after >= debt
  <2>1. debt + own \in Int /\ debt + own >= debt
    BY <1>1, <1>2
  <2> QED  BY <1>2, <2>1, Clipped DEF InDebt
<1>4. new \in Commits
  BY <1>2, <1>3 DEF Commits
<1>5. new.cost = after - debt
  OBVIOUS
<1> HIDE DEF after, new
<1>6. all \in Seq(Commits)
  BY <1>2, <1>4
<1>7. MostIndebted(all) # 0 => all[MostIndebted(all)].cost \in 0..Balance.debtMax
  BY <1>6, Dearest
<1> HIDE DEF all
<1>8. repaid \in Nat
  BY <1>2, <1>7, Numbers
<1>9. left \in Seq(Commits)
  <2>1. ASSUME NEW i \in DOMAIN all
        PROVE  [all[i] EXCEPT !.cost = IF i = target THEN 0 ELSE @,
                              !.bugged = @ /\ i # fixed] \in Commits
    <3>1. all[i] \in Commits
      BY <1>6
    <3> DEFINE cost == IF i = target THEN 0 ELSE all[i].cost
               bugged == all[i].bugged /\ i # fixed
    <3>2. cost \in 0..Balance.debtMax
      BY <1>2, <3>1 DEF Commits
    <3>3. bugged \in BOOLEAN
      BY Zenon
    <3> HIDE DEF cost, bugged
    <3>4. [all[i] EXCEPT !.cost = cost, !.bugged = bugged] \in Commits
      BY <3>1, <3>2, <3>3, Edited
    <3> HIDE DEF target, fixed
    <3> QED  BY <3>4 DEF cost, bugged
  <2> HIDE DEF target, fixed
  <2>2. \A i \in DOMAIN all : left[i] \in Commits
    BY <2>1
  <2>3. DOMAIN left = DOMAIN all /\ left = [i \in DOMAIN left |-> left[i]]
    OBVIOUS
  <2> HIDE DEF left
  <2> QED  BY <1>6, <2>2, <2>3, Remade
<1>10. /\ Written(mode, kind).debt = InDebt(after - repaid)
       /\ Written(mode, kind).commits = Noted(left)
  BY DEF Written, own, after, new, all
<1> HIDE DEF left
<1>11. Noted(left) \in Seq(Commits)
  BY <1>9, NotedAreCommits
<1>12. after - repaid \in Int
  BY <1>3, <1>8
<1>13. InDebt(after - repaid) \in 0..Balance.debtMax
  BY <1>12, Owed
<1>14. ASSUME kind # "refactor" PROVE Written(mode, kind).debt = after
  <2>1. InDebt(after) = after
    BY <1>2, <1>3, Clipped DEF InDebt
  <2>2. repaid = 0
    BY <1>14
  <2> HIDE DEF repaid
  <2> QED  BY <1>3, <1>10, <2>1, <2>2
<1>15. ASSUME kind = "refactor", mode = "craft", ~hand.migration
       PROVE  repaid = (IF MostIndebted(hand.commits) = 0 THEN Balance.refactorRepay
                        ELSE hand.commits[MostIndebted(hand.commits)].cost)
              /\ after = debt
  <2>1. own = 0
    BY <1>15, Numbers DEF OwnDebt, own
  <2>2. after = debt
    <3>1. debt + own = debt
      BY <1>2, <2>1
    <3>2. InDebt(debt) = debt
      BY <1>2, Clipped DEF InDebt
    <3> QED  BY <3>1, <3>2 DEF after
  <2>3. new.cost = 0
    BY <1>2, <1>5, <2>2
  <2>4. MostIndebted(all) = MostIndebted(hand.commits)
    BY <1>2, <1>4, <2>3, FreeIsNotDearest DEF all
  <2>5. ASSUME MostIndebted(hand.commits) # 0
        PROVE  all[MostIndebted(hand.commits)] = hand.commits[MostIndebted(hand.commits)]
    <3>1. MostIndebted(hand.commits) \in 1..Len(hand.commits)
      BY <1>2, <2>5, Dearest
    <3> QED  BY <1>2, <1>4, <3>1 DEF all
  <2>6. repaid = IF MostIndebted(all) = 0 THEN Balance.refactorRepay
                 ELSE all[MostIndebted(all)].cost
    BY <1>15
  <2> HIDE DEF repaid
  <2> QED  BY <2>2, <2>4, <2>5, <2>6
<1> HIDE DEF repaid
<1> QED  BY <1>1, <1>10, <1>11, <1>13, <1>14, <1>15 DEF own, after

-----------------------------------------------------------------------------
(* Tickets *)

LEMMA HandIs ==
  ASSUME HandOK(hand)
  PROVE  /\ hand = [kind |-> hand.kind, migration |-> hand.migration, filled |-> hand.filled,
                    rework |-> hand.rework, commits |-> hand.commits]
         /\ hand.migration \in BOOLEAN /\ (hand.migration => hand.kind = "feature")
         /\ hand.kind \in Yours \cup {"none"} /\ hand.filled \in Nat
         /\ hand.rework \in 0..MaxRework /\ hand.rework \in Nat
         /\ hand.commits \in Seq(Commits) /\ Len(hand.commits) <= MaxCommits
         /\ hand # NoTicket => hand.kind \in Yours
         /\ hand.kind = "none" => hand = NoTicket
BY DEF HandOK, Hands

\* The ticket in hand with other points, other fixes, other commits.
LEMMA HandOf ==
  ASSUME NEW kind \in Yours, NEW migration \in BOOLEAN, NEW filled \in Nat,
         NEW rework \in 0..MaxRework, NEW commits \in Seq(Commits),
         Len(commits) <= MaxCommits, migration => kind = "feature"
  PROVE  LET h == [kind |-> kind, migration |-> migration, filled |-> filled, rework |-> rework,
                   commits |-> commits]
         IN HandOK(h) /\ h # NoTicket
<1>1. kind # "none"
  BY DEF Yours
<1> QED  BY <1>1 DEF HandOK, Hands, NoTicket

LEMMA Blank ==
  /\ HandOK(NoTicket) /\ NoTicket.kind = "none" /\ NoTicket.commits = <<>>
  /\ \A kind \in Yours : \A t \in Fresh(kind) :
       /\ HandOK(t) /\ t # NoTicket /\ t.kind = kind /\ t.commits = <<>>
  /\ \A kind \in Yours : Unwritten(kind) \in Fresh(kind)
<1>1. <<>> \in Seq(Commits) /\ Len(<<>>) = 0
  OBVIOUS
<1>2. HandOK(NoTicket) /\ NoTicket.kind = "none" /\ NoTicket.commits = <<>>
  BY <1>1, Numbers DEF HandOK, Hands, NoTicket
<1> DEFINE no == FALSE
           yes == TRUE
           Of(kind, m) == [kind |-> kind, migration |-> m, filled |-> 0, rework |-> 0,
                           commits |-> <<>>]
<1>a. NoTicket = Of("none", no) /\ Migration = [Unwritten("feature") EXCEPT !.migration = yes]
  BY DEF NoTicket, Migration
<1>b. no \in BOOLEAN /\ yes \in BOOLEAN /\ ~no
  OBVIOUS
<1> HIDE DEF no, yes
<1>3. ASSUME NEW kind PROVE Unwritten(kind) = Of(kind, no)
  <2>1. Unwritten(kind) = [NoTicket EXCEPT !.kind = kind]
    BY DEF Unwritten
  <2>2. [Of("none", no) EXCEPT !.kind = kind] = Of(kind, no)
    OBVIOUS
  <2> HIDE DEF Of
  <2> QED  BY <1>a, <2>1, <2>2
<1>4. Migration = Of("feature", yes)
  <2>1. [Of("feature", no) EXCEPT !.migration = yes] = Of("feature", yes)
    OBVIOUS
  <2> HIDE DEF Of
  <2> QED  BY <1>a, <1>3, <2>1
<1>5. ASSUME NEW kind \in Yours, NEW m \in BOOLEAN, NEW t, m => kind = "feature",
             t = Of(kind, m)
      PROVE  HandOK(t) /\ t # NoTicket /\ t.kind = kind /\ t.commits = <<>>
  <2>1. 0 \in Nat /\ 0 \in 0..MaxRework /\ Len(<<>>) <= MaxCommits
    BY <1>1, Numbers
  <2> QED  BY <1>1, <1>5, <2>1, HandOf
<1>6. ASSUME NEW kind \in Yours, NEW t, t \in Fresh(kind)
      PROVE  HandOK(t) /\ t # NoTicket /\ t.kind = kind /\ t.commits = <<>>
  <2>1. t.kind = kind /\ (t = Unwritten(kind) \/ t = Migration)
    BY <1>6 DEF Fresh
  <2>2. CASE t = Unwritten(kind)
    <3> HIDE DEF Of
    <3> QED  BY <1>3, <1>5, <1>b, <2>2
  <2>3. CASE t = Migration
    <3>1. "feature" \in Yours
      BY DEF Yours
    <3>2. t.kind = "feature"
      BY <1>4, <2>3
    <3> HIDE DEF Of
    <3> QED  BY <1>4, <1>5, <1>b, <2>1, <2>3, <3>1, <3>2
  <2> QED  BY <2>1, <2>2, <2>3
<1>7. ASSUME NEW kind \in Yours PROVE Unwritten(kind) \in Fresh(kind)
  <2>1. Unwritten(kind).kind = kind
    BY <1>3
  <2> QED  BY <2>1 DEF Fresh
<1> QED  BY <1>2, <1>6, <1>7

LEMMA BoardIs ==
  ASSUME BoardOK(board)
  PROVE  /\ board = <<Others, Team, Waiting>>
         /\ Others \in [Yours -> Nat] /\ \A k \in Yours : Others[k] \in Nat /\ Others[k] <= MaxOpen[k]
         /\ Others.feature \in Nat /\ Others.refactor \in Nat /\ Others.hotfix \in Nat
         /\ Team \in Nat /\ Team <= MaxWaiting /\ Waiting \in Nat /\ Waiting <= MaxWaiting
BY DEF BoardOK, Boards, Others, Team, Waiting, Yours

LEMMA BoardOf ==
  ASSUME NEW others \in [Yours -> Nat], \A k \in Yours : others[k] <= MaxOpen[k],
         NEW team \in 0..MaxWaiting, NEW waiting \in 0..MaxWaiting
  PROVE  BoardOK(<<others, team, waiting>>)
BY DEF BoardOK, Boards

\* Your other tickets, one kind counted anew.
LEMMA Counted ==
  ASSUME NEW others \in [Yours -> Nat], \A k \in Yours : others[k] <= MaxOpen[k],
         NEW kind \in Yours, NEW n \in Nat, n <= MaxOpen[kind]
  PROVE  /\ [others EXCEPT ![kind] = n] \in [Yours -> Nat]
         /\ \A k \in Yours : [others EXCEPT ![kind] = n][k] <= MaxOpen[k]
         /\ \A k \in Yours : [others EXCEPT ![kind] = n][k] = IF k = kind THEN n ELSE others[k]
OBVIOUS

\* Forced work, tickets handed back and the next one in hand leave a hand and a board.
LEMMA ForcedIsSound ==
  ASSUME HandOK(hand), BoardOK(board), NEW kind \in Yours, Forced(kind)
  PROVE  /\ HandOK(hand') /\ BoardOK(board') /\ hand' # NoTicket
         /\ hand # NoTicket => hand' = hand
<1>1. CASE hand = NoTicket
  <2>1. hand' \in Fresh(kind) /\ board' = board
    BY <1>1 DEF Forced
  <2>2. BoardOK(board')
    BY <2>1 DEF BoardOK
  <2> QED  BY <1>1, <2>1, <2>2, Blank
<1>2. CASE hand # NoTicket
  <2>1. /\ hand' = hand /\ Others[kind] < MaxOpen[kind]
        /\ board' = <<[Others EXCEPT ![kind] = @ + 1], Team, Waiting>>
    BY <1>2 DEF Forced, MayForce
  <2>2. Others[kind] + 1 \in Nat /\ Others[kind] + 1 <= MaxOpen[kind]
    BY <2>1, BoardIs, Numbers
  <2>3. /\ [Others EXCEPT ![kind] = Others[kind] + 1] \in [Yours -> Nat]
        /\ \A k \in Yours : [Others EXCEPT ![kind] = Others[kind] + 1][k] <= MaxOpen[k]
    BY <2>2, BoardIs, Counted
  <2>4. Team \in 0..MaxWaiting /\ Waiting \in 0..MaxWaiting
    BY BoardIs
  <2>5. BoardOK(board')
    BY <2>1, <2>3, <2>4, BoardOf
  <2> QED  BY <1>2, <2>1, <2>5
<1> QED  BY <1>1, <1>2

LEMMA HandedBackIsSound ==
  ASSUME HandOK(hand), BoardOK(board), HandedBack
  PROVE  /\ HandOK(hand') /\ BoardOK(board')
         /\ hand # NoTicket => hand' = hand
<1>1. PICK back \in 0..Team :
        LET first == IF hand = NoTicket /\ back > 0 THEN 1 ELSE 0
        IN /\ Others.feature + back - first <= MaxOpen.feature
           /\ hand' \in IF first = 1 THEN Fresh("feature") ELSE {hand}
           /\ board' = <<[Others EXCEPT !.feature = @ + back - first], Team - back, Waiting>>
  BY DEF HandedBack
<1> DEFINE first == IF hand = NoTicket /\ back > 0 THEN 1 ELSE 0
           n == Others.feature + back - first
<1>2. /\ n <= MaxOpen.feature
      /\ hand' \in IF first = 1 THEN Fresh("feature") ELSE {hand}
      /\ board' = <<[Others EXCEPT ![("feature")] = n], Team - back, Waiting>>
  BY <1>1
<1>3. first \in {0, 1} /\ (first = 1 => hand = NoTicket /\ back > 0) /\ back \in Nat
  BY BoardIs
<1>4. n \in Nat /\ Team - back \in 0..MaxWaiting /\ Waiting \in 0..MaxWaiting
  <2>1. Others.feature \in Nat /\ Team \in Nat /\ Waiting \in Nat /\ back <= Team
    BY BoardIs
  <2>2. Team <= MaxWaiting /\ Waiting <= MaxWaiting /\ MaxWaiting \in Nat
    BY BoardIs, Numbers
  <2> HIDE DEF first
  <2>3. n \in Nat
    BY <1>3, <2>1
  <2> QED  BY <1>3, <2>1, <2>2, <2>3
<1>5. "feature" \in Yours
  BY DEF Yours
<1>6. HandOK(hand')
  <2> HIDE DEF first
  <2> QED  BY <1>2, <1>3, <1>5, Blank
<1> HIDE DEF n
<1>7. /\ [Others EXCEPT ![("feature")] = n] \in [Yours -> Nat]
      /\ \A k \in Yours : [Others EXCEPT ![("feature")] = n][k] <= MaxOpen[k]
      /\ \A k \in Yours : [Others EXCEPT ![("feature")] = n][k]
                            = IF k = "feature" THEN n ELSE Others[k]
  BY <1>2, <1>4, <1>5, BoardIs, Counted
<1>8. BoardOK(board')
  BY <1>2, <1>4, <1>7, BoardOf
<1> HIDE DEF first
<1> QED  BY <1>2, <1>3, <1>6, <1>8

LEMMA TakeNextIsSound ==
  ASSUME HandOK(hand), BoardOK(board), TakeNext
  PROVE  HandOK(hand') /\ BoardOK(board')
<1>1. CASE \A k \in Yours : Others[k] = 0
  <2>1. hand' = NoTicket /\ board' = board
    BY <1>1 DEF TakeNext
  <2> QED  BY <2>1, Blank DEF BoardOK
<1>2. CASE ~\A k \in Yours : Others[k] = 0
  <2>1. PICK k \in Yours : /\ Others[k] > 0 /\ hand' \in Fresh(k)
                           /\ board' = <<[Others EXCEPT ![k] = @ - 1], Team, Waiting>>
    BY <1>2 DEF TakeNext
  <2>2. Others[k] - 1 \in Nat /\ Others[k] - 1 <= MaxOpen[k]
    BY <2>1, BoardIs, Numbers
  <2>3. /\ [Others EXCEPT ![k] = Others[k] - 1] \in [Yours -> Nat]
        /\ \A j \in Yours : [Others EXCEPT ![k] = Others[k] - 1][j] <= MaxOpen[j]
    BY <2>2, BoardIs, Counted
  <2>4. Team \in 0..MaxWaiting /\ Waiting \in 0..MaxWaiting
    BY BoardIs
  <2>5. BoardOK(board')
    BY <2>1, <2>3, <2>4, BoardOf
  <2> QED  BY <2>1, <2>5, Blank
<1> QED  BY <1>1, <1>2

\* A ticket that lands.
LEMMA LandIsSound ==
  ASSUME HandOK(hand), BoardOK(board), NEW p \in Players, NEW d \in 0..Balance.debtMax,
         NEW noRegen, NEW skill, Land(p, d, noRegen, skill)
  PROVE  /\ player' \in Players /\ player'.streak = p.streak
         /\ debt' \in 0..Balance.debtMax
         /\ HandOK(hand') /\ BoardOK(board') /\ phase' = "choose"
<1> DEFINE paid == Spend(p, Price("feature_merge", "none"))
           left == IF noRegen THEN paid ELSE Gain(paid, Balance.mergeRegen)
<1>1. Price("feature_merge", "none") \in Int /\ Balance.mergeRegen \in Int
  BY Burdens, Numbers
<1>2. paid \in Players /\ paid.streak = p.streak
  BY <1>1, Gauged
<1>3. player' = (IF skill THEN Raised(left) ELSE left) /\ TakeNext
      /\ phase' = "choose"
      /\ debt' = IF hand.kind = "refactor" THEN InDebt(d - Balance.explosionRepay) ELSE d
  BY DEF Land
<1> HIDE DEF paid
<1>4. Gain(paid, Balance.mergeRegen) \in Players /\ Gain(paid, Balance.mergeRegen).streak = paid.streak
  BY <1>1, <1>2, Gauged
<1>6. left \in Players /\ left.streak = p.streak
  BY <1>2, <1>4
<1> HIDE DEF left
<1>7. Raised(left) \in Players /\ Raised(left).streak = left.streak
  BY <1>6, RaisedIs
<1>5. debt' \in 0..Balance.debtMax
  <2>1. d - Balance.explosionRepay \in Int
    BY Numbers
  <2> QED  BY <1>3, <2>1, Owed
<1> QED  BY <1>3, <1>5, <1>6, <1>7, TakeNextIsSound

-----------------------------------------------------------------------------
(* The player's actions *)

\* What is kept of an action: its name if no dice disturbed it, and what the
\* player saw.
LEMMA PlayedIs ==
  ASSUME NEW type, NEW mode, NEW detour, NEW dull, NEW ends,
         Played(type, mode, detour, dull, ends)
  PROVE  /\ step' = IF ends THEN "turn" ELSE "settle"
         /\ act'.low = (act.low \/ player.energy = 0)
         /\ act'.spared = act.spared
         /\ act'.dull => dull
         /\ dull => act'.type = type /\ act'.mode = mode /\ act'.detour = detour
<1> DEFINE low == act.low \/ player.energy = 0
<1>1. /\ act' = [(IF dull THEN [NoAct EXCEPT !.type = type, !.mode = mode, !.detour = detour,
                                             !.dull = TRUE]
                  ELSE NoAct) EXCEPT !.low = low, !.spared = act.spared]
      /\ step' = IF ends THEN "turn" ELSE "settle"
  BY Zenon DEF Played
<1> HIDE DEF low
<1>2. CASE dull
  <2>1. act' = [[NoAct EXCEPT !.type = type, !.mode = mode, !.detour = detour, !.dull = TRUE]
                  EXCEPT !.low = low, !.spared = act.spared]
    BY <1>1, <1>2
  <2>2. /\ act'.type = type /\ act'.mode = mode /\ act'.detour = detour
        /\ act'.low = low /\ act'.spared = act.spared
    BY <2>1 DEF NoAct
  <2> QED  BY <1>1, <1>2, <2>2 DEF low
<1>3. CASE ~dull
  <2>1. act' = [NoAct EXCEPT !.low = low, !.spared = act.spared]
    BY <1>1, <1>3
  <2>2. act'.dull = FALSE /\ act'.low = low /\ act'.spared = act.spared
    BY <2>1 DEF NoAct
  <2> QED  BY <1>1, <1>3, <2>2 DEF low
<1> QED  BY <1>2, <1>3

\* An action that leaves the types right: whatever it does to the gauge, a
\* streak behind it shows in what it keeps.
LEMMA Plays ==
  ASSUME ForecastInv, step = "prompt", phase # "over",
         NEW type, NEW mode, NEW detour, NEW dull, NEW ends \in BOOLEAN,
         Played(type, mode, detour, dull, ends),
         Shape', phase' \in {"choose", "accepted", "rejected", "conflict"},
         turn' < Turns, player'.streak = player.streak
  PROVE  ForecastInv'
<1>1. /\ step' = IF ends THEN "turn" ELSE "settle"
      /\ act'.low = (act.low \/ player.energy = 0) /\ act'.spared = act.spared
  BY PlayedIs
<1>2. /\ player.streak < Balance.burnoutStreak
      /\ player.streak > 0 => player.energy = 0 \/ act.low \/ act.spared
  BY DEF ForecastInv, Streaks
<1>3. Boxed'
  BY <1>1 DEF Boxed
<1>4. Streaks'
  BY <1>1, <1>2 DEF Streaks
<1>5. BurnoutIsSignposted'
  BY <1>1 DEF BurnoutIsSignposted
<1> QED  BY <1>3, <1>4, <1>5 DEF ForecastInv

\* A turn in which an action is played is one of the box.
LEMMA InTheBox ==
  ASSUME ForecastInv, step = "prompt", phase \notin {"relic", "over"}
  PROVE  turn < Turns
BY DEF ForecastInv, Boxed

\* Facts of a state used by every action.
LEMMA ShapeIs ==
  ASSUME Shape
  PROVE  /\ player \in Players /\ player.energy \in Nat /\ player.energy <= player.max
         /\ player.max \in Nat /\ player.max > 0
         /\ player.streak \in Nat /\ player.docs \in Nat
         /\ debt \in 0..Balance.debtMax /\ debt \in Nat
         /\ HandOK(hand) /\ BoardOK(board) /\ turn \in Nat /\ turn <= Turns
BY PlayerIs, Numbers DEF Shape

LEMMA Reticketed ==
  ASSUME NEW K, NEW M, NEW F, NEW R, NEW C,
         NEW h \in [kind : K, migration : M, filled : F, rework : R, commits : C],
         NEW f \in F, NEW c \in C
  PROVE  /\ [h EXCEPT !.commits = c]
              \in [kind : K, migration : M, filled : F, rework : R, commits : C]
         /\ [h EXCEPT !.filled = f, !.commits = c]
              \in [kind : K, migration : M, filled : F, rework : R, commits : C]
         /\ [h EXCEPT !.commits = c].commits = c
         /\ [h EXCEPT !.filled = f, !.commits = c].commits = c
         /\ [h EXCEPT !.commits = c].kind = h.kind
         /\ [h EXCEPT !.filled = f, !.commits = c].kind = h.kind
         /\ [h EXCEPT !.commits = c].migration = h.migration
         /\ [h EXCEPT !.filled = f, !.commits = c].migration = h.migration
OBVIOUS

LEMMA Filled ==
  ASSUME NEW h, NEW k, NEW m, NEW g, NEW r, NEW n, NEW f, NEW c,
         h = [kind |-> k, migration |-> m, filled |-> g, rework |-> r, commits |-> n]
  PROVE  [h EXCEPT !.filled = f, !.commits = c].filled = f
OBVIOUS

\* Tickets with a kind of their own.
Held == [kind : Yours, migration : BOOLEAN, filled : Nat, rework : 0..MaxRework,
         commits : Seq(Commits)]

LEMMA HeldIs ==
  /\ HandOK(hand) /\ hand # NoTicket => hand \in Held
  /\ \A h \in Held : Len(h.commits) <= MaxCommits /\ (h.migration => h.kind = "feature")
                       => HandOK(h) /\ h # NoTicket
<1>1. ASSUME HandOK(hand), hand # NoTicket PROVE hand \in Held
  BY <1>1, HandIs DEF Held
<1>2. \A h \in Held : Len(h.commits) <= MaxCommits /\ (h.migration => h.kind = "feature")
                        => HandOK(h) /\ h # NoTicket
  BY DEF HandOK, Hands, NoTicket, Yours, Held
<1> QED  BY <1>1, <1>2

\* What the hand keeps of a ticket whose commits or points changed.
LEMMA HandKept ==
  ASSUME HandOK(hand), hand # NoTicket, NEW filled \in Nat,
         NEW commits \in Seq(Commits), Len(commits) <= MaxCommits
  PROVE  /\ HandOK([hand EXCEPT !.filled = filled, !.commits = commits])
         /\ [hand EXCEPT !.filled = filled, !.commits = commits] # NoTicket
         /\ HandOK([hand EXCEPT !.commits = commits])
         /\ [hand EXCEPT !.commits = commits] # NoTicket
<1> DEFINE one == [hand EXCEPT !.commits = commits]
           both == [hand EXCEPT !.filled = filled, !.commits = commits]
<1>1. hand \in Held /\ (hand.migration => hand.kind = "feature")
  BY HandIs, HeldIs
<1>2. /\ both \in Held /\ one \in Held
      /\ both.commits = commits /\ one.commits = commits
      /\ both.kind = hand.kind /\ one.kind = hand.kind
      /\ both.migration = hand.migration /\ one.migration = hand.migration
  BY <1>1, Reticketed DEF Held
<1> HIDE DEF one, both
<1>3. HandOK(both) /\ both # NoTicket /\ HandOK(one) /\ one # NoTicket
  BY <1>1, <1>2, HeldIs
<1> QED  BY <1>3 DEF one, both

\* The ticket of a refusal, its fixes added or its bugs sent to the backlog.
LEMMA Refused ==
  ASSUME NEW K, NEW M, NEW F, NEW R, NEW C,
         NEW h \in [kind : K, migration : M, filled : F, rework : R, commits : C],
         NEW f \in F, NEW r \in R, NEW c \in C
  PROVE  /\ [h EXCEPT !.rework = r, !.commits = c]
              \in [kind : K, migration : M, filled : F, rework : R, commits : C]
         /\ [h EXCEPT !.rework = r, !.filled = f]
              \in [kind : K, migration : M, filled : F, rework : R, commits : C]
         /\ [h EXCEPT !.rework = r, !.commits = c].commits = c
         /\ [h EXCEPT !.rework = r, !.filled = f].commits = h.commits
         /\ [h EXCEPT !.rework = r, !.commits = c].kind = h.kind
         /\ [h EXCEPT !.rework = r, !.filled = f].kind = h.kind
         /\ [h EXCEPT !.rework = r, !.commits = c].migration = h.migration
         /\ [h EXCEPT !.rework = r, !.filled = f].migration = h.migration
OBVIOUS

LEMMA HandRefused ==
  ASSUME HandOK(hand), hand # NoTicket, NEW rework \in 0..MaxRework
  PROVE  /\ \A commits \in Seq(Commits) : Len(commits) <= MaxCommits =>
              /\ HandOK([hand EXCEPT !.rework = rework, !.commits = commits])
              /\ [hand EXCEPT !.rework = rework, !.commits = commits] # NoTicket
         /\ \A filled \in Nat :
              /\ HandOK([hand EXCEPT !.rework = rework, !.filled = filled])
              /\ [hand EXCEPT !.rework = rework, !.filled = filled] # NoTicket
<1>1. hand \in Held /\ hand.filled \in Nat /\ Len(hand.commits) <= MaxCommits
      /\ hand.commits \in Seq(Commits) /\ (hand.migration => hand.kind = "feature")
  BY HandIs, HeldIs
<1>3. ASSUME NEW commits \in Seq(Commits), Len(commits) <= MaxCommits
      PROVE  /\ HandOK([hand EXCEPT !.rework = rework, !.commits = commits])
             /\ [hand EXCEPT !.rework = rework, !.commits = commits] # NoTicket
  <2> DEFINE h == [hand EXCEPT !.rework = rework, !.commits = commits]
  <2>1. h \in Held /\ h.commits = commits /\ h.kind = hand.kind
        /\ h.migration = hand.migration
    BY <1>1, Refused DEF Held
  <2> HIDE DEF h
  <2>2. HandOK(h) /\ h # NoTicket
    BY <1>1, <1>3, <2>1, HeldIs
  <2> QED  BY <2>2 DEF h
<1>4. ASSUME NEW filled \in Nat
      PROVE  /\ HandOK([hand EXCEPT !.rework = rework, !.filled = filled])
             /\ [hand EXCEPT !.rework = rework, !.filled = filled] # NoTicket
  <2> DEFINE h == [hand EXCEPT !.rework = rework, !.filled = filled]
  <2>1. h \in Held /\ h.commits = hand.commits /\ h.kind = hand.kind
        /\ h.migration = hand.migration
    BY <1>1, Refused DEF Held
  <2> HIDE DEF h
  <2>2. HandOK(h) /\ h # NoTicket
    BY <1>1, <2>1, HeldIs
  <2> QED  BY <2>2 DEF h
<1> QED  BY <1>3, <1>4

\* The points a commit scores.
LEMMA Scored ==
  ASSUME NEW t, NEW mode \in {"craft", "ai"}, NEW kind
  PROVE  PointsFor(t, mode, kind) \in Nat
BY Numbers DEF PointsFor

\* The player after a commit.
LEMMA PractisedIs ==
  ASSUME NEW p \in Players, NEW mode, NEW kind,
         kind = "docs" => p.docs + Balance.docs <= MaxDocs
  PROVE  /\ Practised(p, mode, kind) \in Players
         /\ Practised(p, mode, kind).energy = p.energy
         /\ Practised(p, mode, kind).max = p.max
         /\ Practised(p, mode, kind).streak = p.streak
<1> DEFINE n == (IF mode = "ai" /\ p.docs > 0 THEN p.docs - 1 ELSE p.docs)
                  + (IF kind = "docs" THEN Balance.docs ELSE 0)
<1>1. p.docs \in 0..MaxDocs
  BY PlayerIs
<1>2. n \in 0..MaxDocs
  BY <1>1, Numbers
<1>3. Practised(p, mode, kind) = [p EXCEPT !.docs = n]
  BY DEF Practised
<1> HIDE DEF n
<1> QED  BY <1>2, <1>3, DocsAre

LEMMA CommitKeeps ==
  ASSUME ForecastInv, step = "prompt", phase \in {"choose", "rejected"}, hand # NoTicket,
         NEW type, NEW mode \in {"craft", "ai"}, NEW detour,
         CommitKind(hand, detour) \in Kinds,
         CommitAs(type, mode, detour)
  PROVE  ForecastInv'
<1> DEFINE kind == CommitKind(hand, detour)
           price == Price(kind, mode)
           spent == Spend(player, price)
           left == Written(mode, kind)
           filled == Within(hand.filled + PointsFor(hand, mode, kind), Size(hand))
<1>1. Shape /\ kind \in Kinds /\ turn < Turns
  BY InTheBox DEF ForecastInv
<1>2. /\ phase' = "choose" /\ UNCHANGED <<board, turn>>
      /\ \/ /\ player' = spent
            /\ UNCHANGED <<debt, hand>>
            /\ Played(type, mode, detour, FALSE, TRUE)
         \/ \E weather \in Weather :
              /\ Len(left.commits) <= MaxCommits
              /\ kind = "docs" => player.docs + Balance.docs <= MaxDocs
              /\ player' = Gain(Practised(spent, mode, kind), weather.energy)
              /\ debt' = InDebt(left.debt + weather.debt)
              /\ hand' = [hand EXCEPT !.filled = filled, !.commits = left.commits]
              /\ Played(type, mode, detour, weather = Calm, TRUE)
  BY DEF CommitAs
<1>3. price \in Int
  <2>1. kind \in {"commit", "refactor", "fix", "risky", "docs", "hotfix", "feature_merge",
                  "sprint_merge"}
    BY <1>1 DEF Kinds
  <2> HIDE DEF kind
  <2> QED  BY <1>1, <2>1, Burdens, ShapeIs
<1>5. filled \in Nat
  <2>1. hand.kind \in Yours /\ hand.filled \in Nat /\ hand.rework \in Nat
    <3>1. HandOK(hand)
      BY <1>1, ShapeIs
    <3> QED  BY <3>1, HandIs
  <2>2. Size(hand) \in Nat
    <3>1. Balance.size[hand.kind] \in Nat
      BY <2>1, Numbers
    <3> QED  BY <2>1, <3>1 DEF Size
  <2>3. PointsFor(hand, mode, kind) \in Nat
    BY Scored
  <2>4. hand.filled + PointsFor(hand, mode, kind) \in Int
    BY <2>1, <2>3
  <2> QED  BY <2>2, <2>4, Clipped
<1>6. left.debt \in 0..Balance.debtMax /\ left.commits \in Seq(Commits)
  <2> HIDE DEF kind
  <2> QED  BY <1>1, WrittenIsSound
<1> HIDE DEF kind, price, left, filled
<1>8. spent \in Players /\ spent.streak = player.streak /\ spent.docs = player.docs
  BY <1>1, <1>3, Gauged, ShapeIs
<1> HIDE DEF spent
<1>11. CASE /\ player' = spent
            /\ UNCHANGED <<debt, hand>>
            /\ Played(type, mode, detour, FALSE, TRUE)
  <2>1. step' = "turn"
    BY <1>11 DEF Played
  <2>2. Shape'
    BY <1>1, <1>2, <1>8, <1>11, <2>1 DEF Shape, HandOK, BoardOK
  <2> QED  BY <1>1, <1>2, <1>8, <1>11, <2>2, Plays
<1>12. ASSUME NEW weather \in Weather,
              Len(left.commits) <= MaxCommits,
              kind = "docs" => player.docs + Balance.docs <= MaxDocs,
              player' = Gain(Practised(spent, mode, kind), weather.energy),
              debt' = InDebt(left.debt + weather.debt),
              hand' = [hand EXCEPT !.filled = filled, !.commits = left.commits],
              Played(type, mode, detour, weather = Calm, TRUE)
       PROVE  ForecastInv'
  <2>1. weather.energy \in Int /\ weather.debt \in Int
    BY DEF Weather, Calm
  <2> DEFINE own == Practised(spent, mode, kind)
  <2>2. own \in Players /\ own.streak = spent.streak
    BY <1>8, <1>12, PractisedIs
  <2>3. player' = Gain(own, weather.energy)
    BY <1>12
  <2> HIDE DEF own
  <2>4. player' \in Players /\ player'.streak = player.streak
    <3>1. Gain(own, weather.energy) \in Players /\ Gain(own, weather.energy).streak = own.streak
      BY <2>1, <2>2, Gauged
    <3> QED  BY <1>8, <2>2, <2>3, <3>1
  <2>5. debt' \in 0..Balance.debtMax
    <3>1. left.debt \in Int
      BY <1>6
    <3>2. left.debt + weather.debt \in Int
      BY <2>1, <3>1
    <3> QED  BY <1>12, <3>2, Owed
  <2>6. HandOK(hand') /\ hand' # NoTicket
    BY <1>1, <1>5, <1>6, <1>12, HandKept, ShapeIs
  <2>7. step' = "turn"
    BY <1>12, PlayedIs
  <2>8. Shape'
    BY <1>1, <1>2, <2>4, <2>5, <2>6, <2>7 DEF Shape, BoardOK
  <2> QED  BY <1>1, <1>2, <1>12, <2>4, <2>8, Plays
<1> QED  BY <1>2, <1>11, <1>12

LEMMA ReviewKeeps ==
  ASSUME ForecastInv, Review
  PROVE  ForecastInv'
<1> DEFINE cs == hand.commits
           read == [i \in DOMAIN cs |-> [cs[i] EXCEPT !.unread = @ /\ i \notin ReadNow]]
<1>1. /\ step = "prompt" /\ phase = "choose" /\ Unread(hand) # {}
      /\ player' = Spend(player, Balance.review)
      /\ debt' = InDebt(debt - Cardinality(ReadNow) * Balance.reviewRepay)
      /\ hand' = [hand EXCEPT !.commits = Noted(read)]
      /\ Played("review", "none", "plain", TRUE, TRUE)
      /\ UNCHANGED <<board, turn, phase>>
  <2>1. hand' = [hand EXCEPT !.commits = Noted(read)]
    BY Zenon DEF Review
  <2> HIDE DEF read
  <2> QED  BY <2>1 DEF Review, Asked
<1>2. Shape /\ HandOK(hand) /\ cs \in Seq(Commits) /\ Len(cs) <= MaxCommits /\ Len(cs) \in Nat
      /\ DOMAIN cs = 1..Len(cs)
  BY ShapeIs, HandIs DEF ForecastInv
<1>3. hand # NoTicket /\ hand.commits # <<>>
  <2>1. hand.commits # <<>>
    BY <1>1 DEF Unread
  <2> QED  BY <2>1, Blank
<1>4. turn < Turns
  BY <1>1, InTheBox
<1>5. read \in Seq(Commits) /\ Len(read) = Len(cs)
  <2>1. ASSUME NEW i \in DOMAIN cs
        PROVE  [cs[i] EXCEPT !.unread = @ /\ i \notin ReadNow] \in Commits
    <3> DEFINE unread == cs[i].unread /\ i \notin ReadNow
    <3>1. cs[i] \in Commits
      BY <1>2
    <3>2. unread \in BOOLEAN
      BY Zenon
    <3>3. 0 \in 0..Balance.debtMax /\ TRUE \in BOOLEAN
      BY Numbers
    <3> HIDE DEF unread
    <3>4. [cs[i] EXCEPT !.unread = unread] \in Commits
      BY <3>1, <3>2, <3>3, Edited
    <3> QED  BY <3>4 DEF unread
  <2>2. \A i \in DOMAIN cs : read[i] \in Commits
    BY <2>1
  <2>3. DOMAIN read = DOMAIN cs /\ read = [i \in DOMAIN read |-> read[i]]
    OBVIOUS
  <2> HIDE DEF read, cs
  <2> QED  BY <1>2, <2>2, <2>3, Remade
<1> HIDE DEF read
<1>6. Noted(read) \in Seq(Commits) /\ Len(Noted(read)) <= MaxCommits
  <2>1. Noted(read) \in Seq(Commits) /\ Len(Noted(read)) <= Len(read)
    BY <1>5, NotedAreCommits
  <2>2. Len(Noted(read)) \in Nat
    BY <2>1
  <2> HIDE DEF cs
  <2> QED  BY <1>2, <1>5, <2>1, <2>2, Numbers
<1>7. HandOK(hand') /\ hand' # NoTicket
  <2>1. 0 \in Nat
    OBVIOUS
  <2> QED  BY <1>1, <1>2, <1>3, <1>6, <2>1, HandKept
<1>8. player' \in Players /\ player'.streak = player.streak
  <2>1. Balance.review \in Int
    BY Numbers
  <2> QED  BY <1>1, <1>2, <2>1, Gauged, ShapeIs
<1>9. debt' \in 0..Balance.debtMax
  <2>1. Cardinality(ReadNow) \in Nat
    <3>1. IsFiniteSet(1..Len(cs))
      BY <1>2, FS_Interval
    <3>2. ReadNow \subseteq 1..Len(cs)
      BY <1>2 DEF ReadNow, Unread
    <3>3. IsFiniteSet(ReadNow)
      BY <3>1, <3>2, FS_Subset
    <3> QED  BY <3>3, FS_CardinalityType
  <2>2. Balance.reviewRepay \in Nat
    BY Numbers
  <2>3. \A a \in Nat, b \in Nat : a * b \in Int
    OBVIOUS
  <2>4. Cardinality(ReadNow) * Balance.reviewRepay \in Int
    BY <2>1, <2>2, <2>3
  <2>5. \A d \in Int : debt - d \in Int
    BY <1>2, ShapeIs
  <2>6. debt - Cardinality(ReadNow) * Balance.reviewRepay \in Int
    BY <2>4, <2>5
  <2> QED  BY <1>1, <2>6, Owed
<1>10. Shape'
  BY <1>1, <1>2, <1>7, <1>8, <1>9 DEF Shape, BoardOK, Played
<1> QED  BY <1>1, <1>4, <1>8, <1>10, Plays

LEMMA RestKeeps ==
  ASSUME ForecastInv, Rest
  PROVE  ForecastInv'
<1>1. /\ step = "prompt" /\ phase = "choose" /\ player' = Gain(player, RestRegen)
      /\ Played("rest", "none", "plain", TRUE, TRUE)
      /\ UNCHANGED <<debt, hand, board, turn, phase>>
  BY DEF Rest, Asked
<1>2. Shape
  BY DEF ForecastInv
<1>3. player' \in Players /\ player'.streak = player.streak
  <2>1. RestRegen \in Int
    BY <1>2, ShapeIs, Burdens
  <2> QED  BY <1>1, <1>2, <2>1, Gauged, ShapeIs
<1>4. Shape'
  BY <1>1, <1>2, <1>3 DEF Shape, HandOK, BoardOK, Played
<1>5. turn < Turns
  BY <1>1, InTheBox
<1> QED  BY <1>1, <1>3, <1>4, <1>5, Plays

\* What you have set aside, the ticket in hand among it.
LEMMA PutDownIsSound ==
  ASSUME HandOK(hand), BoardOK(board), MayPutDown
  PROVE  /\ PutDown \in [Yours -> Nat] /\ \A k \in Yours : PutDown[k] <= MaxOpen[k]
         /\ \A k \in Yours : PutDown[k] = Others[k] + (IF k = hand.kind THEN 1 ELSE 0)
<1>1. \A k \in Yours : PutDown[k] = Others[k] + (IF k = hand.kind THEN 1 ELSE 0)
  BY DEF PutDown
<1>2. PutDown \in [Yours -> Nat]
  BY BoardIs DEF PutDown
<1>3. ASSUME NEW k \in Yours PROVE PutDown[k] <= MaxOpen[k]
  <2>1. CASE k = hand.kind
    <3>1. hand # NoTicket
      BY <2>1, Blank DEF Yours
    <3> QED  BY <1>1, <2>1, <3>1, BoardIs, Numbers DEF MayPutDown
  <2>2. CASE k # hand.kind
    BY <1>1, <2>2, BoardIs
  <2> QED  BY <2>1, <2>2
<1> QED  BY <1>1, <1>2, <1>3

LEMMA StartKeeps ==
  ASSUME ForecastInv, Start
  PROVE  ForecastInv'
<1>1. /\ step = "prompt" /\ phase = "choose" /\ Waiting > 0 /\ MayPutDown
      /\ board' = <<PutDown, Team, Waiting - 1>> /\ hand' \in Fresh("feature")
      /\ Played("start", "none", "plain", TRUE, FALSE)
      /\ UNCHANGED <<player, debt, turn, phase>>
  BY DEF Start, Asked
<1>2. Shape /\ HandOK(hand) /\ BoardOK(board) /\ "feature" \in Yours
  BY ShapeIs DEF ForecastInv, Yours
<1>3. /\ PutDown \in [Yours -> Nat] /\ \A k \in Yours : PutDown[k] <= MaxOpen[k]
      /\ \A k \in Yours : PutDown[k] = Others[k] + (IF k = hand.kind THEN 1 ELSE 0)
  BY <1>1, <1>2, PutDownIsSound
<1>4. BoardOK(board') /\ HandOK(hand') /\ hand' # NoTicket
  <2>1. Team \in 0..MaxWaiting /\ Waiting - 1 \in 0..MaxWaiting
    BY <1>1, <1>2, BoardIs, Numbers
  <2> QED  BY <1>1, <1>2, <1>3, <2>1, BoardOf, Blank
<1>5. Shape'
  BY <1>1, <1>2, <1>4 DEF Shape, Played
<1>6. turn < Turns
  BY <1>1, InTheBox
<1> QED  BY <1>1, <1>5, <1>6, Plays

LEMMA CheckoutKeeps ==
  ASSUME ForecastInv, NEW kind \in Yours, Checkout(kind)
  PROVE  ForecastInv'
<1>1. /\ step = "prompt" /\ phase = "choose" /\ hand # NoTicket /\ hand.kind # kind
      /\ Others[kind] > 0 /\ MayPutDown
      /\ board' = <<[PutDown EXCEPT ![kind] = PutDown[kind] - 1], Team, Waiting>>
      /\ hand' \in Fresh(kind)
      /\ Played("checkout", "none", "plain", TRUE, FALSE)
      /\ UNCHANGED <<player, debt, turn, phase>>
  BY DEF Checkout, Asked
<1>2. Shape /\ HandOK(hand) /\ BoardOK(board)
  BY ShapeIs DEF ForecastInv
<1>3. /\ PutDown \in [Yours -> Nat] /\ \A k \in Yours : PutDown[k] <= MaxOpen[k]
      /\ \A k \in Yours : PutDown[k] = Others[k] + (IF k = hand.kind THEN 1 ELSE 0)
  BY <1>1, <1>2, PutDownIsSound
<1> DEFINE n == PutDown[kind] - 1
           mine == [PutDown EXCEPT ![kind] = n]
<1>4. n \in Nat /\ n <= MaxOpen[kind] /\ n = Others[kind] - 1
  BY <1>1, <1>2, <1>3, BoardIs, Numbers
<1> HIDE DEF n
<1>5. /\ mine \in [Yours -> Nat] /\ \A k \in Yours : mine[k] <= MaxOpen[k]
      /\ \A k \in Yours : mine[k] = IF k = kind THEN n ELSE PutDown[k]
  BY <1>3, <1>4, Counted
<1> HIDE DEF mine
<1>6. board' = <<mine, Team, Waiting>>
  BY <1>1 DEF mine, n
<1>7. BoardOK(board') /\ HandOK(hand') /\ hand' # NoTicket
  <2>1. Team \in 0..MaxWaiting /\ Waiting \in 0..MaxWaiting
    BY <1>2, BoardIs
  <2> QED  BY <1>1, <1>5, <1>6, <2>1, BoardOf, Blank
<1>8. Shape'
  BY <1>1, <1>2, <1>7 DEF Shape, Played
<1>9. turn < Turns
  BY <1>1, InTheBox
<1> QED  BY <1>1, <1>8, <1>9, Plays

LEMMA SubmitKeeps ==
  ASSUME ForecastInv, NEW caught \in SUBSET Unread(hand), Submit(caught)
  PROVE  ForecastInv'
<1> DEFINE cs == hand.commits
           marked == [i \in DOMAIN cs |-> [cs[i] EXCEPT !.unread = FALSE,
                                                        !.bugged = @ \/ i \in caught]]
           rework == hand.rework + Cardinality(caught) * Balance.rework
<1>1. /\ step = "prompt" /\ phase = "choose" /\ hand # NoTicket /\ IsReady(hand)
      /\ Played("submit", "none", "plain", TRUE, FALSE)
      /\ UNCHANGED <<player, debt, turn>>
  BY DEF Submit, Asked
<1>2. \/ caught = {} /\ phase' = "accepted" /\ UNCHANGED <<hand, board>>
      \/ /\ phase' = "rejected" /\ rework <= MaxRework
         /\ hand' = [hand EXCEPT !.rework = rework, !.commits = Noted(marked)]
         /\ Waiting > 0 => Others.feature < MaxOpen.feature
         /\ board' = IF Waiting = 0 THEN board
                     ELSE <<[Others EXCEPT !.feature = @ + 1], Team, Waiting - 1>>
  BY Zenon DEF Submit
<1>3. Shape /\ HandOK(hand) /\ BoardOK(board) /\ "feature" \in Yours
  BY ShapeIs DEF ForecastInv, Yours
<1>4. turn < Turns
  BY <1>1, InTheBox
<1>5. CASE caught = {} /\ phase' = "accepted" /\ UNCHANGED <<hand, board>>
  <2>1. Shape'
    BY <1>1, <1>3, <1>5 DEF Shape, HandOK, BoardOK, Played
  <2> QED  BY <1>1, <1>4, <1>5, <2>1, Plays
<1>6. CASE /\ phase' = "rejected" /\ rework <= MaxRework
           /\ hand' = [hand EXCEPT !.rework = rework, !.commits = Noted(marked)]
           /\ Waiting > 0 => Others.feature < MaxOpen.feature
           /\ board' = IF Waiting = 0 THEN board
                       ELSE <<[Others EXCEPT !.feature = @ + 1], Team, Waiting - 1>>
  <2>1. cs \in Seq(Commits) /\ Len(cs) <= MaxCommits /\ Len(cs) \in Nat /\ DOMAIN cs = 1..Len(cs)
    BY <1>3, HandIs
  <2>2. marked \in Seq(Commits) /\ Len(marked) = Len(cs)
    <3>1. ASSUME NEW i \in DOMAIN cs
          PROVE  [cs[i] EXCEPT !.unread = FALSE, !.bugged = @ \/ i \in caught] \in Commits
      <4> DEFINE bugged == cs[i].bugged \/ i \in caught
      <4>1. cs[i] \in Commits
        BY <2>1
      <4>2. bugged \in BOOLEAN
        BY Zenon
      <4>3. 0 \in 0..Balance.debtMax /\ FALSE \in BOOLEAN
        BY Numbers
      <4> HIDE DEF bugged
      <4>4. [cs[i] EXCEPT !.unread = FALSE, !.bugged = bugged] \in Commits
        BY <4>1, <4>2, <4>3, Edited
      <4> QED  BY <4>4 DEF bugged
    <3>2. \A i \in DOMAIN cs : marked[i] \in Commits
      BY <3>1
    <3>3. DOMAIN marked = DOMAIN cs /\ marked = [i \in DOMAIN marked |-> marked[i]]
      OBVIOUS
    <3> HIDE DEF marked, cs
    <3> QED  BY <2>1, <3>2, <3>3, Remade
  <2> HIDE DEF marked
  <2>3. Noted(marked) \in Seq(Commits) /\ Len(Noted(marked)) <= MaxCommits
    <3>1. Noted(marked) \in Seq(Commits) /\ Len(Noted(marked)) <= Len(marked)
      BY <2>2, NotedAreCommits
    <3>2. Len(Noted(marked)) \in Nat
      BY <3>1
    <3> HIDE DEF cs
    <3> QED  BY <2>1, <2>2, <3>1, <3>2, Numbers
  <2>4. rework \in 0..MaxRework
    <3>1. Cardinality(caught) \in Nat
      <4>1. IsFiniteSet(1..Len(cs))
        BY <2>1, FS_Interval
      <4>2. caught \subseteq 1..Len(cs)
        BY <2>1 DEF Unread
      <4>3. IsFiniteSet(caught)
        BY <4>1, <4>2, FS_Subset
      <4> QED  BY <4>3, FS_CardinalityType
    <3>2. Balance.rework \in Nat
      BY Numbers
    <3>3. \A a \in Nat, b \in Nat : a * b \in Nat
      OBVIOUS
    <3>4. Cardinality(caught) * Balance.rework \in Nat
      BY <3>1, <3>2, <3>3
    <3>5. hand.rework \in Nat
      BY <1>3, HandIs
    <3>6. \A a \in Nat, b \in Nat : a + b \in Nat
      OBVIOUS
    <3>7. rework \in Nat
      BY <3>4, <3>5, <3>6
    <3> HIDE DEF rework
    <3> QED  BY <1>6, <3>7, Numbers
  <2> HIDE DEF rework
  <2>5. HandOK(hand') /\ hand' # NoTicket
    BY <1>1, <1>3, <1>6, <2>3, <2>4, HandRefused
  <2>6. BoardOK(board')
    <3>1. CASE Waiting = 0
      BY <1>3, <1>6, <3>1 DEF BoardOK
    <3>2. CASE Waiting # 0
      <4> DEFINE n == Others.feature + 1
      <4>1. board' = <<[Others EXCEPT ![("feature")] = n], Team, Waiting - 1>>
        BY <1>6, <3>2
      <4>2. n \in Nat /\ n <= MaxOpen.feature
        BY <1>3, <1>6, <3>2, BoardIs, Numbers
      <4> HIDE DEF n
      <4>3. Team \in 0..MaxWaiting /\ Waiting - 1 \in 0..MaxWaiting
        BY <1>3, <3>2, BoardIs, Numbers
      <4>4. /\ [Others EXCEPT ![("feature")] = n] \in [Yours -> Nat]
            /\ \A k \in Yours : [Others EXCEPT ![("feature")] = n][k] <= MaxOpen[k]
        BY <1>3, <4>2, BoardIs, Counted
      <4> QED  BY <4>1, <4>3, <4>4, BoardOf
    <3> QED  BY <3>1, <3>2
  <2>7. Shape'
    BY <1>1, <1>3, <1>6, <2>5, <2>6 DEF Shape, Played
  <2> QED  BY <1>1, <1>4, <1>6, <2>7, Plays
<1> QED  BY <1>2, <1>5, <1>6

LEMMA FollowupKeeps ==
  ASSUME ForecastInv, Followup
  PROVE  ForecastInv'
<1> DEFINE bugs == Cardinality(Bugged(hand))
           filled == Least(hand.filled, Balance.size[hand.kind])
<1>1. /\ step = "prompt" /\ phase = "rejected" /\ Waiting + bugs <= MaxWaiting
      /\ phase' = "accepted" /\ board' = <<Others, Team, Waiting + bugs>>
      /\ hand' = [hand EXCEPT !.rework = 0, !.filled = filled]
      /\ Played("followup", "none", "plain", TRUE, FALSE)
      /\ UNCHANGED <<player, debt, turn>>
  BY DEF Followup, Asked
<1>2. Shape /\ HandOK(hand) /\ BoardOK(board) /\ hand # NoTicket
  BY <1>1, ShapeIs DEF ForecastInv, Shape
<1>3. filled \in Nat /\ hand.commits \in Seq(Commits) /\ Len(hand.commits) \in Nat
      /\ 0 \in 0..MaxRework
  <2>1. hand.kind \in Yours /\ hand.filled \in Nat /\ hand.commits \in Seq(Commits)
    BY <1>2, HandIs
  <2>2. Balance.size[hand.kind] \in Nat
    BY <2>1, Numbers
  <2>3. filled \in Nat
    <3>1. hand.filled \in Int /\ Balance.size[hand.kind] \in Int
      BY <2>1, <2>2
    <3>2. filled = IF hand.filled <= Balance.size[hand.kind] THEN hand.filled
                   ELSE Balance.size[hand.kind]
      BY <3>1, LeastOfTwo
    <3> HIDE DEF filled
    <3> QED  BY <2>1, <2>2, <3>2
  <2>4. Len(hand.commits) \in Nat
    BY <2>1
  <2>5. 0 \in 0..MaxRework
    BY Numbers
  <2> QED  BY <2>1, <2>3, <2>4, <2>5
<1>4. bugs \in Nat
  <2>1. IsFiniteSet(1..Len(hand.commits))
    BY <1>3, FS_Interval
  <2>2. Bugged(hand) \subseteq 1..Len(hand.commits)
    BY <1>3 DEF Bugged
  <2>3. IsFiniteSet(Bugged(hand))
    BY <2>1, <2>2, FS_Subset
  <2> QED  BY <2>3, FS_CardinalityType
<1> HIDE DEF bugs, filled
<1>5. HandOK(hand') /\ hand' # NoTicket
  BY <1>1, <1>2, <1>3, HandRefused
<1>6. BoardOK(board')
  <2>1. Team \in 0..MaxWaiting /\ Waiting + bugs \in 0..MaxWaiting
    BY <1>1, <1>2, <1>4, BoardIs, Numbers
  <2> QED  BY <1>1, <1>2, <2>1, BoardIs, BoardOf
<1>7. Shape'
  BY <1>1, <1>2, <1>5, <1>6 DEF Shape, Played
<1>8. turn < Turns
  BY <1>1, InTheBox
<1> QED  BY <1>1, <1>7, <1>8, Plays

\* A ticket that lands, whatever landing it cost.
LEMMA LandKeeps ==
  ASSUME ForecastInv, step = "prompt", phase \in {"accepted", "conflict"},
         NEW p \in Players, NEW d \in 0..Balance.debtMax, NEW noRegen, NEW skill, NEW dull,
         NEW type, p.streak = player.streak, Land(p, d, noRegen, skill),
         Played(type, "none", "plain", dull, TRUE), turn' = turn
  PROVE  ForecastInv'
<1>1. Shape /\ HandOK(hand) /\ BoardOK(board) /\ turn < Turns
  BY InTheBox, ShapeIs DEF ForecastInv
<1>2. /\ player' \in Players /\ player'.streak = player.streak /\ debt' \in 0..Balance.debtMax
      /\ HandOK(hand') /\ BoardOK(board') /\ phase' = "choose"
  BY <1>1, LandIsSound
<1>3. step' = "turn"
  BY DEF Played
<1>4. Shape'
  BY <1>1, <1>2, <1>3 DEF Shape
<1> QED  BY <1>1, <1>2, <1>4, Plays

LEMMA MergeKeeps ==
  ASSUME ForecastInv, Merge
  PROVE  ForecastInv'
<1>1. step = "prompt" /\ phase = "accepted" /\ turn' = turn
  BY DEF Merge, Asked
<1>2. Shape /\ HandOK(hand) /\ BoardOK(board) /\ hand # NoTicket /\ player \in Players
      /\ debt \in 0..Balance.debtMax /\ turn < Turns
  BY <1>1, ShapeIs, InTheBox DEF ForecastInv, Shape
<1>4. CASE Land(player, debt, FALSE, FALSE) /\ Played("merge", "none", "plain", TRUE, TRUE)
  BY <1>1, <1>2, <1>4, LandKeeps
<1>5. ASSUME NEW e \in Incidents, NEW skill \in Taught,
             Land(Spend(player, e.energy), InDebt(debt + e.debt), e.noRegen, skill),
             Played("merge", "none", "plain", FALSE, TRUE)
      PROVE  ForecastInv'
  <2>1. e.energy \in Int /\ e.debt \in Int
    BY DEF Incidents
  <2>2. Spend(player, e.energy) \in Players /\ Spend(player, e.energy).streak = player.streak
    BY <1>2, <2>1, Gauged
  <2>3. InDebt(debt + e.debt) \in 0..Balance.debtMax
    <3>1. debt + e.debt \in Int
      BY <1>2, <2>1, Numbers
    <3> QED  BY <3>1, Owed
  <2> QED  BY <1>1, <1>5, <2>2, <2>3, LandKeeps
<1>6. CASE /\ phase' = "conflict"
           /\ Played("merge", "none", "plain", FALSE, FALSE)
           /\ UNCHANGED <<player, debt, hand, board>>
  <2>1. Shape'
    BY <1>1, <1>2, <1>6 DEF Shape, HandOK, BoardOK, Played
  <2> QED  BY <1>1, <1>2, <1>6, <2>1, Plays
<1> QED  BY <1>4, <1>5, <1>6 DEF Merge

LEMMA ResolveByHandKeeps ==
  ASSUME ForecastInv, ResolveByHand
  PROVE  ForecastInv'
<1>1. step = "prompt" /\ phase = "conflict" /\ turn' = turn
  BY DEF ResolveByHand, Asked
<1>2. Shape /\ HandOK(hand) /\ BoardOK(board) /\ hand # NoTicket /\ player \in Players
      /\ debt \in 0..Balance.debtMax /\ turn < Turns
  BY <1>1, ShapeIs, InTheBox DEF ForecastInv, Shape
<1> DEFINE paid == Spend(player, Balance.conflict)
<1>3. paid \in Players /\ paid.streak = player.streak
  <2>1. Balance.conflict \in Int
    BY Numbers
  <2> QED  BY <1>2, <2>1, Gauged
<1> HIDE DEF paid
<1>4. CASE /\ player' = paid
           /\ Played("by_hand", "none", "plain", TRUE, TRUE)
           /\ UNCHANGED <<debt, hand, board, phase>>
  <2>1. Shape'
    BY <1>1, <1>2, <1>3, <1>4 DEF Shape, HandOK, BoardOK, Played
  <2> QED  BY <1>1, <1>2, <1>3, <1>4, <2>1, Plays
<1>5. ASSUME NEW skill \in Taught, Land(paid, debt, FALSE, skill),
             Played("by_hand", "none", "plain", FALSE, TRUE)
      PROVE  ForecastInv'
  BY <1>1, <1>2, <1>3, <1>5, LandKeeps
<1> QED  BY <1>4, <1>5 DEF ResolveByHand, paid

LEMMA ResolveByMachineKeeps ==
  ASSUME ForecastInv, ResolveByMachine
  PROVE  ForecastInv'
<1>1. /\ step = "prompt" /\ phase = "conflict" /\ turn' = turn
      /\ Played("by_machine", "none", "plain", FALSE, TRUE)
  BY DEF ResolveByMachine, Asked
<1>2. PICK skill \in Taught : Land(player, InDebt(debt + Balance.perConflict), FALSE, skill)
  BY DEF ResolveByMachine
<1>3. InDebt(debt + Balance.perConflict) \in 0..Balance.debtMax /\ player \in Players
  <2>1. debt + Balance.perConflict \in Int /\ player \in Players
    BY ShapeIs, Numbers DEF ForecastInv
  <2> QED  BY <2>1, Owed
<1> QED  BY <1>1, <1>2, <1>3, LandKeeps

LEMMA AcquireKeeps ==
  ASSUME ForecastInv, Acquire
  PROVE  ForecastInv'
<1>1. /\ step = "prompt" /\ phase = "choose"
      /\ debt' = InDebt(debt + Balance.perTakeover)
      /\ Forced("hotfix") \/ UNCHANGED <<hand, board>>
      /\ Played("acquire", "none", "plain", FALSE, FALSE)
      /\ UNCHANGED <<player, turn, phase>>
  BY DEF Acquire, Asked
<1>2. Shape /\ HandOK(hand) /\ BoardOK(board) /\ "hotfix" \in Yours /\ turn < Turns
  BY <1>1, ShapeIs, InTheBox DEF ForecastInv, Yours
<1>3. debt' \in 0..Balance.debtMax
  <2>1. debt + Balance.perTakeover \in Int
    BY <1>2, ShapeIs, Numbers
  <2> QED  BY <1>1, <2>1, Owed
<1>4. CASE Forced("hotfix")
  <2>1. HandOK(hand') /\ BoardOK(board') /\ hand' # NoTicket
    BY <1>2, <1>4, ForcedIsSound
  <2>2. Shape'
    BY <1>1, <1>2, <1>3, <2>1 DEF Shape, Played
  <2> QED  BY <1>1, <1>2, <2>2, Plays
<1>5. CASE UNCHANGED <<hand, board>>
  <2>1. Shape'
    BY <1>1, <1>2, <1>3, <1>5 DEF Shape, HandOK, BoardOK, Played
  <2> QED  BY <1>1, <1>2, <2>1, Plays
<1> QED  BY <1>1, <1>4, <1>5

LEMMA PlaceKeeps ==
  ASSUME ForecastInv, Place
  PROVE  ForecastInv'
<1>1. /\ step = "prompt" /\ phase = "choose"
      /\ \/ player' = Raised(player) /\ UNCHANGED hand
         \/ hand' = [hand EXCEPT !.migration = FALSE] /\ UNCHANGED player
      /\ Played("place", "none", "plain", FALSE, FALSE)
      /\ UNCHANGED <<debt, board, turn, phase>>
  BY DEF Place, Asked
<1>2. Shape /\ HandOK(hand) /\ player \in Players /\ turn < Turns
  BY <1>1, ShapeIs, InTheBox DEF ForecastInv
<1>3. player' \in Players /\ player'.streak = player.streak
  BY <1>1, <1>2, RaisedIs
<1>4. HandOK([hand EXCEPT !.migration = FALSE])
  <2> DEFINE none == FALSE
             h == [kind |-> hand.kind, migration |-> none, filled |-> hand.filled,
                   rework |-> hand.rework, commits |-> hand.commits]
  <2>1. hand = [kind |-> hand.kind, migration |-> hand.migration, filled |-> hand.filled,
                rework |-> hand.rework, commits |-> hand.commits]
    BY <1>2, HandIs
  <2> HIDE DEF none
  <2>2. [hand EXCEPT !.migration = none] = h
    BY <2>1
  <2>3. none \in BOOLEAN /\ ~none
    BY DEF none
  <2>4. CASE hand = NoTicket
    <3>1. hand.migration = none
      BY <2>4 DEF NoTicket, none
    <3>2. h = hand
      BY <2>1, <3>1
    <3> QED  BY <1>2, <2>2, <3>2 DEF none
  <2>5. CASE hand # NoTicket
    <3>1. /\ hand.kind \in Yours /\ hand.filled \in Nat /\ hand.rework \in 0..MaxRework
          /\ hand.commits \in Seq(Commits) /\ Len(hand.commits) <= MaxCommits
      BY <1>2, <2>5, HandIs
    <3>2. HandOK(h)
      BY <2>3, <3>1, HandOf
    <3> QED  BY <2>2, <3>2 DEF none
  <2> QED  BY <2>4, <2>5
<1>5. HandOK(hand')
  <2>1. hand' = hand \/ hand' = [hand EXCEPT !.migration = FALSE]
    BY <1>1
  <2> QED  BY <1>2, <1>4, <2>1
<1>6. Shape'
  BY <1>1, <1>2, <1>3, <1>5 DEF Shape, BoardOK, Played
<1> QED  BY <1>1, <1>2, <1>3, <1>6, Plays

LEMMA ChooseRelicKeeps ==
  ASSUME ForecastInv, ChooseRelic
  PROVE  ForecastInv'
<1>1. /\ step = "prompt" /\ phase = "relic"
      /\ \/ UNCHANGED <<player, debt>>
         \/ player' = [player EXCEPT !.energy = player.max] /\ UNCHANGED debt
         \/ player' = Raised(player) /\ UNCHANGED debt
         \/ debt' = 0 /\ UNCHANGED player
      /\ turn' = 0 /\ phase' = "choose"
      /\ Played("relic", "none", "plain", FALSE, FALSE)
  BY DEF ChooseRelic, Asked
<1>2. PICK pulled \in 0..Waiting, stale \in 0..Waiting, fresh \in 1..Arrivals :
        LET kept == Waiting - pulled - stale
            first == IF hand = NoTicket /\ stale > 0 THEN 1 ELSE 0
        IN /\ kept >= 0 /\ kept + fresh <= MaxWaiting /\ Team + pulled <= MaxWaiting
           /\ Others.feature + stale - first <= MaxOpen.feature
           /\ hand' \in IF first = 1 THEN Fresh("feature") ELSE {hand}
           /\ board' = <<[Others EXCEPT !.feature = @ + stale - first],
                         Team + pulled, kept + fresh>>
  BY DEF ChooseRelic
<1> DEFINE kept == Waiting - pulled - stale
           first == IF hand = NoTicket /\ stale > 0 THEN 1 ELSE 0
           n == Others.feature + stale - first
           mine == [Others EXCEPT ![("feature")] = n]
<1>3. /\ kept >= 0 /\ kept + fresh <= MaxWaiting /\ Team + pulled <= MaxWaiting
      /\ n <= MaxOpen.feature
      /\ hand' \in IF first = 1 THEN Fresh("feature") ELSE {hand}
      /\ board' = <<mine, Team + pulled, kept + fresh>>
  BY <1>2
<1>4. /\ Shape /\ HandOK(hand) /\ BoardOK(board) /\ "feature" \in Yours
      /\ player \in Players
  BY <1>1, ShapeIs, Numbers DEF ForecastInv, Yours
<1>5. /\ Others.feature \in Nat /\ Team \in Nat /\ Waiting \in Nat /\ MaxWaiting \in Nat
      /\ pulled \in Nat /\ stale \in Nat /\ fresh \in Nat /\ fresh <= Arrivals
      /\ Turns \in Nat /\ Turns > 0
  BY <1>4, BoardIs, Numbers
<1>6. first \in {0, 1} /\ (first = 1 => hand = NoTicket /\ stale > 0)
  BY <1>5
<1> HIDE DEF first
<1>7. n \in Nat
  BY <1>5, <1>6
<1>8. Team + pulled \in 0..MaxWaiting /\ kept + fresh \in 0..MaxWaiting
  BY <1>3, <1>5
<1> HIDE DEF n, kept
<1>9. /\ mine \in [Yours -> Nat] /\ \A k \in Yours : mine[k] <= MaxOpen[k]
      /\ \A k \in Yours : mine[k] = IF k = "feature" THEN n ELSE Others[k]
  BY <1>3, <1>4, <1>7, BoardIs, Counted
<1> HIDE DEF mine
<1>10. BoardOK(board') /\ HandOK(hand')
  BY <1>3, <1>4, <1>8, <1>9, BoardOf, Blank
<1>11. player' \in Players /\ player'.streak = player.streak
  <2>1. CASE player' = player
    BY <1>4, <2>1
  <2>2. CASE player' = [player EXCEPT !.energy = player.max]
    <3>1. player.max \in 0..player.max
      BY <1>4, PlayerIs
    <3> QED  BY <1>4, <2>2, <3>1, EnergyIs
  <2>3. CASE player' = Raised(player)
    BY <1>4, <2>3, RaisedIs
  <2> QED  BY <1>1, <2>1, <2>2, <2>3
<1>12. debt' \in 0..Balance.debtMax
  BY <1>1, <1>4, ShapeIs, Numbers
<1>13. step' = "settle"
  BY <1>1 DEF Played
<1>14. Shape'
  BY <1>1, <1>5, <1>10, <1>11, <1>12, <1>13 DEF Shape
<1>15. turn' < Turns
  BY <1>1, <1>5
<1> QED  BY <1>1, <1>11, <1>14, <1>15, Plays

-----------------------------------------------------------------------------
(* The engine's steps *)

LEMMA SinceIs ==
  ASSUME NEW spared \in BOOLEAN
  PROVE  /\ Since(spared).low = act.low /\ Since(spared).spared = (act.spared \/ spared)
         /\ Since(spared).dull = FALSE
<1> DEFINE kept == act.spared \/ spared
<1>1. Since(spared) = [NoAct EXCEPT !.low = act.low, !.spared = kept]
  BY DEF Since
<1> HIDE DEF kept
<1>2. /\ Since(spared).low = act.low /\ Since(spared).spared = kept
      /\ Since(spared).dull = FALSE
  BY <1>1 DEF NoAct
<1> QED  BY <1>2 DEF kept

LEMMA EndTurnKeeps ==
  ASSUME ForecastInv, EndTurn
  PROVE  ForecastInv'
<1> DEFINE explodes == debt >= Balance.explodeAt /\ ~OpenRefactor
           mine == IF explodes /\ hand # NoTicket THEN [Others EXCEPT !["refactor"] = 1] ELSE Others
<1>1. /\ step = "turn" /\ step' = "calendar" /\ turn' = turn + 1
      /\ hand' = IF explodes /\ hand = NoTicket THEN Unwritten("refactor") ELSE hand
      /\ act' = Since(FALSE)
      /\ UNCHANGED <<player, debt, phase>>
  BY DEF EndTurn
<1>a. PICK pulled \in 0..Waiting : \E left \in 0..Least(Team + pulled, MaxWaiting) :
        board' = <<mine, left, Waiting - pulled>>
  BY DEF EndTurn
<1>2. PICK left \in 0..Least(Team + pulled, MaxWaiting) : board' = <<mine, left, Waiting - pulled>>
  BY <1>a
<1>3. Shape /\ HandOK(hand) /\ BoardOK(board) /\ "refactor" \in Yours /\ turn \in Nat
      /\ turn < Turns /\ Turns \in Nat /\ phase \notin {"relic", "over"}
  BY <1>1, ShapeIs, Numbers DEF ForecastInv, Boxed, Yours
<1>4. mine \in [Yours -> Nat] /\ \A k \in Yours : mine[k] <= MaxOpen[k]
  <2>1. 1 \in Nat /\ 1 <= MaxOpen["refactor"]
    BY <1>3, Numbers
  <2>2. /\ [Others EXCEPT !["refactor"] = 1] \in [Yours -> Nat]
        /\ \A k \in Yours : [Others EXCEPT !["refactor"] = 1][k] <= MaxOpen[k]
    BY <1>3, <2>1, BoardIs, Counted
  <2> HIDE DEF explodes
  <2> QED  BY <1>3, <2>2, BoardIs
<1> HIDE DEF mine, explodes
<1>5. HandOK(hand') /\ (hand # NoTicket => hand' # NoTicket)
  BY <1>1, <1>3, Blank
<1>6. left \in 0..MaxWaiting /\ Waiting - pulled \in 0..MaxWaiting
  <2>1. /\ Team \in Nat /\ Waiting \in Nat /\ Waiting <= MaxWaiting /\ MaxWaiting \in Nat
        /\ pulled \in Nat /\ pulled <= Waiting
    BY <1>3, BoardIs, Numbers
  <2>2. Team + pulled \in Int
    BY <2>1
  <2>3. Least(Team + pulled, MaxWaiting) \in Int /\ Least(Team + pulled, MaxWaiting) <= MaxWaiting
    BY <2>1, <2>2, LeastOfTwo
  <2>4. left \in Nat /\ left <= Least(Team + pulled, MaxWaiting)
    BY <2>3
  <2> QED  BY <2>1, <2>3, <2>4
<1>7. BoardOK(board')
  BY <1>2, <1>4, <1>6, BoardOf
<1>8. Shape'
  <2>1. turn + 1 \in 0..Turns
    BY <1>3
  <2> QED  BY <1>1, <1>3, <1>5, <1>7, <2>1 DEF Shape
<1>9. Boxed'
  BY <1>1, <1>3 DEF Boxed
<1>10. act'.low = act.low /\ (act.spared => act'.spared)
  BY <1>1, SinceIs
<1>11. Streaks'
  BY <1>1, <1>3, <1>10 DEF ForecastInv, Streaks
<1>12. BurnoutIsSignposted'
  BY <1>1, <1>3 DEF BurnoutIsSignposted
<1> QED  BY <1>8, <1>9, <1>11, <1>12 DEF ForecastInv

LEMMA ShippedIsSound ==
  ASSUME HandOK(hand), BoardOK(board), Shipped
  PROVE  /\ HandOK(hand') /\ BoardOK(board')
         /\ hand # NoTicket => hand' = hand
<1>1. "hotfix" \in Yours
  BY DEF Yours
<1> QED  BY <1>1, ForcedIsSound, HandedBackIsSound DEF Shipped

\* A release leaves energy, so a run only ends on a turn that ended at zero
\* behind another, and that one was seen, or spared by an early release.
LEMMA CalendarKeeps ==
  ASSUME ForecastInv, Calendar
  PROVE  ForecastInv'
<1> DEFINE ended == turn >= Turns
           left == IF ended THEN Rested(player) ELSE player
           streak == StreakAfter(left)
           burned == left.energy = 0 /\ streak >= Balance.burnoutStreak
<1>1. /\ step = "calendar" /\ step' = "settle"
      /\ IF ended THEN Shipped
         ELSE IF turn % MonthTurns = 0 THEN HandedBack ELSE UNCHANGED <<hand, board>>
      /\ player' = [left EXCEPT !.streak = streak]
      /\ phase' = IF burned THEN "over" ELSE IF ended THEN "relic" ELSE phase
      /\ act' = IF burned THEN act ELSE NoAct
      /\ UNCHANGED <<debt, turn>>
  BY DEF Calendar
<1>2. /\ Shape /\ HandOK(hand) /\ BoardOK(board) /\ player \in Players
      /\ player.streak \in Nat /\ player.energy \in Nat
      /\ phase \notin {"relic", "over"} /\ player.streak < Balance.burnoutStreak
      /\ player.energy = 0 /\ player.streak > 0 => act.low \/ act.spared
      /\ Balance.burnoutStreak \in Nat /\ Balance.burnoutStreak > 1
      /\ turn \in Nat /\ turn <= Turns /\ Turns \in Nat
  BY <1>1, ShapeIs, Numbers DEF ForecastInv, Boxed, Streaks
<1>3. /\ Rested(player) \in Players /\ Rested(player).streak = player.streak
      /\ Rested(player).energy > 0
  BY <1>2, Weekends
<1>4. /\ left \in Players /\ left.streak = player.streak /\ left.energy \in Nat
      /\ ended => left.energy > 0
      /\ ~ended => left = player
  <2> HIDE DEF ended
  <2>1. left \in Players /\ left.streak = player.streak
    BY <1>2, <1>3
  <2>2. left.energy \in Nat
    BY <2>1, PlayerIs
  <2> QED  BY <1>3, <2>1, <2>2
<1> HIDE DEF left
<1>5. streak = IF left.energy > 0 THEN 0 ELSE player.streak + 1
  BY <1>4 DEF StreakAfter
<1> HIDE DEF streak
<1>6. streak \in 0..Balance.burnoutStreak
  BY <1>2, <1>5
<1>7. player' \in Players /\ player'.energy = left.energy /\ player'.streak = streak
  BY <1>1, <1>4, <1>6, StreakIs
<1>8. HandOK(hand') /\ BoardOK(board') /\ (hand # NoTicket => hand' = hand)
  <2>1. CASE ended
    BY <1>1, <1>2, <2>1, ShippedIsSound
  <2>2. CASE ~ended /\ turn % MonthTurns = 0
    BY <1>1, <1>2, <2>2, HandedBackIsSound
  <2>3. CASE ~ended /\ turn % MonthTurns # 0
    <3>1. UNCHANGED <<hand, board>>
      BY <1>1, <2>3
    <3> QED  BY <1>2, <3>1 DEF HandOK, BoardOK
  <2> QED  BY <2>1, <2>2, <2>3
<1>9. burned => ~ended /\ player.energy = 0 /\ (act.low \/ act.spared)
  <2> SUFFICES ASSUME burned PROVE ~ended /\ player.energy = 0 /\ (act.low \/ act.spared)
    OBVIOUS
  <2>1. ~ended /\ player.energy = 0 /\ streak = player.streak + 1
    BY <1>4, <1>5
  <2> QED  BY <1>2, <2>1
<1> HIDE DEF ended
<1>10. Shape'
  <2>1. phase' \in {"choose", "accepted", "rejected", "conflict", "relic", "over"}
    BY <1>1, <1>2 DEF Shape
  <2>2. phase' \in {"accepted", "rejected", "conflict"} => hand' # NoTicket
    BY <1>1, <1>2, <1>8 DEF Shape
  <2>3. debt' \in 0..Balance.debtMax /\ turn' \in 0..Turns
    BY <1>1, <1>2 DEF Shape
  <2> HIDE DEF burned
  <2> QED  BY <1>1, <1>7, <1>8, <2>1, <2>2, <2>3 DEF Shape
<1>11. Boxed'
  <2>1. ended \/ turn < Turns
    BY <1>2 DEF ended
  <2> QED  BY <1>1, <2>1 DEF Boxed
<1>12. Streaks'
  <2>1. phase' # "over" => player'.streak < Balance.burnoutStreak
    BY <1>1, <1>2, <1>4, <1>5, <1>7
  <2>2. player'.energy > 0 => player'.streak = 0
    BY <1>5, <1>7
  <2>3. player'.streak > 0 => player'.energy = 0
    <3>1. player'.energy \in Nat
      BY <1>7, PlayerIs
    <3> QED  BY <2>2, <3>1
  <2> QED  BY <1>1, <2>1, <2>3 DEF Streaks
<1>13. BurnoutIsSignposted'
  BY <1>1, <1>2, <1>9 DEF BurnoutIsSignposted
<1> QED  BY <1>10, <1>11, <1>12, <1>13 DEF ForecastInv

\* The release of an emptied board: rested, and nothing left on the board.
LEMMA SettleKeeps ==
  ASSUME ForecastInv, Settle
  PROVE  ForecastInv'
<1>1. step = "settle" /\ UNCHANGED <<debt, turn>>
  BY DEF Settle
<1>2. /\ Shape /\ HandOK(hand) /\ BoardOK(board) /\ player \in Players
      /\ player.energy \in Nat /\ player.streak \in Nat
      /\ phase # "over" => player.streak < Balance.burnoutStreak
      /\ phase \notin {"relic", "over"} => turn < Turns
      /\ phase = "over" => act.low \/ act.spared
      /\ phase # "over" /\ player.streak > 0 => player.energy = 0 \/ act.low \/ act.spared
  BY <1>1, ShapeIs DEF ForecastInv, Boxed, Streaks, BurnoutIsSignposted
<1>3. CASE /\ phase # "choose" \/ ~NothingToDo
           /\ step' = "prompt"
           /\ UNCHANGED <<player, hand, board, phase>>
           /\ act' = IF phase = "over" THEN act ELSE Since(FALSE)
  <2>1. Shape'
    BY <1>1, <1>2, <1>3 DEF Shape, HandOK, BoardOK
  <2>2. Boxed'
    BY <1>1, <1>2, <1>3 DEF Boxed
  <2>3. IF phase = "over" THEN act' = act
        ELSE act'.low = act.low /\ (act.spared => act'.spared)
    BY <1>3, SinceIs
  <2>4. Streaks'
    BY <1>2, <1>3, <2>3 DEF Streaks
  <2>5. NothingToDo' <=> NothingToDo
    BY <1>3 DEF NothingToDo, Others, Waiting
  <2>6. BurnoutIsSignposted'
    BY <1>1, <1>2, <1>3, <2>3, <2>5 DEF BurnoutIsSignposted
  <2> QED  BY <2>1, <2>2, <2>4, <2>6 DEF ForecastInv
<1>4. CASE /\ phase = "choose" /\ NothingToDo /\ Team > 0
           /\ player' = Gain(player, RestRegen)
           /\ step' = "turn"
           /\ UNCHANGED <<hand, board, phase>>
  <2>1. player' \in Players /\ player'.streak = player.streak /\ player'.energy > 0
    <3>1. RestRegen \in Nat /\ RestRegen > 0 /\ RestRegen \in Int
      BY <1>2, Burdens
    <3>2. /\ player' \in Players /\ player'.streak = player.streak
          /\ player'.energy = Within(player.energy + RestRegen, player.max)
      BY <1>2, <1>4, <3>1, Gauged
    <3>3. player.energy + RestRegen \in Int /\ player.energy + RestRegen > 0
      BY <1>2, <3>1
    <3>4. player.max \in Nat /\ player.max > 0
      BY <1>2, PlayerIs
    <3> QED  BY <3>2, <3>3, <3>4, Clipped
  <2>2. Shape'
    BY <1>1, <1>2, <1>4, <2>1 DEF Shape, HandOK, BoardOK
  <2>3. Boxed'
    BY <1>1, <1>2, <1>4 DEF Boxed
  <2>4. Streaks'
    <3>1. player'.energy # 0
      BY <2>1
    <3> QED  BY <1>2, <1>4, <2>1, <3>1 DEF Streaks
  <2>5. BurnoutIsSignposted'
    BY <1>4 DEF BurnoutIsSignposted
  <2> QED  BY <2>2, <2>3, <2>4, <2>5 DEF ForecastInv
<1>5. CASE /\ phase = "choose" /\ BoardIsEmpty
           /\ step' = "prompt"
           /\ player' = Rested(player)
           /\ Shipped
           /\ phase' = "relic"
           /\ act' = Since(player.streak > 0)
  <2>1. player' \in Players /\ player'.streak = player.streak
    BY <1>2, <1>5, Weekends
  <2>2. HandOK(hand') /\ BoardOK(board')
    BY <1>2, <1>5, ShippedIsSound
  <2>3. Shape'
    BY <1>1, <1>2, <1>5, <2>1, <2>2 DEF Shape
  <2>4. Boxed'
    BY <1>5 DEF Boxed
  <2>5. player.streak > 0 => act'.spared
    <3> DEFINE spared == player.streak > 0
    <3>1. spared \in BOOLEAN /\ act' = Since(spared)
      BY <1>5
    <3> HIDE DEF spared
    <3>2. act'.spared = (act.spared \/ spared)
      BY <3>1, SinceIs
    <3> QED  BY <3>2 DEF spared
  <2>6. Streaks'
    BY <1>2, <1>5, <2>1, <2>5 DEF Streaks
  <2>7. BurnoutIsSignposted'
    BY <1>5 DEF BurnoutIsSignposted
  <2> QED  BY <2>3, <2>4, <2>6, <2>7 DEF ForecastInv
<1> QED  BY <1>3, <1>4, <1>5 DEF Settle

-----------------------------------------------------------------------------
(* The theorems *)

LEMMA ForecastStarts ==
  ASSUME Init
  PROVE  ForecastInv
<1>1. /\ player = [energy |-> Balance.energyMax, max |-> Balance.energyMax, streak |-> 0,
                  docs |-> 0]
      /\ debt = 0
      /\ hand = NoTicket /\ board = <<[k \in Yours |-> 0], 0, Arrivals>> /\ turn = 0
      /\ phase = "choose" /\ step = "prompt"
  BY DEF Init
<1>2. player \in Players /\ player.streak = 0
  <2>1. /\ Balance.energyMax \in 1..MaxTank /\ Balance.energyMax \in 0..Balance.energyMax
        /\ 0 \in 0..Balance.burnoutStreak /\ 0 \in 0..MaxDocs
    BY Numbers
  <2> QED  BY <1>1, <2>1, PlayerOf
<1>3. BoardOK(board) /\ Waiting > 0
  <2>1. [k \in Yours |-> 0] \in [Yours -> Nat] /\ \A k \in Yours : [j \in Yours |-> 0][k] <= MaxOpen[k]
    BY Numbers
  <2>2. 0 \in 0..MaxWaiting /\ Arrivals \in 0..MaxWaiting /\ Arrivals > 0
    BY Numbers
  <2> QED  BY <1>1, <2>1, <2>2, BoardOf DEF Waiting
<1>4. Shape
  <2>1. 0 \in 0..Balance.debtMax /\ 0 \in 0..Turns
    BY Numbers
  <2> QED  BY <1>1, <1>2, <1>3, <2>1, Blank DEF Shape
<1>5. Boxed
  BY <1>1, Numbers DEF Boxed
<1>6. Streaks
  BY <1>1, <1>2, Numbers DEF Streaks
<1>7. BurnoutIsSignposted
  BY <1>1, <1>3 DEF BurnoutIsSignposted, NothingToDo
<1> QED  BY <1>4, <1>5, <1>6, <1>7 DEF ForecastInv

LEMMA ForecastStep ==
  ASSUME ForecastInv, [Next]_vars
  PROVE  ForecastInv'
<1>1. CASE UNCHANGED vars
  <2>1. Shape'
    BY <1>1 DEF ForecastInv, Shape, HandOK, BoardOK, vars
  <2>2. Boxed'
    BY <1>1 DEF ForecastInv, Boxed, vars
  <2>4. Streaks'
    BY <1>1 DEF ForecastInv, Streaks, vars
  <2>5. NothingToDo' <=> NothingToDo
    BY <1>1 DEF NothingToDo, Others, Waiting, vars
  <2>6. BurnoutIsSignposted'
    BY <1>1, <2>5 DEF ForecastInv, BurnoutIsSignposted, vars
  <2> QED  BY <2>1, <2>2, <2>4, <2>6 DEF ForecastInv
<1>2. ASSUME NEW mode \in {"craft", "ai"}, NEW detour \in Detours, Commit(mode, detour)
      PROVE  ForecastInv'
  <2>1. /\ step = "prompt" /\ phase = "choose" /\ hand # NoTicket /\ detour \in OffersOf(hand)
        /\ CommitAs("commit", mode, detour)
    BY <1>2 DEF Commit, Asked
  <2>2. CommitKind(hand, detour) \in Kinds
    BY <2>1, KindOfCommit, ShapeIs DEF ForecastInv
  <2> QED  BY <2>1, <2>2, CommitKeeps
<1>3. CASE Resume
  <2>1. step = "prompt" /\ phase = "rejected" /\ CommitAs("resume", "craft", "fix")
    BY <1>3 DEF Resume, Asked
  <2>2. hand # NoTicket
    BY <2>1 DEF ForecastInv, Shape
  <2>3. CommitKind(hand, "fix") \in Kinds
    BY DEF CommitKind, Kinds
  <2> QED  BY <2>1, <2>2, <2>3, CommitKeeps
<1>4. ASSUME NEW kind \in Yours, Checkout(kind) PROVE ForecastInv'
  BY <1>4, CheckoutKeeps
<1>5. ASSUME NEW caught \in SUBSET Unread(hand), Submit(caught) PROVE ForecastInv'
  BY <1>5, SubmitKeeps
<1>6. CASE Review \/ Rest \/ Start \/ Followup \/ Merge
  BY <1>6, ReviewKeeps, RestKeeps, StartKeeps, FollowupKeeps, MergeKeeps
<1>7. CASE ResolveByHand \/ ResolveByMachine \/ Acquire \/ Place \/ ChooseRelic
  BY <1>7, ResolveByHandKeeps, ResolveByMachineKeeps, AcquireKeeps, PlaceKeeps, ChooseRelicKeeps
<1>8. CASE EndTurn \/ Calendar \/ Settle
  BY <1>8, EndTurnKeeps, CalendarKeeps, SettleKeeps
<1> QED  BY <1>1, <1>2, <1>3, <1>4, <1>5, <1>6, <1>7, <1>8 DEF Next

\* The inductive invariant holds of every state a run reaches.
THEOREM ForecastHolds == Spec => []ForecastInv
<1>1. Init => ForecastInv
  BY ForecastStarts
<1>2. ForecastInv /\ [Next]_vars => ForecastInv'
  BY ForecastStep
<1> QED  BY <1>1, <1>2, PTL DEF Spec

\* A run burns out only when its player was asked something before an empty gauge
\* since the turn counted before, a rest being on offer whenever actions are
\* chosen, or when an early release spared a streak: for every balance, every
\* number of arrivals, and whatever energy comes for nothing in between.
THEOREM BurnoutHolds == Spec => []BurnoutIsSignposted
<1>1. ForecastInv => BurnoutIsSignposted
  BY DEF ForecastInv
<1> QED  BY <1>1, ForecastHolds, PTL

\* Energy, debt and the board stay within their gauges, whatever the balance.
THEOREM ForecastTypes == Spec => []TypeOK
<1>1. ASSUME ForecastInv PROVE TypeOK
  <2>1. Shape
    BY <1>1 DEF ForecastInv
  <2>2. board \in [Yours -> Nat] \X (0..MaxWaiting) \X (0..MaxWaiting)
    BY <2>1 DEF Shape, BoardOK, Boards
  <2> QED  BY <2>1, <2>2, ShapeIs, HandIs, BoardIs DEF TypeOK, Shape, Players, Tanks
<1> QED  BY <1>1, ForecastHolds, PTL

-----------------------------------------------------------------------------
(* What the panel shows is what the rules take *)

\* One step of QuoteIsCharged.
Charged ==
  LET q == Quote(act')
  IN /\ player'.energy = Within(Within(player.energy - q.cost, player.max) + q.back, player.max)
     /\ act'.type # "merge" \/ hand.kind # "refactor"
          => debt' = InDebt(debt + q.debt + Unannounced)
     /\ act'.type \in {"commit", "resume"} => hand'.filled = Least(hand.filled + q.points, Size(hand))
     /\ act'.type # "submit" => q.turn = (step' = "turn")
Announced ==
  (step = "prompt" /\ act'.dull
     /\ ~((act'.mode = "ai" \/ hand.migration) /\ CommitKind(hand, act'.detour) = "refactor"))
    => Charged

\* The panel, action by action.
LEMMA Quotes ==
  ASSUME NEW a
  PROVE  /\ a.type \in {"commit", "resume"} =>
              LET kind == CommitKind(hand, a.detour)
              IN Quote(a) = Shown(Price(kind, a.mode), 0, QuotedDebt(a.mode, kind),
                                  PointsFor(hand, a.mode, kind), TRUE)
         /\ a.type = "review" =>
              Quote(a) = Shown(Balance.review, 0, -(QuotedClean * Balance.reviewRepay), 0, TRUE)
         /\ a.type = "merge" =>
              Quote(a) = Shown(Price("feature_merge", "none"), Balance.mergeRegen, 0, 0, TRUE)
         /\ a.type = "rest" => Quote(a) = Shown(0, RestRegen, 0, 0, TRUE)
         /\ a.type = "by_hand" => Quote(a) = Shown(Balance.conflict, 0, 0, 0, TRUE)
         /\ a.type \in {"start", "checkout", "submit", "followup"} =>
              Quote(a) = Shown(0, 0, 0, 0, FALSE)
<1>1. ASSUME a.type \in {"commit", "resume"}
      PROVE  LET kind == CommitKind(hand, a.detour)
             IN Quote(a) = Shown(Price(kind, a.mode), 0, QuotedDebt(a.mode, kind),
                                 PointsFor(hand, a.mode, kind), TRUE)
  BY <1>1 DEF Quote
<1>2. ASSUME a.type = "review"
      PROVE  Quote(a) = Shown(Balance.review, 0, -(QuotedClean * Balance.reviewRepay), 0, TRUE)
  BY <1>2 DEF Quote
<1>3. ASSUME a.type = "merge"
      PROVE  Quote(a) = Shown(Price("feature_merge", "none"), Balance.mergeRegen, 0, 0, TRUE)
  BY <1>3 DEF Quote
<1>4. ASSUME a.type = "rest" PROVE Quote(a) = Shown(0, RestRegen, 0, 0, TRUE)
  BY <1>4 DEF Quote
<1>5. ASSUME a.type = "by_hand" PROVE Quote(a) = Shown(Balance.conflict, 0, 0, 0, TRUE)
  BY <1>5 DEF Quote
<1>6. ASSUME a.type \in {"start", "checkout", "submit", "followup"}
      PROVE  Quote(a) = Shown(0, 0, 0, 0, FALSE)
  BY <1>6 DEF Quote
<1> QED  BY <1>1, <1>2, <1>3, <1>4, <1>5, <1>6

\* An action whose quote is known: what is left is arithmetic on the gauges.
LEMMA ChargedBy ==
  ASSUME NEW cost, NEW back, NEW d, NEW points, NEW ends \in BOOLEAN,
         Quote(act') = Shown(cost, back, d, points, ends),
         player'.energy = Within(Within(player.energy - cost, player.max) + back, player.max),
         act'.type # "merge" \/ hand.kind # "refactor" => debt' = InDebt(debt + d + Unannounced),
         act'.type \in {"commit", "resume"} => hand'.filled = Least(hand.filled + points, Size(hand)),
         act'.type # "submit" => ends = (step' = "turn")
  PROVE  Announced
<1> DEFINE q == Quote(act')
<1>1. q.cost = cost /\ q.back = back /\ q.debt = d /\ q.points = points /\ q.turn = ends
  BY DEF Shown
<1>2. q.turn = ends
  BY <1>1
<1> HIDE DEF q
<1> QED  BY <1>1, <1>2 DEF Announced, Charged, q

\* A clipped number is clipped already.
LEMMA ClippedOnce ==
  ASSUME NEW n \in Int, NEW most \in Nat
  PROVE  /\ Within(n, most) \in 0..most
         /\ Within(Within(n, most) + 0, most) = Within(n, most)
         /\ n \in 0..most => Within(n, most) = n
<1>1. Within(n, most) \in 0..most
  BY Clipped
<1>2. \A m \in 0..most : Within(m, most) = m
  BY Clipped
<1>3. Within(n, most) + 0 = Within(n, most)
  BY <1>1
<1> QED  BY <1>1, <1>2, <1>3

\* A free action is announced as one.
\* Only a commit has a debt no panel announces.
LEMMA OwedAlready ==
  ASSUME Shape, act'.type \notin {"commit", "resume"}
  PROVE  /\ InDebt(debt + 0 + Unannounced) = debt
         /\ \A d \in Int : debt + d + Unannounced = debt + d
<1>1. debt \in 0..Balance.debtMax /\ debt \in Int /\ Balance.debtMax \in Nat
  BY ShapeIs, Numbers
<1>2. Unannounced = 0
  BY DEF Unannounced
<1>3. \A d \in Int : debt + d + 0 = debt + d
  BY <1>1
<1>4. debt + 0 + 0 = debt
  BY <1>1
<1>5. InDebt(debt) = debt
  BY <1>1, ClippedOnce DEF InDebt
<1> QED  BY <1>2, <1>3, <1>4, <1>5

LEMMA FreeIsCharged ==
  ASSUME Shape, NEW type \in {"start", "checkout", "submit", "followup"}, NEW dull,
         Played(type, "none", "plain", dull, FALSE), UNCHANGED <<player, debt>>
  PROVE  Announced
<1> SUFFICES ASSUME act'.dull PROVE Announced
  BY DEF Announced
<1>1. act'.type = type /\ step' = "settle"
  BY PlayedIs
<1>2. Quote(act') = Shown(0, 0, 0, 0, FALSE)
  BY <1>1, Quotes
<1>3. player.energy \in 0..player.max /\ player.max \in Nat
  BY ShapeIs, PlayerIs
<1>4. Within(Within(player.energy - 0, player.max) + 0, player.max) = player.energy
  <2>1. player.energy - 0 = player.energy /\ player.energy + 0 = player.energy
    BY <1>3
  <2>2. player.energy \in Int
    BY <1>3
  <2>3. Within(player.energy, player.max) = player.energy
    BY <1>3, <2>2, ClippedOnce
  <2> QED  BY <2>1, <2>3
<1>5. InDebt(debt + 0 + Unannounced) = debt
  BY <1>1, OwedAlready
<1>6. act'.type \notin {"commit", "resume"}
  BY <1>1
<1> QED  BY <1>1, <1>2, <1>4, <1>5, <1>6, ChargedBy

LEMMA CommitIsCharged ==
  ASSUME Shape, hand # NoTicket, NEW type \in {"commit", "resume"}, NEW mode \in {"craft", "ai"},
         NEW detour, CommitKind(hand, detour) \in Kinds, CommitAs(type, mode, detour)
  PROVE  Announced
<1> DEFINE kind == CommitKind(hand, detour)
           price == Price(kind, mode)
           spent == Spend(player, price)
           left == Written(mode, kind)
           points == PointsFor(hand, mode, kind)
           filled == Within(hand.filled + points, Size(hand))
<1> SUFFICES ASSUME act'.dull PROVE Announced
  BY DEF Announced
<1>0. PICK dull : dull /\ Played(type, mode, detour, dull, TRUE)
  <2>1. \E dull : Played(type, mode, detour, dull, TRUE)
    BY DEF CommitAs
  <2> QED  BY <2>1, PlayedIs
<1>1. act'.type = type /\ act'.mode = mode /\ act'.detour = detour /\ step' = "turn"
  BY <1>0, PlayedIs
<1>2. Quote(act') = Shown(price, 0, QuotedDebt(mode, kind), points, TRUE)
  BY <1>1, Quotes
<1> SUFFICES ASSUME ~((mode = "ai" \/ hand.migration) /\ kind = "refactor") PROVE Announced
  BY <1>1 DEF Announced
<1>3. PICK weather \in Weather :
        /\ kind = "docs" => player.docs + Balance.docs <= MaxDocs
        /\ player' = Gain(Practised(spent, mode, kind), weather.energy)
        /\ debt' = InDebt(left.debt + weather.debt)
        /\ hand' = [hand EXCEPT !.filled = filled, !.commits = left.commits]
        /\ Played(type, mode, detour, weather = Calm, TRUE)
  <2>1. ~Played(type, mode, detour, FALSE, TRUE)
    BY PlayedIs
  <2> QED  BY <2>1 DEF CommitAs
<1>4. weather.energy = 0 /\ weather.debt = 0
  <2>1. weather = Calm
    BY <1>3, PlayedIs
  <2> QED  BY <2>1 DEF Calm
<1>5. kind \in Kinds
  OBVIOUS
<1>6. price \in Int /\ player \in Players /\ player.energy \in Int
  <2>1. kind \in {"commit", "refactor", "fix", "risky", "docs", "hotfix", "feature_merge",
                  "sprint_merge"}
    BY <1>5 DEF Kinds
  <2>2. price \in Nat
    <3> HIDE DEF kind
    <3> QED  BY <2>1, Burdens, ShapeIs
  <2> QED  BY <2>2, ShapeIs, Numbers
<1>7. /\ left.debt \in 0..Balance.debtMax
      /\ kind # "refactor" => left.debt = InDebt(debt + OwnDebt(mode, kind))
      /\ kind = "refactor" /\ mode = "craft" /\ ~hand.migration =>
           left.debt = LET target == MostIndebted(hand.commits)
                       IN InDebt(debt - IF target = 0 THEN Balance.refactorRepay
                                        ELSE hand.commits[target].cost)
      /\ OwnDebt(mode, kind) \in Nat
  <2> HIDE DEF kind
  <2> QED  BY <1>5, WrittenIsSound
<1>8. points \in Nat /\ hand.filled \in Nat /\ Size(hand) \in Nat
  <2>1. hand.kind \in Yours /\ hand.filled \in Nat /\ hand.rework \in Nat
    BY ShapeIs, HandIs
  <2>2. Size(hand) \in Nat
    <3>1. Balance.size[hand.kind] \in Nat
      BY <2>1, Numbers
    <3> QED  BY <2>1, <3>1 DEF Size
  <2> QED  BY <2>1, <2>2, Scored
<1> HIDE DEF kind, price, left, points
<1>9. player'.energy = Within(Within(player.energy - price, player.max) + 0, player.max)
  <2>1. /\ spent \in Players /\ spent.docs = player.docs
        /\ spent.energy = Within(player.energy - price, player.max)
        /\ spent.max = player.max
    BY <1>6, Gauged
  <2> HIDE DEF spent
  <2> DEFINE own == Practised(spent, mode, kind)
  <2>2. own \in Players /\ own.energy = spent.energy /\ own.max = spent.max
    BY <1>3, <2>1, PractisedIs
  <2> HIDE DEF own
  <2>3. player' = Gain(own, 0)
    BY <1>3, <1>4 DEF own
  <2>4. 0 \in Int
    OBVIOUS
  <2>5. Gain(own, 0).energy = Within(own.energy + 0, own.max)
    BY <2>2, <2>4, Gauged
  <2> QED  BY <2>1, <2>2, <2>3, <2>5
<1>10. QuotedDebt(mode, kind)
         = (IF mode = "craft" THEN Balance.perCraft ELSE IF player.docs > 0 THEN 0 ELSE Balance.perAi)
            + ((IF kind = "risky" THEN Balance.perRisky ELSE 0)
                - (IF kind = "refactor"
                   THEN IF MostIndebted(hand.commits) = 0 THEN Balance.refactorRepay
                        ELSE hand.commits[MostIndebted(hand.commits)].cost
                   ELSE 0))
  BY Zenon DEF QuotedDebt
<1>11. debt' = InDebt(debt + QuotedDebt(mode, kind) + Unannounced)
  <2>1. debt' = left.debt
    <3>1. left.debt + 0 = left.debt /\ left.debt \in Int
      BY <1>7
    <3>2. Balance.debtMax \in Nat
      BY Numbers
    <3>3. InDebt(left.debt) = left.debt
      BY <1>7, <3>1, <3>2, ClippedOnce DEF InDebt
    <3> QED  BY <1>3, <1>4, <3>1, <3>3
  <2>2. CASE kind # "refactor"
    <3> DEFINE owed == (IF mode = "craft" THEN Balance.perCraft
                        ELSE IF player.docs > 0 THEN 0 ELSE Balance.perAi)
                         + (IF kind = "risky" THEN Balance.perRisky ELSE 0)
               step_ == IF hand.migration THEN Balance.perMigration ELSE 0
    <3>1. owed \in Nat /\ step_ \in Nat /\ debt \in Int
      BY Numbers, ShapeIs
    <3>2. OwnDebt(mode, kind) = owed + step_
      BY DEF OwnDebt
    <3>3. QuotedDebt(mode, kind) = owed
      <4>1. QuotedDebt(mode, kind)
              = (IF mode = "craft" THEN Balance.perCraft
                 ELSE IF player.docs > 0 THEN 0 ELSE Balance.perAi)
                  + ((IF kind = "risky" THEN Balance.perRisky ELSE 0) - 0)
        BY <1>10, <2>2
      <4>2. Balance.perAi \in Nat /\ Balance.perRisky \in Nat /\ Balance.perCraft = 0
        BY Numbers
      <4> QED  BY <4>1, <4>2
    <3>4. Unannounced = step_
      BY <1>1 DEF Unannounced
    <3> HIDE DEF owed, step_
    <3>5. debt + OwnDebt(mode, kind) = debt + QuotedDebt(mode, kind) + Unannounced
      BY <3>1, <3>2, <3>3, <3>4
    <3> QED  BY <1>7, <2>1, <2>2, <3>5
  <2>3. CASE kind = "refactor"
    <3> DEFINE target == MostIndebted(hand.commits)
               repaid == IF target = 0 THEN Balance.refactorRepay ELSE hand.commits[target].cost
    <3>1. mode = "craft" /\ ~hand.migration
      BY <2>3 DEF kind
    <3>2. repaid \in Nat
      <4>1. hand.commits \in Seq(Commits)
        BY ShapeIs, HandIs
      <4>2. target # 0 => hand.commits[target].cost \in 0..Balance.debtMax
        BY <4>1, Dearest
      <4> HIDE DEF target
      <4> QED  BY <4>2, Numbers
    <3>3. QuotedDebt(mode, kind) = 0 + (0 - repaid)
      <4>1. QuotedDebt(mode, kind) = Balance.perCraft + (0 - repaid)
        <5> HIDE DEF repaid
        <5>1. kind # "risky"
          BY <2>3
        <5> QED  BY <1>10, <2>3, <3>1, <5>1 DEF repaid
      <4> HIDE DEF repaid
      <4> QED  BY <4>1, Numbers
    <3>4. left.debt = InDebt(debt - repaid)
      BY <1>7, <2>3, <3>1
    <3> HIDE DEF repaid
    <3>5. debt + QuotedDebt(mode, kind) + Unannounced = debt - repaid
      <4>1. debt \in Int /\ Unannounced = 0
        BY <3>1, ShapeIs DEF Unannounced
      <4> QED  BY <3>2, <3>3, <4>1
    <3> QED  BY <2>1, <3>4, <3>5
  <2> QED  BY <2>2, <2>3
<1>12. hand'.filled = Least(hand.filled + points, Size(hand))
  <2>1. filled = Least(hand.filled + points, Size(hand))
    <3>1. ~(hand.filled + points < 0)
      BY <1>8
    <3> QED  BY <3>1 DEF Within
  <2> HIDE DEF filled
  <2>2. hand'.filled = filled
    <3>1. hand = [kind |-> hand.kind, migration |-> hand.migration, filled |-> hand.filled,
                  rework |-> hand.rework, commits |-> hand.commits]
      BY ShapeIs, HandIs
    <3> QED  BY <1>3, <3>1, Filled
  <2> QED  BY <2>1, <2>2
<1> QED  BY <1>1, <1>2, <1>9, <1>11, <1>12, ChargedBy

\* An action that pays, then gives back: the gauge is clipped on the way.
LEMMA PaidAndGiven ==
  ASSUME NEW p \in Players, NEW cost \in Int, NEW back \in Int
  PROVE  /\ Gain(Spend(p, cost), back).energy
              = Within(Within(p.energy - cost, p.max) + back, p.max)
         /\ Spend(p, cost).energy = Within(Within(p.energy - cost, p.max) + 0, p.max)
         /\ Gain(p, back).energy = Within(Within(p.energy - 0, p.max) + back, p.max)
<1> DEFINE paid == Spend(p, cost)
<1>1. /\ paid \in Players /\ paid.energy = Within(p.energy - cost, p.max) /\ paid.max = p.max
      /\ Gain(p, back).energy = Within(p.energy + back, p.max)
  BY Gauged
<1> HIDE DEF paid
<1>2. Gain(paid, back).energy = Within(paid.energy + back, p.max)
  <2>1. Gain(paid, back).energy = Within(paid.energy + back, paid.max)
    BY <1>1, Gauged
  <2> QED  BY <1>1, <2>1
<1>3. p.energy \in 0..p.max /\ p.energy \in Int /\ p.max \in Nat
  BY PlayerIs
<1>4. p.energy - cost \in Int /\ p.energy - 0 = p.energy
  BY <1>3
<1>5. Within(paid.energy + 0, p.max) = paid.energy
  <2>1. LET n == Within(p.energy - cost, p.max) IN Within(n + 0, p.max) = n
    BY <1>3, <1>4, ClippedOnce
  <2> QED  BY <1>1, <2>1
<1>6. Within(p.energy, p.max) = p.energy
  BY <1>3, ClippedOnce
<1> QED  BY <1>1, <1>2, <1>4, <1>5, <1>6 DEF paid

LEMMA ReviewIsCharged ==
  ASSUME Shape, Review
  PROVE  Announced
<1> DEFINE n == Cardinality(ReadNow)
<1>1. /\ player' = Spend(player, Balance.review)
      /\ debt' = InDebt(debt - n * Balance.reviewRepay)
      /\ Played("review", "none", "plain", TRUE, TRUE)
  BY DEF Review
<1>2. act'.type = "review" /\ step' = "turn"
  BY <1>1, PlayedIs
<1>3. Quote(act') = Shown(Balance.review, 0, -(QuotedClean * Balance.reviewRepay), 0, TRUE)
  BY <1>2, Quotes
<1>4. QuotedClean = n /\ n \in Nat
  <2>1. hand.commits \in Seq(Commits)
    BY ShapeIs, HandIs
  <2>2. Len(hand.commits) \in Nat /\ Unread(hand) \in SUBSET (1..Len(hand.commits))
    BY <2>1 DEF Unread
  <2>3. Balance.cleans \in Nat
    BY Numbers
  <2>4. n = IF Cardinality(Unread(hand)) <= Balance.cleans THEN Cardinality(Unread(hand))
            ELSE Balance.cleans
    BY <2>2, <2>3, Freshest DEF ReadNow
  <2>5. Cardinality(Unread(hand)) \in Nat
    <3>1. IsFiniteSet(1..Len(hand.commits))
      BY <2>2, FS_Interval
    <3>2. IsFiniteSet(Unread(hand))
      BY <2>2, <3>1, FS_Subset
    <3> QED  BY <3>2, FS_CardinalityType
  <2> HIDE DEF n
  <2>6. Cardinality(Unread(hand)) \in Int /\ Balance.cleans \in Int
    BY <2>3, <2>5
  <2>7. QuotedClean = IF Cardinality(Unread(hand)) <= Balance.cleans
                      THEN Cardinality(Unread(hand)) ELSE Balance.cleans
    BY <2>6, LeastOfTwo DEF QuotedClean
  <2> QED  BY <2>3, <2>4, <2>5, <2>7
<1> HIDE DEF n
<1>5. debt' = InDebt(debt + (-(QuotedClean * Balance.reviewRepay)) + Unannounced)
  <2>1. Balance.reviewRepay \in Nat /\ debt \in Int
    BY ShapeIs, Numbers
  <2>2. \A a \in Nat, b \in Nat : a * b \in Int
    OBVIOUS
  <2>3. n * Balance.reviewRepay \in Int
    BY <1>4, <2>1, <2>2
  <2>4. \A x \in Int, d \in Int : d + (-x) = d - x
    OBVIOUS
  <2>5. debt + (-(n * Balance.reviewRepay)) = debt - n * Balance.reviewRepay
    BY <2>1, <2>3, <2>4
  <2>6. -(n * Balance.reviewRepay) \in Int
    BY <2>3
  <2>7. debt + (-(n * Balance.reviewRepay)) + Unannounced = debt + (-(n * Balance.reviewRepay))
    BY <1>2, <2>6, OwedAlready
  <2> QED  BY <1>1, <1>4, <2>5, <2>7
<1>6. player'.energy = Within(Within(player.energy - Balance.review, player.max) + 0, player.max)
  <2>1. Balance.review \in Int /\ 0 \in Int
    BY Numbers
  <2> QED  BY <1>1, <2>1, PaidAndGiven, ShapeIs
<1> QED  BY <1>2, <1>3, <1>5, <1>6, ChargedBy

LEMMA RestIsCharged ==
  ASSUME Shape, Rest
  PROVE  Announced
<1>1. /\ player' = Gain(player, RestRegen) /\ debt' = debt
      /\ Played("rest", "none", "plain", TRUE, TRUE)
  BY DEF Rest
<1>2. act'.type = "rest" /\ step' = "turn"
  BY <1>1, PlayedIs
<1>3. Quote(act') = Shown(0, RestRegen, 0, 0, TRUE)
  BY <1>2, Quotes
<1>4. player'.energy = Within(Within(player.energy - 0, player.max) + RestRegen, player.max)
  <2>1. RestRegen \in Int /\ 0 \in Int
    BY Burdens, ShapeIs
  <2> QED  BY <1>1, <2>1, PaidAndGiven, ShapeIs
<1>5. debt' = InDebt(debt + 0 + Unannounced)
  BY <1>1, <1>2, OwedAlready
<1> QED  BY <1>2, <1>3, <1>4, <1>5, ChargedBy

LEMMA MergeIsCharged ==
  ASSUME Shape, Merge, act'.dull
  PROVE  Announced
<1>1. Land(player, debt, FALSE, FALSE) /\ Played("merge", "none", "plain", TRUE, TRUE)
  <2>1. ~Played("merge", "none", "plain", FALSE, TRUE) /\ ~Played("merge", "none", "plain", FALSE, FALSE)
    BY PlayedIs
  <2> QED  BY <2>1 DEF Merge
<1> DEFINE price == Price("feature_merge", "none")
<1>2. act'.type = "merge" /\ step' = "turn"
  BY <1>1, PlayedIs
<1>3. Quote(act') = Shown(price, Balance.mergeRegen, 0, 0, TRUE)
  BY <1>2, Quotes
<1>4. /\ player' = Gain(Spend(player, price), Balance.mergeRegen)
      /\ hand.kind # "refactor" => debt' = debt
  BY <1>1 DEF Land
<1>5. price \in Int /\ Balance.mergeRegen \in Int /\ player \in Players
  BY Burdens, ShapeIs, Numbers
<1> HIDE DEF price
<1>6. player'.energy = Within(Within(player.energy - price, player.max)
                                + Balance.mergeRegen, player.max)
  BY <1>4, <1>5, PaidAndGiven
<1>7. hand.kind # "refactor" => debt' = InDebt(debt + 0 + Unannounced)
  BY <1>2, <1>4, OwedAlready
<1> QED  BY <1>2, <1>3, <1>6, <1>7, ChargedBy

LEMMA ByHandIsCharged ==
  ASSUME Shape, ResolveByHand, act'.dull
  PROVE  Announced
<1>1. /\ player' = Spend(player, Balance.conflict) /\ debt' = debt
      /\ Played("by_hand", "none", "plain", TRUE, TRUE)
  <2>1. ~Played("by_hand", "none", "plain", FALSE, TRUE)
    BY PlayedIs
  <2> QED  BY <2>1 DEF ResolveByHand
<1>2. act'.type = "by_hand" /\ step' = "turn"
  BY <1>1, PlayedIs
<1>3. Quote(act') = Shown(Balance.conflict, 0, 0, 0, TRUE)
  BY <1>2, Quotes
<1>4. player'.energy = Within(Within(player.energy - Balance.conflict, player.max) + 0,
                              player.max)
  <2>1. Balance.conflict \in Int /\ 0 \in Int
    BY Numbers
  <2> QED  BY <1>1, <2>1, PaidAndGiven, ShapeIs
<1>5. debt' = InDebt(debt + 0 + Unannounced)
  BY <1>1, <1>2, OwedAlready
<1> QED  BY <1>2, <1>3, <1>4, <1>5, ChargedBy

\* What no dice disturbed is charged as it was shown, clipping included, and the
\* debt of a migration, which no panel shows, on top of it: every action of a
\* turn, for every balance in which craft costs no debt.
THEOREM QuoteHolds == Spec => QuoteIsCharged
<1>1. ASSUME ForecastInv, Next PROVE Announced
  <2>1. Shape
    BY <1>1 DEF ForecastInv
  <2>2. ASSUME NEW mode \in {"craft", "ai"}, NEW detour \in Detours, Commit(mode, detour)
        PROVE  Announced
    <3>1. hand # NoTicket /\ detour \in OffersOf(hand) /\ CommitAs("commit", mode, detour)
      BY <2>2 DEF Commit
    <3>2. CommitKind(hand, detour) \in Kinds
      BY <2>1, <3>1, KindOfCommit, ShapeIs
    <3> QED  BY <2>1, <3>1, <3>2, CommitIsCharged
  <2>3. CASE Resume
    <3>1. phase = "rejected" /\ CommitAs("resume", "craft", "fix")
      BY <2>3 DEF Resume, Asked
    <3>2. hand # NoTicket
      BY <2>1, <3>1 DEF Shape
    <3>3. CommitKind(hand, "fix") \in Kinds
      BY DEF CommitKind, Kinds
    <3> QED  BY <2>1, <3>1, <3>2, <3>3, CommitIsCharged
  <2>4. CASE Review \/ Rest
    BY <2>1, <2>4, ReviewIsCharged, RestIsCharged
  <2>5. CASE Start \/ (\E kind \in Yours : Checkout(kind)) \/ Followup
             \/ \E caught \in SUBSET Unread(hand) : Submit(caught)
    <3>1. /\ UNCHANGED <<player, debt>>
          /\ \E type \in {"start", "checkout", "submit", "followup"} :
               Played(type, "none", "plain", TRUE, FALSE)
      BY <2>5 DEF Start, Checkout, Followup, Submit
    <3> QED  BY <2>1, <3>1, FreeIsCharged
  <2>6. CASE Merge \/ ResolveByHand
    BY <2>1, <2>6, MergeIsCharged, ByHandIsCharged DEF Announced
  <2>7. CASE ResolveByMachine \/ Acquire \/ Place \/ ChooseRelic
    <3>1. \E type \in {"by_machine", "acquire", "place", "relic"}, ends \in BOOLEAN :
            Played(type, "none", "plain", FALSE, ends)
      <4>1. ResolveByMachine => Played("by_machine", "none", "plain", FALSE, TRUE)
        BY DEF ResolveByMachine
      <4>2. Acquire => Played("acquire", "none", "plain", FALSE, FALSE)
        BY DEF Acquire
      <4>3. ChooseRelic => Played("relic", "none", "plain", FALSE, FALSE)
        BY DEF ChooseRelic
      <4>4. Place => Played("place", "none", "plain", FALSE, FALSE)
        BY DEF Place
      <4> QED  BY <2>7, <4>1, <4>2, <4>3, <4>4
    <3>2. ~act'.dull
      BY <3>1, PlayedIs
    <3> QED  BY <3>2 DEF Announced
  <2>8. CASE EndTurn \/ Calendar \/ Settle
    BY <2>8 DEF EndTurn, Calendar, Settle, Announced
  <2> QED  BY <1>1, <2>2, <2>3, <2>4, <2>5, <2>6, <2>7, <2>8 DEF Next
<1>2. ForecastInv /\ [Next]_vars => [Announced]_vars
  BY <1>1
<1> QED  BY <1>2, ForecastHolds, PTL DEF Spec, QuoteIsCharged, Announced, Charged

=============================================================================
