--------------------------- MODULE BranchesProofs ---------------------------
(***************************************************************************)
(* The graph a run writes, the ledger the page keeps beside it, and the     *)
(* story it tells.  For any features, obstacles, capacity and amount of     *)
(* work, open tickets keep to their columns, commits follow one another     *)
(* from where they forked, and what is merged has landed on dev; the ledger *)
(* of pushes is the one of the branches; and the story of a batch, told to  *)
(* its end, leaves on the screen what the ledger says.                      *)
(***************************************************************************)
EXTENDS Branches, FiniteSetTheorems, SequenceTheorems, WellFoundedInduction, NaturalsInduction, TLAPS

-----------------------------------------------------------------------------
(*                                 THE GRAPH                               *)

-----------------------------------------------------------------------------
(* The shape of a graph *)

GraphNode ==
  [kind : {"init", "sprint_start", "commit", "obstacle_merge", "feature_merge",
           "sprint_merge", "release"},
   lane : Nat, parents : Seq(Nat), ticket : Tickets \cup {NoTicket},
   broken : BOOLEAN, theirs : BOOLEAN]

GraphTicket ==
  [status : {"none", "backlog", "open", "merged"}, lane : Nat, ids : Seq(Nat),
   done : BOOLEAN, theirs : BOOLEAN]

Graph == [nodes : Seq(GraphNode), tickets : [Tickets -> GraphTicket]]

\* Main and dev have their first commits, and parents come before.
Rooted(ns) ==
  /\ Len(ns) >= 2 /\ ns[1].lane = Main /\ ns[2].lane = Dev
  /\ \A n \in 1..Len(ns) : \A p \in ToSet(ns[n].parents) : p \in 1..(n - 1)

\* What was written stays.
GoesOn(ns, ms) == Len(ns) <= Len(ms) /\ \A n \in 1..Len(ns) : ms[n] = ns[n]

Ids(r, t) == r.tickets[t].ids

\* The commits `ids` of a ticket follow one another from where it forked, what
\* is broken at their end.
Chain(ns, t, ids) ==
  /\ \A i \in 1..Len(ids) : /\ ids[i] \in 1..Len(ns)
                            /\ ns[ids[i]].ticket = t /\ ns[ids[i]].parents # <<>>
  /\ \A i \in 2..Len(ids) : Head(ns[ids[i]].parents) = ids[i - 1]
  /\ Len(ids) > 0 => LET first == Head(ns[ids[1]].parents)
                     IN IF IsObstacle(t) THEN ns[first].ticket = Parent(t)
                        ELSE ns[first].lane = Dev
  /\ \A i, j \in 1..Len(ids) : i < j /\ ns[ids[i]].broken => ns[ids[j]].broken

Works(ns, ids) == \E i \in 1..Len(ids) : ~ns[ids[i]].broken
Clean(ns, ids) == \A i \in 1..Len(ids) : ~ns[ids[i]].broken

\* A ticket and its feature.
LEMMA ParentIs ==
  ASSUME NEW t \in Tickets
  PROVE  /\ Parent(t) \in Tickets /\ ~IsObstacle(Parent(t)) /\ Parent(Parent(t)) = Parent(t)
         /\ ~IsObstacle(t) <=> Parent(t) = t
<1>1. PICK f \in Features, k \in 0..MaxObstacles : t = <<f, k>>
  BY DEF Tickets
<1>2. k \in Nat /\ 0 \in 0..MaxObstacles
  BY BranchesAssumption
<1> QED  BY <1>1, <1>2 DEF Parent, IsObstacle, Tickets

LEMMA LeastOne ==
  ASSUME NEW T, T \subseteq Nat, T # {}
  PROVE  \E x \in T : \A y \in T : x <= y
<1>1. IsWellFoundedOn(OpToRel(<, Nat), Nat)
  BY NatLessThanWellFounded
<1>2. PICK x \in T : \A y \in T : ~(<<y, x>> \in OpToRel(<, Nat))
  BY <1>1, WFMin
<1>3. \A y \in T : ~(y < x)
  BY <1>2 DEF OpToRel
<1> QED  BY <1>3

LEMMA FromNought ==
  ASSUME NEW T, NEW n \in Nat, 0 \in T, \A k \in 0..(n - 1) : k \in T => k + 1 \in T
  PROVE  n \in T
<1> DEFINE C == {k \in 0..n : k \notin T}
<1> SUFFICES ASSUME C # {} PROVE FALSE
  OBVIOUS
<1>1. PICK k \in C : \A j \in C : k <= j
  <2>1. C \subseteq Nat /\ C # {}
    OBVIOUS
  <2> HIDE DEF C
  <2> QED  BY <2>1, LeastOne
<1>2. k # 0 /\ k - 1 \in 0..(n - 1) /\ k - 1 \notin C
  BY <1>1
<1>3. k - 1 \in T
  BY <1>2
<1> QED  BY <1>1, <1>2, <1>3

\* What a commit is built on, by one step.
LEMMA AncestorsAre ==
  ASSUME NEW r, r.nodes \in Seq(GraphNode), Rooted(r.nodes)
  PROVE  \A n \in 1..Len(r.nodes) :
           Ancestors(r)[n] = {n} \cup UNION {Ancestors(r)[p] : p \in ToSet(r.nodes[n].parents)}
<1> DEFINE ns == r.nodes
           L == Len(ns)
           Above(n) == ToSet(ns[n].parents)
           Fixed(g, k) == \A n \in 1..k : g[n] = {n} \cup UNION {g[p] : p \in Above(n)}
           T == {k \in 0..L : \E g \in [1..k -> SUBSET Nat] : Fixed(g, k)}
<1>1. L \in Nat /\ DOMAIN ns = 1..L
  OBVIOUS
<1>2. ASSUME NEW n \in 1..L, NEW p \in Above(n) PROVE p \in 1..(n - 1)
  BY <1>2 DEF Rooted
<1> HIDE DEF ns, L, Above
<1>3. 0 \in T
  <2>1. [n \in 1..0 |-> {}] \in [1..0 -> SUBSET Nat] /\ Fixed([n \in 1..0 |-> {}], 0)
    OBVIOUS
  <2>2. 0 \in 0..L
    BY <1>1
  <2> QED  BY <2>1, <2>2, Zenon
<1>4. ASSUME NEW k \in 0..(L - 1), k \in T PROVE k + 1 \in T
  <2>1. PICK g \in [1..k -> SUBSET Nat] : Fixed(g, k)
    BY <1>4
  <2> DEFINE last == {k + 1} \cup UNION {g[p] : p \in Above(k + 1)}
             h == [n \in 1..(k + 1) |-> IF n \in 1..k THEN g[n] ELSE last]
  <2>2. \A p \in Above(k + 1) : p \in 1..k
    BY <1>1, <1>2
  <2>a. last \in SUBSET Nat
    BY <1>1, <2>1, <2>2
  <2>3. /\ h \in [1..(k + 1) -> SUBSET Nat] /\ h[k + 1] = last
        /\ \A n \in 1..k : h[n] = g[n]
    <3> HIDE DEF last
    <3> QED  BY <1>1, <2>a
  <2> HIDE DEF h
  <2>4. ASSUME NEW n \in 1..(k + 1) PROVE h[n] = {n} \cup UNION {h[p] : p \in Above(n)}
    <3>1. \A p \in Above(n) : p \in 1..k
      BY <1>1, <1>2
    <3>2. UNION {h[p] : p \in Above(n)} = UNION {g[p] : p \in Above(n)}
      BY <2>3, <3>1
    <3>3. CASE n = k + 1
      BY <2>3, <3>2, <3>3
    <3>4. CASE n # k + 1
      <4>1. n \in 1..k
        BY <3>4
      <4> QED  BY <2>1, <2>3, <3>2, <4>1
    <3> QED  BY <3>3, <3>4
  <2>5. k + 1 \in 0..L
    BY <1>1
  <2> QED  BY <2>3, <2>4, <2>5
<1>5. L \in T
  <2> HIDE DEF T
  <2> QED  BY <1>1, <1>3, <1>4, FromNought
<1>6. PICK g \in [1..L -> SUBSET Nat] : Fixed(g, L)
  BY <1>5
<1> DEFINE Is(f) == f = [n \in 1..L |-> {n} \cup UNION {f[p] : p \in Above(n)}]
<1>7. Is(g)
  BY <1>6
<1>8. Is(CHOOSE f : Is(f))
  <2> HIDE DEF Is
  <2> QED  BY <1>7
<1>9. Ancestors(r) = CHOOSE f : Is(f)
  BY <1>1 DEF Ancestors, Nodes, Above, ns
<1> DEFINE all == CHOOSE f : Is(f)
<1>10. \A n \in 1..L : all[n] = {n} \cup UNION {all[p] : p \in Above(n)}
  <2>1. Is(all)
    BY <1>8
  <2> HIDE DEF all
  <2> QED  BY <2>1
<1> HIDE DEF all
<1>11. Ancestors(r) = all
  BY <1>9 DEF all
<1> QED  BY <1>10, <1>11 DEF L, ns, Above

\* They are what they were once more is written.
LEMMA AncestorsStay ==
  ASSUME NEW r, r.nodes \in Seq(GraphNode), Rooted(r.nodes),
         NEW s, s.nodes \in Seq(GraphNode), Rooted(s.nodes), GoesOn(r.nodes, s.nodes)
  PROVE  \A n \in 1..Len(r.nodes) : Ancestors(s)[n] = Ancestors(r)[n]
<1> DEFINE T == {n \in 1..Len(r.nodes) : Ancestors(s)[n] # Ancestors(r)[n]}
<1> SUFFICES ASSUME T # {} PROVE FALSE
  OBVIOUS
<1>1. Len(r.nodes) \in Nat /\ Len(s.nodes) \in Nat /\ Len(r.nodes) <= Len(s.nodes)
  BY DEF GoesOn
<1>2. PICK n \in T : \A m \in T : n <= m
  <2>1. T \subseteq Nat
    BY <1>1
  <2> HIDE DEF T
  <2> QED  BY <2>1, LeastOne
<1>3. n \in 1..Len(r.nodes) /\ n \in 1..Len(s.nodes) /\ s.nodes[n] = r.nodes[n]
  BY <1>1, <1>2 DEF GoesOn
<1>4. ASSUME NEW p \in ToSet(r.nodes[n].parents) PROVE Ancestors(s)[p] = Ancestors(r)[p]
  <2>1. p \in 1..(n - 1)
    BY <1>3 DEF Rooted
  <2>2. p \in 1..Len(r.nodes) /\ ~(n <= p)
    BY <1>1, <1>3, <2>1
  <2> QED  BY <1>2, <2>2
<1>5. /\ Ancestors(r)[n] = {n} \cup UNION {Ancestors(r)[p] : p \in ToSet(r.nodes[n].parents)}
      /\ Ancestors(s)[n] = {n} \cup UNION {Ancestors(s)[p] : p \in ToSet(s.nodes[n].parents)}
  BY <1>3, AncestorsAre
<1>6. Ancestors(s)[n] = Ancestors(r)[n]
  BY <1>3, <1>4, <1>5
<1> QED  BY <1>2, <1>6

\* What an ancestor is built on is an ancestor.
LEMMA AncestorsGoUp ==
  ASSUME NEW r, r.nodes \in Seq(GraphNode), Rooted(r.nodes),
         NEW n \in 1..Len(r.nodes), NEW m \in Ancestors(r)[n]
  PROVE  m \in 1..Len(r.nodes) /\ Ancestors(r)[m] \subseteq Ancestors(r)[n]
<1> DEFINE T == {k \in 1..Len(r.nodes) :
                   \E a \in Ancestors(r)[k] :
                     ~(a \in 1..Len(r.nodes) /\ Ancestors(r)[a] \subseteq Ancestors(r)[k])}
<1> SUFFICES ASSUME T # {} PROVE FALSE
  OBVIOUS
<1>1. Len(r.nodes) \in Nat
  OBVIOUS
<1>2. PICK k \in T : \A j \in T : k <= j
  <2>1. T \subseteq Nat
    BY <1>1
  <2> HIDE DEF T
  <2> QED  BY <2>1, LeastOne
<1>3. k \in 1..Len(r.nodes)
  BY <1>2
<1>4. Ancestors(r)[k] = {k} \cup UNION {Ancestors(r)[p] : p \in ToSet(r.nodes[k].parents)}
  BY <1>3, AncestorsAre
<1>5. ASSUME NEW a \in Ancestors(r)[k]
      PROVE  a \in 1..Len(r.nodes) /\ Ancestors(r)[a] \subseteq Ancestors(r)[k]
  <2>1. CASE a = k
    BY <1>3, <2>1
  <2>2. CASE a # k
    <3>1. PICK p \in ToSet(r.nodes[k].parents) : a \in Ancestors(r)[p]
      BY <1>4, <2>2
    <3>2. p \in 1..(k - 1)
      BY <1>3 DEF Rooted
    <3>3. p \in 1..Len(r.nodes) /\ ~(k <= p)
      BY <1>1, <1>3, <3>2
    <3>4. a \in 1..Len(r.nodes) /\ Ancestors(r)[a] \subseteq Ancestors(r)[p]
      BY <1>2, <3>1, <3>3
    <3>5. Ancestors(r)[p] \subseteq Ancestors(r)[k]
      BY <1>4
    <3> QED  BY <3>4, <3>5
  <2> QED  BY <2>1, <2>2
<1> QED  BY <1>2, <1>5

\* The newest commit of main, or of dev.
LEMMA TipIs ==
  ASSUME NEW r, r.nodes \in Seq(GraphNode), Rooted(r.nodes), NEW lane \in {Main, Dev}
  PROVE  /\ TipOfLane(r, lane) \in 1..Len(r.nodes) /\ r.nodes[TipOfLane(r, lane)].lane = lane
         /\ \A m \in 1..Len(r.nodes) : r.nodes[m].lane = lane => m <= TipOfLane(r, lane)
<1> DEFINE L == Len(r.nodes)
           On == {m \in 1..L : r.nodes[m].lane = lane}
           T == {L - m : m \in On}
<1>1. L \in Nat /\ L >= 2 /\ DOMAIN r.nodes = 1..L
  BY DEF Rooted
<1>2. On # {}
  <2>1. 1 \in 1..L /\ 2 \in 1..L
    BY <1>1
  <2> QED  BY <2>1 DEF Rooted
<1>3. PICK x \in T : \A y \in T : x <= y
  <2>1. T \subseteq Nat
    BY <1>1
  <2>2. T # {}
    <3>1. PICK m \in On : TRUE
      BY <1>2
    <3>2. L - m \in T
      OBVIOUS
    <3> QED  BY <3>2
  <2> HIDE DEF T
  <2> QED  BY <2>1, <2>2, LeastOne
<1>4. PICK n \in On : x = L - n
  BY <1>3
<1>5. n \in 1..L /\ r.nodes[n].lane = lane /\ \A m \in 1..L : r.nodes[m].lane = lane => m <= n
  <2>1. \A m \in On : L - n <= L - m
    BY <1>3, <1>4
  <2> QED  BY <1>1, <1>4, <2>1
<1> HIDE DEF L
<1> DEFINE Is(m) == m \in 1..L /\ r.nodes[m].lane = lane
                    /\ \A k \in 1..L : r.nodes[k].lane = lane => k <= m
<1>6. TipOfLane(r, lane) = CHOOSE m \in 1..L : r.nodes[m].lane = lane
                             /\ \A k \in 1..L : r.nodes[k].lane = lane => k <= m
  BY <1>1 DEF TipOfLane, Nodes
<1> QED  BY <1>5, <1>6 DEF L

LEMMA TipIsOnly ==
  ASSUME NEW r, r.nodes \in Seq(GraphNode), Rooted(r.nodes), NEW lane \in {Main, Dev},
         NEW n \in 1..Len(r.nodes), r.nodes[n].lane = lane,
         \A m \in 1..Len(r.nodes) : r.nodes[m].lane = lane => m <= n
  PROVE  TipOfLane(r, lane) = n
BY TipIs

\* What is written elsewhere does not move it.
LEMMA TipStays ==
  ASSUME NEW r, r.nodes \in Seq(GraphNode), Rooted(r.nodes),
         NEW s, s.nodes \in Seq(GraphNode), Rooted(s.nodes), GoesOn(r.nodes, s.nodes),
         NEW lane \in {Main, Dev},
         \A n \in 1..Len(s.nodes) : n > Len(r.nodes) => s.nodes[n].lane # lane
  PROVE  TipOfLane(s, lane) = TipOfLane(r, lane)
<1>1. Len(r.nodes) \in Nat /\ Len(s.nodes) \in Nat /\ Len(r.nodes) <= Len(s.nodes)
  BY DEF GoesOn
<1> DEFINE n == TipOfLane(r, lane)
<1>2. /\ n \in 1..Len(r.nodes) /\ r.nodes[n].lane = lane
      /\ \A m \in 1..Len(r.nodes) : r.nodes[m].lane = lane => m <= n
  BY TipIs
<1> HIDE DEF n
<1>3. n \in 1..Len(s.nodes) /\ s.nodes[n].lane = lane
  BY <1>1, <1>2 DEF GoesOn
<1>4. ASSUME NEW m \in 1..Len(s.nodes), s.nodes[m].lane = lane PROVE m <= n
  <2>1. m \in 1..Len(r.nodes)
    BY <1>1, <1>4
  <2> QED  BY <1>2, <1>4, <2>1 DEF GoesOn
<1>5. TipOfLane(s, lane) = n
  BY <1>3, <1>4, TipIsOnly
<1> QED  BY <1>5 DEF n

LEMMA TipMoves ==
  ASSUME NEW s, s.nodes \in Seq(GraphNode), Rooted(s.nodes), NEW lane \in {Main, Dev},
         s.nodes[Len(s.nodes)].lane = lane
  PROVE  TipOfLane(s, lane) = Len(s.nodes)
<1>1. Len(s.nodes) \in Nat /\ Len(s.nodes) \in 1..Len(s.nodes)
  BY DEF Rooted
<1> QED  BY <1>1, TipIsOnly

\* One more node.
LEMMA OneNodeMore ==
  ASSUME NEW ns \in Seq(GraphNode), Rooted(ns), NEW node \in GraphNode,
         \A p \in ToSet(node.parents) : p \in 1..Len(ns)
  PROVE  /\ Append(ns, node) \in Seq(GraphNode) /\ Len(Append(ns, node)) = Len(ns) + 1
         /\ Append(ns, node)[Len(ns) + 1] = node /\ Len(ns) \in Nat
         /\ GoesOn(ns, Append(ns, node)) /\ Rooted(Append(ns, node))
<1>1. Len(ns) \in Nat /\ Len(ns) >= 2
  BY DEF Rooted
<1> DEFINE ms == Append(ns, node)
<1>2. /\ ms \in Seq(GraphNode) /\ Len(ms) = Len(ns) + 1 /\ ms[Len(ns) + 1] = node
      /\ \A n \in 1..Len(ns) : ms[n] = ns[n]
  BY <1>1
<1> HIDE DEF ms
<1>3. ASSUME NEW n \in 1..Len(ms), NEW p \in ToSet(ms[n].parents) PROVE p \in 1..(n - 1)
  <2>1. CASE n = Len(ns) + 1
    BY <1>1, <1>2, <1>3, <2>1
  <2>2. CASE n # Len(ns) + 1
    <3>1. n \in 1..Len(ns)
      BY <1>1, <1>2, <2>2
    <3> QED  BY <1>2, <1>3, <3>1 DEF Rooted
  <2> QED  BY <2>1, <2>2
<1>4. Rooted(ms)
  <2>1. 1 \in 1..Len(ns) /\ 2 \in 1..Len(ns)
    BY <1>1
  <2> QED  BY <1>1, <1>2, <1>3, <2>1 DEF Rooted
<1>5. GoesOn(ns, ms)
  BY <1>1, <1>2 DEF GoesOn
<1> QED  BY <1>1, <1>2, <1>4, <1>5 DEF ms

\* The first parent of a node is one of them.
LEMMA HeadIsBefore ==
  ASSUME NEW ns \in Seq(GraphNode), Rooted(ns), NEW n \in 1..Len(ns), ns[n].parents # <<>>
  PROVE  /\ Head(ns[n].parents) \in ToSet(ns[n].parents)
         /\ Head(ns[n].parents) \in 1..(n - 1) /\ Head(ns[n].parents) \in 1..Len(ns)
<1>a. ns[n] \in GraphNode
  OBVIOUS
<1>1. ns[n].parents \in Seq(Nat) /\ Len(ns) \in Nat
  BY <1>a DEF GraphNode
<1>2. Head(ns[n].parents) \in ToSet(ns[n].parents)
  <2>1. Len(ns[n].parents) > 0 /\ Head(ns[n].parents) = ns[n].parents[1]
        /\ 1 \in DOMAIN ns[n].parents
    BY <1>1
  <2> QED  BY <2>1 DEF ToSet
<1>3. Head(ns[n].parents) \in 1..(n - 1)
  BY <1>2 DEF Rooted
<1> QED  BY <1>1, <1>2, <1>3

\* A chain stays one while others write.
LEMMA ChainStays ==
  ASSUME NEW ns \in Seq(GraphNode), Rooted(ns), NEW ms \in Seq(GraphNode), GoesOn(ns, ms),
         NEW t, NEW ids \in Seq(Nat), Chain(ns, t, ids)
  PROVE  /\ Chain(ms, t, ids)
         /\ Works(ms, ids) <=> Works(ns, ids)
         /\ Clean(ms, ids) <=> Clean(ns, ids)
<1>1. Len(ns) \in Nat /\ Len(ms) \in Nat /\ Len(ids) \in Nat /\ Len(ns) <= Len(ms)
  BY DEF GoesOn
<1>2. \A i \in 1..Len(ids) : /\ ids[i] \in 1..Len(ns) /\ ids[i] \in 1..Len(ms)
                             /\ ms[ids[i]] = ns[ids[i]]
  BY <1>1 DEF Chain, GoesOn
<1>3. Len(ids) > 0 => LET first == Head(ns[ids[1]].parents) IN ms[first] = ns[first]
  <2> SUFFICES ASSUME Len(ids) > 0
               PROVE  ms[Head(ns[ids[1]].parents)] = ns[Head(ns[ids[1]].parents)]
    OBVIOUS
  <2>1. 1 \in 1..Len(ids)
    BY <1>1
  <2>2. ids[1] \in 1..Len(ns) /\ ns[ids[1]].parents # <<>>
    BY <2>1 DEF Chain
  <2>3. Head(ns[ids[1]].parents) \in 1..Len(ns)
    BY <2>2, HeadIsBefore
  <2> QED  BY <2>3 DEF GoesOn
<1>4. \A i \in 2..Len(ids) : i \in 1..Len(ids)
  BY <1>1
<1>5. Len(ids) > 0 => 1 \in 1..Len(ids)
  BY <1>1
<1>6. Chain(ms, t, ids)
  BY <1>2, <1>3, <1>4, <1>5 DEF Chain
<1> QED  BY <1>2, <1>6 DEF Works, Clean

\* And with one more commit, on its last.
LEMMA ChainGrows ==
  ASSUME NEW ns \in Seq(GraphNode), Rooted(ns), NEW node \in GraphNode,
         NEW t, NEW ids \in Seq(Nat), Chain(ns, t, ids),
         node.ticket = t, node.parents # <<>>,
         \A p \in ToSet(node.parents) : p \in 1..Len(ns),
         ids # <<>> => Head(node.parents) = Last(ids),
         ids = <<>> => IF IsObstacle(t) THEN ns[Head(node.parents)].ticket = Parent(t)
                       ELSE ns[Head(node.parents)].lane = Dev,
         node.broken \/ Clean(ns, ids)
  PROVE  /\ Chain(Append(ns, node), t, Append(ids, Len(ns) + 1))
         /\ ~node.broken => Works(Append(ns, node), Append(ids, Len(ns) + 1))
                            /\ Clean(Append(ns, node), Append(ids, Len(ns) + 1))
         /\ Works(ns, ids) => Works(Append(ns, node), Append(ids, Len(ns) + 1))
<1> DEFINE ms == Append(ns, node)
           all == Append(ids, Len(ns) + 1)
<1>1. /\ ms \in Seq(GraphNode) /\ Len(ms) = Len(ns) + 1 /\ ms[Len(ns) + 1] = node
      /\ Len(ns) \in Nat /\ GoesOn(ns, ms) /\ Rooted(ms)
  BY OneNodeMore
<1>2. Chain(ms, t, ids) /\ (Works(ms, ids) <=> Works(ns, ids)) /\ (Clean(ms, ids) <=> Clean(ns, ids))
  BY <1>1, ChainStays
<1>3. /\ Len(ids) \in Nat /\ all \in Seq(Nat) /\ Len(all) = Len(ids) + 1
      /\ all[Len(ids) + 1] = Len(ns) + 1 /\ \A i \in 1..Len(ids) : all[i] = ids[i]
  BY <1>1
<1>4. Head(node.parents) \in 1..Len(ns)
  <2>1. node.parents \in Seq(Nat)
    BY DEF GraphNode
  <2>2. 1 \in DOMAIN node.parents /\ Head(node.parents) = node.parents[1]
    BY <2>1
  <2> QED  BY <2>2 DEF ToSet
<1>5. ids # <<>> => Len(ids) > 0 /\ Last(ids) = ids[Len(ids)]
  BY <1>3 DEF Last
<1>6. ids = <<>> => Len(ids) = 0
  OBVIOUS
<1> HIDE DEF ms, all
<1>7. \A i \in 1..Len(all) : i = Len(ids) + 1 \/ i \in 1..Len(ids)
  BY <1>3
<1>8. ASSUME NEW i \in 1..Len(all)
      PROVE  all[i] \in 1..Len(ms) /\ ms[all[i]].ticket = t /\ ms[all[i]].parents # <<>>
  <2>1. CASE i = Len(ids) + 1
    BY <1>1, <1>3, <2>1
  <2>2. CASE i \in 1..Len(ids)
    BY <1>2, <1>3, <2>2 DEF Chain
  <2> QED  BY <1>7, <2>1, <2>2
<1>9. ASSUME NEW i \in 2..Len(all) PROVE Head(ms[all[i]].parents) = all[i - 1]
  <2>1. i \in 1..Len(all)
    BY <1>3
  <2>2. CASE i = Len(ids) + 1
    <3>1. Len(ids) > 0 /\ i - 1 = Len(ids) /\ Len(ids) \in 1..Len(ids) /\ ids # <<>>
      BY <1>3, <1>6, <2>2
    <3> QED  BY <1>1, <1>3, <1>5, <2>2, <3>1
  <2>3. CASE i \in 1..Len(ids)
    <3>1. i \in 2..Len(ids) /\ i - 1 \in 1..Len(ids)
      BY <1>3, <2>3
    <3> QED  BY <1>2, <1>3, <2>3, <3>1 DEF Chain
  <2> QED  BY <1>7, <2>1, <2>2, <2>3
<1>10. LET first == Head(ms[all[1]].parents)
       IN IF IsObstacle(t) THEN ms[first].ticket = Parent(t) ELSE ms[first].lane = Dev
  <2>1. CASE ids = <<>>
    <3>1. all[1] = Len(ns) + 1
      BY <1>3, <1>6, <2>1
    <3>2. ms[Head(node.parents)] = ns[Head(node.parents)]
      BY <1>1, <1>4 DEF GoesOn
    <3> QED  BY <1>1, <2>1, <3>1, <3>2
  <2>2. CASE ids # <<>>
    <3>1. 1 \in 1..Len(ids) /\ Len(ids) > 0
      BY <1>3, <1>5, <2>2
    <3> QED  BY <1>2, <1>3, <3>1 DEF Chain
  <2> QED  BY <2>1, <2>2
<1>11. ASSUME NEW i \in 1..Len(all), NEW j \in 1..Len(all), i < j, ms[all[i]].broken
       PROVE  ms[all[j]].broken
  <2>1. i \in 1..Len(ids)
    BY <1>3, <1>11
  <2>2. CASE j \in 1..Len(ids)
    BY <1>2, <1>3, <1>11, <2>1, <2>2 DEF Chain
  <2>3. CASE j = Len(ids) + 1
    <3>1. ~Clean(ms, ids)
      BY <1>3, <1>11, <2>1 DEF Clean
    <3> QED  BY <1>1, <1>2, <1>3, <2>3, <3>1
  <2> QED  BY <1>7, <2>2, <2>3
<1>12. Chain(ms, t, all)
  BY <1>8, <1>9, <1>10, <1>11 DEF Chain
<1>13. ~node.broken => Works(ms, all) /\ Clean(ms, all)
  <2>1. Len(ids) + 1 \in 1..Len(all)
    BY <1>3
  <2>2. ~node.broken => Works(ms, all)
    BY <1>1, <1>3, <2>1 DEF Works
  <2>3. ~node.broken => Clean(ms, all)
    BY <1>1, <1>2, <1>3, <1>7 DEF Clean
  <2> QED  BY <2>2, <2>3
<1>14. Works(ns, ids) => Works(ms, all)
  <2>1. \A i \in 1..Len(ids) : i \in 1..Len(all)
    BY <1>3
  <2> QED  BY <1>2, <1>3, <2>1 DEF Works
<1> QED  BY <1>12, <1>13, <1>14 DEF ms, all

\* What a push keeps of a ticket: all that works, which is its beginning.
LEMMA WorkingIs ==
  ASSUME NEW r, NEW t, NEW ids \in Seq(Nat), Chain(r.nodes, t, ids)
  PROVE  /\ Working(r, ids) \in Seq(Nat) /\ Len(Working(r, ids)) <= Len(ids)
         /\ \A i \in 1..Len(Working(r, ids)) :
              Working(r, ids)[i] = ids[i] /\ ~r.nodes[ids[i]].broken
         /\ \A i \in 1..Len(ids) : ~r.nodes[ids[i]].broken => i <= Len(Working(r, ids))
<1> DEFINE L == Len(ids)
           bad(i) == r.nodes[ids[i]].broken
<1>1. L \in Nat /\ \A i \in 1..L : ids[i] \in Nat
  OBVIOUS
<1>2. PICK k \in 0..L : (\A i \in 1..k : ~bad(i)) /\ (\A i \in (k + 1)..L : bad(i))
  <2> DEFINE B == {i \in 1..L : bad(i)}
  <2>1. CASE B = {}
    <3>1. L \in 0..L /\ \A i \in 1..L : ~bad(i)
      BY <1>1, <2>1
    <3>2. \A i \in (L + 1)..L : FALSE
      BY <1>1
    <3> QED  BY <3>1, <3>2
  <2>2. CASE B # {}
    <3>1. PICK i \in B : \A j \in B : i <= j
      <4>1. B \subseteq Nat
        BY <1>1
      <4> HIDE DEF B
      <4> QED  BY <2>2, <4>1, LeastOne
    <3>2. i - 1 \in 0..L /\ i \in 1..L /\ bad(i)
      BY <1>1, <3>1
    <3>3. \A j \in 1..(i - 1) : ~bad(j)
      BY <1>1, <3>1, <3>2
    <3>4. ASSUME NEW j \in ((i - 1) + 1)..L PROVE bad(j)
      <4>1. j = i \/ (j \in 1..L /\ i < j)
        BY <1>1, <3>2
      <4> QED  BY <3>2, <4>1 DEF Chain
    <3> QED  BY <3>2, <3>3, <3>4
  <2> QED  BY <2>1, <2>2
<1> DEFINE upto(n) == IF n <= k THEN n ELSE k
           g == [n \in 0..L |-> SubSeq(ids, 1, upto(n))]
           Is(f) == f = [i \in 0..L |-> IF i = 0 THEN <<>>
                           ELSE IF bad(i) THEN f[i - 1] ELSE Append(f[i - 1], ids[i])]
<1>3. Is(g)
  <2>1. g[0] = <<>>
    <3>1. SubSeq(ids, 1, 0) = <<>> /\ upto(0) = 0 /\ 0 \in 0..L
      BY <1>1
    <3> QED  BY <3>1
  <2>2. ASSUME NEW i \in 0..L, i # 0
        PROVE  g[i] = IF bad(i) THEN g[i - 1] ELSE Append(g[i - 1], ids[i])
    <3>1. i - 1 \in 0..L /\ i \in 1..L
      BY <1>1, <2>2
    <3>2. g[i] = SubSeq(ids, 1, upto(i)) /\ g[i - 1] = SubSeq(ids, 1, upto(i - 1))
      BY <3>1
    <3>3. CASE bad(i)
      <4>1. ~(i <= k)
        BY <1>1, <1>2, <3>1, <3>3
      <4>2. upto(i) = k /\ upto(i - 1) = k
        BY <1>1, <3>1, <4>1
      <4> HIDE DEF upto, g
      <4> QED  BY <3>2, <3>3, <4>2
    <3>4. CASE ~bad(i)
      <4>1. i <= k
        BY <1>1, <1>2, <3>1, <3>4
      <4>2. upto(i) = i /\ upto(i - 1) = i - 1
        BY <1>1, <3>1, <4>1
      <4>3. SubSeq(ids, 1, i) = Append(SubSeq(ids, 1, i - 1), ids[i])
        BY <1>1, <3>1
      <4> HIDE DEF upto, g
      <4> QED  BY <3>2, <3>4, <4>2, <4>3
    <3> QED  BY <3>3, <3>4
  <2>3. g = [n \in 0..L |-> g[n]]
    OBVIOUS
  <2> HIDE DEF g, bad
  <2> QED  BY <2>1, <2>2, <2>3
<1> DEFINE h == CHOOSE f : Is(f)
<1>4. Is(h)
  <2> HIDE DEF Is, g
  <2> QED  BY <1>3
<1>5. Working(r, ids) = h[L]
  BY DEF Working
<1> HIDE DEF h
<1>6. ASSUME NEW i \in 0..L PROVE h[i] = IF i = 0 THEN <<>>
                           ELSE IF bad(i) THEN h[i - 1] ELSE Append(h[i - 1], ids[i])
  BY <1>4
<1>7. ASSUME NEW i \in 0..L PROVE g[i] = IF i = 0 THEN <<>>
                           ELSE IF bad(i) THEN g[i - 1] ELSE Append(g[i - 1], ids[i])
  <2> HIDE DEF g
  <2> QED  BY <1>3
<1> HIDE DEF Is, g, bad
<1>8. h[L] = g[L]
  <2> DEFINE S == {n \in 0..L : h[n] = g[n]}
  <2>1. 0 \in S
    BY <1>1, <1>6, <1>7
  <2>2. ASSUME NEW n \in 0..(L - 1), n \in S PROVE n + 1 \in S
    <3>1. n + 1 \in 0..L /\ n + 1 # 0 /\ (n + 1) - 1 = n
      BY <1>1
    <3> QED  BY <1>6, <1>7, <2>2, <3>1
  <2> HIDE DEF S
  <2>3. L \in S
    BY <1>1, <2>1, <2>2, FromNought
  <2> QED  BY <2>3 DEF S
<1>9. g[L] = SubSeq(ids, 1, k)
  <2>1. L \in 0..L /\ upto(L) = k
    BY <1>1
  <2> QED  BY <2>1 DEF g
<1> DEFINE w == Working(r, ids)
<1>10. /\ w \in Seq(Nat) /\ Len(w) = k /\ \A i \in 1..k : w[i] = ids[i]
  <2>1. w = SubSeq(ids, 1, k)
    BY <1>5, <1>8, <1>9
  <2> QED  BY <1>1, <2>1
<1> HIDE DEF w
<1>11. \A i \in 1..L : ~bad(i) => i <= k
  BY <1>1, <1>2
<1>12. \A i \in 1..k : ~r.nodes[ids[i]].broken
  BY <1>2 DEF bad
<1>13. \A i \in 1..L : ~r.nodes[ids[i]].broken => i <= k
  BY <1>11 DEF bad
<1> HIDE DEF bad
<1> QED  BY <1>10, <1>12, <1>13 DEF w

\* It is a chain, and nothing on it is broken.
LEMMA WorkingChain ==
  ASSUME NEW r, r.nodes \in Seq(GraphNode), NEW t, NEW ids \in Seq(Nat), Chain(r.nodes, t, ids)
  PROVE  /\ Chain(r.nodes, t, Working(r, ids)) /\ Clean(r.nodes, Working(r, ids))
         /\ Works(r.nodes, ids) => Works(r.nodes, Working(r, ids)) /\ Working(r, ids) # <<>>
         /\ Clean(r.nodes, ids) => Working(r, ids) = ids
<1> DEFINE w == Working(r, ids)
<1>a. /\ w \in Seq(Nat) /\ Len(w) <= Len(ids)
      /\ \A i \in 1..Len(w) : w[i] = ids[i] /\ ~r.nodes[ids[i]].broken
      /\ \A i \in 1..Len(ids) : ~r.nodes[ids[i]].broken => i <= Len(w)
  BY WorkingIs
<1> HIDE DEF w
<1>1. /\ w \in Seq(Nat) /\ Len(w) <= Len(ids) /\ Len(w) \in Nat /\ Len(ids) \in Nat
      /\ \A i \in 1..Len(w) : w[i] = ids[i] /\ ~r.nodes[ids[i]].broken
      /\ \A i \in 1..Len(ids) : ~r.nodes[ids[i]].broken => i <= Len(w)
  BY <1>a
<1>2. \A i \in 1..Len(w) : i \in 1..Len(ids)
  BY <1>1
<1>3. Clean(r.nodes, w)
  BY <1>1 DEF Clean
<1>4. Chain(r.nodes, t, w)
  <2>1. \A i \in 2..Len(w) : i \in 1..Len(w) /\ i \in 2..Len(ids) /\ i - 1 \in 1..Len(w)
    BY <1>1
  <2>2. Len(w) > 0 => Len(ids) > 0 /\ 1 \in 1..Len(w)
    BY <1>1
  <2>3. \A i, j \in 1..Len(w) : i < j /\ r.nodes[w[i]].broken => r.nodes[w[j]].broken
    BY <1>1
  <2>4. \A i \in 1..Len(w) : /\ w[i] \in 1..Len(r.nodes)
                             /\ r.nodes[w[i]].ticket = t /\ r.nodes[w[i]].parents # <<>>
    BY <1>1, <1>2 DEF Chain
  <2>5. \A i \in 2..Len(w) : Head(r.nodes[w[i]].parents) = w[i - 1]
    BY <1>1, <1>2, <2>1 DEF Chain
  <2>6. Len(w) > 0 => w[1] = ids[1] /\ Len(ids) > 0
    BY <1>1, <2>2
  <2> QED  BY <2>3, <2>4, <2>5, <2>6 DEF Chain
<1>5. ASSUME Works(r.nodes, ids) PROVE Works(r.nodes, w) /\ w # <<>>
  <2>1. PICK i \in 1..Len(ids) : ~r.nodes[ids[i]].broken
    BY <1>5 DEF Works
  <2>2. i \in 1..Len(w)
    BY <1>1, <2>1
  <2> QED  BY <1>1, <2>1, <2>2 DEF Works
<1>6. ASSUME Clean(r.nodes, ids) PROVE w = ids
  <2>1. Len(ids) > 0 => Len(ids) <= Len(w)
    <3>1. Len(ids) > 0 => Len(ids) \in 1..Len(ids)
      BY <1>1
    <3> QED  BY <1>1, <1>6, <3>1 DEF Clean
  <2>2. Len(w) = Len(ids)
    BY <1>1, <2>1
  <2> QED  BY <1>1, <2>2
<1> QED  BY <1>3, <1>4, <1>5, <1>6 DEF w

-----------------------------------------------------------------------------
(* What is true of every graph the rules write *)

\* A column is a feature's, held by one open ticket, and all its commits are in it.
LanedIn(r, t) ==
  LET lane == r.tickets[t].lane
  IN /\ Ids(r, t) # <<>> => lane # NoLane
     /\ lane # NoLane => lane >= FirstFeatureLane
     /\ \A i \in 1..Len(Ids(r, t)) : r.nodes[Ids(r, t)[i]].lane = lane
     /\ \A u \in Open(r) : u # t /\ r.tickets[u].lane = lane => lane = NoLane

\* An obstacle that has landed is in a commit its feature keeps.
Joined(r, t) ==
  \E i \in 1..Len(Ids(r, Parent(t))) :
    /\ ~r.nodes[Ids(r, Parent(t))[i]].broken
    /\ Last(Ids(r, t)) \in ToSet(r.nodes[Ids(r, Parent(t))[i]].parents)

\* A ticket that is not there yet has written nothing; one that is done, that has
\* landed or from which an obstacle came has something that works; what has landed
\* and what the team writes is whole; an obstacle is open on an open ticket, in the
\* same hands.
StatusIs(r, t) ==
  LET k == r.tickets[t]
      works == Works(r.nodes, k.ids)
      clean == Clean(r.nodes, k.ids)
  IN /\ k.status \in {"none", "backlog"} => k.ids = <<>> /\ k.lane = NoLane /\ ~k.done
     /\ IsObstacle(t) => k.status # "backlog"
     /\ IsObstacle(t) /\ k.status # "none" => Works(r.nodes, Ids(r, Parent(t)))
     /\ k.status = "open" => /\ r.tickets[Parent(t)].status = "open"
                             /\ r.tickets[Parent(t)].theirs = k.theirs
     /\ k.done => works
     /\ k.theirs => k.status = "open" /\ clean
     /\ k.status = "merged" => works /\ clean
     /\ k.status = "merged" /\ IsObstacle(t) => Joined(r, t)

\* Dev is built on every feature that has landed.
Landed(r) ==
  \A t \in Tickets : r.tickets[t].status = "merged" /\ ~IsObstacle(t) =>
    Last(Ids(r, t)) \in Ancestors(r)[TipOfLane(r, Dev)]

Sound(r) ==
  /\ r \in Graph /\ Rooted(r.nodes)
  /\ \A t \in Tickets : Chain(r.nodes, t, Ids(r, t))
  /\ \A t \in Open(r) : LanedIn(r, t)
  /\ \A t \in Tickets : StatusIs(r, t)
  /\ Landed(r)

\* A ticket that holds a column has written.
HoldsForGood(r, t) == r.tickets[t].lane # NoLane => Ids(r, t) # <<>>

LEMMA GraphIs ==
  ASSUME NEW r \in Graph
  PROVE  /\ r.nodes \in Seq(GraphNode) /\ r.tickets \in [Tickets -> GraphTicket]
         /\ \A t \in Tickets : /\ r.tickets[t] \in GraphTicket /\ Ids(r, t) \in Seq(Nat)
                               /\ r.tickets[t].lane \in Nat
BY DEF Graph, GraphTicket, Ids

\* What makes the new tip of dev and what it is built on keeps what has landed.
LEMMA LandedStays ==
  ASSUME NEW r, Sound(r), NEW s \in Graph, Rooted(s.nodes), GoesOn(r.nodes, s.nodes),
         TipOfLane(r, Dev) \in Ancestors(s)[TipOfLane(s, Dev)],
         \A t \in Tickets : s.tickets[t].status = "merged" /\ ~IsObstacle(t) =>
           \/ r.tickets[t].status = "merged" /\ Ids(s, t) = Ids(r, t)
           \/ Last(Ids(s, t)) \in Ancestors(s)[TipOfLane(s, Dev)]
  PROVE  Landed(s)
<1>1. r.nodes \in Seq(GraphNode) /\ s.nodes \in Seq(GraphNode) /\ Rooted(r.nodes)
  BY GraphIs DEF Sound
<1>2. /\ TipOfLane(r, Dev) \in 1..Len(r.nodes) /\ TipOfLane(s, Dev) \in 1..Len(s.nodes)
      /\ Ancestors(s)[TipOfLane(r, Dev)] = Ancestors(r)[TipOfLane(r, Dev)]
  BY <1>1, TipIs, AncestorsStay
<1>3. Ancestors(r)[TipOfLane(r, Dev)] \subseteq Ancestors(s)[TipOfLane(s, Dev)]
  BY <1>1, <1>2, AncestorsGoUp
<1> QED  BY <1>3 DEF Landed, Sound

\* When dev's tip is where it was.
LEMMA LandedElsewhere ==
  ASSUME NEW r, Sound(r), NEW s \in Graph, Rooted(s.nodes), GoesOn(r.nodes, s.nodes),
         \A n \in 1..Len(s.nodes) : n > Len(r.nodes) => s.nodes[n].lane # Dev,
         \A t \in Tickets : s.tickets[t].status = "merged" /\ ~IsObstacle(t) =>
           r.tickets[t].status = "merged" /\ Ids(s, t) = Ids(r, t)
  PROVE  Landed(s)
<1>1. r.nodes \in Seq(GraphNode) /\ s.nodes \in Seq(GraphNode) /\ Rooted(r.nodes)
  BY GraphIs DEF Sound
<1>2. TipOfLane(s, Dev) = TipOfLane(r, Dev) /\ TipOfLane(s, Dev) \in 1..Len(s.nodes)
  BY <1>1, TipStays, TipIs
<1>3. TipOfLane(s, Dev) \in Ancestors(s)[TipOfLane(s, Dev)]
  BY <1>1, <1>2, AncestorsAre
<1> QED  BY <1>2, <1>3, LandedStays

-----------------------------------------------------------------------------
(* A push *)

LEMMA PushedIs ==
  ASSUME NEW r, Sound(r), NEW t \in Tickets
  PROVE  /\ Pushed(r, t) \in Graph /\ Pushed(r, t).nodes = r.nodes
         /\ Pushed(r, t).tickets = [r.tickets EXCEPT ![t].ids = Working(r, Ids(r, t))]
<1>1. r \in Graph /\ Working(r, Ids(r, t)) \in Seq(Nat)
  BY GraphIs, WorkingIs DEF Sound
<1>2. Pushed(r, t) = [r EXCEPT !.tickets = [r.tickets EXCEPT ![t].ids = Working(r, Ids(r, t))]]
  BY <1>1 DEF Pushed, Graph, Ids
<1>3. [r.tickets EXCEPT ![t].ids = Working(r, Ids(r, t))] \in [Tickets -> GraphTicket]
  BY <1>1, GraphIs DEF GraphTicket
<1> QED  BY <1>1, <1>2, <1>3 DEF Graph

LEMMA PushedFields ==
  ASSUME NEW r, Sound(r), NEW t \in Tickets, NEW u \in Tickets
  PROVE  LET s == Pushed(r, t)
         IN /\ s.tickets[u].status = r.tickets[u].status /\ s.tickets[u].lane = r.tickets[u].lane
            /\ s.tickets[u].done = r.tickets[u].done /\ s.tickets[u].theirs = r.tickets[u].theirs
            /\ Ids(s, u) = IF u = t THEN Working(r, Ids(r, t)) ELSE Ids(r, u)
            /\ u # t => s.tickets[u] = r.tickets[u]
<1>1. r \in Graph
  BY DEF Sound
<1>2. r.tickets[u] \in GraphTicket /\ r.tickets \in [Tickets -> GraphTicket]
  BY <1>1, GraphIs
<1> DEFINE s == Pushed(r, t)
           w == Working(r, Ids(r, t))
<1>3. s.tickets = [r.tickets EXCEPT ![t].ids = w]
  BY PushedIs
<1> HIDE DEF s, w
<1>4. s.tickets[u] = IF u = t THEN [r.tickets[u] EXCEPT !.ids = w] ELSE r.tickets[u]
  BY <1>2, <1>3
<1> QED  BY <1>2, <1>4 DEF GraphTicket, Ids, s, w

LEMMA PushedSound ==
  ASSUME NEW r, Sound(r), NEW t \in Tickets
  PROVE  /\ Sound(Pushed(r, t)) /\ Open(Pushed(r, t)) = Open(r)
         /\ Clean(r.nodes, Ids(Pushed(r, t), t))
         /\ Works(r.nodes, Ids(r, t)) =>
              Works(r.nodes, Ids(Pushed(r, t), t)) /\ Ids(Pushed(r, t), t) # <<>>
         /\ \A u \in Tickets : Works(r.nodes, Ids(r, u)) => Works(r.nodes, Ids(Pushed(r, t), u))
<1> DEFINE s == Pushed(r, t)
           w == Working(r, Ids(r, t))
<1>1. /\ s \in Graph /\ s.nodes = r.nodes /\ r \in Graph /\ Rooted(r.nodes)
      /\ r.nodes \in Seq(GraphNode) /\ Ids(r, t) \in Seq(Nat)
  BY PushedIs, GraphIs DEF Sound
<1>2. /\ Chain(r.nodes, t, w) /\ Clean(r.nodes, w)
      /\ Works(r.nodes, Ids(r, t)) => Works(r.nodes, w) /\ w # <<>>
      /\ Clean(r.nodes, Ids(r, t)) => w = Ids(r, t)
  BY <1>1, WorkingChain DEF Sound
<1>3. /\ w \in Seq(Nat) /\ Len(w) <= Len(Ids(r, t))
      /\ \A i \in 1..Len(w) : w[i] = Ids(r, t)[i] /\ ~r.nodes[Ids(r, t)[i]].broken
      /\ \A i \in 1..Len(Ids(r, t)) : ~r.nodes[Ids(r, t)[i]].broken => i <= Len(w)
  BY <1>1, WorkingIs DEF Sound
<1>a. Len(w) \in Nat /\ Len(Ids(r, t)) \in Nat
  BY <1>1, <1>3
<1>4. ASSUME NEW u \in Tickets
      PROVE  /\ s.tickets[u].status = r.tickets[u].status /\ s.tickets[u].lane = r.tickets[u].lane
             /\ s.tickets[u].done = r.tickets[u].done /\ s.tickets[u].theirs = r.tickets[u].theirs
             /\ Ids(s, u) = IF u = t THEN w ELSE Ids(r, u)
  BY PushedFields
<1> HIDE DEF s, w
<1>5. Open(s) = Open(r)
  BY <1>4 DEF Open
<1>6. \A u \in Tickets : Works(r.nodes, Ids(r, u)) => Works(r.nodes, Ids(s, u))
  BY <1>2, <1>4
<1>7. ASSUME NEW u \in Tickets PROVE Chain(s.nodes, u, Ids(s, u))
  BY <1>1, <1>2, <1>4 DEF Sound
<1>8. ASSUME NEW u \in Open(s) PROVE LanedIn(s, u)
  <2>1. u \in Tickets /\ u \in Open(r) /\ LanedIn(r, u)
    BY <1>5, <1>8 DEF Sound, Open
  <2>2. \A v \in Open(s) : v \in Tickets /\ v \in Open(r)
    BY <1>5 DEF Open
  <2>3. CASE u = t
    <3>1. \A i \in 1..Len(w) : i \in 1..Len(Ids(r, t))
      BY <1>3, <1>a
    <3>2. w # <<>> => Ids(r, t) # <<>>
      BY <1>1, <1>3, <1>a
    <3> QED  BY <1>1, <1>3, <1>4, <2>1, <2>2, <2>3, <3>1, <3>2 DEF LanedIn
  <2>4. CASE u # t
    BY <1>1, <1>4, <2>1, <2>2, <2>4 DEF LanedIn
  <2> QED  BY <2>3, <2>4
<1>9. ASSUME NEW u \in Tickets PROVE StatusIs(s, u)
  <2>1. StatusIs(r, u) /\ Parent(u) \in Tickets
    BY ParentIs DEF Sound
  <2>2. Works(r.nodes, Ids(r, u)) => Works(r.nodes, Ids(s, u))
    BY <1>6
  <2>3. Clean(r.nodes, Ids(r, u)) => Ids(s, u) = Ids(r, u)
    BY <1>2, <1>4
  <2>4. Ids(r, u) = <<>> => Clean(r.nodes, Ids(r, u))
    BY DEF Clean
  <2>5. Joined(r, u) /\ Ids(s, u) = Ids(r, u) => Joined(s, u)
    <3> SUFFICES ASSUME Joined(r, u), Ids(s, u) = Ids(r, u) PROVE Joined(s, u)
      OBVIOUS
    <3>1. CASE Parent(u) # t
      <4>1. Ids(s, Parent(u)) = Ids(r, Parent(u))
        BY <1>4, <2>1, <3>1
      <4> QED  BY <1>1, <4>1 DEF Joined
    <3>2. CASE Parent(u) = t
      <4>1. PICK i \in 1..Len(Ids(r, t)) :
              /\ ~r.nodes[Ids(r, t)[i]].broken
              /\ Last(Ids(r, u)) \in ToSet(r.nodes[Ids(r, t)[i]].parents)
        BY <3>2 DEF Joined
      <4>2. i \in 1..Len(w) /\ w[i] = Ids(r, t)[i]
        BY <1>3, <1>a, <4>1
      <4>3. Ids(s, Parent(u)) = w
        BY <1>4, <3>2
      <4> QED  BY <1>1, <4>1, <4>2, <4>3 DEF Joined
    <3> QED  BY <3>1, <3>2
  <2>6. Works(r.nodes, Ids(r, Parent(u))) => Works(r.nodes, Ids(s, Parent(u)))
    BY <1>6, <2>1
  <2>7. /\ s.tickets[u].status = r.tickets[u].status /\ s.tickets[u].lane = r.tickets[u].lane
        /\ s.tickets[u].done = r.tickets[u].done /\ s.tickets[u].theirs = r.tickets[u].theirs
        /\ s.tickets[Parent(u)].status = r.tickets[Parent(u)].status
        /\ s.tickets[Parent(u)].theirs = r.tickets[Parent(u)].theirs
    BY <1>4, <2>1
  <2>8. r.tickets[u].ids = Ids(r, u) /\ s.tickets[u].ids = Ids(s, u)
    BY DEF Ids
  <2> QED  BY <1>1, <2>1, <2>2, <2>3, <2>4, <2>5, <2>6, <2>7, <2>8 DEF StatusIs
<1>10. Landed(s)
  <2>1. GoesOn(r.nodes, s.nodes) /\ \A n \in 1..Len(s.nodes) : ~(n > Len(r.nodes))
    BY <1>1 DEF GoesOn
  <2>2. ASSUME NEW u \in Tickets, s.tickets[u].status = "merged"
        PROVE  r.tickets[u].status = "merged" /\ Ids(s, u) = Ids(r, u)
    <3>1. r.tickets[u].status = "merged" /\ Clean(r.nodes, Ids(r, u))
      BY <1>4, <2>2 DEF Sound, StatusIs, Ids
    <3> QED  BY <1>2, <1>4, <3>1
  <2> QED  BY <1>1, <2>1, <2>2, LandedElsewhere
<1>11. Sound(s)
  BY <1>1, <1>7, <1>8, <1>9, <1>10 DEF Sound
<1> QED  BY <1>1, <1>2, <1>4, <1>5, <1>6, <1>11 DEF s

-----------------------------------------------------------------------------
(* A commit *)

\* A new column is nobody's.
LEMMA FreeLaneIs ==
  ASSUME NEW r \in Graph
  PROVE  /\ FreeLane(r) \in Nat /\ FreeLane(r) >= FirstFeatureLane
         /\ \A u \in Open(r) : r.tickets[u].lane # FreeLane(r)
<1> DEFINE taken == {r.tickets[u].lane : u \in Open(r)}
           N == Cardinality(Tickets)
           Columns == FirstFeatureLane..(FirstFeatureLane + N)
           T == {l \in Columns : l \notin taken}
<1>1. IsFiniteSet(Tickets) /\ N \in Nat
  <2>1. IsFiniteSet(0..MaxObstacles)
    BY BranchesAssumption, FS_Interval
  <2>2. IsFiniteSet(Tickets)
    BY <2>1, BranchesAssumption, FS_Product DEF Tickets
  <2> QED  BY <2>2, FS_CardinalityType
<1>2. IsFiniteSet(taken) /\ Cardinality(taken) <= N /\ Cardinality(taken) \in Nat
  <2>1. IsFiniteSet(Open(r)) /\ Cardinality(Open(r)) <= N
    BY <1>1, FS_Subset DEF Open
  <2> DEFINE f == [u \in Open(r) |-> r.tickets[u].lane]
  <2>2. f \in Surjection(Open(r), taken)
    BY DEF Surjection
  <2> HIDE DEF f, taken
  <2>3. IsFiniteSet(taken) /\ Cardinality(taken) <= Cardinality(Open(r))
    BY <2>1, <2>2, FS_Surjection
  <2> QED  BY <1>1, <2>1, <2>3, FS_CardinalityType
<1>3. T # {}
  <2> SUFFICES ASSUME Columns \subseteq taken PROVE FALSE
    OBVIOUS
  <2>1. Cardinality(Columns) = N + 1
    BY <1>1, FS_Interval DEF FirstFeatureLane
  <2> HIDE DEF Columns, taken
  <2>2. Cardinality(Columns) <= Cardinality(taken)
    BY <1>2, FS_Subset
  <2> QED  BY <1>1, <1>2, <2>1, <2>2
<1>4. PICK l \in T : \A k \in T : l <= k
  <2>1. T \subseteq Nat
    BY <1>1 DEF FirstFeatureLane
  <2> HIDE DEF T
  <2> QED  BY <1>3, <2>1, LeastOne
<1>5. \A k \in FirstFeatureLane..(l - 1) : k \in taken
  <2> HIDE DEF taken
  <2> TAKE k \in FirstFeatureLane..(l - 1)
  <2>1. k \in Columns /\ ~(l <= k)
    BY <1>1, <1>4 DEF FirstFeatureLane
  <2> QED  BY <1>4, <2>1
<1>6. FreeLane(r) = CHOOSE m \in Columns :
                      m \notin taken /\ \A k \in FirstFeatureLane..(m - 1) : k \in taken
  BY DEF FreeLane
<1>7. FreeLane(r) \in Columns /\ FreeLane(r) \notin taken
  <2> HIDE DEF taken, Columns
  <2> QED  BY <1>4, <1>5, <1>6
<1> QED  BY <1>1, <1>7 DEF FirstFeatureLane

\* The last commit of a ticket.
LEMMA LastOf ==
  ASSUME NEW r, Sound(r), NEW t \in Tickets, Ids(r, t) # <<>>
  PROVE  /\ Len(Ids(r, t)) \in 1..Len(Ids(r, t)) /\ Last(Ids(r, t)) = Ids(r, t)[Len(Ids(r, t))]
         /\ Last(Ids(r, t)) \in 1..Len(r.nodes) /\ r.nodes[Last(Ids(r, t))].ticket = t
<1>1. Ids(r, t) \in Seq(Nat) /\ Chain(r.nodes, t, Ids(r, t))
  BY GraphIs DEF Sound
<1>2. Len(Ids(r, t)) \in 1..Len(Ids(r, t)) /\ Last(Ids(r, t)) = Ids(r, t)[Len(Ids(r, t))]
  BY <1>1 DEF Last
<1> QED  BY <1>1, <1>2 DEF Chain

\* Whoever works has written.
LEMMA WorksIsWritten ==
  ASSUME NEW ns, NEW ids \in Seq(Nat), Works(ns, ids)
  PROVE  ids # <<>>
BY DEF Works

\* Where a commit goes.
LEMMA ForkPointIs ==
  ASSUME NEW r, Sound(r), NEW t \in Open(r)
  PROVE  /\ ForkPoint(r, t) \in 1..Len(r.nodes)
         /\ Ids(r, t) # <<>> => ForkPoint(r, t) = Last(Ids(r, t))
         /\ Ids(r, t) = <<>> => IF IsObstacle(t) THEN r.nodes[ForkPoint(r, t)].ticket = Parent(t)
                                ELSE r.nodes[ForkPoint(r, t)].lane = Dev
<1>1. t \in Tickets /\ Parent(t) \in Tickets /\ r.tickets[t].status = "open"
  BY ParentIs DEF Open
<1>2. CASE Ids(r, t) # <<>>
  BY <1>1, <1>2, LastOf DEF ForkPoint, Ids
<1>3. CASE Ids(r, t) = <<>> /\ IsObstacle(t)
  <2>1. ForkPoint(r, t) = Last(Ids(r, Parent(t)))
    BY <1>3 DEF ForkPoint, Ids
  <2>2. Works(r.nodes, Ids(r, Parent(t)))
    BY <1>1, <1>3 DEF Sound, StatusIs
  <2>3. Ids(r, Parent(t)) \in Seq(Nat)
    BY <1>1, GraphIs DEF Sound
  <2>4. Ids(r, Parent(t)) # <<>>
    BY <2>2, <2>3, WorksIsWritten
  <2> QED  BY <1>1, <1>3, <2>1, <2>4, LastOf
<1>4. CASE Ids(r, t) = <<>> /\ ~IsObstacle(t)
  <2>1. ForkPoint(r, t) = TipOfLane(r, Dev)
    BY <1>4 DEF ForkPoint, Ids
  <2>2. r.nodes \in Seq(GraphNode) /\ Rooted(r.nodes)
    BY GraphIs DEF Sound
  <2> QED  BY <1>4, <2>1, <2>2, TipIs
<1> QED  BY <1>2, <1>3, <1>4

LEMMA LaneOfIs ==
  ASSUME NEW r, Sound(r), NEW t \in Open(r)
  PROVE  /\ LaneOf(r, t) \in Nat /\ LaneOf(r, t) >= FirstFeatureLane
         /\ \A u \in Open(r) : u # t => r.tickets[u].lane # LaneOf(r, t)
         /\ Ids(r, t) # <<>> => LaneOf(r, t) = r.tickets[t].lane
<1>1. /\ r \in Graph /\ t \in Tickets /\ r.tickets[t].lane \in Nat
      /\ LanedIn(r, t) /\ \A u \in Open(r) : LanedIn(r, u)
  BY GraphIs DEF Sound, Open
<1>2. CASE r.tickets[t].lane = NoLane
  <2>1. LaneOf(r, t) = FreeLane(r)
    BY <1>2 DEF LaneOf
  <2> QED  BY <1>1, <1>2, <2>1, FreeLaneIs DEF LanedIn
<1>3. CASE r.tickets[t].lane # NoLane
  <2>1. LaneOf(r, t) = r.tickets[t].lane
    BY <1>3 DEF LaneOf
  <2> QED  BY <1>1, <1>3, <2>1 DEF LanedIn
<1> QED  BY <1>2, <1>3

\* The node of a commit, and where it is noted.
Written(r, t, broken, theirs) ==
  Node("commit", LaneOf(r, t), <<ForkPoint(r, t)>>, t, broken, theirs)

WrittenOn(r, t) ==
  [r.tickets[t] EXCEPT !.ids = Append(Ids(r, t), Len(r.nodes) + 1), !.lane = LaneOf(r, t)]

LEMMA CommitIs ==
  ASSUME NEW r, Sound(r), NEW t \in Open(r), NEW broken \in BOOLEAN, NEW theirs \in BOOLEAN
  PROVE  LET s == Commit(r, t, broken, theirs)
         IN /\ s \in Graph /\ Written(r, t, broken, theirs) \in GraphNode
            /\ s.nodes = Append(r.nodes, Written(r, t, broken, theirs))
            /\ s.tickets = [r.tickets EXCEPT ![t] = WrittenOn(r, t)]
<1> DEFINE node == Written(r, t, broken, theirs)
           new == Len(r.nodes) + 1
           k == [r.tickets[t] EXCEPT !.ids = Append(Ids(r, t), new), !.lane = LaneOf(r, t)]
<1>1. /\ r \in Graph /\ t \in Tickets /\ r.nodes \in Seq(GraphNode) /\ new \in Nat
      /\ r.tickets \in [Tickets -> GraphTicket] /\ r.tickets[t] \in GraphTicket
  BY GraphIs DEF Sound, Open
<1>2. LaneOf(r, t) \in Nat /\ ForkPoint(r, t) \in Nat
  <2>1. Len(r.nodes) \in Nat
    BY <1>1
  <2> QED  BY <2>1, LaneOfIs, ForkPointIs
<1>3. node \in GraphNode
  <2>1. <<ForkPoint(r, t)>> \in Seq(Nat)
    BY <1>2
  <2> QED  BY <1>1, <1>2, <2>1 DEF Written, Node, GraphNode
<1>4. k \in GraphTicket
  <2>1. Ids(r, t) \in Seq(Nat)
    BY <1>1, GraphIs
  <2>2. Append(Ids(r, t), new) \in Seq(Nat)
    BY <1>1, <2>1
  <2> HIDE DEF new
  <2> QED  BY <1>1, <1>2, <2>2 DEF GraphTicket
<1>6. node.ticket = t
  BY DEF Written, Node
<1> DEFINE mid == WithNode(r, node)
           s == Commit(r, t, broken, theirs)
<1>7. s = [mid EXCEPT !.tickets[t].lane = LaneOf(r, t)]
  BY DEF Commit, Written
<1>8. mid = [r EXCEPT !.nodes = Append(@, node), !.tickets[t].ids = Append(@, new)]
  BY <1>6 DEF WithNode
<1> HIDE DEF node, new
<1>9. /\ mid.nodes = Append(r.nodes, node)
      /\ mid.tickets = [r.tickets EXCEPT ![t].ids = Append(@, new)]
      /\ mid = [nodes |-> Append(r.nodes, node),
                tickets |-> [r.tickets EXCEPT ![t].ids = Append(@, new)]]
  BY <1>1, <1>8 DEF Graph
<1> HIDE DEF mid
<1>10. s = [nodes |-> Append(r.nodes, node),
            tickets |-> [mid.tickets EXCEPT ![t].lane = LaneOf(r, t)]]
  BY <1>7, <1>9
<1>11. [mid.tickets EXCEPT ![t].lane = LaneOf(r, t)] = [r.tickets EXCEPT ![t] = k]
  <2>1. mid.tickets[t] = [r.tickets[t] EXCEPT !.ids = Append(@, new)]
    BY <1>1, <1>9
  <2>2. [mid.tickets[t] EXCEPT !.lane = LaneOf(r, t)] = k
    BY <1>1, <2>1 DEF GraphTicket, Ids
  <2>3. [mid.tickets EXCEPT ![t].lane = LaneOf(r, t)] = [mid.tickets EXCEPT ![t] = k]
    BY <2>2
  <2> HIDE DEF k
  <2> QED  BY <1>1, <1>9, <2>3
<1>12. s \in Graph
  <2>1. [r.tickets EXCEPT ![t] = k] \in [Tickets -> GraphTicket]
    <3> HIDE DEF k
    <3> QED  BY <1>1, <1>4
  <2>2. Append(r.nodes, node) \in Seq(GraphNode)
    BY <1>1, <1>3
  <2> HIDE DEF s, k
  <2> QED  BY <1>10, <1>11, <2>1, <2>2 DEF Graph
<1>13. k = WrittenOn(r, t)
  BY DEF WrittenOn, new
<1> HIDE DEF k, s
<1>14. s.tickets = [r.tickets EXCEPT ![t] = k] /\ s.nodes = Append(r.nodes, node)
  BY <1>10, <1>11
<1> QED  BY <1>3, <1>12, <1>13, <1>14 DEF node, s

LEMMA CommitFields ==
  ASSUME NEW r, Sound(r), NEW t \in Open(r), NEW broken \in BOOLEAN, NEW theirs \in BOOLEAN,
         NEW u \in Tickets
  PROVE  LET s == Commit(r, t, broken, theirs)
         IN /\ s.tickets[u].status = r.tickets[u].status
            /\ s.tickets[u].done = r.tickets[u].done /\ s.tickets[u].theirs = r.tickets[u].theirs
            /\ s.tickets[u].lane = IF u = t THEN LaneOf(r, t) ELSE r.tickets[u].lane
            /\ Ids(s, u) = IF u = t THEN Append(Ids(r, t), Len(r.nodes) + 1) ELSE Ids(r, u)
<1>1. r \in Graph /\ r.tickets \in [Tickets -> GraphTicket] /\ r.tickets[u] \in GraphTicket /\ t \in Tickets
  BY GraphIs DEF Sound, Open
<1> DEFINE s == Commit(r, t, broken, theirs)
<1>2. s.tickets = [r.tickets EXCEPT ![t] = WrittenOn(r, t)]
  BY CommitIs
<1>3. /\ WrittenOn(r, t).status = r.tickets[t].status /\ WrittenOn(r, t).done = r.tickets[t].done
      /\ WrittenOn(r, t).theirs = r.tickets[t].theirs /\ WrittenOn(r, t).lane = LaneOf(r, t)
      /\ WrittenOn(r, t).ids = Append(Ids(r, t), Len(r.nodes) + 1)
  <2>1. r.tickets[t] \in GraphTicket
    BY <1>1
  <2> QED  BY <2>1 DEF WrittenOn, GraphTicket
<1> HIDE DEF s
<1>4. s.tickets[u] = IF u = t THEN WrittenOn(r, t) ELSE r.tickets[u]
  BY <1>1, <1>2
<1> QED  BY <1>3, <1>4 DEF Ids, s

\* What has joined a feature stays joined while the feature's commits do.
LEMMA JoinedStays ==
  ASSUME NEW r, Sound(r), NEW s, GoesOn(r.nodes, s.nodes), NEW u \in Tickets, Joined(r, u),
         Ids(s, u) = Ids(r, u),
         \A i \in 1..Len(Ids(r, Parent(u))) :
           ~r.nodes[Ids(r, Parent(u))[i]].broken =>
             i \in 1..Len(Ids(s, Parent(u))) /\ Ids(s, Parent(u))[i] = Ids(r, Parent(u))[i]
  PROVE  Joined(s, u)
<1> DEFINE p == Parent(u)
<1>1. p \in Tickets /\ Chain(r.nodes, p, Ids(r, p))
  BY ParentIs DEF Sound
<1>2. PICK i \in 1..Len(Ids(r, p)) :
        /\ ~r.nodes[Ids(r, p)[i]].broken
        /\ Last(Ids(r, u)) \in ToSet(r.nodes[Ids(r, p)[i]].parents)
  BY DEF Joined
<1>3. Ids(r, p)[i] \in 1..Len(r.nodes)
  BY <1>1, <1>2 DEF Chain
<1>4. s.nodes[Ids(r, p)[i]] = r.nodes[Ids(r, p)[i]]
  BY <1>3 DEF GoesOn
<1>5. i \in 1..Len(Ids(s, p)) /\ Ids(s, p)[i] = Ids(r, p)[i]
  BY <1>2
<1> QED  BY <1>2, <1>4, <1>5 DEF Joined

LEMMA CommitSound ==
  ASSUME NEW r, Sound(r), NEW t \in Open(r), NEW broken \in BOOLEAN, NEW theirs \in BOOLEAN,
         broken \/ Clean(r.nodes, Ids(r, t)), r.tickets[t].theirs => ~broken
  PROVE  LET s == Commit(r, t, broken, theirs)
         IN /\ Sound(s) /\ Open(s) = Open(r) /\ GoesOn(r.nodes, s.nodes)
            /\ HoldsForGood(s, t)
            /\ ~broken => Works(s.nodes, Ids(s, t))
            /\ \A u \in Tickets : Works(r.nodes, Ids(r, u)) => Works(s.nodes, Ids(s, u))
<1> DEFINE s == Commit(r, t, broken, theirs)
           node == Written(r, t, broken, theirs)
           new == Len(r.nodes) + 1
           ids == Append(Ids(r, t), new)
<1>1. /\ r \in Graph /\ Rooted(r.nodes) /\ r.nodes \in Seq(GraphNode) /\ t \in Tickets
      /\ r.tickets[t].status = "open"
  BY GraphIs DEF Sound, Open
<1>2. s \in Graph /\ s.nodes = Append(r.nodes, node) /\ node \in GraphNode
  BY CommitIs
<1>3. /\ node.ticket = t /\ node.broken = broken /\ node.lane = LaneOf(r, t)
      /\ node.parents = <<ForkPoint(r, t)>>
  BY DEF Written, Node
<1>4. ASSUME NEW u \in Tickets
      PROVE  /\ s.tickets[u].status = r.tickets[u].status
             /\ s.tickets[u].done = r.tickets[u].done /\ s.tickets[u].theirs = r.tickets[u].theirs
             /\ s.tickets[u].lane = IF u = t THEN LaneOf(r, t) ELSE r.tickets[u].lane
             /\ Ids(s, u) = IF u = t THEN ids ELSE Ids(r, u)
  BY CommitFields
<1> HIDE DEF s, node, ids
<1>5. Open(s) = Open(r)
  BY <1>4 DEF Open
<1>6. /\ node.parents # <<>> /\ Head(node.parents) = ForkPoint(r, t)
      /\ \A p \in ToSet(node.parents) : p \in 1..Len(r.nodes)
  <2>1. ForkPoint(r, t) \in 1..Len(r.nodes)
    BY ForkPointIs
  <2> QED  BY <1>3, <2>1 DEF ToSet
<1>7. /\ s.nodes \in Seq(GraphNode) /\ Len(s.nodes) = new /\ s.nodes[new] = node
      /\ GoesOn(r.nodes, s.nodes) /\ Rooted(s.nodes) /\ Len(r.nodes) \in Nat
  BY <1>1, <1>2, <1>6, OneNodeMore
<1>8. Ids(r, t) \in Seq(Nat) /\ Chain(r.nodes, t, Ids(r, t))
  BY <1>1, GraphIs DEF Sound
<1>9. /\ Chain(s.nodes, t, ids)
      /\ ~broken => Works(s.nodes, ids) /\ Clean(s.nodes, ids)
      /\ Works(r.nodes, Ids(r, t)) => Works(s.nodes, ids)
  <2>1. /\ Ids(r, t) # <<>> => Head(node.parents) = Last(Ids(r, t))
        /\ Ids(r, t) = <<>> => IF IsObstacle(t) THEN r.nodes[Head(node.parents)].ticket = Parent(t)
                               ELSE r.nodes[Head(node.parents)].lane = Dev
    BY <1>6, ForkPointIs
  <2>2. /\ Chain(Append(r.nodes, node), t, Append(Ids(r, t), Len(r.nodes) + 1))
        /\ ~node.broken => Works(Append(r.nodes, node), Append(Ids(r, t), Len(r.nodes) + 1))
                           /\ Clean(Append(r.nodes, node), Append(Ids(r, t), Len(r.nodes) + 1))
        /\ Works(r.nodes, Ids(r, t)) =>
             Works(Append(r.nodes, node), Append(Ids(r, t), Len(r.nodes) + 1))
    BY <1>1, <1>2, <1>3, <1>6, <1>8, <2>1, ChainGrows
  <2> QED  BY <1>2, <1>3, <2>2 DEF ids
<1>10. ASSUME NEW u \in Tickets, u # t
       PROVE  /\ Ids(s, u) = Ids(r, u) /\ Ids(r, u) \in Seq(Nat)
              /\ Chain(r.nodes, u, Ids(r, u)) /\ Chain(s.nodes, u, Ids(s, u))
              /\ Works(s.nodes, Ids(s, u)) <=> Works(r.nodes, Ids(r, u))
              /\ Clean(s.nodes, Ids(s, u)) <=> Clean(r.nodes, Ids(r, u))
  <2>1. Ids(r, u) \in Seq(Nat) /\ Chain(r.nodes, u, Ids(r, u))
    BY <1>1, GraphIs DEF Sound
  <2>2. Ids(s, u) = Ids(r, u)
    BY <1>4, <1>10
  <2> QED  BY <1>1, <1>7, <2>1, <2>2, ChainStays
<1>11. /\ Ids(s, t) = ids /\ Len(ids) = Len(Ids(r, t)) + 1 /\ Len(Ids(r, t)) \in Nat
       /\ ids # <<>> /\ ids[Len(Ids(r, t)) + 1] = new
       /\ \A i \in 1..Len(Ids(r, t)) : ids[i] = Ids(r, t)[i]
  <2>1. /\ Len(ids) = Len(Ids(r, t)) + 1 /\ Len(Ids(r, t)) \in Nat
        /\ ids # <<>> /\ ids[Len(Ids(r, t)) + 1] = new
        /\ \A i \in 1..Len(Ids(r, t)) : ids[i] = Ids(r, t)[i]
    BY <1>7, <1>8 DEF ids
  <2> QED  BY <1>1, <1>4, <2>1
<1>12. \A u \in Tickets : Works(r.nodes, Ids(r, u)) => Works(s.nodes, Ids(s, u))
  BY <1>9, <1>10, <1>11
<1>13. \A u \in Tickets : Chain(s.nodes, u, Ids(s, u))
  BY <1>9, <1>10, <1>11
<1>14. ASSUME NEW u \in Open(s) PROVE LanedIn(s, u)
  <2>1. /\ u \in Tickets /\ u \in Open(r) /\ LanedIn(r, u)
        /\ \A v \in Open(s) : v \in Open(r) /\ v \in Tickets
    BY <1>5, <1>14 DEF Sound, Open
  <2>2. CASE u = t
    <3>1. /\ LaneOf(r, t) \in Nat /\ LaneOf(r, t) >= FirstFeatureLane
          /\ \A v \in Open(r) : v # t => r.tickets[v].lane # LaneOf(r, t)
          /\ Ids(r, t) # <<>> => LaneOf(r, t) = r.tickets[t].lane
      BY LaneOfIs
    <3>2. s.tickets[t].lane = LaneOf(r, t)
      BY <1>1, <1>4
    <3>3. ASSUME NEW i \in 1..Len(ids) PROVE s.nodes[ids[i]].lane = LaneOf(r, t)
      <4>1. CASE i = Len(Ids(r, t)) + 1
        BY <1>3, <1>7, <1>11, <4>1
      <4>2. CASE i # Len(Ids(r, t)) + 1
        <5>1. i \in 1..Len(Ids(r, t))
          BY <1>11, <4>2
        <5>2. Ids(r, t) # <<>> /\ ids[i] = Ids(r, t)[i] /\ Ids(r, t)[i] \in 1..Len(r.nodes)
          BY <1>8, <1>11, <5>1 DEF Chain
        <5>3. r.nodes[Ids(r, t)[i]].lane = r.tickets[t].lane
          BY <2>1, <2>2, <5>1 DEF LanedIn
        <5> QED  BY <1>7, <3>1, <5>2, <5>3 DEF GoesOn
      <4> QED  BY <4>1, <4>2
    <3>4. \A v \in Open(s) : v # t => s.tickets[v].lane # LaneOf(r, t)
      BY <1>4, <2>1, <3>1
    <3>5. LaneOf(r, t) # NoLane
      BY <3>1 DEF FirstFeatureLane, NoLane
    <3> QED  BY <1>11, <2>2, <3>1, <3>2, <3>3, <3>4, <3>5 DEF LanedIn
  <2>3. CASE u # t
    <3>1. Ids(s, u) = Ids(r, u) /\ Chain(r.nodes, u, Ids(r, u)) /\ s.tickets[u].lane = r.tickets[u].lane
      BY <1>4, <1>10, <2>1, <2>3
    <3>2. \A i \in 1..Len(Ids(r, u)) : s.nodes[Ids(r, u)[i]] = r.nodes[Ids(r, u)[i]]
      BY <1>7, <3>1 DEF Chain, GoesOn
    <3>3. ASSUME NEW v \in Open(s), v # u, s.tickets[v].lane = r.tickets[u].lane
          PROVE  r.tickets[u].lane = NoLane
      <4>1. CASE v = t
        <5>1. s.tickets[v].lane = LaneOf(r, t)
          BY <1>1, <1>4, <4>1
        <5> QED  BY <2>1, <2>3, <3>3, <5>1, LaneOfIs
      <4>2. CASE v # t
        BY <1>4, <2>1, <3>3, <4>2 DEF LanedIn
      <4> QED  BY <4>1, <4>2
    <3> QED  BY <2>1, <3>1, <3>2, <3>3 DEF LanedIn
  <2> QED  BY <2>2, <2>3
<1>15. ASSUME NEW u \in Tickets PROVE StatusIs(s, u)
  <2>1. StatusIs(r, u) /\ Parent(u) \in Tickets
    BY ParentIs DEF Sound
  <2>2. /\ s.tickets[u].status = r.tickets[u].status
        /\ s.tickets[u].done = r.tickets[u].done /\ s.tickets[u].theirs = r.tickets[u].theirs
        /\ s.tickets[Parent(u)].status = r.tickets[Parent(u)].status
        /\ s.tickets[Parent(u)].theirs = r.tickets[Parent(u)].theirs
    BY <1>4, <2>1
  <2>3. r.tickets[u].ids = Ids(r, u) /\ s.tickets[u].ids = Ids(s, u)
    BY DEF Ids
  <2>4. /\ Works(r.nodes, Ids(r, u)) => Works(s.nodes, Ids(s, u))
        /\ Works(r.nodes, Ids(r, Parent(u))) => Works(s.nodes, Ids(s, Parent(u)))
    BY <1>12, <2>1
  <2>5. CASE u = t
    BY <1>1, <1>9, <1>11, <2>1, <2>2, <2>3, <2>4, <2>5 DEF StatusIs
  <2>6. CASE u # t
    <3>1. /\ Ids(s, u) = Ids(r, u) /\ s.tickets[u].lane = r.tickets[u].lane
          /\ Clean(s.nodes, Ids(s, u)) <=> Clean(r.nodes, Ids(r, u))
      BY <1>4, <1>10, <2>6
    <3>2. Joined(r, u) => Joined(s, u)
      <4> SUFFICES ASSUME Joined(r, u) PROVE Joined(s, u)
        OBVIOUS
      <4>1. ASSUME NEW i \in 1..Len(Ids(r, Parent(u)))
            PROVE  i \in 1..Len(Ids(s, Parent(u))) /\ Ids(s, Parent(u))[i] = Ids(r, Parent(u))[i]
        <5>1. CASE Parent(u) = t
          BY <1>11, <4>1, <5>1
        <5>2. CASE Parent(u) # t
          BY <1>4, <2>1, <4>1, <5>2
        <5> QED  BY <5>1, <5>2
      <4> QED  BY <1>7, <3>1, <4>1, JoinedStays
    <3> QED  BY <2>1, <2>2, <2>3, <2>4, <3>1, <3>2 DEF StatusIs
  <2> QED  BY <2>5, <2>6
<1>16. Landed(s)
  <2>1. \A n \in 1..Len(s.nodes) : n > Len(r.nodes) => s.nodes[n].lane # Dev
    <3>1. \A n \in 1..Len(s.nodes) : n > Len(r.nodes) => n = new
      BY <1>7
    <3>2. node.lane # Dev
      BY <1>3, LaneOfIs DEF FirstFeatureLane, Dev
    <3> QED  BY <1>7, <3>1, <3>2
  <2>2. \A u \in Tickets : s.tickets[u].status = "merged" =>
          r.tickets[u].status = "merged" /\ Ids(s, u) = Ids(r, u)
    BY <1>1, <1>4
  <2> QED  BY <1>2, <1>7, <2>1, <2>2, LandedElsewhere
<1>17. Sound(s)
  BY <1>2, <1>7, <1>13, <1>14, <1>15, <1>16 DEF Sound
<1>18. HoldsForGood(s, t)
  BY <1>11 DEF HoldsForGood
<1> QED  BY <1>5, <1>7, <1>9, <1>11, <1>12, <1>17, <1>18 DEF s

-----------------------------------------------------------------------------
(* What changes no commit *)

\* Tickets that open, that change hands, that fill or empty.
LEMMA RelabelledSound ==
  ASSUME NEW r, Sound(r), NEW s \in Graph, s.nodes = r.nodes,
         \A u \in Tickets :
           /\ Ids(s, u) = Ids(r, u) /\ s.tickets[u].lane = r.tickets[u].lane
           /\ \/ s.tickets[u].status = r.tickets[u].status
              \/ /\ s.tickets[u].status = "open"
                 /\ r.tickets[u].status = IF IsObstacle(u) THEN "none" ELSE "backlog"
                 /\ IsObstacle(u) => Works(r.nodes, Ids(r, Parent(u)))
           /\ s.tickets[u].status = "open" => /\ s.tickets[Parent(u)].status = "open"
                                              /\ s.tickets[Parent(u)].theirs = s.tickets[u].theirs
           /\ s.tickets[u].theirs =>
                /\ s.tickets[u].status = "open"
                /\ r.tickets[u].theirs \/ r.tickets[u].status # "open"
           /\ s.tickets[u].done => r.tickets[u].done \/ Works(r.nodes, Ids(r, u))
           /\ Open(r) \subseteq Open(s)
  PROVE  /\ Sound(s)
         /\ \A u \in Open(s) : (u \in Open(r) => HoldsForGood(r, u)) => HoldsForGood(s, u)
<1>1. /\ r \in Graph /\ Rooted(r.nodes) /\ r.nodes \in Seq(GraphNode)
      /\ GoesOn(r.nodes, s.nodes) /\ \A n \in 1..Len(s.nodes) : ~(n > Len(r.nodes))
  BY GraphIs DEF Sound, GoesOn
<1>2. ASSUME NEW u \in Tickets
      PROVE  /\ Ids(s, u) = Ids(r, u) /\ s.tickets[u].ids = Ids(r, u) /\ r.tickets[u].ids = Ids(r, u)
             /\ Chain(r.nodes, u, Ids(r, u)) /\ StatusIs(r, u)
             /\ r.tickets[u].status \in {"none", "backlog"} =>
                  Ids(r, u) = <<>> /\ r.tickets[u].lane = NoLane /\ ~r.tickets[u].done
             /\ r.tickets[u].status \in {"none", "backlog", "open", "merged"}
  <2>1. /\ Ids(s, u) = Ids(r, u) /\ s.tickets[u].ids = Ids(r, u) /\ r.tickets[u].ids = Ids(r, u)
        /\ Chain(r.nodes, u, Ids(r, u)) /\ StatusIs(r, u)
    BY DEF Ids, Sound
  <2>2. r.tickets[u] \in GraphTicket
    BY <1>1, GraphIs
  <2> QED  BY <2>1, <2>2 DEF StatusIs, GraphTicket
<1>3. ASSUME NEW u \in Open(s)
      PROVE  /\ u \in Tickets
             /\ u \in Open(r) \/ (Ids(s, u) = <<>> /\ s.tickets[u].lane = NoLane)
  <2>1. u \in Tickets /\ s.tickets[u].status = "open"
    BY DEF Open
  <2>2. CASE r.tickets[u].status = "open"
    BY <2>1, <2>2 DEF Open
  <2>3. CASE r.tickets[u].status \in {"none", "backlog"}
    BY <1>2, <2>1, <2>3
  <2> QED  BY <2>1, <2>2, <2>3
<1>4. ASSUME NEW u \in Open(s) PROVE LanedIn(s, u)
  <2>1. u \in Tickets /\ s.tickets[u].lane = r.tickets[u].lane /\ Ids(s, u) = Ids(r, u)
    BY <1>3
  <2>2. CASE u \in Open(r)
    <3>1. LanedIn(r, u)
      BY <2>2 DEF Sound
    <3>2. ASSUME NEW v \in Open(s), v # u, s.tickets[v].lane = s.tickets[u].lane
          PROVE  s.tickets[u].lane = NoLane
      <4>1. v \in Tickets /\ s.tickets[v].lane = r.tickets[v].lane
        BY <1>3
      <4> QED  BY <1>3, <2>1, <3>1, <3>2, <4>1 DEF LanedIn
    <3> QED  BY <2>1, <3>1, <3>2 DEF LanedIn
  <2>3. CASE u \notin Open(r)
    <3>1. Ids(s, u) = <<>> /\ s.tickets[u].lane = NoLane
      BY <1>3, <2>3
    <3> QED  BY <3>1 DEF LanedIn
  <2> QED  BY <2>2, <2>3
<1>5. ASSUME NEW u \in Tickets PROVE StatusIs(s, u)
  <2>1. Parent(u) \in Tickets /\ Ids(s, Parent(u)) = Ids(r, Parent(u))
    BY ParentIs
  <2>2. Joined(r, u) => Joined(s, u)
    BY <1>2, <2>1 DEF Joined
  <2>3. r.tickets[u].theirs => r.tickets[u].status = "open" /\ Clean(r.nodes, Ids(r, u))
    BY <1>2 DEF StatusIs
  <2>4. Ids(r, u) = <<>> => Clean(r.nodes, Ids(r, u))
    BY DEF Clean
  <2>5. /\ IsObstacle(u) => r.tickets[u].status # "backlog"
        /\ IsObstacle(u) /\ r.tickets[u].status # "none" => Works(r.nodes, Ids(r, Parent(u)))
        /\ r.tickets[u].done => Works(r.nodes, Ids(r, u))
        /\ r.tickets[u].status = "merged" => Works(r.nodes, Ids(r, u)) /\ Clean(r.nodes, Ids(r, u))
        /\ r.tickets[u].status = "merged" /\ IsObstacle(u) => Joined(r, u)
    BY <1>2 DEF StatusIs
  <2>6. s.tickets[u].status \in {"none", "backlog"} =>
          Ids(r, u) = <<>> /\ s.tickets[u].lane = NoLane /\ ~s.tickets[u].done
    <3>1. Ids(r, u) = <<>> => ~Works(r.nodes, Ids(r, u))
      BY DEF Works
    <3> QED  BY <1>2, <3>1
  <2>7. /\ IsObstacle(u) => s.tickets[u].status # "backlog"
        /\ IsObstacle(u) /\ s.tickets[u].status # "none" => Works(r.nodes, Ids(r, Parent(u)))
        /\ s.tickets[u].status = "open" => /\ s.tickets[Parent(u)].status = "open"
                                           /\ s.tickets[Parent(u)].theirs = s.tickets[u].theirs
        /\ s.tickets[u].done => Works(r.nodes, Ids(r, u))
        /\ s.tickets[u].status = "merged" => Works(r.nodes, Ids(r, u)) /\ Clean(r.nodes, Ids(r, u))
        /\ s.tickets[u].status = "merged" /\ IsObstacle(u) => Joined(s, u)
    BY <2>2, <2>5
  <2>8. s.tickets[u].theirs => s.tickets[u].status = "open" /\ Clean(r.nodes, Ids(r, u))
    BY <1>2, <2>3, <2>4
  <2>9. Works(s.nodes, Ids(s, u)) <=> Works(r.nodes, Ids(r, u))
    BY <1>2
  <2> QED  BY <1>2, <2>1, <2>6, <2>7, <2>8 DEF StatusIs
<1>6. Landed(s)
  BY <1>1, LandedElsewhere
<1>7. \A u \in Tickets : Chain(s.nodes, u, Ids(s, u))
  BY <1>2
<1>8. Sound(s)
  BY <1>1, <1>4, <1>5, <1>6, <1>7 DEF Sound
<1> QED  BY <1>3, <1>8 DEF HoldsForGood

\* What a step leaves of the graph, whose it is: `t` apart, tickets keep their
\* status and their hands, but for an obstacle that turns up on `t`.
Advances(r, s, t) ==
  /\ Sound(s)
  /\ \A u \in Open(s) : u # t /\ (u \in Open(r) => HoldsForGood(r, u)) => HoldsForGood(s, u)
  /\ \A u \in Tickets : u # t =>
       /\ Works(r.nodes, Ids(r, u)) => Works(s.nodes, Ids(s, u))
       /\ \/ /\ s.tickets[u].status = r.tickets[u].status
             /\ s.tickets[u].theirs = r.tickets[u].theirs
          \/ /\ IsObstacle(u) /\ Parent(u) = t /\ r.tickets[u].status = "none"
             /\ s.tickets[u].status = "open" /\ s.tickets[u].theirs = r.tickets[t].theirs

LEMMA FilledIs ==
  ASSUME NEW r \in Graph, NEW t \in Tickets, NEW full \in BOOLEAN
  PROVE  /\ Filled(r, t, full) \in Graph /\ Filled(r, t, full).nodes = r.nodes
         /\ \A u \in Tickets :
              LET k == Filled(r, t, full).tickets[u]
              IN /\ k.status = r.tickets[u].status /\ k.theirs = r.tickets[u].theirs
                 /\ k.lane = r.tickets[u].lane /\ k.ids = r.tickets[u].ids
                 /\ k.done = IF u = t THEN full ELSE r.tickets[u].done
<1>1. r.tickets \in [Tickets -> GraphTicket]
  BY DEF Graph
<1> DEFINE all == [r.tickets EXCEPT ![t].done = full]
<1>2. Filled(r, t, full) = [r EXCEPT !.tickets = all]
  BY DEF Filled, Graph
<1>3. all \in [Tickets -> GraphTicket]
  BY <1>1 DEF GraphTicket
<1>4. ASSUME NEW u \in Tickets
      PROVE  /\ all[u].status = r.tickets[u].status /\ all[u].theirs = r.tickets[u].theirs
             /\ all[u].lane = r.tickets[u].lane /\ all[u].ids = r.tickets[u].ids
             /\ all[u].done = IF u = t THEN full ELSE r.tickets[u].done
  <2>1. all[u] = IF u = t THEN [r.tickets[u] EXCEPT !.done = full] ELSE r.tickets[u]
    BY <1>1
  <2>2. r.tickets[u] \in GraphTicket
    BY <1>1
  <2> HIDE DEF all
  <2> QED  BY <2>1, <2>2 DEF GraphTicket
<1> HIDE DEF all
<1>5. /\ Filled(r, t, full) \in Graph /\ Filled(r, t, full).nodes = r.nodes
      /\ Filled(r, t, full).tickets = all
  BY <1>2, <1>3 DEF Graph
<1> QED  BY <1>4, <1>5

\* A ticket that has something that works may be full; one that empties is not.
LEMMA FilledAdvances ==
  ASSUME NEW r, Sound(r), NEW t \in Open(r), NEW full \in BOOLEAN,
         full => r.tickets[t].done \/ Works(r.nodes, Ids(r, t))
  PROVE  LET s == Filled(r, t, full)
         IN /\ Advances(r, s, t) /\ Open(s) = Open(r) /\ s.nodes = r.nodes
            /\ HoldsForGood(r, t) => HoldsForGood(s, t)
            /\ \A u \in Tickets : /\ s.tickets[u].status = r.tickets[u].status
                                  /\ s.tickets[u].theirs = r.tickets[u].theirs
                                  /\ Ids(s, u) = Ids(r, u)
<1> DEFINE s == Filled(r, t, full)
<1>1. r \in Graph /\ t \in Tickets
  BY DEF Sound, Open
<1>2. /\ s \in Graph /\ s.nodes = r.nodes
      /\ \A u \in Tickets :
           /\ s.tickets[u].status = r.tickets[u].status /\ s.tickets[u].theirs = r.tickets[u].theirs
           /\ s.tickets[u].lane = r.tickets[u].lane /\ Ids(s, u) = Ids(r, u)
           /\ s.tickets[u].done = IF u = t THEN full ELSE r.tickets[u].done
  BY <1>1, FilledIs DEF Ids
<1> HIDE DEF s
<1>3. Open(s) = Open(r)
  BY <1>2 DEF Open
<1>4. ASSUME NEW u \in Tickets
      PROVE  /\ s.tickets[u].status = "open" => /\ s.tickets[Parent(u)].status = "open"
                                                /\ s.tickets[Parent(u)].theirs = s.tickets[u].theirs
             /\ s.tickets[u].theirs => s.tickets[u].status = "open" /\ r.tickets[u].theirs
  <2>1. StatusIs(r, u) /\ Parent(u) \in Tickets
    BY ParentIs DEF Sound
  <2> QED  BY <1>2, <2>1 DEF StatusIs
<1>5. /\ Sound(s)
      /\ \A u \in Open(s) : (u \in Open(r) => HoldsForGood(r, u)) => HoldsForGood(s, u)
  BY <1>2, <1>3, <1>4, RelabelledSound
<1> QED  BY <1>1, <1>2, <1>3, <1>5 DEF Advances, s

\* An obstacle turns up.
LEMMA SpawnedAdvances ==
  ASSUME NEW r, Sound(r), NEW t \in Open(r), Works(r.nodes, Ids(r, t)), NEW o \in Spawns(r, t)
  PROVE  LET s == Spawned(r, o)
         IN /\ Advances(r, s, t) /\ s.nodes = r.nodes /\ o \in Tickets
            /\ HoldsForGood(r, t) => HoldsForGood(s, t)
            /\ s.tickets[t].status = "open" /\ s.tickets[t].theirs = r.tickets[t].theirs
            /\ Ids(s, t) = Ids(r, t)
<1> DEFINE s == Spawned(r, o)
           new == r.tickets[Parent(o)].theirs
           all == [r.tickets EXCEPT ![o] = [r.tickets[o] EXCEPT !.status = "open", !.theirs = new]]
<1>1. /\ r \in Graph /\ t \in Tickets /\ r.tickets[t].status = "open"
      /\ o \in Tickets /\ IsObstacle(o) /\ Parent(o) = t /\ r.tickets[o].status = "none" /\ o # t
      /\ Parent(t) = t /\ ~IsObstacle(t)
  <2>1. t \in Tickets /\ r.tickets[t].status = "open" /\ r \in Graph
    BY DEF Sound, Open
  <2>2. o \in Tickets /\ IsObstacle(o) /\ Parent(o) = t /\ r.tickets[o].status = "none"
    BY DEF Spawns
  <2> QED  BY <2>1, <2>2, ParentIs
<1>2. r.tickets \in [Tickets -> GraphTicket] /\ new \in BOOLEAN
  <2>1. r.tickets \in [Tickets -> GraphTicket] /\ r.tickets[t] \in GraphTicket
    BY <1>1, GraphIs
  <2> QED  BY <1>1, <2>1 DEF GraphTicket
<1>3. s = [r EXCEPT !.tickets = all]
  <2>1. s = [r EXCEPT !.tickets = [r.tickets EXCEPT ![o].status = "open", ![o].theirs = new]]
    BY <1>1 DEF Spawned, Graph
  <2>2. [r.tickets EXCEPT ![o].status = "open", ![o].theirs = new] = all
    BY <1>1, <1>2
  <2> QED  BY <2>1, <2>2
<1>4. ASSUME NEW u \in Tickets
      PROVE  /\ all[u] \in GraphTicket
             /\ all[u].status = (IF u = o THEN "open" ELSE r.tickets[u].status)
             /\ all[u].theirs = (IF u = o THEN new ELSE r.tickets[u].theirs)
             /\ all[u].lane = r.tickets[u].lane /\ all[u].ids = r.tickets[u].ids
             /\ all[u].done = r.tickets[u].done
  <2>1. all[u] = IF u = o THEN [r.tickets[u] EXCEPT !.status = "open", !.theirs = new] ELSE r.tickets[u]
    BY <1>2
  <2>2. r.tickets[u] \in GraphTicket
    BY <1>2
  <2> HIDE DEF all, new
  <2> QED  BY <1>2, <2>1, <2>2 DEF GraphTicket
<1> HIDE DEF all, s
<1>5. all \in [Tickets -> GraphTicket]
  <2>1. all = [u \in Tickets |-> all[u]]
    BY <1>2 DEF all
  <2> QED  BY <1>4, <2>1
<1>6. /\ s \in Graph /\ s.nodes = r.nodes /\ s.tickets = all
  BY <1>1, <1>3, <1>5 DEF Graph
<1>7. ASSUME NEW u \in Tickets
      PROVE  /\ s.tickets[u].status = (IF u = o THEN "open" ELSE r.tickets[u].status)
             /\ s.tickets[u].theirs = (IF u = o THEN r.tickets[t].theirs ELSE r.tickets[u].theirs)
             /\ s.tickets[u].lane = r.tickets[u].lane /\ Ids(s, u) = Ids(r, u)
             /\ s.tickets[u].done = r.tickets[u].done
  BY <1>1, <1>4, <1>6 DEF Ids, new
<1>8. Open(r) \subseteq Open(s)
  BY <1>7 DEF Open
<1>9. ASSUME NEW u \in Tickets
      PROVE  /\ s.tickets[u].status = "open" => /\ s.tickets[Parent(u)].status = "open"
                                                /\ s.tickets[Parent(u)].theirs = s.tickets[u].theirs
             /\ s.tickets[u].theirs =>
                  /\ s.tickets[u].status = "open"
                  /\ r.tickets[u].theirs \/ r.tickets[u].status # "open"
  <2>1. StatusIs(r, u) /\ Parent(u) \in Tickets /\ Parent(Parent(u)) = Parent(u)
    BY ParentIs DEF Sound
  <2>2. CASE u = o
    BY <1>1, <1>7, <2>2
  <2>3. CASE u # o
    <3>1. Parent(u) # o
      BY <1>1, <2>1
    <3> QED  BY <1>7, <2>1, <2>3, <3>1 DEF StatusIs
  <2> QED  BY <2>2, <2>3
<1>10. /\ Sound(s)
       /\ \A u \in Open(s) : (u \in Open(r) => HoldsForGood(r, u)) => HoldsForGood(s, u)
  BY <1>1, <1>6, <1>7, <1>8, <1>9, RelabelledSound
<1>11. \A u \in Tickets : u # t =>
       /\ Works(r.nodes, Ids(r, u)) => Works(s.nodes, Ids(s, u))
       /\ \/ /\ s.tickets[u].status = r.tickets[u].status
             /\ s.tickets[u].theirs = r.tickets[u].theirs
          \/ /\ IsObstacle(u) /\ Parent(u) = t /\ r.tickets[u].status = "none"
             /\ s.tickets[u].status = "open" /\ s.tickets[u].theirs = r.tickets[t].theirs
  BY <1>1, <1>6, <1>7
<1>12. /\ s.tickets[t].status = "open" /\ s.tickets[t].theirs = r.tickets[t].theirs
       /\ Ids(s, t) = Ids(r, t) /\ (HoldsForGood(r, t) => HoldsForGood(s, t))
  BY <1>1, <1>7 DEF HoldsForGood
<1> QED  BY <1>1, <1>6, <1>10, <1>11, <1>12 DEF Advances, s

LEMMA AdvancesTwice ==
  ASSUME NEW r, NEW m, NEW s, NEW t \in Tickets, Advances(r, m, t), Advances(m, s, t),
         m.tickets[t].theirs = r.tickets[t].theirs
  PROVE  Advances(r, s, t)
<1>1. Sound(s)
  BY DEF Advances
<1>2. ASSUME NEW u \in Open(s), u # t, u \in Open(r) => HoldsForGood(r, u)
      PROVE  HoldsForGood(s, u)
  <2>1. u \in Open(m) => HoldsForGood(m, u)
    BY <1>2 DEF Advances
  <2> QED  BY <1>2, <2>1 DEF Advances
<1>3. ASSUME NEW u \in Tickets, u # t
      PROVE  /\ Works(r.nodes, Ids(r, u)) => Works(s.nodes, Ids(s, u))
             /\ \/ /\ s.tickets[u].status = r.tickets[u].status
                   /\ s.tickets[u].theirs = r.tickets[u].theirs
                \/ /\ IsObstacle(u) /\ Parent(u) = t /\ r.tickets[u].status = "none"
                   /\ s.tickets[u].status = "open" /\ s.tickets[u].theirs = r.tickets[t].theirs
  BY <1>3 DEF Advances
<1> QED  BY <1>1, <1>2, <1>3 DEF Advances

LEMMA OutcomesAdvance ==
  ASSUME NEW r, Sound(r), NEW t \in Open(r), Works(r.nodes, Ids(r, t)), NEW s \in Outcomes(r, t)
  PROVE  /\ Advances(r, s, t) /\ s.nodes = r.nodes
         /\ HoldsForGood(r, t) => HoldsForGood(s, t)
         /\ s.tickets[t].status = "open" /\ s.tickets[t].theirs = r.tickets[t].theirs
         /\ Ids(s, t) = Ids(r, t)
<1>1. t \in Tickets /\ r.tickets[t].status = "open" /\ r.tickets[t].done \in BOOLEAN
  BY GraphIs DEF Sound, Open, GraphTicket
<1>2. PICK full \in {r.tickets[t].done, TRUE} :
        s = Filled(r, t, full) \/ \E o \in Spawns(r, t) : s = Spawned(Filled(r, t, full), o)
  <2>1. PICK f \in Fillings(r, t) : s = f \/ \E o \in Spawns(r, t) : s = Spawned(f, o)
    BY DEF Outcomes
  <2>2. PICK full \in {r.tickets[t].done, TRUE} : f = Filled(r, t, full)
    BY DEF Fillings
  <2> QED  BY <2>1, <2>2
<1> DEFINE m == Filled(r, t, full)
<1>3. /\ Advances(r, m, t) /\ Open(m) = Open(r) /\ m.nodes = r.nodes
      /\ HoldsForGood(r, t) => HoldsForGood(m, t)
      /\ \A u \in Tickets : /\ m.tickets[u].status = r.tickets[u].status
                            /\ m.tickets[u].theirs = r.tickets[u].theirs
                            /\ Ids(m, u) = Ids(r, u)
  <2>1. full \in BOOLEAN
    BY <1>1
  <2> QED  BY <2>1, FilledAdvances
<1> HIDE DEF m
<1>4. CASE s = m
  BY <1>1, <1>3, <1>4
<1>5. CASE \E o \in Spawns(r, t) : s = Spawned(m, o)
  <2>1. PICK o \in Spawns(r, t) : s = Spawned(m, o)
    BY <1>5
  <2>2. o \in Spawns(m, t)
    <3>1. Obstacles(m, t) = Obstacles(r, t)
      BY <1>3 DEF Obstacles
    <3>2. \A k \in 1..(o[2] - 1) : <<o[1], k>> \in Tickets
      <4> TAKE k \in 1..(o[2] - 1)
      <4>1. o \in Tickets
        BY DEF Spawns
      <4> QED  BY <4>1, BranchesAssumption DEF Tickets
    <3> QED  BY <1>3, <3>1, <3>2 DEF Spawns
  <2>3. Sound(m) /\ t \in Open(m) /\ Works(m.nodes, Ids(m, t))
    BY <1>1, <1>3 DEF Advances
  <2>4. /\ Advances(m, s, t) /\ s.nodes = m.nodes
        /\ HoldsForGood(m, t) => HoldsForGood(s, t)
        /\ s.tickets[t].status = "open" /\ s.tickets[t].theirs = m.tickets[t].theirs
        /\ Ids(s, t) = Ids(m, t)
    BY <2>1, <2>2, <2>3, SpawnedAdvances
  <2>5. Advances(r, s, t)
    BY <1>1, <1>3, <2>4, AdvancesTwice
  <2> QED  BY <1>1, <1>3, <2>4, <2>5
<1> QED  BY <1>2, <1>4, <1>5 DEF m

\* Tickets are taken off the backlog, or change hands when a developer leaves.
LEMMA OpenedForIs ==
  ASSUME NEW r, Sound(r), NEW ts, NEW theirs \in BOOLEAN,
         ts \subseteq Backlog(r) \/ (ts = Theirs(r) /\ ~theirs)
  PROVE  LET s == OpenedFor(r, ts, theirs)
         IN /\ Sound(s) /\ s.nodes = r.nodes
            /\ \A u \in Tickets :
                 /\ Ids(s, u) = Ids(r, u)
                 /\ s.tickets[u].status = IF u \in ts THEN "open" ELSE r.tickets[u].status
                 /\ s.tickets[u].theirs = IF u \in ts THEN theirs ELSE r.tickets[u].theirs
            /\ (\A u \in Open(r) : HoldsForGood(r, u)) => \A u \in Open(s) : HoldsForGood(s, u)
<1> DEFINE s == OpenedFor(r, ts, theirs)
           all == [u \in Tickets |->
                     IF u \in ts THEN [r.tickets[u] EXCEPT !.status = "open", !.theirs = theirs]
                     ELSE r.tickets[u]]
<1>1. r \in Graph /\ ts \subseteq Tickets
  BY DEF Sound, Backlog, Theirs, Open
<1>2. s = [r EXCEPT !.tickets = all]
  BY DEF OpenedFor
<1>3. ASSUME NEW u \in Tickets
      PROVE  /\ all[u] \in GraphTicket
             /\ all[u].status = (IF u \in ts THEN "open" ELSE r.tickets[u].status)
             /\ all[u].theirs = (IF u \in ts THEN theirs ELSE r.tickets[u].theirs)
             /\ all[u].lane = r.tickets[u].lane /\ all[u].ids = r.tickets[u].ids
             /\ all[u].done = r.tickets[u].done
  <2>1. all[u] = IF u \in ts THEN [r.tickets[u] EXCEPT !.status = "open", !.theirs = theirs]
                 ELSE r.tickets[u]
    OBVIOUS
  <2>2. r.tickets[u] \in GraphTicket
    BY <1>1, GraphIs
  <2> HIDE DEF all
  <2> QED  BY <2>1, <2>2 DEF GraphTicket
<1>4. all = [u \in Tickets |-> all[u]]
  OBVIOUS
<1> HIDE DEF all, s
<1>5. all \in [Tickets -> GraphTicket]
  BY <1>3, <1>4
<1>6. s \in Graph /\ s.nodes = r.nodes /\ s.tickets = all
  BY <1>1, <1>2, <1>5 DEF Graph
<1>7. ASSUME NEW u \in Tickets
      PROVE  /\ s.tickets[u].status = (IF u \in ts THEN "open" ELSE r.tickets[u].status)
             /\ s.tickets[u].theirs = (IF u \in ts THEN theirs ELSE r.tickets[u].theirs)
             /\ s.tickets[u].lane = r.tickets[u].lane /\ Ids(s, u) = Ids(r, u)
             /\ s.tickets[u].done = r.tickets[u].done
  BY <1>3, <1>6 DEF Ids
<1>8. ASSUME NEW u \in Tickets
      PROVE  /\ StatusIs(r, u) /\ Parent(u) \in Tickets
             /\ ~IsObstacle(u) => Parent(u) = u
             /\ u \in ts => \/ r.tickets[u].status = "open"
                            \/ r.tickets[u].status = "backlog" /\ ~IsObstacle(u)
             /\ u \in ts => (Parent(u) \in ts)
             /\ r.tickets[u].status = "open" /\ u \notin ts => (Parent(u) \notin ts)
  <2>1. StatusIs(r, u) /\ Parent(u) \in Tickets /\ (~IsObstacle(u) => Parent(u) = u)
    BY ParentIs DEF Sound
  <2>2. CASE ts \subseteq Backlog(r)
    <3>1. u \in ts => r.tickets[u].status = "backlog" /\ ~IsObstacle(u)
      BY <2>1, <2>2 DEF Backlog, StatusIs
    <3>2. r.tickets[u].status = "open" => Parent(u) \notin ts
      BY <2>1, <2>2 DEF Backlog, StatusIs
    <3> QED  BY <2>1, <3>1, <3>2
  <2>3. CASE ts = Theirs(r)
    <3>1. u \in ts => r.tickets[u].status = "open"
      BY <2>3 DEF Theirs, Open
    <3>2. r.tickets[u].status = "open" => (u \in ts <=> Parent(u) \in ts)
      BY <2>1, <2>3 DEF Theirs, Mine, Open, StatusIs
    <3> QED  BY <2>1, <3>1, <3>2
  <2> QED  BY <2>1, <2>2, <2>3
<1>9. Open(r) \subseteq Open(s)
  BY <1>7 DEF Open
<1>10. ASSUME NEW u \in Tickets
       PROVE  /\ s.tickets[u].status = "open" => /\ s.tickets[Parent(u)].status = "open"
                                                 /\ s.tickets[Parent(u)].theirs = s.tickets[u].theirs
              /\ s.tickets[u].theirs =>
                   /\ s.tickets[u].status = "open"
                   /\ r.tickets[u].theirs \/ r.tickets[u].status # "open"
  <2>1. CASE u \in ts
    <3>1. Parent(u) \in ts /\ Parent(u) \in Tickets
      BY <1>8, <2>1
    <3>2. theirs => r.tickets[u].status # "open"
      BY <2>1 DEF Backlog
    <3> QED  BY <1>7, <2>1, <3>1, <3>2
  <2>2. CASE u \notin ts
    BY <1>7, <1>8, <2>2 DEF StatusIs
  <2> QED  BY <2>1, <2>2
<1>11. /\ Sound(s)
       /\ \A u \in Open(s) : (u \in Open(r) => HoldsForGood(r, u)) => HoldsForGood(s, u)
  <2>1. ASSUME NEW u \in Tickets
        PROVE  \/ s.tickets[u].status = r.tickets[u].status
               \/ /\ s.tickets[u].status = "open"
                  /\ r.tickets[u].status = IF IsObstacle(u) THEN "none" ELSE "backlog"
                  /\ IsObstacle(u) => Works(r.nodes, Ids(r, Parent(u)))
    BY <1>7, <1>8
  <2> QED  BY <1>6, <1>7, <1>9, <1>10, <2>1, RelabelledSound
<1> QED  BY <1>6, <1>7, <1>11 DEF s

-----------------------------------------------------------------------------
(* A ticket lands *)

Merged(k) == [k EXCEPT !.status = "merged", !.lane = NoLane, !.theirs = FALSE]

LEMMA MergedIs ==
  ASSUME NEW k \in GraphTicket
  PROVE  /\ Merged(k) \in GraphTicket /\ Merged(k).status = "merged" /\ Merged(k).lane = NoLane
         /\ Merged(k).theirs = FALSE /\ Merged(k).ids = k.ids /\ Merged(k).done = k.done
BY DEF Merged, GraphTicket, NoLane

\* The rest of what is true of a ticket, when another lands.
LEMMA StatusStays ==
  ASSUME NEW r, Sound(r), NEW s, GoesOn(r.nodes, s.nodes), s.nodes \in Seq(GraphNode),
         NEW u \in Tickets,
         s.tickets[u].status = r.tickets[u].status, s.tickets[u].theirs = r.tickets[u].theirs,
         s.tickets[u].lane = r.tickets[u].lane, s.tickets[u].done = r.tickets[u].done,
         Ids(s, u) = Ids(r, u),
         s.tickets[u].status = "open" =>
           /\ s.tickets[Parent(u)].status = "open"
           /\ s.tickets[Parent(u)].theirs = s.tickets[u].theirs,
         Works(r.nodes, Ids(r, Parent(u))) => Works(s.nodes, Ids(s, Parent(u))),
         \A i \in 1..Len(Ids(r, Parent(u))) :
           ~r.nodes[Ids(r, Parent(u))[i]].broken =>
             i \in 1..Len(Ids(s, Parent(u))) /\ Ids(s, Parent(u))[i] = Ids(r, Parent(u))[i]
  PROVE  StatusIs(s, u)
<1>1. /\ StatusIs(r, u) /\ Chain(r.nodes, u, Ids(r, u)) /\ Ids(r, u) \in Seq(Nat)
      /\ r.nodes \in Seq(GraphNode) /\ Rooted(r.nodes)
  BY GraphIs DEF Sound
<1>2. /\ Works(s.nodes, Ids(s, u)) <=> Works(r.nodes, Ids(r, u))
      /\ Clean(s.nodes, Ids(s, u)) <=> Clean(r.nodes, Ids(r, u))
  BY <1>1, ChainStays
<1>3. Joined(r, u) => Joined(s, u)
  BY JoinedStays
<1>4. r.tickets[u].ids = Ids(r, u) /\ s.tickets[u].ids = Ids(s, u)
  BY DEF Ids
<1> QED  BY <1>1, <1>2, <1>3, <1>4 DEF StatusIs

LEMMA FeatureLandedIs ==
  ASSUME NEW r, Sound(r), NEW t \in Open(r), Works(r.nodes, Ids(r, t)), NEW theirs \in BOOLEAN
  PROVE  LET s == FeatureLanded(r, t, theirs)
             p == Pushed(r, t)
             node == s.nodes[Len(r.nodes) + 1]
         IN /\ s \in Graph /\ GoesOn(r.nodes, s.nodes) /\ Rooted(s.nodes)
            /\ Len(s.nodes) = Len(r.nodes) + 1 /\ node.lane = Dev
            /\ node.parents = <<Last(Ids(p, t)), TipOfLane(r, Dev)>>
            /\ s.tickets = [p.tickets EXCEPT ![t] = Merged(p.tickets[t])]
            /\ Ids(p, t) # <<>> /\ Last(Ids(p, t)) \in 1..Len(r.nodes)
<1> DEFINE p == Pushed(r, t)
           new == Node("feature_merge", Dev, <<Last(p.tickets[t].ids), TipOfLane(r, Dev)>>, t,
                       FALSE, theirs)
           s == FeatureLanded(r, t, theirs)
<1>1. t \in Tickets /\ r.nodes \in Seq(GraphNode) /\ Rooted(r.nodes)
  BY GraphIs DEF Sound, Open
<1>2. /\ p \in Graph /\ p.nodes = r.nodes /\ Sound(p) /\ Ids(p, t) # <<>>
      /\ p.tickets \in [Tickets -> GraphTicket]
  BY <1>1, PushedIs, PushedSound, GraphIs
<1> HIDE DEF p
<1>3. Last(p.tickets[t].ids) \in 1..Len(r.nodes) /\ Last(p.tickets[t].ids) = Last(Ids(p, t))
  BY <1>1, <1>2, LastOf DEF Ids
<1>4. TipOfLane(r, Dev) \in 1..Len(r.nodes)
  BY <1>1, TipIs
<1>5. new \in GraphNode
  <2>1. <<Last(p.tickets[t].ids), TipOfLane(r, Dev)>> \in Seq(Nat)
    BY <1>1, <1>3, <1>4
  <2> QED  BY <1>1, <2>1 DEF Node, GraphNode, Dev
<1>6. \A n \in ToSet(new.parents) : n \in 1..Len(r.nodes)
  BY <1>3, <1>4 DEF Node, ToSet
<1>7. new.lane = Dev /\ new.parents = <<Last(Ids(p, t)), TipOfLane(r, Dev)>>
  BY <1>3 DEF Node
<1>8. s = [p EXCEPT !.nodes = Append(@, new), !.tickets[t].status = "merged",
                    !.tickets[t].lane = NoLane, !.tickets[t].theirs = FALSE]
  BY DEF FeatureLanded, p
<1> HIDE DEF new, s
<1> DEFINE all == [p.tickets EXCEPT ![t].status = "merged", ![t].lane = NoLane,
                                    ![t].theirs = FALSE]
<1>9. s = [nodes |-> Append(r.nodes, new), tickets |-> all]
  BY <1>2, <1>8 DEF Graph
<1>10. all = [p.tickets EXCEPT ![t] = Merged(p.tickets[t])]
  BY <1>1, <1>2 DEF Merged
<1> HIDE DEF all
<1>11. p.tickets[t] \in GraphTicket
  BY <1>1, <1>2
<1>12. Merged(p.tickets[t]) \in GraphTicket
  BY <1>11, MergedIs
<1>13. all \in [Tickets -> GraphTicket]
  BY <1>1, <1>2, <1>10, <1>12
<1>14. /\ Append(r.nodes, new) \in Seq(GraphNode) /\ Len(Append(r.nodes, new)) = Len(r.nodes) + 1
       /\ Append(r.nodes, new)[Len(r.nodes) + 1] = new
       /\ GoesOn(r.nodes, Append(r.nodes, new)) /\ Rooted(Append(r.nodes, new))
  BY <1>1, <1>5, <1>6, OneNodeMore
<1>15. s \in Graph /\ s.nodes = Append(r.nodes, new) /\ s.tickets = all
  BY <1>9, <1>13, <1>14 DEF Graph
<1> QED  BY <1>2, <1>3, <1>7, <1>10, <1>14, <1>15 DEF s, p

LEMMA FeatureAdvances ==
  ASSUME NEW r, Sound(r), NEW t \in Open(r), ~IsObstacle(t), Works(r.nodes, Ids(r, t)),
         Obstacles(r, t) = {}, NEW theirs \in BOOLEAN
  PROVE  LET s == FeatureLanded(r, t, theirs)
         IN Advances(r, s, t) /\ s.tickets[t].status = "merged" /\ ~s.tickets[t].theirs
<1> DEFINE s == FeatureLanded(r, t, theirs)
           p == Pushed(r, t)
           new == Len(r.nodes) + 1
           node == s.nodes[new]
<1>1. /\ t \in Tickets /\ r.tickets[t].status = "open" /\ r.nodes \in Seq(GraphNode)
      /\ Rooted(r.nodes) /\ Len(r.nodes) \in Nat /\ r \in Graph
  BY GraphIs DEF Sound, Open
<1>2. /\ s \in Graph /\ GoesOn(r.nodes, s.nodes) /\ Rooted(s.nodes)
      /\ Len(s.nodes) = new /\ node.lane = Dev
      /\ node.parents = <<Last(Ids(p, t)), TipOfLane(r, Dev)>>
      /\ s.tickets = [p.tickets EXCEPT ![t] = Merged(p.tickets[t])]
      /\ Ids(p, t) # <<>> /\ Last(Ids(p, t)) \in 1..Len(r.nodes)
  BY FeatureLandedIs
<1>3. /\ p \in Graph /\ p.nodes = r.nodes /\ Sound(p) /\ Open(p) = Open(r)
      /\ p.tickets \in [Tickets -> GraphTicket] /\ p.tickets[t] \in GraphTicket
      /\ Clean(r.nodes, Ids(p, t)) /\ Works(r.nodes, Ids(p, t))
      /\ \A u \in Tickets : Works(r.nodes, Ids(r, u)) => Works(r.nodes, Ids(p, u))
  BY <1>1, PushedIs, PushedSound, GraphIs
<1>4. ASSUME NEW u \in Tickets, u # t
      PROVE  p.tickets[u] = r.tickets[u]
  BY <1>1, <1>4, PushedFields
<1> HIDE DEF s, p
<1>5. s.nodes \in Seq(GraphNode)
  BY <1>2, GraphIs
<1>6. /\ s.tickets[t].status = "merged" /\ ~s.tickets[t].theirs /\ Ids(s, t) = Ids(p, t)
      /\ s.tickets[t].ids = Ids(p, t)
      /\ \A u \in Tickets : u # t => s.tickets[u] = r.tickets[u] /\ Ids(s, u) = Ids(r, u)
  BY <1>1, <1>2, <1>3, <1>4, MergedIs DEF Ids
<1>7. Open(s) = Open(r) \ {t}
  BY <1>1, <1>6 DEF Open
<1>8. \A u \in Tickets : /\ Ids(p, u) \in Seq(Nat) /\ Chain(r.nodes, u, Ids(p, u))
                         /\ Ids(s, u) = Ids(p, u)
  <2>1. \A u \in Tickets : u # t => Ids(p, u) = Ids(r, u)
    BY <1>4 DEF Ids
  <2> QED  BY <1>3, <1>6, <2>1, GraphIs DEF Sound
<1>9. ASSUME NEW u \in Tickets
      PROVE  /\ Chain(s.nodes, u, Ids(s, u))
             /\ Works(s.nodes, Ids(s, u)) <=> Works(r.nodes, Ids(p, u))
             /\ Clean(s.nodes, Ids(s, u)) <=> Clean(r.nodes, Ids(p, u))
  <2>1. Ids(p, u) \in Seq(Nat) /\ Chain(r.nodes, u, Ids(p, u)) /\ Ids(s, u) = Ids(p, u)
    BY <1>8
  <2> QED  BY <1>1, <1>2, <1>5, <2>1, ChainStays
<1>10. \A u \in Tickets : Works(r.nodes, Ids(r, u)) => Works(s.nodes, Ids(s, u))
  BY <1>3, <1>9
<1>11. ASSUME NEW u \in Open(s) PROVE LanedIn(s, u)
  <2>1. /\ u \in Tickets /\ u # t /\ u \in Open(r) /\ LanedIn(r, u)
        /\ s.tickets[u] = r.tickets[u] /\ Ids(s, u) = Ids(r, u)
        /\ Chain(r.nodes, u, Ids(r, u))
        /\ \A v \in Open(s) : v \in Open(r) /\ s.tickets[v] = r.tickets[v]
    BY <1>6, <1>7 DEF Sound, Open
  <2>2. \A i \in 1..Len(Ids(r, u)) : s.nodes[Ids(r, u)[i]] = r.nodes[Ids(r, u)[i]]
    BY <1>2, <2>1 DEF Chain, GoesOn
  <2> QED  BY <2>1, <2>2 DEF LanedIn
<1>12. ASSUME NEW u \in Tickets PROVE StatusIs(s, u)
  <2>1. StatusIs(r, u) /\ Parent(u) \in Tickets /\ (~IsObstacle(u) => Parent(u) = u)
    BY ParentIs DEF Sound
  <2>2. CASE u = t
    BY <1>3, <1>6, <1>9, <2>2 DEF StatusIs
  <2>3. CASE u # t
    <3>1. s.tickets[u].status = "open" => Parent(u) # t
      BY <1>1, <1>6, <2>1, <2>3 DEF Obstacles, Open
    <3>2. s.tickets[u].status = "open" =>
            /\ s.tickets[Parent(u)].status = "open"
            /\ s.tickets[Parent(u)].theirs = s.tickets[u].theirs
      BY <1>6, <2>1, <2>3, <3>1 DEF StatusIs
    <3>3. \A i \in 1..Len(Ids(p, Parent(u))) :
            i \in 1..Len(Ids(s, Parent(u))) /\ Ids(s, Parent(u))[i] = Ids(p, Parent(u))[i]
      BY <1>8, <2>1
    <3>4. Works(p.nodes, Ids(p, Parent(u))) => Works(s.nodes, Ids(s, Parent(u)))
      BY <1>3, <1>9, <2>1
    <3>5. s.tickets[u] = p.tickets[u] /\ Ids(s, u) = Ids(p, u)
      BY <1>4, <1>6, <1>8, <2>3
    <3>6. /\ GoesOn(p.nodes, s.nodes) /\ Sound(p)
          /\ \A i \in 1..Len(Ids(p, Parent(u))) : ~p.nodes[Ids(p, Parent(u))[i]].broken =>
               i \in 1..Len(Ids(s, Parent(u))) /\ Ids(s, Parent(u))[i] = Ids(p, Parent(u))[i]
      BY <1>2, <1>3, <3>3
    <3>7. /\ s.tickets[u].status = p.tickets[u].status /\ s.tickets[u].theirs = p.tickets[u].theirs
          /\ s.tickets[u].lane = p.tickets[u].lane /\ s.tickets[u].done = p.tickets[u].done
      BY <3>5
    <3> QED  BY <1>5, <3>2, <3>4, <3>5, <3>6, <3>7, StatusStays
  <2> QED  BY <2>2, <2>3
<1>13. Landed(s)
  <2>1. TipOfLane(s, Dev) = new /\ TipOfLane(r, Dev) \in 1..Len(r.nodes)
    BY <1>1, <1>2, <1>5, TipMoves, TipIs
  <2>2. /\ \A n \in 1..new : n \in Ancestors(s)[n]
        /\ \A n \in ToSet(node.parents) : Ancestors(s)[n] \subseteq Ancestors(s)[new]
    <3>1. \A n \in 1..Len(s.nodes) : Ancestors(s)[n] =
            {n} \cup UNION {Ancestors(s)[m] : m \in ToSet(s.nodes[n].parents)}
      BY <1>2, <1>5, AncestorsAre
    <3>2. new \in 1..Len(s.nodes) /\ Len(s.nodes) = new
      BY <1>1, <1>2
    <3> HIDE DEF new
    <3> QED  BY <3>1, <3>2
  <2>3. Last(Ids(p, t)) \in ToSet(node.parents) /\ TipOfLane(r, Dev) \in ToSet(node.parents)
    BY <1>2 DEF ToSet
  <2>4. /\ TipOfLane(r, Dev) \in Ancestors(s)[TipOfLane(s, Dev)]
        /\ Last(Ids(s, t)) \in Ancestors(s)[TipOfLane(s, Dev)]
    <3>1. \A n \in 1..Len(r.nodes) : n \in 1..new
      BY <1>1
    <3> QED  BY <1>2, <1>6, <2>1, <2>2, <2>3, <3>1
  <2>5. \A u \in Tickets : s.tickets[u].status = "merged" /\ ~IsObstacle(u) =>
          \/ r.tickets[u].status = "merged" /\ Ids(s, u) = Ids(r, u)
          \/ Last(Ids(s, u)) \in Ancestors(s)[TipOfLane(s, Dev)]
    BY <1>6, <2>4
  <2> QED  BY <1>2, <2>4, <2>5, LandedStays
<1>14. Sound(s)
  BY <1>2, <1>9, <1>11, <1>12, <1>13 DEF Sound
<1>15. \A u \in Open(s) : u # t /\ (u \in Open(r) => HoldsForGood(r, u)) => HoldsForGood(s, u)
  BY <1>6, <1>7 DEF HoldsForGood, Open
<1> QED  BY <1>6, <1>10, <1>14, <1>15 DEF Advances, s

\* Both branches go up.
LEMMA BothPushed ==
  ASSUME NEW r, Sound(r), NEW t \in Open(r), IsObstacle(t), Works(r.nodes, Ids(r, t))
  PROVE  LET q == Parent(t)
             p == Pushed(Pushed(r, t), q)
         IN /\ q \in Open(r) /\ q \in Tickets /\ q # t /\ ~IsObstacle(q)
            /\ p \in Graph /\ p.nodes = r.nodes /\ Sound(p) /\ Open(p) = Open(r)
            /\ \A u \in Tickets : u \notin {t, q} => p.tickets[u] = r.tickets[u]
            /\ \A u \in Tickets :
                 /\ p.tickets[u].status = r.tickets[u].status /\ p.tickets[u].lane = r.tickets[u].lane
                 /\ p.tickets[u].theirs = r.tickets[u].theirs
                 /\ Works(r.nodes, Ids(r, u)) => Works(r.nodes, Ids(p, u))
            /\ \A u \in {t, q} : /\ Works(r.nodes, Ids(p, u)) /\ Clean(r.nodes, Ids(p, u))
                                 /\ Ids(p, u) # <<>> /\ Last(Ids(p, u)) \in 1..Len(r.nodes)
<1> DEFINE q == Parent(t)
           m == Pushed(r, t)
           p == Pushed(m, q)
<1>1. /\ t \in Tickets /\ r.tickets[t].status = "open" /\ q \in Tickets /\ q # t /\ ~IsObstacle(q)
      /\ StatusIs(r, t)
  BY ParentIs DEF Open, Sound
<1>2. /\ r.tickets[q].status = "open" /\ Works(r.nodes, Ids(r, q)) /\ q \in Open(r)
  BY <1>1 DEF StatusIs, Open
<1>3. /\ m \in Graph /\ m.nodes = r.nodes /\ Sound(m) /\ Open(m) = Open(r)
      /\ Clean(r.nodes, Ids(m, t))
      /\ \A u \in Tickets : Works(r.nodes, Ids(r, u)) => Works(r.nodes, Ids(m, u))
  BY <1>1, PushedIs, PushedSound
<1>4. \A u \in Tickets :
        /\ m.tickets[u].status = r.tickets[u].status /\ m.tickets[u].lane = r.tickets[u].lane
        /\ m.tickets[u].theirs = r.tickets[u].theirs /\ (u # t => m.tickets[u] = r.tickets[u])
  BY <1>1, PushedFields
<1> HIDE DEF m
<1>5. /\ p \in Graph /\ p.nodes = m.nodes /\ Sound(p) /\ Open(p) = Open(m)
      /\ Clean(m.nodes, Ids(p, q))
      /\ \A u \in Tickets : Works(m.nodes, Ids(m, u)) => Works(m.nodes, Ids(p, u))
  BY <1>1, <1>3, PushedIs, PushedSound
<1>6. \A u \in Tickets :
        /\ p.tickets[u].status = m.tickets[u].status /\ p.tickets[u].lane = m.tickets[u].lane
        /\ p.tickets[u].theirs = m.tickets[u].theirs /\ (u # q => p.tickets[u] = m.tickets[u])
  BY <1>1, <1>3, PushedFields
<1> HIDE DEF p
<1>7. Ids(p, t) = Ids(m, t)
  BY <1>1, <1>6 DEF Ids
<1>8. \A u \in Tickets : Works(r.nodes, Ids(r, u)) => Works(r.nodes, Ids(p, u))
  BY <1>3, <1>5
<1>9. ASSUME NEW u \in {t, q}
      PROVE  /\ Works(r.nodes, Ids(p, u)) /\ Clean(r.nodes, Ids(p, u))
             /\ Ids(p, u) # <<>> /\ Last(Ids(p, u)) \in 1..Len(r.nodes)
  <2>1. Works(r.nodes, Ids(p, u)) /\ Clean(r.nodes, Ids(p, u)) /\ u \in Tickets
    BY <1>1, <1>2, <1>3, <1>5, <1>7, <1>8
  <2>2. Ids(p, u) \in Seq(Nat)
    BY <1>5, <2>1, GraphIs
  <2>3. Ids(p, u) # <<>>
    BY <2>1, <2>2, WorksIsWritten
  <2>4. Last(Ids(p, u)) \in 1..Len(p.nodes)
    BY <1>5, <2>1, <2>3, LastOf
  <2> QED  BY <1>3, <1>5, <2>1, <2>3, <2>4
<1>10. \A u \in Tickets :
         /\ p.tickets[u].status = r.tickets[u].status /\ p.tickets[u].lane = r.tickets[u].lane
         /\ p.tickets[u].theirs = r.tickets[u].theirs
         /\ u \notin {t, q} => p.tickets[u] = r.tickets[u]
  BY <1>4, <1>6
<1> QED  BY <1>1, <1>2, <1>3, <1>5, <1>8, <1>9, <1>10 DEF p, m

LEMMA ObstacleLandedIs ==
  ASSUME NEW r, Sound(r), NEW t \in Open(r), IsObstacle(t), Works(r.nodes, Ids(r, t)),
         NEW theirs \in BOOLEAN
  PROVE  LET s == ObstacleLanded(r, t, theirs)
             q == Parent(t)
             p == Pushed(Pushed(r, t), q)
             new == Len(r.nodes) + 1
             node == Node("obstacle_merge", r.tickets[q].lane, <<Last(Ids(p, q)), Last(Ids(p, t))>>,
                          q, FALSE, theirs)
         IN /\ s \in Graph /\ s.nodes = Append(r.nodes, node) /\ node \in GraphNode
            /\ \A n \in ToSet(node.parents) : n \in 1..Len(r.nodes)
            /\ \A u \in Tickets :
                 /\ u = t => s.tickets[u] = Merged(p.tickets[t])
                 /\ u = q => /\ s.tickets[u].ids = Append(Ids(p, q), new)
                             /\ s.tickets[u].status = p.tickets[q].status
                             /\ s.tickets[u].lane = p.tickets[q].lane
                             /\ s.tickets[u].theirs = p.tickets[q].theirs
                             /\ s.tickets[u].done = p.tickets[q].done
                 /\ u \notin {t, q} => s.tickets[u] = p.tickets[u]
<1> DEFINE s == ObstacleLanded(r, t, theirs)
           q == Parent(t)
           p == Pushed(Pushed(r, t), q)
           new == Len(r.nodes) + 1
           node == Node("obstacle_merge", r.tickets[q].lane, <<Last(Ids(p, q)), Last(Ids(p, t))>>,
                        q, FALSE, theirs)
<1>1. /\ t \in Tickets /\ q \in Tickets /\ q # t /\ r.nodes \in Seq(GraphNode) /\ r \in Graph
      /\ Len(r.nodes) \in Nat
  BY GraphIs, ParentIs DEF Sound, Open
<1>2. /\ p \in Graph /\ p.nodes = r.nodes
      /\ Last(Ids(p, q)) \in 1..Len(r.nodes) /\ Last(Ids(p, t)) \in 1..Len(r.nodes)
  BY BothPushed
<1>3. s = [WithNode(p, node) EXCEPT !.tickets[t].status = "merged", !.tickets[t].lane = NoLane,
                                    !.tickets[t].theirs = FALSE]
  BY DEF ObstacleLanded, Ids
<1> HIDE DEF p, s
<1>4. r.tickets[q].lane \in Nat
  BY <1>1, GraphIs
<1>5. node \in GraphNode
  <2>1. <<Last(Ids(p, q)), Last(Ids(p, t))>> \in Seq(Nat)
    BY <1>2
  <2> QED  BY <1>1, <1>4, <2>1 DEF Node, GraphNode
<1>6. \A n \in ToSet(node.parents) : n \in 1..Len(r.nodes)
  BY <1>2 DEF Node, ToSet
<1>7. node.ticket = q
  BY DEF Node
<1> HIDE DEF node, q
<1>8. p.tickets \in [Tickets -> GraphTicket] /\ p.tickets[q] \in GraphTicket /\ Ids(p, q) \in Seq(Nat)
  BY <1>1, <1>2, GraphIs
<1> DEFINE mid == WithNode(p, node)
           more == [p.tickets[q] EXCEPT !.ids = Append(Ids(p, q), new)]
           shut == [mid.tickets EXCEPT ![t].status = "merged", ![t].lane = NoLane,
                                       ![t].theirs = FALSE]
<1>9. mid = [nodes |-> Append(r.nodes, node),
             tickets |-> [p.tickets EXCEPT ![q].ids = Append(@, new)]]
  <2> HIDE DEF new
  <2>1. mid = [p EXCEPT !.nodes = Append(@, node), !.tickets[q].ids = Append(@, new)]
    BY <1>2, <1>7 DEF WithNode, new
  <2> HIDE DEF mid
  <2> QED  BY <1>2, <2>1 DEF Graph
<1>10. mid.nodes = Append(r.nodes, node) /\ mid.tickets = [p.tickets EXCEPT ![q] = more]
  <2>1. [p.tickets EXCEPT ![q].ids = Append(@, new)] = [p.tickets EXCEPT ![q] = more]
    BY <1>1, <1>8 DEF Ids
  <2> HIDE DEF mid, more
  <2> QED  BY <1>9, <2>1
<1>11. s = [nodes |-> Append(r.nodes, node), tickets |-> shut]
  <2>1. mid = [nodes |-> mid.nodes, tickets |-> mid.tickets] /\ mid.nodes = Append(r.nodes, node)
    BY <1>9
  <2>2. s = [mid EXCEPT !.tickets[t].status = "merged", !.tickets[t].lane = NoLane,
                        !.tickets[t].theirs = FALSE]
    BY <1>3
  <2> HIDE DEF mid
  <2>3. s = [nodes |-> mid.nodes, tickets |-> shut]
    BY <2>1, <2>2
  <2> QED  BY <2>1, <2>3
<1>12. more \in GraphTicket /\ more.ids = Append(Ids(p, q), new)
       /\ more.status = p.tickets[q].status /\ more.lane = p.tickets[q].lane
       /\ more.theirs = p.tickets[q].theirs /\ more.done = p.tickets[q].done
  <2>1. Append(Ids(p, q), new) \in Seq(Nat)
    BY <1>1, <1>8
  <2> HIDE DEF new
  <2> QED  BY <1>8, <2>1 DEF GraphTicket
<1> HIDE DEF mid, more
<1>13. mid.tickets \in [Tickets -> GraphTicket]
  BY <1>1, <1>8, <1>10, <1>12
<1>14. shut = [mid.tickets EXCEPT ![t] = Merged(mid.tickets[t])]
  BY <1>1, <1>13 DEF Merged
<1> HIDE DEF shut
<1>15. mid.tickets[t] = p.tickets[t] /\ Merged(p.tickets[t]) \in GraphTicket
  <2>1. mid.tickets[t] = p.tickets[t] /\ p.tickets[t] \in GraphTicket
    BY <1>1, <1>8, <1>10
  <2> QED  BY <2>1, MergedIs
<1>16. shut \in [Tickets -> GraphTicket]
  BY <1>1, <1>13, <1>14, <1>15
<1>17. ASSUME NEW u \in Tickets
       PROVE  /\ u = t => shut[u] = Merged(p.tickets[t])
              /\ u = q => shut[u] = more
              /\ u \notin {t, q} => shut[u] = p.tickets[u]
  BY <1>1, <1>8, <1>10, <1>13, <1>14, <1>15
<1>18. Append(r.nodes, node) \in Seq(GraphNode)
  BY <1>1, <1>5
<1>19. s \in Graph /\ s.nodes = Append(r.nodes, node) /\ s.tickets = shut
  BY <1>11, <1>16, <1>18 DEF Graph
<1> QED  BY <1>5, <1>6, <1>12, <1>17, <1>19 DEF s, q, p, node

LEMMA ObstacleAdvances ==
  ASSUME NEW r, Sound(r), NEW t \in Open(r), IsObstacle(t), Works(r.nodes, Ids(r, t)),
         NEW theirs \in BOOLEAN
  PROVE  LET s == ObstacleLanded(r, t, theirs)
         IN Advances(r, s, t) /\ s.tickets[t].status = "merged" /\ ~s.tickets[t].theirs
<1> DEFINE s == ObstacleLanded(r, t, theirs)
           q == Parent(t)
           p == Pushed(Pushed(r, t), q)
           new == Len(r.nodes) + 1
           node == Node("obstacle_merge", r.tickets[q].lane, <<Last(Ids(p, q)), Last(Ids(p, t))>>,
                        q, FALSE, theirs)
           ids == Append(Ids(p, q), new)
<1>1. /\ t \in Tickets /\ r.tickets[t].status = "open" /\ r.nodes \in Seq(GraphNode)
      /\ Rooted(r.nodes) /\ Len(r.nodes) \in Nat /\ r \in Graph
  BY GraphIs DEF Sound, Open
<1>2. /\ q \in Open(r) /\ q \in Tickets /\ q # t /\ ~IsObstacle(q)
      /\ p \in Graph /\ p.nodes = r.nodes /\ Sound(p) /\ Open(p) = Open(r)
      /\ \A u \in Tickets : u \notin {t, q} => p.tickets[u] = r.tickets[u]
      /\ \A u \in Tickets :
           /\ p.tickets[u].status = r.tickets[u].status /\ p.tickets[u].lane = r.tickets[u].lane
           /\ p.tickets[u].theirs = r.tickets[u].theirs
           /\ Works(r.nodes, Ids(r, u)) => Works(r.nodes, Ids(p, u))
      /\ \A u \in {t, q} : /\ Works(r.nodes, Ids(p, u)) /\ Clean(r.nodes, Ids(p, u))
                           /\ Ids(p, u) # <<>> /\ Last(Ids(p, u)) \in 1..Len(r.nodes)
  BY BothPushed
<1>3. /\ s \in Graph /\ s.nodes = Append(r.nodes, node) /\ node \in GraphNode
      /\ \A n \in ToSet(node.parents) : n \in 1..Len(r.nodes)
      /\ \A u \in Tickets :
           /\ u = t => s.tickets[u] = Merged(p.tickets[t])
           /\ u = q => /\ s.tickets[u].ids = ids
                       /\ s.tickets[u].status = p.tickets[q].status
                       /\ s.tickets[u].lane = p.tickets[q].lane
                       /\ s.tickets[u].theirs = p.tickets[q].theirs
                       /\ s.tickets[u].done = p.tickets[q].done
           /\ u \notin {t, q} => s.tickets[u] = p.tickets[u]
  BY ObstacleLandedIs
<1>4. /\ node.lane = r.tickets[q].lane /\ node.ticket = q /\ ~node.broken
      /\ node.parents = <<Last(Ids(p, q)), Last(Ids(p, t))>>
  BY DEF Node
<1> HIDE DEF s, p, node, q, ids
<1>5. /\ s.nodes \in Seq(GraphNode) /\ Len(s.nodes) = new /\ s.nodes[new] = node
      /\ GoesOn(r.nodes, s.nodes) /\ Rooted(s.nodes)
  BY <1>1, <1>3, OneNodeMore
<1>6. p.tickets \in [Tickets -> GraphTicket] /\ p.tickets[t] \in GraphTicket
  BY <1>1, <1>2, GraphIs
<1>7. ASSUME NEW u \in Tickets
      PROVE  /\ u # t => /\ s.tickets[u].status = r.tickets[u].status
                         /\ s.tickets[u].theirs = r.tickets[u].theirs
                         /\ s.tickets[u].lane = r.tickets[u].lane
                         /\ s.tickets[u].done = p.tickets[u].done
             /\ u = t => /\ s.tickets[u].status = "merged" /\ ~s.tickets[u].theirs
                         /\ s.tickets[u].lane = NoLane /\ s.tickets[u].done = p.tickets[u].done
             /\ Ids(s, u) = IF u = q THEN ids ELSE Ids(p, u)
             /\ s.tickets[u].ids = Ids(s, u)
  <2>1. CASE u = t
    <3>1. s.tickets[t] = Merged(p.tickets[t]) /\ t # q
      BY <1>1, <1>2, <1>3
    <3>2. /\ s.tickets[t].status = "merged" /\ ~s.tickets[t].theirs /\ s.tickets[t].lane = NoLane
          /\ s.tickets[t].done = p.tickets[t].done /\ s.tickets[t].ids = p.tickets[t].ids
      BY <1>6, <3>1, MergedIs
    <3> QED  BY <2>1, <3>1, <3>2 DEF Ids
  <2>2. CASE u = q
    BY <1>2, <1>3, <2>2 DEF Ids
  <2>3. CASE u \notin {t, q}
    BY <1>2, <1>3, <2>3 DEF Ids
  <2> QED  BY <2>1, <2>2, <2>3
<1>8. Open(s) = Open(r) \ {t}
  BY <1>1, <1>7 DEF Open
<1>9. ASSUME NEW u \in Tickets
      PROVE  /\ Ids(p, u) \in Seq(Nat) /\ Chain(r.nodes, u, Ids(p, u))
             /\ Chain(s.nodes, u, Ids(p, u))
             /\ Works(s.nodes, Ids(p, u)) <=> Works(r.nodes, Ids(p, u))
             /\ Clean(s.nodes, Ids(p, u)) <=> Clean(r.nodes, Ids(p, u))
  <2>1. Ids(p, u) \in Seq(Nat) /\ Chain(r.nodes, u, Ids(p, u))
    BY <1>2, GraphIs DEF Sound
  <2> QED  BY <1>1, <1>5, <2>1, ChainStays
<1>10. /\ Chain(s.nodes, q, ids) /\ Works(s.nodes, ids) /\ Clean(s.nodes, ids)
  <2>1. /\ Ids(p, q) \in Seq(Nat) /\ Chain(r.nodes, q, Ids(p, q)) /\ Ids(p, q) # <<>>
        /\ Clean(r.nodes, Ids(p, q))
    BY <1>2, <1>9
  <2>2. node.parents # <<>> /\ Head(node.parents) = Last(Ids(p, q))
    BY <1>4
  <2>3. /\ Chain(Append(r.nodes, node), q, Append(Ids(p, q), Len(r.nodes) + 1))
        /\ Works(Append(r.nodes, node), Append(Ids(p, q), Len(r.nodes) + 1))
        /\ Clean(Append(r.nodes, node), Append(Ids(p, q), Len(r.nodes) + 1))
    BY <1>1, <1>3, <1>4, <2>1, <2>2, ChainGrows
  <2> QED  BY <1>3, <2>3 DEF ids
<1>11. /\ Len(ids) = Len(Ids(p, q)) + 1 /\ Len(Ids(p, q)) \in Nat
       /\ ids # <<>> /\ ids[Len(Ids(p, q)) + 1] = new
       /\ \A i \in 1..Len(Ids(p, q)) : ids[i] = Ids(p, q)[i]
  <2>1. Ids(p, q) \in Seq(Nat)
    BY <1>2, <1>9
  <2> QED  BY <1>1, <2>1 DEF ids
<1>12. \A u \in Tickets : /\ Chain(s.nodes, u, Ids(s, u))
                          /\ Works(r.nodes, Ids(r, u)) => Works(s.nodes, Ids(s, u))
  BY <1>2, <1>7, <1>9, <1>10
<1>13. ASSUME NEW u \in Open(s) PROVE LanedIn(s, u)
  <2>1. /\ u \in Tickets /\ u # t /\ u \in Open(r) /\ u \in Open(p) /\ LanedIn(r, u) /\ LanedIn(p, u)
        /\ s.tickets[u].lane = r.tickets[u].lane /\ p.tickets[u].lane = r.tickets[u].lane
        /\ \A v \in Open(s) : v \in Open(r) /\ s.tickets[v].lane = r.tickets[v].lane
    BY <1>2, <1>7, <1>8 DEF Sound, Open
  <2>2. \A i \in 1..Len(Ids(p, u)) : s.nodes[Ids(p, u)[i]].lane = s.tickets[u].lane
    <3>1. \A i \in 1..Len(Ids(p, u)) : Ids(p, u)[i] \in 1..Len(r.nodes)
      BY <1>9, <2>1 DEF Chain
    <3>2. \A i \in 1..Len(Ids(p, u)) : s.nodes[Ids(p, u)[i]] = r.nodes[Ids(p, u)[i]]
      BY <1>5, <3>1 DEF GoesOn
    <3> QED  BY <1>2, <2>1, <3>2 DEF LanedIn
  <2>3. \A v \in Open(s) : v # u /\ s.tickets[v].lane = s.tickets[u].lane =>
                             s.tickets[u].lane = NoLane
    BY <2>1 DEF LanedIn
  <2>4. CASE u = q
    <3>1. s.tickets[u].lane # NoLane
      BY <1>2, <2>1, <2>4 DEF LanedIn
    <3>2. ASSUME NEW i \in 1..Len(ids) PROVE s.nodes[ids[i]].lane = s.tickets[u].lane
      <4>1. CASE i = Len(Ids(p, q)) + 1
        BY <1>4, <1>5, <1>11, <2>1, <2>4, <4>1
      <4>2. CASE i # Len(Ids(p, q)) + 1
        <5>1. i \in 1..Len(Ids(p, q)) /\ ids[i] = Ids(p, q)[i]
          BY <1>11, <4>2
        <5> QED  BY <2>2, <2>4, <5>1
      <4> QED  BY <4>1, <4>2
    <3>3. Ids(s, u) = ids
      BY <1>7, <2>1, <2>4
    <3> QED  BY <2>1, <2>3, <3>1, <3>2, <3>3 DEF LanedIn
  <2>5. CASE u # q
    <3>1. Ids(s, u) = Ids(p, u)
      BY <1>7, <2>1, <2>5
    <3> QED  BY <2>1, <2>2, <2>3, <3>1 DEF LanedIn
  <2> QED  BY <2>4, <2>5
<1>14. ASSUME NEW u \in Tickets PROVE StatusIs(s, u)
  <2>1. /\ StatusIs(r, u) /\ StatusIs(p, u) /\ Parent(u) \in Tickets
        /\ (~IsObstacle(u) => Parent(u) = u) /\ ~IsObstacle(Parent(u))
    BY <1>2, ParentIs DEF Sound
  <2>2. Parent(u) # t
    BY <2>1
  <2>3. \A i \in 1..Len(Ids(p, Parent(u))) :
          i \in 1..Len(Ids(s, Parent(u))) /\ Ids(s, Parent(u))[i] = Ids(p, Parent(u))[i]
    <3>1. CASE Parent(u) = q
      BY <1>2, <1>7, <1>11, <3>1
    <3>2. CASE Parent(u) # q
      BY <1>7, <2>1, <3>2
    <3> QED  BY <3>1, <3>2
  <2>4. Works(p.nodes, Ids(p, Parent(u))) => Works(s.nodes, Ids(s, Parent(u)))
    BY <1>2, <1>7, <1>9, <1>10, <2>1
  <2>5. s.tickets[u].status = "open" =>
          /\ s.tickets[Parent(u)].status = "open"
          /\ s.tickets[Parent(u)].theirs = s.tickets[u].theirs
    BY <1>7, <2>1, <2>2 DEF StatusIs
  <2>6. CASE u = t
    <3>1. /\ s.tickets[u].status = "merged" /\ ~s.tickets[u].theirs /\ s.tickets[u].lane = NoLane
          /\ Ids(s, u) = Ids(p, t) /\ s.tickets[u].ids = Ids(p, t)
      BY <1>1, <1>2, <1>7, <2>6
    <3>2. Works(s.nodes, Ids(p, t)) /\ Clean(s.nodes, Ids(p, t))
      BY <1>1, <1>2, <1>9
    <3>3. Joined(s, u)
      <4>1. Parent(u) = q /\ Ids(s, q) = ids
        BY <1>2, <1>7, <2>6 DEF q
      <4>2. Len(ids) \in 1..Len(ids) /\ s.nodes[ids[Len(ids)]] = node
        BY <1>5, <1>11
      <4>3. Last(Ids(p, t)) \in ToSet(node.parents)
        BY <1>4 DEF ToSet
      <4> QED  BY <1>4, <3>1, <4>1, <4>2, <4>3 DEF Joined
    <3>4. Works(s.nodes, Ids(s, Parent(u)))
      BY <1>7, <1>10, <2>1, <2>6 DEF q
    <3> QED  BY <3>1, <3>2, <3>3, <3>4 DEF StatusIs
  <2>7. CASE u = q
    <3>1. /\ s.tickets[u].status = "open" /\ Ids(s, u) = ids /\ s.tickets[u].ids = ids
      BY <1>2, <1>7, <2>7 DEF Open
    <3> QED  BY <1>2, <1>10, <2>5, <2>7, <3>1 DEF StatusIs
  <2>8. CASE u \notin {t, q}
    <3>1. s.tickets[u] = p.tickets[u] /\ Ids(s, u) = Ids(p, u)
      BY <1>3, <1>7, <2>8
    <3>2. /\ s.tickets[u].status = p.tickets[u].status /\ s.tickets[u].theirs = p.tickets[u].theirs
          /\ s.tickets[u].lane = p.tickets[u].lane /\ s.tickets[u].done = p.tickets[u].done
      BY <3>1
    <3>3. /\ GoesOn(p.nodes, s.nodes) /\ Sound(p)
          /\ \A i \in 1..Len(Ids(p, Parent(u))) : ~p.nodes[Ids(p, Parent(u))[i]].broken =>
               i \in 1..Len(Ids(s, Parent(u))) /\ Ids(s, Parent(u))[i] = Ids(p, Parent(u))[i]
      BY <1>2, <1>5, <2>3
    <3> QED  BY <1>5, <2>4, <2>5, <3>1, <3>2, <3>3, StatusStays
  <2> QED  BY <2>6, <2>7, <2>8
<1>15. Landed(s)
  <2>1. node.lane # Dev
    <3>1. LanedIn(p, q) /\ p.tickets[q].lane = r.tickets[q].lane /\ Ids(p, q) # <<>>
      BY <1>2 DEF Sound
    <3> QED  BY <1>4, <3>1 DEF LanedIn, FirstFeatureLane, Dev
  <2>2. \A n \in 1..Len(s.nodes) : n > Len(r.nodes) => s.nodes[n].lane # Dev
    <3>1. \A n \in 1..Len(s.nodes) : n > Len(r.nodes) => n = new
      BY <1>1, <1>5
    <3> QED  BY <1>5, <2>1, <3>1
  <2>3. GoesOn(p.nodes, s.nodes) /\ \A n \in 1..Len(s.nodes) : n > Len(p.nodes) => s.nodes[n].lane # Dev
    BY <1>2, <1>5, <2>2
  <2>4. \A u \in Tickets : s.tickets[u].status = "merged" /\ ~IsObstacle(u) =>
          p.tickets[u].status = "merged" /\ Ids(s, u) = Ids(p, u)
    <3> TAKE u \in Tickets
    <3>1. IsObstacle(t) /\ r.tickets[q].status = "open"
      BY <1>2 DEF Open
    <3>2. u = q => s.tickets[u].status # "merged"
      BY <1>2, <1>7, <3>1
    <3> QED  BY <1>2, <1>7, <3>1, <3>2
  <2> QED  BY <1>2, <1>3, <1>5, <2>3, <2>4, LandedElsewhere
<1>16. Sound(s)
  BY <1>3, <1>5, <1>12, <1>13, <1>14, <1>15 DEF Sound
<1>17. \A u \in Open(s) : u # t /\ (u \in Open(r) => HoldsForGood(r, u)) => HoldsForGood(s, u)
  <2> SUFFICES ASSUME NEW u \in Open(s), u # t, u \in Open(r) => HoldsForGood(r, u)
               PROVE  HoldsForGood(s, u)
    OBVIOUS
  <2>1. u \in Tickets /\ u \in Open(r)
    BY <1>8 DEF Open
  <2>2. CASE u = q
    BY <1>7, <1>11, <2>1, <2>2 DEF HoldsForGood
  <2>3. CASE u # q
    <3>1. Ids(s, u) = Ids(r, u) /\ s.tickets[u].lane = r.tickets[u].lane
      BY <1>2, <1>7, <2>1, <2>3 DEF Ids
    <3> QED  BY <2>1, <3>1 DEF HoldsForGood
  <2> QED  BY <2>2, <2>3
<1> QED  BY <1>1, <1>7, <1>12, <1>16, <1>17 DEF Advances, s

-----------------------------------------------------------------------------
(* A turn on a ticket *)

LEMMA PushedAdvances ==
  ASSUME NEW r, Sound(r), NEW t \in Tickets
  PROVE  Advances(r, Pushed(r, t), t)
<1> DEFINE p == Pushed(r, t)
<1>1. /\ Sound(p) /\ Open(p) = Open(r) /\ p.nodes = r.nodes
      /\ \A u \in Tickets : Works(r.nodes, Ids(r, u)) => Works(r.nodes, Ids(p, u))
  BY PushedSound, PushedIs
<1>2. \A u \in Tickets : u # t => p.tickets[u] = r.tickets[u]
  BY PushedFields
<1> HIDE DEF p
<1>3. \A u \in Open(p) : u \in Tickets
  BY DEF Open
<1>4. Advances(r, p, t)
  BY <1>1, <1>2, <1>3 DEF Advances, HoldsForGood, Ids
<1> QED  BY <1>4 DEF p

LEMMA CommitAdvances ==
  ASSUME NEW r, Sound(r), NEW t \in Open(r), NEW broken \in BOOLEAN, NEW theirs \in BOOLEAN,
         broken \/ Clean(r.nodes, Ids(r, t)), r.tickets[t].theirs => ~broken
  PROVE  LET s == Commit(r, t, broken, theirs)
         IN /\ Advances(r, s, t) /\ HoldsForGood(s, t) /\ Open(s) = Open(r)
            /\ ~broken => Works(s.nodes, Ids(s, t))
            /\ \A u \in Tickets : /\ s.tickets[u].status = r.tickets[u].status
                                  /\ s.tickets[u].theirs = r.tickets[u].theirs
<1> DEFINE s == Commit(r, t, broken, theirs)
<1>1. /\ Sound(s) /\ Open(s) = Open(r) /\ HoldsForGood(s, t)
      /\ ~broken => Works(s.nodes, Ids(s, t))
      /\ \A u \in Tickets : Works(r.nodes, Ids(r, u)) => Works(s.nodes, Ids(s, u))
  BY CommitSound
<1>2. ASSUME NEW u \in Tickets
      PROVE  /\ s.tickets[u].status = r.tickets[u].status
             /\ s.tickets[u].theirs = r.tickets[u].theirs
             /\ u # t => s.tickets[u].lane = r.tickets[u].lane /\ Ids(s, u) = Ids(r, u)
  BY CommitFields
<1> HIDE DEF s
<1>3. \A u \in Open(s) : u # t /\ (u \in Open(r) => HoldsForGood(r, u)) => HoldsForGood(s, u)
  <2>1. \A u \in Open(s) : u \in Tickets
    BY DEF Open
  <2> QED  BY <1>1, <1>2, <2>1 DEF HoldsForGood
<1> QED  BY <1>1, <1>2, <1>3 DEF Advances, s

\* The player's commit.
LEMMA WritingAdvances ==
  ASSUME NEW r, Sound(r), NEW t \in Mine(r), NEW s, NEW broken \in BOOLEAN,
         s \in IF broken THEN {Commit(r, t, TRUE, FALSE)}
               ELSE Outcomes(Commit(Pushed(r, t), t, FALSE, FALSE), t)
  PROVE  Advances(r, s, t) /\ HoldsForGood(s, t) /\ t \in Mine(s)
<1>1. /\ t \in Open(r) /\ t \in Tickets /\ r.tickets[t].status = "open"
      /\ ~r.tickets[t].theirs
  BY DEF Mine, Open
<1>2. CASE broken
  <2>1. s = Commit(r, t, TRUE, FALSE)
    BY <1>2
  <2>2. /\ Advances(r, s, t) /\ HoldsForGood(s, t) /\ Open(s) = Open(r)
        /\ s.tickets[t].theirs = r.tickets[t].theirs
    BY <1>1, <2>1, CommitAdvances
  <2> QED  BY <1>1, <2>2 DEF Mine
<1>3. CASE ~broken
  <2> DEFINE p == Pushed(r, t)
             c == Commit(p, t, FALSE, FALSE)
  <2>1. /\ Advances(r, p, t) /\ Sound(p) /\ t \in Open(p) /\ Clean(p.nodes, Ids(p, t))
        /\ p.tickets[t].theirs = r.tickets[t].theirs
    BY <1>1, PushedAdvances, PushedSound, PushedIs, PushedFields
  <2> HIDE DEF p
  <2>2. /\ Advances(p, c, t) /\ HoldsForGood(c, t) /\ Open(c) = Open(p)
        /\ Works(c.nodes, Ids(c, t)) /\ c.tickets[t].theirs = p.tickets[t].theirs
    <3>1. /\ Advances(p, c, t) /\ HoldsForGood(c, t) /\ Open(c) = Open(p)
          /\ ~FALSE => Works(c.nodes, Ids(c, t))
          /\ \A u \in Tickets : /\ c.tickets[u].status = p.tickets[u].status
                                /\ c.tickets[u].theirs = p.tickets[u].theirs
      BY <1>1, <2>1, CommitAdvances
    <3> HIDE DEF c
    <3> QED  BY <1>1, <3>1
  <2> HIDE DEF c
  <2>3. Sound(c) /\ t \in Open(c) /\ s \in Outcomes(c, t)
    BY <1>3, <2>1, <2>2 DEF Advances, p, c
  <2>4. /\ Advances(c, s, t) /\ HoldsForGood(s, t)
        /\ s.tickets[t].status = "open" /\ s.tickets[t].theirs = c.tickets[t].theirs
    BY <2>2, <2>3, OutcomesAdvance
  <2>5. Advances(r, c, t)
    BY <1>1, <2>1, <2>2, AdvancesTwice
  <2>6. Advances(r, s, t)
    BY <1>1, <2>1, <2>2, <2>4, <2>5, AdvancesTwice
  <2>7. t \in Mine(s)
    BY <1>1, <2>1, <2>2, <2>4 DEF Mine, Open
  <2> QED  BY <2>2, <2>4, <2>6, <2>7
<1> QED  BY <1>2, <1>3

LEMMA TeamLandedAdvances ==
  ASSUME NEW r, Sound(r), NEW t \in Open(r), HoldsForGood(r, t)
  PROVE  LET s == TeamLanded(r, t)
         IN Advances(r, s, t) /\ (t \in Open(s) => HoldsForGood(s, t))
<1>1. t \in Tickets /\ StatusIs(r, t)
  BY DEF Sound, Open
<1>2. CASE ~Ready(r, t)
  <2>1. Advances(r, r, t)
    BY DEF Advances
  <2> QED  BY <1>2, <2>1 DEF TeamLanded
<1>3. CASE Ready(r, t)
  <2>1. Works(r.nodes, Ids(r, t)) /\ Obstacles(r, t) = {}
    BY <1>1, <1>3 DEF Ready, StatusIs, Ids
  <2>2. CASE IsObstacle(t)
    <3>1. TeamLanded(r, t) = ObstacleLanded(r, t, TRUE)
      BY <1>3, <2>2 DEF TeamLanded
    <3>2. /\ Advances(r, ObstacleLanded(r, t, TRUE), t)
          /\ ObstacleLanded(r, t, TRUE).tickets[t].status = "merged"
      BY <2>1, <2>2, ObstacleAdvances
    <3> QED  BY <3>1, <3>2 DEF Open
  <2>3. CASE ~IsObstacle(t)
    <3>1. TeamLanded(r, t) = FeatureLanded(r, t, TRUE)
      BY <1>3, <2>3 DEF TeamLanded
    <3>2. /\ Advances(r, FeatureLanded(r, t, TRUE), t)
          /\ FeatureLanded(r, t, TRUE).tickets[t].status = "merged"
      BY <2>1, <2>3, FeatureAdvances
    <3> QED  BY <3>1, <3>2 DEF Open
  <2> QED  BY <2>2, <2>3
<1> QED  BY <1>2, <1>3

\* The team's turn on one of its tickets.
LEMMA TeamAdvances ==
  ASSUME NEW r, Sound(r), NEW t \in Theirs(r), HoldsForGood(r, t), NEW s,
         \/ s = TeamLanded(r, t)
         \/ \E m \in Outcomes(Commit(r, t, FALSE, TRUE), t) : s = TeamLanded(m, t)
  PROVE  Advances(r, s, t) /\ (t \in Open(s) => HoldsForGood(s, t))
<1>1. /\ t \in Open(r) /\ t \in Tickets /\ r.tickets[t].theirs /\ Clean(r.nodes, Ids(r, t))
  <2>1. t \in Open(r) /\ t \in Tickets /\ r.tickets[t].theirs
    BY DEF Theirs, Mine, Open
  <2> QED  BY <2>1 DEF Sound, StatusIs, Ids
<1>2. CASE s = TeamLanded(r, t)
  BY <1>1, <1>2, TeamLandedAdvances
<1>3. CASE \E m \in Outcomes(Commit(r, t, FALSE, TRUE), t) : s = TeamLanded(m, t)
  <2> DEFINE c == Commit(r, t, FALSE, TRUE)
  <2>1. PICK m \in Outcomes(c, t) : s = TeamLanded(m, t)
    BY <1>3
  <2>2. /\ Advances(r, c, t) /\ HoldsForGood(c, t) /\ Open(c) = Open(r)
        /\ ~FALSE => Works(c.nodes, Ids(c, t))
        /\ \A u \in Tickets : /\ c.tickets[u].status = r.tickets[u].status
                              /\ c.tickets[u].theirs = r.tickets[u].theirs
    BY <1>1, CommitAdvances
  <2> HIDE DEF c
  <2>3. Sound(c) /\ t \in Open(c) /\ Works(c.nodes, Ids(c, t))
    BY <1>1, <2>2 DEF Advances
  <2>4. /\ Advances(c, m, t) /\ HoldsForGood(m, t)
        /\ m.tickets[t].status = "open" /\ m.tickets[t].theirs = c.tickets[t].theirs
    BY <2>2, <2>3, OutcomesAdvance
  <2>5. Sound(m) /\ t \in Open(m)
    BY <1>1, <2>4 DEF Advances, Open
  <2>6. Advances(m, s, t) /\ (t \in Open(s) => HoldsForGood(s, t))
    BY <2>1, <2>4, <2>5, TeamLandedAdvances
  <2>7. Advances(r, m, t)
    BY <1>1, <2>2, <2>4, AdvancesTwice
  <2>8. Advances(r, s, t)
    BY <1>1, <2>2, <2>4, <2>6, <2>7, AdvancesTwice
  <2> QED  BY <2>6, <2>8
<1> QED  BY <1>2, <1>3

\* What it leaves of the other tickets.
LEMMA OthersStay ==
  ASSUME NEW r, NEW s, NEW t \in Open(r), Advances(r, s, t), t \in Open(s) => HoldsForGood(s, t)
  PROVE  /\ Sound(s)
         /\ (\A u \in Open(r) : HoldsForGood(r, u)) => \A u \in Open(s) : HoldsForGood(s, u)
         /\ \A u \in Mine(r) : u # t => u \in Mine(s)
         /\ \A u \in Theirs(r) : u # t => u \in Theirs(s)
         /\ \A u \in Open(r) : u # t /\ Obstacles(r, u) = {} => Obstacles(s, u) = {}
         /\ \A u \in Tickets : u # t /\ Works(r.nodes, Ids(r, u)) => Works(s.nodes, Ids(s, u))
<1>1. /\ Sound(s)
      /\ \A u \in Open(s) : u # t /\ (u \in Open(r) => HoldsForGood(r, u)) => HoldsForGood(s, u)
      /\ \A u \in Tickets : u # t =>
           /\ Works(r.nodes, Ids(r, u)) => Works(s.nodes, Ids(s, u))
           /\ \/ /\ s.tickets[u].status = r.tickets[u].status
                 /\ s.tickets[u].theirs = r.tickets[u].theirs
              \/ /\ IsObstacle(u) /\ Parent(u) = t /\ r.tickets[u].status = "none"
                 /\ s.tickets[u].status = "open" /\ s.tickets[u].theirs = r.tickets[t].theirs
  BY DEF Advances
<1>2. \A u \in Mine(r) : u # t => u \in Mine(s)
  BY <1>1 DEF Mine, Open
<1>3. \A u \in Theirs(r) : u # t => u \in Theirs(s)
  BY <1>1 DEF Theirs, Mine, Open
<1>4. ASSUME NEW u \in Open(r), u # t, Obstacles(r, u) = {}, NEW o \in Obstacles(s, u)
      PROVE  FALSE
  <2>1. o \in Tickets /\ s.tickets[o].status = "open" /\ IsObstacle(o) /\ Parent(o) = u /\ o # u
    BY DEF Obstacles, Open
  <2>2. u \in Tickets /\ r.tickets[o].status # "open"
    BY <1>4, <2>1 DEF Obstacles, Open
  <2>3. o = t
    BY <1>1, <1>4, <2>1, <2>2
  <2> QED  BY <2>2, <2>3 DEF Open
<1> QED  BY <1>1, <1>2, <1>3, <1>4

-----------------------------------------------------------------------------
(* The trunk *)

\* main holds dev.
DevShipped(r) == TipOfLane(r, Dev) \in Ancestors(r)[TipOfLane(r, Main)]

\* One more commit on main or dev.
LEMMA OnTrunkIs ==
  ASSUME NEW r, Sound(r), NEW lane \in {Main, Dev},
         NEW what \in {"sprint_start", "sprint_merge", "release"}, NEW parents \in Seq(Nat),
         \A p \in ToSet(parents) : p \in 1..Len(r.nodes)
  PROVE  LET s == OnTrunk(r, what, lane, parents)
             node == s.nodes[Len(r.nodes) + 1]
         IN /\ s \in Graph /\ s.nodes \in Seq(GraphNode) /\ Len(s.nodes) = Len(r.nodes) + 1
            /\ GoesOn(r.nodes, s.nodes) /\ Rooted(s.nodes) /\ s.tickets = r.tickets
            /\ node.lane = lane /\ node.parents = parents
            /\ Len(r.nodes) + 1 \in Nat /\ r.nodes \in Seq(GraphNode) /\ Rooted(r.nodes)
            /\ TipOfLane(s, lane) = Len(r.nodes) + 1
<1> DEFINE s == OnTrunk(r, what, lane, parents)
           node == Node(what, lane, parents, NoTicket, FALSE, FALSE)
<1>1. r \in Graph /\ r.nodes \in Seq(GraphNode) /\ Rooted(r.nodes) /\ Len(r.nodes) \in Nat
  BY GraphIs DEF Sound
<1>2. node \in GraphNode
  BY DEF Node, GraphNode, Main, Dev
<1>3. node.lane = lane /\ node.parents = parents
  BY DEF Node
<1>4. s = [r EXCEPT !.nodes = Append(@, node)]
  BY DEF OnTrunk
<1> HIDE DEF node, s
<1>5. /\ Append(r.nodes, node) \in Seq(GraphNode) /\ Len(Append(r.nodes, node)) = Len(r.nodes) + 1
      /\ Append(r.nodes, node)[Len(r.nodes) + 1] = node
      /\ GoesOn(r.nodes, Append(r.nodes, node)) /\ Rooted(Append(r.nodes, node))
  BY <1>1, <1>2, <1>3, OneNodeMore
<1>6. s \in Graph /\ s.nodes = Append(r.nodes, node) /\ s.tickets = r.tickets
  BY <1>1, <1>4, <1>5 DEF Graph
<1>7. TipOfLane(s, lane) = Len(r.nodes) + 1
  BY <1>3, <1>5, <1>6, TipMoves
<1> QED  BY <1>1, <1>3, <1>5, <1>6, <1>7 DEF s

\* No ticket is touched.
LEMMA TrunkSound ==
  ASSUME NEW r, Sound(r), NEW s \in Graph, GoesOn(r.nodes, s.nodes), Rooted(s.nodes),
         s.tickets = r.tickets, Landed(s)
  PROVE  /\ Sound(s) /\ Open(s) = Open(r)
         /\ \A u \in Tickets : Works(r.nodes, Ids(r, u)) => Works(s.nodes, Ids(s, u))
<1>1. /\ s.nodes \in Seq(GraphNode) /\ r.nodes \in Seq(GraphNode) /\ Rooted(r.nodes) /\ r \in Graph
  BY GraphIs DEF Sound
<1>2. Open(s) = Open(r) /\ \A u : Ids(s, u) = Ids(r, u)
  BY DEF Open, Ids
<1>3. ASSUME NEW u \in Tickets
      PROVE  /\ Chain(s.nodes, u, Ids(s, u)) /\ Chain(r.nodes, u, Ids(r, u))
             /\ Works(s.nodes, Ids(s, u)) <=> Works(r.nodes, Ids(r, u))
  <2>1. Ids(r, u) \in Seq(Nat) /\ Chain(r.nodes, u, Ids(r, u))
    BY <1>1, GraphIs DEF Sound
  <2> QED  BY <1>1, <1>2, <2>1, ChainStays
<1>4. ASSUME NEW u \in Open(s) PROVE LanedIn(s, u)
  <2>1. u \in Tickets /\ LanedIn(r, u)
    BY <1>2 DEF Sound, Open
  <2>2. \A i \in 1..Len(Ids(r, u)) : s.nodes[Ids(r, u)[i]] = r.nodes[Ids(r, u)[i]]
    BY <1>3, <2>1 DEF Chain, GoesOn
  <2> QED  BY <1>2, <2>1, <2>2 DEF LanedIn
<1>5. ASSUME NEW u \in Tickets PROVE StatusIs(s, u)
  <2>1. StatusIs(r, u) /\ Parent(u) \in Tickets
    BY ParentIs DEF Sound
  <2>2. s.tickets[u].status = "open" =>
          /\ s.tickets[Parent(u)].status = "open"
          /\ s.tickets[Parent(u)].theirs = s.tickets[u].theirs
    BY <2>1 DEF StatusIs
  <2>3. /\ Works(r.nodes, Ids(r, Parent(u))) => Works(s.nodes, Ids(s, Parent(u)))
        /\ Ids(s, u) = Ids(r, u) /\ Ids(s, Parent(u)) = Ids(r, Parent(u))
    BY <1>2, <1>3, <2>1
  <2> QED  BY <1>1, <2>2, <2>3, StatusStays
<1>6. Sound(s)
  BY <1>3, <1>4, <1>5 DEF Sound
<1> QED  BY <1>2, <1>3, <1>6

\* The sprint is shipped: main is built on dev.
LEMMA ShippedIs ==
  ASSUME NEW r, Sound(r)
  PROVE  LET s == Shipped(r)
         IN /\ Sound(s) /\ s.tickets = r.tickets /\ DevShipped(s)
            /\ \A u \in Tickets : Works(r.nodes, Ids(r, u)) => Works(s.nodes, Ids(s, u))
<1> DEFINE m == OnTrunk(r, "sprint_merge", Main, <<TipOfLane(r, Main), TipOfLane(r, Dev)>>)
           s == OnTrunk(m, "release", Main, <<New(m)>>)
           k == Len(r.nodes)
<1>1. /\ TipOfLane(r, Main) \in 1..k /\ TipOfLane(r, Dev) \in 1..k /\ k \in Nat
  BY TipIs, GraphIs DEF Sound
<1>2. /\ <<TipOfLane(r, Main), TipOfLane(r, Dev)>> \in Seq(Nat)
      /\ \A p \in ToSet(<<TipOfLane(r, Main), TipOfLane(r, Dev)>>) : p \in 1..k
      /\ TipOfLane(r, Dev) \in ToSet(<<TipOfLane(r, Main), TipOfLane(r, Dev)>>)
  BY <1>1 DEF ToSet
<1>3. /\ m \in Graph /\ m.nodes \in Seq(GraphNode) /\ Len(m.nodes) = k + 1
      /\ GoesOn(r.nodes, m.nodes) /\ Rooted(m.nodes) /\ m.tickets = r.tickets
      /\ m.nodes[k + 1].lane = Main
      /\ m.nodes[k + 1].parents = <<TipOfLane(r, Main), TipOfLane(r, Dev)>>
  BY <1>2, OnTrunkIs
<1>a. r.nodes \in Seq(GraphNode) /\ Rooted(r.nodes)
  BY GraphIs DEF Sound
<1> HIDE DEF m, k
<1>4. \A n \in 1..Len(m.nodes) : n > k => m.nodes[n].lane # Dev
  <2>1. \A n \in 1..Len(m.nodes) : n > k => n = k + 1
    BY <1>1, <1>3
  <2> QED  BY <1>3, <2>1 DEF Main, Dev
<1>5. Landed(m)
  <2>1. \A u \in Tickets : Ids(m, u) = Ids(r, u)
    BY <1>3 DEF Ids
  <2> QED  BY <1>3, <1>4, <2>1, LandedElsewhere DEF k
<1>6. /\ Sound(m)
      /\ \A u \in Tickets : Works(r.nodes, Ids(r, u)) => Works(m.nodes, Ids(m, u))
  BY <1>3, <1>5, TrunkSound
<1>7. /\ <<New(m)>> \in Seq(Nat) /\ New(m) = k + 1 /\ \A p \in ToSet(<<New(m)>>) : p \in 1..Len(m.nodes)
      /\ k + 1 \in ToSet(<<New(m)>>)
  BY <1>1, <1>3 DEF New, ToSet
<1>8. /\ s \in Graph /\ s.nodes \in Seq(GraphNode) /\ Len(s.nodes) = Len(m.nodes) + 1
      /\ GoesOn(m.nodes, s.nodes) /\ Rooted(s.nodes) /\ s.tickets = m.tickets
      /\ s.nodes[Len(m.nodes) + 1].lane = Main /\ s.nodes[Len(m.nodes) + 1].parents = <<New(m)>>
      /\ TipOfLane(s, Main) = Len(m.nodes) + 1
  BY <1>6, <1>7, OnTrunkIs
<1> HIDE DEF s
<1>b. \A n \in 1..Len(s.nodes) :
        Ancestors(s)[n] = {n} \cup UNION {Ancestors(s)[p] : p \in ToSet(s.nodes[n].parents)}
  BY <1>8, AncestorsAre
<1>9. \A n \in 1..Len(s.nodes) : n > Len(m.nodes) => s.nodes[n].lane # Dev
  <2>1. \A n \in 1..Len(s.nodes) : n > Len(m.nodes) => n = Len(m.nodes) + 1
    BY <1>1, <1>3, <1>8
  <2> QED  BY <1>8, <2>1 DEF Main, Dev
<1>10. Landed(s)
  <2>1. \A u \in Tickets : Ids(s, u) = Ids(m, u)
    BY <1>8 DEF Ids
  <2> QED  BY <1>6, <1>8, <1>9, <2>1, LandedElsewhere
<1>11. /\ Sound(s)
       /\ \A u \in Tickets : Works(m.nodes, Ids(m, u)) => Works(s.nodes, Ids(s, u))
  BY <1>6, <1>8, <1>10, TrunkSound
<1>12. TipOfLane(s, Dev) = TipOfLane(r, Dev)
  <2>1. TipOfLane(s, Dev) = TipOfLane(m, Dev)
    BY <1>3, <1>8, <1>9, TipStays
  <2>2. TipOfLane(m, Dev) = TipOfLane(r, Dev)
    BY <1>3, <1>4, <1>a, TipStays DEF k
  <2> QED  BY <2>1, <2>2
<1>13. DevShipped(s)
  <2>1. s.nodes[k + 1] = m.nodes[k + 1] /\ k + 1 \in 1..Len(s.nodes) /\ k + 2 \in 1..Len(s.nodes)
        /\ Len(m.nodes) + 1 = k + 2
    BY <1>1, <1>3, <1>8 DEF GoesOn
  <2>2. TipOfLane(r, Dev) \in Ancestors(s)[TipOfLane(r, Dev)]
    <3>1. TipOfLane(r, Dev) \in 1..Len(s.nodes)
      BY <1>1, <2>1
    <3> QED  BY <1>b, <3>1
  <2>3. TipOfLane(r, Dev) \in Ancestors(s)[k + 1]
    <3>1. TipOfLane(r, Dev) \in ToSet(s.nodes[k + 1].parents)
      BY <1>2, <1>3, <2>1
    <3> QED  BY <1>b, <2>1, <2>2, <3>1
  <2>4. TipOfLane(r, Dev) \in Ancestors(s)[k + 2]
    <3>1. k + 1 \in ToSet(s.nodes[k + 2].parents)
      BY <1>7, <1>8, <2>1
    <3> QED  BY <1>b, <2>1, <2>3, <3>1
  <2> QED  BY <1>8, <1>12, <2>1, <2>4 DEF DevShipped
<1>14. s = Shipped(r)
  BY DEF s, m, Shipped
<1> QED  BY <1>3, <1>6, <1>8, <1>11, <1>13, <1>14

\* The sprint opens: main is merged back into dev.
LEMMA StartedIs ==
  ASSUME NEW r, Sound(r), DevShipped(r)
  PROVE  LET s == OnTrunk(r, "sprint_start", Dev, <<TipOfLane(r, Main)>>)
         IN /\ Sound(s) /\ s.tickets = r.tickets
            /\ \A u \in Tickets : Works(r.nodes, Ids(r, u)) => Works(s.nodes, Ids(s, u))
<1> DEFINE s == OnTrunk(r, "sprint_start", Dev, <<TipOfLane(r, Main)>>)
           k == Len(r.nodes)
<1>1. TipOfLane(r, Main) \in 1..k /\ k \in Nat /\ r.nodes \in Seq(GraphNode) /\ Rooted(r.nodes)
  BY TipIs, GraphIs DEF Sound
<1>2. /\ <<TipOfLane(r, Main)>> \in Seq(Nat)
      /\ \A p \in ToSet(<<TipOfLane(r, Main)>>) : p \in 1..k
      /\ TipOfLane(r, Main) \in ToSet(<<TipOfLane(r, Main)>>)
  BY <1>1 DEF ToSet
<1>3. /\ s \in Graph /\ s.nodes \in Seq(GraphNode) /\ Len(s.nodes) = k + 1
      /\ GoesOn(r.nodes, s.nodes) /\ Rooted(s.nodes) /\ s.tickets = r.tickets
      /\ s.nodes[k + 1].parents = <<TipOfLane(r, Main)>>
      /\ TipOfLane(s, Dev) = k + 1
  BY <1>2, OnTrunkIs
<1> HIDE DEF s, k
<1>b. \A n \in 1..Len(s.nodes) :
        Ancestors(s)[n] = {n} \cup UNION {Ancestors(s)[p] : p \in ToSet(s.nodes[n].parents)}
  BY <1>3, AncestorsAre
<1>4. TipOfLane(r, Dev) \in Ancestors(s)[TipOfLane(s, Dev)]
  <2>1. Ancestors(s)[TipOfLane(r, Main)] = Ancestors(r)[TipOfLane(r, Main)]
    BY <1>1, <1>3, AncestorsStay DEF k
  <2>2. k + 1 \in 1..Len(s.nodes) /\ TipOfLane(r, Main) \in ToSet(s.nodes[k + 1].parents)
    BY <1>1, <1>2, <1>3
  <2>3. TipOfLane(r, Dev) \in Ancestors(s)[TipOfLane(r, Main)]
    BY <2>1 DEF DevShipped
  <2> QED  BY <1>3, <1>b, <2>2, <2>3
<1>5. Landed(s)
  <2>1. \A u \in Tickets : Ids(s, u) = Ids(r, u)
    BY <1>3 DEF Ids
  <2> QED  BY <1>3, <1>4, <2>1, LandedStays
<1> QED  BY <1>3, <1>5, TrunkSound DEF s

-----------------------------------------------------------------------------
(* What is merged is whole *)

\* A ticket's commits are below its last.
LEMMA ChainIsBelow ==
  ASSUME NEW r, Sound(r), NEW t \in Tickets, Ids(r, t) # <<>>
  PROVE  /\ Last(Ids(r, t)) \in 1..Len(r.nodes)
         /\ \A i \in 1..Len(Ids(r, t)) : Ids(r, t)[i] \in Ancestors(r)[Last(Ids(r, t))]
<1> DEFINE ids == Ids(r, t)
           L == Len(ids)
           all == Ancestors(r)[Last(ids)]
           T == {k \in Nat : k < L => ids[L - k] \in all}
<1>1. /\ r.nodes \in Seq(GraphNode) /\ Rooted(r.nodes) /\ ids \in Seq(Nat) /\ L \in Nat
      /\ Chain(r.nodes, t, ids)
  BY GraphIs DEF Sound
<1>2. Last(ids) \in 1..Len(r.nodes) /\ Last(ids) = ids[L]
  BY LastOf
<1>3. \A n \in 1..Len(r.nodes) :
        Ancestors(r)[n] = {n} \cup UNION {Ancestors(r)[p] : p \in ToSet(r.nodes[n].parents)}
  BY <1>1, AncestorsAre
<1> HIDE DEF ids, L, all
<1>4. 0 \in T
  BY <1>1, <1>2, <1>3 DEF all
<1>5. ASSUME NEW k \in Nat, k \in T PROVE k + 1 \in T
  <2> SUFFICES ASSUME k + 1 < L PROVE ids[L - (k + 1)] \in all
    BY <1>1
  <2> DEFINE i == L - k
  <2>1. i \in 2..L /\ i \in 1..L /\ i - 1 = L - (k + 1) /\ k < L
    BY <1>1
  <2>2. ids[i] \in all
    BY <1>5, <2>1
  <2> HIDE DEF i
  <2>3. /\ ids[i] \in 1..Len(r.nodes) /\ r.nodes[ids[i]].parents # <<>>
        /\ Head(r.nodes[ids[i]].parents) = ids[i - 1]
    BY <1>1, <2>1 DEF Chain, L
  <2>4. ids[i - 1] \in ToSet(r.nodes[ids[i]].parents) /\ ids[i - 1] \in 1..Len(r.nodes)
    BY <1>1, <2>3, HeadIsBefore
  <2>5. ids[i - 1] \in Ancestors(r)[ids[i]]
    <3>1. /\ Ancestors(r)[ids[i]] = {ids[i]} \cup
               UNION {Ancestors(r)[p] : p \in ToSet(r.nodes[ids[i]].parents)}
          /\ Ancestors(r)[ids[i - 1]] = {ids[i - 1]} \cup
               UNION {Ancestors(r)[p] : p \in ToSet(r.nodes[ids[i - 1]].parents)}
      BY <1>3, <2>3, <2>4
    <3>2. ids[i - 1] \in Ancestors(r)[ids[i - 1]]
      BY <3>1
    <3> QED  BY <2>4, <3>1, <3>2
  <2>6. Ancestors(r)[ids[i]] \subseteq all
    BY <1>1, <1>2, <2>2, AncestorsGoUp DEF all
  <2> QED  BY <2>1, <2>5, <2>6
<1>6. ASSUME NEW i \in 1..L PROVE ids[i] \in all
  <2>1. L - i \in Nat /\ L - i < L /\ L - (L - i) = i
    BY <1>1
  <2>2. L - i \in T
    <3> HIDE DEF T
    <3> QED  BY <1>4, <1>5, <2>1, FromNought
  <2> QED  BY <2>1, <2>2
<1> QED  BY <1>2, <1>6 DEF ids, L, all

LEMMA MergedIsWhole ==
  ASSUME NEW r, Sound(r), NEW t \in Tickets, r.tickets[t].status = "merged",
         r.tickets[Parent(t)].status = "merged", NEW i \in 1..Len(Ids(r, t))
  PROVE  ~r.nodes[Ids(r, t)[i]].broken /\ Ids(r, t)[i] \in Ancestors(r)[TipOfLane(r, Dev)]
<1> DEFINE q == Parent(t)
           tip == TipOfLane(r, Dev)
<1>1. /\ r.nodes \in Seq(GraphNode) /\ Rooted(r.nodes) /\ tip \in 1..Len(r.nodes)
      /\ q \in Tickets /\ ~IsObstacle(q) /\ Parent(q) = q
  BY GraphIs, TipIs, ParentIs DEF Sound
<1>2. /\ StatusIs(r, t) /\ StatusIs(r, q) /\ Landed(r)
      /\ Ids(r, t) \in Seq(Nat) /\ Ids(r, q) \in Seq(Nat)
      /\ r.tickets[t].ids = Ids(r, t) /\ r.tickets[q].ids = Ids(r, q)
  BY <1>1, GraphIs DEF Sound, Ids
<1>3. /\ Works(r.nodes, Ids(r, t)) /\ Clean(r.nodes, Ids(r, t)) /\ Works(r.nodes, Ids(r, q))
      /\ IsObstacle(t) => Joined(r, t)
  BY <1>2 DEF StatusIs
<1>4. Ids(r, t) # <<>> /\ Ids(r, q) # <<>>
  BY <1>2, <1>3, WorksIsWritten
<1>5. /\ Last(Ids(r, t)) \in 1..Len(r.nodes) /\ Last(Ids(r, q)) \in 1..Len(r.nodes)
      /\ \A j \in 1..Len(Ids(r, t)) : Ids(r, t)[j] \in Ancestors(r)[Last(Ids(r, t))]
      /\ \A j \in 1..Len(Ids(r, q)) : Ids(r, q)[j] \in Ancestors(r)[Last(Ids(r, q))]
  BY <1>1, <1>4, ChainIsBelow
<1>6. Last(Ids(r, q)) \in Ancestors(r)[tip]
  BY <1>1, <1>2 DEF Landed
<1>7. Ancestors(r)[Last(Ids(r, q))] \subseteq Ancestors(r)[tip]
  BY <1>1, <1>6, AncestorsGoUp
<1>8. Last(Ids(r, t)) \in Ancestors(r)[tip]
  <2>1. CASE ~IsObstacle(t)
    BY <1>6, <2>1, ParentIs
  <2>2. CASE IsObstacle(t)
    <3>1. PICK j \in 1..Len(Ids(r, q)) :
            Last(Ids(r, t)) \in ToSet(r.nodes[Ids(r, q)[j]].parents)
      BY <1>3, <2>2 DEF Joined
    <3>2. Ids(r, q)[j] \in Ancestors(r)[tip]
      BY <1>5, <1>7
    <3>3. Ids(r, q)[j] \in 1..Len(r.nodes) /\ Ancestors(r)[Ids(r, q)[j]] \subseteq Ancestors(r)[tip]
      BY <1>1, <3>2, AncestorsGoUp
    <3>4. /\ Ancestors(r)[Ids(r, q)[j]] = {Ids(r, q)[j]} \cup
               UNION {Ancestors(r)[p] : p \in ToSet(r.nodes[Ids(r, q)[j]].parents)}
          /\ Ancestors(r)[Last(Ids(r, t))] = {Last(Ids(r, t))} \cup
               UNION {Ancestors(r)[p] : p \in ToSet(r.nodes[Last(Ids(r, t))].parents)}
      BY <1>1, <1>5, <3>3, AncestorsAre
    <3>5. Last(Ids(r, t)) \in Ancestors(r)[Ids(r, q)[j]]
      BY <3>1, <3>4
    <3> QED  BY <3>3, <3>5
  <2> QED  BY <2>1, <2>2
<1>9. Ancestors(r)[Last(Ids(r, t))] \subseteq Ancestors(r)[tip]
  BY <1>1, <1>8, AncestorsGoUp
<1> QED  BY <1>3, <1>5, <1>9 DEF Clean

-----------------------------------------------------------------------------
(* The steps *)

\* A ticket under review stands on nothing, and has something to show.
Reviewed(r, t) ==
  t \in Mine(r) /\ ~IsObstacle(t) /\ Works(r.nodes, Ids(r, t)) /\ Obstacles(r, t) = {}

SoundAtRest(r) == Sound(r) /\ \A t \in Open(r) : HoldsForGood(r, t)

\* The graph is what the rules make it, every ticket that holds a column has written;
\* the ticket in hand and the one a question is about are the player's, the turn's
\* are the team's; the sprint that closes has shipped dev.
BranchInv ==
  /\ SoundAtRest(repo)
  /\ hand # NoTicket => hand \in Mine(repo)
  /\ at = "team" => shift \subseteq Theirs(repo)
  /\ asked.kind \in {"accepted", "rejected", "conflict"} => Reviewed(repo, asked.ticket)
  /\ asked.kind = "bonus" => at \in {"idle", "publish", "told"}
  /\ at = "sprint" \/ asked.kind = "bonus" => DevShipped(repo)

LEMMA SettledIs ==
  ASSUME NEW s, NEW h, NEW k \in Settled(s, h), h # NoTicket /\ h \in Open(s) => h \in Mine(s)
  PROVE  k # NoTicket => k \in Mine(s)
BY DEF Settled

\* A step on `t`, for the rest.
LEMMA StepKeeps ==
  ASSUME NEW r, SoundAtRest(r), NEW s, NEW t \in Open(r), Advances(r, s, t),
         t \in Open(s) => HoldsForGood(s, t)
  PROVE  /\ SoundAtRest(s)
         /\ \A u \in Mine(r) : u # t => u \in Mine(s)
         /\ \A u \in Theirs(r) : u # t => u \in Theirs(s)
         /\ \A u \in Tickets : u # t /\ Reviewed(r, u) => Reviewed(s, u)
<1>1. /\ Sound(s)
      /\ (\A u \in Open(r) : HoldsForGood(r, u)) => \A u \in Open(s) : HoldsForGood(s, u)
      /\ \A u \in Mine(r) : u # t => u \in Mine(s)
      /\ \A u \in Theirs(r) : u # t => u \in Theirs(s)
      /\ \A u \in Open(r) : u # t /\ Obstacles(r, u) = {} => Obstacles(s, u) = {}
      /\ \A u \in Tickets : u # t /\ Works(r.nodes, Ids(r, u)) => Works(s.nodes, Ids(s, u))
  BY OthersStay
<1> QED  BY <1>1 DEF SoundAtRest, Reviewed, Mine

\* Tickets that open.
LEMMA OpenedKeeps ==
  ASSUME NEW r, SoundAtRest(r), NEW ts, NEW theirs \in BOOLEAN,
         ts \subseteq Backlog(r) \/ (ts = Theirs(r) /\ ~theirs)
  PROVE  LET s == OpenedFor(r, ts, theirs)
         IN /\ SoundAtRest(s) /\ s.nodes = r.nodes
            /\ Mine(r) \subseteq Mine(s)
            /\ ts \subseteq Backlog(r) => Theirs(r) \subseteq Theirs(s)
            /\ ~theirs => ts \subseteq Mine(s)
            /\ \A u \in Tickets : Reviewed(r, u) => Reviewed(s, u)
            /\ DevShipped(r) => DevShipped(s)
<1> DEFINE s == OpenedFor(r, ts, theirs)
<1>1. /\ Sound(s) /\ s.nodes = r.nodes
      /\ \A u \in Tickets :
           /\ Ids(s, u) = Ids(r, u)
           /\ s.tickets[u].status = IF u \in ts THEN "open" ELSE r.tickets[u].status
           /\ s.tickets[u].theirs = IF u \in ts THEN theirs ELSE r.tickets[u].theirs
      /\ (\A u \in Open(r) : HoldsForGood(r, u)) => \A u \in Open(s) : HoldsForGood(s, u)
  BY OpenedForIs DEF SoundAtRest
<1> HIDE DEF s
<1>2. SoundAtRest(s)
  BY <1>1 DEF SoundAtRest
<1>3. Mine(r) \subseteq Mine(s)
  BY <1>1 DEF Mine, Theirs, Backlog, Open
<1>4. ts \subseteq Backlog(r) => Theirs(r) \subseteq Theirs(s)
  BY <1>1 DEF Mine, Theirs, Backlog, Open
<1>5. ~theirs => ts \subseteq Mine(s)
  BY <1>1 DEF Mine, Theirs, Backlog, Open
<1>6. ASSUME NEW u \in Tickets, Reviewed(r, u), NEW o \in Obstacles(s, u) PROVE FALSE
  <2>1. o \in Tickets /\ s.tickets[o].status = "open" /\ IsObstacle(o) /\ Parent(o) = u /\ o # u
    BY DEF Obstacles, Open
  <2>2. o \notin Open(r)
    BY <1>6, <2>1 DEF Obstacles, Reviewed
  <2>3. o \in ts /\ o \in Backlog(r)
    BY <1>1, <2>1, <2>2 DEF Theirs, Open
  <2>4. StatusIs(r, o)
    BY <2>1 DEF SoundAtRest, Sound
  <2> QED  BY <2>1, <2>3, <2>4 DEF StatusIs, Backlog
<1>7. \A u \in Tickets : Reviewed(r, u) => Reviewed(s, u)
  BY <1>1, <1>3, <1>6 DEF Reviewed
<1>8. DevShipped(r) => DevShipped(s)
  BY <1>1 DEF DevShipped, Ancestors, TipOfLane, Nodes
<1> QED  BY <1>1, <1>2, <1>3, <1>4, <1>5, <1>7, <1>8 DEF s

\* A graph with the same tickets.
LEMMA TrunkKeeps ==
  ASSUME NEW r, SoundAtRest(r), NEW s, Sound(s), s.tickets = r.tickets,
         \A u \in Tickets : Works(r.nodes, Ids(r, u)) => Works(s.nodes, Ids(s, u))
  PROVE  /\ SoundAtRest(s)
         /\ Mine(s) = Mine(r) /\ Theirs(s) = Theirs(r) /\ Backlog(s) = Backlog(r)
         /\ \A u \in Tickets : Reviewed(r, u) => Reviewed(s, u)
<1>1. Open(s) = Open(r) /\ \A u : Ids(s, u) = Ids(r, u)
  BY DEF Open, Ids
<1>2. Mine(s) = Mine(r) /\ Backlog(s) = Backlog(r)
  BY <1>1 DEF Mine, Backlog
<1>3. Theirs(s) = Theirs(r) /\ \A u : Obstacles(s, u) = Obstacles(r, u)
  BY <1>1, <1>2 DEF Theirs, Obstacles
<1>4. SoundAtRest(s)
  BY <1>1 DEF SoundAtRest, HoldsForGood
<1> QED  BY <1>2, <1>3, <1>4 DEF Reviewed

\* Ready, a ticket has something that works.
LEMMA ReadyIs ==
  ASSUME NEW r, Sound(r), NEW t \in Tickets, Ready(r, t)
  PROVE  Works(r.nodes, Ids(r, t)) /\ Obstacles(r, t) = {}
<1>1. StatusIs(r, t)
  BY DEF Sound
<1> QED  BY <1>1 DEF Ready, StatusIs, Ids

\* What the invariant says of the question asked.
LEMMA AskedIs ==
  ASSUME BranchInv, asked.kind \in {"accepted", "rejected", "conflict"}
  PROVE  /\ Reviewed(repo, asked.ticket) /\ asked.ticket \in Tickets
         /\ asked.ticket \in Open(repo) /\ asked.ticket \in Mine(repo)
BY DEF BranchInv, Reviewed, Mine, Open

LEMMA HandIs ==
  ASSUME BranchInv, hand # NoTicket
  PROVE  hand \in Mine(repo) /\ hand \in Open(repo) /\ hand \in Tickets
BY DEF BranchInv, Mine, Open

\* A commit, on the ticket in hand or on the one that was refused.
LEMMA WritesKeeps ==
  ASSUME BranchInv, NEW t \in Mine(repo), Writes(t)
  PROVE  SoundAtRest(repo') /\ (hand' # NoTicket => hand' \in Mine(repo'))
<1>1. t \in Open(repo) /\ t \in Tickets /\ Sound(repo) /\ SoundAtRest(repo)
  BY DEF BranchInv, SoundAtRest, Mine, Open
<1>2. PICK broken \in BOOLEAN :
        repo' \in IF broken THEN {Commit(repo, t, TRUE, FALSE)}
                  ELSE Outcomes(Commit(Pushed(repo, t), t, FALSE, FALSE), t)
  BY DEF Writes
<1>3. Advances(repo, repo', t) /\ HoldsForGood(repo', t) /\ t \in Mine(repo')
  BY <1>1, <1>2, WritingAdvances
<1>4. SoundAtRest(repo') /\ \A u \in Mine(repo) : u # t => u \in Mine(repo')
  BY <1>1, <1>3, StepKeeps
<1>5. ASSUME NEW o \in Tickets, Grown(repo', o) PROVE o \in Mine(repo')
  <2>1. /\ repo'.tickets[o].status = "open" /\ repo.tickets[o].status = "none"
        /\ repo.tickets[t].status = "open" /\ ~repo.tickets[t].theirs
    BY <1>1, <1>5 DEF Grown, Mine, Open
  <2>2. repo'.tickets[o].theirs = repo.tickets[t].theirs
    BY <1>3, <2>1 DEF Advances
  <2> QED  BY <2>1, <2>2 DEF Mine, Open
<1>6. hand' = hand \/ \E o \in Tickets : Grown(repo', o) /\ hand' = o
  BY DEF Writes
<1>7. hand # NoTicket => hand \in Mine(repo')
  BY <1>3, <1>4 DEF BranchInv
<1> QED  BY <1>4, <1>5, <1>6, <1>7

\* A feature lands, by the player.
LEMMA LandsKeeps ==
  ASSUME BranchInv, asked.kind \in {"accepted", "rejected", "conflict"}, LandsFeature(asked.ticket)
  PROVE  BranchInv'
<1> DEFINE t == asked.ticket
<1>1. /\ t \in Mine(repo) /\ t \in Open(repo) /\ ~IsObstacle(t) /\ Sound(repo) /\ SoundAtRest(repo)
      /\ Works(repo.nodes, Ids(repo, t)) /\ Obstacles(repo, t) = {}
  BY AskedIs DEF BranchInv, SoundAtRest, Reviewed
<1>2. repo' = FeatureLanded(repo, t, FALSE) /\ hand' \in Settled(repo', hand)
  BY DEF LandsFeature
<1>3. Advances(repo, repo', t) /\ repo'.tickets[t].status = "merged"
  BY <1>1, <1>2, FeatureAdvances
<1> HIDE DEF t
<1>4. t \notin Open(repo')
  BY <1>3 DEF Open
<1>5. SoundAtRest(repo') /\ \A u \in Mine(repo) : u # t => u \in Mine(repo')
  BY <1>1, <1>3, <1>4, StepKeeps
<1>6. hand' # NoTicket => hand' \in Mine(repo')
  BY <1>2, <1>4, <1>5, SettledIs DEF BranchInv
<1>7. at' = "pull" /\ asked' = [kind |-> "action", ticket |-> NoTicket]
  BY DEF LandsFeature, Ordinary, Ask, TakesTurn
<1> QED  BY <1>5, <1>6, <1>7 DEF BranchInv

\* What changes nothing but where the player stands.
LEMMA StandsKeeps ==
  ASSUME BranchInv, repo' = repo, hand' = hand \/ hand' \in Mine(repo), at' \in {"publish", "pull"},
         asked.kind # "bonus",
         \/ asked' = asked
         \/ asked.kind = "accepted" /\ asked' = [kind |-> "conflict", ticket |-> asked.ticket]
  PROVE  BranchInv'
<1>1. SoundAtRest(repo') /\ (hand' # NoTicket => hand' \in Mine(repo'))
  BY DEF BranchInv
<1>2. asked'.kind \in {"accepted", "rejected", "conflict"} => Reviewed(repo', asked'.ticket)
  BY DEF BranchInv
<1>3. asked'.kind # "bonus" /\ at' \notin {"team", "sprint"}
  OBVIOUS
<1> QED  BY <1>1, <1>2, <1>3 DEF BranchInv

LEMMA StartTicketKeeps ==
  ASSUME BranchInv, StartTicket
  PROVE  BranchInv'
<1>1. PICK t \in Backlog(repo) : repo' = OpenedFor(repo, {t}, FALSE) /\ hand' = t
  BY DEF StartTicket
<1>2. at' = "publish" /\ asked' = asked /\ asked.kind = "action"
  BY DEF StartTicket, IsFree, Asks
<1>3. SoundAtRest(repo) /\ {t} \subseteq Backlog(repo)
  BY DEF BranchInv
<1>4. SoundAtRest(repo') /\ t \in Mine(repo')
  BY <1>1, <1>3, OpenedKeeps
<1> QED  BY <1>1, <1>2, <1>4 DEF BranchInv

LEMMA SubmitKeeps ==
  ASSUME BranchInv, SubmitAccepted \/ SubmitRefused
  PROVE  BranchInv'
<1>1. /\ hand # NoTicket /\ ~IsObstacle(hand) /\ Ready(repo, hand) /\ at' = "publish"
      /\ hand' = hand /\ asked'.ticket = hand /\ asked'.kind \in {"accepted", "rejected"}
  <2>1. CASE SubmitAccepted
    BY <2>1 DEF SubmitAccepted, IsFree, Ask
  <2>2. CASE SubmitRefused
    BY <2>2 DEF SubmitRefused, IsFree, Ask
  <2> QED  BY <2>1, <2>2
<1>2. /\ hand \in Mine(repo) /\ hand \in Open(repo) /\ hand \in Tickets
      /\ Sound(repo) /\ SoundAtRest(repo)
  BY <1>1, HandIs DEF BranchInv, SoundAtRest
<1>3. Works(repo.nodes, Ids(repo, hand)) /\ Obstacles(repo, hand) = {}
  BY <1>1, <1>2, ReadyIs
<1> DEFINE p == Pushed(repo, hand)
<1>4. /\ Sound(p) /\ p.nodes = repo.nodes /\ Open(p) = Open(repo)
      /\ Works(p.nodes, Ids(p, hand)) /\ Ids(p, hand) # <<>>
      /\ \A u \in Tickets : p.tickets[u].theirs = repo.tickets[u].theirs
      /\ \A u \in Tickets : u # hand => p.tickets[u] = repo.tickets[u]
  <2>1. \A u \in Tickets : /\ p.tickets[u].theirs = repo.tickets[u].theirs
                           /\ u # hand => p.tickets[u] = repo.tickets[u]
    BY <1>2, PushedFields
  <2>2. /\ Sound(p) /\ Open(p) = Open(repo)
        /\ Works(repo.nodes, Ids(p, hand)) /\ Ids(p, hand) # <<>>
    BY <1>2, <1>3, PushedSound
  <2>3. p.nodes = repo.nodes
    BY <1>2, PushedIs
  <2> QED  BY <2>1, <2>2, <2>3
<1> HIDE DEF p
<1>5. Mine(p) = Mine(repo) /\ Obstacles(p, hand) = Obstacles(repo, hand)
  BY <1>4 DEF Mine, Obstacles, Open
<1>6. SoundAtRest(p)
  <2>1. \A u \in Open(p) : u # hand => HoldsForGood(p, u)
    BY <1>2, <1>4 DEF SoundAtRest, HoldsForGood, Ids, Open
  <2> QED  BY <1>4, <2>1 DEF SoundAtRest, HoldsForGood
<1>7. Reviewed(p, hand)
  BY <1>1, <1>2, <1>3, <1>4, <1>5 DEF Reviewed
<1>8. SoundAtRest(repo') /\ Reviewed(repo', hand)
  <2>1. CASE SubmitAccepted
    <3>1. repo' = p
      BY <2>1 DEF SubmitAccepted, p
    <3> QED  BY <1>6, <1>7, <3>1
  <2>2. CASE SubmitRefused
    <3> DEFINE f == Filled(p, hand, FALSE)
    <3>1. /\ Advances(p, f, hand) /\ Open(f) = Open(p) /\ f.nodes = p.nodes
          /\ HoldsForGood(p, hand) => HoldsForGood(f, hand)
          /\ \A u \in Tickets : /\ f.tickets[u].status = p.tickets[u].status
                                /\ f.tickets[u].theirs = p.tickets[u].theirs
                                /\ Ids(f, u) = Ids(p, u)
      BY <1>2, <1>4, FilledAdvances
    <3> HIDE DEF f
    <3>2. SoundAtRest(f)
      BY <1>2, <1>4, <1>6, <3>1, StepKeeps DEF SoundAtRest
    <3>3. Reviewed(f, hand)
      BY <1>7, <3>1 DEF Reviewed, Mine, Obstacles, Open
    <3>4. repo' = f \/ \E t \in Backlog(repo) : repo' = OpenedFor(f, {t}, FALSE)
      BY <2>2 DEF SubmitRefused, f, p
    <3>5. \A t \in Backlog(repo) : {t} \subseteq Backlog(f)
      BY <1>2, <1>4, <3>1 DEF Backlog, Open
    <3>6. CASE repo' = f
      BY <3>2, <3>3, <3>6
    <3>7. CASE \E t \in Backlog(repo) : repo' = OpenedFor(f, {t}, FALSE)
      <4>1. PICK t \in Backlog(repo) : repo' = OpenedFor(f, {t}, FALSE)
        BY <3>7
      <4> QED  BY <1>2, <3>2, <3>3, <3>5, <4>1, OpenedKeeps
    <3> QED  BY <3>4, <3>6, <3>7
  <2> QED  BY <2>1, <2>2
<1>9. hand \in Mine(repo')
  BY <1>8 DEF Reviewed
<1> QED  BY <1>1, <1>8, <1>9 DEF BranchInv

LEMMA FollowupKeeps ==
  ASSUME BranchInv, Followup
  PROVE  BranchInv'
<1> DEFINE t == asked.ticket
<1>1. /\ repo' = Filled(repo, t, TRUE) /\ hand' = hand /\ at' = "publish"
      /\ asked' = [kind |-> "accepted", ticket |-> t] /\ asked.kind = "rejected"
  BY DEF Followup, IsFree, Ask, Asks
<1>2. /\ Reviewed(repo, t) /\ t \in Tickets /\ t \in Open(repo) /\ Sound(repo) /\ SoundAtRest(repo)
      /\ Works(repo.nodes, Ids(repo, t)) /\ HoldsForGood(repo, t)
  BY <1>1, AskedIs DEF BranchInv, SoundAtRest, Reviewed
<1> HIDE DEF t
<1>3. /\ Advances(repo, repo', t) /\ Open(repo') = Open(repo) /\ repo'.nodes = repo.nodes
      /\ HoldsForGood(repo, t) => HoldsForGood(repo', t)
      /\ \A u \in Tickets : /\ repo'.tickets[u].status = repo.tickets[u].status
                            /\ repo'.tickets[u].theirs = repo.tickets[u].theirs
                            /\ Ids(repo', u) = Ids(repo, u)
  BY <1>1, <1>2, FilledAdvances
<1>4. SoundAtRest(repo')
  BY <1>2, <1>3, StepKeeps
<1>5. Mine(repo') = Mine(repo) /\ Obstacles(repo', t) = Obstacles(repo, t)
  BY <1>3 DEF Mine, Obstacles, Open
<1>6. Reviewed(repo', t)
  BY <1>2, <1>3, <1>5 DEF Reviewed
<1>7. hand' # NoTicket => hand' \in Mine(repo')
  BY <1>1, <1>5 DEF BranchInv
<1> QED  BY <1>1, <1>4, <1>6, <1>7 DEF BranchInv

LEMMA MergeObstacleKeeps ==
  ASSUME BranchInv, MergeObstacle
  PROVE  BranchInv'
<1>1. /\ repo' = ObstacleLanded(repo, hand, FALSE) /\ hand' = Parent(hand)
      /\ IsObstacle(hand) /\ Ready(repo, hand) /\ at' = "pull" /\ asked' = asked
      /\ asked.kind = "action"
  BY DEF MergeObstacle, TakesTurn, Asks
<1>2. hand # NoTicket
  BY <1>1 DEF IsObstacle, NoTicket
<1>3. /\ hand \in Mine(repo) /\ hand \in Open(repo) /\ hand \in Tickets
      /\ Sound(repo) /\ SoundAtRest(repo) /\ Works(repo.nodes, Ids(repo, hand))
  BY <1>1, <1>2, HandIs, ReadyIs DEF BranchInv, SoundAtRest
<1>4. Advances(repo, repo', hand) /\ repo'.tickets[hand].status = "merged"
  BY <1>1, <1>3, ObstacleAdvances
<1>5. hand \notin Open(repo')
  BY <1>4 DEF Open
<1>6. SoundAtRest(repo') /\ \A u \in Mine(repo) : u # hand => u \in Mine(repo')
  BY <1>3, <1>4, <1>5, StepKeeps
<1>7. Parent(hand) \in Mine(repo) /\ Parent(hand) # hand
  <2>1. StatusIs(repo, hand) /\ Parent(hand) \in Tickets /\ Parent(hand) # hand
    BY <1>1, <1>3, ParentIs DEF Sound
  <2> QED  BY <1>3, <2>1 DEF StatusIs, Mine, Open
<1> QED  BY <1>1, <1>6, <1>7 DEF BranchInv

\* What the player does.
LEMMA PlaysKeep ==
  ASSUME BranchInv, Plays
  PROVE  BranchInv'
<1>1. CASE StartTicket
  BY <1>1, StartTicketKeeps
<1>2. CASE Checkout \/ HireDev \/ Rest
  <2>1. /\ repo' = repo /\ (hand' = hand \/ hand' \in Mine(repo)) /\ at' \in {"publish", "pull"}
        /\ asked' = asked /\ asked.kind # "bonus"
    BY <1>2 DEF Checkout, HireDev, Rest, IsFree, TakesTurn, Asks
  <2> QED  BY <2>1, StandsKeeps
<1>3. CASE WriteCommit
  <2>1. hand # NoTicket /\ Writes(hand) /\ at' = "pull" /\ asked' = asked /\ asked.kind = "action"
    BY <1>3 DEF WriteCommit, TakesTurn, Asks
  <2>2. hand \in Mine(repo)
    BY <2>1, HandIs
  <2>3. SoundAtRest(repo') /\ (hand' # NoTicket => hand' \in Mine(repo'))
    BY <2>1, <2>2, WritesKeeps
  <2> QED  BY <2>1, <2>3 DEF BranchInv
<1>4. CASE SubmitAccepted \/ SubmitRefused
  BY <1>4, SubmitKeeps
<1>5. CASE Resume
  <2>1. /\ Writes(asked.ticket) /\ at' = "pull" /\ asked.kind = "rejected"
        /\ asked' = [kind |-> "action", ticket |-> NoTicket]
    BY <1>5 DEF Resume, TakesTurn, Asks, Ordinary, Ask
  <2>2. asked.ticket \in Mine(repo)
    BY <2>1, AskedIs
  <2>3. SoundAtRest(repo') /\ (hand' # NoTicket => hand' \in Mine(repo'))
    BY <2>1, <2>2, WritesKeeps
  <2> QED  BY <2>1, <2>3 DEF BranchInv
<1>6. CASE Followup
  BY <1>6, FollowupKeeps
<1>7. CASE Merge
  BY <1>7, LandsKeeps DEF Merge, Asks
<1>8. CASE MergeConflicts
  <2>1. /\ repo' = repo /\ hand' = hand /\ at' = "publish" /\ asked.kind = "accepted"
        /\ asked' = [kind |-> "conflict", ticket |-> asked.ticket]
    BY <1>8 DEF MergeConflicts, IsFree, Asks, Ask
  <2> QED  BY <2>1, StandsKeeps
<1>9. CASE ResolveConflict
  <2>1. CASE LandsFeature(asked.ticket)
    BY <1>9, <2>1, LandsKeeps DEF ResolveConflict, Asks
  <2>2. CASE ~LandsFeature(asked.ticket)
    <3>1. /\ repo' = repo /\ hand' = hand /\ at' = "pull" /\ asked' = asked /\ asked.kind = "conflict"
      BY <1>9, <2>2 DEF ResolveConflict, TakesTurn, Asks
    <3> QED  BY <3>1, StandsKeeps
  <2> QED  BY <2>1, <2>2
<1>10. CASE MergeObstacle
  BY <1>10, MergeObstacleKeeps
<1>11. CASE ChooseBonus
  <2>1. /\ repo' = repo /\ hand' = hand /\ at' = "sprint" /\ asked.kind = "bonus"
        /\ asked' = [kind |-> "action", ticket |-> NoTicket]
    BY <1>11 DEF ChooseBonus, Ordinary, Ask
  <2> QED  BY <2>1 DEF BranchInv
<1> QED  BY <1>1, <1>2, <1>3, <1>4, <1>5, <1>6, <1>7, <1>8, <1>9, <1>10, <1>11 DEF Plays

\* The team takes what waits.
LEMMA PullsKeep ==
  ASSUME NEW r, SoundAtRest(r), NEW s \in Pulls(r)
  PROVE  /\ SoundAtRest(s) /\ Mine(r) \subseteq Mine(s)
         /\ \A u \in Tickets : Reviewed(r, u) => Reviewed(s, u)
<1>1. PICK ts \in SUBSET Backlog(r) : s = OpenedFor(r, ts, TRUE)
  BY DEF Pulls
<1> QED  BY <1>1, OpenedKeeps

LEMMA PullTeamKeeps ==
  ASSUME BranchInv, PullTeam
  PROVE  BranchInv'
<1>1. /\ repo' \in Pulls(repo) /\ shift' = Theirs(repo') /\ at = "pull" /\ at' = "team"
      /\ hand' = hand /\ asked' = asked
  BY DEF PullTeam
<1>2. SoundAtRest(repo) /\ asked.kind # "bonus"
  BY <1>1 DEF BranchInv
<1>3. /\ SoundAtRest(repo') /\ Mine(repo) \subseteq Mine(repo')
      /\ \A u \in Tickets : Reviewed(repo, u) => Reviewed(repo', u)
  BY <1>1, <1>2, PullsKeep
<1>4. asked'.kind \in {"accepted", "rejected", "conflict"} => Reviewed(repo', asked'.ticket)
  BY <1>1, <1>3, AskedIs
<1>5. hand' # NoTicket => hand' \in Mine(repo')
  BY <1>1, <1>3 DEF BranchInv
<1> QED  BY <1>1, <1>2, <1>3, <1>4, <1>5 DEF BranchInv

LEMMA TeamWorksKeeps ==
  ASSUME BranchInv, NEW t \in Tickets, TeamWorks(t)
  PROVE  BranchInv'
<1>1. /\ at = "team" /\ t \in shift /\ hand' \in Settled(repo', hand) /\ shift' = shift \ {t}
      /\ asked' = asked /\ at' = at
  BY DEF TeamWorks
<1>2. \/ repo' = TeamLanded(repo, t)
      \/ \E m \in Outcomes(Commit(repo, t, FALSE, TRUE), t) : repo' = TeamLanded(m, t)
  BY DEF TeamWorks
<1>3. /\ t \in Theirs(repo) /\ t \in Open(repo) /\ t \notin Mine(repo)
      /\ SoundAtRest(repo) /\ Sound(repo) /\ HoldsForGood(repo, t)
      /\ shift \subseteq Theirs(repo) /\ asked.kind # "bonus"
  BY <1>1 DEF BranchInv, SoundAtRest, Theirs
<1>4. Advances(repo, repo', t) /\ (t \in Open(repo') => HoldsForGood(repo', t))
  BY <1>2, <1>3, TeamAdvances
<1>5. /\ SoundAtRest(repo')
      /\ \A u \in Mine(repo) : u # t => u \in Mine(repo')
      /\ \A u \in Theirs(repo) : u # t => u \in Theirs(repo')
      /\ \A u \in Tickets : u # t /\ Reviewed(repo, u) => Reviewed(repo', u)
  BY <1>3, <1>4, StepKeeps
<1>6. hand # NoTicket => hand \in Mine(repo')
  BY <1>3, <1>5 DEF BranchInv
<1>7. hand' # NoTicket => hand' \in Mine(repo')
  BY <1>1, <1>6, SettledIs
<1>8. asked'.kind \in {"accepted", "rejected", "conflict"} => Reviewed(repo', asked'.ticket)
  BY <1>1, <1>3, <1>5, AskedIs
<1>9. shift' \subseteq Theirs(repo')
  BY <1>1, <1>3, <1>5
<1> QED  BY <1>1, <1>3, <1>5, <1>7, <1>8, <1>9 DEF BranchInv

\* A developer who leaves hands over what they held.
LEMMA DepartureKeeps ==
  ASSUME BranchInv, NEW r, SoundAtRest(r), Mine(repo) \subseteq Mine(r), NEW leaves,
         Departure(r, leaves)
  PROVE  /\ SoundAtRest(repo') /\ (hand' # NoTicket => hand' \in Mine(repo'))
         /\ \A u \in Tickets : Reviewed(r, u) => Reviewed(repo', u)
         /\ DevShipped(r) => DevShipped(repo')
<1>1. \/ repo' = r /\ hand' = hand
      \/ repo' = OpenedFor(r, Theirs(r), FALSE) /\ hand' \in Settled(repo', hand)
  BY DEF Departure
<1>2. CASE repo' = r /\ hand' = hand
  BY <1>2 DEF BranchInv
<1>3. CASE repo' = OpenedFor(r, Theirs(r), FALSE) /\ hand' \in Settled(repo', hand)
  <2>1. /\ SoundAtRest(repo') /\ Mine(r) \subseteq Mine(repo')
        /\ \A u \in Tickets : Reviewed(r, u) => Reviewed(repo', u)
        /\ DevShipped(r) => DevShipped(repo')
    BY <1>3, OpenedKeeps
  <2>2. hand # NoTicket => hand \in Mine(repo')
    BY <2>1 DEF BranchInv
  <2> QED  BY <1>3, <2>1, <2>2, SettledIs
<1> QED  BY <1>1, <1>2, <1>3

LEMMA ClockKeeps ==
  ASSUME BranchInv, TurnEnds \/ SprintCloses
  PROVE  BranchInv'
<1>1. at = "team" /\ SoundAtRest(repo) /\ Sound(repo) /\ asked.kind # "bonus"
  BY DEF TurnEnds, SprintCloses, Clock, BranchInv, SoundAtRest
<1>2. CASE TurnEnds
  <2>1. PICK leaves \in {FALSE, team} : Departure(repo, leaves)
    BY <1>2 DEF TurnEnds
  <2>2. asked' = asked /\ at' \in {"pull", "publish"}
    BY <1>2 DEF TurnEnds
  <2>3. /\ SoundAtRest(repo') /\ (hand' # NoTicket => hand' \in Mine(repo'))
        /\ \A u \in Tickets : Reviewed(repo, u) => Reviewed(repo', u)
    BY <1>1, <2>1, DepartureKeeps
  <2>4. asked'.kind \in {"accepted", "rejected", "conflict"} => Reviewed(repo', asked'.ticket)
    BY <2>2, <2>3, AskedIs
  <2> QED  BY <1>1, <2>2, <2>3, <2>4 DEF BranchInv
<1>3. CASE SprintCloses
  <2> DEFINE s == Shipped(repo)
  <2>1. PICK leaves \in {FALSE, team} : Departure(s, leaves)
    BY <1>3 DEF SprintCloses
  <2>2. \/ asked' = [kind |-> "bonus", ticket |-> NoTicket] /\ at' = "publish"
        \/ asked' = [kind |-> "action", ticket |-> NoTicket] /\ at' = "sprint"
    BY <1>3 DEF SprintCloses, Ask, Ordinary
  <2>3. /\ Sound(s) /\ s.tickets = repo.tickets /\ DevShipped(s)
        /\ \A u \in Tickets : Works(repo.nodes, Ids(repo, u)) => Works(s.nodes, Ids(s, u))
    BY <1>1, ShippedIs
  <2> HIDE DEF s
  <2>4. SoundAtRest(s) /\ Mine(s) = Mine(repo)
    BY <1>1, <2>3, TrunkKeeps
  <2>5. /\ SoundAtRest(repo') /\ (hand' # NoTicket => hand' \in Mine(repo'))
        /\ DevShipped(repo')
    BY <2>1, <2>3, <2>4, DepartureKeeps
  <2> QED  BY <2>2, <2>5 DEF BranchInv
<1> QED  BY <1>2, <1>3

LEMMA NextSprintKeeps ==
  ASSUME BranchInv, NextSprint
  PROVE  BranchInv'
<1> DEFINE r == OnTrunk(repo, "sprint_start", Dev, <<TipOfLane(repo, Main)>>)
<1>1. /\ at = "sprint" /\ asked' = asked /\ at' = "publish"
      /\ hand' \in IF hand = NoTicket THEN Settled(repo', hand) ELSE {hand}
  BY DEF NextSprint
<1>2. \E pulled \in Pulls(r) : \E stale \in SUBSET Backlog(pulled) :
        repo' = OpenedFor(pulled, stale, FALSE)
  BY DEF NextSprint
<1>3. SoundAtRest(repo) /\ Sound(repo) /\ DevShipped(repo) /\ asked.kind # "bonus"
  BY <1>1 DEF BranchInv, SoundAtRest
<1>4. /\ Sound(r) /\ r.tickets = repo.tickets
      /\ \A u \in Tickets : Works(repo.nodes, Ids(repo, u)) => Works(r.nodes, Ids(r, u))
  BY <1>3, StartedIs
<1> HIDE DEF r
<1>5. /\ SoundAtRest(r) /\ Mine(r) = Mine(repo)
      /\ \A u \in Tickets : Reviewed(repo, u) => Reviewed(r, u)
  BY <1>3, <1>4, TrunkKeeps
<1>a. PICK pulled \in Pulls(r) :
        \E stale \in SUBSET Backlog(pulled) : repo' = OpenedFor(pulled, stale, FALSE)
  BY <1>2
<1>6. PICK stale \in SUBSET Backlog(pulled) : repo' = OpenedFor(pulled, stale, FALSE)
  BY <1>a
<1>7. /\ SoundAtRest(pulled) /\ Mine(r) \subseteq Mine(pulled)
      /\ \A u \in Tickets : Reviewed(r, u) => Reviewed(pulled, u)
  BY <1>5, PullsKeep
<1>8. /\ SoundAtRest(repo') /\ Mine(pulled) \subseteq Mine(repo')
      /\ \A u \in Tickets : Reviewed(pulled, u) => Reviewed(repo', u)
  BY <1>6, <1>7, OpenedKeeps
<1>9. asked'.kind \in {"accepted", "rejected", "conflict"} => Reviewed(repo', asked'.ticket)
  BY <1>1, <1>5, <1>7, <1>8, AskedIs
<1>10. hand' # NoTicket => hand' \in Mine(repo')
  <2>1. hand # NoTicket => hand \in Mine(repo')
    BY <1>5, <1>7, <1>8 DEF BranchInv
  <2>2. CASE hand = NoTicket
    BY <1>1, <2>2, SettledIs
  <2>3. CASE hand # NoTicket
    BY <1>1, <2>1, <2>3
  <2> QED  BY <2>2, <2>3
<1> QED  BY <1>1, <1>3, <1>8, <1>9, <1>10 DEF BranchInv

LEMMA PublishKeeps ==
  ASSUME BranchInv, Publish \/ Complete \/ UNCHANGED branchVars
  PROVE  BranchInv'
<1>1. CASE Publish \/ Complete
  <2>1. /\ repo' = repo /\ hand' = hand /\ asked' = asked /\ at \in {"publish", "told"}
        /\ at' \in {"told", "idle"}
    BY <1>1 DEF Publish, Complete
  <2> QED  BY <2>1 DEF BranchInv
<1>2. CASE UNCHANGED branchVars
  BY <1>2 DEF branchVars, BranchInv
<1> QED  BY <1>1, <1>2

LEMMA BranchInit ==
  ASSUME BranchesInit
  PROVE  BranchInv
<1> DEFINE one == Node("init", Main, <<>>, NoTicket, FALSE, FALSE)
           two == Node("sprint_start", Dev, <<1>>, NoTicket, FALSE, FALSE)
           all == [t \in Tickets |->
                     [status |-> IF IsObstacle(t) THEN "none" ELSE "backlog",
                      lane |-> NoLane, ids |-> <<>>, done |-> FALSE, theirs |-> FALSE]]
<1>1. repo.nodes = <<one, two>> /\ repo.tickets = all /\ repo = [nodes |-> <<one, two>>, tickets |-> all]
  BY DEF BranchesInit
<1>2. /\ hand = NoTicket /\ asked.kind = "action" /\ at = "idle"
  BY DEF BranchesInit
<1>3. /\ one \in GraphNode /\ two \in GraphNode /\ one.lane = Main /\ two.lane = Dev
      /\ ToSet(one.parents) = {} /\ ToSet(two.parents) = {1}
  <2>1. <<>> \in Seq(Nat) /\ <<1>> \in Seq(Nat)
    OBVIOUS
  <2>2. one \in GraphNode /\ one.lane = Main /\ one.parents = <<>>
    BY <2>1 DEF Node, GraphNode, Main
  <2>3. two \in GraphNode /\ two.lane = Dev /\ two.parents = <<1>>
    BY <2>1 DEF Node, GraphNode, Dev
  <2>4. ToSet(<<>>) = {} /\ ToSet(<<1>>) = {1}
    BY DEF ToSet
  <2> QED  BY <2>2, <2>3, <2>4
<1>4. ASSUME NEW t \in Tickets
      PROVE  /\ all[t] \in GraphTicket /\ all[t].lane = NoLane /\ all[t].ids = <<>>
             /\ ~all[t].done /\ ~all[t].theirs
             /\ all[t].status = IF IsObstacle(t) THEN "none" ELSE "backlog"
  BY DEF GraphTicket, NoLane
<1>5. all \in [Tickets -> GraphTicket]
  <2>1. all = [t \in Tickets |-> all[t]]
    OBVIOUS
  <2> HIDE DEF all
  <2> QED  BY <1>4, <2>1
<1> HIDE DEF one, two, all
<1>6. repo \in Graph /\ Len(repo.nodes) = 2 /\ repo.nodes[1] = one /\ repo.nodes[2] = two
  <2>1. <<one, two>> \in Seq(GraphNode) /\ Len(<<one, two>>) = 2
        /\ <<one, two>>[1] = one /\ <<one, two>>[2] = two
    BY <1>3
  <2> QED  BY <1>1, <1>5, <2>1 DEF Graph
<1>7. Rooted(repo.nodes)
  <2> SUFFICES ASSUME NEW n \in 1..2, NEW p \in ToSet(repo.nodes[n].parents) PROVE p \in 1..(n - 1)
    BY <1>3, <1>6 DEF Rooted
  <2> QED  BY <1>3, <1>6
<1>8. ASSUME NEW t \in Tickets
      PROVE  /\ repo.tickets[t].status = (IF IsObstacle(t) THEN "none" ELSE "backlog")
             /\ repo.tickets[t].lane = NoLane /\ Ids(repo, t) = <<>>
             /\ ~repo.tickets[t].done /\ ~repo.tickets[t].theirs /\ repo.tickets[t].ids = <<>>
  BY <1>1, <1>4 DEF Ids
<1>9. Open(repo) = {}
  BY <1>8 DEF Open
<1>10. \A t \in Tickets : Chain(repo.nodes, t, Ids(repo, t))
  BY <1>8 DEF Chain
<1>11. \A t \in Tickets : StatusIs(repo, t)
  BY <1>8 DEF StatusIs
<1>12. Landed(repo)
  BY <1>8 DEF Landed
<1>13. SoundAtRest(repo)
  BY <1>6, <1>7, <1>9, <1>10, <1>11, <1>12 DEF SoundAtRest, Sound
<1> QED  BY <1>2, <1>13 DEF BranchInv

LEMMA BranchHolds == Branches => []BranchInv
<1>1. BranchesInit => BranchInv
  BY BranchInit
<1>2. BranchInv /\ [BranchesNext]_branchVars => BranchInv'
  <2> SUFFICES ASSUME BranchInv, [BranchesNext]_branchVars PROVE BranchInv'
    OBVIOUS
  <2>1. CASE Plays
    BY <2>1, PlaysKeep
  <2>2. CASE PullTeam
    BY <2>2, PullTeamKeeps
  <2>3. CASE \E t \in Tickets : TeamWorks(t)
    BY <2>3, TeamWorksKeeps
  <2>4. CASE TurnEnds \/ SprintCloses
    BY <2>4, ClockKeeps
  <2>5. CASE NextSprint
    BY <2>5, NextSprintKeeps
  <2>6. CASE Publish \/ Complete \/ UNCHANGED branchVars
    BY <2>6, PublishKeeps
  <2> QED  BY <2>1, <2>2, <2>3, <2>4, <2>5, <2>6 DEF BranchesNext
<1> QED  BY <1>1, <1>2, PTL DEF Branches

LEMMA SoundGraph ==
  ASSUME BranchInv
  PROVE  GraphIsSound
<1>1. /\ Sound(repo) /\ \A t \in Open(repo) : HoldsForGood(repo, t)
      /\ \A t : Kept(t) = Ids(repo, t)
  BY DEF BranchInv, SoundAtRest, Kept, Ids
<1>2. ASSUME NEW t \in Tickets
      PROVE  /\ Ids(repo, t) \in Seq(Nat) /\ DOMAIN Kept(t) = 1..Len(Ids(repo, t))
             /\ Chain(repo.nodes, t, Ids(repo, t)) /\ StatusIs(repo, t) /\ Parent(t) \in Tickets
  <2>1. Ids(repo, t) \in Seq(Nat)
    BY <1>1, GraphIs DEF Sound
  <2> QED  BY <1>1, <2>1, ParentIs DEF Sound
<1>3. ASSUME NEW t \in Open(repo)
      PROVE  /\ (repo.tickets[t].lane = NoLane) = (Kept(t) = <<>>)
             /\ \A n \in ToSet(Kept(t)) : repo.nodes[n].lane = repo.tickets[t].lane
             /\ \A u \in Open(repo) \ {t} :
                  repo.tickets[u].lane = repo.tickets[t].lane => repo.tickets[t].lane = NoLane
             /\ Parent(t) \in Open(repo)
  <2>1. t \in Tickets /\ repo.tickets[t].status = "open" /\ LanedIn(repo, t) /\ HoldsForGood(repo, t)
    BY <1>1 DEF Open, Sound
  <2>2. (repo.tickets[t].lane = NoLane) = (Kept(t) = <<>>)
    BY <1>1, <2>1 DEF LanedIn, HoldsForGood
  <2>3. \A n \in ToSet(Kept(t)) : repo.nodes[n].lane = repo.tickets[t].lane
    BY <1>1, <1>2, <2>1 DEF LanedIn, ToSet
  <2>4. \A u \in Open(repo) \ {t} :
          repo.tickets[u].lane = repo.tickets[t].lane => repo.tickets[t].lane = NoLane
    BY <2>1 DEF LanedIn
  <2>5. Parent(t) \in Open(repo)
    BY <1>2, <2>1 DEF StatusIs, Open
  <2> QED  BY <2>2, <2>3, <2>4, <2>5
<1>4. ASSUME NEW t \in Tickets, NEW i \in DOMAIN Kept(t)
      PROVE  LET first == Head(repo.nodes[Kept(t)[i]].parents)
             IN IF i > 1 THEN first = Kept(t)[i - 1]
                ELSE IF IsObstacle(t) THEN repo.nodes[first].ticket = Parent(t)
                ELSE repo.nodes[first].lane = Dev
  <2>1. /\ i \in 1..Len(Ids(repo, t)) /\ Len(Ids(repo, t)) \in Nat /\ Kept(t) = Ids(repo, t)
        /\ Chain(repo.nodes, t, Ids(repo, t))
    BY <1>1, <1>2, <1>4
  <2>2. CASE i > 1
    <3>1. i \in 2..Len(Ids(repo, t))
      BY <2>1, <2>2
    <3> QED  BY <2>1, <2>2, <3>1 DEF Chain
  <2>3. CASE ~(i > 1)
    <3>1. i = 1 /\ Len(Ids(repo, t)) > 0
      BY <2>1, <2>3
    <3> QED  BY <2>1, <2>3, <3>1 DEF Chain
  <2> QED  BY <2>2, <2>3
<1>5. ASSUME NEW t \in Tickets, repo.tickets[t].status = "merged",
             repo.tickets[Parent(t)].status = "merged", NEW n \in ToSet(Kept(t))
      PROVE  ~repo.nodes[n].broken /\ n \in Ancestors(repo)[TipOfLane(repo, Dev)]
  <2>1. PICK i \in 1..Len(Ids(repo, t)) : n = Ids(repo, t)[i]
    BY <1>1, <1>2, <1>5 DEF ToSet
  <2> QED  BY <1>1, <1>5, <2>1, MergedIsWhole
<1> QED  BY <1>3, <1>4, <1>5 DEF GraphIsSound

\* The graph is sound, whatever is written, broken, taken over, merged or released
\* (write.ts, graph.ts, checkInvariants()): no two open tickets in a column, a ticket
\* a chain from where it forked, and dev built on every commit of what is merged.
THEOREM GraphHolds == Branches => []GraphIsSound
<1>1. BranchInv => GraphIsSound
  BY SoundGraph
<1> QED  BY <1>1, BranchHolds, PTL

-----------------------------------------------------------------------------
(*                                THE LEDGER                               *)

-----------------------------------------------------------------------------
(* The pushes of a batch *)

\* What the ledger holds while the events of a batch are folded into it.
Op == [ids : SUBSET Nat, into : Nat, at : Nat, kind : {"flush", "commit"}]
Account == [local : [Tickets -> Seq(Nat)], absorbed : SUBSET (Nat \X Nat), ops : SUBSET Op]
Pushing(group, i, what) == [ids |-> ToSet(group), into |-> Last(group), at |-> i, kind |-> what]

\* The commits of `group` fold into `into`.
Folding(group, into) == {<<n, into>> : n \in ToSet(group) \ {into}}

LEMMA LastIs ==
  ASSUME NEW q \in Seq(Nat), q # <<>>
  PROVE  Len(q) \in 1..Len(q) /\ Last(q) = q[Len(q)] /\ Last(q) \in Nat /\ Last(q) \in ToSet(q)
<1>1. Len(q) \in 1..Len(q) /\ Last(q) = q[Len(q)]
  BY DEF Last
<1> QED  BY <1>1 DEF ToSet

LEMMA MembersAre ==
  ASSUME NEW q \in Seq(Nat)
  PROVE  /\ ToSet(q) \subseteq Nat
         /\ \A n : n \in ToSet(q) <=> \E i \in 1..Len(q) : q[i] = n
BY DEF ToSet

LEMMA OneMoreMember ==
  ASSUME NEW q \in Seq(Nat), NEW n \in Nat
  PROVE  /\ Append(q, n) \in Seq(Nat) /\ Append(q, n) # <<>> /\ Last(Append(q, n)) = n
         /\ ToSet(Append(q, n)) = ToSet(q) \cup {n}
<1> DEFINE p == Append(q, n)
<1>1. /\ p \in Seq(Nat) /\ p # <<>> /\ Len(p) = Len(q) + 1 /\ p[Len(q) + 1] = n
      /\ Len(q) \in Nat /\ \A i \in 1..Len(q) : p[i] = q[i]
  OBVIOUS
<1> HIDE DEF p
<1>2. Last(p) = n
  BY <1>1, LastIs
<1>3. \A m : m \in ToSet(p) <=> m \in ToSet(q) \cup {n}
  <2>1. ASSUME NEW i \in 1..Len(p) PROVE i \in 1..Len(q) \/ i = Len(q) + 1
    BY <1>1
  <2>2. \A i \in 1..Len(q) : i \in 1..Len(p)
    BY <1>1
  <2>3. Len(q) + 1 \in 1..Len(p)
    BY <1>1
  <2>4. ASSUME NEW m \in ToSet(p) PROVE m \in ToSet(q) \cup {n}
    <3>1. PICK i \in 1..Len(p) : p[i] = m
      BY <1>1, <2>4, MembersAre
    <3> QED  BY <1>1, <2>1, <3>1, MembersAre
  <2>5. ASSUME NEW m \in ToSet(q) PROVE m \in ToSet(p)
    <3>1. PICK i \in 1..Len(q) : q[i] = m
      BY <2>5, MembersAre
    <3> QED  BY <1>1, <2>2, <3>1, MembersAre
  <2>6. n \in ToSet(p)
    BY <1>1, <2>3, MembersAre
  <2> QED  BY <2>4, <2>5, <2>6
<1> QED  BY <1>1, <1>2, <1>3 DEF p

LEMMA TogetherIs ==
  ASSUME NEW acc \in Account, NEW group \in Seq(Nat), group # <<>>, NEW i \in Nat,
         NEW what \in {"flush", "commit"}
  PROVE  LET new == Together(acc, group, i, what)
         IN /\ new \in Account /\ new.local = acc.local
            /\ new.absorbed = acc.absorbed \cup Folding(group, Last(group))
            /\ new.ops = acc.ops \cup {Pushing(group, i, what)}
<1>1. Last(group) \in Nat /\ ToSet(group) \subseteq Nat
  BY LastIs, MembersAre
<1> DEFINE op == Pushing(group, i, what)
<1>2. acc.ops \cup {op} \in SUBSET Op
  <2>1. op \in Op
    BY <1>1 DEF Op, Pushing
  <2>2. acc.ops \in SUBSET Op
    BY DEF Account
  <2> HIDE DEF op
  <2> QED  BY <2>1, <2>2
<1>3. Folding(group, Last(group)) \subseteq Nat \X Nat
  BY <1>1 DEF Folding
<1>4. Together(acc, group, i, what)
        = [acc EXCEPT !.absorbed = @ \cup Folding(group, Last(group)), !.ops = @ \cup {op}]
  BY DEF Together, Folding, Pushing
<1> DEFINE A == acc.absorbed \cup Folding(group, Last(group))
           O == acc.ops \cup {op}
<1>5. /\ acc = [local |-> acc.local, absorbed |-> acc.absorbed, ops |-> acc.ops]
      /\ acc.local \in [Tickets -> Seq(Nat)] /\ acc.absorbed \subseteq Nat \X Nat
  BY DEF Account
<1>6. A \subseteq Nat \X Nat /\ O \in SUBSET Op
  BY <1>2, <1>3, <1>5
<1>7. Together(acc, group, i, what) = [acc EXCEPT !.absorbed = A, !.ops = O]
  BY <1>4
<1> HIDE DEF op, A, O
<1>8. Together(acc, group, i, what) = [local |-> acc.local, absorbed |-> A, ops |-> O]
  BY <1>5, <1>7
<1>9. [local |-> acc.local, absorbed |-> A, ops |-> O] \in Account
  BY <1>5, <1>6 DEF Account
<1> QED  BY <1>8, <1>9 DEF A, O, op

Sending(acc, r, t, i) == Pushing(Append(acc.local[t], Last(Ids(r, t))), i, "flush")

LEMMA FlushIs ==
  ASSUME NEW acc \in Account, NEW r \in Graph, NEW t \in Tickets, NEW i \in Nat
  PROVE  LET new == Flush(acc, r, t, i)
         IN /\ new \in Account
            /\ \A u \in Tickets : new.local[u] = IF u = t /\ Ids(r, t) # <<>> THEN <<>>
                                                 ELSE acc.local[u]
            /\ new.absorbed = IF Ids(r, t) = <<>> THEN acc.absorbed
                              ELSE acc.absorbed \cup Folding(acc.local[t], Last(Ids(r, t)))
            /\ new.ops = IF Ids(r, t) = <<>> \/ acc.local[t] = <<>> THEN acc.ops
                         ELSE acc.ops \cup {Sending(acc, r, t, i)}
<1> DEFINE group == acc.local[t]
           ids == Ids(r, t)
           new == Flush(acc, r, t, i)
           base == [acc EXCEPT !.local[t] = <<>>]
<1>1. group \in Seq(Nat) /\ ids \in Seq(Nat) /\ acc.local \in [Tickets -> Seq(Nat)]
      /\ acc.absorbed \subseteq Nat \X Nat
  BY GraphIs DEF Account
<1>2. CASE ids = <<>>
  <2>1. new = acc
    BY <1>2 DEF Flush, Ids
  <2> QED  BY <1>2, <2>1
<1>3. CASE ids # <<>> /\ group = <<>>
  <2>1. new = acc
    BY <1>3 DEF Flush, Ids
  <2>2. Folding(group, Last(ids)) = {}
    BY <1>3 DEF Folding, ToSet
  <2> QED  BY <1>3, <2>1, <2>2
<1>4. CASE ids # <<>> /\ group # <<>>
  <2>1. base \in Account /\ base.absorbed = acc.absorbed
        /\ base.local = [acc.local EXCEPT ![t] = <<>>] /\ base.ops = acc.ops
    <3>1. /\ acc = [local |-> acc.local, absorbed |-> acc.absorbed, ops |-> acc.ops]
          /\ acc.ops \in SUBSET Op
      BY DEF Account
    <3>2. base = [local |-> [acc.local EXCEPT ![t] = <<>>], absorbed |-> acc.absorbed, ops |-> acc.ops]
      BY <3>1
    <3>3. [acc.local EXCEPT ![t] = <<>>] \in [Tickets -> Seq(Nat)]
      BY <1>1
    <3> QED  BY <1>1, <3>1, <3>2, <3>3 DEF Account
  <2>2. Last(ids) \in Nat
    BY <1>1, <1>4, LastIs
  <2>3. new = Together(base, Append(group, Last(ids)), i, "flush")
    BY <1>4 DEF Flush, Ids
  <2> DEFINE more == Append(group, Last(ids))
  <2>4. more \in Seq(Nat) /\ more # <<>> /\ Last(more) = Last(ids)
        /\ ToSet(more) = ToSet(group) \cup {Last(ids)}
    <3> HIDE DEF group, ids
    <3> QED  BY <1>1, <2>2, OneMoreMember
  <2> HIDE DEF more, base, new
  <2>5. /\ new \in Account /\ new.local = base.local
        /\ new.absorbed = base.absorbed \cup Folding(more, Last(more))
        /\ new.ops = base.ops \cup {Pushing(more, i, "flush")}
    BY <2>1, <2>3, <2>4, TogetherIs DEF more
  <2>6. Folding(more, Last(more)) = Folding(group, Last(ids))
    BY <2>4 DEF Folding
  <2>7. Sending(acc, r, t, i) = Pushing(more, i, "flush")
    BY DEF Sending, more
  <2> QED  BY <1>1, <1>4, <2>1, <2>5, <2>6, <2>7 DEF new
<1> QED  BY <1>2, <1>3, <1>4

FoldedBy(acc, r, T) ==
  {f \in Nat \X Nat : \E t \in T : Ids(r, t) # <<>> /\ f \in Folding(acc.local[t], Last(Ids(r, t)))}

\* What the branches of T have to send up, sent.
SentBy(acc, r, T, i) ==
  {Sending(acc, r, t, i) : t \in {u \in T : Ids(r, u) # <<>> /\ acc.local[u] # <<>>}}

LEMMA FoldingIs ==
  ASSUME NEW q \in Seq(Nat), NEW into \in Nat
  PROVE  Folding(q, into) \subseteq Nat \X Nat
BY MembersAre DEF Folding

LEMMA FlushingIs ==
  ASSUME NEW acc, NEW r, NEW ts \in Seq(Tickets), NEW i
  PROVE  \E h : /\ h[0] = acc
                /\ \A j \in 1..Len(ts) : h[j] = Flush(h[j - 1], r, ts[j], i)
                /\ FlushAll(acc, r, ts, i) = h[Len(ts)]
<1> DEFINE L == Len(ts)
           Is(f, k) == f = [j \in 0..k |-> IF j = 0 THEN acc ELSE Flush(f[j - 1], r, ts[j], i)]
           T == {k \in 0..L : \E f : Is(f, k)}
           h == CHOOSE f : Is(f, L)
<1>1. L \in Nat /\ \A j \in 1..L : ts[j] \in Tickets
  OBVIOUS
<1>2. 0 \in T
  <2>1. Is([j \in 0..0 |-> acc], 0)
    OBVIOUS
  <2>2. 0 \in 0..L
    BY <1>1
  <2> HIDE DEF Is
  <2> QED  BY <2>1, <2>2
<1>3. ASSUME NEW k \in 0..(L - 1), k \in T PROVE k + 1 \in T
  <2>1. PICK g : Is(g, k)
    BY <1>3
  <2> DEFINE last == Flush(g[k], r, ts[k + 1], i)
             f == [j \in 0..(k + 1) |-> IF j = k + 1 THEN last ELSE g[j]]
  <2>2. k \in Nat /\ k + 1 \in 0..L
    BY <1>1
  <2>3. ASSUME NEW j \in 0..(k + 1)
        PROVE  f[j] = IF j = 0 THEN acc ELSE Flush(f[j - 1], r, ts[j], i)
    <3> HIDE DEF last
    <3>1. CASE j = k + 1
      <4>1. f[j] = last /\ j # 0 /\ j - 1 = k /\ f[k] = g[k]
        BY <2>2, <3>1
      <4> QED  BY <3>1, <4>1 DEF last
    <3>2. CASE j # k + 1
      <4>1. j \in 0..k /\ f[j] = g[j]
        BY <2>2, <3>2
      <4>2. g[j] = IF j = 0 THEN acc ELSE Flush(g[j - 1], r, ts[j], i)
        BY <2>1, <4>1
      <4>3. j # 0 => f[j - 1] = g[j - 1]
        BY <2>2, <4>1
      <4> QED  BY <4>1, <4>2, <4>3
    <3> QED  BY <3>1, <3>2
  <2>4. f = [j \in 0..(k + 1) |-> f[j]]
    OBVIOUS
  <2> HIDE DEF f
  <2>5. Is(f, k + 1)
    BY <2>3, <2>4
  <2> HIDE DEF Is
  <2> QED  BY <2>2, <2>5
<1>4. Is(h, L)
  <2>1. L \in T
    <3> HIDE DEF T
    <3> QED  BY <1>1, <1>2, <1>3, FromNought
  <2> HIDE DEF Is
  <2> QED  BY <2>1
<1>5. FlushAll(acc, r, ts, i) = h[L]
  BY DEF FlushAll
<1>6. /\ h[0] = acc
      /\ \A j \in 1..L : h[j] = Flush(h[j - 1], r, ts[j], i)
  <2> HIDE DEF h
  <2>1. \A j \in 0..L : h[j] = IF j = 0 THEN acc ELSE Flush(h[j - 1], r, ts[j], i)
    BY <1>4
  <2> QED  BY <1>1, <2>1
<1> HIDE DEF h
<1> QED  BY <1>5, <1>6

LEMMA FlushAllIs ==
  ASSUME NEW acc \in Account, NEW r \in Graph, NEW ts \in Seq(Tickets), NEW i \in Nat
  PROVE  LET new == FlushAll(acc, r, ts, i)
         IN /\ new \in Account
            /\ \A u \in Tickets : new.local[u] = IF u \in ToSet(ts) /\ Ids(r, u) # <<>> THEN <<>>
                                                 ELSE acc.local[u]
            /\ new.absorbed = acc.absorbed \cup FoldedBy(acc, r, ToSet(ts))
            /\ new.ops = acc.ops \cup SentBy(acc, r, ToSet(ts), i)
<1> DEFINE L == Len(ts)
           Part(k) == {ts[j] : j \in 1..k}
           After(a, k) ==
             /\ a \in Account
             /\ \A u \in Tickets : a.local[u] = IF u \in Part(k) /\ Ids(r, u) # <<>> THEN <<>>
                                                ELSE acc.local[u]
             /\ a.absorbed = acc.absorbed \cup FoldedBy(acc, r, Part(k))
             /\ a.ops = acc.ops \cup SentBy(acc, r, Part(k), i)
           S(h) == {k \in 0..L : After(h[k], k)}
<1>1. L \in Nat /\ \A j \in 1..L : ts[j] \in Tickets
  OBVIOUS
<1>2. PICK h : /\ h[0] = acc
               /\ \A j \in 1..L : h[j] = Flush(h[j - 1], r, ts[j], i)
               /\ FlushAll(acc, r, ts, i) = h[L]
  BY FlushingIs
<1>7. 0 \in S(h)
  <2>1. Part(0) = {} /\ FoldedBy(acc, r, {}) = {} /\ 0 \in 0..L
    BY <1>1 DEF FoldedBy
  <2>2. SentBy(acc, r, {}, i) = {}
    BY DEF SentBy
  <2> QED  BY <1>2, <2>1, <2>2
<1>8. ASSUME NEW k \in 0..(L - 1), k \in S(h) PROVE k + 1 \in S(h)
  <2> DEFINE a == h[k]
             b == h[k + 1]
             t == ts[k + 1]
  <2>1. /\ k \in Nat /\ k + 1 \in 1..L /\ k + 1 \in 0..L /\ t \in Tickets
        /\ b = Flush(a, r, t, i)
    BY <1>1, <1>2
  <2>2. After(a, k)
    BY <1>8
  <2>3. Part(k + 1) = Part(k) \cup {t}
    <3>1. 1..(k + 1) = 1..k \cup {k + 1}
      BY <2>1
    <3> QED  BY <3>1
  <2> HIDE DEF a, b, t, Part
  <2>4. /\ b \in Account
        /\ \A u \in Tickets : b.local[u] = IF u = t /\ Ids(r, t) # <<>> THEN <<>> ELSE a.local[u]
        /\ b.absorbed = IF Ids(r, t) = <<>> THEN a.absorbed
                        ELSE a.absorbed \cup Folding(a.local[t], Last(Ids(r, t)))
        /\ b.ops = IF Ids(r, t) = <<>> \/ a.local[t] = <<>> THEN a.ops
                   ELSE a.ops \cup {Sending(a, r, t, i)}
    <3>1. a \in Account
      BY <2>2
    <3> HIDE DEF After
    <3>2. /\ Flush(a, r, t, i) \in Account
          /\ \A u \in Tickets : Flush(a, r, t, i).local[u]
                                 = IF u = t /\ Ids(r, t) # <<>> THEN <<>> ELSE a.local[u]
          /\ Flush(a, r, t, i).absorbed
               = IF Ids(r, t) = <<>> THEN a.absorbed
                 ELSE a.absorbed \cup Folding(a.local[t], Last(Ids(r, t)))
          /\ Flush(a, r, t, i).ops
               = IF Ids(r, t) = <<>> \/ a.local[t] = <<>> THEN a.ops
                 ELSE a.ops \cup {Sending(a, r, t, i)}
      <4>1. t \in Tickets
        BY <2>1
      <4> QED  BY <3>1, <4>1, FlushIs, Zenon
    <3> QED  BY <2>1, <3>2
  <2>5. b.absorbed = acc.absorbed \cup FoldedBy(acc, r, Part(k + 1))
    <3>1. CASE Ids(r, t) = <<>>
      BY <2>2, <2>3, <2>4, <3>1 DEF FoldedBy
    <3>2. CASE Ids(r, t) # <<>> /\ t \in Part(k)
      <4>1. a.local[t] = <<>>
        BY <2>1, <2>2, <3>2
      <4>2. Folding(a.local[t], Last(Ids(r, t))) = {}
        BY <4>1 DEF Folding, ToSet
      <4>3. Part(k + 1) = Part(k)
        BY <2>3, <3>2
      <4> QED  BY <2>2, <2>4, <3>2, <4>2, <4>3
    <3>3. CASE Ids(r, t) # <<>> /\ t \notin Part(k)
      <4>1. a.local[t] = acc.local[t]
        BY <2>1, <2>2, <3>3
      <4>2. Folding(acc.local[t], Last(Ids(r, t))) \subseteq Nat \X Nat
        BY <2>1, <3>3, LastIs, GraphIs, FoldingIs DEF Account
      <4>3. FoldedBy(acc, r, Part(k) \cup {t})
              = FoldedBy(acc, r, Part(k)) \cup Folding(acc.local[t], Last(Ids(r, t)))
        BY <3>3, <4>2 DEF FoldedBy
      <4> QED  BY <2>2, <2>3, <2>4, <3>3, <4>1, <4>3
    <3> QED  BY <3>1, <3>2, <3>3
  <2>6. b.ops = acc.ops \cup SentBy(acc, r, Part(k + 1), i)
    <3>1. CASE Ids(r, t) = <<>> \/ a.local[t] = <<>>
      <4>1. SentBy(acc, r, Part(k + 1), i) = SentBy(acc, r, Part(k), i)
        <5>1. Ids(r, t) = <<>> \/ acc.local[t] = <<>> \/ t \in Part(k)
          BY <2>1, <2>2, <3>1
        <5> QED  BY <2>3, <5>1 DEF SentBy
      <4> QED  BY <2>2, <2>4, <3>1, <4>1
    <3>2. CASE Ids(r, t) # <<>> /\ a.local[t] # <<>>
      <4>1. a.local[t] = acc.local[t]
        BY <2>1, <2>2, <3>2
      <4>2. Sending(a, r, t, i) = Sending(acc, r, t, i)
        BY <4>1 DEF Sending
      <4>3. SentBy(acc, r, Part(k) \cup {t}, i)
              = SentBy(acc, r, Part(k), i) \cup {Sending(acc, r, t, i)}
        BY <3>2, <4>1 DEF SentBy
      <4> QED  BY <2>2, <2>3, <2>4, <3>2, <4>2, <4>3
    <3> QED  BY <3>1, <3>2
  <2>7. After(b, k + 1)
    BY <2>2, <2>3, <2>4, <2>5, <2>6
  <2> QED  BY <2>1, <2>7 DEF b
<1>9. L \in S(h)
  <2> HIDE DEF S
  <2> QED  BY <1>1, <1>7, <1>8, FromNought
<1>10. Part(L) = ToSet(ts)
  BY DEF ToSet
<1> HIDE DEF Part
<1> QED  BY <1>2, <1>9, <1>10

LEMMA FlushAllSame ==
  ASSUME NEW acc \in Account, NEW r \in Graph, NEW s \in Graph, NEW ts \in Seq(Tickets), NEW i \in Nat,
         \A u \in ToSet(ts) : acc.local[u] # <<>> => Ids(s, u) = Ids(r, u)
  PROVE  FlushAll(acc, s, ts, i) = FlushAll(acc, r, ts, i)
<1> DEFINE L == Len(ts)
<1>1. /\ L \in Nat /\ \A j \in 1..L : ts[j] \in Tickets /\ ts[j] \in ToSet(ts)
  BY DEF ToSet
<1>2. PICK f : /\ f[0] = acc
               /\ \A j \in 1..L : f[j] = Flush(f[j - 1], r, ts[j], i)
               /\ FlushAll(acc, r, ts, i) = f[L]
  BY FlushingIs
<1>3. PICK g : /\ g[0] = acc
               /\ \A j \in 1..L : g[j] = Flush(g[j - 1], s, ts[j], i)
               /\ FlushAll(acc, s, ts, i) = g[L]
  BY FlushingIs
<1> DEFINE S == {k \in 0..L : /\ g[k] = f[k] /\ f[k] \in Account
                              /\ \A u \in Tickets : f[k].local[u] # <<>> => acc.local[u] # <<>>}
<1>4. 0 \in S
  BY <1>1, <1>2, <1>3
<1>5. ASSUME NEW k \in 0..(L - 1), k \in S PROVE k + 1 \in S
  <2> DEFINE t == ts[k + 1]
             a == f[k]
             b == f[k + 1]
  <2>1. /\ k + 1 \in 1..L /\ k + 1 \in 0..L /\ (k + 1) - 1 = k /\ t \in Tickets /\ t \in ToSet(ts)
    BY <1>1
  <2>2. b = Flush(a, r, t, i) /\ g[k + 1] = Flush(a, s, t, i)
    BY <1>2, <1>3, <1>5, <2>1
  <2>3. a \in Account /\ \A u \in Tickets : a.local[u] # <<>> => acc.local[u] # <<>>
    BY <1>5
  <2> HIDE DEF a, b, t
  <2>4. a.local[t] # <<>> => Ids(s, t) = Ids(r, t)
    BY <2>1, <2>3
  <2>5. Flush(a, s, t, i) = Flush(a, r, t, i)
    BY <2>4 DEF Flush, Ids
  <2>6. /\ Flush(a, r, t, i) \in Account
        /\ \A u \in Tickets : Flush(a, r, t, i).local[u]
                               = IF u = t /\ Ids(r, t) # <<>> THEN <<>> ELSE a.local[u]
    BY <2>1, <2>3, FlushIs
  <2>7. \A u \in Tickets : b.local[u] # <<>> => acc.local[u] # <<>>
    BY <2>2, <2>3, <2>6
  <2> QED  BY <2>1, <2>2, <2>5, <2>6, <2>7 DEF b
<1>6. L \in S
  <2> HIDE DEF S
  <2> QED  BY <1>1, <1>4, <1>5, FromNought
<1> QED  BY <1>2, <1>3, <1>6

-----------------------------------------------------------------------------
(* An event is folded *)

\* An event of a batch, when the batch has led to r.
Heard(r, e) ==
  /\ e.type \in {"checkout", "node_done", "energy", "pr_reviewed", "ticket_merged",
                 "obstacle_cleared"}
  /\ e.type = "node_done" =>
       /\ e.node \in 1..Len(r.nodes)
       /\ BornLocal(r, e.node) => r.nodes[e.node].ticket \in Tickets
  /\ e.type \in {"pr_reviewed", "ticket_merged"} => e.ticket \in Tickets /\ ~IsObstacle(e.ticket)
  /\ e.type = "obstacle_cleared" => e.ticket \in Tickets

LEMMA ChildrenAre ==
  ASSUME NEW t \in Tickets, ~IsObstacle(t)
  PROVE  /\ Children(t) \in Seq(Tickets)
         /\ \A u \in ToSet(Children(t)) : u \in Tickets /\ IsObstacle(u) /\ Parent(u) = t
<1>1. PICK f \in Features, n \in 0..MaxObstacles : t = <<f, n>>
  BY DEF Tickets
<1>2. n = 0 /\ MaxObstacles \in Nat
  BY <1>1, BranchesAssumption DEF IsObstacle
<1>3. ASSUME NEW k \in 1..MaxObstacles
      PROVE  <<f, k>> \in Tickets /\ IsObstacle(<<f, k>>) /\ Parent(<<f, k>>) = t
  BY <1>1, <1>2, <1>3 DEF Tickets, IsObstacle, Parent
<1>4. Children(t) = [k \in 1..MaxObstacles |-> <<f, k>>]
  BY <1>1 DEF Children
<1>5. Children(t) \in Seq(Tickets)
  BY <1>2, <1>3, <1>4
<1>6. ToSet(Children(t)) = {<<f, k>> : k \in 1..MaxObstacles}
  BY <1>4 DEF ToSet
<1> QED  BY <1>3, <1>5, <1>6

LEMMA FlushedIs ==
  ASSUME NEW r, NEW e, Heard(r, e)
  PROVE  /\ Flushed(e) \in Seq(Tickets)
         /\ e.type \in {"checkout", "node_done", "energy"} => ToSet(Flushed(e)) = {}
         /\ e.type \in {"pr_reviewed", "ticket_merged"} =>
              /\ e.ticket \in ToSet(Flushed(e))
              /\ \A u \in ToSet(Flushed(e)) : u = e.ticket \/ (IsObstacle(u) /\ Parent(u) = e.ticket)
         /\ e.type = "obstacle_cleared" => ToSet(Flushed(e)) = {e.ticket, Parent(e.ticket)}
<1>1. CASE e.type \in {"checkout", "node_done", "energy"}
  <2>1. Flushed(e) = <<>>
    BY <1>1 DEF Flushed
  <2> QED  BY <1>1, <2>1 DEF ToSet
<1>2. CASE e.type \in {"pr_reviewed", "ticket_merged"}
  <2> DEFINE t == e.ticket
             q == Children(t)
             ts == <<t>> \o q
  <2>1. t \in Tickets /\ ~IsObstacle(t)
    BY <1>2 DEF Heard
  <2>2. q \in Seq(Tickets) /\ \A u \in ToSet(q) : IsObstacle(u) /\ Parent(u) = t
    BY <2>1, ChildrenAre
  <2>3. Flushed(e) = ts
    BY <1>2 DEF Flushed
  <2> HIDE DEF t, q
  <2>4. /\ ts \in Seq(Tickets) /\ Len(ts) = Len(q) + 1 /\ Len(q) \in Nat
        /\ ts[1] = t /\ \A i \in 1..Len(q) : ts[i + 1] = q[i]
    BY <2>1, <2>2
  <2> HIDE DEF ts
  <2>5. ToSet(ts) = {ts[i] : i \in 1..Len(ts)} /\ ToSet(q) = {q[i] : i \in 1..Len(q)}
    <3>1. ToSet(ts) = {ts[i] : i \in 1..Len(ts)}
      BY <2>4 DEF ToSet
    <3>2. ToSet(q) = {q[i] : i \in 1..Len(q)}
      BY <2>2 DEF ToSet
    <3> QED  BY <3>1, <3>2
  <2>6. t \in ToSet(ts)
    BY <2>4, <2>5
  <2>7. ASSUME NEW u \in ToSet(ts) PROVE u = t \/ u \in ToSet(q)
    <3>1. PICK i \in 1..Len(ts) : u = ts[i]
      BY <2>5, <2>7
    <3>2. CASE i = 1
      BY <2>4, <3>1, <3>2
    <3>3. CASE i # 1
      <4>1. i - 1 \in 1..Len(q) /\ (i - 1) + 1 = i
        BY <2>4, <3>3
      <4>2. u = q[i - 1]
        BY <2>4, <3>1, <4>1
      <4> QED  BY <2>5, <4>1, <4>2
    <3> QED  BY <3>2, <3>3
  <2> QED  BY <1>2, <2>2, <2>3, <2>4, <2>6, <2>7 DEF t
<1>3. CASE e.type = "obstacle_cleared"
  <2>1. e.ticket \in Tickets /\ Parent(e.ticket) \in Tickets
    BY <1>3, ParentIs DEF Heard
  <2>2. Flushed(e) = <<e.ticket, Parent(e.ticket)>>
    BY <1>3 DEF Flushed
  <2>3. ToSet(Flushed(e)) = {e.ticket, Parent(e.ticket)}
    BY <2>2 DEF ToSet
  <2> QED  BY <1>3, <2>1, <2>2, <2>3
<1> QED  BY <1>1, <1>2, <1>3 DEF Heard

Tells(r, e) == e.type = "node_done" /\ BornLocal(r, e.node)

\* What the account `acc` becomes.
Follows(acc, r, e, new) ==
  LET t == r.nodes[e.node].ticket
      group == Append(acc.local[t], e.node)
  IN /\ new \in Account
     /\ ~Tells(r, e) =>
          /\ \A u \in Tickets :
               new.local[u] = IF u \in ToSet(Flushed(e)) /\ Ids(r, u) # <<>> THEN <<>>
                              ELSE acc.local[u]
          /\ new.absorbed = acc.absorbed \cup FoldedBy(acc, r, ToSet(Flushed(e)))
     /\ Tells(r, e) /\ r.nodes[e.node].broken =>
          /\ new.local = [acc.local EXCEPT ![t] = group] /\ new.absorbed = acc.absorbed
     /\ Tells(r, e) /\ ~r.nodes[e.node].broken =>
          /\ new.local = [acc.local EXCEPT ![t] = <<>>]
          /\ new.absorbed = acc.absorbed \cup Folding(group, e.node)

LEMMA PushesAre ==
  ASSUME NEW acc \in Account, NEW r \in Graph, NEW e, Heard(r, e), NEW i \in Nat
  PROVE  Follows(acc, r, e, PushesOf(acc, r, e, i))
<1> USE DEF Follows
<1> DEFINE new == PushesOf(acc, r, e, i)
           t == r.nodes[e.node].ticket
           group == Append(acc.local[t], e.node)
<1>1. acc.local \in [Tickets -> Seq(Nat)] /\ acc.absorbed \subseteq Nat \X Nat
      /\ acc = [local |-> acc.local, absorbed |-> acc.absorbed, ops |-> acc.ops]
      /\ acc.ops \in SUBSET Op
  BY DEF Account
<1>2. CASE e.type # "node_done"
  <2>1. new = FlushAll(acc, r, Flushed(e), i)
    BY <1>2 DEF PushesOf
  <2> HIDE DEF new
  <2> QED  BY <1>2, <2>1, FlushedIs, FlushAllIs DEF Tells, new
<1>3. CASE e.type = "node_done" /\ ~BornLocal(r, e.node)
  <2>1. new = acc
    BY <1>3 DEF PushesOf
  <2>2. ToSet(Flushed(e)) = {} /\ FoldedBy(acc, r, {}) = {}
    BY <1>3, FlushedIs DEF FoldedBy
  <2> HIDE DEF new
  <2> QED  BY <1>3, <2>1, <2>2 DEF Tells, new
<1>4. CASE Tells(r, e)
  <2>1. t \in Tickets /\ e.node \in Nat /\ e.type = "node_done" /\ BornLocal(r, e.node)
    BY <1>4 DEF Tells, Heard
  <2>2. acc.local[t] \in Seq(Nat)
    BY <1>1, <2>1
  <2>3. group \in Seq(Nat) /\ group # <<>> /\ Last(group) = e.node
    <3> HIDE DEF t
    <3> QED  BY <2>1, <2>2, OneMoreMember
  <2>4. CASE r.nodes[e.node].broken
    <3>1. new = [acc EXCEPT !.local[t] = group]
      BY <2>1, <2>4 DEF PushesOf
    <3> HIDE DEF t, group
    <3>2. new = [local |-> [acc.local EXCEPT ![t] = group], absorbed |-> acc.absorbed,
                 ops |-> acc.ops]
      BY <1>1, <3>1
    <3>3. [acc.local EXCEPT ![t] = group] \in [Tickets -> Seq(Nat)]
      BY <1>1, <2>3
    <3>4. new \in Account
      BY <1>1, <3>2, <3>3 DEF Account
    <3> QED  BY <1>4, <2>4, <3>2, <3>4 DEF t, group
  <2>5. CASE ~r.nodes[e.node].broken
    <3> DEFINE base == [acc EXCEPT !.local[t] = <<>>]
    <3>1. new = Together(base, group, i, "commit")
      BY <2>1, <2>5 DEF PushesOf
    <3>2. base = [local |-> [acc.local EXCEPT ![t] = <<>>], absorbed |-> acc.absorbed,
                  ops |-> acc.ops]
      <4> DEFINE none == <<>>
      <4>1. base = [acc EXCEPT !.local[t] = none]
        OBVIOUS
      <4>2. acc = [local |-> acc.local, absorbed |-> acc.absorbed, ops |-> acc.ops]
        BY <1>1
      <4> HIDE DEF t, group, new, none, base
      <4>3. base = [local |-> [acc.local EXCEPT ![t] = none], absorbed |-> acc.absorbed,
                    ops |-> acc.ops]
        BY <4>1, <4>2
      <4> QED  BY <4>3 DEF none
    <3>3. [acc.local EXCEPT ![t] = <<>>] \in [Tickets -> Seq(Nat)]
      <4> HIDE DEF t
      <4>1. <<>> \in Seq(Nat)
        OBVIOUS
      <4> QED  BY <1>1, <2>1, <4>1
    <3>4. base \in Account
      BY <1>1, <3>2, <3>3 DEF Account
    <3>5. base.local = [acc.local EXCEPT ![t] = <<>>] /\ base.absorbed = acc.absorbed
      BY <3>2
    <3> HIDE DEF base, group, t, new
    <3>6. /\ Together(base, group, i, "commit") \in Account
          /\ Together(base, group, i, "commit").local = base.local
          /\ Together(base, group, i, "commit").absorbed
               = base.absorbed \cup Folding(group, Last(group))
      BY <2>3, <3>4, TogetherIs
    <3> QED  BY <1>4, <2>3, <2>5, <3>1, <3>5, <3>6 DEF t, group, new
  <2> QED  BY <2>4, <2>5
<1> QED  BY <1>2, <1>3, <1>4 DEF Tells

-----------------------------------------------------------------------------
(* Events are folded one after another *)

Base(l) == [local |-> l.local, absorbed |-> l.absorbed, ops |-> {}]
Ledger(l) == l.local \in [Tickets -> Seq(Nat)] /\ l.absorbed \subseteq Nat \X Nat

LEMMA AdvancingIs ==
  ASSUME NEW l, NEW es, Len(es) \in Nat, NEW r
  PROVE  LET f == Advancing(l, es, r)
         IN /\ f[0] = Base(l)
            /\ \A i \in 1..Len(es) : f[i] = PushesOf(f[i - 1], r, es[i], i)
<1> DEFINE L == Len(es)
           Is(f, k) == f = [j \in 0..k |-> IF j = 0 THEN Base(l) ELSE PushesOf(f[j - 1], r, es[j], j)]
           T == {k \in 0..L : \E f : Is(f, k)}
           h == CHOOSE f : Is(f, L)
<1>1. L \in Nat
  OBVIOUS
<1>2. 0 \in T
  <2>1. Is([j \in 0..0 |-> Base(l)], 0)
    OBVIOUS
  <2>2. 0 \in 0..L
    BY <1>1
  <2> HIDE DEF Is
  <2> QED  BY <2>1, <2>2
<1>3. ASSUME NEW k \in 0..(L - 1), k \in T PROVE k + 1 \in T
  <2>1. PICK g : Is(g, k)
    BY <1>3
  <2> DEFINE last == PushesOf(g[k], r, es[k + 1], k + 1)
             f == [j \in 0..(k + 1) |-> IF j = k + 1 THEN last ELSE g[j]]
  <2>2. k \in Nat /\ k + 1 \in 0..L
    BY <1>1
  <2>3. ASSUME NEW j \in 0..(k + 1)
        PROVE  f[j] = IF j = 0 THEN Base(l) ELSE PushesOf(f[j - 1], r, es[j], j)
    <3> HIDE DEF last
    <3>1. CASE j = k + 1
      <4>1. f[j] = last /\ j # 0 /\ j - 1 = k /\ f[k] = g[k]
        BY <2>2, <3>1
      <4> QED  BY <3>1, <4>1 DEF last
    <3>2. CASE j # k + 1
      <4>1. j \in 0..k /\ f[j] = g[j]
        BY <2>2, <3>2
      <4>2. g[j] = IF j = 0 THEN Base(l) ELSE PushesOf(g[j - 1], r, es[j], j)
        BY <2>1, <4>1
      <4>3. j # 0 => f[j - 1] = g[j - 1]
        BY <2>2, <4>1
      <4> QED  BY <4>1, <4>2, <4>3
    <3> QED  BY <3>1, <3>2
  <2>4. f = [j \in 0..(k + 1) |-> f[j]]
    OBVIOUS
  <2> HIDE DEF f
  <2>5. Is(f, k + 1)
    BY <2>3, <2>4
  <2> HIDE DEF Is
  <2> QED  BY <2>2, <2>5
<1>4. Is(h, L)
  <2>1. L \in T
    <3> HIDE DEF T
    <3> QED  BY <1>1, <1>2, <1>3, FromNought
  <2> HIDE DEF Is
  <2> QED  BY <2>1
<1>5. Advancing(l, es, r) = h
  BY DEF Advancing, Base
<1> HIDE DEF h
<1>6. \A j \in 0..L : h[j] = IF j = 0 THEN Base(l) ELSE PushesOf(h[j - 1], r, es[j], j)
  BY <1>4
<1>7. h[0] = Base(l) /\ \A j \in 1..L : h[j] = PushesOf(h[j - 1], r, es[j], j)
  BY <1>1, <1>6
<1> QED  BY <1>5, <1>7

EventRecord ==
  [type : {"checkout", "node_done", "energy", "pr_reviewed", "ticket_merged", "obstacle_cleared"},
   node : Nat, ticket : Tickets \cup {NoTicket}, colleague : BOOLEAN]

AllHeard(r, es) == \A i \in 1..Len(es) : Heard(r, es[i])

LEMMA AdvancingTyped ==
  ASSUME NEW l, Ledger(l), NEW r \in Graph, NEW es \in Seq(EventRecord), AllHeard(r, es)
  PROVE  \A i \in 0..Len(es) : Advancing(l, es, r)[i] \in Account
<1> DEFINE f == Advancing(l, es, r)
           L == Len(es)
           T == {i \in 0..L : f[i] \in Account}
<1>1. L \in Nat /\ f[0] = Base(l) /\ \A i \in 1..L : f[i] = PushesOf(f[i - 1], r, es[i], i)
  BY AdvancingIs
<1> HIDE DEF f
<1>2. 0 \in T
  <2>1. Base(l) \in Account
    BY DEF Base, Ledger, Account
  <2> QED  BY <1>1, <2>1
<1>3. ASSUME NEW k \in 0..(L - 1), k \in T PROVE k + 1 \in T
  <2>1. k + 1 \in 1..L /\ k + 1 \in 0..L /\ k + 1 \in Nat /\ (k + 1) - 1 = k
    BY <1>1
  <2>2. f[k + 1] = PushesOf(f[k], r, es[k + 1], k + 1) /\ f[k] \in Account
    BY <1>1, <1>3, <2>1
  <2>3. Heard(r, es[k + 1])
    BY <2>1 DEF AllHeard
  <2>4. PushesOf(f[k], r, es[k + 1], k + 1) \in Account
    BY <2>1, <2>2, <2>3, PushesAre DEF Follows
  <2> QED  BY <2>1, <2>2, <2>4
<1> HIDE DEF T
<1>4. ASSUME NEW i \in 0..L PROVE i \in T
  <2>1. \A k \in 0..(i - 1) : k \in 0..(L - 1)
    BY <1>1
  <2> QED  BY <1>1, <1>2, <1>3, <2>1, FromNought
<1> QED  BY <1>4 DEF T, f

LEMMA AdvancedMore ==
  ASSUME NEW l, NEW r, NEW es \in Seq(EventRecord), NEW e \in EventRecord
  PROVE  LET f == Advancing(l, es, r)
             g == Advancing(l, Append(es, e), r)
             n == Len(es)
         IN /\ n \in Nat /\ Len(Append(es, e)) = n + 1
            /\ \A i \in 0..n : g[i] = f[i]
            /\ g[n + 1] = PushesOf(f[n], r, e, n + 1)
<1> DEFINE f == Advancing(l, es, r)
           more == Append(es, e)
           g == Advancing(l, more, r)
           n == Len(es)
           T == {i \in 0..n : g[i] = f[i]}
<1>1. /\ n \in Nat /\ Len(more) = n + 1 /\ more[n + 1] = e
      /\ \A i \in 1..n : more[i] = es[i]
  OBVIOUS
<1> HIDE DEF more
<1>2. f[0] = Base(l) /\ \A i \in 1..n : f[i] = PushesOf(f[i - 1], r, es[i], i)
  BY <1>1, AdvancingIs
<1>3. g[0] = Base(l) /\ \A i \in 1..(n + 1) : g[i] = PushesOf(g[i - 1], r, more[i], i)
  <2>1. Len(more) \in Nat
    BY <1>1
  <2>2. g[0] = Base(l) /\ \A i \in 1..Len(more) : g[i] = PushesOf(g[i - 1], r, more[i], i)
    BY <2>1, AdvancingIs
  <2> QED  BY <1>1, <2>2
<1> HIDE DEF f, g, n
<1>4. 0 \in T
  BY <1>1, <1>2, <1>3
<1>5. ASSUME NEW k \in 0..(n - 1), k \in T PROVE k + 1 \in T
  <2>1. k + 1 \in 1..n /\ k + 1 \in 1..(n + 1) /\ k + 1 \in 0..n /\ (k + 1) - 1 = k
    BY <1>1
  <2>2. f[k + 1] = PushesOf(f[k], r, es[k + 1], k + 1)
    BY <1>2, <2>1
  <2>3. g[k + 1] = PushesOf(g[k], r, more[k + 1], k + 1)
    BY <1>3, <2>1
  <2>4. g[k + 1] = f[k + 1]
    BY <1>1, <1>5, <2>1, <2>2, <2>3
  <2> QED  BY <2>1, <2>4
<1> HIDE DEF T
<1>6. ASSUME NEW i \in 0..n PROVE i \in T
  <2>1. \A k \in 0..(i - 1) : k \in 0..(n - 1)
    BY <1>1
  <2> QED  BY <1>1, <1>4, <1>5, <2>1, FromNought
<1>7. g[n + 1] = PushesOf(f[n], r, e, n + 1)
  <2>1. n + 1 \in 1..(n + 1) /\ (n + 1) - 1 = n /\ n \in 0..n
    BY <1>1
  <2>2. g[n] = f[n]
    BY <1>6, <2>1 DEF T
  <2>3. g[n + 1] = PushesOf(g[(n + 1) - 1], r, more[n + 1], n + 1)
    BY <1>3, <2>1
  <2> QED  BY <1>1, <2>1, <2>2, <2>3
<1> QED  BY <1>1, <1>6, <1>7 DEF T, f, g, n, more

LEMMA PushesSame ==
  ASSUME NEW acc \in Account, NEW r \in Graph, NEW s \in Graph, GoesOn(r.nodes, s.nodes),
         NEW e, Heard(r, e), NEW i \in Nat,
         \A u \in ToSet(Flushed(e)) : acc.local[u] # <<>> => Ids(s, u) = Ids(r, u)
  PROVE  PushesOf(acc, s, e, i) = PushesOf(acc, r, e, i)
<1>1. CASE e.type # "node_done"
  <2>1. Flushed(e) \in Seq(Tickets)
    BY FlushedIs
  <2>2. FlushAll(acc, s, Flushed(e), i) = FlushAll(acc, r, Flushed(e), i)
    BY <2>1, FlushAllSame
  <2> QED  BY <1>1, <2>2 DEF PushesOf
<1>2. CASE e.type = "node_done"
  <2>1. s.nodes[e.node] = r.nodes[e.node]
    BY <1>2 DEF Heard, GoesOn
  <2>2. BornLocal(s, e.node) = BornLocal(r, e.node)
    BY <2>1 DEF BornLocal
  <2> QED  BY <1>2, <2>1, <2>2 DEF PushesOf
<1> QED  BY <1>1, <1>2

\* What was folded does not change, when the branches that had something to fold
\* are as they were.
LEMMA FoldsStay ==
  ASSUME NEW l, Ledger(l), NEW es \in Seq(EventRecord),
         NEW r \in Graph, AllHeard(r, es), NEW s \in Graph, AllHeard(s, es),
         GoesOn(r.nodes, s.nodes),
         \A i \in 1..Len(es) : \A u \in ToSet(Flushed(es[i])) :
           Advancing(l, es, r)[i - 1].local[u] # <<>> => Ids(s, u) = Ids(r, u)
  PROVE  \A i \in 0..Len(es) : Advancing(l, es, s)[i] = Advancing(l, es, r)[i]
<1> DEFINE f == Advancing(l, es, r)
           g == Advancing(l, es, s)
           L == Len(es)
           T == {i \in 0..L : g[i] = f[i]}
<1>1. /\ L \in Nat /\ f[0] = Base(l) /\ g[0] = Base(l)
      /\ \A i \in 1..L : f[i] = PushesOf(f[i - 1], r, es[i], i)
      /\ \A i \in 1..L : g[i] = PushesOf(g[i - 1], s, es[i], i)
  BY AdvancingIs
<1>2. \A i \in 0..L : f[i] \in Account
  BY AdvancingTyped
<1>3. \A i \in 1..L : \A u \in ToSet(Flushed(es[i])) :
        f[i - 1].local[u] # <<>> => Ids(s, u) = Ids(r, u)
  OBVIOUS
<1> HIDE DEF f, g
<1>4. 0 \in T
  BY <1>1
<1>5. ASSUME NEW k \in 0..(L - 1), k \in T PROVE k + 1 \in T
  <2> DEFINE a == f[k]
             e == es[k + 1]
  <2>1. k + 1 \in 1..L /\ k + 1 \in 0..L /\ (k + 1) - 1 = k /\ k \in 0..L /\ k + 1 \in Nat
    BY <1>1
  <2>2. f[k + 1] = PushesOf(a, r, e, k + 1) /\ g[k + 1] = PushesOf(a, s, e, k + 1)
    BY <1>1, <1>5, <2>1
  <2>3. a \in Account /\ \A u \in ToSet(Flushed(e)) : a.local[u] # <<>> => Ids(s, u) = Ids(r, u)
    BY <1>2, <1>3, <2>1
  <2>4. Heard(r, e)
    BY <2>1 DEF AllHeard
  <2> HIDE DEF a, e
  <2>5. PushesOf(a, s, e, k + 1) = PushesOf(a, r, e, k + 1)
    BY <2>1, <2>3, <2>4, PushesSame
  <2> QED  BY <2>1, <2>2, <2>5
<1> HIDE DEF T
<1>6. ASSUME NEW i \in 0..L PROVE i \in T
  <2>1. \A k \in 0..(i - 1) : k \in 0..(L - 1)
    BY <1>1
  <2> QED  BY <1>1, <1>4, <1>5, <2>1, FromNought
<1> QED  BY <1>6 DEF T, f, g

-----------------------------------------------------------------------------
(* The ledger and the branches *)

Broken(r) == {n \in 1..Len(r.nodes) : r.nodes[n].broken}

\* `f` says, and alone, where n is folded, in a commit that branch t keeps.
FoldsInto(r, l, n, t, f) ==
  /\ f \in l.absorbed /\ f[1] = n
  /\ \A g \in l.absorbed : g[1] = n => g = f
  /\ f[2] \in ToSet(Ids(r, t)) /\ ~r.nodes[f[2]].broken

\* What is local is what broke at the tip of each branch, the rest of what broke is
\* folded, once, into what its branch keeps.
LedgerIs(r, l) ==
  /\ \A t \in Tickets : /\ Ids(r, t) = Working(r, Ids(r, t)) \o l.local[t]
                        /\ \A n \in ToSet(l.local[t]) : r.nodes[n].broken
  /\ \A f \in l.absorbed : f[1] \in Broken(r) /\ f[1] \notin LocalOf(l)
  /\ \A n \in Broken(r) \ LocalOf(l) :
       r.nodes[n].ticket \in Tickets /\ \E f : FoldsInto(r, l, n, r.nodes[n].ticket, f)

LEMMA LedgerSame ==
  ASSUME NEW r, NEW l, NEW m, LedgerIs(r, l), m.local = l.local, m.absorbed = l.absorbed
  PROVE  LedgerIs(r, m)
BY DEF LedgerIs, LocalOf, FoldsInto

LEMMA ConcatIs ==
  ASSUME NEW p \in Seq(Nat), NEW q \in Seq(Nat)
  PROVE  /\ p \o q \in Seq(Nat) /\ Len(p \o q) = Len(p) + Len(q)
         /\ Len(p) \in Nat /\ Len(q) \in Nat
         /\ \A i \in 1..Len(p) : (p \o q)[i] = p[i]
         /\ \A i \in 1..Len(q) : (p \o q)[Len(p) + i] = q[i]
         /\ \A n : n \in ToSet(p \o q) <=> n \in ToSet(p) \/ n \in ToSet(q)
<1> DEFINE w == p \o q
<1>1. /\ w \in Seq(Nat) /\ Len(w) = Len(p) + Len(q) /\ Len(p) \in Nat /\ Len(q) \in Nat
      /\ \A i \in 1..Len(p) : w[i] = p[i]
      /\ \A i \in 1..Len(q) : w[Len(p) + i] = q[i]
  OBVIOUS
<1> HIDE DEF w
<1>2. ASSUME NEW n, n \in ToSet(w) PROVE n \in ToSet(p) \/ n \in ToSet(q)
  <2>1. PICK i \in 1..Len(w) : w[i] = n
    BY <1>1, <1>2, MembersAre
  <2>2. CASE i <= Len(p)
    <3>1. i \in 1..Len(p)
      BY <2>2, <1>1
    <3> QED  BY <1>1, <2>1, <3>1, MembersAre
  <2>3. CASE ~(i <= Len(p))
    <3>1. i - Len(p) \in 1..Len(q) /\ Len(p) + (i - Len(p)) = i
      BY <2>3, <1>1
    <3>2. q[i - Len(p)] = n
      BY <1>1, <2>1, <3>1
    <3> QED  BY <3>1, <3>2, MembersAre
  <2> QED  BY <2>2, <2>3
<1>3. ASSUME NEW n, n \in ToSet(p) PROVE n \in ToSet(w)
  <2>1. PICK i \in 1..Len(p) : p[i] = n
    BY <1>3, MembersAre
  <2>2. i \in 1..Len(w)
    BY <1>1
  <2> QED  BY <1>1, <2>1, <2>2, MembersAre
<1>4. ASSUME NEW n, n \in ToSet(q) PROVE n \in ToSet(w)
  <2>1. PICK i \in 1..Len(q) : q[i] = n
    BY <1>4, MembersAre
  <2>2. Len(p) + i \in 1..Len(w)
    BY <1>1
  <2> QED  BY <1>1, <2>1, <2>2, MembersAre
<1> QED  BY <1>1, <1>2, <1>3, <1>4 DEF w

LEMMA EmptyIs ==
  ASSUME NEW q \in Seq(Nat)
  PROVE  /\ Len(q) = 0 <=> q = <<>>
         /\ q \o <<>> = q /\ <<>> \in Seq(Nat) /\ ToSet(<<>>) = {}
         /\ q # <<>> <=> ToSet(q) # {}
<1>1. Len(q) = 0 <=> q = <<>>
  OBVIOUS
<1>2. q \o <<>> = q /\ <<>> \in Seq(Nat)
  OBVIOUS
<1>3. ToSet(<<>>) = {}
  BY DEF ToSet
<1>4. q # <<>> => ToSet(q) # {}
  BY LastIs
<1> QED  BY <1>1, <1>2, <1>3, <1>4

\* What a ledger holds of a branch.
LEMMA LocalIs ==
  ASSUME NEW r, Sound(r), NEW l, Ledger(l), LedgerIs(r, l), NEW t \in Tickets
  PROVE  /\ l.local[t] \in Seq(Nat)
         /\ Clean(r.nodes, Ids(r, t)) => l.local[t] = <<>>
         /\ \A n \in ToSet(l.local[t]) :
              /\ n \in LocalOf(l) /\ n \in ToSet(Ids(r, t)) /\ n \in 1..Len(r.nodes)
              /\ r.nodes[n].ticket = t /\ n \in Broken(r)
<1> DEFINE ids == Ids(r, t)
           w == Working(r, ids)
           q == l.local[t]
<1>1. ids \in Seq(Nat) /\ Chain(r.nodes, t, ids) /\ r.nodes \in Seq(GraphNode)
  BY GraphIs DEF Sound
<1>2. q \in Seq(Nat) /\ w \in Seq(Nat) /\ ids = w \o q
  BY <1>1, WorkingIs DEF Ledger, LedgerIs
<1>3. Clean(r.nodes, ids) => w = ids
  BY <1>1, WorkingChain
<1>4. \A i \in 1..Len(ids) : ids[i] \in 1..Len(r.nodes) /\ r.nodes[ids[i]].ticket = t
  BY <1>1 DEF Chain
<1>5. \A n \in ToSet(q) : n \in LocalOf(l) /\ r.nodes[n].broken
  BY DEF LedgerIs, LocalOf
<1> HIDE DEF ids, w, q
<1>6. Clean(r.nodes, ids) => q = <<>>
  BY <1>2, <1>3, ConcatIs, EmptyIs
<1>7. ASSUME NEW n \in ToSet(q)
      PROVE  n \in ToSet(ids) /\ n \in 1..Len(r.nodes) /\ r.nodes[n].ticket = t
  <2>1. n \in ToSet(ids)
    BY <1>2, <1>7, ConcatIs
  <2> QED  BY <1>1, <1>4, <2>1, MembersAre
<1> QED  BY <1>2, <1>5, <1>6, <1>7 DEF ids, q, Broken

\* What was local and no longer is must be folded, in what its branch keeps.
LEMMA LedgerMoves ==
  ASSUME NEW r, Sound(r), NEW s, Sound(s), GoesOn(r.nodes, s.nodes),
         NEW l, Ledger(l), LedgerIs(r, l), NEW m, Ledger(m),
         \A t \in Tickets : /\ Ids(s, t) = Working(s, Ids(s, t)) \o m.local[t]
                            /\ \A n \in ToSet(m.local[t]) : s.nodes[n].broken
                            /\ \A n \in ToSet(Ids(r, t)) :
                                 ~r.nodes[n].broken => n \in ToSet(Ids(s, t))
                            /\ \A n \in ToSet(l.local[t]) :
                                 n \in LocalOf(m) \/ \E f : FoldsInto(s, m, n, t, f),
         l.absorbed \subseteq m.absorbed,
         \A f \in m.absorbed : f \in l.absorbed \/ (f[1] \in LocalOf(l) /\ f[1] \notin LocalOf(m)),
         \A n \in Broken(s) : n > Len(r.nodes) => n \in LocalOf(m),
         \A n \in LocalOf(m) : n \in LocalOf(l) \/ n > Len(r.nodes)
  PROVE  LedgerIs(s, m)
<1>1. /\ r.nodes \in Seq(GraphNode) /\ s.nodes \in Seq(GraphNode)
      /\ Len(r.nodes) \in Nat /\ Len(s.nodes) \in Nat /\ Len(r.nodes) <= Len(s.nodes)
      /\ \A n \in 1..Len(r.nodes) : s.nodes[n] = r.nodes[n] /\ n \in 1..Len(s.nodes)
  BY GraphIs DEF Sound, GoesOn
<1>2. /\ \A n \in Broken(r) : n \in Broken(s) /\ ~(n > Len(r.nodes))
      /\ \A n \in Broken(s) : ~(n > Len(r.nodes)) => n \in Broken(r) /\ s.nodes[n] = r.nodes[n]
  BY <1>1 DEF Broken
<1>3. ASSUME NEW n \in LocalOf(l)
      PROVE  /\ n \in Broken(r)
             /\ r.nodes[n].ticket \in Tickets /\ n \in ToSet(l.local[r.nodes[n].ticket])
  <2>1. PICK t \in Tickets : n \in ToSet(l.local[t])
    BY <1>3 DEF LocalOf
  <2> QED  BY <2>1, LocalIs
<1>4. ASSUME NEW f \in m.absorbed PROVE f[1] \in Broken(s) /\ f[1] \notin LocalOf(m)
  <2>1. CASE f \in l.absorbed
    <3>1. f[1] \in Broken(r) /\ f[1] \notin LocalOf(l)
      BY <2>1 DEF LedgerIs
    <3> QED  BY <1>2, <3>1
  <2>2. CASE f[1] \in LocalOf(l) /\ f[1] \notin LocalOf(m)
    BY <1>2, <1>3, <2>2
  <2> QED  BY <1>4, <2>1, <2>2
<1>5. ASSUME NEW n \in Broken(s) \ LocalOf(m)
      PROVE  s.nodes[n].ticket \in Tickets /\ \E f : FoldsInto(s, m, n, s.nodes[n].ticket, f)
  <2>1. n \in Broken(r) /\ s.nodes[n] = r.nodes[n]
    BY <1>2, <1>5
  <2> DEFINE t == r.nodes[n].ticket
  <2>2. CASE n \in LocalOf(l)
    <3>1. t \in Tickets /\ n \in ToSet(l.local[t])
      BY <1>3, <2>2
    <3> HIDE DEF t
    <3>2. \E f : FoldsInto(s, m, n, t, f)
      BY <1>5, <3>1
    <3> QED  BY <2>1, <3>1, <3>2 DEF t
  <2>3. CASE n \notin LocalOf(l)
    <3>1. t \in Tickets /\ \E f : FoldsInto(r, l, n, t, f)
      BY <2>1, <2>3 DEF LedgerIs
    <3> HIDE DEF t
    <3>2. PICK f : FoldsInto(r, l, n, t, f)
      BY <3>1
    <3>3. f \in m.absorbed /\ f[1] = n /\ f[2] \in ToSet(Ids(r, t)) /\ ~r.nodes[f[2]].broken
      BY <3>2 DEF FoldsInto
    <3>4. \A g \in m.absorbed : g[1] = n => g = f
      BY <2>3, <3>2 DEF FoldsInto
    <3>5. f[2] \in ToSet(Ids(s, t))
      BY <3>1, <3>3
    <3>6. f[2] \in 1..Len(r.nodes)
      <4>1. Ids(r, t) \in Seq(Nat) /\ Chain(r.nodes, t, Ids(r, t))
        BY <3>1, GraphIs DEF Sound
      <4>2. \A i \in 1..Len(Ids(r, t)) : Ids(r, t)[i] \in 1..Len(r.nodes)
        BY <4>1 DEF Chain
      <4> QED  BY <3>3, <4>1, <4>2, MembersAre
    <3>7. ~s.nodes[f[2]].broken
      BY <1>1, <3>3, <3>6
    <3>8. FoldsInto(s, m, n, t, f)
      BY <3>3, <3>4, <3>5, <3>7 DEF FoldsInto
    <3> QED  BY <2>1, <3>1, <3>8 DEF t
  <2> QED  BY <2>2, <2>3
<1> QED  BY <1>4, <1>5 DEF LedgerIs

LEMMA WorkingStays ==
  ASSUME NEW r, NEW s, NEW t, NEW ids \in Seq(Nat),
         Chain(r.nodes, t, ids), Chain(s.nodes, t, ids),
         \A i \in 1..Len(ids) : s.nodes[ids[i]].broken = r.nodes[ids[i]].broken
  PROVE  Working(s, ids) = Working(r, ids)
<1> DEFINE v == Working(r, ids)
           w == Working(s, ids)
<1>1. /\ v \in Seq(Nat) /\ Len(v) <= Len(ids)
      /\ \A i \in 1..Len(v) : v[i] = ids[i] /\ ~r.nodes[ids[i]].broken
      /\ \A i \in 1..Len(ids) : ~r.nodes[ids[i]].broken => i <= Len(v)
  BY WorkingIs
<1>2. /\ w \in Seq(Nat) /\ Len(w) <= Len(ids)
      /\ \A i \in 1..Len(w) : w[i] = ids[i] /\ ~s.nodes[ids[i]].broken
      /\ \A i \in 1..Len(ids) : ~s.nodes[ids[i]].broken => i <= Len(w)
  BY WorkingIs
<1> HIDE DEF v, w
<1>3. Len(v) \in Nat /\ Len(w) \in Nat /\ Len(ids) \in Nat
  BY <1>1, <1>2
<1>4. ~(Len(v) < Len(w))
  <2> SUFFICES ASSUME Len(v) < Len(w) PROVE FALSE
    OBVIOUS
  <2> DEFINE i == Len(w)
  <2>1. i \in 1..Len(w) /\ i \in 1..Len(ids) /\ ~(i <= Len(v))
    BY <1>2, <1>3
  <2> HIDE DEF i
  <2>2. ~s.nodes[ids[i]].broken
    BY <1>2, <2>1
  <2>3. s.nodes[ids[i]].broken = r.nodes[ids[i]].broken
    BY <2>1
  <2> QED  BY <1>1, <2>1, <2>2, <2>3
<1>5. ~(Len(w) < Len(v))
  <2> SUFFICES ASSUME Len(w) < Len(v) PROVE FALSE
    OBVIOUS
  <2> DEFINE i == Len(v)
  <2>1. i \in 1..Len(v) /\ i \in 1..Len(ids) /\ ~(i <= Len(w))
    BY <1>1, <1>3
  <2> HIDE DEF i
  <2>2. ~r.nodes[ids[i]].broken
    BY <1>1, <2>1
  <2>3. s.nodes[ids[i]].broken = r.nodes[ids[i]].broken
    BY <2>1
  <2> QED  BY <1>2, <2>1, <2>2, <2>3
<1>6. Len(v) = Len(w)
  BY <1>3, <1>4, <1>5
<1>7. \A i \in 1..Len(v) : v[i] = w[i]
  BY <1>1, <1>2, <1>6
<1>8. v = w
  BY <1>1, <1>2, <1>6, <1>7, SeqEqual
<1> QED  BY <1>8 DEF v, w

-----------------------------------------------------------------------------
(* The books of a batch *)

\* A branch nothing is written on until the player moves again.
Frozen(r, t) == r.tickets[t].status \in {"open", "merged"} /\ ~r.tickets[t].theirs

\* What was not yet folded when an event sends a branch up is on such a branch.
Settling(r, l, es) ==
  \A i \in 1..Len(es) : \A u \in ToSet(Flushed(es[i])) :
    Advancing(l, es, r)[i - 1].local[u] # <<>> => Frozen(r, u)

Books(r, l, es) ==
  /\ Ledger(l) /\ es \in Seq(EventRecord) /\ AllHeard(r, es)
  /\ Settling(r, l, es) /\ LedgerIs(r, Advanced(l, es, r))

\* What the team, the clock and the trunks do to the graph: nothing breaks, branches
\* that had broken stay as they are.
Moves(r, s) ==
  /\ Sound(s) /\ GoesOn(r.nodes, s.nodes)
  /\ \A n \in Broken(s) : ~(n > Len(r.nodes))
  /\ \A u \in Tickets :
       /\ Frozen(r, u) => Frozen(s, u) /\ Ids(s, u) = Ids(r, u)
       /\ \/ Ids(s, u) = Ids(r, u)
          \/ /\ Clean(r.nodes, Ids(r, u)) /\ Clean(s.nodes, Ids(s, u))
             /\ ToSet(Ids(r, u)) \subseteq ToSet(Ids(s, u))

LEMMA GoesOnTwice ==
  ASSUME NEW a \in Seq(GraphNode), NEW b \in Seq(GraphNode), NEW c \in Seq(GraphNode),
         GoesOn(a, b), GoesOn(b, c)
  PROVE  GoesOn(a, c)
<1>1. /\ Len(a) \in Nat /\ Len(b) \in Nat /\ Len(c) \in Nat /\ Len(a) <= Len(b) /\ Len(b) <= Len(c)
      /\ \A n \in 1..Len(a) : b[n] = a[n] /\ n \in 1..Len(b)
  BY DEF GoesOn
<1> QED  BY <1>1 DEF GoesOn

LEMMA CleanStays ==
  ASSUME NEW r, Sound(r), NEW s, Sound(s), GoesOn(r.nodes, s.nodes), NEW u \in Tickets
  PROVE  Clean(s.nodes, Ids(r, u)) <=> Clean(r.nodes, Ids(r, u))
<1>1. /\ r.nodes \in Seq(GraphNode) /\ s.nodes \in Seq(GraphNode) /\ Rooted(r.nodes)
      /\ Ids(r, u) \in Seq(Nat) /\ Chain(r.nodes, u, Ids(r, u))
  BY GraphIs DEF Sound
<1> QED  BY <1>1, ChainStays

LEMMA MovesTwice ==
  ASSUME NEW r, Sound(r), NEW m, Moves(r, m), NEW s, Moves(m, s)
  PROVE  Moves(r, s)
<1>1. /\ Sound(m) /\ Sound(s)
      /\ r.nodes \in Seq(GraphNode) /\ m.nodes \in Seq(GraphNode) /\ s.nodes \in Seq(GraphNode)
  BY GraphIs DEF Moves, Sound
<1>2. GoesOn(r.nodes, s.nodes)
  BY <1>1, GoesOnTwice DEF Moves
<1>3. ASSUME NEW n \in Broken(s), n > Len(r.nodes) PROVE FALSE
  <2>1. n \in Nat /\ Len(m.nodes) \in Nat /\ Len(r.nodes) \in Nat
    BY <1>1, <1>3 DEF Broken
  <2>2. ~(n > Len(m.nodes))
    BY <1>3 DEF Moves
  <2>3. n \in 1..Len(m.nodes)
    BY <1>3, <2>1, <2>2 DEF Broken
  <2>4. n \in Broken(m)
    BY <1>3, <2>3 DEF Broken, Moves, GoesOn
  <2> QED  BY <1>3, <2>4 DEF Moves
<1>4. ASSUME NEW u \in Tickets
      PROVE  /\ Frozen(r, u) => Frozen(s, u) /\ Ids(s, u) = Ids(r, u)
             /\ \/ Ids(s, u) = Ids(r, u)
                \/ /\ Clean(r.nodes, Ids(r, u)) /\ Clean(s.nodes, Ids(s, u))
                   /\ ToSet(Ids(r, u)) \subseteq ToSet(Ids(s, u))
  <2>1. Frozen(r, u) => Frozen(s, u) /\ Ids(s, u) = Ids(r, u)
    BY DEF Moves
  <2>2. CASE Ids(m, u) = Ids(r, u)
    <3>1. Clean(m.nodes, Ids(m, u)) <=> Clean(r.nodes, Ids(r, u))
      BY <1>1, <2>2, CleanStays DEF Moves
    <3> QED  BY <2>1, <2>2, <3>1 DEF Moves
  <2>3. CASE /\ Clean(r.nodes, Ids(r, u)) /\ Clean(m.nodes, Ids(m, u))
             /\ ToSet(Ids(r, u)) \subseteq ToSet(Ids(m, u))
    <3>1. CASE Ids(s, u) = Ids(m, u)
      <4>1. Clean(s.nodes, Ids(s, u))
        BY <1>1, <2>3, <3>1, CleanStays DEF Moves
      <4> QED  BY <2>1, <2>3, <3>1, <4>1
    <3>2. CASE Clean(s.nodes, Ids(s, u)) /\ ToSet(Ids(m, u)) \subseteq ToSet(Ids(s, u))
      BY <2>1, <2>3, <3>2
    <3> QED  BY <2>3, <3>1, <3>2 DEF Moves
  <2> QED  BY <2>2, <2>3 DEF Moves
<1> QED  BY <1>1, <1>2, <1>3, <1>4 DEF Moves

LEMMA HeardStays ==
  ASSUME NEW r, NEW s, GoesOn(r.nodes, s.nodes), Len(r.nodes) \in Nat, Len(s.nodes) \in Nat,
         NEW es, AllHeard(r, es)
  PROVE  AllHeard(s, es)
<1> SUFFICES ASSUME NEW i \in 1..Len(es) PROVE Heard(s, es[i])
  BY DEF AllHeard
<1> DEFINE e == es[i]
<1>1. Heard(r, e)
  BY DEF AllHeard
<1> HIDE DEF e
<1>2. CASE e.type = "node_done"
  <2>1. e.node \in 1..Len(r.nodes) /\ e.node \in 1..Len(s.nodes) /\ s.nodes[e.node] = r.nodes[e.node]
    BY <1>1, <1>2 DEF Heard, GoesOn
  <2>2. BornLocal(s, e.node) = BornLocal(r, e.node)
    BY <2>1 DEF BornLocal
  <2> QED  BY <1>1, <1>2, <2>1, <2>2 DEF Heard, e
<1>3. CASE e.type # "node_done"
  BY <1>1, <1>3 DEF Heard, e
<1> QED  BY <1>2, <1>3

LEMMA AdvancedIs ==
  ASSUME NEW l, Ledger(l), NEW r \in Graph, NEW es \in Seq(EventRecord), AllHeard(r, es)
  PROVE  /\ Advanced(l, es, r) \in Account /\ Ledger(Advanced(l, es, r))
         /\ Advanced(l, es, r) = Advancing(l, es, r)[Len(es)]
         /\ Len(es) \in 0..Len(es)
<1>1. Len(es) \in 0..Len(es)
  OBVIOUS
<1>2. Advanced(l, es, r) \in Account
  BY <1>1, AdvancingTyped DEF Advanced
<1> QED  BY <1>1, <1>2 DEF Advanced, Account, Ledger

LEMMA BooksMove ==
  ASSUME NEW r, Sound(r), NEW s, Moves(r, s), NEW l, NEW es, Books(r, l, es)
  PROVE  Books(s, l, es) /\ \A i \in 0..Len(es) : Advancing(l, es, s)[i] = Advancing(l, es, r)[i]
<1> DEFINE a == Advanced(l, es, r)
           b == Advanced(l, es, s)
<1>1. /\ r \in Graph /\ s \in Graph /\ Sound(s) /\ GoesOn(r.nodes, s.nodes)
      /\ Len(r.nodes) \in Nat /\ Len(s.nodes) \in Nat
      /\ r.nodes \in Seq(GraphNode) /\ s.nodes \in Seq(GraphNode) /\ Rooted(r.nodes)
  BY GraphIs DEF Moves, Sound
<1>2. /\ Ledger(l) /\ es \in Seq(EventRecord) /\ AllHeard(r, es) /\ Settling(r, l, es)
      /\ LedgerIs(r, a)
  BY DEF Books
<1>3. AllHeard(s, es)
  BY <1>1, <1>2, HeardStays
<1>4. \A i \in 1..Len(es) : \A u \in ToSet(Flushed(es[i])) :
        Advancing(l, es, r)[i - 1].local[u] # <<>> => Ids(s, u) = Ids(r, u) /\ Frozen(s, u)
  <2> SUFFICES ASSUME NEW i \in 1..Len(es), NEW u \in ToSet(Flushed(es[i])),
                      Advancing(l, es, r)[i - 1].local[u] # <<>>
               PROVE  Ids(s, u) = Ids(r, u) /\ Frozen(s, u)
    OBVIOUS
  <2>1. Frozen(r, u)
    BY <1>2 DEF Settling
  <2>2. Heard(r, es[i])
    BY <1>2 DEF AllHeard
  <2>3. u \in Tickets
    BY <2>2, FlushedIs DEF ToSet
  <2> QED  BY <2>1, <2>3 DEF Moves
<1>5. \A i \in 0..Len(es) : Advancing(l, es, s)[i] = Advancing(l, es, r)[i]
  BY <1>1, <1>2, <1>3, <1>4, FoldsStay
<1>6. Settling(s, l, es)
  <2>1. \A i \in 1..Len(es) : i - 1 \in 0..Len(es)
    BY <1>2
  <2> QED  BY <1>4, <1>5, <2>1 DEF Settling
<1>7. Ledger(a) /\ Ledger(b) /\ b.local = a.local /\ b.absorbed = a.absorbed
  BY <1>1, <1>2, <1>3, <1>5, AdvancedIs
<1> HIDE DEF a, b
<1>8. LocalOf(b) = LocalOf(a)
  BY <1>7 DEF LocalOf
<1>9. ASSUME NEW t \in Tickets
      PROVE  /\ Ids(s, t) = Working(s, Ids(s, t)) \o b.local[t]
             /\ \A n \in ToSet(b.local[t]) : s.nodes[n].broken
             /\ \A n \in ToSet(Ids(r, t)) : ~r.nodes[n].broken => n \in ToSet(Ids(s, t))
             /\ \A n \in ToSet(a.local[t]) : n \in LocalOf(b)
  <2>1. /\ Ids(r, t) \in Seq(Nat) /\ Chain(r.nodes, t, Ids(r, t))
        /\ Ids(s, t) \in Seq(Nat) /\ Chain(s.nodes, t, Ids(s, t))
    BY <1>1, GraphIs DEF Sound
  <2>2. /\ a.local[t] \in Seq(Nat) /\ b.local[t] = a.local[t]
        /\ Clean(r.nodes, Ids(r, t)) => a.local[t] = <<>>
        /\ \A n \in ToSet(a.local[t]) : n \in LocalOf(b) /\ n \in Broken(r)
    BY <1>2, <1>7, <1>8, LocalIs DEF a
  <2>3. \A n \in ToSet(b.local[t]) : s.nodes[n].broken
    BY <1>1, <2>2 DEF Broken, GoesOn
  <2>4. Ids(s, t) = Working(s, Ids(s, t)) \o b.local[t]
    <3>1. CASE Ids(s, t) = Ids(r, t)
      <4>1. \A i \in 1..Len(Ids(r, t)) :
              s.nodes[Ids(r, t)[i]].broken = r.nodes[Ids(r, t)[i]].broken
        BY <1>1, <2>1 DEF Chain, GoesOn
      <4>2. Working(s, Ids(s, t)) = Working(r, Ids(r, t))
        BY <2>1, <3>1, <4>1, WorkingStays
      <4> QED  BY <1>2, <2>2, <3>1, <4>2 DEF LedgerIs, a
    <3>2. CASE Clean(r.nodes, Ids(r, t)) /\ Clean(s.nodes, Ids(s, t))
      <4>1. b.local[t] = <<>>
        BY <2>2, <3>2
      <4>2. Working(s, Ids(s, t)) = Ids(s, t)
        BY <1>1, <2>1, <3>2, WorkingChain
      <4> QED  BY <2>1, <4>1, <4>2, EmptyIs
    <3> QED  BY <3>1, <3>2 DEF Moves
  <2>5. ToSet(Ids(r, t)) \subseteq ToSet(Ids(s, t))
    BY DEF Moves
  <2> QED  BY <2>2, <2>3, <2>4, <2>5
<1>10. LedgerIs(s, b)
  <2>1. /\ a.absorbed \subseteq b.absorbed
        /\ \A f \in b.absorbed : f \in a.absorbed
        /\ \A n \in LocalOf(b) : n \in LocalOf(a)
        /\ \A n \in Broken(s) : n > Len(r.nodes) => n \in LocalOf(b)
    BY <1>7, <1>8 DEF Moves
  <2>2. LedgerIs(r, a)
    BY <1>2 DEF a
  <2> QED  BY <1>1, <1>7, <1>9, <2>1, <2>2, LedgerMoves
<1> QED  BY <1>2, <1>3, <1>5, <1>6, <1>10 DEF Books, b

\* One event more, that has been folded as it should.
LEMMA BooksGrow ==
  ASSUME NEW r \in Graph, NEW l, Ledger(l), NEW es \in Seq(EventRecord), AllHeard(r, es),
         Settling(r, l, es), NEW e \in EventRecord, Heard(r, e),
         \A u \in ToSet(Flushed(e)) : Advanced(l, es, r).local[u] # <<>> => Frozen(r, u),
         \A new : Follows(Advanced(l, es, r), r, e, new) => LedgerIs(r, new)
  PROVE  /\ Books(r, l, Append(es, e))
         /\ Follows(Advanced(l, es, r), r, e, Advanced(l, Append(es, e), r))
<1> DEFINE a == Advanced(l, es, r)
           more == Append(es, e)
           b == Advanced(l, more, r)
           n == Len(es)
           f == Advancing(l, es, r)
           g == Advancing(l, more, r)
<1>1. /\ more \in Seq(EventRecord) /\ more[n + 1] = e /\ \A i \in 1..n : more[i] = es[i]
      /\ n \in Nat /\ Len(more) = n + 1
  OBVIOUS
<1>2. (\A i \in 0..n : g[i] = f[i]) /\ g[n + 1] = PushesOf(f[n], r, e, n + 1)
  BY AdvancedMore
<1>3. a = f[n] /\ a \in Account /\ b = g[n + 1]
  BY <1>1, AdvancedIs DEF Advanced
<1> HIDE DEF a, b, f, g, more, n
<1>4. \A i \in 1..Len(more) : i \in 1..n \/ i = n + 1
  BY <1>1
<1>5. AllHeard(r, more)
  BY <1>1, <1>4 DEF AllHeard, n
<1>6. Settling(r, l, more)
  <2> SUFFICES ASSUME NEW i \in 1..Len(more), NEW u \in ToSet(Flushed(more[i])),
                      g[i - 1].local[u] # <<>>
               PROVE  Frozen(r, u)
    BY DEF Settling, g
  <2>1. i - 1 \in 0..n
    BY <1>1
  <2>2. g[i - 1] = f[i - 1]
    BY <1>2, <2>1
  <2>3. CASE i \in 1..n
    BY <1>1, <2>2, <2>3 DEF Settling, f, n
  <2>4. CASE i = n + 1
    <3>1. i - 1 = n /\ more[i] = e
      BY <1>1, <2>4
    <3> QED  BY <1>3, <2>2, <3>1 DEF a
  <2> QED  BY <1>4, <2>3, <2>4
<1>7. Follows(a, r, e, b)
  <2>1. n + 1 \in Nat
    BY <1>1
  <2>2. Follows(a, r, e, PushesOf(a, r, e, n + 1))
    BY <1>3, <2>1, PushesAre
  <2> QED  BY <1>2, <1>3, <2>2
<1>8. LedgerIs(r, b)
  BY <1>7 DEF a
<1> QED  BY <1>1, <1>5, <1>6, <1>7, <1>8 DEF Books, a, b, more

\* An event that sends nothing up.
LEMMA BooksHear ==
  ASSUME NEW r \in Graph, NEW l, NEW es, Books(r, l, es), NEW e \in EventRecord, Heard(r, e),
         ~Tells(r, e), \A u \in ToSet(Flushed(e)) : Advanced(l, es, r).local[u] = <<>>
  PROVE  /\ Books(r, l, Append(es, e))
         /\ Advanced(l, Append(es, e), r).local = Advanced(l, es, r).local
         /\ Advanced(l, Append(es, e), r).absorbed = Advanced(l, es, r).absorbed
<1> DEFINE a == Advanced(l, es, r)
           F == ToSet(Flushed(e))
<1>1. /\ Ledger(l) /\ es \in Seq(EventRecord) /\ AllHeard(r, es) /\ Settling(r, l, es)
      /\ LedgerIs(r, a)
  BY DEF Books
<1>2. a \in Account
  BY <1>1, AdvancedIs
<1>3. F \subseteq Tickets
  BY FlushedIs DEF ToSet
<1>4. \A u \in F : a.local[u] = <<>>
  OBVIOUS
<1> HIDE DEF a, F
<1>5. ASSUME NEW new, Follows(a, r, e, new)
      PROVE  LedgerIs(r, new) /\ new.local = a.local /\ new.absorbed = a.absorbed
  <2>1. /\ new \in Account
        /\ \A u \in Tickets : new.local[u] = IF u \in F /\ Ids(r, u) # <<>> THEN <<>> ELSE a.local[u]
        /\ new.absorbed = a.absorbed \cup FoldedBy(a, r, F)
    BY <1>5 DEF Follows, F
  <2>2. FoldedBy(a, r, F) = {}
    BY <1>4 DEF FoldedBy, Folding, ToSet
  <2>3. new.local = a.local
    <3>1. new.local \in [Tickets -> Seq(Nat)] /\ a.local \in [Tickets -> Seq(Nat)]
      BY <1>2, <2>1 DEF Account
    <3> QED  BY <1>4, <2>1, <3>1
  <2> QED  BY <1>1, <2>1, <2>2, <2>3, LedgerSame
<1>6. \A u \in F : a.local[u] # <<>> => Frozen(r, u)
  BY <1>4
<1> QED  BY <1>1, <1>5, <1>6, BooksGrow DEF a, F

-----------------------------------------------------------------------------
(* What leaves the books as they are *)

LEMMA FrozenIs ==
  ASSUME NEW r, Sound(r), NEW t \in Tickets
  PROVE  /\ t \in Mine(r) => Frozen(r, t)
         /\ r.tickets[t].status = "merged" => Frozen(r, t)
         /\ t \in Theirs(r) => ~Frozen(r, t) /\ Clean(r.nodes, Ids(r, t))
         /\ t \in Backlog(r) => ~Frozen(r, t)
<1>1. StatusIs(r, t)
  BY DEF Sound
<1> QED  BY <1>1 DEF StatusIs, Frozen, Mine, Theirs, Open, Backlog, Ids

LEMMA SameMoves ==
  ASSUME NEW r, Sound(r), NEW s, Sound(s), s.nodes = r.nodes,
         \A u \in Tickets : Ids(s, u) = Ids(r, u) /\ (Frozen(r, u) => Frozen(s, u))
  PROVE  Moves(r, s)
<1>1. r.nodes \in Seq(GraphNode)
  BY GraphIs DEF Sound
<1>2. GoesOn(r.nodes, s.nodes) /\ \A n \in Broken(s) : ~(n > Len(r.nodes))
  BY <1>1 DEF GoesOn, Broken
<1> QED  BY <1>2 DEF Moves

LEMMA OpenedMoves ==
  ASSUME NEW r, Sound(r), NEW ts, NEW theirs \in BOOLEAN,
         ts \subseteq Backlog(r) \/ (ts = Theirs(r) /\ ~theirs)
  PROVE  Moves(r, OpenedFor(r, ts, theirs))
<1> DEFINE s == OpenedFor(r, ts, theirs)
<1>1. /\ Sound(s) /\ s.nodes = r.nodes
      /\ \A u \in Tickets :
           /\ Ids(s, u) = Ids(r, u)
           /\ s.tickets[u].status = IF u \in ts THEN "open" ELSE r.tickets[u].status
           /\ s.tickets[u].theirs = IF u \in ts THEN theirs ELSE r.tickets[u].theirs
  BY OpenedForIs
<1> HIDE DEF s
<1>2. ASSUME NEW u \in Tickets, Frozen(r, u) PROVE Frozen(s, u)
  <2>1. u \notin ts
    BY <1>2, FrozenIs
  <2> QED  BY <1>1, <1>2, <2>1 DEF Frozen
<1>3. Moves(r, s)
  BY <1>1, <1>2, SameMoves
<1> QED  BY <1>3 DEF s

\* One commit more, that went through.
LEMMA OnceMore ==
  ASSUME NEW r, Sound(r), NEW s, Sound(s), NEW node \in GraphNode, ~node.broken,
         s.nodes = Append(r.nodes, node)
  PROVE  /\ GoesOn(r.nodes, s.nodes) /\ \A n \in Broken(s) : ~(n > Len(r.nodes))
         /\ Len(s.nodes) = Len(r.nodes) + 1 /\ s.nodes[Len(r.nodes) + 1] = node
         /\ Len(r.nodes) \in Nat /\ Len(r.nodes) + 1 \in 1..Len(s.nodes)
<1>1. r.nodes \in Seq(GraphNode)
  BY GraphIs DEF Sound
<1>2. /\ GoesOn(r.nodes, s.nodes) /\ Len(s.nodes) = Len(r.nodes) + 1
      /\ s.nodes[Len(r.nodes) + 1] = node /\ Len(r.nodes) \in Nat
  BY <1>1 DEF GoesOn
<1>3. ASSUME NEW n \in Broken(s), n > Len(r.nodes) PROVE FALSE
  <2>1. n = Len(r.nodes) + 1 /\ s.nodes[n].broken
    BY <1>2, <1>3 DEF Broken
  <2> QED  BY <1>2, <2>1
<1> QED  BY <1>2, <1>3

LEMMA TrunkMoves ==
  ASSUME NEW r, Sound(r), NEW lane \in {Main, Dev},
         NEW what \in {"sprint_start", "sprint_merge", "release"}, NEW parents \in Seq(Nat),
         Sound(OnTrunk(r, what, lane, parents))
  PROVE  LET s == OnTrunk(r, what, lane, parents)
         IN /\ Moves(r, s) /\ Len(s.nodes) = Len(r.nodes) + 1
            /\ s.nodes[Len(r.nodes) + 1].kind = what /\ Len(r.nodes) + 1 \in 1..Len(s.nodes)
<1> DEFINE s == OnTrunk(r, what, lane, parents)
           node == Node(what, lane, parents, NoTicket, FALSE, FALSE)
<1>1. node \in GraphNode /\ ~node.broken /\ node.kind = what
  BY DEF Node, GraphNode, Main, Dev
<1>2. s.nodes = Append(r.nodes, node) /\ s.tickets = r.tickets
  BY DEF OnTrunk, Sound, Graph
<1>3. Sound(s)
  OBVIOUS
<1> HIDE DEF s, node
<1>4. /\ GoesOn(r.nodes, s.nodes) /\ \A n \in Broken(s) : ~(n > Len(r.nodes))
      /\ Len(s.nodes) = Len(r.nodes) + 1 /\ s.nodes[Len(r.nodes) + 1] = node
      /\ Len(r.nodes) + 1 \in 1..Len(s.nodes)
  BY <1>1, <1>2, <1>3, OnceMore
<1>5. Moves(r, s)
  BY <1>2, <1>3, <1>4 DEF Moves, Frozen, Ids
<1> QED  BY <1>1, <1>4, <1>5 DEF s

LEMMA SpawnedIds ==
  ASSUME NEW r, Sound(r), NEW o \in Tickets, NEW u \in Tickets
  PROVE  LET s == Spawned(r, o)
         IN /\ Ids(s, u) = Ids(r, u)
            /\ u # o => s.tickets[u] = r.tickets[u]
<1>1. r.tickets \in [Tickets -> GraphTicket] /\ r.tickets[u] \in GraphTicket /\ r \in Graph
  BY GraphIs DEF Sound
<1> DEFINE new == r.tickets[Parent(o)].theirs
           all == [r.tickets EXCEPT ![o].status = "open", ![o].theirs = new]
<1>2. Spawned(r, o).tickets = all
  BY <1>1 DEF Spawned, Graph
<1>3. all[u] = IF u = o THEN [r.tickets[u] EXCEPT !.status = "open", !.theirs = new] ELSE r.tickets[u]
  BY <1>1
<1>4. all[u].ids = r.tickets[u].ids
  BY <1>1, <1>3 DEF GraphTicket
<1> HIDE DEF all
<1> QED  BY <1>2, <1>3, <1>4 DEF Ids

LEMMA OutcomesMove ==
  ASSUME NEW r, Sound(r), NEW t \in Open(r), Works(r.nodes, Ids(r, t)), NEW s \in Outcomes(r, t)
  PROVE  /\ Moves(r, s) /\ s.nodes = r.nodes /\ \A u \in Tickets : Ids(s, u) = Ids(r, u)
<1>1. Sound(s) /\ s.nodes = r.nodes
  BY OutcomesAdvance DEF Advances
<1>2. t \in Tickets /\ r.tickets[t].done \in BOOLEAN
  BY GraphIs DEF Open, Sound, GraphTicket
<1>3. PICK full \in BOOLEAN : s = Filled(r, t, full)
                              \/ \E o \in Spawns(r, t) : s = Spawned(Filled(r, t, full), o)
  <2>1. \A f \in Fillings(r, t) : \E full \in BOOLEAN : f = Filled(r, t, full)
    BY <1>2 DEF Fillings
  <2>2. s \in Fillings(r, t) \/ \E f \in Fillings(r, t), o \in Spawns(r, t) : s = Spawned(f, o)
    BY DEF Outcomes
  <2>3. CASE s \in Fillings(r, t)
    BY <2>1, <2>3
  <2>4. CASE s \notin Fillings(r, t)
    <3>1. PICK f \in Fillings(r, t), o \in Spawns(r, t) : s = Spawned(f, o)
      BY <2>2, <2>4
    <3>2. PICK full \in BOOLEAN : f = Filled(r, t, full)
      BY <2>1
    <3> QED  BY <3>1, <3>2
  <2> QED  BY <2>3, <2>4
<1>4. full => r.tickets[t].done \/ Works(r.nodes, Ids(r, t))
  OBVIOUS
<1> DEFINE m == Filled(r, t, full)
<1>5. /\ Sound(m)
      /\ \A u \in Tickets : /\ m.tickets[u].status = r.tickets[u].status
                            /\ m.tickets[u].theirs = r.tickets[u].theirs
                            /\ Ids(m, u) = Ids(r, u)
  BY <1>4, FilledAdvances DEF Advances
<1> HIDE DEF m
<1>6. ASSUME NEW u \in Tickets PROVE Ids(s, u) = Ids(r, u) /\ (Frozen(r, u) => Frozen(s, u))
  <2>1. CASE s = m
    BY <1>5, <2>1 DEF Frozen
  <2>2. CASE \E o \in Spawns(r, t) : s = Spawned(m, o)
    <3>1. PICK o \in Spawns(r, t) : s = Spawned(m, o)
      BY <2>2
    <3>2. o \in Tickets /\ r.tickets[o].status = "none"
      BY DEF Spawns
    <3>3. Ids(s, u) = Ids(m, u) /\ (u # o => s.tickets[u] = m.tickets[u])
      BY <1>5, <3>1, <3>2, SpawnedIds
    <3>4. Frozen(r, u) => u # o
      BY <3>2 DEF Frozen
    <3> QED  BY <1>5, <3>3, <3>4 DEF Frozen
  <2> QED  BY <1>3, <2>1, <2>2 DEF m
<1> QED  BY <1>1, <1>6, SameMoves

\* The merge of a feature, on dev.
LEMMA FeatureIs ==
  ASSUME NEW r, Sound(r), NEW t \in Open(r), ~IsObstacle(t), Works(r.nodes, Ids(r, t)),
         Obstacles(r, t) = {}, NEW theirs \in BOOLEAN
  PROVE  LET s == FeatureLanded(r, t, theirs)
             new == Len(r.nodes) + 1
         IN /\ Sound(s) /\ GoesOn(r.nodes, s.nodes) /\ \A n \in Broken(s) : ~(n > Len(r.nodes))
            /\ Len(s.nodes) = new /\ new \in 1..Len(s.nodes)
            /\ s.nodes[new].kind = "feature_merge"
            /\ Ids(s, t) = Working(r, Ids(r, t)) /\ s.tickets[t].status = "merged"
            /\ \A u \in Tickets : u # t => s.tickets[u] = r.tickets[u]
<1> DEFINE s == FeatureLanded(r, t, theirs)
           p == Pushed(r, t)
           node == Node("feature_merge", Dev, <<Last(p.tickets[t].ids), TipOfLane(r, Dev)>>, t,
                        FALSE, theirs)
<1>1. t \in Tickets /\ r.nodes \in Seq(GraphNode) /\ Rooted(r.nodes) /\ r \in Graph
  BY GraphIs DEF Sound, Open
<1>2. Sound(s) /\ s.tickets[t].status = "merged"
  BY FeatureAdvances DEF Advances
<1>3. s.tickets = [p.tickets EXCEPT ![t] = Merged(p.tickets[t])]
  BY FeatureLandedIs
<1>4. p \in Graph /\ p.nodes = r.nodes /\ Ids(p, t) = Working(r, Ids(r, t))
      /\ p.tickets \in [Tickets -> GraphTicket]
      /\ \A u \in Tickets : u # t => p.tickets[u] = r.tickets[u]
  <2>1. p \in Graph /\ p.nodes = r.nodes
    BY <1>1, PushedIs
  <2>2. /\ Ids(p, t) = Working(r, Ids(r, t))
        /\ \A u \in Tickets : u # t => p.tickets[u] = r.tickets[u]
    BY <1>1, PushedFields
  <2> HIDE DEF p
  <2> QED  BY <2>1, <2>2, GraphIs
<1>5. node \in GraphNode /\ ~node.broken /\ node.kind = "feature_merge"
  <2>1. Last(Ids(p, t)) \in 1..Len(r.nodes)
    BY FeatureLandedIs
  <2>2. TipOfLane(r, Dev) \in 1..Len(r.nodes)
    BY <1>1, TipIs
  <2>3. <<Last(p.tickets[t].ids), TipOfLane(r, Dev)>> \in Seq(Nat)
    <3> HIDE DEF p
    <3> QED  BY <1>1, <2>1, <2>2 DEF Ids
  <2> QED  BY <1>1, <2>3 DEF Node, GraphNode, Dev
<1>6. s.nodes = Append(r.nodes, node)
  <2>1. s = [p EXCEPT !.nodes = Append(@, node), !.tickets[t].status = "merged",
                      !.tickets[t].lane = NoLane, !.tickets[t].theirs = FALSE]
    BY DEF FeatureLanded
  <2> HIDE DEF p, s, node
  <2> QED  BY <1>4, <2>1 DEF Graph
<1> HIDE DEF s, p, node
<1>7. /\ GoesOn(r.nodes, s.nodes) /\ \A n \in Broken(s) : ~(n > Len(r.nodes))
      /\ Len(s.nodes) = Len(r.nodes) + 1 /\ s.nodes[Len(r.nodes) + 1] = node
      /\ Len(r.nodes) + 1 \in 1..Len(s.nodes)
  BY <1>2, <1>5, <1>6, OnceMore
<1>8. Ids(s, t) = Working(r, Ids(r, t)) /\ \A u \in Tickets : u # t => s.tickets[u] = r.tickets[u]
  BY <1>1, <1>3, <1>4, MergedIs DEF Ids
<1> QED  BY <1>2, <1>5, <1>7, <1>8 DEF s

\* The merge of an obstacle, on the branch of its feature.
LEMMA ObstacleIs ==
  ASSUME NEW r, Sound(r), NEW t \in Open(r), IsObstacle(t), Works(r.nodes, Ids(r, t)),
         NEW theirs \in BOOLEAN
  PROVE  LET s == ObstacleLanded(r, t, theirs)
             q == Parent(t)
             new == Len(r.nodes) + 1
         IN /\ Sound(s) /\ GoesOn(r.nodes, s.nodes) /\ \A n \in Broken(s) : ~(n > Len(r.nodes))
            /\ Len(s.nodes) = new /\ new \in 1..Len(s.nodes)
            /\ s.nodes[new].kind = "obstacle_merge" /\ ~s.nodes[new].broken
            /\ q \in Open(r) /\ q # t /\ ~IsObstacle(q) /\ q \in Tickets
            /\ Ids(s, t) = Working(r, Ids(r, t)) /\ s.tickets[t].status = "merged"
            /\ Ids(s, q) = Append(Working(r, Ids(r, q)), new)
            /\ s.tickets[q].status = r.tickets[q].status
            /\ s.tickets[q].theirs = r.tickets[q].theirs
            /\ \A u \in Tickets : u \notin {t, q} => s.tickets[u] = r.tickets[u]
<1> DEFINE s == ObstacleLanded(r, t, theirs)
           q == Parent(t)
           m == Pushed(r, t)
           p == Pushed(m, q)
           new == Len(r.nodes) + 1
           node == Node("obstacle_merge", r.tickets[q].lane, <<Last(Ids(p, q)), Last(Ids(p, t))>>,
                        q, FALSE, theirs)
<1>1. t \in Tickets
  BY DEF Open
<1>2. Sound(s) /\ s.tickets[t].status = "merged"
  BY ObstacleAdvances DEF Advances
<1>3. /\ q \in Open(r) /\ q # t /\ ~IsObstacle(q) /\ q \in Tickets /\ p \in Graph /\ p.nodes = r.nodes
      /\ \A u \in Tickets : u \notin {t, q} => p.tickets[u] = r.tickets[u]
      /\ \A u \in Tickets : p.tickets[u].status = r.tickets[u].status
                            /\ p.tickets[u].theirs = r.tickets[u].theirs
  BY BothPushed
<1>4. /\ s.nodes = Append(r.nodes, node) /\ node \in GraphNode
      /\ s.tickets[t] = Merged(p.tickets[t])
      /\ s.tickets[q].ids = Append(Ids(p, q), new)
      /\ s.tickets[q].status = p.tickets[q].status /\ s.tickets[q].theirs = p.tickets[q].theirs
      /\ \A u \in Tickets : u \notin {t, q} => s.tickets[u] = p.tickets[u]
  BY <1>1, <1>3, ObstacleLandedIs
<1>5. ~node.broken /\ node.kind = "obstacle_merge"
  BY DEF Node
<1>6. Sound(m) /\ m.nodes = r.nodes /\ Ids(m, t) = Working(r, Ids(r, t)) /\ Ids(m, q) = Ids(r, q)
  BY <1>1, <1>3, PushedSound, PushedIs, PushedFields
<1>7. Ids(p, t) = Ids(m, t) /\ Ids(p, q) = Working(m, Ids(m, q)) /\ p.tickets[t] \in GraphTicket
  <2>1. Ids(p, t) = Ids(m, t) /\ Ids(p, q) = Working(m, Ids(m, q))
    <3> HIDE DEF m, q
    <3> QED  BY <1>1, <1>3, <1>6, PushedFields
  <2> QED  BY <1>1, <1>3, <2>1, GraphIs
<1>8. Working(m, Ids(m, q)) = Working(r, Ids(r, q))
  BY <1>6 DEF Working
<1>9. /\ GoesOn(r.nodes, s.nodes) /\ \A n \in Broken(s) : ~(n > Len(r.nodes))
      /\ Len(s.nodes) = new /\ s.nodes[new] = node /\ new \in 1..Len(s.nodes)
  <2> HIDE DEF s, node
  <2> QED  BY <1>2, <1>4, <1>5, OnceMore
<1> HIDE DEF s, q, m, p, node
<1>10. Ids(s, t) = Working(r, Ids(r, t)) /\ Ids(s, q) = Append(Working(r, Ids(r, q)), new)
  BY <1>4, <1>6, <1>7, <1>8, MergedIs DEF Ids
<1> QED  BY <1>2, <1>3, <1>4, <1>5, <1>9, <1>10 DEF s, q

-----------------------------------------------------------------------------
(* The team, the clock and the books *)

LEMMA ConcatMore ==
  ASSUME NEW S, NEW p \in Seq(S), NEW q \in Seq(S), NEW c \in S
  PROVE  p \o Append(q, c) = Append(p \o q, c)
<1> DEFINE x == p \o Append(q, c)
           y == Append(p \o q, c)
<1>1. x \in Seq(S) /\ y \in Seq(S) /\ Len(x) = Len(y)
  OBVIOUS
<1>2. \A i \in 1..Len(x) : x[i] = y[i]
  OBVIOUS
<1> HIDE DEF x, y
<1>3. x = y
  BY <1>1, <1>2, SeqEqual
<1> QED  BY <1>3 DEF x, y

LEMMA OneEventMore ==
  ASSUME NEW es \in Seq(EventRecord), NEW a \in EventRecord, NEW b \in EventRecord,
         NEW c \in EventRecord
  PROVE  /\ es \o <<>> = es /\ es \o <<a>> = Append(es, a)
         /\ es \o <<a, b>> = Append(Append(es, a), b)
         /\ es \o (<<a>> \o <<>>) = Append(es, a)
         /\ es \o (<<a>> \o <<b, c>>) = Append(Append(Append(es, a), b), c)
         /\ <<a>> \in Seq(EventRecord) /\ <<>> \in Seq(EventRecord)
         /\ Append(es, a) \in Seq(EventRecord) /\ <<a>> = Append(<<>>, a)
<1>1. es \o <<>> = es /\ es \o <<a>> = Append(es, a)
  OBVIOUS
<1>2. <<a>> \in Seq(EventRecord) /\ <<>> \in Seq(EventRecord) /\ <<b>> \in Seq(EventRecord)
      /\ Append(es, a) \in Seq(EventRecord)
  OBVIOUS
<1>3. <<a, b>> = Append(<<a>>, b) /\ <<b, c>> = Append(<<b>>, c)
  <2>1. <<a, b>> = Append(<<a>>, b)
    OBVIOUS
  <2>2. <<b, c>> = Append(<<b>>, c)
    OBVIOUS
  <2> QED  BY <2>1, <2>2
<1>4. <<a>> \o <<>> = <<a>> /\ <<a>> \o <<b>> = Append(<<a>>, b)
      /\ Append(<<a>>, b) \in Seq(EventRecord)
  BY <1>2
<1>5. es \o <<a, b>> = Append(es \o <<a>>, b)
  BY <1>2, <1>3, ConcatMore
<1>6. <<a>> \o <<b, c>> = Append(Append(<<a>>, b), c)
  BY <1>2, <1>3, <1>4, ConcatMore
<1>7. es \o Append(Append(<<a>>, b), c) = Append(es \o Append(<<a>>, b), c)
  BY <1>4, ConcatMore
<1>8. <<a>> = Append(<<>>, a)
  OBVIOUS
<1> QED  BY <1>1, <1>2, <1>3, <1>4, <1>5, <1>6, <1>7, <1>8

LEMMA EventIs ==
  ASSUME NEW n \in Nat, NEW t \in Tickets,
         NEW type \in {"checkout", "pr_reviewed", "ticket_merged", "obstacle_cleared"}
  PROVE  /\ NodeDone(n) \in EventRecord /\ NodeDone(n).type = "node_done" /\ NodeDone(n).node = n
         /\ Event(type, t) \in EventRecord /\ Event(type, t).type = type
         /\ Event(type, t).ticket = t /\ ~Event(type, t).colleague
         /\ ColleaguesCost \in EventRecord /\ ColleaguesCost.type = "energy"
<1>1. NodeDone(n) \in EventRecord /\ NodeDone(n).type = "node_done" /\ NodeDone(n).node = n
  BY DEF NodeDone, Event, EventRecord
<1>2. ColleaguesCost \in EventRecord /\ ColleaguesCost.type = "energy"
  BY DEF ColleaguesCost, Event, EventRecord
<1>3. Event(type, t) = [type |-> type, node |-> 0, ticket |-> t, colleague |-> FALSE]
  BY DEF Event
<1> QED  BY <1>1, <1>2, <1>3 DEF EventRecord

\* A commit that is not the player's own.
LEMMA NodeBooks ==
  ASSUME NEW r \in Graph, NEW l, NEW es, Books(r, l, es), NEW n \in 1..Len(r.nodes),
         r.nodes[n].kind # "commit" \/ r.nodes[n].theirs
  PROVE  Books(r, l, Append(es, NodeDone(n)))
<1> DEFINE e == NodeDone(n)
<1>1. e \in EventRecord /\ e.type = "node_done" /\ e.node = n
  <2>1. n \in Nat
    OBVIOUS
  <2> QED  BY <2>1 DEF NodeDone, Event, EventRecord
<1> HIDE DEF e
<1>2. ~BornLocal(r, e.node)
  BY <1>1 DEF BornLocal
<1>3. Heard(r, e) /\ ~Tells(r, e)
  BY <1>1, <1>2 DEF Heard, Tells
<1>4. ToSet(Flushed(e)) = {}
  BY <1>1, <1>3, FlushedIs
<1>5. Books(r, l, Append(es, e))
  BY <1>1, <1>3, <1>4, BooksHear
<1> QED  BY <1>5 DEF e

\* An event that sends up branches where nothing broke.
LEMMA CleanBooks ==
  ASSUME NEW r, Sound(r), NEW l, NEW es, Books(r, l, es), NEW e \in EventRecord, Heard(r, e),
         e.type # "node_done", \A u \in ToSet(Flushed(e)) : Clean(r.nodes, Ids(r, u))
  PROVE  Books(r, l, Append(es, e))
<1>1. ~Tells(r, e) /\ r \in Graph
  BY DEF Tells, Sound
<1>2. ToSet(Flushed(e)) \subseteq Tickets
  BY FlushedIs DEF ToSet
<1>3. Ledger(Advanced(l, es, r)) /\ LedgerIs(r, Advanced(l, es, r))
  BY <1>1, AdvancedIs DEF Books
<1>4. ASSUME NEW u \in ToSet(Flushed(e)) PROVE Advanced(l, es, r).local[u] = <<>>
  BY <1>2, <1>3, LocalIs
<1> QED  BY <1>1, <1>4, BooksHear

\* The obstacles of a feature that has none open.
LEMMA ChildClean ==
  ASSUME NEW r, Sound(r), NEW t \in Tickets, Obstacles(r, t) = {}, NEW u \in Tickets,
         IsObstacle(u), Parent(u) = t, ~IsObstacle(t)
  PROVE  Clean(r.nodes, Ids(r, u)) /\ r.tickets[u].status # "open"
<1>1. u # t /\ StatusIs(r, u) /\ r.tickets[u] \in GraphTicket
  BY GraphIs DEF Sound
<1>2. u \notin Open(r)
  BY <1>1 DEF Obstacles
<1>3. r.tickets[u].status # "open"
  BY <1>2 DEF Open
<1>4. r.tickets[u].status \in {"none", "backlog", "merged"}
  BY <1>1, <1>3 DEF GraphTicket
<1>5. Ids(r, u) = <<>> \/ Clean(r.nodes, Ids(r, u))
  BY <1>1, <1>4 DEF StatusIs, Ids
<1> QED  BY <1>3, <1>5 DEF Clean

LEMMA CleanAppend ==
  ASSUME NEW ns, NEW ids \in Seq(Nat), Clean(ns, ids), NEW n \in Nat, ~ns[n].broken
  PROVE  Clean(ns, Append(ids, n))
<1> DEFINE more == Append(ids, n)
<1>1. Len(more) = Len(ids) + 1 /\ Len(ids) \in Nat /\ more[Len(ids) + 1] = n
      /\ \A i \in 1..Len(ids) : more[i] = ids[i]
  OBVIOUS
<1> HIDE DEF more
<1>2. ASSUME NEW i \in 1..Len(more) PROVE ~ns[more[i]].broken
  <2>1. i \in 1..Len(ids) \/ i = Len(ids) + 1
    BY <1>1
  <2> QED  BY <1>1, <2>1 DEF Clean
<1> QED  BY <1>2 DEF Clean, more

\* The team writes.
LEMMA TeamCommits ==
  ASSUME NEW r, Sound(r), NEW t \in Theirs(r), NEW l, NEW es, Books(r, l, es)
  PROVE  LET s == Commit(r, t, FALSE, TRUE)
         IN /\ Moves(r, s) /\ t \in Theirs(s) /\ Works(s.nodes, Ids(s, t))
            /\ Len(s.nodes) = Len(r.nodes) + 1 /\ s.nodes[New(s)].theirs
            /\ Books(s, l, Append(es, NodeDone(New(s))))
<1> DEFINE s == Commit(r, t, FALSE, TRUE)
           node == Written(r, t, FALSE, TRUE)
           new == Len(r.nodes) + 1
<1>1. /\ t \in Open(r) /\ t \in Tickets /\ r.tickets[t].theirs /\ Clean(r.nodes, Ids(r, t))
      /\ ~Frozen(r, t) /\ r.tickets[t].status = "open"
  <2>1. t \in Tickets /\ r.tickets[t].status = "open" /\ r.tickets[t].theirs
    BY DEF Theirs, Mine, Open
  <2> QED  BY <2>1, FrozenIs DEF Open
<1>2. /\ s \in Graph /\ node \in GraphNode /\ s.nodes = Append(r.nodes, node)
      /\ s.tickets = [r.tickets EXCEPT ![t] = WrittenOn(r, t)]
  BY <1>1, CommitIs
<1>3. ~node.broken /\ node.theirs
  BY DEF Written, Node
<1>4. Sound(s) /\ Works(s.nodes, Ids(s, t))
  BY <1>1, CommitSound
<1>5. ASSUME NEW u \in Tickets
      PROVE  /\ s.tickets[u].status = r.tickets[u].status
             /\ s.tickets[u].theirs = r.tickets[u].theirs
             /\ Ids(s, u) = IF u = t THEN Append(Ids(r, t), new) ELSE Ids(r, u)
  <2>1. /\ r.tickets[u] \in GraphTicket /\ r.tickets \in [Tickets -> GraphTicket]
    BY GraphIs DEF Sound
  <2> HIDE DEF s
  <2>2. s.tickets[u] = IF u = t THEN WrittenOn(r, t) ELSE r.tickets[u]
    BY <1>2, <2>1
  <2> QED  BY <2>1, <2>2 DEF WrittenOn, GraphTicket, Ids
<1> HIDE DEF s, node
<1>6. /\ GoesOn(r.nodes, s.nodes) /\ \A n \in Broken(s) : ~(n > Len(r.nodes))
      /\ Len(s.nodes) = new /\ s.nodes[new] = node /\ new \in 1..Len(s.nodes) /\ new \in Nat
  <2>1. /\ GoesOn(r.nodes, s.nodes) /\ \A n \in Broken(s) : ~(n > Len(r.nodes))
        /\ Len(s.nodes) = new /\ s.nodes[new] = node /\ new \in 1..Len(s.nodes)
        /\ Len(r.nodes) \in Nat
    BY <1>2, <1>3, <1>4, OnceMore
  <2> QED  BY <2>1
<1>7. Ids(r, t) \in Seq(Nat)
  BY <1>1, GraphIs DEF Sound
<1>8. Clean(s.nodes, Ids(s, t)) /\ ToSet(Ids(r, t)) \subseteq ToSet(Ids(s, t))
  <2>1. Clean(s.nodes, Ids(r, t))
    BY <1>1, <1>4, <1>6, CleanStays
  <2>2. Ids(s, t) = Append(Ids(r, t), new) /\ ~s.nodes[new].broken
    BY <1>1, <1>3, <1>5, <1>6
  <2>3. Clean(s.nodes, Append(Ids(r, t), new))
    BY <1>6, <1>7, <2>1, <2>2, CleanAppend
  <2>4. ToSet(Append(Ids(r, t), new)) = ToSet(Ids(r, t)) \cup {new}
    BY <1>6, <1>7, OneMoreMember
  <2> QED  BY <2>2, <2>3, <2>4
<1>9. Moves(r, s)
  <2> SUFFICES ASSUME NEW u \in Tickets
               PROVE  /\ Frozen(r, u) => Frozen(s, u) /\ Ids(s, u) = Ids(r, u)
                      /\ \/ Ids(s, u) = Ids(r, u)
                         \/ /\ Clean(r.nodes, Ids(r, u)) /\ Clean(s.nodes, Ids(s, u))
                            /\ ToSet(Ids(r, u)) \subseteq ToSet(Ids(s, u))
    BY <1>4, <1>6 DEF Moves
  <2>1. CASE u = t
    BY <1>1, <1>8, <2>1
  <2>2. CASE u # t
    BY <1>5, <2>2 DEF Frozen
  <2> QED  BY <2>1, <2>2
<1>10. t \in Theirs(s)
  BY <1>1, <1>5 DEF Theirs, Mine, Open
<1>11. Books(s, l, es)
  BY <1>9, BooksMove
<1>12. Books(s, l, Append(es, NodeDone(New(s))))
  BY <1>2, <1>3, <1>6, <1>11, NodeBooks DEF New
<1> QED  BY <1>2, <1>3, <1>4, <1>6, <1>9, <1>10, <1>12 DEF s, New

\* A full ticket of the team lands.
LEMMA LandedMoves ==
  ASSUME NEW r, Sound(r), NEW t \in Theirs(r), Ready(r, t)
  PROVE  LET s == TeamLanded(r, t)
             new == Len(r.nodes) + 1
             e == Event(IF IsObstacle(t) THEN "obstacle_cleared" ELSE "ticket_merged", t)
         IN /\ LandedEvents(r, t) = <<e, NodeDone(new)>>
            /\ Moves(r, s) /\ Len(s.nodes) = new /\ new \in 1..Len(s.nodes)
            /\ s.nodes[new].kind # "commit"
            /\ e \in EventRecord /\ e.type # "node_done" /\ ~e.colleague /\ Heard(s, e)
            /\ \A u \in ToSet(Flushed(e)) : Clean(s.nodes, Ids(s, u))
            /\ NodeDone(new) \in EventRecord
<1>1. /\ t \in Open(r) /\ t \in Tickets /\ r.tickets[t].theirs /\ Clean(r.nodes, Ids(r, t))
      /\ ~Frozen(r, t) /\ r.tickets[t].status = "open"
  <2>1. t \in Tickets /\ r.tickets[t].status = "open" /\ r.tickets[t].theirs
    BY DEF Theirs, Mine, Open
  <2> QED  BY <2>1, FrozenIs DEF Open
<1>3. CASE ~IsObstacle(t)
  <2> DEFINE s == FeatureLanded(r, t, TRUE)
             new == Len(r.nodes) + 1
             e == Event("ticket_merged", t)
  <2>1. Works(r.nodes, Ids(r, t)) /\ Obstacles(r, t) = {}
    BY <1>1, <1>3, ReadyIs
  <2>2. /\ Sound(s) /\ GoesOn(r.nodes, s.nodes) /\ \A n \in Broken(s) : ~(n > Len(r.nodes))
        /\ Len(s.nodes) = new /\ new \in 1..Len(s.nodes) /\ s.nodes[new].kind = "feature_merge"
        /\ Ids(s, t) = Working(r, Ids(r, t)) /\ s.tickets[t].status = "merged"
        /\ \A u \in Tickets : u # t => s.tickets[u] = r.tickets[u]
    BY <1>1, <1>3, <2>1, FeatureIs
  <2>3. TeamLanded(r, t) = s /\ LandedEvents(r, t) = <<e, NodeDone(new)>>
    BY <1>3 DEF TeamLanded, LandedEvents, New
  <2>4. /\ e \in EventRecord /\ e.type = "ticket_merged" /\ e.ticket = t /\ ~e.colleague
        /\ NodeDone(new) \in EventRecord
    BY <1>1, <2>2, EventIs
  <2> HIDE DEF s, e, new
  <2>5. Working(r, Ids(r, t)) = Ids(r, t)
    BY <1>1, WorkingChain, GraphIs DEF Sound
  <2>6. Moves(r, s)
    <3> SUFFICES ASSUME NEW u \in Tickets
                 PROVE  /\ Ids(s, u) = Ids(r, u)
                        /\ Frozen(r, u) => Frozen(s, u)
      BY <2>2 DEF Moves
    <3> QED  BY <1>1, <2>2, <2>5 DEF Frozen, Ids
  <2>8. Heard(s, e)
    BY <1>1, <1>3, <2>4 DEF Heard
  <2>9. ASSUME NEW u \in ToSet(Flushed(e)) PROVE Clean(s.nodes, Ids(s, u))
    <3>1. u \in Tickets /\ (u = t \/ (IsObstacle(u) /\ Parent(u) = t))
      BY <2>4, <2>8, FlushedIs DEF ToSet
    <3>2. Clean(r.nodes, Ids(r, u))
      BY <1>1, <1>3, <2>1, <3>1, ChildClean
    <3>3. Ids(s, u) = Ids(r, u)
      BY <2>2, <2>5, <3>1 DEF Ids
    <3> QED  BY <2>2, <3>1, <3>2, <3>3, CleanStays
  <2>10. e = Event(IF IsObstacle(t) THEN "obstacle_cleared" ELSE "ticket_merged", t)
    BY <1>3 DEF e
  <2> QED  BY <2>2, <2>3, <2>4, <2>6, <2>8, <2>9, <2>10 DEF new
<1>4. CASE IsObstacle(t)
  <2> DEFINE s == ObstacleLanded(r, t, TRUE)
             q == Parent(t)
             new == Len(r.nodes) + 1
             e == Event("obstacle_cleared", t)
  <2>1. Works(r.nodes, Ids(r, t))
    BY <1>1, <1>4, ReadyIs
  <2>2. /\ Sound(s) /\ GoesOn(r.nodes, s.nodes) /\ \A n \in Broken(s) : ~(n > Len(r.nodes))
        /\ Len(s.nodes) = new /\ new \in 1..Len(s.nodes)
        /\ s.nodes[new].kind = "obstacle_merge" /\ ~s.nodes[new].broken
        /\ q \in Open(r) /\ q # t /\ q \in Tickets
        /\ Ids(s, t) = Working(r, Ids(r, t)) /\ s.tickets[t].status = "merged"
        /\ Ids(s, q) = Append(Working(r, Ids(r, q)), new)
        /\ \A u \in Tickets : u \notin {t, q} => s.tickets[u] = r.tickets[u]
    BY <1>1, <1>4, <2>1, ObstacleIs
  <2>3. TeamLanded(r, t) = s /\ LandedEvents(r, t) = <<e, NodeDone(new)>>
    BY <1>4 DEF TeamLanded, LandedEvents, New
  <2>4. /\ e \in EventRecord /\ e.type = "obstacle_cleared" /\ e.ticket = t /\ ~e.colleague
        /\ NodeDone(new) \in EventRecord /\ new \in Nat
    <3>1. new \in Nat
      BY <2>2
    <3> QED  BY <1>1, <3>1, EventIs
  <2> HIDE DEF s, e, new
  <2>a. r.tickets[q].theirs /\ Clean(r.nodes, Ids(r, q)) /\ ~Frozen(r, q)
    <3>1. StatusIs(r, t) /\ StatusIs(r, q)
      BY <1>1, <2>2 DEF Sound
    <3>2. r.tickets[q].theirs
      BY <1>1, <3>1 DEF StatusIs
    <3> QED  BY <3>1, <3>2 DEF StatusIs, Frozen, Ids
  <2>5. Working(r, Ids(r, t)) = Ids(r, t) /\ Working(r, Ids(r, q)) = Ids(r, q)
    <3>1. r.nodes \in Seq(GraphNode) /\ \A u \in Tickets : Ids(r, u) \in Seq(Nat)
                                                         /\ Chain(r.nodes, u, Ids(r, u))
      BY GraphIs DEF Sound
    <3>2. Working(r, Ids(r, t)) = Ids(r, t)
      BY <1>1, <3>1, WorkingChain
    <3>3. Working(r, Ids(r, q)) = Ids(r, q)
      BY <2>2, <2>a, <3>1, WorkingChain
    <3> QED  BY <3>2, <3>3
  <2>b. Clean(s.nodes, Ids(s, q)) /\ ToSet(Ids(r, q)) \subseteq ToSet(Ids(s, q))
    <3>1. Clean(s.nodes, Ids(r, q)) /\ Ids(r, q) \in Seq(Nat)
      BY <2>2, <2>a, CleanStays, GraphIs DEF Sound
    <3>2. Clean(s.nodes, Append(Ids(r, q), new))
      BY <2>2, <2>4, <3>1, CleanAppend
    <3>3. ToSet(Append(Ids(r, q), new)) = ToSet(Ids(r, q)) \cup {new}
      BY <2>4, <3>1, OneMoreMember
    <3> QED  BY <2>2, <2>5, <3>2, <3>3
  <2>6. Moves(r, s)
    <3> SUFFICES ASSUME NEW u \in Tickets
                 PROVE  /\ Frozen(r, u) => Frozen(s, u) /\ Ids(s, u) = Ids(r, u)
                        /\ \/ Ids(s, u) = Ids(r, u)
                           \/ /\ Clean(r.nodes, Ids(r, u)) /\ Clean(s.nodes, Ids(s, u))
                              /\ ToSet(Ids(r, u)) \subseteq ToSet(Ids(s, u))
      BY <2>2 DEF Moves
    <3>1. CASE u = q
      BY <2>a, <2>b, <3>1
    <3>2. CASE u # q
      BY <1>1, <2>2, <2>5, <3>2 DEF Frozen, Ids
    <3> QED  BY <3>1, <3>2
  <2>8. Heard(s, e)
    BY <1>1, <2>4 DEF Heard
  <2>9. ASSUME NEW u \in ToSet(Flushed(e)) PROVE Clean(s.nodes, Ids(s, u))
    <3>1. u \in {t, q}
      BY <2>4, <2>8, FlushedIs
    <3>2. Clean(s.nodes, Ids(s, t))
      BY <1>1, <2>2, <2>5, CleanStays
    <3> QED  BY <2>b, <3>1, <3>2
  <2>10. e = Event(IF IsObstacle(t) THEN "obstacle_cleared" ELSE "ticket_merged", t)
    BY <1>4 DEF e
  <2> QED  BY <2>2, <2>3, <2>4, <2>6, <2>8, <2>9, <2>10 DEF new
<1> QED  BY <1>3, <1>4

LEMMA LandedBooks ==
  ASSUME NEW r, Sound(r), NEW t \in Theirs(r), NEW l, NEW es, Books(r, l, es)
  PROVE  Moves(r, TeamLanded(r, t)) /\ Books(TeamLanded(r, t), l, es \o LandedEvents(r, t))
<1>1. es \in Seq(EventRecord)
  BY DEF Books
<1>2. CASE ~Ready(r, t)
  <2>1. TeamLanded(r, t) = r /\ LandedEvents(r, t) = <<>>
    BY <1>2 DEF TeamLanded, LandedEvents
  <2>2. es \o <<>> = es
    BY <1>1
  <2>3. Moves(r, r)
    BY SameMoves
  <2> QED  BY <2>1, <2>2, <2>3
<1>3. CASE Ready(r, t)
  <2> DEFINE s == TeamLanded(r, t)
             new == Len(r.nodes) + 1
             e == Event(IF IsObstacle(t) THEN "obstacle_cleared" ELSE "ticket_merged", t)
  <2>1. /\ LandedEvents(r, t) = <<e, NodeDone(new)>>
        /\ Moves(r, s) /\ new \in 1..Len(s.nodes) /\ s.nodes[new].kind # "commit"
        /\ e \in EventRecord /\ e.type # "node_done" /\ Heard(s, e)
        /\ \A u \in ToSet(Flushed(e)) : Clean(s.nodes, Ids(s, u))
        /\ NodeDone(new) \in EventRecord
    BY <1>3, LandedMoves
  <2> HIDE DEF s, e, new
  <2>2. Sound(s) /\ s \in Graph /\ Books(s, l, es)
    BY <2>1, BooksMove DEF Moves, Sound
  <2>3. Books(s, l, Append(es, e))
    BY <2>1, <2>2, CleanBooks
  <2>4. Books(s, l, Append(Append(es, e), NodeDone(new)))
    BY <2>1, <2>2, <2>3, NodeBooks
  <2>5. es \o <<e, NodeDone(new)>> = Append(Append(es, e), NodeDone(new))
    BY <1>1, <2>1, OneEventMore
  <2> QED  BY <2>1, <2>4, <2>5 DEF s
<1> QED  BY <1>2, <1>3

LEMMA LandedAfter ==
  ASSUME NEW r, NEW t \in Tickets, NEW es \in Seq(EventRecord), New(r) \in Nat
  PROVE  LET a == NodeDone(New(r))
         IN es \o (<<a>> \o LandedEvents(r, t)) = Append(es, a) \o LandedEvents(r, t)
<1> DEFINE n == New(r)
           c == NodeDone(n)
           next == Append(es, c)
           more == LandedEvents(r, t)
<1>1. n \in Nat /\ c \in EventRecord
  BY DEF NodeDone, Event, EventRecord
<1>2. CASE ~Ready(r, t)
  <2>1. more = <<>>
    BY <1>2 DEF LandedEvents
  <2> HIDE DEF n, more, c
  <2>2. next \in Seq(EventRecord) /\ next \o <<>> = next
    BY <1>1
  <2> QED  BY <1>1, <2>1, <2>2, OneEventMore DEF more, c, n
<1>3. CASE Ready(r, t)
  <2> DEFINE a == Event(IF IsObstacle(t) THEN "obstacle_cleared" ELSE "ticket_merged", t)
             b == NodeDone(n + 1)
  <2>1. more = <<a, b>>
    BY <1>3 DEF LandedEvents, New
  <2>2. a \in EventRecord
    BY EventIs
  <2>3. b \in EventRecord
    <3>1. n + 1 \in Nat
      BY <1>1
    <3> QED  BY <3>1, EventIs
  <2> HIDE DEF n, more, a, b, c
  <2>4. next \in Seq(EventRecord)
    BY <1>1
  <2>5. next \o <<a, b>> = Append(Append(next, a), b)
    BY <2>2, <2>3, <2>4, OneEventMore
  <2>6. es \o (<<c>> \o <<a, b>>) = Append(Append(next, a), b)
    BY <1>1, <2>2, <2>3, OneEventMore
  <2>7. es \o (<<c>> \o more) = next \o more
    BY <2>1, <2>5, <2>6
  <2> QED  BY <2>7 DEF c, more, n
<1> QED  BY <1>2, <1>3

\* A turn of the team, on one ticket.
LEMMA TeamBooks ==
  ASSUME BranchInv, NEW t \in Tickets, TeamWorks(t), Books(repo, ledger, sent)
  PROVE  Books(repo', ledger', sent')
<1>1. /\ at = "team" /\ t \in shift /\ ledger' = ledger
      /\ \/ repo' = TeamLanded(repo, t) /\ Emit(LandedEvents(repo, t))
         \/ \E r \in Outcomes(Commit(repo, t, FALSE, TRUE), t) :
              repo' = TeamLanded(r, t) /\ Emit(<<NodeDone(New(r))>> \o LandedEvents(r, t))
  BY DEF TeamWorks, SamePage
<1>2. t \in Theirs(repo) /\ Sound(repo) /\ sent \in Seq(EventRecord)
  BY <1>1 DEF BranchInv, SoundAtRest, Books
<1>3. CASE repo' = TeamLanded(repo, t) /\ Emit(LandedEvents(repo, t))
  BY <1>1, <1>2, <1>3, LandedBooks DEF Emit
<1>4. CASE \E r \in Outcomes(Commit(repo, t, FALSE, TRUE), t) :
             repo' = TeamLanded(r, t) /\ Emit(<<NodeDone(New(r))>> \o LandedEvents(r, t))
  <2> DEFINE c == Commit(repo, t, FALSE, TRUE)
  <2>1. PICK r \in Outcomes(c, t) :
               repo' = TeamLanded(r, t) /\ Emit(<<NodeDone(New(r))>> \o LandedEvents(r, t))
    BY <1>4
  <2>2. /\ Moves(repo, c) /\ t \in Theirs(c) /\ Works(c.nodes, Ids(c, t))
        /\ Books(c, ledger, Append(sent, NodeDone(New(c))))
    BY <1>2, TeamCommits
  <2> HIDE DEF c
  <2>3. t \in Open(c) /\ c.tickets[t].theirs /\ Sound(c)
    BY <2>2 DEF Theirs, Mine, Moves
  <2>4. Moves(c, r) /\ r.nodes = c.nodes
    BY <2>2, <2>3, OutcomesMove
  <2>5. r.tickets[t].status = "open" /\ r.tickets[t].theirs
    BY <2>2, <2>3, OutcomesAdvance
  <2>6. t \in Theirs(r) /\ Sound(r)
    BY <2>4, <2>5 DEF Theirs, Mine, Open, Moves
  <2> DEFINE n == New(r)
             es == Append(sent, NodeDone(n))
             more == LandedEvents(r, t)
  <2>7. Books(r, ledger, es)
    BY <2>2, <2>3, <2>4, BooksMove DEF New
  <2>8. Books(TeamLanded(r, t), ledger, es \o more)
    BY <2>6, <2>7, LandedBooks
  <2>9. n \in Nat
    BY <2>6, GraphIs DEF Sound, New
  <2>10. sent \o (<<NodeDone(n)>> \o more) = es \o more
    BY <1>2, <2>9, LandedAfter
  <2> QED  BY <1>1, <2>1, <2>8, <2>10 DEF Emit
<1> QED  BY <1>1, <1>3, <1>4

\* What opens.
LEMMA PullsMove ==
  ASSUME NEW r, Sound(r), NEW s \in Pulls(r)
  PROVE  Moves(r, s)
<1>1. PICK ts \in SUBSET Backlog(r) : s = OpenedFor(r, ts, TRUE)
  BY DEF Pulls
<1> QED  BY <1>1, OpenedMoves

LEMMA DepartureMoves ==
  ASSUME NEW r, Sound(r), NEW leaves, Departure(r, leaves)
  PROVE  Moves(r, repo')
<1>1. repo' = r \/ repo' = OpenedFor(r, Theirs(r), FALSE)
  BY DEF Departure
<1>2. CASE repo' = r
  BY <1>2, SameMoves
<1>3. CASE repo' = OpenedFor(r, Theirs(r), FALSE)
  BY <1>3, OpenedMoves
<1> QED  BY <1>1, <1>2, <1>3

\* The sprint ships: two commits on main.
LEMMA ShippedMoves ==
  ASSUME NEW r, Sound(r)
  PROVE  LET s == Shipped(r)
             new == Len(r.nodes)
         IN /\ Moves(r, s) /\ Len(s.nodes) = new + 2
            /\ \A n \in {new + 1, new + 2} :
                 n \in 1..Len(s.nodes) /\ s.nodes[n].kind # "commit"
<1> DEFINE m == OnTrunk(r, "sprint_merge", Main, <<TipOfLane(r, Main), TipOfLane(r, Dev)>>)
           s == OnTrunk(m, "release", Main, <<New(m)>>)
           new == Len(r.nodes)
<1>1. /\ r.nodes \in Seq(GraphNode) /\ Rooted(r.nodes) /\ new \in Nat
  BY GraphIs DEF Sound
<1>2. TipOfLane(r, Main) \in 1..new /\ TipOfLane(r, Dev) \in 1..new /\ Main # Dev
  BY <1>1, TipIs DEF Main, Dev
<1>3. /\ m \in Graph /\ Len(m.nodes) = new + 1 /\ GoesOn(r.nodes, m.nodes) /\ Rooted(m.nodes)
      /\ m.tickets = r.tickets /\ m.nodes[new + 1].lane = Main
      /\ <<TipOfLane(r, Main), TipOfLane(r, Dev)>> \in Seq(Nat)
  <2> DEFINE parents == <<TipOfLane(r, Main), TipOfLane(r, Dev)>>
  <2>1. parents \in Seq(Nat) /\ \A p \in ToSet(parents) : p \in 1..new
    BY <1>1, <1>2 DEF ToSet
  <2> HIDE DEF parents
  <2>2. LET z == OnTrunk(r, "sprint_merge", Main, parents)
        IN /\ z \in Graph /\ Len(z.nodes) = new + 1 /\ GoesOn(r.nodes, z.nodes) /\ Rooted(z.nodes)
           /\ z.tickets = r.tickets /\ z.nodes[new + 1].lane = Main
    BY <2>1, OnTrunkIs
  <2> QED  BY <2>1, <2>2 DEF parents
<1>4. Sound(m)
  <2> HIDE DEF m
  <2>1. \A n \in 1..Len(m.nodes) : n > Len(r.nodes) => m.nodes[n].lane # Dev
    <3>1. \A n \in 1..Len(m.nodes) : n > new => n = new + 1
      BY <1>1, <1>3
    <3> QED  BY <1>2, <1>3, <3>1
  <2>2. Landed(m)
    BY <1>3, <2>1, LandedElsewhere DEF Ids
  <2> QED  BY <1>3, <2>2, TrunkSound
<1>5. Moves(r, m) /\ m.nodes[new + 1].kind = "sprint_merge"
  BY <1>3, <1>4, TrunkMoves
<1>6. s = Shipped(r) /\ Sound(s)
  BY ShippedIs DEF Shipped
<1> HIDE DEF m
<1>7. /\ Moves(m, s) /\ Len(s.nodes) = Len(m.nodes) + 1 /\ s.nodes[Len(m.nodes) + 1].kind = "release"
  <2>1. <<New(m)>> \in Seq(Nat)
    BY <1>1, <1>3 DEF New
  <2> QED  BY <1>4, <1>6, <2>1, TrunkMoves
<1> HIDE DEF s
<1>8. Moves(r, s)
  BY <1>5, <1>7, MovesTwice
<1>9. s.nodes[new + 1].kind = "sprint_merge"
  BY <1>1, <1>3, <1>5, <1>7 DEF Moves, GoesOn
<1>10. s.nodes[new + 2].kind = "release" /\ Len(s.nodes) = new + 2
  BY <1>1, <1>3, <1>7
<1>11. new + 1 \in 1..Len(s.nodes) /\ new + 2 \in 1..Len(s.nodes)
  BY <1>1, <1>10
<1> QED  BY <1>6, <1>8, <1>9, <1>10, <1>11

LEMMA NodeIs ==
  ASSUME NEW n \in Nat
  PROVE  NodeDone(n) \in EventRecord
BY DEF NodeDone, Event, EventRecord

LEMMA ClockBooks ==
  ASSUME BranchInv, PullTeam \/ TurnEnds \/ SprintCloses, Books(repo, ledger, sent)
  PROVE  Books(repo', ledger', sent')
<1>1. Sound(repo) /\ sent \in Seq(EventRecord) /\ ledger' = ledger
  BY DEF BranchInv, SoundAtRest, Books, PullTeam, TurnEnds, SprintCloses, SamePage
<1>2. CASE PullTeam \/ TurnEnds
  <2>1. sent' = sent
    BY <1>2 DEF PullTeam, TurnEnds
  <2>2. Moves(repo, repo')
    BY <1>1, <1>2, PullsMove, DepartureMoves DEF PullTeam, TurnEnds
  <2> QED  BY <1>1, <2>1, <2>2, BooksMove
<1>3. CASE SprintCloses
  <2> DEFINE s == Shipped(repo)
             new == Len(repo.nodes)
             a == NodeDone(new + 1)
             b == NodeDone(new + 2)
  <2>1. PICK leaves \in {FALSE, team} : Departure(s, leaves)
    BY <1>3 DEF SprintCloses
  <2>2. sent' = sent \o <<a, b>>
    BY <1>3 DEF SprintCloses, Emit, New
  <2>3. /\ Moves(repo, s)
        /\ \A n \in {new + 1, new + 2} : n \in 1..Len(s.nodes) /\ s.nodes[n].kind # "commit"
    BY <1>1, ShippedMoves
  <2>4. new + 1 \in Nat /\ new + 2 \in Nat
    BY <1>1, GraphIs DEF Sound
  <2>5. a \in EventRecord /\ b \in EventRecord
    BY <2>4, NodeIs
  <2>6. sent \o <<a, b>> = Append(Append(sent, a), b)
    <3> HIDE DEF a, b
    <3> QED  BY <1>1, <2>5, OneEventMore
  <2> HIDE DEF s
  <2>7. Sound(s) /\ s \in Graph
    BY <2>3 DEF Moves, Sound
  <2>8. Books(s, ledger, Append(sent, a))
    BY <1>1, <2>3, <2>7, BooksMove, NodeBooks
  <2>9. Books(s, ledger, Append(Append(sent, a), b))
    BY <2>3, <2>7, <2>8, NodeBooks
  <2>10. Moves(s, repo')
    BY <2>1, <2>7, DepartureMoves
  <2> QED  BY <1>1, <2>2, <2>6, <2>7, <2>9, <2>10, BooksMove
<1> QED  BY <1>2, <1>3

LEMMA SprintBooks ==
  ASSUME BranchInv, NextSprint, Books(repo, ledger, sent)
  PROVE  Books(repo', ledger', sent')
<1> DEFINE r == OnTrunk(repo, "sprint_start", Dev, <<TipOfLane(repo, Main)>>)
           n == Len(repo.nodes) + 1
<1>1. /\ Sound(repo) /\ DevShipped(repo) /\ sent \in Seq(EventRecord) /\ ledger' = ledger
  BY DEF BranchInv, SoundAtRest, Books, NextSprint, SamePage
<1>2. /\ \E pulled \in Pulls(r) : \E stale \in SUBSET Backlog(pulled) :
           repo' = OpenedFor(pulled, stale, FALSE)
      /\ Emit(<<NodeDone(New(r))>>)
  BY DEF NextSprint
<1>3. Sound(r)
  BY <1>1, StartedIs
<1>4. <<TipOfLane(repo, Main)>> \in Seq(Nat)
  <2>1. TipOfLane(repo, Main) \in 1..Len(repo.nodes)
    BY <1>1, TipIs, GraphIs DEF Sound
  <2> QED  BY <2>1
<1>5. /\ Moves(repo, r) /\ Len(r.nodes) = n /\ n \in 1..Len(r.nodes)
      /\ r.nodes[n].kind = "sprint_start"
  BY <1>1, <1>3, <1>4, TrunkMoves
<1> HIDE DEF r
<1>6. Books(r, ledger, Append(sent, NodeDone(n)))
  <2>1. Books(r, ledger, sent)
    BY <1>1, <1>5, BooksMove
  <2> QED  BY <1>3, <1>5, <2>1, NodeBooks DEF Sound
<1>7. PICK pulled \in Pulls(r) :
        \E stale \in SUBSET Backlog(pulled) : repo' = OpenedFor(pulled, stale, FALSE)
  BY <1>2
<1>8. PICK stale \in SUBSET Backlog(pulled) : repo' = OpenedFor(pulled, stale, FALSE)
  BY <1>7
<1>9. Moves(r, pulled) /\ Sound(pulled)
  BY <1>3, PullsMove DEF Moves
<1>10. Moves(pulled, repo')
  BY <1>8, <1>9, OpenedMoves
<1>11. Books(repo', ledger, Append(sent, NodeDone(n)))
  BY <1>3, <1>6, <1>9, <1>10, BooksMove
<1>12. sent' = Append(sent, NodeDone(n))
  <2>1. n \in Nat
    BY <1>5
  <2>2. NodeDone(n) \in EventRecord
    BY <2>1, NodeIs
  <2> QED  BY <1>1, <1>2, <1>5, <2>2, OneEventMore DEF Emit, New
<1> QED  BY <1>1, <1>11, <1>12

-----------------------------------------------------------------------------
(* What the player sends up *)

\* What was local on each branch of F, with the commit it folds into.
FoldedIn(l, F, into) ==
  {f \in Nat \X Nat : \E u \in F : f[1] \in ToSet(l.local[u]) /\ f[2] = into[u]}

\* What was local on the branches F is folded, on each into a commit it keeps.
LEMMA LedgerFolds ==
  ASSUME NEW r, Sound(r), NEW s, Sound(s), GoesOn(r.nodes, s.nodes),
         \A n \in Broken(s) : ~(n > Len(r.nodes)),
         NEW l, Ledger(l), LedgerIs(r, l), NEW m, Ledger(m), NEW F \in SUBSET Tickets,
         NEW into,
         \A u \in Tickets \ F : Ids(s, u) = Ids(r, u),
         \A u \in F : /\ Clean(s.nodes, Ids(s, u))
                      /\ \A n \in ToSet(Ids(r, u)) : ~r.nodes[n].broken => n \in ToSet(Ids(s, u))
                      /\ l.local[u] # <<>> => into[u] \in ToSet(Ids(s, u)),
         \A u \in Tickets : m.local[u] = IF u \in F THEN <<>> ELSE l.local[u],
         m.absorbed = l.absorbed \cup FoldedIn(l, F, into)
  PROVE  LedgerIs(s, m)
<1>1. /\ r.nodes \in Seq(GraphNode) /\ s.nodes \in Seq(GraphNode)
      /\ \A u \in Tickets : /\ Ids(r, u) \in Seq(Nat) /\ Chain(r.nodes, u, Ids(r, u))
                            /\ Ids(s, u) \in Seq(Nat) /\ Chain(s.nodes, u, Ids(s, u))
  BY GraphIs DEF Sound
<1>2. \A u \in Tickets :
        /\ l.local[u] \in Seq(Nat)
        /\ \A n \in ToSet(l.local[u]) :
             /\ n \in LocalOf(l) /\ n \in ToSet(Ids(r, u)) /\ n \in 1..Len(r.nodes)
             /\ r.nodes[n].ticket = u /\ n \in Broken(r)
  BY LocalIs
<1>3. \A n \in Broken(r) : s.nodes[n].broken
  BY DEF Broken, GoesOn
<1>4. /\ ToSet(<<>>) = {}
      /\ \A n \in LocalOf(m) : \E u \in Tickets \ F : n \in ToSet(l.local[u])
  <2>1. ToSet(<<>>) = {}
    BY DEF ToSet
  <2>2. ASSUME NEW n \in LocalOf(m) PROVE \E u \in Tickets \ F : n \in ToSet(l.local[u])
    <3>1. PICK u \in Tickets : n \in ToSet(m.local[u])
      BY DEF LocalOf
    <3>2. u \notin F
      BY <2>1, <3>1
    <3> QED  BY <3>1, <3>2
  <2> QED  BY <2>1, <2>2
<1>5. \A n \in LocalOf(m) : n \in LocalOf(l)
  BY <1>2, <1>4
<1>6. ASSUME NEW f \in m.absorbed
      PROVE  f \in l.absorbed \/ (f[1] \in LocalOf(l) /\ f[1] \notin LocalOf(m))
  <2>1. CASE f \in l.absorbed
    BY <2>1
  <2>2. CASE f \notin l.absorbed
    <3>1. PICK u \in F : f[1] \in ToSet(l.local[u])
      BY <2>2 DEF FoldedIn
    <3>2. f[1] \in LocalOf(l) /\ r.nodes[f[1]].ticket = u
      BY <1>2, <3>1
    <3>3. f[1] \notin LocalOf(m)
      BY <1>2, <1>4, <3>2
    <3> QED  BY <3>2, <3>3
  <2> QED  BY <2>1, <2>2
<1>7. ASSUME NEW t \in Tickets
      PROVE  /\ Ids(s, t) = Working(s, Ids(s, t)) \o m.local[t]
             /\ \A n \in ToSet(m.local[t]) : s.nodes[n].broken
             /\ \A n \in ToSet(Ids(r, t)) : ~r.nodes[n].broken => n \in ToSet(Ids(s, t))
             /\ \A n \in ToSet(l.local[t]) : n \in LocalOf(m) \/ \E f : FoldsInto(s, m, n, t, f)
  <2>1. CASE t \notin F
    <3>1. Ids(s, t) = Ids(r, t) /\ m.local[t] = l.local[t]
      BY <2>1
    <3>2. \A i \in 1..Len(Ids(r, t)) : s.nodes[Ids(r, t)[i]].broken = r.nodes[Ids(r, t)[i]].broken
      BY <1>1 DEF Chain, GoesOn
    <3>3. Working(s, Ids(s, t)) = Working(r, Ids(r, t))
      <4>1. /\ Ids(r, t) \in Seq(Nat) /\ Chain(r.nodes, t, Ids(r, t))
            /\ Chain(s.nodes, t, Ids(r, t))
        BY <1>1, <3>1
      <4>2. Working(s, Ids(r, t)) = Working(r, Ids(r, t))
        BY <3>2, <4>1, WorkingStays
      <4> QED  BY <3>1, <4>2
    <3>4. Ids(r, t) = Working(r, Ids(r, t)) \o l.local[t]
      BY DEF LedgerIs
    <3>5. \A n \in ToSet(l.local[t]) : n \in LocalOf(m)
      BY <3>1 DEF LocalOf
    <3> QED  BY <1>2, <1>3, <3>1, <3>3, <3>4, <3>5
  <2>2. CASE t \in F
    <3>1. Clean(s.nodes, Ids(s, t)) /\ m.local[t] = <<>>
      BY <2>2
    <3>2. Working(s, Ids(s, t)) = Ids(s, t)
      BY <1>1, <3>1, WorkingChain
    <3>3. Ids(s, t) = Working(s, Ids(s, t)) \o m.local[t]
      BY <1>1, <3>1, <3>2, EmptyIs
    <3>4. ASSUME NEW n \in ToSet(l.local[t]) PROVE \E f : FoldsInto(s, m, n, t, f)
      <4> DEFINE f == <<n, into[t]>>
      <4>1. l.local[t] # <<>>
        BY <1>2, <3>4, EmptyIs
      <4>2. into[t] \in ToSet(Ids(s, t))
        BY <2>2, <4>1
      <4>3. into[t] \in Nat /\ ~s.nodes[into[t]].broken
        <5>1. Ids(s, t) \in Seq(Nat)
          BY <1>1
        <5>2. PICK i \in 1..Len(Ids(s, t)) : Ids(s, t)[i] = into[t]
          BY <4>2, <5>1, MembersAre
        <5> QED  BY <3>1, <5>1, <5>2 DEF Clean
      <4>4. n \in Nat /\ n \in LocalOf(l) /\ r.nodes[n].ticket = t
        <5>1. n \in LocalOf(l) /\ n \in 1..Len(r.nodes) /\ r.nodes[n].ticket = t
          BY <1>2, <3>4
        <5> QED  BY <5>1
      <4>5. f \in m.absorbed
        BY <2>2, <4>3, <4>4 DEF FoldedIn
      <4>6. ASSUME NEW g \in m.absorbed, g[1] = n PROVE g = f
        <5>1. g \notin l.absorbed
          BY <4>4, <4>6 DEF LedgerIs
        <5>2. PICK u \in F : g \in Nat \X Nat /\ g[1] \in ToSet(l.local[u]) /\ g[2] = into[u]
          BY <5>1 DEF FoldedIn
        <5>3. u = t
          BY <1>2, <4>4, <4>6, <5>2
        <5> QED  BY <4>6, <5>2, <5>3
      <4>7. FoldsInto(s, m, n, t, f)
        BY <4>2, <4>3, <4>5, <4>6 DEF FoldsInto
      <4> QED  BY <4>7
    <3> QED  BY <1>4, <2>2, <3>1, <3>3, <3>4
  <2> QED  BY <2>1, <2>2
<1>8. l.absorbed \subseteq m.absorbed
  OBVIOUS
<1> QED  BY <1>5, <1>6, <1>7, <1>8, LedgerMoves

\* What comes before the player's own events sends nothing up.
LEMMA BeforeIs ==
  ASSUME NEW r \in Graph, NEW l, Ledger(l), NEW es \in {<<>>, <<ColleaguesCost>>}
  PROVE  /\ es \in Seq(EventRecord) /\ AllHeard(r, es) /\ Settling(r, l, es)
         /\ Advanced(l, es, r).local = l.local /\ Advanced(l, es, r).absorbed = l.absorbed
<1> DEFINE c == ColleaguesCost
<1>1. c \in EventRecord /\ c.type = "energy"
  BY DEF ColleaguesCost, Event, EventRecord
<1> HIDE DEF c
<1>2. <<>> \in Seq(EventRecord) /\ Len(<<>>) = 0
  OBVIOUS
<1>3. <<c>> \in Seq(EventRecord) /\ Len(<<c>>) = 1 /\ <<c>>[1] = c
  BY <1>1
<1>4. CASE es = <<>>
  <2>1. Advancing(l, es, r)[0] = Base(l)
    BY <1>2, <1>4, AdvancingIs
  <2>2. \A i \in 1..Len(es) : FALSE
    BY <1>2, <1>4
  <2>3. Advanced(l, es, r) = Base(l)
    BY <1>2, <1>4, <2>1 DEF Advanced
  <2> QED  BY <1>2, <1>4, <2>2, <2>3 DEF AllHeard, Settling, Base
<1>5. CASE es = <<c>>
  <2>1. Len(es) = 1 /\ es[1] = c /\ es \in Seq(EventRecord)
    BY <1>3, <1>5
  <2>2. /\ Advancing(l, es, r)[0] = Base(l)
        /\ Advancing(l, es, r)[1] = PushesOf(Base(l), r, c, 1)
    <3>1. 1 \in 1..Len(es) /\ Len(es) \in Nat /\ 1 - 1 = 0
      BY <2>1
    <3> QED  BY <2>1, <3>1, AdvancingIs
  <2>3. Heard(r, c) /\ ~Tells(r, c)
    BY <1>1 DEF Heard, Tells
  <2>4. ToSet(Flushed(c)) = {}
    BY <1>1, <2>3, FlushedIs
  <2>5. Base(l) \in Account /\ Base(l).local = l.local /\ Base(l).absorbed = l.absorbed
    BY DEF Base, Ledger, Account
  <2>6. Follows(Base(l), r, c, PushesOf(Base(l), r, c, 1))
    BY <2>3, <2>5, PushesAre
  <2> DEFINE a == PushesOf(Base(l), r, c, 1)
  <2>7. /\ a \in Account /\ \A u \in Tickets : a.local[u] = Base(l).local[u]
        /\ a.absorbed = Base(l).absorbed \cup FoldedBy(Base(l), r, {})
    BY <2>3, <2>4, <2>6 DEF Follows
  <2>8. FoldedBy(Base(l), r, {}) = {}
    BY DEF FoldedBy
  <2> HIDE DEF a
  <2>9. a.local = l.local /\ a.absorbed = l.absorbed
    BY <2>5, <2>7, <2>8 DEF Account
  <2>10. Advanced(l, es, r) = a
    BY <2>1, <2>2 DEF Advanced, a
  <2>11. \A i \in 1..Len(es) : es[i] = c
    BY <2>1
  <2> QED  BY <2>1, <2>3, <2>4, <2>9, <2>10, <2>11 DEF AllHeard, Settling
<1> QED  BY <1>4, <1>5 DEF c

LEMMA CostsAre ==
  ASSUME NEW before \in CostsBefore
  PROVE  before \in {<<>>, <<ColleaguesCost>>}
BY DEF CostsBefore

\* A push: the event sends up branches that nothing is left broken on.
LEMMA SentUp ==
  ASSUME NEW r, Sound(r), NEW s, Sound(s), GoesOn(r.nodes, s.nodes),
         \A n \in Broken(s) : ~(n > Len(r.nodes)),
         NEW l, Ledger(l), LedgerIs(r, l), NEW es \in {<<>>, <<ColleaguesCost>>},
         NEW e \in EventRecord, Heard(s, e), e.type # "node_done",
         \A u \in Tickets : u \notin ToSet(Flushed(e)) => Ids(s, u) = Ids(r, u),
         \A u \in ToSet(Flushed(e)) :
           /\ Clean(s.nodes, Ids(s, u))
           /\ \A n \in ToSet(Ids(r, u)) : ~r.nodes[n].broken => n \in ToSet(Ids(s, u))
           /\ Clean(r.nodes, Ids(r, u)) \/ (Frozen(s, u) /\ Ids(s, u) # <<>>)
  PROVE  Books(s, l, Append(es, e))
<1> DEFINE F == ToSet(Flushed(e))
           a == Advanced(l, es, s)
           into == [u \in Tickets |-> Last(Ids(s, u))]
<1>1. s \in Graph /\ ~Tells(s, e)
  BY DEF Sound, Tells
<1>2. /\ es \in Seq(EventRecord) /\ AllHeard(s, es) /\ Settling(s, l, es)
      /\ a.local = l.local /\ a.absorbed = l.absorbed
  BY <1>1, BeforeIs
<1>3. F \in SUBSET Tickets
  BY FlushedIs DEF ToSet
<1>4. ASSUME NEW u \in F PROVE l.local[u] # <<>> => Frozen(s, u) /\ Ids(s, u) # <<>>
  <2>1. Clean(r.nodes, Ids(r, u)) => l.local[u] = <<>>
    BY <1>3, LocalIs
  <2> QED  BY <2>1
<1>5. ASSUME NEW u \in F
      PROVE  /\ Clean(s.nodes, Ids(s, u))
             /\ \A n \in ToSet(Ids(r, u)) : ~r.nodes[n].broken => n \in ToSet(Ids(s, u))
             /\ l.local[u] # <<>> => into[u] \in ToSet(Ids(s, u))
  <2>1. Ids(s, u) # <<>> => into[u] \in ToSet(Ids(s, u))
    BY <1>1, <1>3, LastIs, GraphIs
  <2> QED  BY <1>4, <2>1
<1>6. \A u \in Tickets : u \notin F => Ids(s, u) = Ids(r, u)
  OBVIOUS
<1>7. \A u \in F : into[u] = Last(Ids(s, u))
  BY <1>3
<1> HIDE DEF F, a, into
<1>8. ASSUME NEW new, Follows(a, s, e, new) PROVE LedgerIs(s, new)
  <2>1. /\ new \in Account
        /\ \A u \in Tickets : new.local[u] = IF u \in F /\ Ids(s, u) # <<>> THEN <<>> ELSE l.local[u]
        /\ new.absorbed = l.absorbed \cup FoldedBy(a, s, F)
    BY <1>1, <1>2, <1>8 DEF Follows, F
  <2>2. Ledger(new)
    BY <2>1 DEF Account, Ledger
  <2>3. \A u \in Tickets : new.local[u] = IF u \in F THEN <<>> ELSE l.local[u]
    BY <1>4, <2>1
  <2>4. ASSUME NEW u \in F, NEW f \in Nat \X Nat
        PROVE  (Ids(s, u) # <<>> /\ f \in Folding(l.local[u], Last(Ids(s, u))))
                 <=> (f[1] \in ToSet(l.local[u]) /\ f[2] = into[u])
    <3>1. CASE l.local[u] = <<>>
      <4>1. ToSet(<<>>) = {}
        BY DEF ToSet
      <4> QED  BY <3>1, <4>1 DEF Folding
    <3>2. CASE l.local[u] # <<>>
      <4>1. Ids(s, u) # <<>> /\ into[u] = Last(Ids(s, u)) /\ into[u] \in ToSet(Ids(s, u))
        BY <1>4, <1>5, <1>7, <3>2
      <4>2. \A n \in ToSet(l.local[u]) : n \in Broken(r)
        BY <1>3, LocalIs
      <4>3. ~s.nodes[into[u]].broken
        BY <1>1, <1>3, <1>5, <4>1, MembersAre, GraphIs DEF Clean
      <4>4. into[u] \notin ToSet(l.local[u])
        BY <4>2, <4>3 DEF Broken, GoesOn
      <4>5. f \in Folding(l.local[u], into[u]) <=> f[1] \in ToSet(l.local[u]) /\ f[2] = into[u]
        BY <4>4 DEF Folding
      <4> QED  BY <4>1, <4>5
    <3> QED  BY <3>1, <3>2
  <2>5. FoldedBy(a, s, F) = FoldedIn(l, F, into)
    BY <1>2, <2>4 DEF FoldedBy, FoldedIn
  <2>6. new.absorbed = l.absorbed \cup FoldedIn(l, F, into)
    BY <2>1, <2>5
  <2>7. \A u \in Tickets \ F : Ids(s, u) = Ids(r, u)
    BY <1>6
  <2>8. \A u \in F : /\ Clean(s.nodes, Ids(s, u))
                     /\ \A n \in ToSet(Ids(r, u)) : ~r.nodes[n].broken => n \in ToSet(Ids(s, u))
                     /\ l.local[u] # <<>> => into[u] \in ToSet(Ids(s, u))
    BY <1>5
  <2> QED  BY <1>3, <2>2, <2>3, <2>6, <2>7, <2>8, LedgerFolds
<1>9. \A u \in F : a.local[u] # <<>> => Frozen(s, u)
  BY <1>2, <1>4
<1> QED  BY <1>1, <1>2, <1>8, <1>9, BooksGrow DEF F, a

LEMMA WorkingKeeps ==
  ASSUME NEW r, Sound(r), NEW s, Sound(s), GoesOn(r.nodes, s.nodes), NEW t \in Tickets
  PROVE  LET w == Working(r, Ids(r, t))
         IN /\ w \in Seq(Nat) /\ Chain(r.nodes, t, w) /\ Clean(s.nodes, w)
            /\ Works(r.nodes, Ids(r, t)) => w # <<>>
            /\ \A n \in ToSet(Ids(r, t)) : ~r.nodes[n].broken => n \in ToSet(w)
<1> DEFINE ids == Ids(r, t)
           w == Working(r, ids)
<1>1. /\ ids \in Seq(Nat) /\ Chain(r.nodes, t, ids)
      /\ r.nodes \in Seq(GraphNode) /\ s.nodes \in Seq(GraphNode) /\ Rooted(r.nodes)
  BY GraphIs DEF Sound
<1>2. /\ w \in Seq(Nat) /\ Len(w) <= Len(ids)
      /\ \A i \in 1..Len(w) : w[i] = ids[i] /\ ~r.nodes[ids[i]].broken
      /\ \A i \in 1..Len(ids) : ~r.nodes[ids[i]].broken => i <= Len(w)
  BY <1>1, WorkingIs
<1>3. /\ Chain(r.nodes, t, w) /\ Clean(r.nodes, w) /\ (Works(r.nodes, ids) => w # <<>>)
  BY <1>1, WorkingChain
<1> HIDE DEF ids, w
<1>4. Clean(s.nodes, w)
  BY <1>1, <1>2, <1>3, ChainStays
<1>5. ASSUME NEW n \in ToSet(ids), ~r.nodes[n].broken PROVE n \in ToSet(w)
  <2>1. PICK i \in 1..Len(ids) : ids[i] = n
    BY <1>1, MembersAre
  <2>2. i \in 1..Len(w)
    BY <1>1, <1>2, <1>5, <2>1
  <2> QED  BY <1>2, <2>1, <2>2, MembersAre
<1> QED  BY <1>2, <1>3, <1>4, <1>5 DEF w, ids

\* A feature is sent up, for its review or as it lands.
LEMMA FeatureSentUp ==
  ASSUME NEW r, Sound(r), NEW s, Sound(s), GoesOn(r.nodes, s.nodes),
         \A n \in Broken(s) : ~(n > Len(r.nodes)),
         NEW l, Ledger(l), LedgerIs(r, l), NEW es \in {<<>>, <<ColleaguesCost>>},
         NEW t \in Tickets, ~IsObstacle(t), Obstacles(r, t) = {}, Works(r.nodes, Ids(r, t)),
         Frozen(s, t), Ids(s, t) = Working(r, Ids(r, t)),
         \A u \in Tickets : u # t => Ids(s, u) = Ids(r, u),
         NEW type \in {"pr_reviewed", "ticket_merged"}
  PROVE  /\ Books(s, l, Append(es, Event(type, t))) /\ Event(type, t) \in EventRecord
         /\ Event(type, t).type # "node_done" /\ ~Event(type, t).colleague
<1> DEFINE e == Event(type, t)
           F == ToSet(Flushed(e))
<1>1. e \in EventRecord /\ e.type = type /\ e.ticket = t /\ ~e.colleague
  BY DEF Event, EventRecord
<1> HIDE DEF e
<1>2. Heard(s, e) /\ e.type # "node_done"
  BY <1>1 DEF Heard
<1>3. /\ F \subseteq Tickets /\ t \in F
      /\ \A u \in F : u = t \/ (IsObstacle(u) /\ Parent(u) = t)
  BY <1>1, <1>2, FlushedIs DEF ToSet
<1> HIDE DEF F
<1>4. /\ Clean(s.nodes, Ids(s, t)) /\ Ids(s, t) # <<>>
      /\ \A n \in ToSet(Ids(r, t)) : ~r.nodes[n].broken => n \in ToSet(Ids(s, t))
  BY WorkingKeeps
<1>5. ASSUME NEW u \in F
      PROVE  /\ Clean(s.nodes, Ids(s, u))
             /\ \A n \in ToSet(Ids(r, u)) : ~r.nodes[n].broken => n \in ToSet(Ids(s, u))
             /\ Clean(r.nodes, Ids(r, u)) \/ (Frozen(s, u) /\ Ids(s, u) # <<>>)
  <2>1. CASE u = t
    BY <1>4, <2>1
  <2>2. CASE u # t
    <3>1. u \in Tickets /\ IsObstacle(u) /\ Parent(u) = t /\ Ids(s, u) = Ids(r, u)
      BY <1>3, <2>2
    <3>2. Clean(r.nodes, Ids(r, u))
      BY <3>1, ChildClean
    <3>3. Clean(s.nodes, Ids(r, u))
      BY <3>1, <3>2, CleanStays
    <3> QED  BY <3>1, <3>2, <3>3
  <2> QED  BY <2>1, <2>2
<1>6. \A u \in Tickets : u \notin F => Ids(s, u) = Ids(r, u)
  BY <1>3
<1>7. Books(s, l, Append(es, e))
  BY <1>1, <1>2, <1>5, <1>6, SentUp DEF F
<1> QED  BY <1>1, <1>2, <1>7 DEF e

\* An obstacle lands: its branch and its feature's go up.
LEMMA ObstacleSentUp ==
  ASSUME NEW r, Sound(r), NEW l, Ledger(l), LedgerIs(r, l), NEW t \in Mine(r), IsObstacle(t),
         Works(r.nodes, Ids(r, t))
  PROVE  LET s == ObstacleLanded(r, t, FALSE)
             e == Event("obstacle_cleared", t)
         IN /\ Sound(s) /\ GoesOn(r.nodes, s.nodes) /\ Len(s.nodes) = Len(r.nodes) + 1
            /\ s.nodes[New(s)].kind = "obstacle_merge"
            /\ e \in EventRecord /\ ~e.colleague /\ e.type # "node_done"
            /\ Books(s, l, Append(<<>>, e)) /\ Books(s, l, Append(Append(<<>>, e), NodeDone(New(s))))
            /\ Append(Append(<<>>, e), NodeDone(New(s))) = <<e, NodeDone(New(s))>>
<1> DEFINE s == ObstacleLanded(r, t, FALSE)
           q == Parent(t)
           new == Len(r.nodes) + 1
           e == Event("obstacle_cleared", t)
<1>1. /\ t \in Open(r) /\ t \in Tickets /\ r.tickets[t].status = "open" /\ ~r.tickets[t].theirs
  BY DEF Mine, Open
<1>2. /\ Sound(s) /\ GoesOn(r.nodes, s.nodes) /\ \A n \in Broken(s) : ~(n > Len(r.nodes))
      /\ Len(s.nodes) = new /\ new \in 1..Len(s.nodes)
      /\ s.nodes[new].kind = "obstacle_merge" /\ ~s.nodes[new].broken
      /\ q \in Open(r) /\ q # t /\ q \in Tickets
      /\ Ids(s, t) = Working(r, Ids(r, t)) /\ s.tickets[t].status = "merged"
      /\ Ids(s, q) = Append(Working(r, Ids(r, q)), new)
      /\ s.tickets[q].status = r.tickets[q].status /\ s.tickets[q].theirs = r.tickets[q].theirs
      /\ \A u \in Tickets : u \notin {t, q} => s.tickets[u] = r.tickets[u]
  BY <1>1, ObstacleIs
<1>3. e \in EventRecord /\ e.type = "obstacle_cleared" /\ e.ticket = t /\ ~e.colleague
  BY <1>1 DEF Event, EventRecord
<1>4. new \in Nat /\ NodeDone(new) \in EventRecord
  <2>1. new \in Nat
    BY <1>2
  <2> QED  BY <2>1, NodeIs
<1> HIDE DEF s, e, new, q
<1>5. Heard(s, e)
  BY <1>1, <1>3 DEF Heard
<1>6. ToSet(Flushed(e)) = {t, q}
  BY <1>3, <1>5, FlushedIs DEF q
<1>7. Frozen(s, t) /\ Frozen(s, q)
  <2>1. Frozen(s, t)
    BY <1>1, <1>2, FrozenIs
  <2>2. StatusIs(r, t) /\ r.tickets[q].status = "open"
    BY <1>1, <1>2 DEF Sound, Open
  <2>3. ~r.tickets[q].theirs
    BY <1>1, <2>2 DEF StatusIs, q
  <2> QED  BY <1>2, <2>1, <2>2, <2>3 DEF Frozen
<1>8. /\ Clean(s.nodes, Ids(s, t)) /\ Ids(s, t) # <<>>
      /\ \A n \in ToSet(Ids(r, t)) : ~r.nodes[n].broken => n \in ToSet(Ids(s, t))
  BY <1>1, <1>2, WorkingKeeps
<1>9. /\ Clean(s.nodes, Ids(s, q)) /\ Ids(s, q) # <<>>
      /\ \A n \in ToSet(Ids(r, q)) : ~r.nodes[n].broken => n \in ToSet(Ids(s, q))
  <2> DEFINE w == Working(r, Ids(r, q))
  <2>1. /\ w \in Seq(Nat) /\ Clean(s.nodes, w)
        /\ \A n \in ToSet(Ids(r, q)) : ~r.nodes[n].broken => n \in ToSet(w)
    BY <1>2, WorkingKeeps
  <2>2. Ids(s, q) = Append(w, new)
    BY <1>2
  <2> HIDE DEF w
  <2>3. Append(w, new) # <<>> /\ ToSet(Append(w, new)) = ToSet(w) \cup {new}
    BY <1>4, <2>1, OneMoreMember
  <2>4. Clean(s.nodes, Append(w, new))
    BY <1>2, <1>4, <2>1, CleanAppend
  <2> QED  BY <2>1, <2>2, <2>3, <2>4
<1>10. \A u \in Tickets : u \notin {t, q} => Ids(s, u) = Ids(r, u)
  BY <1>2 DEF Ids
<1>11. Books(s, l, Append(<<>>, e))
  <2>1. \A u \in ToSet(Flushed(e)) :
          /\ Clean(s.nodes, Ids(s, u))
          /\ \A n \in ToSet(Ids(r, u)) : ~r.nodes[n].broken => n \in ToSet(Ids(s, u))
          /\ Clean(r.nodes, Ids(r, u)) \/ (Frozen(s, u) /\ Ids(s, u) # <<>>)
    BY <1>6, <1>7, <1>8, <1>9
  <2>2. e.type # "node_done" /\ \A u \in Tickets : u \notin ToSet(Flushed(e)) => Ids(s, u) = Ids(r, u)
    BY <1>3, <1>6, <1>10
  <2> DEFINE es == <<>>
  <2>3. es \in {<<>>, <<ColleaguesCost>>}
    OBVIOUS
  <2> HIDE DEF es
  <2>4. Books(s, l, Append(es, e))
    BY <1>2, <1>3, <1>5, <2>1, <2>2, <2>3, SentUp
  <2> QED  BY <2>4 DEF es
<1>12. Books(s, l, Append(Append(<<>>, e), NodeDone(new)))
  BY <1>2, <1>11, NodeBooks DEF Sound
<1>13. Append(Append(<<>>, e), NodeDone(new)) = <<e, NodeDone(new)>>
  <2>1. <<>> \in Seq(EventRecord)
    OBVIOUS
  <2>2. <<>> \o <<e, NodeDone(new)>> = Append(Append(<<>>, e), NodeDone(new))
    BY <1>3, <1>4, <2>1, OneEventMore
  <2>3. <<e, NodeDone(new)>> \in Seq(EventRecord)
    BY <1>3, <1>4
  <2>4. <<>> \o <<e, NodeDone(new)>> = <<e, NodeDone(new)>>
    BY <2>3
  <2> QED  BY <2>2, <2>4
<1>14. new = New(s) /\ Len(s.nodes) = Len(r.nodes) + 1 /\ e.type # "node_done"
  BY <1>2, <1>3 DEF New, new
<1>15. Append(Append(<<>>, e), NodeDone(New(s))) = <<e, NodeDone(New(s))>>
  BY <1>13, <1>14
<1> QED  BY <1>2, <1>3, <1>11, <1>12, <1>14, <1>15 DEF s, e

\* A commit that broke stays on the player's machine.
LEMMA BrokenBooks ==
  ASSUME NEW r, Sound(r), NEW l, Ledger(l), LedgerIs(r, l), NEW t \in Mine(r),
         NEW es \in {<<>>, <<ColleaguesCost>>}
  PROVE  LET s == Commit(r, t, TRUE, FALSE)
         IN /\ Sound(s) /\ GoesOn(r.nodes, s.nodes) /\ Len(s.nodes) = Len(r.nodes) + 1
            /\ Books(s, l, Append(es, NodeDone(New(s))))
<1> DEFINE s == Commit(r, t, TRUE, FALSE)
           node == Written(r, t, TRUE, FALSE)
           new == Len(r.nodes) + 1
           e == NodeDone(new)
           a == Advanced(l, es, s)
<1>1. /\ t \in Open(r) /\ t \in Tickets /\ ~r.tickets[t].theirs
  BY DEF Mine, Open
<1>2. /\ s \in Graph /\ node \in GraphNode /\ s.nodes = Append(r.nodes, node)
      /\ s.tickets = [r.tickets EXCEPT ![t] = WrittenOn(r, t)]
  BY <1>1, CommitIs
<1>3. Sound(s) /\ GoesOn(r.nodes, s.nodes)
  BY <1>1, CommitSound
<1>4. node.broken /\ node.kind = "commit" /\ ~node.theirs /\ node.ticket = t
  BY DEF Written, Node
<1>5. ASSUME NEW u \in Tickets
      PROVE  Ids(s, u) = IF u = t THEN Append(Ids(r, t), new) ELSE Ids(r, u)
  <2>1. /\ r.tickets[u] \in GraphTicket /\ r.tickets \in [Tickets -> GraphTicket]
    BY GraphIs DEF Sound
  <2> HIDE DEF s
  <2>2. s.tickets[u] = IF u = t THEN WrittenOn(r, t) ELSE r.tickets[u]
    BY <1>2, <2>1
  <2> QED  BY <2>1, <2>2 DEF WrittenOn, GraphTicket, Ids
<1> HIDE DEF s, node
<1>6. /\ Len(r.nodes) \in Nat /\ Len(s.nodes) = new /\ new \in 1..Len(s.nodes) /\ s.nodes[new] = node
      /\ new \in Nat /\ \A n \in Broken(s) : n > Len(r.nodes) => n = new
      /\ r.nodes \in Seq(GraphNode)
  <2>1. r.nodes \in Seq(GraphNode)
    BY GraphIs DEF Sound
  <2>2. /\ Len(r.nodes) \in Nat /\ Len(s.nodes) = new /\ s.nodes[new] = node
    BY <1>2, <2>1
  <2> QED  BY <2>1, <2>2 DEF Broken
<1>7. e \in EventRecord /\ e.type = "node_done" /\ e.node = new
  BY <1>6 DEF NodeDone, Event, EventRecord
<1> HIDE DEF e
<1>8. Heard(s, e) /\ Tells(s, e) /\ s.nodes[e.node].broken /\ s.nodes[e.node].ticket = t
  BY <1>1, <1>4, <1>6, <1>7 DEF Heard, Tells, BornLocal
<1>9. /\ es \in Seq(EventRecord) /\ AllHeard(s, es) /\ Settling(s, l, es)
      /\ a.local = l.local /\ a.absorbed = l.absorbed
  BY <1>2, BeforeIs
<1>10. ToSet(Flushed(e)) = {}
  BY <1>7, <1>8, FlushedIs
<1> HIDE DEF a
<1>11. /\ \A u \in Tickets : /\ l.local[u] \in Seq(Nat) /\ Ids(r, u) \in Seq(Nat)
                             /\ Chain(r.nodes, u, Ids(r, u)) /\ Chain(s.nodes, u, Ids(s, u))
                             /\ Ids(s, u) \in Seq(Nat)
       /\ l.local \in [Tickets -> Seq(Nat)]
  BY <1>3, GraphIs DEF Ledger, Sound
<1>12. \A u \in Tickets : \A n \in ToSet(Ids(r, u)) : n \in 1..Len(r.nodes) /\ s.nodes[n] = r.nodes[n]
  <2> SUFFICES ASSUME NEW u \in Tickets, NEW n \in ToSet(Ids(r, u))
               PROVE  n \in 1..Len(r.nodes) /\ s.nodes[n] = r.nodes[n]
    OBVIOUS
  <2>1. PICK i \in 1..Len(Ids(r, u)) : Ids(r, u)[i] = n
    BY <1>11, MembersAre
  <2>2. n \in 1..Len(r.nodes)
    BY <1>11, <2>1 DEF Chain
  <2> QED  BY <1>3, <2>2 DEF GoesOn
<1>13. ASSUME NEW u \in Tickets PROVE Working(s, Ids(r, u)) = Working(r, Ids(r, u))
  <2>1. Chain(s.nodes, u, Ids(r, u))
    BY <1>3, <1>11, ChainStays, GraphIs DEF Sound
  <2>2. \A i \in 1..Len(Ids(r, u)) : s.nodes[Ids(r, u)[i]].broken = r.nodes[Ids(r, u)[i]].broken
    BY <1>3, <1>11 DEF Chain, GoesOn
  <2> QED  BY <1>11, <2>1, <2>2, WorkingStays
<1>14. Working(s, Ids(s, t)) = Working(r, Ids(r, t))
  <2> DEFINE ids == Ids(r, t)
             more == Append(ids, new)
             v == Working(s, ids)
             w == Working(s, more)
  <2>1. ids \in Seq(Nat) /\ Ids(s, t) = more /\ Chain(s.nodes, t, more) /\ Chain(s.nodes, t, ids)
    <3>1. Chain(s.nodes, t, Ids(r, t))
      BY <1>1, <1>3, <1>11, ChainStays, GraphIs DEF Sound
    <3> QED  BY <1>1, <1>5, <1>11, <3>1
  <2>2. /\ more \in Seq(Nat) /\ Len(more) = Len(ids) + 1 /\ more[Len(ids) + 1] = new
        /\ Len(ids) \in Nat /\ \A i \in 1..Len(ids) : more[i] = ids[i]
    <3> HIDE DEF ids
    <3> QED  BY <1>6, <2>1
  <2> HIDE DEF ids, more
  <2>3. /\ v \in Seq(Nat) /\ Len(v) <= Len(ids)
        /\ \A i \in 1..Len(v) : v[i] = ids[i] /\ ~s.nodes[ids[i]].broken
        /\ \A i \in 1..Len(ids) : ~s.nodes[ids[i]].broken => i <= Len(v)
    BY <2>1, WorkingIs
  <2>4. /\ w \in Seq(Nat) /\ Len(w) <= Len(more)
        /\ \A i \in 1..Len(w) : w[i] = more[i] /\ ~s.nodes[more[i]].broken
        /\ \A i \in 1..Len(more) : ~s.nodes[more[i]].broken => i <= Len(w)
    BY <2>1, <2>2, WorkingIs
  <2> HIDE DEF v, w
  <2>5. Len(v) \in Nat /\ Len(w) \in Nat
    BY <2>3, <2>4
  <2>6. Len(w) <= Len(ids)
    <3> SUFFICES ASSUME ~(Len(w) <= Len(ids)) PROVE FALSE
      OBVIOUS
    <3>1. Len(ids) + 1 \in 1..Len(w)
      BY <2>2, <2>4, <2>5
    <3>2. ~s.nodes[new].broken
      BY <2>2, <2>4, <3>1
    <3> QED  BY <1>4, <1>6, <3>2
  <2>7. ~(Len(v) < Len(w))
    <3> SUFFICES ASSUME Len(v) < Len(w) PROVE FALSE
      OBVIOUS
    <3>1. Len(w) \in 1..Len(w) /\ Len(w) \in 1..Len(ids) /\ ~(Len(w) <= Len(v))
      BY <2>5, <2>6
    <3> QED  BY <2>2, <2>3, <2>4, <3>1
  <2>8. ~(Len(w) < Len(v))
    <3> SUFFICES ASSUME Len(w) < Len(v) PROVE FALSE
      OBVIOUS
    <3>1. Len(v) \in 1..Len(v) /\ Len(v) \in 1..Len(ids) /\ Len(v) \in 1..Len(more)
          /\ ~(Len(v) <= Len(w))
      BY <2>2, <2>3, <2>5
    <3> QED  BY <2>2, <2>3, <2>4, <3>1
  <2>9. Len(v) = Len(w)
    BY <2>5, <2>7, <2>8
  <2>10. \A i \in 1..Len(v) : v[i] = w[i]
    <3>1. \A i \in 1..Len(v) : i \in 1..Len(ids)
      BY <2>2, <2>3, <2>5
    <3> QED  BY <2>2, <2>3, <2>4, <2>9, <3>1
  <2>11. v = w
    BY <2>3, <2>4, <2>9, <2>10, SeqEqual
  <2>12. v = Working(r, Ids(r, t))
    BY <1>1, <1>13 DEF v, ids
  <2> QED  BY <2>1, <2>11, <2>12 DEF w
<1>15. ASSUME NEW m, Follows(a, s, e, m) PROVE LedgerIs(s, m)
  <2> DEFINE q == l.local[t]
             more == Append(q, new)
  <2>1. m \in Account /\ m.local = [l.local EXCEPT ![t] = more] /\ m.absorbed = l.absorbed
    BY <1>7, <1>8, <1>9, <1>15 DEF Follows
  <2>2. Ledger(m)
    BY <2>1 DEF Account, Ledger
  <2>3. q \in Seq(Nat) /\ more \in Seq(Nat) /\ ToSet(more) = ToSet(q) \cup {new}
    <3> HIDE DEF q
    <3>1. q \in Seq(Nat)
      BY <1>1, <1>11 DEF q
    <3> QED  BY <1>6, <3>1, OneMoreMember
  <2>4. \A u \in Tickets : m.local[u] = IF u = t THEN more ELSE l.local[u]
    BY <1>11, <2>1
  <2> HIDE DEF more
  <2>5. \A u \in Tickets : \A n \in ToSet(l.local[u]) : n \in LocalOf(m)
    BY <2>3, <2>4 DEF LocalOf
  <2>6. new \in LocalOf(m)
    BY <1>1, <2>3, <2>4 DEF LocalOf
  <2>7. \A n \in LocalOf(m) : n \in LocalOf(l) \/ n > Len(r.nodes)
    <3>1. new > Len(r.nodes)
      BY <1>6
    <3> QED  BY <2>3, <2>4, <3>1 DEF LocalOf
  <2>8. ASSUME NEW u \in Tickets
        PROVE  /\ Ids(s, u) = Working(s, Ids(s, u)) \o m.local[u]
               /\ \A n \in ToSet(m.local[u]) : s.nodes[n].broken
               /\ \A n \in ToSet(Ids(r, u)) : ~r.nodes[n].broken => n \in ToSet(Ids(s, u))
               /\ \A n \in ToSet(l.local[u]) : n \in LocalOf(m) \/ \E f : FoldsInto(s, m, n, u, f)
    <3>1. Ids(r, u) = Working(r, Ids(r, u)) \o l.local[u] /\ Working(r, Ids(r, u)) \in Seq(Nat)
      BY <1>11, WorkingIs DEF LedgerIs
    <3>2. \A n \in ToSet(l.local[u]) : s.nodes[n].broken
      BY <1>3, LocalIs DEF Broken, GoesOn
    <3>3. CASE u = t
      <4>1. Ids(s, t) = Append(Ids(r, t), new) /\ m.local[t] = more
        BY <1>1, <1>5, <2>4
      <4> DEFINE w == Working(r, Ids(r, t))
      <4>2. w \in Seq(Nat) /\ Ids(r, t) = w \o q
        BY <3>1, <3>3
      <4> HIDE DEF w, q
      <4>3. w \o Append(q, new) = Append(w \o q, new)
        BY <1>6, <2>3, <4>2, ConcatMore
      <4>4. Ids(s, t) = Working(s, Ids(s, t)) \o more
        BY <1>14, <4>1, <4>2, <4>3 DEF more, w
      <4>5. \A n \in ToSet(more) : s.nodes[n].broken
        BY <1>4, <1>6, <2>3, <3>2, <3>3 DEF q
      <4>6. ToSet(Ids(r, t)) \subseteq ToSet(Ids(s, t))
        BY <1>1, <1>6, <1>11, <4>1, OneMoreMember
      <4> QED  BY <2>5, <3>3, <4>1, <4>4, <4>5, <4>6
    <3>4. CASE u # t
      BY <1>5, <1>13, <2>4, <2>5, <3>1, <3>2, <3>4
    <3> QED  BY <3>3, <3>4
  <2>9. /\ l.absorbed \subseteq m.absorbed /\ \A f \in m.absorbed : f \in l.absorbed
        /\ \A n \in Broken(s) : n > Len(r.nodes) => n \in LocalOf(m)
    BY <1>6, <2>1, <2>6
  <2> QED  BY <1>3, <2>2, <2>7, <2>8, <2>9, LedgerMoves
<1>16. Books(s, l, Append(es, e))
  BY <1>2, <1>7, <1>8, <1>9, <1>10, <1>15, BooksGrow DEF a
<1>17. New(s) = new
  BY <1>6 DEF New
<1> QED  BY <1>3, <1>6, <1>16, <1>17 DEF s, e

\* A commit that went through: the branch went up before it, what broke folds into it.
LEMMA WorkedBooks ==
  ASSUME NEW r, Sound(r), NEW l, Ledger(l), LedgerIs(r, l), NEW t \in Mine(r),
         NEW es \in {<<>>, <<ColleaguesCost>>}
  PROVE  LET s == Commit(Pushed(r, t), t, FALSE, FALSE)
         IN /\ Sound(s) /\ t \in Open(s) /\ Works(s.nodes, Ids(s, t))
            /\ GoesOn(r.nodes, s.nodes) /\ Len(s.nodes) = Len(r.nodes) + 1
            /\ Books(s, l, Append(es, NodeDone(New(s))))
<1> DEFINE p == Pushed(r, t)
           s == Commit(p, t, FALSE, FALSE)
           node == Written(p, t, FALSE, FALSE)
           new == Len(r.nodes) + 1
           e == NodeDone(new)
           a == Advanced(l, es, s)
           w == Working(r, Ids(r, t))
<1>1. /\ t \in Open(r) /\ t \in Tickets
  BY DEF Mine, Open
<1>2. /\ Sound(p) /\ Open(p) = Open(r) /\ p.nodes = r.nodes /\ Clean(p.nodes, Ids(p, t))
      /\ ~p.tickets[t].theirs
      /\ \A u \in Tickets : Ids(p, u) = IF u = t THEN w ELSE Ids(r, u)
  <2>1. ~r.tickets[t].theirs
    BY DEF Mine
  <2>2. p.nodes = r.nodes
    BY <1>1, PushedIs
  <2>3. Sound(p) /\ Open(p) = Open(r) /\ Clean(p.nodes, Ids(p, t))
    BY <1>1, <2>2, PushedSound
  <2> QED  BY <1>1, <2>1, <2>2, <2>3, PushedFields
<1> HIDE DEF p
<1>3. /\ s \in Graph /\ node \in GraphNode /\ s.nodes = Append(r.nodes, node)
      /\ s.tickets = [p.tickets EXCEPT ![t] = WrittenOn(p, t)]
  BY <1>1, <1>2, CommitIs
<1>4. Sound(s) /\ Works(s.nodes, Ids(s, t)) /\ Open(s) = Open(r)
  BY <1>1, <1>2, CommitSound
<1>5. ~node.broken /\ node.kind = "commit" /\ ~node.theirs /\ node.ticket = t
  BY DEF Written, Node
<1>6. ASSUME NEW u \in Tickets
      PROVE  Ids(s, u) = IF u = t THEN Append(w, new) ELSE Ids(r, u)
  <2>1. /\ p.tickets[u] \in GraphTicket /\ p.tickets \in [Tickets -> GraphTicket]
    BY <1>2, GraphIs DEF Sound
  <2> HIDE DEF s, w, new
  <2>2. s.tickets[u] = IF u = t THEN WrittenOn(p, t) ELSE p.tickets[u]
    BY <1>3, <2>1
  <2>3. Ids(s, u) = IF u = t THEN Append(Ids(p, t), Len(p.nodes) + 1) ELSE Ids(p, u)
    BY <2>1, <2>2 DEF WrittenOn, GraphTicket, Ids
  <2> QED  BY <1>1, <1>2, <2>3 DEF new
<1> HIDE DEF s, node
<1>7. /\ Len(r.nodes) \in Nat /\ Len(s.nodes) = new /\ new \in 1..Len(s.nodes) /\ s.nodes[new] = node
      /\ new \in Nat /\ GoesOn(r.nodes, s.nodes) /\ \A n \in Broken(s) : ~(n > Len(r.nodes))
      /\ ~(new \in 1..Len(r.nodes))
  <2>1. /\ GoesOn(r.nodes, s.nodes) /\ \A n \in Broken(s) : ~(n > Len(r.nodes))
        /\ Len(s.nodes) = new /\ s.nodes[new] = node /\ new \in 1..Len(s.nodes)
        /\ Len(r.nodes) \in Nat
    <3>1. s.nodes = Append(r.nodes, node) /\ node \in GraphNode /\ ~node.broken /\ Sound(s)
      BY <1>3, <1>4, <1>5
    <3> QED  BY <3>1, OnceMore
  <2> QED  BY <2>1
<1>8. e \in EventRecord /\ e.type = "node_done" /\ e.node = new
  BY <1>7 DEF NodeDone, Event, EventRecord
<1> HIDE DEF e
<1>9. Heard(s, e) /\ Tells(s, e) /\ ~s.nodes[e.node].broken /\ s.nodes[e.node].ticket = t
  BY <1>1, <1>5, <1>7, <1>8 DEF Heard, Tells, BornLocal
<1>10. /\ es \in Seq(EventRecord) /\ AllHeard(s, es) /\ Settling(s, l, es)
       /\ a.local = l.local /\ a.absorbed = l.absorbed
  BY <1>3, BeforeIs
<1>11. ToSet(Flushed(e)) = {}
  BY <1>8, <1>9, FlushedIs
<1> HIDE DEF a
<1>12. /\ w \in Seq(Nat) /\ Clean(s.nodes, w)
       /\ \A n \in ToSet(Ids(r, t)) : ~r.nodes[n].broken => n \in ToSet(w)
  BY <1>1, <1>4, <1>7, WorkingKeeps
<1> HIDE DEF w
<1>13. /\ Ids(s, t) = Append(w, new) /\ Clean(s.nodes, Ids(s, t)) /\ new \in ToSet(Ids(s, t))
       /\ \A n \in ToSet(Ids(r, t)) : ~r.nodes[n].broken => n \in ToSet(Ids(s, t))
  <2>1. Ids(s, t) = Append(w, new)
    BY <1>1, <1>6
  <2>2. ToSet(Append(w, new)) = ToSet(w) \cup {new}
    BY <1>7, <1>12, OneMoreMember
  <2>3. Clean(s.nodes, Append(w, new))
    BY <1>5, <1>7, <1>12, CleanAppend
  <2> QED  BY <1>12, <2>1, <2>2, <2>3
<1>14. /\ l.local \in [Tickets -> Seq(Nat)] /\ l.local[t] \in Seq(Nat)
       /\ \A n \in ToSet(l.local[t]) : n \in 1..Len(r.nodes) /\ n \in Nat
  <2>1. l.local \in [Tickets -> Seq(Nat)] /\ l.local[t] \in Seq(Nat)
    BY <1>1 DEF Ledger
  <2>2. \A n \in ToSet(l.local[t]) : n \in 1..Len(r.nodes)
    BY <1>1, LocalIs
  <2> QED  BY <1>7, <2>1, <2>2
<1>15. ASSUME NEW m, Follows(a, s, e, m) PROVE LedgerIs(s, m)
  <2> DEFINE q == l.local[t]
             more == Append(q, new)
             into == [u \in Tickets |-> new]
             F == {t}
  <2>1. m \in Account /\ m.local = [l.local EXCEPT ![t] = <<>>]
        /\ m.absorbed = l.absorbed \cup Folding(more, new)
    BY <1>8, <1>9, <1>10, <1>15 DEF Follows
  <2>2. Ledger(m)
    BY <2>1 DEF Account, Ledger
  <2>3. q \in Seq(Nat) /\ more \in Seq(Nat) /\ ToSet(more) = ToSet(q) \cup {new}
    <3> HIDE DEF q
    <3>1. q \in Seq(Nat)
      BY <1>14 DEF q
    <3> QED  BY <1>7, <3>1, OneMoreMember
  <2>4. \A u \in Tickets : m.local[u] = IF u \in F THEN <<>> ELSE l.local[u]
    BY <1>14, <2>1
  <2> HIDE DEF more
  <2>5. Folding(more, new) = FoldedIn(l, F, into)
    <3>1. \A n \in ToSet(q) : n \in Nat /\ n # new
      BY <1>7, <1>14
    <3>2. ToSet(more) \ {new} = ToSet(q)
      BY <2>3, <3>1
    <3>3. into[t] = new
      BY <1>1
    <3> HIDE DEF q, into
    <3>4. Folding(more, new) = {<<n, new>> : n \in ToSet(q)}
      BY <3>2 DEF Folding
    <3>5. FoldedIn(l, F, into) = {f \in Nat \X Nat : f[1] \in ToSet(q) /\ f[2] = new}
      BY <3>3 DEF FoldedIn, q
    <3> HIDE DEF new
    <3>6. new \in Nat
      BY <1>7
    <3>7. ASSUME NEW f, f \in {<<n, new>> : n \in ToSet(q)}
          PROVE  f \in {g \in Nat \X Nat : g[1] \in ToSet(q) /\ g[2] = new}
      BY <3>1, <3>6, <3>7
    <3>8. ASSUME NEW f, f \in {g \in Nat \X Nat : g[1] \in ToSet(q) /\ g[2] = new}
          PROVE  f \in {<<n, new>> : n \in ToSet(q)}
      <4>1. f \in Nat \X Nat /\ f[1] \in ToSet(q) /\ f[2] = new
        BY <3>8
      <4>2. f = <<f[1], new>>
        BY <4>1
      <4> QED  BY <4>1, <4>2
    <3>9. {<<n, new>> : n \in ToSet(q)} = {g \in Nat \X Nat : g[1] \in ToSet(q) /\ g[2] = new}
      BY <3>7, <3>8
    <3> QED  BY <3>4, <3>5, <3>9
  <2>6. m.absorbed = l.absorbed \cup FoldedIn(l, F, into)
    BY <2>1, <2>5
  <2>7. \A u \in F : /\ Clean(s.nodes, Ids(s, u))
                     /\ \A n \in ToSet(Ids(r, u)) : ~r.nodes[n].broken => n \in ToSet(Ids(s, u))
                     /\ l.local[u] # <<>> => into[u] \in ToSet(Ids(s, u))
    BY <1>1, <1>13
  <2>8. \A u \in Tickets \ F : Ids(s, u) = Ids(r, u)
    BY <1>6
  <2>9. F \in SUBSET Tickets
    BY <1>1
  <2> HIDE DEF into, F
  <2> QED  BY <1>4, <1>7, <2>2, <2>4, <2>6, <2>7, <2>8, <2>9, LedgerFolds
<1>16. Books(s, l, Append(es, e))
  BY <1>3, <1>8, <1>9, <1>10, <1>11, <1>15, BooksGrow DEF a
<1>17. New(s) = new
  BY <1>7 DEF New
<1> QED  BY <1>1, <1>4, <1>7, <1>16, <1>17 DEF s, e, p

-----------------------------------------------------------------------------
(* The player's turns *)

\* A batch opens on the ledger as it was left.
LEMMA BooksOpen ==
  ASSUME NEW r, Sound(r), NEW l
  PROVE  Books(r, l, <<>>) <=> Ledger(l) /\ LedgerIs(r, l)
<1> DEFINE a == Advanced(l, <<>>, r)
<1>1. r \in Graph
  BY DEF Sound
<1>2. ASSUME Ledger(l)
      PROVE  /\ <<>> \in Seq(EventRecord) /\ AllHeard(r, <<>>) /\ Settling(r, l, <<>>)
             /\ a.local = l.local /\ a.absorbed = l.absorbed
  BY <1>1, <1>2, BeforeIs
<1> HIDE DEF a
<1>3. ASSUME Ledger(l), LedgerIs(r, l) PROVE Books(r, l, <<>>)
  <2>1. LedgerIs(r, a)
    BY <1>2, <1>3, LedgerSame
  <2> QED  BY <1>2, <1>3, <2>1 DEF Books, a
<1>4. ASSUME Books(r, l, <<>>) PROVE Ledger(l) /\ LedgerIs(r, l)
  <2>1. Ledger(l) /\ LedgerIs(r, a)
    BY <1>4 DEF Books, a
  <2> QED  BY <1>2, <2>1, LedgerSame
<1> QED  BY <1>3, <1>4

\* A commit, broken or not, and what it leads to.
LEMMA WritesBooks ==
  ASSUME BranchInv, NEW t \in Mine(repo), Writes(t), Ledger(ledger), LedgerIs(repo, ledger)
  PROVE  Books(repo', ledger, sent')
<1>1. Sound(repo)
  BY DEF BranchInv, SoundAtRest
<1>2. PICK broken \in BOOLEAN :
        repo' \in IF broken THEN {Commit(repo, t, TRUE, FALSE)}
                  ELSE Outcomes(Commit(Pushed(repo, t), t, FALSE, FALSE), t)
  BY DEF Writes
<1>3. PICK before \in CostsBefore : sent' = Append(before, NodeDone(New(repo')))
  BY DEF Writes
<1>4. before \in {<<>>, <<ColleaguesCost>>}
  BY CostsAre
<1>5. CASE broken
  <2>1. repo' = Commit(repo, t, TRUE, FALSE)
    BY <1>2, <1>5
  <2> DEFINE s == Commit(repo, t, TRUE, FALSE)
  <2>2. Books(s, ledger, Append(before, NodeDone(New(s))))
    BY <1>1, <1>4, BrokenBooks
  <2> QED  BY <1>3, <2>1, <2>2
<1>6. CASE ~broken
  <2> DEFINE s == Commit(Pushed(repo, t), t, FALSE, FALSE)
  <2>1. repo' \in Outcomes(s, t)
    BY <1>2, <1>6
  <2>2. /\ Sound(s) /\ t \in Open(s) /\ Works(s.nodes, Ids(s, t))
        /\ Books(s, ledger, Append(before, NodeDone(New(s))))
    BY <1>1, <1>4, WorkedBooks
  <2> HIDE DEF s
  <2>3. Moves(s, repo') /\ repo'.nodes = s.nodes
    BY <2>1, <2>2, OutcomesMove
  <2>4. New(repo') = New(s)
    BY <2>3 DEF New
  <2> QED  BY <1>3, <2>2, <2>3, <2>4, BooksMove
<1> QED  BY <1>5, <1>6

\* A ticket is opened, one that was in hand is left.
LEMMA StartBooks ==
  ASSUME BranchInv, StartTicket, Ledger(ledger), LedgerIs(repo, ledger)
  PROVE  Books(repo', ledger, sent')
<1>1. Sound(repo)
  BY DEF BranchInv, SoundAtRest
<1>2. PICK t \in Backlog(repo) :
        /\ repo' = OpenedFor(repo, {t}, FALSE)
        /\ sent' = IF hand = NoTicket THEN <<>> ELSE <<Event("checkout", t)>>
  BY DEF StartTicket
<1>3. Moves(repo, repo') /\ t \in Tickets
  <2>1. {t} \subseteq Backlog(repo) /\ t \in Tickets
    BY DEF Backlog
  <2> QED  BY <1>1, <1>2, <2>1, OpenedMoves
<1>4. Books(repo', ledger, <<>>)
  BY <1>1, <1>3, BooksOpen, BooksMove
<1>5. CASE sent' = <<>>
  BY <1>4, <1>5
<1>6. CASE sent' = <<Event("checkout", t)>>
  <2> DEFINE e == Event("checkout", t)
  <2>1. e \in EventRecord /\ e.type = "checkout"
    BY <1>3, EventIs
  <2> HIDE DEF e
  <2>2. Heard(repo', e)
    BY <2>1 DEF Heard
  <2>3. ToSet(Flushed(e)) = {}
    BY <2>1, <2>2, FlushedIs
  <2>4. Books(repo', ledger, Append(<<>>, e))
    BY <1>3, <1>4, <2>1, <2>2, <2>3, CleanBooks DEF Moves
  <2>5. Append(<<>>, e) = <<e>>
    OBVIOUS
  <2> QED  BY <1>6, <2>4, <2>5 DEF e
<1> QED  BY <1>2, <1>5, <1>6

LEMMA CheckoutBooks ==
  ASSUME BranchInv, Checkout, Ledger(ledger), LedgerIs(repo, ledger)
  PROVE  Books(repo', ledger, sent')
<1>1. Sound(repo) /\ repo' = repo
  BY DEF BranchInv, SoundAtRest, Checkout
<1>2. PICK t \in Mine(repo) : sent' = <<Event("checkout", t)>>
  BY DEF Checkout
<1> DEFINE e == Event("checkout", t)
<1>3. t \in Tickets
  BY DEF Mine, Open
<1>4. e \in EventRecord /\ e.type = "checkout" /\ sent' = <<e>>
  BY <1>2, <1>3, EventIs
<1> HIDE DEF e
<1>5. Heard(repo, e)
  BY <1>4 DEF Heard
<1>6. ToSet(Flushed(e)) = {}
  BY <1>4, <1>5, FlushedIs
<1>7. Books(repo, ledger, <<>>)
  BY <1>1, BooksOpen
<1>8. Books(repo, ledger, Append(<<>>, e))
  BY <1>1, <1>4, <1>5, <1>6, <1>7, CleanBooks
<1>9. Append(<<>>, e) = <<e>>
  OBVIOUS
<1> QED  BY <1>1, <1>4, <1>8, <1>9

\* The branch goes up to be read, and may come back with more to fill.
LEMMA SubmitIs ==
  ASSUME BranchInv, SubmitAccepted \/ SubmitRefused, Ledger(ledger), LedgerIs(repo, ledger)
  PROVE  LET p == Pushed(repo, hand)
             e == Event("pr_reviewed", hand)
         IN /\ Sound(p) /\ p.nodes = repo.nodes /\ Moves(p, repo') /\ repo'.nodes = p.nodes
            /\ e \in EventRecord /\ e.type # "node_done" /\ ~e.colleague
            /\ Books(p, ledger, Append(<<>>, e)) /\ sent' = Append(<<>>, e)
<1> DEFINE p == Pushed(repo, hand)
           e == Event("pr_reviewed", hand)
<1>1. /\ hand # NoTicket /\ ~IsObstacle(hand) /\ Ready(repo, hand) /\ sent' = <<e>>
  BY DEF SubmitAccepted, SubmitRefused
<1>2. /\ hand \in Mine(repo) /\ hand \in Open(repo) /\ hand \in Tickets /\ Sound(repo)
  BY <1>1, HandIs DEF BranchInv, SoundAtRest
<1>3. Works(repo.nodes, Ids(repo, hand)) /\ Obstacles(repo, hand) = {}
  BY <1>1, <1>2, ReadyIs
<1>4. /\ Sound(p) /\ p.nodes = repo.nodes /\ Open(p) = Open(repo) /\ Works(p.nodes, Ids(p, hand))
      /\ \A u \in Tickets : /\ p.tickets[u].status = repo.tickets[u].status
                            /\ p.tickets[u].theirs = repo.tickets[u].theirs
                            /\ Ids(p, u) = IF u = hand THEN Working(repo, Ids(repo, hand))
                                           ELSE Ids(repo, u)
  <2>1. p.nodes = repo.nodes
    BY <1>2, PushedIs
  <2>2. Sound(p) /\ Open(p) = Open(repo) /\ Works(repo.nodes, Ids(p, hand))
    BY <1>2, <1>3, PushedSound
  <2> QED  BY <1>2, <2>1, <2>2, PushedFields
<1>5. GoesOn(repo.nodes, p.nodes) /\ \A n \in Broken(p) : ~(n > Len(repo.nodes))
  <2>1. Len(repo.nodes) \in Nat
    BY <1>2, GraphIs DEF Sound
  <2> HIDE DEF p
  <2> QED  BY <1>4, <2>1 DEF GoesOn, Broken
<1>6. Frozen(p, hand)
  BY <1>2, <1>4, FrozenIs DEF Frozen
<1> HIDE DEF p
<1>7. Books(p, ledger, Append(<<>>, e)) /\ e \in EventRecord /\ e.type # "node_done" /\ ~e.colleague
  <2>1. <<>> \in {<<>>, <<ColleaguesCost>>}
    OBVIOUS
  <2>2. \A u \in Tickets : u # hand => Ids(p, u) = Ids(repo, u)
    BY <1>4
  <2>3. Ids(p, hand) = Working(repo, Ids(repo, hand))
    BY <1>2, <1>4
  <2>4. Books(p, ledger, Append(<<>>, e))
    BY <1>1, <1>2, <1>3, <1>4, <1>5, <1>6, <2>1, <2>2, <2>3, FeatureSentUp
  <2>5. e \in EventRecord /\ e.type # "node_done" /\ ~e.colleague
    BY <1>2, EventIs
  <2> QED  BY <2>4, <2>5
<1> HIDE DEF e
<1>8. Append(<<>>, e) = <<e>>
  OBVIOUS
<1>9. CASE SubmitAccepted
  <2>1. repo' = p
    BY <1>9 DEF SubmitAccepted, p
  <2>2. Moves(p, p)
    BY <1>4, SameMoves
  <2> QED  BY <1>1, <1>4, <1>7, <1>8, <2>1, <2>2 DEF p, e
<1>10. CASE SubmitRefused
  <2> DEFINE f == Filled(p, hand, FALSE)
  <2>1. /\ Sound(f) /\ f.nodes = p.nodes
        /\ \A u \in Tickets : /\ f.tickets[u].status = p.tickets[u].status
                              /\ f.tickets[u].theirs = p.tickets[u].theirs
                              /\ Ids(f, u) = Ids(p, u)
    BY <1>2, <1>4, FilledAdvances DEF Advances
  <2> HIDE DEF f
  <2>2. Moves(p, f)
    BY <1>4, <2>1, SameMoves DEF Frozen
  <2>3. repo' = f \/ \E t \in Backlog(repo) : repo' = OpenedFor(f, {t}, FALSE)
    BY <1>10 DEF SubmitRefused, f, p
  <2>4. Moves(p, repo') /\ repo'.nodes = p.nodes
    <3>1. CASE repo' = f
      BY <2>1, <2>2, <3>1
    <3>2. CASE \E t \in Backlog(repo) : repo' = OpenedFor(f, {t}, FALSE)
      <4>1. PICK t \in Backlog(repo) : repo' = OpenedFor(f, {t}, FALSE)
        BY <3>2
      <4>2. {t} \subseteq Backlog(f)
        BY <1>4, <2>1 DEF Backlog
      <4>3. Moves(f, repo')
        BY <2>1, <4>1, <4>2, OpenedMoves
      <4>4. repo'.nodes = f.nodes
        BY <2>1, <4>1 DEF OpenedFor, Sound, Graph
      <4> QED  BY <1>4, <2>1, <2>2, <4>3, <4>4, MovesTwice
    <3> QED  BY <2>3, <3>1, <3>2
  <2> QED  BY <1>1, <1>4, <1>7, <1>8, <2>4 DEF p, e
<1> QED  BY <1>9, <1>10

LEMMA SubmitBooks ==
  ASSUME BranchInv, SubmitAccepted \/ SubmitRefused, Ledger(ledger), LedgerIs(repo, ledger)
  PROVE  Books(repo', ledger, sent')
<1> DEFINE p == Pushed(repo, hand)
           e == Event("pr_reviewed", hand)
<1>1. Sound(p) /\ Moves(p, repo') /\ Books(p, ledger, Append(<<>>, e)) /\ sent' = Append(<<>>, e)
  BY SubmitIs
<1> HIDE DEF p, e
<1> QED  BY <1>1, BooksMove

\* The question of a review is answered: more is filled.
LEMMA FollowupBooks ==
  ASSUME BranchInv, Followup, Ledger(ledger), LedgerIs(repo, ledger)
  PROVE  Books(repo', ledger, sent')
<1> DEFINE t == asked.ticket
<1>1. repo' = Filled(repo, t, TRUE) /\ asked.kind = "rejected" /\ sent' = <<>>
  BY DEF Followup, Asks
<1>2. t \in Open(repo) /\ Sound(repo) /\ Works(repo.nodes, Ids(repo, t))
  BY <1>1, AskedIs DEF BranchInv, SoundAtRest, Reviewed
<1> HIDE DEF t
<1>3. /\ Sound(repo') /\ repo'.nodes = repo.nodes
      /\ \A u \in Tickets : /\ repo'.tickets[u].status = repo.tickets[u].status
                            /\ repo'.tickets[u].theirs = repo.tickets[u].theirs
                            /\ Ids(repo', u) = Ids(repo, u)
  <2>1. /\ Advances(repo, repo', t) /\ repo'.nodes = repo.nodes
        /\ \A u \in Tickets : /\ repo'.tickets[u].status = repo.tickets[u].status
                              /\ repo'.tickets[u].theirs = repo.tickets[u].theirs
                              /\ Ids(repo', u) = Ids(repo, u)
    BY <1>1, <1>2, FilledAdvances
  <2> QED  BY <2>1 DEF Advances
<1>4. Moves(repo, repo')
  BY <1>2, <1>3, SameMoves DEF Frozen
<1> QED  BY <1>1, <1>2, <1>4, BooksOpen, BooksMove

\* A feature lands, by the player: its branch goes up, dev gets a merge.
LEMMA LandsIs ==
  ASSUME BranchInv, asked.kind \in {"accepted", "rejected", "conflict"},
         Ledger(ledger), LedgerIs(repo, ledger), NEW before \in {<<>>, <<ColleaguesCost>>}
  PROVE  LET t == asked.ticket
             s == FeatureLanded(repo, t, FALSE)
             e == Event("ticket_merged", t)
         IN /\ t \in Tickets /\ Sound(repo) /\ Sound(s) /\ GoesOn(repo.nodes, s.nodes)
            /\ Len(s.nodes) = Len(repo.nodes) + 1 /\ s.nodes[New(s)].kind = "feature_merge"
            /\ Ids(s, t) = Working(repo, Ids(repo, t))
            /\ \A u \in Tickets : u # t => Ids(s, u) = Ids(repo, u)
            /\ e \in EventRecord /\ e.type # "node_done" /\ ~e.colleague
            /\ Books(s, ledger, Append(before, e))
            /\ Books(s, ledger, Append(Append(before, e), NodeDone(New(s))))
            /\ Append(Append(before, e), NodeDone(New(s))) = before \o <<e, NodeDone(New(s))>>
<1> DEFINE t == asked.ticket
           s == FeatureLanded(repo, t, FALSE)
           e == Event("ticket_merged", t)
           n == NodeDone(New(s))
<1>1. /\ t \in Open(repo) /\ t \in Tickets /\ ~IsObstacle(t) /\ Sound(repo)
      /\ Works(repo.nodes, Ids(repo, t)) /\ Obstacles(repo, t) = {}
  BY AskedIs DEF BranchInv, SoundAtRest, Reviewed
<1> DEFINE new == Len(repo.nodes) + 1
<1>5. /\ Sound(s) /\ GoesOn(repo.nodes, s.nodes) /\ \A k \in Broken(s) : ~(k > Len(repo.nodes))
      /\ Len(s.nodes) = new /\ new \in 1..Len(s.nodes) /\ s.nodes[new].kind = "feature_merge"
      /\ Ids(s, t) = Working(repo, Ids(repo, t)) /\ s.tickets[t].status = "merged"
      /\ \A u \in Tickets : u # t => s.tickets[u] = repo.tickets[u]
  BY <1>1, FeatureIs
<1> HIDE DEF s, t
<1>6. Frozen(s, t)
  BY <1>1, <1>5, FrozenIs
<1>7. \A u \in Tickets : u # t => Ids(s, u) = Ids(repo, u)
  BY <1>5 DEF Ids
<1>8. /\ Books(s, ledger, Append(before, e)) /\ e \in EventRecord
      /\ e.type # "node_done" /\ ~e.colleague
  <2>1. Books(s, ledger, Append(before, e))
    BY <1>1, <1>5, <1>6, <1>7, FeatureSentUp
  <2>2. e \in EventRecord /\ e.type # "node_done" /\ ~e.colleague
    BY <1>1, EventIs
  <2> QED  BY <2>1, <2>2
<1> HIDE DEF e
<1>9. Books(s, ledger, Append(Append(before, e), NodeDone(new)))
  BY <1>5, <1>8, NodeBooks DEF Sound
<1>10. n = NodeDone(new)
  BY <1>5 DEF New
<1>11. n \in EventRecord
  <2>1. new \in Nat
    BY <1>5
  <2> QED  BY <1>10, <2>1, NodeIs
<1>12. before \in Seq(EventRecord)
  <2>1. s \in Graph
    BY <1>5 DEF Sound
  <2> QED  BY <2>1, BeforeIs
<1> HIDE DEF n, new
<1>13. before \o <<e, n>> = Append(Append(before, e), n)
  BY <1>8, <1>11, <1>12, OneEventMore
<1> QED  BY <1>1, <1>5, <1>7, <1>8, <1>9, <1>10, <1>13 DEF s, t, e, n, new, New

LEMMA LandsBooks ==
  ASSUME BranchInv, asked.kind \in {"accepted", "rejected", "conflict"},
         LandsFeature(asked.ticket), Ledger(ledger), LedgerIs(repo, ledger)
  PROVE  Books(repo', ledger, sent')
<1> DEFINE s == FeatureLanded(repo, asked.ticket, FALSE)
           e == Event("ticket_merged", asked.ticket)
<1>1. repo' = s /\ \E before \in CostsBefore : sent' = before \o <<e, NodeDone(New(s))>>
  BY DEF LandsFeature
<1>2. PICK before \in CostsBefore : sent' = before \o <<e, NodeDone(New(s))>>
  BY <1>1
<1>3. before \in {<<>>, <<ColleaguesCost>>}
  BY CostsAre
<1>4. /\ Books(s, ledger, Append(Append(before, e), NodeDone(New(s))))
      /\ Append(Append(before, e), NodeDone(New(s))) = before \o <<e, NodeDone(New(s))>>
  BY <1>3, LandsIs
<1> QED  BY <1>1, <1>2, <1>4

LEMMA MergeObstacleBooks ==
  ASSUME BranchInv, MergeObstacle, Ledger(ledger), LedgerIs(repo, ledger)
  PROVE  Books(repo', ledger, sent')
<1>1. /\ repo' = ObstacleLanded(repo, hand, FALSE) /\ IsObstacle(hand) /\ Ready(repo, hand)
      /\ sent' = <<Event("obstacle_cleared", hand), NodeDone(New(repo'))>>
  BY DEF MergeObstacle
<1>2. hand # NoTicket
  BY <1>1 DEF IsObstacle, NoTicket
<1>3. /\ hand \in Mine(repo) /\ hand \in Tickets /\ Sound(repo) /\ Works(repo.nodes, Ids(repo, hand))
  BY <1>1, <1>2, HandIs, ReadyIs DEF BranchInv, SoundAtRest
<1> DEFINE s == ObstacleLanded(repo, hand, FALSE)
           e == Event("obstacle_cleared", hand)
<1>4. Books(s, ledger, <<e, NodeDone(New(s))>>)
  <2>1. /\ Books(s, ledger, Append(Append(<<>>, e), NodeDone(New(s))))
        /\ Append(Append(<<>>, e), NodeDone(New(s))) = <<e, NodeDone(New(s))>>
    BY <1>1, <1>3, ObstacleSentUp
  <2> QED  BY <2>1
<1> HIDE DEF s, e
<1>5. repo' = s /\ sent' = <<e, NodeDone(New(repo'))>>
  BY <1>1 DEF s, e
<1> QED  BY <1>4, <1>5

\* Whatever the player does, the ledger will follow.
LEMMA PlaysBooks ==
  ASSUME BranchInv, Plays, Ledger(ledger), LedgerIs(repo, ledger)
  PROVE  Books(repo', ledger, sent')
<1>1. Sound(repo)
  BY DEF BranchInv, SoundAtRest
<1>2. Books(repo, ledger, <<>>)
  BY <1>1, BooksOpen
<1>3. CASE StartTicket
  BY <1>3, StartBooks
<1>4. CASE Checkout
  BY <1>4, CheckoutBooks
<1>5. CASE HireDev \/ Rest \/ MergeConflicts \/ ChooseBonus
  <2>1. repo' = repo /\ sent' = <<>>
    BY <1>5 DEF HireDev, Rest, MergeConflicts, ChooseBonus
  <2> QED  BY <1>2, <2>1
<1>6. CASE WriteCommit
  <2>1. hand # NoTicket /\ Writes(hand)
    BY <1>6 DEF WriteCommit
  <2>2. hand \in Mine(repo)
    BY <2>1, HandIs
  <2> QED  BY <2>1, <2>2, WritesBooks
<1>7. CASE SubmitAccepted \/ SubmitRefused
  BY <1>7, SubmitBooks
<1>8. CASE Resume
  <2>1. Writes(asked.ticket) /\ asked.kind = "rejected"
    BY <1>8 DEF Resume, Asks
  <2>2. asked.ticket \in Mine(repo)
    BY <2>1, AskedIs
  <2> QED  BY <2>1, <2>2, WritesBooks
<1>9. CASE Followup
  BY <1>9, FollowupBooks
<1>10. CASE Merge
  BY <1>10, LandsBooks DEF Merge, Asks
<1>11. CASE ResolveConflict
  <2>1. CASE LandsFeature(asked.ticket)
    BY <1>11, <2>1, LandsBooks DEF ResolveConflict, Asks
  <2>2. CASE ~LandsFeature(asked.ticket)
    <3>1. repo' = repo /\ sent' = <<>>
      BY <1>11, <2>2 DEF ResolveConflict
    <3> QED  BY <1>2, <3>1
  <2> QED  BY <2>1, <2>2
<1>12. CASE MergeObstacle
  BY <1>12, MergeObstacleBooks
<1> QED  BY <1>3, <1>4, <1>5, <1>6, <1>7, <1>8, <1>9, <1>10, <1>11, <1>12 DEF Plays

-----------------------------------------------------------------------------
(* The ledger, at rest *)

\* The events of the batch, heard over the graph they led to, leave the ledger of it;
\* between two batches there is none.
LedgerInv ==
  BranchInv /\ Books(repo, ledger, sent) /\ (at \in {"idle", "told"} => sent = <<>>)

\* The page hears the batch.
LEMMA PublishBooks ==
  ASSUME LedgerInv, Publish
  PROVE  Books(repo', ledger', sent')
<1> DEFINE a == Advanced(ledger, sent, repo)
<1>1. /\ repo' = repo /\ sent' = <<>> /\ Sound(repo) /\ repo \in Graph
      /\ ledger' = [local |-> a.local, absorbed |-> a.absorbed]
  BY DEF Publish, LedgerInv, BranchInv, SoundAtRest, Sound
<1>2. /\ Ledger(ledger) /\ sent \in Seq(EventRecord) /\ AllHeard(repo, sent) /\ LedgerIs(repo, a)
  BY DEF LedgerInv, Books
<1>3. Ledger(a)
  BY <1>1, <1>2, AdvancedIs
<1> HIDE DEF a
<1>4. ledger'.local = a.local /\ ledger'.absorbed = a.absorbed
  BY <1>1
<1>5. Ledger(ledger') /\ LedgerIs(repo, ledger')
  BY <1>2, <1>3, <1>4, LedgerSame DEF Ledger
<1> QED  BY <1>1, <1>5, BooksOpen

\* What the invariant says to the player who moves, and to the reader of the ledger.
LEMMA LedgerAtRest ==
  ASSUME LedgerInv, at \in {"idle", "told"}
  PROVE  Sound(repo) /\ Ledger(ledger) /\ LedgerIs(repo, ledger)
<1>1. Sound(repo) /\ Books(repo, ledger, <<>>)
  BY DEF LedgerInv, BranchInv, SoundAtRest
<1> QED  BY <1>1, BooksOpen

LEMMA LedgerKeeps ==
  ASSUME LedgerInv, [BranchesNext]_branchVars
  PROVE  LedgerInv'
<1>1. BranchInv
  BY DEF LedgerInv
<1>2. CASE Plays
  <2>1. at = "idle" /\ at' \notin {"idle", "told"} /\ ledger' = ledger
    BY <1>2 DEF Plays, StartTicket, Checkout, HireDev, WriteCommit, Rest, SubmitAccepted,
       SubmitRefused, Resume, Followup, Merge, MergeConflicts, ResolveConflict, MergeObstacle,
       ChooseBonus, Asks, IsFree, TakesTurn, SamePage, LandsFeature
  <2>2. Books(repo', ledger', sent')
    BY <1>1, <1>2, <2>1, LedgerAtRest, PlaysBooks
  <2> QED  BY <1>1, <1>2, <2>1, <2>2, PlaysKeep DEF LedgerInv
<1>3. CASE PullTeam \/ TurnEnds \/ SprintCloses
  <2>1. at' \notin {"idle", "told"}
    BY <1>3 DEF PullTeam, TurnEnds, SprintCloses
  <2>2. BranchInv'
    BY <1>1, <1>3, PullTeamKeeps, ClockKeeps
  <2>3. Books(repo', ledger', sent')
    BY <1>1, <1>3, ClockBooks DEF LedgerInv
  <2> QED  BY <2>1, <2>2, <2>3 DEF LedgerInv
<1>4. CASE \E t \in Tickets : TeamWorks(t)
  <2>1. PICK t \in Tickets : TeamWorks(t)
    BY <1>4
  <2>2. at' \notin {"idle", "told"}
    BY <2>1 DEF TeamWorks
  <2>3. BranchInv'
    BY <1>1, <2>1, TeamWorksKeeps
  <2>4. Books(repo', ledger', sent')
    BY <1>1, <2>1, TeamBooks DEF LedgerInv
  <2> QED  BY <2>2, <2>3, <2>4 DEF LedgerInv
<1>5. CASE NextSprint
  <2>1. at' \notin {"idle", "told"}
    BY <1>5 DEF NextSprint
  <2> QED  BY <1>1, <1>5, <2>1, NextSprintKeeps, SprintBooks DEF LedgerInv
<1>6. CASE Publish
  <2>1. sent' = <<>>
    BY <1>6 DEF Publish
  <2> QED  BY <1>1, <1>6, <2>1, PublishKeeps, PublishBooks DEF LedgerInv
<1>7. CASE Complete \/ UNCHANGED branchVars
  <2>1. repo' = repo /\ ledger' = ledger /\ sent' = sent
    BY <1>7 DEF Complete, branchVars
  <2>2. at' \in {"idle", "told"} => at \in {"idle", "told"}
    BY <1>7 DEF Complete, branchVars
  <2>3. BranchInv'
    BY <1>1, <1>7, PublishKeeps
  <2> QED  BY <2>1, <2>2, <2>3 DEF LedgerInv
<1> QED  BY <1>2, <1>3, <1>4, <1>5, <1>6, <1>7 DEF BranchesNext

LEMMA LedgerInit ==
  ASSUME BranchesInit
  PROVE  LedgerInv
<1>1. BranchInv
  BY BranchInit
<1>2. /\ repo.nodes = <<Node("init", Main, <<>>, NoTicket, FALSE, FALSE),
                        Node("sprint_start", Dev, <<1>>, NoTicket, FALSE, FALSE)>>
      /\ \A t \in Tickets : Ids(repo, t) = <<>> /\ ledger.local[t] = <<>>
      /\ ledger.local \in [Tickets -> Seq(Nat)] /\ ledger.absorbed = {} /\ sent = <<>>
  <2>1. ledger = [local |-> [t \in Tickets |-> <<>>], absorbed |-> {}] /\ sent = <<>>
    BY DEF BranchesInit
  <2>2. /\ \A t \in Tickets : ledger.local[t] = <<>>
        /\ ledger.local \in [Tickets -> Seq(Nat)] /\ ledger.absorbed = {}
    BY <2>1
  <2>3. \A t \in Tickets : Ids(repo, t) = <<>>
    BY DEF BranchesInit, Ids
  <2>4. repo.nodes = <<Node("init", Main, <<>>, NoTicket, FALSE, FALSE),
                       Node("sprint_start", Dev, <<1>>, NoTicket, FALSE, FALSE)>>
    BY DEF BranchesInit
  <2> QED  BY <2>1, <2>2, <2>3, <2>4
<1>3. Broken(repo) = {}
  <2>1. \A n \in 1..2 : n = 1 \/ n = 2
    OBVIOUS
  <2> QED  BY <1>2, <2>1 DEF Broken, Node
<1>4. ASSUME NEW t \in Tickets
      PROVE  /\ Ids(repo, t) = Working(repo, Ids(repo, t)) \o ledger.local[t]
             /\ \A n \in ToSet(ledger.local[t]) : repo.nodes[n].broken
  <2>1. Working(repo, Ids(repo, t)) = <<>>
    <3> DEFINE ids == Ids(repo, t)
               w == Working(repo, ids)
    <3>1. ids \in Seq(Nat) /\ Chain(repo.nodes, t, ids) /\ ids = <<>>
      BY <1>1, <1>2, GraphIs DEF BranchInv, SoundAtRest, Sound
    <3> HIDE DEF ids
    <3>2. w \in Seq(Nat) /\ Len(w) <= Len(ids)
      BY <3>1, WorkingIs
    <3> HIDE DEF w
    <3>3. Len(w) <= 0
      BY <3>1, <3>2
    <3>4. w = <<>>
      BY <3>2, <3>3
    <3> QED  BY <3>4 DEF w, ids
  <2>2. ToSet(<<>>) = {} /\ <<>> \o <<>> = <<>>
    BY DEF ToSet
  <2> QED  BY <1>2, <2>1, <2>2
<1>5. Ledger(ledger)
  BY <1>2 DEF Ledger
<1>6. LedgerIs(repo, ledger)
  BY <1>2, <1>3, <1>4 DEF LedgerIs
<1>7. Books(repo, ledger, sent)
  <2>1. Sound(repo)
    BY <1>1 DEF BranchInv, SoundAtRest
  <2> QED  BY <1>2, <1>5, <1>6, <2>1, BooksOpen
<1> QED  BY <1>1, <1>2, <1>7 DEF LedgerInv

LEMMA LedgerInvHolds == Branches => []LedgerInv
<1>1. BranchesInit => LedgerInv
  BY LedgerInit
<1>2. LedgerInv /\ [BranchesNext]_branchVars => LedgerInv'
  BY LedgerKeeps
<1> QED  BY <1>1, <1>2, PTL DEF Branches

LEMMA LedgerTells ==
  ASSUME LedgerInv
  PROVE  LedgerIsTheBranches
<1> SUFFICES ASSUME at \in {"idle", "told"}
             PROVE  /\ \A t \in Tickets :
                         /\ Kept(t) = Working(repo, Kept(t)) \o ledger.local[t]
                         /\ \A n \in ToSet(ledger.local[t]) : repo.nodes[n].broken
                    /\ \A n \in {m \in Nodes(repo) : repo.nodes[m].broken} \ LocalOf(ledger) :
                         \E f \in ledger.absorbed :
                           /\ f[1] = n
                           /\ \A g \in ledger.absorbed : g[1] = n => g = f
                           /\ f[2] \in ToSet(Kept(repo.nodes[n].ticket))
  BY DEF LedgerIsTheBranches
<1>1. Sound(repo) /\ LedgerIs(repo, ledger)
  BY LedgerAtRest
<1>2. \A t : Kept(t) = Ids(repo, t)
  BY DEF Kept, Ids
<1>3. \A n \in {m \in Nodes(repo) : repo.nodes[m].broken} : n \in Broken(repo)
  <2>1. Nodes(repo) = 1..Len(repo.nodes)
    BY <1>1, GraphIs DEF Sound, Nodes
  <2> QED  BY <2>1 DEF Broken
<1>4. \A t \in Tickets : /\ Kept(t) = Working(repo, Kept(t)) \o ledger.local[t]
                         /\ \A n \in ToSet(ledger.local[t]) : repo.nodes[n].broken
  BY <1>1, <1>2 DEF LedgerIs
<1>5. ASSUME NEW n \in {m \in Nodes(repo) : repo.nodes[m].broken} \ LocalOf(ledger)
      PROVE  \E f \in ledger.absorbed : /\ f[1] = n
                                        /\ \A g \in ledger.absorbed : g[1] = n => g = f
                                        /\ f[2] \in ToSet(Kept(repo.nodes[n].ticket))
  <2>1. PICK f : FoldsInto(repo, ledger, n, repo.nodes[n].ticket, f)
    BY <1>1, <1>3 DEF LedgerIs
  <2> QED  BY <1>2, <2>1 DEF FoldsInto
<1> QED  BY <1>4, <1>5

\* Once a batch is published, what the ledger holds local on a branch is what broke on
\* it since its last push, at its tip; everything else that broke was folded, once, into
\* a commit that the same ticket keeps (pushes.ts and pushBranch agree).
THEOREM LedgerHolds == Branches => []LedgerIsTheBranches
<1>1. LedgerInv => LedgerIsTheBranches
  BY LedgerTells
<1> QED  BY <1>1, LedgerInvHolds, PTL

-----------------------------------------------------------------------------
(*                                THE STORY                                *)

-----------------------------------------------------------------------------
(* What is told *)

Screens == [nodes : SUBSET Nat, local : SUBSET Nat, absorbed : SUBSET (Nat \X Nat)]
Stage == [screen : Screens, pending : SUBSET Op]

\* A push that waits for the next commit: it folds what is drawn and not local.
Due(op, a, D) ==
  /\ op.ids \subseteq D /\ op.into \in op.ids /\ op.ids \cap LocalOf(a) = {}
  /\ \A n \in op.ids \ {op.into} : <<n, op.into>> \in a.absorbed

\* Folded into a merge that was drawn after its push.
Late(n, a, r) ==
  \E m \in Nodes(r) : <<n, m>> \in a.absorbed /\ r.nodes[m].kind = "obstacle_merge"

\* What is on stage is what the account `a` says of the commits drawn, D, but for
\* the pushes that wait and for what is late.
Shows(acc, a, r, D) ==
  /\ acc \in Stage /\ acc.screen.nodes = D /\ D \subseteq Nodes(r)
  /\ \A u \in Tickets : \A n \in ToSet(a.local[u]) :
       n \in D /\ r.nodes[n].ticket = u /\ n \in acc.screen.local
  /\ acc.screen.absorbed \subseteq a.absorbed
  /\ \A op \in acc.pending : Due(op, a, D)
  /\ \A n \in acc.screen.local \ LocalOf(a) :
       (\E op \in acc.pending : n \in op.ids) \/ Late(n, a, r)

LEMMA ShowsSame ==
  ASSUME NEW acc, NEW a, NEW r, NEW D, Shows(acc, a, r, D), NEW b, b.local = a.local,
         b.absorbed = a.absorbed
  PROVE  Shows(acc, b, r, D)
<1>1. LocalOf(b) = LocalOf(a)
  BY DEF LocalOf
<1> QED  BY <1>1 DEF Shows, Due, Late

LEMMA LocalMember ==
  ASSUME NEW a, NEW n
  PROVE  n \in LocalOf(a) <=> \E u \in Tickets : n \in ToSet(a.local[u])
BY DEF LocalOf

LEMMA PushStepsIs ==
  ASSUME NEW s \in Screens, NEW ops \in SUBSET Op
  PROVE  LET new == PushSteps(s, ops)
         IN /\ new \in Screens /\ new.nodes = s.nodes
            /\ \A n : n \in new.local <=>
                 /\ n \in s.local
                 /\ ~\E op \in ops : /\ op.into \in s.nodes
                                     /\ n = op.into \/ (n \in op.ids /\ n \in s.nodes)
            /\ \A f : f \in new.absorbed <=>
                 \/ f \in s.absorbed
                 \/ \E op \in ops : \E n \in op.ids :
                      /\ op.into \in s.nodes /\ n \in s.nodes /\ n # op.into
                      /\ f = <<n, op.into>>
<1> DEFINE told == {op \in ops : op.into \in s.nodes}
           folded(op) == (op.ids \cap s.nodes) \ {op.into}
           gone == UNION {folded(op) \cup {op.into} : op \in told}
           more == UNION {folded(op) \X {op.into} : op \in told}
           new == PushSteps(s, ops)
<1>1. /\ s = [nodes |-> s.nodes, local |-> s.local, absorbed |-> s.absorbed]
      /\ s.nodes \in SUBSET Nat /\ s.local \in SUBSET Nat /\ s.absorbed \in SUBSET (Nat \X Nat)
  BY DEF Screens
<1>2. new = [s EXCEPT !.local = @ \ gone, !.absorbed = @ \cup more]
  BY DEF PushSteps
<1>3. ASSUME NEW n
      PROVE  n \in gone <=> \E op \in ops : /\ op.into \in s.nodes
                                            /\ n = op.into \/ (n \in op.ids /\ n \in s.nodes)
  OBVIOUS
<1>4. ASSUME NEW f
      PROVE  f \in more <=> \E op \in ops : \E n \in op.ids :
                              /\ op.into \in s.nodes /\ n \in s.nodes /\ n # op.into
                              /\ f = <<n, op.into>>
  OBVIOUS
<1>5. more \subseteq Nat \X Nat
  <2> SUFFICES ASSUME NEW f \in more PROVE f \in Nat \X Nat
    OBVIOUS
  <2>1. PICK op \in ops : \E n \in op.ids :
                              /\ op.into \in s.nodes /\ n \in s.nodes /\ n # op.into
                              /\ f = <<n, op.into>>
    BY <1>4
  <2> QED  BY <1>1, <2>1
<1> HIDE DEF gone, more, new
<1>6. new = [nodes |-> s.nodes, local |-> s.local \ gone, absorbed |-> s.absorbed \cup more]
  BY <1>1, <1>2
<1>7. new \in Screens
  BY <1>1, <1>5, <1>6 DEF Screens
<1> QED  BY <1>3, <1>4, <1>6, <1>7 DEF new

\* What waited goes up.
LEMMA SettleShows ==
  ASSUME NEW acc, NEW a, NEW r, NEW D, Shows(acc, a, r, D)
  PROVE  Shows(Settle(acc), a, r, D) /\ Settle(acc).pending = {}
<1> DEFINE s == acc.screen
           ops == acc.pending
           new == PushSteps(s, ops)
<1>1. s \in Screens /\ ops \in SUBSET Op /\ s.nodes = D
  BY DEF Shows, Stage
<1>2. Settle(acc) = [screen |-> new, pending |-> {}]
  BY DEF Settle
<1>3. \A op \in ops : op.ids \subseteq D /\ op.into \in op.ids /\ op.ids \cap LocalOf(a) = {}
                      /\ \A n \in op.ids \ {op.into} : <<n, op.into>> \in a.absorbed
  BY DEF Shows, Due
<1> HIDE DEF s, ops, new
<1>4. /\ new \in Screens /\ new.nodes = s.nodes
      /\ \A n : n \in new.local <=>
           /\ n \in s.local
           /\ ~\E op \in ops : /\ op.into \in s.nodes
                               /\ n = op.into \/ (n \in op.ids /\ n \in s.nodes)
      /\ \A f : f \in new.absorbed <=>
           \/ f \in s.absorbed
           \/ \E op \in ops : \E n \in op.ids :
                /\ op.into \in s.nodes /\ n \in s.nodes /\ n # op.into
                /\ f = <<n, op.into>>
  BY <1>1, PushStepsIs DEF new
<1>5. ASSUME NEW u \in Tickets, NEW n \in ToSet(a.local[u])
      PROVE  n \in D /\ r.nodes[n].ticket = u /\ n \in new.local
  <2>1. n \in D /\ r.nodes[n].ticket = u /\ n \in s.local
    BY DEF Shows, s
  <2>2. n \in LocalOf(a)
    BY LocalMember
  <2> QED  BY <1>3, <1>4, <2>1, <2>2
<1>6. new.absorbed \subseteq a.absorbed
  BY <1>3, <1>4 DEF Shows, s
<1>7. ASSUME NEW n \in new.local \ LocalOf(a) PROVE Late(n, a, r)
  <2>1. n \in s.local /\ ~\E op \in ops : n \in op.ids
    BY <1>1, <1>3, <1>4
  <2> QED  BY <2>1 DEF Shows, s, ops
<1>8. D \subseteq Nodes(r)
  BY DEF Shows
<1>9. [screen |-> new, pending |-> {}] \in Stage
  BY <1>4 DEF Stage
<1>10. Shows([screen |-> new, pending |-> {}], a, r, D)
  BY <1>1, <1>4, <1>5, <1>6, <1>7, <1>8, <1>9 DEF Shows
<1> QED  BY <1>2, <1>10

\* The branches T go up, their last commits drawn or merges still to draw.
LEMMA FlushShows ==
  ASSUME NEW acc, NEW a \in Account, NEW r \in Graph, NEW D, Shows(acc, a, r, D), acc.pending = {},
         NEW T \in SUBSET Tickets, NEW i \in Nat, NEW b \in Account,
         \A u \in Tickets : b.local[u] = IF u \in T /\ Ids(r, u) # <<>> THEN <<>> ELSE a.local[u],
         b.absorbed = a.absorbed \cup FoldedBy(a, r, T),
         \A u \in T : Ids(r, u) # <<>> =>
           LET m == Last(Ids(r, u))
           IN m \in Nodes(r) /\ r.nodes[m].ticket = u
              /\ (m \in D \/ r.nodes[m].kind = "obstacle_merge")
  PROVE  Shows([screen |-> PushSteps(acc.screen, SentBy(a, r, T, i)), pending |-> {}], b, r, D)
<1> DEFINE s == acc.screen
           ops == SentBy(a, r, T, i)
           new == PushSteps(s, ops)
           last(u) == Last(Ids(r, u))
<1>1. s \in Screens /\ s.nodes = D /\ D \subseteq Nodes(r) /\ D \subseteq Nat
  BY DEF Shows, Stage, Screens
<1>2. /\ \A u \in Tickets : a.local[u] \in Seq(Nat) /\ b.local[u] \in Seq(Nat) /\ Ids(r, u) \in Seq(Nat)
      /\ a.absorbed \subseteq Nat \X Nat
  BY GraphIs DEF Account
<1>3. ASSUME NEW u \in T, Ids(r, u) # <<>>
      PROVE  /\ u \in Tickets /\ last(u) \in Nat /\ last(u) \in Nodes(r) /\ r.nodes[last(u)].ticket = u
             /\ last(u) \in D \/ r.nodes[last(u)].kind = "obstacle_merge"
  BY <1>2, <1>3, LastIs
<1>4. ASSUME NEW u \in T, Ids(r, u) # <<>>, a.local[u] # <<>>
      PROVE  LET op == Sending(a, r, u, i)
             IN /\ op \in Op /\ op.into = last(u)
                /\ \A n : n \in op.ids <=> n \in ToSet(a.local[u]) \/ n = last(u)
  <2> DEFINE q == a.local[u]
             group == Append(q, last(u))
  <2>1. q \in Seq(Nat) /\ last(u) \in Nat
    BY <1>2, <1>3, <1>4
  <2> HIDE DEF q, last
  <2>2. group \in Seq(Nat) /\ Last(group) = last(u) /\ ToSet(group) = ToSet(q) \cup {last(u)}
    BY <2>1, OneMoreMember
  <2>3. ToSet(group) \subseteq Nat
    BY <2>2, MembersAre
  <2> HIDE DEF group
  <2>4. Sending(a, r, u, i) = [ids |-> ToSet(group), into |-> Last(group), at |-> i, kind |-> "flush"]
    BY DEF Sending, Pushing, group, q, last
  <2> QED  BY <2>1, <2>2, <2>3, <2>4 DEF Op, q
<1>5. ASSUME NEW op \in ops
      PROVE  \E u \in T : Ids(r, u) # <<>> /\ a.local[u] # <<>> /\ op = Sending(a, r, u, i)
  BY DEF SentBy
<1>6. ASSUME NEW u \in T, Ids(r, u) # <<>>, a.local[u] # <<>> PROVE Sending(a, r, u, i) \in ops
  BY <1>6 DEF SentBy
<1>7. ops \in SUBSET Op
  BY <1>4, <1>5
<1> HIDE DEF s, ops, new, last
<1>8. /\ new \in Screens /\ new.nodes = s.nodes
      /\ \A n : n \in new.local <=>
           /\ n \in s.local
           /\ ~\E op \in ops : /\ op.into \in s.nodes
                               /\ n = op.into \/ (n \in op.ids /\ n \in s.nodes)
      /\ \A f : f \in new.absorbed <=>
           \/ f \in s.absorbed
           \/ \E op \in ops : \E n \in op.ids :
                /\ op.into \in s.nodes /\ n \in s.nodes /\ n # op.into
                /\ f = <<n, op.into>>
  BY <1>1, <1>7, PushStepsIs DEF new
<1>9. ASSUME NEW u \in T, Ids(r, u) # <<>>, NEW n \in ToSet(a.local[u]), n # last(u)
      PROVE  <<n, last(u)>> \in b.absorbed
  <2>1. n \in Nat /\ last(u) \in Nat
    BY <1>2, <1>3, <1>9, MembersAre
  <2>2. <<n, last(u)>> \in Folding(a.local[u], last(u))
    BY <1>9 DEF Folding
  <2>3. <<n, last(u)>> \in FoldedBy(a, r, T)
    BY <1>9, <2>1, <2>2 DEF FoldedBy, last
  <2> QED  BY <2>3
<1>10. ASSUME NEW u \in Tickets, NEW n \in ToSet(b.local[u])
       PROVE  n \in D /\ r.nodes[n].ticket = u /\ n \in new.local
  <2>1. b.local[u] = a.local[u] /\ ~(u \in T /\ Ids(r, u) # <<>>)
    <3>1. ToSet(<<>>) = {}
      BY DEF ToSet
    <3> QED  BY <1>10, <3>1
  <2>2. n \in D /\ r.nodes[n].ticket = u /\ n \in s.local
    BY <1>10, <2>1 DEF Shows, s
  <2>3. ASSUME NEW op \in ops, n = op.into \/ n \in op.ids PROVE FALSE
    <3>1. PICK w \in T : Ids(r, w) # <<>> /\ a.local[w] # <<>> /\ op = Sending(a, r, w, i)
      BY <1>5
    <3>2. n \in ToSet(a.local[w]) \/ n = last(w)
      BY <1>4, <2>3, <3>1
    <3>3. r.nodes[n].ticket = w
      BY <1>3, <3>1, <3>2 DEF Shows
    <3> QED  BY <2>1, <2>2, <3>1, <3>3
  <2> QED  BY <1>8, <2>2, <2>3
<1>11. new.absorbed \subseteq b.absorbed
  <2> SUFFICES ASSUME NEW f \in new.absorbed PROVE f \in b.absorbed
    OBVIOUS
  <2>1. CASE f \in s.absorbed
    BY <2>1 DEF Shows, s
  <2>2. CASE \E op \in ops : \E n \in op.ids : n # op.into /\ f = <<n, op.into>>
    <3>op. PICK op \in ops : \E n \in op.ids : n # op.into /\ f = <<n, op.into>>
      BY <2>2
    <3>1. PICK n \in op.ids : n # op.into /\ f = <<n, op.into>>
      BY <3>op
    <3>2. PICK w \in T : Ids(r, w) # <<>> /\ a.local[w] # <<>> /\ op = Sending(a, r, w, i)
      BY <1>5
    <3>3. op.into = last(w) /\ n \in ToSet(a.local[w])
      BY <1>4, <3>1, <3>2
    <3> QED  BY <1>9, <3>1, <3>2, <3>3
  <2> QED  BY <1>8, <2>1, <2>2
<1>12. ASSUME NEW n \in new.local \ LocalOf(b) PROVE Late(n, b, r)
  <2>1. n \in s.local
    BY <1>8
  <2>2. CASE n \notin LocalOf(a)
    <3>1. Late(n, a, r)
      BY <2>1, <2>2 DEF Shows, s
    <3> QED  BY <3>1 DEF Late
  <2>3. CASE n \in LocalOf(a)
    <3>1. PICK u \in Tickets : n \in ToSet(a.local[u])
      BY <2>3, LocalMember
    <3>2. n \notin ToSet(b.local[u])
      BY <1>12, LocalMember
    <3>3. u \in T /\ Ids(r, u) # <<>> /\ a.local[u] # <<>>
      <4>1. ToSet(<<>>) = {}
        BY DEF ToSet
      <4> QED  BY <3>1, <3>2, <4>1
    <3>4. n \in D
      BY <3>1 DEF Shows
    <3>5. last(u) \notin D
      <4>1. Sending(a, r, u, i) \in ops /\ n \in Sending(a, r, u, i).ids
            /\ Sending(a, r, u, i).into = last(u)
        BY <1>4, <1>6, <3>1, <3>3
      <4> QED  BY <1>1, <1>8, <1>12, <3>4, <4>1
    <3>6. <<n, last(u)>> \in b.absorbed
      BY <1>9, <3>1, <3>3, <3>4, <3>5
    <3> QED  BY <1>3, <3>3, <3>5, <3>6 DEF Late
  <2> QED  BY <2>2, <2>3
<1>13. [screen |-> new, pending |-> {}] \in Stage
  BY <1>8 DEF Stage
<1>14. Shows([screen |-> new, pending |-> {}], b, r, D)
  BY <1>1, <1>8, <1>10, <1>11, <1>12, <1>13 DEF Shows
<1> QED  BY <1>14 DEF new, s, ops

\* A commit is drawn that was not mine to push.
LEMMA RevealShows ==
  ASSUME NEW acc, NEW a, NEW r \in Graph, NEW D, Shows(acc, a, r, D), NEW n \in Nodes(r),
         ~BornLocal(r, n)
  PROVE  Shows([screen |-> Reveal(acc.screen, r, n), pending |-> acc.pending], a, r, D \cup {n})
<1> DEFINE s == acc.screen
           new == Reveal(s, r, n)
<1>1. /\ s \in Screens /\ acc.pending \in SUBSET Op /\ s.nodes = D /\ D \subseteq Nodes(r)
      /\ s = [nodes |-> s.nodes, local |-> s.local, absorbed |-> s.absorbed]
  BY DEF Shows, Stage, Screens
<1>2. new = [nodes |-> D \cup {n}, local |-> s.local, absorbed |-> s.absorbed]
  <2> HIDE DEF s
  <2>1. new = [s EXCEPT !.nodes = @ \cup {n}, !.local = @]
    BY DEF Reveal
  <2> QED  BY <1>1, <2>1
<1>3. n \in Nat
  BY GraphIs DEF Nodes
<1> HIDE DEF s, new
<1>4. new \in Screens /\ D \cup {n} \subseteq Nodes(r)
  BY <1>1, <1>2, <1>3 DEF Screens
<1>5. [screen |-> new, pending |-> acc.pending] \in Stage
  BY <1>1, <1>4 DEF Stage
<1>6. Shows([screen |-> new, pending |-> acc.pending], a, r, D \cup {n})
  <2>1. \A op \in acc.pending : Due(op, a, D \cup {n})
    BY DEF Shows, Due
  <2> QED  BY <1>2, <1>4, <1>5, <2>1 DEF Shows, s
<1> QED  BY <1>6 DEF new, s

LEMMA RevealIs ==
  ASSUME NEW s \in Screens, NEW r \in Graph, NEW n \in Nodes(r), BornLocal(r, n)
  PROVE  LET new == Reveal(s, r, n)
         IN /\ n \in Nat /\ new \in Screens /\ new.nodes = s.nodes \cup {n}
            /\ new.local = s.local \cup {n} /\ new.absorbed = s.absorbed
<1> DEFINE new == Reveal(s, r, n)
<1>1. s = [nodes |-> s.nodes, local |-> s.local, absorbed |-> s.absorbed]
      /\ s.nodes \in SUBSET Nat /\ s.local \in SUBSET Nat /\ s.absorbed \in SUBSET (Nat \X Nat)
  BY DEF Screens
<1>2. n \in Nat
  BY GraphIs DEF Nodes
<1>3. new = [s EXCEPT !.nodes = @ \cup {n}, !.local = @ \cup {n}]
  BY DEF Reveal
<1>4. new = [nodes |-> s.nodes \cup {n}, local |-> s.local \cup {n}, absorbed |-> s.absorbed]
  BY <1>1, <1>3
<1> QED  BY <1>1, <1>2, <1>4 DEF Screens

\* A commit of mine that breaks is drawn local.
LEMMA BrokenShows ==
  ASSUME NEW acc, NEW a \in Account, NEW r \in Graph, NEW D, Shows(acc, a, r, D), acc.pending = {},
         NEW n \in Nodes(r), BornLocal(r, n), NEW t \in Tickets, r.nodes[n].ticket = t,
         NEW b, b.local = [a.local EXCEPT ![t] = Append(a.local[t], n)], b.absorbed = a.absorbed
  PROVE  Shows([screen |-> Reveal(acc.screen, r, n), pending |-> {}], b, r, D \cup {n})
<1> DEFINE s == acc.screen
           new == Reveal(s, r, n)
<1>1. s \in Screens /\ s.nodes = D /\ D \subseteq Nodes(r)
  BY DEF Shows, Stage
<1>2. a.local \in [Tickets -> Seq(Nat)]
  BY DEF Account
<1> HIDE DEF s, new
<1>3. /\ n \in Nat /\ new \in Screens /\ new.nodes = D \cup {n}
      /\ new.local = s.local \cup {n} /\ new.absorbed = s.absorbed
  BY <1>1, RevealIs DEF new
<1>4. ToSet(Append(a.local[t], n)) = ToSet(a.local[t]) \cup {n}
  BY <1>2, <1>3, OneMoreMember
<1>5. \A u \in Tickets : ToSet(b.local[u]) = IF u = t THEN ToSet(a.local[t]) \cup {n} ELSE ToSet(a.local[u])
  BY <1>2, <1>4
<1>6. \A m : m \in LocalOf(b) <=> m \in LocalOf(a) \/ m = n
  BY <1>5, LocalMember
<1>7. ASSUME NEW u \in Tickets, NEW m \in ToSet(b.local[u])
      PROVE  m \in D \cup {n} /\ r.nodes[m].ticket = u /\ m \in new.local
  BY <1>3, <1>5, <1>7 DEF Shows, s
<1>8. ASSUME NEW m \in new.local \ LocalOf(b) PROVE Late(m, b, r)
  <2>1. m \in s.local /\ m \notin LocalOf(a)
    BY <1>3, <1>6
  <2>2. Late(m, a, r)
    BY <2>1 DEF Shows, s
  <2> QED  BY <2>2 DEF Late
<1>9. [screen |-> new, pending |-> {}] \in Stage
  BY <1>3 DEF Stage
<1>10. new.absorbed \subseteq b.absorbed
  BY <1>3 DEF Shows, s
<1>11. Shows([screen |-> new, pending |-> {}], b, r, D \cup {n})
  BY <1>1, <1>3, <1>7, <1>8, <1>9, <1>10 DEF Shows
<1> QED  BY <1>11 DEF new, s

\* One that goes through is drawn local until the next, and takes along what broke.
LEMMA WorkedShows ==
  ASSUME NEW acc, NEW a \in Account, NEW r \in Graph, NEW D, Shows(acc, a, r, D), acc.pending = {},
         NEW n \in Nodes(r), n \notin D, BornLocal(r, n), NEW t \in Tickets, r.nodes[n].ticket = t,
         NEW i \in Nat, NEW b, b.local = [a.local EXCEPT ![t] = <<>>],
         b.absorbed = a.absorbed \cup Folding(Append(a.local[t], n), n)
  PROVE  Shows([screen |-> Reveal(acc.screen, r, n),
                pending |-> {Pushing(Append(a.local[t], n), i, "commit")}], b, r, D \cup {n})
<1> DEFINE s == acc.screen
           new == Reveal(s, r, n)
           q == a.local[t]
           group == Append(q, n)
           op == Pushing(group, i, "commit")
<1>1. s \in Screens /\ s.nodes = D /\ D \subseteq Nodes(r)
  BY DEF Shows, Stage
<1>2. a.local \in [Tickets -> Seq(Nat)] /\ q \in Seq(Nat)
  BY DEF Account
<1> HIDE DEF s, new, q
<1>3. /\ n \in Nat /\ new \in Screens /\ new.nodes = D \cup {n}
      /\ new.local = s.local \cup {n} /\ new.absorbed = s.absorbed
  BY <1>1, RevealIs DEF new
<1>4. group \in Seq(Nat) /\ ToSet(group) = ToSet(q) \cup {n} /\ Last(group) = n
  BY <1>2, <1>3, OneMoreMember
<1>5. ToSet(group) \subseteq Nat
  BY <1>4, MembersAre
<1> HIDE DEF group
<1>6. op = [ids |-> ToSet(group), into |-> n, at |-> i, kind |-> "commit"] /\ op \in Op
  BY <1>3, <1>4, <1>5 DEF Pushing, Op
<1> HIDE DEF op
<1>7. \A u \in Tickets : ToSet(b.local[u]) = IF u = t THEN {} ELSE ToSet(a.local[u])
  <2>1. ToSet(<<>>) = {}
    BY DEF ToSet
  <2> QED  BY <1>2, <2>1
<1>8. \A u \in Tickets : \A m \in ToSet(a.local[u]) :
        m \in D /\ r.nodes[m].ticket = u /\ m \in s.local
  BY DEF Shows, s
<1>9. \A m : m \in LocalOf(a) <=> m \in LocalOf(b) \/ m \in ToSet(q)
  BY <1>7, LocalMember DEF q
<1>10. Due(op, b, D \cup {n})
  <2>1. op.ids \subseteq D \cup {n} /\ op.into \in op.ids
    BY <1>4, <1>6, <1>8 DEF q
  <2>2. ASSUME NEW m \in op.ids, m \in LocalOf(b) PROVE FALSE
    <3>1. PICK u \in Tickets : m \in ToSet(b.local[u])
      BY <2>2, LocalMember
    <3>2. u # t /\ m \in ToSet(a.local[u])
      BY <1>7, <3>1
    <3>3. m \in D /\ r.nodes[m].ticket = u
      BY <1>8, <3>2
    <3>4. m \in ToSet(q)
      BY <1>4, <1>6, <3>3
    <3> QED  BY <1>8, <3>2, <3>3, <3>4 DEF q
  <2>3. ASSUME NEW m \in op.ids \ {op.into} PROVE <<m, op.into>> \in b.absorbed
    <3>1. m \in ToSet(group) /\ m # n /\ op.into = n
      BY <1>6, <2>3
    <3>2. <<m, n>> \in Folding(group, n)
      BY <3>1 DEF Folding
    <3> QED  BY <3>1, <3>2 DEF group, q
  <2> QED  BY <2>1, <2>2, <2>3 DEF Due
<1>11. ASSUME NEW u \in Tickets, NEW m \in ToSet(b.local[u])
       PROVE  m \in D \cup {n} /\ r.nodes[m].ticket = u /\ m \in new.local
  BY <1>3, <1>7, <1>8, <1>11
<1>12. ASSUME NEW m \in new.local \ LocalOf(b) PROVE m \in op.ids \/ Late(m, b, r)
  <2>1. CASE m = n
    BY <1>4, <1>6, <2>1
  <2>2. CASE m \in s.local /\ m \notin LocalOf(a)
    <3>1. Late(m, a, r)
      BY <2>2 DEF Shows, s
    <3> QED  BY <3>1 DEF Late
  <2>3. CASE m \in ToSet(q)
    BY <1>4, <1>6, <2>3
  <2> QED  BY <1>3, <1>9, <2>1, <2>2, <2>3
<1>13. [screen |-> new, pending |-> {op}] \in Stage
  BY <1>3, <1>6 DEF Stage
<1>14. new.absorbed \subseteq b.absorbed
  BY <1>3 DEF Shows, s
<1>15. D \cup {n} \subseteq Nodes(r)
  BY <1>1
<1>16. Shows([screen |-> new, pending |-> {op}], b, r, D \cup {n})
  BY <1>3, <1>10, <1>11, <1>12, <1>13, <1>14, <1>15 DEF Shows
<1> QED  BY <1>16 DEF new, s, op, group, q

-----------------------------------------------------------------------------
(* An event is told *)

\* The pushes an event adds to the account.
Notes(acc, r, e, i) ==
  IF ~Tells(r, e) THEN SentBy(acc, r, ToSet(Flushed(e)), i)
  ELSE IF r.nodes[e.node].broken THEN {}
  ELSE {Pushing(Append(acc.local[r.nodes[e.node].ticket], e.node), i, "commit")}

LEMMA EmptiedIs ==
  ASSUME NEW acc \in Account, NEW t \in Tickets
  PROVE  LET base == [acc EXCEPT !.local[t] = <<>>]
         IN base \in Account /\ base.ops = acc.ops
<1> DEFINE base == [acc EXCEPT !.local[t] = <<>>]
<1>1. /\ acc.local \in [Tickets -> Seq(Nat)] /\ acc.absorbed \subseteq Nat \X Nat
      /\ acc = [local |-> acc.local, absorbed |-> acc.absorbed, ops |-> acc.ops]
      /\ acc.ops \in SUBSET Op
  BY DEF Account
<1>2. base = [local |-> [acc.local EXCEPT ![t] = <<>>], absorbed |-> acc.absorbed, ops |-> acc.ops]
  <2>1. acc = [local |-> acc.local, absorbed |-> acc.absorbed, ops |-> acc.ops]
    BY <1>1
  <2> QED  BY <2>1
<1>3. <<>> \in Seq(Nat)
  OBVIOUS
<1>4. [acc.local EXCEPT ![t] = <<>>] \in [Tickets -> Seq(Nat)]
  BY <1>1, <1>3
<1> QED  BY <1>1, <1>2, <1>4 DEF Account

LEMMA NotesAre ==
  ASSUME NEW acc \in Account, NEW r \in Graph, NEW e, Heard(r, e), NEW i \in Nat
  PROVE  /\ PushesOf(acc, r, e, i).ops = acc.ops \cup Notes(acc, r, e, i)
         /\ \A op \in Notes(acc, r, e, i) :
              op.at = i /\ op.kind = IF Tells(r, e) THEN "commit" ELSE "flush"
<1> DEFINE new == PushesOf(acc, r, e, i)
           t == r.nodes[e.node].ticket
           group == Append(acc.local[t], e.node)
<1>1. /\ acc.local \in [Tickets -> Seq(Nat)] /\ acc.absorbed \subseteq Nat \X Nat
      /\ acc = [local |-> acc.local, absorbed |-> acc.absorbed, ops |-> acc.ops]
      /\ acc.ops \in SUBSET Op
  BY DEF Account
<1>2. CASE ~Tells(r, e)
  <2> DEFINE F == ToSet(Flushed(e))
  <2>1. \A op \in SentBy(acc, r, F, i) : op.at = i /\ op.kind = "flush"
    BY DEF SentBy, Sending, Pushing
  <2>2. CASE e.type # "node_done"
    <3>1. new = FlushAll(acc, r, Flushed(e), i)
      BY <2>2 DEF PushesOf
    <3>2. Flushed(e) \in Seq(Tickets)
      BY FlushedIs
    <3>3. FlushAll(acc, r, Flushed(e), i).ops = acc.ops \cup SentBy(acc, r, F, i)
      BY <3>2, FlushAllIs
    <3> QED  BY <1>2, <2>1, <3>1, <3>3 DEF Notes
  <2>3. CASE e.type = "node_done"
    <3>1. new = acc
      BY <1>2, <2>3 DEF PushesOf, Tells
    <3>2. F = {}
      BY <2>3, FlushedIs
    <3>3. SentBy(acc, r, F, i) = {}
      BY <3>2 DEF SentBy
    <3> QED  BY <1>2, <3>1, <3>3 DEF Notes
  <2> QED  BY <2>2, <2>3
<1>3. CASE Tells(r, e)
  <2>1. t \in Tickets /\ e.node \in Nat /\ e.type = "node_done" /\ BornLocal(r, e.node)
    BY <1>3 DEF Tells, Heard
  <2>2. CASE r.nodes[e.node].broken
    <3>1. new = [acc EXCEPT !.local[t] = group]
      BY <2>1, <2>2 DEF PushesOf
    <3> HIDE DEF t, group
    <3>2. new.ops = acc.ops
      BY <1>1, <3>1
    <3> QED  BY <1>3, <2>2, <3>2 DEF Notes
  <2>3. CASE ~r.nodes[e.node].broken
    <3> DEFINE base == [acc EXCEPT !.local[t] = <<>>]
    <3>1. new = Together(base, group, i, "commit")
      BY <2>1, <2>3 DEF PushesOf
    <3>4. base \in Account /\ base.ops = acc.ops
      BY <2>1, EmptiedIs
    <3>5. acc.local[t] \in Seq(Nat)
      <4> HIDE DEF t
      <4> QED  BY <1>1, <2>1
    <3>6. group \in Seq(Nat) /\ group # <<>>
      <4> HIDE DEF t
      <4> QED  BY <2>1, <3>5, OneMoreMember
    <3> HIDE DEF base, group
    <3>7. Together(base, group, i, "commit").ops = base.ops \cup {Pushing(group, i, "commit")}
      BY <3>4, <3>6, TogetherIs
    <3>8. Notes(acc, r, e, i) = {Pushing(group, i, "commit")}
      BY <1>3, <2>3 DEF Notes, group
    <3> QED  BY <1>3, <3>1, <3>4, <3>7, <3>8 DEF Pushing
  <2> QED  BY <2>2, <2>3
<1> QED  BY <1>2, <1>3

\* What an event draws.
Drawn(e) == IF e.type = "node_done" THEN {e.node} ELSE {}

\* A commit of mine is told once, and what a branch that goes up ends on is drawn, or a
\* merge to draw.
Tellable(a, r, D, e) ==
  /\ Tells(r, e) => e.node \notin D
  /\ \A u \in ToSet(Flushed(e)) : a.local[u] # <<>> /\ Ids(r, u) # <<>> =>
       LET m == Last(Ids(r, u))
       IN m \in Nodes(r) /\ r.nodes[m].ticket = u
          /\ (m \in D \/ r.nodes[m].kind = "obstacle_merge")

LEMMA StepShows ==
  ASSUME NEW acc, NEW a \in Account, NEW r \in Graph, NEW D, Shows(acc, a, r, D),
         NEW e, Heard(r, e), Tellable(a, r, D, e), NEW i \in Nat, NEW b, Follows(a, r, e, b),
         NEW ops, \A k : OpsAt(ops, i, k) = {op \in Notes(a, r, e, i) : op.kind = k}
  PROVE  Shows(StepOf(acc, r, ops, e, i), b, r, D \cup Drawn(e))
<1> DEFINE F == ToSet(Flushed(e))
           flushes == OpsAt(ops, i, "flush")
           up == IF flushes = {} THEN acc
                 ELSE [screen |-> PushSteps(Settle(acc).screen, flushes), pending |-> {}]
           mine == e.type = "node_done" /\ ~r.nodes[e.node].theirs
           told == IF mine \/ e.type \in {"pr_reviewed", "checkout"} THEN Settle(up) ELSE up
           n == e.node
           t == r.nodes[n].ticket
<1>1. \A op \in Notes(a, r, e, i) : op.kind = IF Tells(r, e) THEN "commit" ELSE "flush"
  BY NotesAre
<1>2. b \in Account /\ F \subseteq Tickets
  BY FlushedIs DEF Follows, ToSet
<1>3. e.type = "node_done" => n \in Nodes(r)
  BY GraphIs DEF Heard, Nodes
<1>4. CASE ~Tells(r, e)
  <2> DEFINE all == Notes(a, r, e, i)
  <2>0. all = SentBy(a, r, F, i) /\ \A op \in all : op.kind = "flush"
    BY <1>1, <1>4 DEF Notes
  <2>k. flushes = {op \in all : op.kind = "flush"} /\ OpsAt(ops, i, "commit") = {op \in all : op.kind = "commit"}
    OBVIOUS
  <2> HIDE DEF all
  <2>1. flushes = SentBy(a, r, F, i) /\ OpsAt(ops, i, "commit") = {}
    BY <2>0, <2>k
  <2>2. /\ \A u \in Tickets : b.local[u] = IF u \in F /\ Ids(r, u) # <<>> THEN <<>> ELSE a.local[u]
        /\ b.absorbed = a.absorbed \cup FoldedBy(a, r, F)
    BY <1>4 DEF Follows
  <2> HIDE DEF F, flushes
  <2>3. Shows(up, b, r, D)
    <3>1. CASE flushes = {}
      <4>1. ASSUME NEW u \in F PROVE Ids(r, u) = <<>> \/ a.local[u] = <<>>
        <5>1. CASE Ids(r, u) # <<>> /\ a.local[u] # <<>>
          <6>1. Sending(a, r, u, i) \in SentBy(a, r, F, i)
            BY <5>1 DEF SentBy
          <6> QED  BY <2>1, <3>1, <6>1
        <5> QED  BY <5>1
      <4>2. \A u \in Tickets : b.local[u] = a.local[u]
        BY <2>2, <4>1
      <4>3. b.local = a.local
        BY <1>2, <4>2 DEF Account
      <4>4. FoldedBy(a, r, F) = {}
        BY <4>1 DEF FoldedBy, Folding, ToSet
      <4>5. b.absorbed = a.absorbed
        BY <2>2, <4>4
      <4>6. Shows(acc, b, r, D)
        BY <4>3, <4>5, ShowsSame
      <4> QED  BY <3>1, <4>6
    <3>2. CASE flushes # {}
      <4> DEFINE T == {u \in F : a.local[u] # <<>>}
      <4>1. Shows(Settle(acc), a, r, D) /\ Settle(acc).pending = {}
        BY SettleShows
      <4>2. T \in SUBSET Tickets
        BY <1>2
      <4>3. \A u \in Tickets : b.local[u] = IF u \in T /\ Ids(r, u) # <<>> THEN <<>> ELSE a.local[u]
        BY <2>2
      <4>4. SentBy(a, r, T, i) = flushes
        BY <2>1 DEF SentBy
      <4>5. FoldedBy(a, r, T) = FoldedBy(a, r, F)
        <5>1. ASSUME NEW u \in F, u \notin T, NEW into PROVE Folding(a.local[u], into) = {}
          BY <5>1 DEF Folding, ToSet
        <5> QED  BY <5>1 DEF FoldedBy
      <4>6. \A u \in T : Ids(r, u) # <<>> =>
              LET m == Last(Ids(r, u))
              IN m \in Nodes(r) /\ r.nodes[m].ticket = u
                 /\ (m \in D \/ r.nodes[m].kind = "obstacle_merge")
        BY DEF Tellable, F
      <4>7. b.absorbed = a.absorbed \cup FoldedBy(a, r, T)
        BY <2>2, <4>5
      <4> HIDE DEF T
      <4>8. Shows([screen |-> PushSteps(Settle(acc).screen, SentBy(a, r, T, i)), pending |-> {}],
                  b, r, D)
        BY <1>2, <4>1, <4>2, <4>3, <4>6, <4>7, FlushShows
      <4> QED  BY <3>2, <4>4, <4>8
    <3> QED  BY <3>1, <3>2
  <2> HIDE DEF up
  <2>4. Shows(told, b, r, D)
    BY <2>3, SettleShows
  <2> HIDE DEF told
  <2>5. CASE e.type # "node_done"
    <3>1. StepOf(acc, r, ops, e, i) = told
      BY <2>5 DEF StepOf, told, up, flushes
    <3>2. D \cup Drawn(e) = D
      BY <2>5 DEF Drawn
    <3> QED  BY <2>4, <3>1, <3>2
  <2>6. CASE e.type = "node_done"
    <3>1. StepOf(acc, r, ops, e, i)
            = [screen |-> Reveal(told.screen, r, n), pending |-> told.pending \cup {}]
      BY <2>1, <2>6 DEF StepOf, told, up, flushes
    <3>2. told.pending \cup {} = told.pending
      OBVIOUS
    <3>3. D \cup Drawn(e) = D \cup {n}
      BY <2>6 DEF Drawn
    <3>4. ~BornLocal(r, n)
      BY <1>4, <2>6 DEF Tells
    <3>5. Shows([screen |-> Reveal(told.screen, r, n), pending |-> told.pending], b, r, D \cup {n})
      BY <1>3, <2>4, <2>6, <3>4, RevealShows
    <3> QED  BY <3>1, <3>2, <3>3, <3>5
  <2> QED  BY <2>5, <2>6
<1>5. CASE Tells(r, e)
  <2>1. /\ e.type = "node_done" /\ n \in Nodes(r) /\ BornLocal(r, n) /\ t \in Tickets /\ n \notin D
    BY <1>3, <1>5 DEF Tells, Heard, Tellable
  <2>2. flushes = {} /\ OpsAt(ops, i, "commit") = Notes(a, r, e, i)
    BY <1>1, <1>5
  <2>3. mine
    BY <2>1 DEF BornLocal
  <2>4. StepOf(acc, r, ops, e, i)
          = [screen |-> Reveal(Settle(acc).screen, r, n),
             pending |-> Settle(acc).pending \cup Notes(a, r, e, i)]
    BY <2>1, <2>2, <2>3 DEF StepOf
  <2>5. Shows(Settle(acc), a, r, D) /\ Settle(acc).pending = {}
    BY SettleShows
  <2>6. D \cup Drawn(e) = D \cup {n}
    BY <2>1 DEF Drawn
  <2>7. StepOf(acc, r, ops, e, i)
          = [screen |-> Reveal(Settle(acc).screen, r, n), pending |-> Notes(a, r, e, i)]
    BY <2>4, <2>5
  <2>8. CASE r.nodes[n].broken
    <3>1. Notes(a, r, e, i) = {}
      BY <1>5, <2>8 DEF Notes
    <3>2. b.local = [a.local EXCEPT ![t] = Append(a.local[t], n)] /\ b.absorbed = a.absorbed
      BY <1>5, <2>8 DEF Follows
    <3>3. Shows([screen |-> Reveal(Settle(acc).screen, r, n), pending |-> {}], b, r, D \cup {n})
      BY <2>1, <2>5, <3>2, BrokenShows
    <3> QED  BY <2>6, <2>7, <3>1, <3>3
  <2>9. CASE ~r.nodes[n].broken
    <3>1. Notes(a, r, e, i) = {Pushing(Append(a.local[t], n), i, "commit")}
      BY <1>5, <2>9 DEF Notes
    <3>2. /\ b.local = [a.local EXCEPT ![t] = <<>>]
          /\ b.absorbed = a.absorbed \cup Folding(Append(a.local[t], n), n)
      BY <1>5, <2>9 DEF Follows
    <3>3. Shows([screen |-> Reveal(Settle(acc).screen, r, n),
                 pending |-> {Pushing(Append(a.local[t], n), i, "commit")}], b, r, D \cup {n})
      BY <2>1, <2>5, <3>2, WorkedShows
    <3> QED  BY <2>6, <2>7, <3>1, <3>3
  <2> QED  BY <2>8, <2>9
<1> QED  BY <1>4, <1>5 DEF Tells

-----------------------------------------------------------------------------
(* Events are told one after another *)

Opening(scr) == [screen |-> scr, pending |-> {}]

LEMMA TellingIs ==
  ASSUME NEW scr, NEW es, Len(es) \in Nat, NEW r, NEW ops
  PROVE  LET f == Telling(scr, es, r, ops)
         IN /\ f[0] = Opening(scr)
            /\ \A i \in 1..Len(es) : f[i] = StepOf(f[i - 1], r, ops, es[i], i)
<1> DEFINE L == Len(es)
           Is(f, k) == f = [j \in 0..k |-> IF j = 0 THEN Opening(scr) ELSE StepOf(f[j - 1], r, ops, es[j], j)]
           T == {k \in 0..L : \E f : Is(f, k)}
           h == CHOOSE f : Is(f, L)
<1>1. L \in Nat
  OBVIOUS
<1>2. 0 \in T
  <2>1. Is([j \in 0..0 |-> Opening(scr)], 0)
    OBVIOUS
  <2>2. 0 \in 0..L
    BY <1>1
  <2> HIDE DEF Is
  <2> QED  BY <2>1, <2>2
<1>3. ASSUME NEW k \in 0..(L - 1), k \in T PROVE k + 1 \in T
  <2>1. PICK g : Is(g, k)
    BY <1>3
  <2> DEFINE last == StepOf(g[k], r, ops, es[k + 1], k + 1)
             f == [j \in 0..(k + 1) |-> IF j = k + 1 THEN last ELSE g[j]]
  <2>2. k \in Nat /\ k + 1 \in 0..L
    BY <1>1
  <2>3. ASSUME NEW j \in 0..(k + 1)
        PROVE  f[j] = IF j = 0 THEN Opening(scr) ELSE StepOf(f[j - 1], r, ops, es[j], j)
    <3> HIDE DEF last
    <3>1. CASE j = k + 1
      <4>1. f[j] = last /\ j # 0 /\ j - 1 = k /\ f[k] = g[k]
        BY <2>2, <3>1
      <4> QED  BY <3>1, <4>1 DEF last
    <3>2. CASE j # k + 1
      <4>1. j \in 0..k /\ f[j] = g[j]
        BY <2>2, <3>2
      <4>2. g[j] = IF j = 0 THEN Opening(scr) ELSE StepOf(g[j - 1], r, ops, es[j], j)
        BY <2>1, <4>1
      <4>3. j # 0 => f[j - 1] = g[j - 1]
        BY <2>2, <4>1
      <4> QED  BY <4>1, <4>2, <4>3
    <3> QED  BY <3>1, <3>2
  <2>4. f = [j \in 0..(k + 1) |-> f[j]]
    OBVIOUS
  <2> HIDE DEF f
  <2>5. Is(f, k + 1)
    BY <2>3, <2>4
  <2> HIDE DEF Is
  <2> QED  BY <2>2, <2>5
<1>4. Is(h, L)
  <2>1. L \in T
    <3> HIDE DEF T
    <3> QED  BY <1>1, <1>2, <1>3, FromNought
  <2> HIDE DEF Is
  <2> QED  BY <2>1
<1>5. Telling(scr, es, r, ops) = h
  BY DEF Telling, Opening
<1> HIDE DEF h
<1>6. \A j \in 0..L : h[j] = IF j = 0 THEN Opening(scr) ELSE StepOf(h[j - 1], r, ops, es[j], j)
  BY <1>4
<1>7. h[0] = Opening(scr) /\ \A j \in 1..L : h[j] = StepOf(h[j - 1], r, ops, es[j], j)
  BY <1>1, <1>6
<1> QED  BY <1>5, <1>7

LEMMA StepSame ==
  ASSUME NEW acc, NEW r, NEW s, NEW ops, NEW more, NEW e, NEW i,
         \A k : OpsAt(more, i, k) = OpsAt(ops, i, k),
         e.type = "node_done" => s.nodes[e.node] = r.nodes[e.node]
  PROVE  StepOf(acc, s, more, e, i) = StepOf(acc, r, ops, e, i)
<1>1. OpsAt(more, i, "flush") = OpsAt(ops, i, "flush")
      /\ OpsAt(more, i, "commit") = OpsAt(ops, i, "commit")
  OBVIOUS
<1>2. CASE e.type # "node_done"
  BY <1>1, <1>2 DEF StepOf
<1>3. CASE e.type = "node_done"
  <2>1. s.nodes[e.node] = r.nodes[e.node]
    BY <1>3
  <2>2. \A sc : Reveal(sc, s, e.node) = Reveal(sc, r, e.node)
    BY <2>1 DEF Reveal, BornLocal
  <2> QED  BY <1>1, <1>3, <2>1, <2>2 DEF StepOf
<1> QED  BY <1>2, <1>3

\* The events `ms` begin with the events `es`, and what is told of these is the same.
Continues(es, r, ops, ms, s, more) ==
  /\ Len(es) \in Nat /\ Len(ms) \in Nat /\ Len(es) <= Len(ms)
  /\ \A i \in 1..Len(es) :
       /\ ms[i] = es[i] /\ \A k : OpsAt(more, i, k) = OpsAt(ops, i, k)
       /\ es[i].type = "node_done" => s.nodes[es[i].node] = r.nodes[es[i].node]

LEMMA TellingSame ==
  ASSUME NEW scr, NEW r, NEW s, NEW ops, NEW more, NEW es, NEW ms, Continues(es, r, ops, ms, s, more)
  PROVE  Telling(scr, ms, s, more)[Len(es)] = Telling(scr, es, r, ops)[Len(es)]
<1> DEFINE f == Telling(scr, es, r, ops)
           g == Telling(scr, ms, s, more)
           L == Len(es)
           T == {i \in 0..L : g[i] = f[i]}
<1>0. Len(es) \in Nat /\ Len(ms) \in Nat /\ Len(es) <= Len(ms)
  BY DEF Continues
<1>1. L \in Nat /\ f[0] = Opening(scr) /\ \A i \in 1..L : f[i] = StepOf(f[i - 1], r, ops, es[i], i)
  BY <1>0, TellingIs
<1>2. g[0] = Opening(scr) /\ \A i \in 1..Len(ms) : g[i] = StepOf(g[i - 1], s, more, ms[i], i)
  BY <1>0, TellingIs
<1> HIDE DEF f, g
<1>3. 0 \in T
  BY <1>1, <1>2
<1>4. ASSUME NEW k \in 0..(L - 1), k \in T PROVE k + 1 \in T
  <2>1. k + 1 \in 1..L /\ k + 1 \in 1..Len(ms) /\ k + 1 \in 0..L /\ (k + 1) - 1 = k
    BY <1>0, <1>1
  <2>2. g[k + 1] = StepOf(g[k], s, more, ms[k + 1], k + 1) /\ f[k + 1] = StepOf(f[k], r, ops, es[k + 1], k + 1)
    BY <1>1, <1>2, <2>1
  <2>3. /\ ms[k + 1] = es[k + 1] /\ \A kind : OpsAt(more, k + 1, kind) = OpsAt(ops, k + 1, kind)
        /\ es[k + 1].type = "node_done" => s.nodes[es[k + 1].node] = r.nodes[es[k + 1].node]
    BY <2>1 DEF Continues
  <2>4. StepOf(f[k], s, more, es[k + 1], k + 1) = StepOf(f[k], r, ops, es[k + 1], k + 1)
    BY <2>3, StepSame
  <2> QED  BY <1>4, <2>1, <2>2, <2>3, <2>4
<1>5. L \in T
  <2> HIDE DEF T
  <2> QED  BY <1>1, <1>3, <1>4, FromNought
<1> QED  BY <1>5 DEF f, g

\* A push is noted at its event.
LEMMA OpsBelow ==
  ASSUME NEW l, Ledger(l), NEW r \in Graph, NEW es \in Seq(EventRecord), AllHeard(r, es)
  PROVE  \A op \in Advanced(l, es, r).ops : op.at \in 1..Len(es)
<1> DEFINE f == Advancing(l, es, r)
           L == Len(es)
           T == {i \in 0..L : \A op \in f[i].ops : op.at \in 1..i}
<1>1. L \in Nat /\ f[0] = Base(l) /\ \A i \in 1..L : f[i] = PushesOf(f[i - 1], r, es[i], i)
  BY AdvancingIs
<1>2. \A i \in 0..L : f[i] \in Account
  BY AdvancingTyped
<1> HIDE DEF f
<1>3. 0 \in T
  BY <1>1 DEF Base
<1>4. ASSUME NEW k \in 0..(L - 1), k \in T PROVE k + 1 \in T
  <2>1. k + 1 \in 1..L /\ k + 1 \in 0..L /\ (k + 1) - 1 = k /\ k \in 0..L /\ k + 1 \in Nat
    BY <1>1
  <2>2. f[k + 1] = PushesOf(f[k], r, es[k + 1], k + 1) /\ f[k] \in Account /\ Heard(r, es[k + 1])
    BY <1>1, <1>2, <2>1 DEF AllHeard
  <2>3. /\ f[k + 1].ops = f[k].ops \cup Notes(f[k], r, es[k + 1], k + 1)
        /\ \A op \in Notes(f[k], r, es[k + 1], k + 1) : op.at = k + 1
    BY <2>1, <2>2, NotesAre
  <2>4. \A op \in f[k].ops : op.at \in 1..k
    BY <1>4
  <2>5. ASSUME NEW op \in f[k + 1].ops PROVE op.at \in 1..(k + 1)
    <3>1. CASE op \in f[k].ops
      <4>1. op.at \in 1..k
        BY <2>4, <3>1
      <4> QED  BY <2>1, <4>1
    <3>2. CASE op.at = k + 1
      BY <2>1, <3>2
    <3> QED  BY <2>3, <3>1, <3>2
  <2> QED  BY <2>1, <2>5
<1>5. L \in T
  <2> HIDE DEF T
  <2> QED  BY <1>1, <1>3, <1>4, FromNought
<1> QED  BY <1>5 DEF f, Advanced

\* The story of the events `es` from the screen `scr`, before it ends.
Tale(scr, l, es, r) == Telling(scr, es, r, Advanced(l, es, r).ops)[Len(es)]
TaleIs(scr, l, es, r, D) == Shows(Tale(scr, l, es, r), Advanced(l, es, r), r, D)

LEMMA TellingMoved ==
  ASSUME NEW scr, NEW r, NEW s, NEW es, NEW ops, Continues(es, r, ops, es, s, ops)
  PROVE  Telling(scr, es, s, ops)[Len(es)] = Telling(scr, es, r, ops)[Len(es)]
BY TellingSame

LEMMA TellingStep ==
  ASSUME NEW scr, NEW r, NEW ops, NEW ms, Len(ms) \in Nat, NEW i \in 1..Len(ms)
  PROVE  Telling(scr, ms, r, ops)[i] = StepOf(Telling(scr, ms, r, ops)[i - 1], r, ops, ms[i], i)
BY TellingIs

LEMMA TellingMore ==
  ASSUME NEW scr, NEW r, NEW es, NEW ms, NEW old, NEW ops, NEW n \in Nat, Len(es) = n,
         Len(ms) = n + 1, Continues(es, r, old, ms, r, ops)
  PROVE  Telling(scr, ms, r, ops)[Len(ms)]
           = StepOf(Telling(scr, es, r, old)[Len(es)], r, ops, ms[n + 1], n + 1)
<1>1. Telling(scr, ms, r, ops)[Len(es)] = Telling(scr, es, r, old)[Len(es)]
  BY TellingSame
<1>2. Telling(scr, ms, r, ops)[n + 1] = StepOf(Telling(scr, ms, r, ops)[n], r, ops, ms[n + 1], n + 1)
  <2> DEFINE i == n + 1
  <2>1. Len(ms) \in Nat /\ i \in 1..Len(ms) /\ i - 1 = n
    OBVIOUS
  <2> HIDE DEF i
  <2>2. Telling(scr, ms, r, ops)[i] = StepOf(Telling(scr, ms, r, ops)[i - 1], r, ops, ms[i], i)
    BY <2>1, TellingStep
  <2> QED  BY <2>1, <2>2 DEF i
<1> QED  BY <1>1, <1>2

LEMMA TaleGrows ==
  ASSUME NEW scr, NEW r \in Graph, NEW l, Ledger(l), NEW es \in Seq(EventRecord), AllHeard(r, es),
         NEW e \in EventRecord, Heard(r, e), NEW D, TaleIs(scr, l, es, r, D),
         Tellable(Advanced(l, es, r), r, D, e)
  PROVE  /\ TaleIs(scr, l, Append(es, e), r, D \cup Drawn(e))
         /\ Follows(Advanced(l, es, r), r, e, Advanced(l, Append(es, e), r))
         /\ Append(es, e) \in Seq(EventRecord) /\ AllHeard(r, Append(es, e))
<1> DEFINE a == Advanced(l, es, r)
           more == Append(es, e)
           b == Advanced(l, more, r)
           n == Len(es)
           f == Advancing(l, es, r)
           g == Advancing(l, more, r)
<1>1. /\ more \in Seq(EventRecord) /\ more[n + 1] = e /\ \A i \in 1..n : more[i] = es[i]
      /\ n \in Nat /\ Len(more) = n + 1
  OBVIOUS
<1>2. g[n + 1] = PushesOf(f[n], r, e, n + 1)
  BY AdvancedMore
<1>3. a = f[n] /\ a \in Account /\ b = g[n + 1]
  BY <1>1, AdvancedIs DEF Advanced
<1>4. \A op \in a.ops : op.at \in 1..n
  BY OpsBelow
<1>5. AllHeard(r, more)
  <2>1. \A i \in 1..Len(more) : i \in 1..n \/ i = n + 1
    BY <1>1
  <2> HIDE DEF more, n
  <2> QED  BY <1>1, <2>1 DEF AllHeard, n
<1>6. Shows(Tale(scr, l, es, r), a, r, D) /\ Tellable(a, r, D, e)
  BY DEF TaleIs
<1> HIDE DEF a, b, f, g, more, n
<1>7. Follows(a, r, e, b)
  BY <1>1, <1>2, <1>3, PushesAre
<1>8. b.ops = a.ops \cup Notes(a, r, e, n + 1) /\ \A op \in Notes(a, r, e, n + 1) : op.at = n + 1
  BY <1>1, <1>2, <1>3, NotesAre
<1>9. ASSUME NEW i \in 1..n, NEW k PROVE OpsAt(b.ops, i, k) = OpsAt(a.ops, i, k)
  <2>1. \A op \in Notes(a, r, e, n + 1) : op.at # i
    BY <1>1, <1>8
  <2> QED  BY <1>8, <2>1 DEF OpsAt
<1>10. \A k : OpsAt(b.ops, n + 1, k) = {op \in Notes(a, r, e, n + 1) : op.kind = k}
  <2>1. \A op \in a.ops : op.at # n + 1
    BY <1>1, <1>4
  <2> QED  BY <1>8, <2>1 DEF OpsAt
<1>11. Tale(scr, l, es, r) = Telling(scr, es, r, a.ops)[Len(es)]
       /\ Tale(scr, l, more, r) = Telling(scr, more, r, b.ops)[Len(more)]
  BY DEF Tale, a, b
<1>12. Tale(scr, l, more, r) = StepOf(Tale(scr, l, es, r), r, b.ops, e, n + 1)
  <2> DEFINE old == a.ops
             ops == b.ops
  <2>2. Len(es) = n
    BY DEF n
  <2>1. Continues(es, r, old, more, r, ops)
    BY <1>1, <1>9, <2>2 DEF Continues
  <2> HIDE DEF old, ops
  <2>3. Telling(scr, more, r, ops)[Len(more)]
          = StepOf(Telling(scr, es, r, old)[Len(es)], r, ops, e, n + 1)
    BY <1>1, <2>1, <2>2, TellingMore
  <2> QED  BY <1>11, <2>3 DEF old, ops
<1>14. n + 1 \in Nat
  BY <1>1
<1>15. Shows(StepOf(Tale(scr, l, es, r), r, b.ops, e, n + 1), b, r, D \cup Drawn(e))
  BY <1>3, <1>6, <1>7, <1>10, <1>14, StepShows
<1>17. TaleIs(scr, l, more, r, D \cup Drawn(e))
  BY <1>12, <1>15 DEF TaleIs, b
<1> QED  BY <1>1, <1>5, <1>7, <1>17 DEF a, b, more

LEMMA ShowsMoves ==
  ASSUME NEW acc, NEW a, NEW r \in Graph, NEW s \in Graph, GoesOn(r.nodes, s.nodes), NEW D,
         Shows(acc, a, r, D)
  PROVE  Shows(acc, a, s, D)
<1>1. Nodes(r) \subseteq Nodes(s) /\ \A n \in Nodes(r) : s.nodes[n] = r.nodes[n]
  <2>1. r.nodes \in Seq(GraphNode) /\ s.nodes \in Seq(GraphNode)
    BY GraphIs
  <2> QED  BY <2>1 DEF GoesOn, Nodes
<1>2. D \subseteq Nodes(r)
  BY DEF Shows
<1>3. \A n : Late(n, a, r) => Late(n, a, s)
  BY <1>1 DEF Late
<1> QED  BY <1>1, <1>2, <1>3 DEF Shows

\* The team and the clock do not change what was told.
LEMMA TaleMoves ==
  ASSUME NEW r, Sound(r), NEW s, Moves(r, s), NEW l, NEW es, Books(r, l, es), NEW scr, NEW D,
         TaleIs(scr, l, es, r, D)
  PROVE  TaleIs(scr, l, es, s, D) /\ Advanced(l, es, s) = Advanced(l, es, r)
<1> DEFINE a == Advanced(l, es, r)
<1>1. r \in Graph /\ s \in Graph /\ GoesOn(r.nodes, s.nodes) /\ es \in Seq(EventRecord)
      /\ AllHeard(r, es)
  BY DEF Moves, Sound, Books
<1>2. Advanced(l, es, s) = a
  <2>1. Len(es) \in 0..Len(es)
    BY <1>1
  <2> QED  BY <2>1, BooksMove DEF Advanced
<1>3. ASSUME NEW i \in 1..Len(es), es[i].type = "node_done"
      PROVE  s.nodes[es[i].node] = r.nodes[es[i].node]
  BY <1>1, <1>3 DEF AllHeard, Heard, GoesOn
<1> HIDE DEF a
<1>4. Telling(scr, es, s, a.ops)[Len(es)] = Telling(scr, es, r, a.ops)[Len(es)]
  <2> DEFINE ops == a.ops
  <2>1. Continues(es, r, ops, es, s, ops)
    BY <1>1, <1>3 DEF Continues
  <2> HIDE DEF ops
  <2>2. Telling(scr, es, s, ops)[Len(es)] = Telling(scr, es, r, ops)[Len(es)]
    BY <2>1, TellingMoved
  <2> QED  BY <2>2 DEF ops
<1>5. Tale(scr, l, es, s) = Tale(scr, l, es, r)
  BY <1>2, <1>4 DEF Tale, a
<1>6. Shows(Tale(scr, l, es, r), a, r, D)
  BY DEF TaleIs, a
<1>7. Shows(Tale(scr, l, es, r), a, s, D)
  BY <1>1, <1>6, ShowsMoves
<1> QED  BY <1>2, <1>5, <1>7 DEF TaleIs, a

-----------------------------------------------------------------------------
(* The batch, as it will be told *)

LEMMA NodesAre ==
  ASSUME NEW r \in Graph
  PROVE  Nodes(r) = 1..Len(r.nodes) /\ Len(r.nodes) \in Nat
BY GraphIs DEF Nodes

\* A commit that is not mine to push.
LEMMA TaleNode ==
  ASSUME NEW r \in Graph, NEW l, NEW es, Books(r, l, es), NEW scr, NEW D, TaleIs(scr, l, es, r, D),
         NEW n \in 1..Len(r.nodes), r.nodes[n].kind # "commit" \/ r.nodes[n].theirs
  PROVE  TaleIs(scr, l, Append(es, NodeDone(n)), r, D \cup {n})
<1> DEFINE e == NodeDone(n)
<1>1. e \in EventRecord /\ e.type = "node_done" /\ e.node = n
  <2>1. n \in Nat
    OBVIOUS
  <2> QED  BY <2>1 DEF NodeDone, Event, EventRecord
<1> HIDE DEF e
<1>2. ~BornLocal(r, e.node)
  BY <1>1 DEF BornLocal
<1>3. Heard(r, e) /\ ~Tells(r, e)
  BY <1>1, <1>2 DEF Heard, Tells
<1>4. ToSet(Flushed(e)) = {}
  BY <1>1, <1>3, FlushedIs
<1>5. Tellable(Advanced(l, es, r), r, D, e)
  BY <1>3, <1>4 DEF Tellable
<1>6. Drawn(e) = {n}
  BY <1>1 DEF Drawn
<1>7. Ledger(l) /\ es \in Seq(EventRecord) /\ AllHeard(r, es)
  BY DEF Books
<1>8. TaleIs(scr, l, Append(es, e), r, D \cup Drawn(e))
  BY <1>1, <1>3, <1>5, <1>7, TaleGrows
<1> QED  BY <1>6, <1>8 DEF e

\* An event that sends up branches where nothing broke.
LEMMA TaleClean ==
  ASSUME NEW r, Sound(r), NEW l, NEW es, Books(r, l, es), NEW scr, NEW D, TaleIs(scr, l, es, r, D),
         NEW e \in EventRecord, Heard(r, e), e.type # "node_done",
         \A u \in ToSet(Flushed(e)) : Clean(r.nodes, Ids(r, u))
  PROVE  TaleIs(scr, l, Append(es, e), r, D)
<1>1. ~Tells(r, e) /\ r \in Graph
  BY DEF Tells, Sound
<1>2. ToSet(Flushed(e)) \subseteq Tickets
  BY FlushedIs DEF ToSet
<1>3. Ledger(Advanced(l, es, r)) /\ LedgerIs(r, Advanced(l, es, r))
  BY <1>1, AdvancedIs DEF Books
<1>4. ASSUME NEW u \in ToSet(Flushed(e)) PROVE Advanced(l, es, r).local[u] = <<>>
  BY <1>2, <1>3, LocalIs
<1>5. Tellable(Advanced(l, es, r), r, D, e)
  BY <1>1, <1>4 DEF Tellable
<1>6. D \cup Drawn(e) = D
  BY DEF Drawn
<1>7. Ledger(l) /\ es \in Seq(EventRecord) /\ AllHeard(r, es)
  BY DEF Books
<1>8. TaleIs(scr, l, Append(es, e), r, D \cup Drawn(e))
  BY <1>1, <1>5, <1>7, TaleGrows
<1> QED  BY <1>6, <1>8

\* None of it is a colleague's.
Alone(es) == \A i \in 1..Len(es) : ~es[i].colleague

\* Told to its end, the batch has drawn every commit, as the ledger will have it.
Draws(scr, r, l, es) == Books(r, l, es) /\ TaleIs(scr, l, es, r, Nodes(r)) /\ Alone(es)

LEMMA AloneMore ==
  ASSUME NEW es \in Seq(EventRecord), Alone(es), NEW e \in EventRecord, ~e.colleague
  PROVE  Alone(Append(es, e)) /\ Append(es, e) \in Seq(EventRecord)
<1> DEFINE more == Append(es, e)
<1>1. /\ more \in Seq(EventRecord) /\ more[Len(es) + 1] = e /\ \A i \in 1..Len(es) : more[i] = es[i]
      /\ Len(es) \in Nat /\ Len(more) = Len(es) + 1
  OBVIOUS
<1> HIDE DEF more
<1>2. \A i \in 1..Len(more) : i \in 1..Len(es) \/ i = Len(es) + 1
  BY <1>1
<1> QED  BY <1>1, <1>2 DEF Alone, more

LEMMA NodeAlone ==
  ASSUME NEW n \in Nat
  PROVE  NodeDone(n) \in EventRecord /\ ~NodeDone(n).colleague
BY DEF NodeDone, Event, EventRecord

\* Nothing is written.
LEMMA DrawsMove ==
  ASSUME NEW r, Sound(r), NEW s, Moves(r, s), Len(s.nodes) = Len(r.nodes),
         NEW scr, NEW l, NEW es, Draws(scr, r, l, es)
  PROVE  Draws(scr, s, l, es)
<1>1. Nodes(s) = Nodes(r)
  BY NodesAre DEF Sound, Moves
<1>2. Books(s, l, es)
  BY BooksMove DEF Draws
<1>3. TaleIs(scr, l, es, s, Nodes(r))
  BY TaleMoves DEF Draws
<1> QED  BY <1>1, <1>2, <1>3 DEF Draws

\* One commit is, that is not mine to push.
LEMMA DrawsNode ==
  ASSUME NEW r, Sound(r), NEW s, Moves(r, s), Len(s.nodes) = Len(r.nodes) + 1,
         NEW n, n = Len(s.nodes), s.nodes[n].kind # "commit" \/ s.nodes[n].theirs,
         NEW scr, NEW l, NEW es, Draws(scr, r, l, es)
  PROVE  Draws(scr, s, l, Append(es, NodeDone(n)))
<1>1. r \in Graph /\ s \in Graph
  BY DEF Sound, Moves
<1>2. Nodes(s) = Nodes(r) \cup {n} /\ n \in 1..Len(s.nodes) /\ n \in Nat
  <2>1. /\ Nodes(r) = 1..Len(r.nodes) /\ Len(r.nodes) \in Nat
        /\ Nodes(s) = 1..Len(s.nodes) /\ Len(s.nodes) \in Nat
    BY <1>1, NodesAre
  <2> QED  BY <2>1
<1>3. Books(s, l, es) /\ es \in Seq(EventRecord)
  BY BooksMove DEF Draws, Books
<1>4. TaleIs(scr, l, es, s, Nodes(r))
  BY TaleMoves DEF Draws
<1>5. TaleIs(scr, l, Append(es, NodeDone(n)), s, Nodes(r) \cup {n})
  BY <1>1, <1>2, <1>3, <1>4, TaleNode
<1>6. Books(s, l, Append(es, NodeDone(n)))
  BY <1>1, <1>2, <1>3, NodeBooks
<1>7. Alone(Append(es, NodeDone(n)))
  BY <1>2, <1>3, AloneMore, NodeAlone DEF Draws
<1> QED  BY <1>2, <1>5, <1>6, <1>7 DEF Draws

\* A merge is, and the event before it sends up branches where nothing broke.
LEMMA DrawsMerge ==
  ASSUME NEW r, Sound(r), NEW s, Moves(r, s), Len(s.nodes) = Len(r.nodes) + 1,
         NEW n, n = Len(s.nodes), s.nodes[n].kind # "commit",
         NEW e \in EventRecord, Heard(s, e), e.type # "node_done", ~e.colleague,
         \A u \in ToSet(Flushed(e)) : Clean(s.nodes, Ids(s, u)),
         NEW scr, NEW l, NEW es, Draws(scr, r, l, es)
  PROVE  Draws(scr, s, l, Append(Append(es, e), NodeDone(n)))
<1> DEFINE more == Append(es, e)
<1>1. r \in Graph /\ s \in Graph /\ Sound(s)
  BY DEF Sound, Moves
<1>2. Nodes(s) = Nodes(r) \cup {n} /\ n \in 1..Len(s.nodes) /\ n \in Nat
  <2>1. /\ Nodes(r) = 1..Len(r.nodes) /\ Len(r.nodes) \in Nat
        /\ Nodes(s) = 1..Len(s.nodes) /\ Len(s.nodes) \in Nat
    BY <1>1, NodesAre
  <2> QED  BY <2>1
<1>3. Books(s, l, es) /\ es \in Seq(EventRecord)
  BY BooksMove DEF Draws, Books
<1>4. TaleIs(scr, l, es, s, Nodes(r))
  BY TaleMoves DEF Draws
<1>5. TaleIs(scr, l, more, s, Nodes(r))
  BY <1>1, <1>3, <1>4, TaleClean
<1>6. Books(s, l, more)
  BY <1>1, <1>3, CleanBooks
<1>7. Alone(more) /\ more \in Seq(EventRecord)
  BY <1>3, AloneMore DEF Draws
<1> HIDE DEF more
<1>8. TaleIs(scr, l, Append(more, NodeDone(n)), s, Nodes(r) \cup {n})
  BY <1>1, <1>2, <1>5, <1>6, TaleNode
<1>9. Books(s, l, Append(more, NodeDone(n)))
  BY <1>1, <1>2, <1>6, NodeBooks
<1>10. Alone(Append(more, NodeDone(n)))
  BY <1>2, <1>7, AloneMore, NodeAlone
<1> QED  BY <1>2, <1>8, <1>9, <1>10 DEF Draws, more

-----------------------------------------------------------------------------
(* The team, the clock and the story *)

LEMMA LandedDraws ==
  ASSUME NEW r, Sound(r), NEW t \in Theirs(r), NEW scr, NEW l, NEW es, Draws(scr, r, l, es)
  PROVE  Draws(scr, TeamLanded(r, t), l, es \o LandedEvents(r, t))
<1>1. es \in Seq(EventRecord)
  BY DEF Draws, Books
<1>2. CASE ~Ready(r, t)
  <2>1. TeamLanded(r, t) = r /\ LandedEvents(r, t) = <<>>
    BY <1>2 DEF TeamLanded, LandedEvents
  <2>2. es \o <<>> = es
    BY <1>1
  <2> QED  BY <2>1, <2>2
<1>3. CASE Ready(r, t)
  <2> DEFINE s == TeamLanded(r, t)
             new == Len(r.nodes) + 1
             e == Event(IF IsObstacle(t) THEN "obstacle_cleared" ELSE "ticket_merged", t)
  <2>1. /\ LandedEvents(r, t) = <<e, NodeDone(new)>>
        /\ Moves(r, s) /\ Len(s.nodes) = new /\ s.nodes[new].kind # "commit"
        /\ e \in EventRecord /\ e.type # "node_done" /\ ~e.colleague /\ Heard(s, e)
        /\ \A u \in ToSet(Flushed(e)) : Clean(s.nodes, Ids(s, u))
        /\ NodeDone(new) \in EventRecord
    BY <1>3, LandedMoves
  <2>2. new = Len(r.nodes) + 1
    OBVIOUS
  <2> HIDE DEF s, e, new
  <2>3. Draws(scr, s, l, Append(Append(es, e), NodeDone(new)))
    BY <2>1, <2>2, DrawsMerge
  <2>4. es \o <<e, NodeDone(new)>> = Append(Append(es, e), NodeDone(new))
    BY <1>1, <2>1, OneEventMore
  <2> QED  BY <2>1, <2>3, <2>4 DEF s
<1> QED  BY <1>2, <1>3

LEMMA TeamDraws ==
  ASSUME BranchInv, NEW t \in Tickets, TeamWorks(t), NEW scr, Draws(scr, repo, ledger, sent)
  PROVE  Draws(scr, repo', ledger', sent')
<1>1. /\ at = "team" /\ t \in shift /\ ledger' = ledger
      /\ \/ repo' = TeamLanded(repo, t) /\ Emit(LandedEvents(repo, t))
         \/ \E r \in Outcomes(Commit(repo, t, FALSE, TRUE), t) :
              repo' = TeamLanded(r, t) /\ Emit(<<NodeDone(New(r))>> \o LandedEvents(r, t))
  BY DEF TeamWorks, SamePage
<1>2. t \in Theirs(repo) /\ Sound(repo) /\ sent \in Seq(EventRecord)
  BY <1>1 DEF BranchInv, SoundAtRest, Draws, Books
<1>3. CASE repo' = TeamLanded(repo, t) /\ Emit(LandedEvents(repo, t))
  BY <1>1, <1>2, <1>3, LandedDraws DEF Emit
<1>4. CASE \E r \in Outcomes(Commit(repo, t, FALSE, TRUE), t) :
             repo' = TeamLanded(r, t) /\ Emit(<<NodeDone(New(r))>> \o LandedEvents(r, t))
  <2> DEFINE c == Commit(repo, t, FALSE, TRUE)
  <2>1. PICK r \in Outcomes(c, t) :
               repo' = TeamLanded(r, t) /\ Emit(<<NodeDone(New(r))>> \o LandedEvents(r, t))
    BY <1>4
  <2>2. /\ Moves(repo, c) /\ t \in Theirs(c) /\ Works(c.nodes, Ids(c, t))
        /\ Len(c.nodes) = Len(repo.nodes) + 1 /\ c.nodes[New(c)].theirs
    BY <1>2, TeamCommits DEF Draws
  <2> HIDE DEF c
  <2>3. t \in Open(c) /\ c.tickets[t].theirs /\ Sound(c)
    BY <2>2 DEF Theirs, Mine, Moves
  <2>4. Moves(c, r) /\ r.nodes = c.nodes
    BY <2>2, <2>3, OutcomesMove
  <2>5. r.tickets[t].status = "open" /\ r.tickets[t].theirs
    BY <2>2, <2>3, OutcomesAdvance
  <2>6. t \in Theirs(r) /\ Sound(r)
    BY <2>4, <2>5 DEF Theirs, Mine, Open, Moves
  <2> DEFINE n == New(r)
             es == Append(sent, NodeDone(n))
             more == LandedEvents(r, t)
  <2>7. Draws(scr, c, ledger, es)
    BY <1>2, <2>2, <2>4, DrawsNode DEF New
  <2>8. Draws(scr, r, ledger, es)
    BY <2>3, <2>4, <2>7, DrawsMove
  <2>9. Draws(scr, TeamLanded(r, t), ledger, es \o more)
    BY <2>6, <2>8, LandedDraws
  <2>10. n \in Nat
    BY <2>6, GraphIs DEF Sound, New
  <2>11. sent \o (<<NodeDone(n)>> \o more) = es \o more
    BY <1>2, <2>10, LandedAfter
  <2> QED  BY <1>1, <2>1, <2>9, <2>11 DEF Emit
<1> QED  BY <1>1, <1>3, <1>4

\* What opens is not written.
LEMMA OpenedNodes ==
  ASSUME NEW r \in Graph, NEW ts, NEW theirs
  PROVE  OpenedFor(r, ts, theirs).nodes = r.nodes
BY DEF OpenedFor, Graph

LEMMA PulledDraws ==
  ASSUME NEW r, Sound(r), NEW s \in Pulls(r), NEW scr, NEW l, NEW es, Draws(scr, r, l, es)
  PROVE  Draws(scr, s, l, es) /\ Sound(s)
<1>1. PICK ts : s = OpenedFor(r, ts, TRUE)
  BY DEF Pulls
<1>2. s.nodes = r.nodes
  BY <1>1, OpenedNodes DEF Sound
<1>3. Moves(r, s)
  BY PullsMove
<1> QED  BY <1>2, <1>3, DrawsMove DEF Moves

LEMMA DepartureDraws ==
  ASSUME NEW r, Sound(r), NEW leaves, Departure(r, leaves), NEW scr, NEW l, NEW es,
         Draws(scr, r, l, es)
  PROVE  Draws(scr, repo', l, es)
<1>1. repo'.nodes = r.nodes
  BY OpenedNodes DEF Departure, Sound
<1>2. Moves(r, repo')
  BY DepartureMoves
<1> QED  BY <1>1, <1>2, DrawsMove

LEMMA ClockDraws ==
  ASSUME BranchInv, PullTeam \/ TurnEnds \/ SprintCloses, NEW scr,
         Draws(scr, repo, ledger, sent)
  PROVE  Draws(scr, repo', ledger', sent')
<1>1. Sound(repo) /\ repo \in Graph /\ sent \in Seq(EventRecord) /\ ledger' = ledger
      /\ Books(repo, ledger, sent)
  BY DEF BranchInv, SoundAtRest, Sound, Draws, Books, PullTeam, TurnEnds, SprintCloses, SamePage
<1>2. CASE PullTeam
  BY <1>1, <1>2, PulledDraws DEF PullTeam
<1>3. CASE TurnEnds
  BY <1>1, <1>3, DepartureDraws DEF TurnEnds
<1>4. CASE SprintCloses
  <2> DEFINE s == Shipped(repo)
             new == Len(repo.nodes)
             a == NodeDone(new + 1)
             b == NodeDone(new + 2)
             es == Append(sent, a)
  <2>1. PICK leaves \in {FALSE, team} : Departure(s, leaves)
    BY <1>4 DEF SprintCloses
  <2>2. sent' = sent \o <<a, b>>
    BY <1>4 DEF SprintCloses, Emit, New
  <2>3. /\ Moves(repo, s) /\ Len(s.nodes) = new + 2
        /\ \A n \in {new + 1, new + 2} : n \in 1..Len(s.nodes) /\ s.nodes[n].kind # "commit"
    BY <1>1, ShippedMoves
  <2>4. new + 1 \in Nat /\ new + 2 \in Nat
    BY <1>1, GraphIs
  <2>5. a \in EventRecord /\ b \in EventRecord /\ ~a.colleague /\ ~b.colleague
    BY <2>4, NodeAlone
  <2>6. sent \o <<a, b>> = Append(es, b)
    <3> HIDE DEF a, b
    <3> QED  BY <1>1, <2>5, OneEventMore
  <2> HIDE DEF s
  <2>7. Sound(s) /\ s \in Graph
    BY <2>3 DEF Moves, Sound
  <2>8. Nodes(s) = (Nodes(repo) \cup {new + 1}) \cup {new + 2}
    <3>1. Nodes(repo) = 1..new /\ new \in Nat /\ Nodes(s) = 1..Len(s.nodes)
      BY <1>1, <2>7, NodesAre
    <3> QED  BY <2>3, <3>1
  <2>9. Books(s, ledger, sent) /\ TaleIs(scr, ledger, sent, s, Nodes(repo))
    BY <1>1, <2>3, BooksMove, TaleMoves DEF Draws
  <2>10. Books(s, ledger, es) /\ TaleIs(scr, ledger, es, s, Nodes(repo) \cup {new + 1})
    BY <2>3, <2>7, <2>9, NodeBooks, TaleNode
  <2>11. Alone(es) /\ es \in Seq(EventRecord)
    BY <1>1, <2>5, AloneMore DEF Draws
  <2> HIDE DEF es
  <2>12. /\ Books(s, ledger, Append(es, b))
         /\ TaleIs(scr, ledger, Append(es, b), s, (Nodes(repo) \cup {new + 1}) \cup {new + 2})
    BY <2>3, <2>7, <2>10, NodeBooks, TaleNode
  <2>13. Alone(Append(es, b))
    BY <2>5, <2>11, AloneMore
  <2>14. Draws(scr, s, ledger, Append(es, b))
    BY <2>8, <2>12, <2>13 DEF Draws
  <2> QED  BY <1>1, <2>1, <2>2, <2>6, <2>7, <2>14, DepartureDraws
<1> QED  BY <1>2, <1>3, <1>4

LEMMA SprintDraws ==
  ASSUME BranchInv, NextSprint, NEW scr, Draws(scr, repo, ledger, sent)
  PROVE  Draws(scr, repo', ledger', sent')
<1> DEFINE r == OnTrunk(repo, "sprint_start", Dev, <<TipOfLane(repo, Main)>>)
           n == Len(repo.nodes) + 1
<1>1. /\ Sound(repo) /\ DevShipped(repo) /\ sent \in Seq(EventRecord) /\ ledger' = ledger
  BY DEF BranchInv, SoundAtRest, Draws, Books, NextSprint, SamePage
<1>2. /\ \E pulled \in Pulls(r) : \E stale \in SUBSET Backlog(pulled) :
           repo' = OpenedFor(pulled, stale, FALSE)
      /\ Emit(<<NodeDone(New(r))>>)
  BY DEF NextSprint
<1>3. Sound(r)
  BY <1>1, StartedIs
<1>4. <<TipOfLane(repo, Main)>> \in Seq(Nat)
  <2>1. TipOfLane(repo, Main) \in 1..Len(repo.nodes)
    BY <1>1, TipIs, GraphIs DEF Sound
  <2> QED  BY <2>1
<1>5. /\ Moves(repo, r) /\ Len(r.nodes) = n /\ n \in 1..Len(r.nodes)
      /\ r.nodes[n].kind = "sprint_start"
  BY <1>1, <1>3, <1>4, TrunkMoves
<1> HIDE DEF r
<1>6. Draws(scr, r, ledger, Append(sent, NodeDone(n)))
  BY <1>1, <1>5, DrawsNode
<1>7. PICK pulled \in Pulls(r) :
        \E stale \in SUBSET Backlog(pulled) : repo' = OpenedFor(pulled, stale, FALSE)
  BY <1>2
<1>8. PICK stale \in SUBSET Backlog(pulled) : repo' = OpenedFor(pulled, stale, FALSE)
  BY <1>7
<1>9. Draws(scr, pulled, ledger, Append(sent, NodeDone(n))) /\ Sound(pulled)
  BY <1>3, <1>6, PulledDraws
<1>10. Moves(pulled, repo') /\ repo'.nodes = pulled.nodes
  BY <1>8, <1>9, OpenedMoves, OpenedNodes DEF Sound
<1>11. Draws(scr, repo', ledger, Append(sent, NodeDone(n)))
  BY <1>9, <1>10, DrawsMove
<1>12. sent' = Append(sent, NodeDone(n))
  <2>1. n \in Nat
    BY <1>5
  <2>2. NodeDone(n) \in EventRecord
    BY <2>1, NodeIs
  <2> QED  BY <1>1, <1>2, <1>5, <2>2, OneEventMore DEF Emit, New
<1> QED  BY <1>1, <1>11, <1>12

-----------------------------------------------------------------------------
(* The player's turns and the story *)

\* A batch opens on the whole screen.
LEMMA TaleOpens ==
  ASSUME NEW r, Sound(r), NEW l, Ledger(l), LedgerIs(r, l), NEW s \in Graph,
         GoesOn(r.nodes, s.nodes)
  PROVE  TaleIs(Whole(r, l), l, <<>>, s, Nodes(r))
<1> DEFINE a == Advanced(l, <<>>, s)
           scr == Whole(r, l)
           ops == a.ops
<1>1. a.local = l.local /\ a.absorbed = l.absorbed
  BY BeforeIs
<1>2. Tale(scr, l, <<>>, s) = Opening(scr)
  <2>1. Tale(scr, l, <<>>, s) = Telling(scr, <<>>, s, ops)[Len(<<>>)]
    BY DEF Tale
  <2>2. Len(<<>>) = 0
    OBVIOUS
  <2> HIDE DEF scr, ops
  <2>3. Telling(scr, <<>>, s, ops)[0] = Opening(scr)
    BY <2>2, TellingIs
  <2> QED  BY <2>1, <2>2, <2>3
<1> HIDE DEF a
<1>3. /\ scr.nodes = Nodes(r) /\ scr.local = LocalOf(l) /\ scr.absorbed = l.absorbed
      /\ scr = [nodes |-> Nodes(r), local |-> LocalOf(l), absorbed |-> l.absorbed]
  BY DEF Whole
<1> HIDE DEF scr
<1>4. /\ Nodes(r) = 1..Len(r.nodes) /\ Len(r.nodes) \in Nat /\ Nodes(r) \subseteq Nat
      /\ Nodes(s) = 1..Len(s.nodes) /\ Len(s.nodes) \in Nat
      /\ Nodes(r) \subseteq Nodes(s) /\ \A n \in Nodes(r) : s.nodes[n] = r.nodes[n]
  <2>1. /\ Nodes(r) = 1..Len(r.nodes) /\ Len(r.nodes) \in Nat
        /\ Nodes(s) = 1..Len(s.nodes) /\ Len(s.nodes) \in Nat
    BY NodesAre DEF Sound
  <2> QED  BY <2>1 DEF GoesOn
<1>5. ASSUME NEW u \in Tickets, NEW n \in ToSet(l.local[u])
      PROVE  n \in LocalOf(l) /\ n \in Nodes(r) /\ r.nodes[n].ticket = u
  BY <1>4, LocalIs
<1>6. LocalOf(l) \subseteq Nodes(r)
  BY <1>5, LocalMember
<1>7. scr \in Screens
  BY <1>3, <1>4, <1>6 DEF Screens, Ledger
<1>8. Opening(scr) = [screen |-> scr, pending |-> {}] /\ Opening(scr) \in Stage
  BY <1>7 DEF Opening, Stage
<1>9. LocalOf(a) = LocalOf(l)
  BY <1>1 DEF LocalOf
<1>10. Shows(Opening(scr), a, s, Nodes(r))
  BY <1>1, <1>3, <1>4, <1>5, <1>8, <1>9 DEF Shows
<1> QED  BY <1>2, <1>10 DEF TaleIs, a, scr

LEMMA DrawsOpen ==
  ASSUME NEW r, Sound(r), NEW l, Ledger(l), LedgerIs(r, l)
  PROVE  Draws(Whole(r, l), r, l, <<>>)
<1>1. r \in Graph /\ GoesOn(r.nodes, r.nodes)
  BY GraphIs DEF Sound, GoesOn
<1>2. Books(r, l, <<>>)
  BY BooksOpen
<1>3. TaleIs(Whole(r, l), l, <<>>, r, Nodes(r))
  BY <1>1, TaleOpens
<1>4. Alone(<<>>)
  BY DEF Alone
<1> QED  BY <1>2, <1>3, <1>4 DEF Draws

\* A commit of the player's.
LEMMA DrawsCommit ==
  ASSUME NEW r, Sound(r), NEW l, Ledger(l), LedgerIs(r, l), NEW s \in Graph,
         GoesOn(r.nodes, s.nodes), Len(s.nodes) = Len(r.nodes) + 1,
         Books(s, l, Append(<<>>, NodeDone(New(s))))
  PROVE  Draws(Whole(r, l), s, l, Append(<<>>, NodeDone(New(s))))
<1> DEFINE n == New(s)
           e == NodeDone(n)
           scr == Whole(r, l)
           es == <<>>
<1>1. n \in 1..Len(s.nodes) /\ n \in Nat /\ n \notin Nodes(r) /\ Nodes(s) = Nodes(r) \cup {n}
  <2>1. /\ Nodes(r) = 1..Len(r.nodes) /\ Len(r.nodes) \in Nat
        /\ Nodes(s) = 1..Len(s.nodes) /\ Len(s.nodes) \in Nat
    BY NodesAre DEF Sound
  <2> QED  BY <2>1 DEF New
<1>2. e \in EventRecord /\ e.type = "node_done" /\ e.node = n /\ ~e.colleague
  BY <1>1 DEF NodeDone, Event, EventRecord
<1> HIDE DEF n, e, scr
<1>3. /\ es \in Seq(EventRecord) /\ AllHeard(s, es) /\ es \in {<<>>, <<ColleaguesCost>>}
      /\ Len(Append(es, e)) = 1 /\ Append(es, e)[1] = e
  <2>1. es \in {<<>>, <<ColleaguesCost>>}
    OBVIOUS
  <2>2. Len(Append(es, e)) = 1 /\ Append(es, e)[1] = e
    OBVIOUS
  <2> QED  BY <2>1, <2>2, BeforeIs
<1>4. TaleIs(scr, l, es, s, Nodes(r)) /\ Books(s, l, Append(es, e))
  BY TaleOpens DEF scr, e, n
<1> HIDE DEF es
<1>5. Heard(s, e)
  <2>1. AllHeard(s, Append(es, e)) /\ 1 \in 1..Len(Append(es, e))
    BY <1>3, <1>4 DEF Books
  <2> QED  BY <1>3, <2>1 DEF AllHeard
<1>6. ToSet(Flushed(e)) = {}
  BY <1>2, <1>5, FlushedIs
<1>7. Tellable(Advanced(l, es, s), s, Nodes(r), e)
  BY <1>1, <1>2, <1>6 DEF Tellable
<1>8. TaleIs(scr, l, Append(es, e), s, Nodes(r) \cup Drawn(e))
  BY <1>2, <1>3, <1>4, <1>5, <1>7, TaleGrows
<1>9. Drawn(e) = {n}
  BY <1>2 DEF Drawn
<1>10. Alone(Append(es, e))
  <2>1. Alone(es)
    BY DEF Alone, es
  <2> QED  BY <1>2, <1>3, <2>1, AloneMore
<1>11. Draws(scr, s, l, Append(es, e))
  BY <1>1, <1>4, <1>8, <1>9, <1>10 DEF Draws
<1> QED  BY <1>11 DEF scr, es, e, n

\* The player sends up branches, that end on a commit drawn or on the merge to draw.
LEMMA TaleSent ==
  ASSUME NEW r, Sound(r), NEW l, Ledger(l), LedgerIs(r, l), NEW s, Sound(s),
         GoesOn(r.nodes, s.nodes), NEW e \in EventRecord, e.type # "node_done", ~e.colleague,
         Books(s, l, Append(<<>>, e)),
         \A u \in ToSet(Flushed(e)) : \A n \in ToSet(Ids(s, u)) :
           n \in 1..Len(r.nodes) \/ s.nodes[n].kind = "obstacle_merge"
  PROVE  /\ TaleIs(Whole(r, l), l, Append(<<>>, e), s, Nodes(r))
         /\ Alone(Append(<<>>, e)) /\ Append(<<>>, e) \in Seq(EventRecord)
<1> DEFINE scr == Whole(r, l)
           es == <<>>
<1>1. /\ Nodes(r) = 1..Len(r.nodes) /\ Len(r.nodes) \in Nat /\ s \in Graph
      /\ Nodes(s) = 1..Len(s.nodes) /\ Len(s.nodes) \in Nat
  BY NodesAre DEF Sound
<1> HIDE DEF scr
<1>2. /\ es \in Seq(EventRecord) /\ AllHeard(s, es) /\ es \in {<<>>, <<ColleaguesCost>>}
      /\ Len(Append(es, e)) = 1 /\ Append(es, e)[1] = e
  <2>1. es \in {<<>>, <<ColleaguesCost>>}
    OBVIOUS
  <2>2. Len(Append(es, e)) = 1 /\ Append(es, e)[1] = e
    OBVIOUS
  <2> QED  BY <1>1, <2>1, <2>2, BeforeIs
<1>3. TaleIs(scr, l, es, s, Nodes(r)) /\ Books(s, l, Append(es, e))
  BY <1>1, TaleOpens DEF scr
<1>4. Alone(es)
  BY DEF Alone
<1> HIDE DEF es
<1>5. Heard(s, e)
  <2>1. AllHeard(s, Append(es, e)) /\ 1 \in 1..Len(Append(es, e))
    BY <1>2, <1>3 DEF Books
  <2> QED  BY <1>2, <2>1 DEF AllHeard
<1>6. ToSet(Flushed(e)) \subseteq Tickets
  BY <1>5, FlushedIs DEF ToSet
<1>7. ASSUME NEW u \in ToSet(Flushed(e)), Ids(s, u) # <<>>
      PROVE  LET m == Last(Ids(s, u))
             IN m \in Nodes(s) /\ s.nodes[m].ticket = u
                /\ (m \in Nodes(r) \/ s.nodes[m].kind = "obstacle_merge")
  <2> DEFINE ids == Ids(s, u)
             m == Last(ids)
  <2>1. ids \in Seq(Nat) /\ Chain(s.nodes, u, ids)
    BY <1>1, <1>6, GraphIs DEF Sound
  <2>2. \A n \in ToSet(ids) : n \in 1..Len(r.nodes) \/ s.nodes[n].kind = "obstacle_merge"
    OBVIOUS
  <2> HIDE DEF ids
  <2>3. m \in ToSet(ids)
    BY <1>7, <2>1, LastIs DEF ids
  <2>4. PICK i \in 1..Len(ids) : ids[i] = m
    BY <2>1, <2>3, MembersAre
  <2>5. m \in 1..Len(s.nodes) /\ s.nodes[m].ticket = u
    BY <2>1, <2>4 DEF Chain
  <2> QED  BY <1>1, <2>2, <2>3, <2>5 DEF ids
<1>8. ~Tells(s, e)
  BY DEF Tells
<1>9. Tellable(Advanced(l, es, s), s, Nodes(r), e)
  BY <1>7, <1>8 DEF Tellable
<1>10. TaleIs(scr, l, Append(es, e), s, Nodes(r) \cup Drawn(e))
  BY <1>1, <1>2, <1>3, <1>5, <1>9, TaleGrows
<1>11. Nodes(r) \cup Drawn(e) = Nodes(r)
  BY DEF Drawn
<1>12. Alone(Append(es, e)) /\ Append(es, e) \in Seq(EventRecord)
  BY <1>2, <1>4, AloneMore
<1>13. TaleIs(scr, l, Append(es, e), s, Nodes(r))
  BY <1>10, <1>11
<1> QED  BY <1>12, <1>13 DEF scr, es

LEMMA IdsBelow ==
  ASSUME NEW r, Sound(r), NEW u \in Tickets
  PROVE  \A n \in ToSet(Ids(r, u)) : n \in 1..Len(r.nodes)
<1>1. Ids(r, u) \in Seq(Nat) /\ Chain(r.nodes, u, Ids(r, u))
  BY GraphIs DEF Sound
<1> QED  BY <1>1, MembersAre DEF Chain

\* What breaks is folded, what works is drawn: a commit, and what it leads to.
LEMMA WritesDraws ==
  ASSUME ~Company, BranchInv, NEW t \in Mine(repo), Writes(t), Ledger(ledger),
         LedgerIs(repo, ledger)
  PROVE  Draws(Whole(repo, ledger), repo', ledger, sent')
<1>1. Sound(repo)
  BY DEF BranchInv, SoundAtRest
<1>2. PICK broken \in BOOLEAN :
        repo' \in IF broken THEN {Commit(repo, t, TRUE, FALSE)}
                  ELSE Outcomes(Commit(Pushed(repo, t), t, FALSE, FALSE), t)
  BY DEF Writes
<1>3. sent' = Append(<<>>, NodeDone(New(repo')))
  BY DEF Writes, CostsBefore
<1> DEFINE none == <<>>
<1>4. none \in {<<>>, <<ColleaguesCost>>}
  OBVIOUS
<1> HIDE DEF none
<1>5. CASE broken
  <2>1. repo' = Commit(repo, t, TRUE, FALSE)
    BY <1>2, <1>5
  <2> DEFINE s == Commit(repo, t, TRUE, FALSE)
  <2>2. /\ Sound(s) /\ GoesOn(repo.nodes, s.nodes) /\ Len(s.nodes) = Len(repo.nodes) + 1
        /\ Books(s, ledger, Append(none, NodeDone(New(s))))
    BY <1>1, <1>4, BrokenBooks
  <2> HIDE DEF s
  <2>3. Draws(Whole(repo, ledger), s, ledger, Append(<<>>, NodeDone(New(s))))
    BY <1>1, <2>2, DrawsCommit DEF none, Sound
  <2> QED  BY <1>3, <2>1, <2>3 DEF s
<1>6. CASE ~broken
  <2> DEFINE s == Commit(Pushed(repo, t), t, FALSE, FALSE)
  <2>1. repo' \in Outcomes(s, t)
    BY <1>2, <1>6
  <2>2. /\ Sound(s) /\ t \in Open(s) /\ Works(s.nodes, Ids(s, t))
        /\ GoesOn(repo.nodes, s.nodes) /\ Len(s.nodes) = Len(repo.nodes) + 1
        /\ Books(s, ledger, Append(none, NodeDone(New(s))))
    BY <1>1, <1>4, WorkedBooks
  <2> HIDE DEF s
  <2>3. Draws(Whole(repo, ledger), s, ledger, Append(<<>>, NodeDone(New(s))))
    BY <1>1, <2>2, DrawsCommit DEF none, Sound
  <2>4. Moves(s, repo') /\ repo'.nodes = s.nodes
    BY <2>1, <2>2, OutcomesMove
  <2>5. Draws(Whole(repo, ledger), repo', ledger, Append(<<>>, NodeDone(New(s))))
    BY <2>2, <2>3, <2>4, DrawsMove
  <2>6. New(repo') = New(s)
    BY <2>4 DEF New
  <2> QED  BY <1>3, <2>5, <2>6
<1> QED  BY <1>5, <1>6

\* The player takes another ticket in hand.
LEMMA DrawsCheckout ==
  ASSUME NEW r, Sound(r), NEW scr, NEW l, Draws(scr, r, l, <<>>), NEW t \in Tickets
  PROVE  Draws(scr, r, l, <<Event("checkout", t)>>)
<1> DEFINE e == Event("checkout", t)
           none == <<>>
<1>1. e \in EventRecord /\ e.type = "checkout" /\ ~e.colleague
  BY EventIs
<1>2. Append(none, e) = <<e>> /\ none \in Seq(EventRecord)
  BY <1>1
<1> HIDE DEF e
<1>3. Heard(r, e)
  BY <1>1 DEF Heard
<1>4. ToSet(Flushed(e)) = {}
  BY <1>1, <1>3, FlushedIs
<1>5. Books(r, l, none) /\ TaleIs(scr, l, none, r, Nodes(r)) /\ Alone(none)
  BY DEF Draws
<1> HIDE DEF none
<1>6. TaleIs(scr, l, Append(none, e), r, Nodes(r))
  BY <1>1, <1>3, <1>4, <1>5, TaleClean
<1>7. Books(r, l, Append(none, e))
  BY <1>1, <1>3, <1>4, <1>5, CleanBooks
<1>8. Alone(Append(none, e))
  BY <1>1, <1>2, <1>5, AloneMore
<1>9. Draws(scr, r, l, Append(none, e))
  BY <1>6, <1>7, <1>8 DEF Draws
<1> QED  BY <1>2, <1>9 DEF e

LEMMA FirstHeard ==
  ASSUME NEW s, NEW l, NEW e \in EventRecord, Books(s, l, Append(<<>>, e))
  PROVE  Heard(s, e)
<1>1. Len(Append(<<>>, e)) = 1 /\ Append(<<>>, e)[1] = e
  OBVIOUS
<1>2. AllHeard(s, Append(<<>>, e)) /\ 1 \in 1..Len(Append(<<>>, e))
  BY <1>1 DEF Books
<1> QED  BY <1>1, <1>2 DEF AllHeard

LEMMA StartDraws ==
  ASSUME BranchInv, StartTicket, Ledger(ledger), LedgerIs(repo, ledger)
  PROVE  Draws(Whole(repo, ledger), repo', ledger, sent')
<1> DEFINE scr == Whole(repo, ledger)
<1>1. Sound(repo) /\ Draws(scr, repo, ledger, <<>>)
  BY DrawsOpen DEF BranchInv, SoundAtRest
<1> HIDE DEF scr
<1>2. PICK t \in Backlog(repo) :
        /\ repo' = OpenedFor(repo, {t}, FALSE)
        /\ sent' = IF hand = NoTicket THEN <<>> ELSE <<Event("checkout", t)>>
  BY DEF StartTicket
<1>3. Moves(repo, repo') /\ repo'.nodes = repo.nodes /\ t \in Tickets
  <2>1. {t} \subseteq Backlog(repo) /\ t \in Tickets
    BY DEF Backlog
  <2> QED  BY <1>1, <1>2, <2>1, OpenedMoves, OpenedNodes DEF Sound
<1>4. Draws(scr, repo', ledger, <<>>) /\ Sound(repo')
  BY <1>1, <1>3, DrawsMove DEF Moves
<1>5. CASE sent' = <<>>
  BY <1>4, <1>5 DEF scr
<1>6. CASE sent' = <<Event("checkout", t)>>
  BY <1>3, <1>4, <1>6, DrawsCheckout DEF scr
<1> QED  BY <1>2, <1>5, <1>6

LEMMA CheckoutDraws ==
  ASSUME BranchInv, Checkout, Ledger(ledger), LedgerIs(repo, ledger)
  PROVE  Draws(Whole(repo, ledger), repo', ledger, sent')
<1>1. Sound(repo) /\ repo' = repo /\ Draws(Whole(repo, ledger), repo, ledger, <<>>)
  BY DrawsOpen DEF BranchInv, SoundAtRest, Checkout
<1>2. PICK t \in Mine(repo) : sent' = <<Event("checkout", t)>>
  BY DEF Checkout
<1>3. t \in Tickets
  BY DEF Mine, Open
<1> QED  BY <1>1, <1>2, <1>3, DrawsCheckout

LEMMA SubmitDraws ==
  ASSUME BranchInv, SubmitAccepted \/ SubmitRefused, Ledger(ledger), LedgerIs(repo, ledger)
  PROVE  Draws(Whole(repo, ledger), repo', ledger, sent')
<1> DEFINE p == Pushed(repo, hand)
           e == Event("pr_reviewed", hand)
<1>1. /\ Sound(p) /\ p.nodes = repo.nodes /\ Moves(p, repo') /\ repo'.nodes = p.nodes
      /\ e \in EventRecord /\ e.type # "node_done" /\ ~e.colleague
      /\ Books(p, ledger, Append(<<>>, e)) /\ sent' = Append(<<>>, e)
  BY SubmitIs
<1>2. Sound(repo)
  BY DEF BranchInv, SoundAtRest
<1> HIDE DEF p, e
<1>3. GoesOn(repo.nodes, p.nodes) /\ Nodes(p) = Nodes(repo) /\ Len(p.nodes) = Len(repo.nodes)
  BY <1>1, <1>2, GraphIs DEF Sound, GoesOn, Nodes
<1>4. \A u \in ToSet(Flushed(e)) : \A n \in ToSet(Ids(p, u)) : n \in 1..Len(repo.nodes)
  <2>1. Heard(p, e)
    BY <1>1, FirstHeard
  <2>2. ToSet(Flushed(e)) \subseteq Tickets
    BY <2>1, FlushedIs DEF ToSet
  <2> QED  BY <1>1, <1>3, <2>2, IdsBelow
<1>5. TaleIs(Whole(repo, ledger), ledger, Append(<<>>, e), p, Nodes(repo)) /\ Alone(Append(<<>>, e))
  BY <1>1, <1>2, <1>3, <1>4, TaleSent
<1>6. Draws(Whole(repo, ledger), p, ledger, Append(<<>>, e))
  BY <1>1, <1>3, <1>5 DEF Draws
<1> QED  BY <1>1, <1>6, DrawsMove

LEMMA FollowupDraws ==
  ASSUME BranchInv, Followup, Ledger(ledger), LedgerIs(repo, ledger)
  PROVE  Draws(Whole(repo, ledger), repo', ledger, sent')
<1> DEFINE t == asked.ticket
<1>1. repo' = Filled(repo, t, TRUE) /\ asked.kind = "rejected" /\ sent' = <<>>
  BY DEF Followup, Asks
<1>2. t \in Open(repo) /\ Sound(repo) /\ Works(repo.nodes, Ids(repo, t))
  BY <1>1, AskedIs DEF BranchInv, SoundAtRest, Reviewed
<1> HIDE DEF t
<1>3. /\ Sound(repo') /\ repo'.nodes = repo.nodes
      /\ \A u \in Tickets : /\ repo'.tickets[u].status = repo.tickets[u].status
                            /\ repo'.tickets[u].theirs = repo.tickets[u].theirs
                            /\ Ids(repo', u) = Ids(repo, u)
  <2>1. /\ Advances(repo, repo', t) /\ repo'.nodes = repo.nodes
        /\ \A u \in Tickets : /\ repo'.tickets[u].status = repo.tickets[u].status
                              /\ repo'.tickets[u].theirs = repo.tickets[u].theirs
                              /\ Ids(repo', u) = Ids(repo, u)
    BY <1>1, <1>2, FilledAdvances
  <2> QED  BY <2>1 DEF Advances
<1>4. Moves(repo, repo')
  BY <1>2, <1>3, SameMoves DEF Frozen
<1> QED  BY <1>1, <1>2, <1>3, <1>4, DrawsOpen, DrawsMove

\* A merge of the player's, the last of its batch.
LEMMA DrawsLanded ==
  ASSUME NEW r, Sound(r), NEW s, Sound(s), Len(s.nodes) = Len(r.nodes) + 1,
         s.nodes[New(s)].kind # "commit", NEW l, NEW scr, NEW es \in Seq(EventRecord),
         Books(s, l, es), TaleIs(scr, l, es, s, Nodes(r)), Alone(es),
         Books(s, l, Append(es, NodeDone(New(s))))
  PROVE  Draws(scr, s, l, Append(es, NodeDone(New(s))))
<1> DEFINE n == New(s)
<1>1. /\ s \in Graph /\ n \in 1..Len(s.nodes) /\ n \in Nat /\ Nodes(s) = Nodes(r) \cup {n}
  <2>1. /\ Nodes(r) = 1..Len(r.nodes) /\ Len(r.nodes) \in Nat /\ s \in Graph
        /\ Nodes(s) = 1..Len(s.nodes) /\ Len(s.nodes) \in Nat
    BY NodesAre DEF Sound
  <2> QED  BY <2>1 DEF New
<1>2. s.nodes[n].kind # "commit" /\ Books(s, l, Append(es, NodeDone(n)))
  OBVIOUS
<1> HIDE DEF n
<1>3. TaleIs(scr, l, Append(es, NodeDone(n)), s, Nodes(r) \cup {n})
  BY <1>1, <1>2, TaleNode
<1>4. Alone(Append(es, NodeDone(n)))
  BY <1>1, AloneMore, NodeAlone
<1>5. Draws(scr, s, l, Append(es, NodeDone(n)))
  BY <1>1, <1>2, <1>3, <1>4 DEF Draws
<1> QED  BY <1>5 DEF n

LEMMA LandsDraws ==
  ASSUME ~Company, BranchInv, asked.kind \in {"accepted", "rejected", "conflict"},
         LandsFeature(asked.ticket), Ledger(ledger), LedgerIs(repo, ledger)
  PROVE  Draws(Whole(repo, ledger), repo', ledger, sent')
<1> DEFINE t == asked.ticket
           s == FeatureLanded(repo, t, FALSE)
           e == Event("ticket_merged", t)
           none == <<>>
           scr == Whole(repo, ledger)
<1>1. repo' = s /\ sent' = none \o <<e, NodeDone(New(s))>>
  BY DEF LandsFeature, CostsBefore
<1>2. none \in {<<>>, <<ColleaguesCost>>} /\ none = <<>>
  OBVIOUS
<1> HIDE DEF none, scr
<1>3. /\ t \in Tickets /\ Sound(repo) /\ Sound(s) /\ GoesOn(repo.nodes, s.nodes)
      /\ Len(s.nodes) = Len(repo.nodes) + 1 /\ s.nodes[New(s)].kind = "feature_merge"
      /\ Ids(s, t) = Working(repo, Ids(repo, t))
      /\ \A u \in Tickets : u # t => Ids(s, u) = Ids(repo, u)
      /\ e \in EventRecord /\ e.type # "node_done" /\ ~e.colleague
      /\ Books(s, ledger, Append(none, e))
      /\ Books(s, ledger, Append(Append(none, e), NodeDone(New(s))))
      /\ Append(Append(none, e), NodeDone(New(s))) = none \o <<e, NodeDone(New(s))>>
  BY <1>2, LandsIs
<1> HIDE DEF t, s, e
<1>4. \A u \in ToSet(Flushed(e)) : \A n \in ToSet(Ids(s, u)) : n \in 1..Len(repo.nodes)
  <2>1. Heard(s, e)
    BY <1>2, <1>3, FirstHeard
  <2>2. ToSet(Flushed(e)) \subseteq Tickets
    BY <2>1, FlushedIs DEF ToSet
  <2>3. \A n \in ToSet(Ids(s, t)) : n \in 1..Len(repo.nodes)
    <3> DEFINE w == Working(repo, Ids(repo, t))
    <3>1. w \in Seq(Nat) /\ Chain(repo.nodes, t, w)
      BY <1>3, WorkingKeeps
    <3> HIDE DEF w
    <3>2. \A n \in ToSet(w) : n \in 1..Len(repo.nodes)
      BY <3>1, MembersAre DEF Chain
    <3> QED  BY <1>3, <3>2 DEF w
  <2> QED  BY <1>3, <2>2, <2>3, IdsBelow
<1>5. /\ TaleIs(scr, ledger, Append(none, e), s, Nodes(repo)) /\ Alone(Append(none, e))
      /\ Append(none, e) \in Seq(EventRecord)
  <2>1. Books(s, ledger, Append(<<>>, e))
    BY <1>2, <1>3
  <2>2. /\ TaleIs(Whole(repo, ledger), ledger, Append(<<>>, e), s, Nodes(repo))
        /\ Alone(Append(<<>>, e)) /\ Append(<<>>, e) \in Seq(EventRecord)
    BY <1>3, <1>4, <2>1, TaleSent
  <2> QED  BY <1>2, <2>2 DEF scr
<1> DEFINE es == Append(none, e)
<1> HIDE DEF es
<1>6. Draws(scr, s, ledger, Append(es, NodeDone(New(s))))
  BY <1>3, <1>5, DrawsLanded DEF es
<1> QED  BY <1>1, <1>3, <1>6 DEF es, scr

LEMMA MergeObstacleDraws ==
  ASSUME BranchInv, MergeObstacle, Ledger(ledger), LedgerIs(repo, ledger)
  PROVE  Draws(Whole(repo, ledger), repo', ledger, sent')
<1>1. /\ repo' = ObstacleLanded(repo, hand, FALSE) /\ IsObstacle(hand) /\ Ready(repo, hand)
      /\ sent' = <<Event("obstacle_cleared", hand), NodeDone(New(repo'))>>
  BY DEF MergeObstacle
<1>2. hand # NoTicket
  BY <1>1 DEF IsObstacle, NoTicket
<1>3. /\ hand \in Mine(repo) /\ hand \in Tickets /\ Sound(repo) /\ Works(repo.nodes, Ids(repo, hand))
  BY <1>1, <1>2, HandIs, ReadyIs DEF BranchInv, SoundAtRest
<1> DEFINE s == ObstacleLanded(repo, hand, FALSE)
           e == Event("obstacle_cleared", hand)
           es == Append(<<>>, e)
<1>4. /\ Sound(s) /\ GoesOn(repo.nodes, s.nodes) /\ Len(s.nodes) = Len(repo.nodes) + 1
      /\ s.nodes[New(s)].kind = "obstacle_merge"
      /\ e \in EventRecord /\ ~e.colleague /\ e.type # "node_done"
      /\ Books(s, ledger, es) /\ Books(s, ledger, Append(es, NodeDone(New(s))))
      /\ Append(es, NodeDone(New(s))) = <<e, NodeDone(New(s))>>
  BY <1>1, <1>3, ObstacleSentUp
<1>5. repo' = s /\ sent' = <<e, NodeDone(New(s))>>
  BY <1>1
<1> HIDE DEF s, e
<1>6. \A u \in ToSet(Flushed(e)) : \A n \in ToSet(Ids(s, u)) :
        n \in 1..Len(repo.nodes) \/ s.nodes[n].kind = "obstacle_merge"
  <2>1. Heard(s, e)
    BY <1>4, FirstHeard
  <2>2. ToSet(Flushed(e)) \subseteq Tickets
    BY <2>1, FlushedIs DEF ToSet
  <2>3. Len(repo.nodes) \in Nat /\ New(s) = Len(repo.nodes) + 1
    BY <1>3, <1>4, GraphIs DEF Sound, New
  <2>4. \A n \in 1..Len(s.nodes) : n \in 1..Len(repo.nodes) \/ n = New(s)
    BY <1>4, <2>3
  <2>5. \A u \in ToSet(Flushed(e)) : \A n \in ToSet(Ids(s, u)) : n \in 1..Len(s.nodes)
    BY <1>4, <2>2, IdsBelow
  <2> QED  BY <1>4, <2>4, <2>5
<1>7. /\ TaleIs(Whole(repo, ledger), ledger, es, s, Nodes(repo)) /\ Alone(es)
      /\ es \in Seq(EventRecord)
  BY <1>3, <1>4, <1>6, TaleSent
<1> HIDE DEF es
<1>8. Draws(Whole(repo, ledger), s, ledger, Append(es, NodeDone(New(s))))
  BY <1>3, <1>4, <1>7, DrawsLanded
<1> QED  BY <1>4, <1>5, <1>8

\* Whatever the player does, the story will tell it.
LEMMA PlaysDraws ==
  ASSUME ~Company, BranchInv, Plays, Ledger(ledger), LedgerIs(repo, ledger)
  PROVE  Draws(Whole(repo, ledger), repo', ledger, sent')
<1>1. Sound(repo) /\ Draws(Whole(repo, ledger), repo, ledger, <<>>)
  BY DrawsOpen DEF BranchInv, SoundAtRest
<1>2. CASE HireDev \/ Rest \/ MergeConflicts \/ ChooseBonus
  <2>1. repo' = repo /\ sent' = <<>>
    BY <1>2 DEF HireDev, Rest, MergeConflicts, ChooseBonus
  <2> QED  BY <1>1, <2>1
<1>3. CASE WriteCommit
  <2>1. hand # NoTicket /\ Writes(hand)
    BY <1>3 DEF WriteCommit
  <2>2. hand \in Mine(repo)
    BY <2>1, HandIs
  <2> QED  BY <2>1, <2>2, WritesDraws
<1>4. CASE Resume
  <2>1. Writes(asked.ticket) /\ asked.kind = "rejected"
    BY <1>4 DEF Resume, Asks
  <2>2. asked.ticket \in Mine(repo)
    BY <2>1, AskedIs
  <2> QED  BY <2>1, <2>2, WritesDraws
<1>5. CASE Merge
  BY <1>5, LandsDraws DEF Merge, Asks
<1>6. CASE ResolveConflict
  <2>1. CASE LandsFeature(asked.ticket)
    BY <1>6, <2>1, LandsDraws DEF ResolveConflict, Asks
  <2>2. CASE ~LandsFeature(asked.ticket)
    <3>1. repo' = repo /\ sent' = <<>>
      BY <1>6, <2>2 DEF ResolveConflict
    <3> QED  BY <1>1, <3>1
  <2> QED  BY <2>1, <2>2
<1>7. CASE StartTicket
  BY <1>7, StartDraws
<1>8. CASE Checkout
  BY <1>8, CheckoutDraws
<1>9. CASE SubmitAccepted \/ SubmitRefused
  BY <1>9, SubmitDraws
<1>10. CASE Followup
  BY <1>10, FollowupDraws
<1>11. CASE MergeObstacle
  BY <1>11, MergeObstacleDraws
<1> QED  BY <1>2, <1>3, <1>4, <1>5, <1>6, <1>7, <1>8, <1>9, <1>10, <1>11 DEF Plays

-----------------------------------------------------------------------------
(* The screen, at rest *)

\* Of a batch where nothing is a colleague's, everything is told.
LEMMA OwnIs ==
  ASSUME NEW es \in Seq(EventRecord), Alone(es)
  PROVE  Own(es) = es
<1> DEFINE L == Len(es)
           upto(n) == SubSeq(es, 1, n)
           Is(f) == f = [i \in 0..L |-> IF i = 0 THEN <<>>
                           ELSE IF es[i].colleague THEN f[i - 1] ELSE Append(f[i - 1], es[i])]
           h == CHOOSE f : Is(f)
           g == [n \in 0..L |-> upto(n)]
<1>1. L \in Nat /\ upto(0) = <<>> /\ upto(L) = es
      /\ \A i \in 1..L : ~es[i].colleague /\ i - 1 \in 0..L
  BY DEF Alone
<1>2. \A i \in 1..L : upto(i) = Append(upto(i - 1), es[i])
  OBVIOUS
<1> HIDE DEF upto
<1>3. Is(h)
  <2>1. g = [n \in 0..L |-> g[n]] /\ \A n \in 0..L : g[n] = upto(n)
    OBVIOUS
  <2> HIDE DEF g
  <2>2. ASSUME NEW i \in 0..L
        PROVE  g[i] = IF i = 0 THEN <<>>
                      ELSE IF es[i].colleague THEN g[i - 1] ELSE Append(g[i - 1], es[i])
    <3>1. CASE i = 0
      BY <1>1, <2>1, <3>1
    <3>2. CASE i # 0
      <4>1. i \in 1..L
        BY <1>1, <3>2
      <4>2. g[i] = upto(i) /\ g[i - 1] = upto(i - 1) /\ ~es[i].colleague
        BY <1>1, <2>1, <4>1
      <4> QED  BY <1>2, <3>2, <4>1, <4>2
    <3> QED  BY <3>1, <3>2
  <2>3. Is(g)
    BY <2>1, <2>2
  <2> HIDE DEF Is
  <2> QED  BY <2>3
<1>4. Own(es) = h[L]
  BY DEF Own
<1> HIDE DEF h
<1>5. \A i \in 0..L : h[i] = IF i = 0 THEN <<>>
                             ELSE IF es[i].colleague THEN h[i - 1] ELSE Append(h[i - 1], es[i])
  BY <1>3
<1> DEFINE T == {i \in 0..L : h[i] = upto(i)}
<1>6. 0 \in T
  <2>1. 0 \in 0..L
    BY <1>1
  <2> QED  BY <1>1, <1>5, <2>1
<1>7. ASSUME NEW k \in 0..(L - 1), k \in T PROVE k + 1 \in T
  <2>1. k + 1 \in 0..L /\ k + 1 \in 1..L /\ k + 1 # 0 /\ (k + 1) - 1 = k
    BY <1>1
  <2>2. ~es[k + 1].colleague /\ upto(k + 1) = Append(upto(k), es[k + 1])
    BY <1>1, <1>2, <2>1
  <2>3. h[k + 1] = Append(h[k], es[k + 1])
    BY <1>5, <2>1, <2>2
  <2> QED  BY <1>7, <2>1, <2>2, <2>3
<1>8. L \in T
  <2> HIDE DEF T
  <2> QED  BY <1>1, <1>6, <1>7, FromNought
<1> QED  BY <1>1, <1>4, <1>8

\* A batch is told on the whole screen, and leaves what the property says.
StoryInv ==
  /\ LedgerInv
  /\ at = "idle" => screen = Whole(repo, ledger)
  /\ at \notin {"idle", "told"} => Draws(screen, repo, ledger, sent)
  /\ StoryCatchesUp

\* The story is told to its end.
LEMMA PublishDraws ==
  ASSUME StoryInv, Publish
  PROVE  StoryCatchesUp'
<1> DEFINE a == Advanced(ledger, sent, repo)
           last == Tale(screen, ledger, sent, repo)
           end == Settle(last)
<1>1. Draws(screen, repo, ledger, sent)
  BY DEF StoryInv, Publish
<1>2. sent \in Seq(EventRecord) /\ Alone(sent) /\ Shows(last, a, repo, Nodes(repo))
  BY <1>1 DEF Draws, Books, TaleIs
<1>3. /\ repo' = repo /\ ledger' = [local |-> a.local, absorbed |-> a.absorbed]
      /\ screen' = Told(screen, Own(sent), repo, a.ops)
  BY DEF Publish
<1>4. Own(sent) = sent
  BY <1>2, OwnIs
<1>5. screen' = end.screen
  BY <1>3, <1>4 DEF Told, Ended, Tale
<1> HIDE DEF a, last
<1>6. Shows(end, a, repo, Nodes(repo)) /\ end.pending = {}
  BY <1>2, SettleShows
<1> HIDE DEF end
<1>7. ledger'.absorbed = a.absorbed /\ LocalOf(ledger') = LocalOf(a)
  BY <1>3 DEF LocalOf
<1>8. screen'.nodes = Nodes(repo') /\ screen'.absorbed \subseteq ledger'.absorbed
  BY <1>3, <1>5, <1>6, <1>7 DEF Shows
<1>9. LocalOf(ledger') \subseteq screen'.local
  <2>1. ASSUME NEW n \in LocalOf(a) PROVE n \in end.screen.local
    <3>1. PICK u \in Tickets : n \in ToSet(a.local[u])
      BY LocalMember
    <3> QED  BY <1>6, <3>1 DEF Shows
  <2> QED  BY <1>5, <1>7, <2>1
<1>10. ASSUME NEW n \in screen'.local \ LocalOf(ledger')
       PROVE  \E f \in ledger'.absorbed : f[1] = n /\ repo'.nodes[f[2]].kind = "obstacle_merge"
  <2>1. Late(n, a, repo)
    BY <1>5, <1>6, <1>7, <1>10 DEF Shows
  <2>2. PICK m \in Nodes(repo) : <<n, m>> \in a.absorbed /\ repo.nodes[m].kind = "obstacle_merge"
    BY <2>1 DEF Late
  <2>3. <<n, m>>[1] = n /\ <<n, m>>[2] = m
    OBVIOUS
  <2> QED  BY <1>3, <1>7, <2>2, <2>3
<1> QED  BY <1>8, <1>9, <1>10 DEF StoryCatchesUp

LEMMA StoryKeeps ==
  ASSUME ~Company, StoryInv, [BranchesNext]_branchVars
  PROVE  StoryInv'
<1>1. LedgerInv /\ BranchInv
  BY DEF StoryInv, LedgerInv
<1>2. LedgerInv'
  BY <1>1, LedgerKeeps
<1>3. CASE Plays
  <2>1. at = "idle" /\ at' \notin {"idle", "told"} /\ ledger' = ledger /\ screen' = screen
    BY <1>3 DEF Plays, StartTicket, Checkout, HireDev, WriteCommit, Rest, SubmitAccepted,
       SubmitRefused, Resume, Followup, Merge, MergeConflicts, ResolveConflict, MergeObstacle,
       ChooseBonus, Asks, IsFree, TakesTurn, SamePage, LandsFeature
  <2>2. screen = Whole(repo, ledger)
    BY <2>1 DEF StoryInv
  <2>3. Draws(screen, repo', ledger, sent')
    BY <1>1, <1>3, <2>1, <2>2, LedgerAtRest, PlaysDraws
  <2> QED  BY <1>2, <2>1, <2>3 DEF StoryInv, StoryCatchesUp
<1>4. CASE PullTeam \/ TurnEnds \/ SprintCloses \/ (\E t \in Tickets : TeamWorks(t)) \/ NextSprint
  <2>1. at \notin {"idle", "told"} /\ at' \notin {"idle", "told"} /\ screen' = screen
    BY <1>4 DEF PullTeam, TurnEnds, SprintCloses, TeamWorks, NextSprint, Clock, SamePage
  <2>2. Draws(screen, repo, ledger, sent)
    BY <2>1 DEF StoryInv
  <2>3. Draws(screen, repo', ledger', sent')
    BY <1>1, <1>4, <2>2, ClockDraws, TeamDraws, SprintDraws
  <2> QED  BY <1>2, <2>1, <2>3 DEF StoryInv, StoryCatchesUp
<1>5. CASE Publish
  <2>1. at' = "told"
    BY <1>5 DEF Publish
  <2> QED  BY <1>2, <1>5, <2>1, PublishDraws DEF StoryInv
<1>6. CASE Complete
  <2>1. at' = "idle" /\ screen' = Whole(repo', ledger')
    BY <1>6 DEF Complete
  <2> QED  BY <1>2, <2>1 DEF StoryInv, StoryCatchesUp
<1>7. CASE UNCHANGED branchVars
  BY <1>2, <1>7 DEF StoryInv, StoryCatchesUp, branchVars
<1> QED  BY <1>3, <1>4, <1>5, <1>6, <1>7 DEF BranchesNext

LEMMA StoryInit ==
  ASSUME BranchesInit
  PROVE  StoryInv
<1>1. LedgerInv /\ at = "idle"
  BY LedgerInit DEF BranchesInit
<1>2. Nodes(repo) = {1, 2}
  <2>1. repo.nodes = <<Node("init", Main, <<>>, NoTicket, FALSE, FALSE),
                       Node("sprint_start", Dev, <<1>>, NoTicket, FALSE, FALSE)>>
    BY DEF BranchesInit
  <2>2. Nodes(repo) = 1..2
    BY <2>1 DEF Nodes
  <2> QED  BY <2>2
<1>3. LocalOf(ledger) = {} /\ ledger.absorbed = {}
  <2>1. ledger = [local |-> [t \in Tickets |-> <<>>], absorbed |-> {}]
    BY DEF BranchesInit
  <2>2. \A t \in Tickets : ToSet(ledger.local[t]) = {}
    BY <2>1 DEF ToSet
  <2> QED  BY <2>1, <2>2 DEF LocalOf
<1>4. screen = Whole(repo, ledger)
  BY <1>2, <1>3 DEF BranchesInit, Whole
<1> QED  BY <1>1, <1>4 DEF StoryInv, StoryCatchesUp

\* The story of a batch tells all of it: when it ends every commit is drawn, and drawn
\* local or folded as the ledger has it, but for what broke on a feature while its
\* obstacle was written.  It is so of a run played alone: in a company the session
\* publishes the batch without what is a colleague's.
THEOREM StoryHolds == ASSUME ~Company PROVE Branches => []StoryCatchesUp
<1>1. BranchesInit => StoryInv
  BY StoryInit
<1>2. StoryInv /\ [BranchesNext]_branchVars => StoryInv'
  BY StoryKeeps
<1>3. StoryInv => StoryCatchesUp
  BY DEF StoryInv
<1> QED  BY <1>1, <1>2, <1>3, PTL DEF Branches
=============================================================================
