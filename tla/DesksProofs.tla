----------------------------- MODULE DesksProofs -----------------------------
(***************************************************************************)
(* A run played by several, for any capacity, any number of arrivals and    *)
(* tickets, and whatever is drawn: who holds the work, that a merge ends a  *)
(* ticket, that the work of those who go is spread, and that the run is the *)
(* company CrewEngine describes.                                            *)
(*                                                                          *)
(* The invariant says of a board (`Good`) that it is Sound, whoever left,   *)
(* and that until a departure parts a ticket from its obstacle its hands    *)
(* are on its desks (`Handy`) and every obstacle lies with what it stands   *)
(* on (`Together`).  Each operator of Desks keeps a board good, or `Half`   *)
(* good when people go; an operator that goes through tickets or seats in   *)
(* order does it one after the other, along a chain of boards.  Loads are   *)
(* followed along the same chains: a ticket that is routed lands on one of  *)
(* the lightest desks, so none gets more than one ahead (`Balanced`).       *)
(***************************************************************************)
EXTENDS Desks, FiniteSetTheorems, WellFoundedInduction, TLAPS

-----------------------------------------------------------------------------
(* Numbers, and what goes on in order *)

\* The constants as numbers, and what is no seat and no ticket.
LEMMA Sizes ==
  /\ Capacity \in Nat /\ MaxSeats \in Nat /\ Reach \in Nat /\ MaxTickets \in Nat
  /\ MaxSeats > 0 /\ MaxTickets > 0 /\ MaxTickets + MaxSeats \in Nat
  /\ Seats \subseteq Nat /\ SoloSeat \in Seats /\ NoSeat \notin Seats
  /\ Ids \subseteq Nat /\ NoId \notin Ids
<1>1. /\ Capacity \in Nat /\ MaxSeats \in Nat /\ Reach \in Nat /\ MaxTickets \in Nat
      /\ MaxSeats > 0 /\ MaxTickets > 0
  BY DesksSizes
<1> QED  BY <1>1 DEF Seats, SoloSeat, NoSeat, Ids, NoId

\* A set of numbers that is not empty has a least one.
LEMMA LeastExists ==
  ASSUME NEW T, T \subseteq Nat, T # {}
  PROVE  \E x \in T : \A y \in T : x <= y
<1>1. IsWellFoundedOn(OpToRel(<, Nat), Nat)
  BY NatLessThanWellFounded
<1>2. PICK x \in T : \A y \in T : ~(<<y, x>> \in OpToRel(<, Nat))
  BY <1>1, WFMin
<1>3. \A y \in T : ~(y < x)
  BY <1>2 DEF OpToRel
<1> QED  BY <1>3

\* Up to n: what holds at 0 and goes from each number to the next.
LEMMA UpTo ==
  ASSUME NEW T, NEW n \in Nat, 0 \in T, \A k \in 0..(n - 1) : k \in T => k + 1 \in T
  PROVE  \A k \in 0..n : k \in T
<1> DEFINE C == {k \in 0..n : k \notin T}
<1> SUFFICES ASSUME C # {} PROVE FALSE
  OBVIOUS
<1>1. PICK k \in C : \A j \in C : k <= j
  <2>1. C \subseteq Nat /\ C # {}
    OBVIOUS
  <2> HIDE DEF C
  <2> QED  BY <2>1, LeastExists
<1>2. k # 0 /\ k - 1 \in 0..(n - 1) /\ k - 1 \notin C
  BY <1>1
<1>3. k - 1 \in T
  BY <1>2
<1> QED  BY <1>1, <1>2, <1>3

\* The model takes the oldest ticket or seat by this Min.
LEMMA LeastIsMin ==
  ASSUME NEW T \in SUBSET Nat, T # {}
  PROVE  Min(T) \in T /\ \A y \in T : Min(T) <= y
<1>1. \E x \in T : \A y \in T : x <= y
  BY LeastExists
<1> QED  BY <1>1 DEF Min

\* A chain: a state, then for each number what F makes of the state before.
Closed(S, F) == \A m \in S, k \in Nat : F[<<m, k>>] \in S
IsChain(g, N, S, b, F) ==
  g \in [0..N -> S] /\ g[0] = b /\ \A n \in 1..N : g[n] = F[<<g[n - 1], n - 1>>]

\* There is a chain from every state of a set that F keeps.
LEMMA ChainExists ==
  ASSUME NEW N \in Nat, NEW S, NEW b \in S, NEW F, Closed(S, F)
  PROVE  \E g : IsChain(g, N, S, b, F)
<1> USE DEF Closed
<1> DEFINE Chain(g, k) == g[0] = b /\ \A n \in 1..k : g[n] = F[<<g[n - 1], n - 1>>]
           T == {k \in Nat : \E g \in [0..k -> S] : Chain(g, k)}
<1>1. 0 \in T
  <2>1. [n \in 0..0 |-> b] \in [0..0 -> S] /\ Chain([n \in 0..0 |-> b], 0)
    OBVIOUS
  <2> HIDE DEF Chain
  <2> QED  BY <2>1
<1>2. ASSUME NEW k \in 0..(N - 1), k \in T PROVE k + 1 \in T
  <2>1. PICK g \in [0..k -> S] : Chain(g, k)
    <3> HIDE DEF Chain
    <3> QED  BY <1>2
  <2> DEFINE h == [n \in 0..(k + 1) |-> IF n \in 0..k THEN g[n] ELSE F[<<g[k], k>>]]
  <2>2. h \in [0..(k + 1) -> S]
    <3>1. g[k] \in S /\ F[<<g[k], k>>] \in S
      OBVIOUS
    <3> QED  BY <3>1
  <2>3. k + 1 \in Nat /\ k + 1 \in 0..(k + 1) /\ k + 1 \notin 0..k /\ 0 \in 0..k
    OBVIOUS
  <2>4. \A n \in 0..k : h[n] = g[n]
    OBVIOUS
  <2>5. h[k + 1] = F[<<g[k], k>>]
    BY <2>3
  <2> HIDE DEF h
  <2>6. ASSUME NEW n \in 1..(k + 1) PROVE h[n] = F[<<h[n - 1], n - 1>>]
    <3>1. CASE n = k + 1
      <4>1. n - 1 = k /\ k \in 0..k
        BY <3>1
      <4> QED  BY <2>4, <2>5, <3>1, <4>1
    <3>2. CASE n # k + 1
      <4>1. n \in 1..k /\ n \in 0..k /\ n - 1 \in 0..k
        BY <3>2
      <4> QED  BY <2>1, <2>4, <4>1
    <3> QED  BY <3>1, <3>2
  <2>7. Chain(h, k + 1)
    BY <2>1, <2>3, <2>4, <2>6
  <2> HIDE DEF Chain
  <2> QED  BY <2>2, <2>3, <2>7
<1> HIDE DEF T
<1>3. N \in T /\ N \in 0..N
  <2>1. \A k \in 0..N : k \in T
    BY <1>1, <1>2, UpTo
  <2> QED  BY <2>1
<1> QED  BY <1>3 DEF T, IsChain

Last == MaxTickets + MaxSeats

\* The six operators that go through tickets or seats in order are the end of
\* a chain of boards, each made of the one before by one ticket or one seat.
LEMMA MoveChain ==
  ASSUME NEW b \in Board, NEW xs \in SUBSET Ids,
         \A m \in Board, t \in Ids : Move(m, t) \in Board
  PROVE  \E g : /\ g[0] = b /\ Moved(b, xs) = g[Last]
                /\ \A n \in 0..Last : g[n] \in Board
                /\ \A n \in 1..Last :
                     g[n] = IF n - 1 \in xs THEN Move(g[n - 1], n - 1) ELSE g[n - 1]
<1> DEFINE F == [p \in Board \X Nat |-> IF p[2] \in xs THEN Move(p[1], p[2]) ELSE p[1]]
           Is(h) == h = [n \in 0..Last |-> IF n = 0 THEN b
                          ELSE IF n - 1 \in xs THEN Move(h[n - 1], n - 1) ELSE h[n - 1]]
<1>0. Last \in Nat
  BY Sizes DEF Last
<1>1. \A m \in Board, k \in Nat : F[<<m, k>>] = IF k \in xs THEN Move(m, k) ELSE m
  OBVIOUS
<1>2. \A m \in Board, k \in Nat : F[<<m, k>>] \in Board
  <2> HIDE DEF F
  <2> QED  BY <1>1
<1> HIDE DEF F
<1>3. PICK g \in [0..Last -> Board] :
        g[0] = b /\ \A n \in 1..Last : g[n] = F[<<g[n - 1], n - 1>>]
  <2>1. Closed(Board, F)
    BY <1>2 DEF Closed
  <2>2. \E g : IsChain(g, Last, Board, b, F)
    BY <1>0, <2>1, ChainExists, Zenon
  <2> QED  BY <2>2 DEF IsChain
<1>4. Is(g)
  <2>1. ASSUME NEW n \in 0..Last, n # 0
        PROVE  g[n] = IF n - 1 \in xs THEN Move(g[n - 1], n - 1) ELSE g[n - 1]
    <3>1. n \in 1..Last /\ n - 1 \in Nat /\ n - 1 \in 0..Last
      BY <1>0, <2>1
    <3> QED  BY <1>1, <1>3, <3>1
  <2> QED  BY <1>3, <2>1
<1> DEFINE h == CHOOSE u : Is(u)
<1>5. Is(h) /\ Moved(b, xs) = h[Last]
  <2>1. Is(CHOOSE u : Is(u))
    <3> HIDE DEF Is
    <3> QED  BY <1>4
  <2>2. Moved(b, xs) = (CHOOSE u : Is(u))[Last]
    BY DEF Moved, InOrder, Last
  <2> QED  BY <2>1, <2>2
<1> HIDE DEF h
<1>6. /\ h[0] = b
      /\ \A n \in 1..Last : h[n] = IF n - 1 \in xs THEN Move(h[n - 1], n - 1) ELSE h[n - 1]
  BY <1>0, <1>5
<1> HIDE DEF Is
<1>7. \A n \in 0..Last : h[n] \in Board
  <2> DEFINE T == {n \in 0..Last : h[n] \in Board}
  <2>1. 0 \in T
    BY <1>0, <1>6
  <2>2. ASSUME NEW k \in 0..(Last - 1), k \in T PROVE k + 1 \in T
    <3>1. k + 1 \in 1..Last /\ k + 1 \in 0..Last /\ (k + 1) - 1 = k
      BY <1>0
    <3> QED  BY <1>6, <2>2, <3>1
  <2> HIDE DEF T
  <2>3. \A k \in 0..Last : k \in T
    BY <1>0, <2>1, <2>2, UpTo
  <2> QED  BY <2>3 DEF T
<1> QED  BY <1>5, <1>6, <1>7

LEMMA RouteChain ==
  ASSUME NEW b \in Board, NEW xs \in SUBSET Ids,
         \A m \in Board, t \in Ids : Route(m, t) \in Board
  PROVE  \E g : /\ g[0] = b /\ Routed(b, xs) = g[Last]
                /\ \A n \in 0..Last : g[n] \in Board
                /\ \A n \in 1..Last :
                     g[n] = IF n - 1 \in xs THEN Route(g[n - 1], n - 1) ELSE g[n - 1]
<1> DEFINE F == [p \in Board \X Nat |-> IF p[2] \in xs THEN Route(p[1], p[2]) ELSE p[1]]
           Is(h) == h = [n \in 0..Last |-> IF n = 0 THEN b
                          ELSE IF n - 1 \in xs THEN Route(h[n - 1], n - 1) ELSE h[n - 1]]
<1>0. Last \in Nat
  BY Sizes DEF Last
<1>1. \A m \in Board, k \in Nat : F[<<m, k>>] = IF k \in xs THEN Route(m, k) ELSE m
  OBVIOUS
<1>2. \A m \in Board, k \in Nat : F[<<m, k>>] \in Board
  <2> HIDE DEF F
  <2> QED  BY <1>1
<1> HIDE DEF F
<1>3. PICK g \in [0..Last -> Board] :
        g[0] = b /\ \A n \in 1..Last : g[n] = F[<<g[n - 1], n - 1>>]
  <2>1. Closed(Board, F)
    BY <1>2 DEF Closed
  <2>2. \E g : IsChain(g, Last, Board, b, F)
    BY <1>0, <2>1, ChainExists, Zenon
  <2> QED  BY <2>2 DEF IsChain
<1>4. Is(g)
  <2>1. ASSUME NEW n \in 0..Last, n # 0
        PROVE  g[n] = IF n - 1 \in xs THEN Route(g[n - 1], n - 1) ELSE g[n - 1]
    <3>1. n \in 1..Last /\ n - 1 \in Nat /\ n - 1 \in 0..Last
      BY <1>0, <2>1
    <3> QED  BY <1>1, <1>3, <3>1
  <2> QED  BY <1>3, <2>1
<1> DEFINE h == CHOOSE u : Is(u)
<1>5. Is(h) /\ Routed(b, xs) = h[Last]
  <2>1. Is(CHOOSE u : Is(u))
    <3> HIDE DEF Is
    <3> QED  BY <1>4
  <2>2. Routed(b, xs) = (CHOOSE u : Is(u))[Last]
    BY DEF Routed, InOrder, Last
  <2> QED  BY <2>1, <2>2
<1> HIDE DEF h
<1>6. /\ h[0] = b
      /\ \A n \in 1..Last : h[n] = IF n - 1 \in xs THEN Route(h[n - 1], n - 1) ELSE h[n - 1]
  BY <1>0, <1>5
<1> HIDE DEF Is
<1>7. \A n \in 0..Last : h[n] \in Board
  <2> DEFINE T == {n \in 0..Last : h[n] \in Board}
  <2>1. 0 \in T
    BY <1>0, <1>6
  <2>2. ASSUME NEW k \in 0..(Last - 1), k \in T PROVE k + 1 \in T
    <3>1. k + 1 \in 1..Last /\ k + 1 \in 0..Last /\ (k + 1) - 1 = k
      BY <1>0
    <3> QED  BY <1>6, <2>2, <3>1
  <2> HIDE DEF T
  <2>3. \A k \in 0..Last : k \in T
    BY <1>0, <2>1, <2>2, UpTo
  <2> QED  BY <2>3 DEF T
<1> QED  BY <1>5, <1>6, <1>7

LEMMA SettleChain ==
  ASSUME NEW b \in Board, NEW xs \in SUBSET Seats,
         \A m \in Board, t \in Seats : Settled(m, t) \in Board
  PROVE  \E g : /\ g[0] = b /\ SettledAll(b, xs) = g[Last]
                /\ \A n \in 0..Last : g[n] \in Board
                /\ \A n \in 1..Last :
                     g[n] = IF n - 1 \in xs THEN Settled(g[n - 1], n - 1) ELSE g[n - 1]
<1> DEFINE F == [p \in Board \X Nat |-> IF p[2] \in xs THEN Settled(p[1], p[2]) ELSE p[1]]
           Is(h) == h = [n \in 0..Last |-> IF n = 0 THEN b
                          ELSE IF n - 1 \in xs THEN Settled(h[n - 1], n - 1) ELSE h[n - 1]]
<1>0. Last \in Nat
  BY Sizes DEF Last
<1>1. \A m \in Board, k \in Nat : F[<<m, k>>] = IF k \in xs THEN Settled(m, k) ELSE m
  OBVIOUS
<1>2. \A m \in Board, k \in Nat : F[<<m, k>>] \in Board
  <2> HIDE DEF F
  <2> QED  BY <1>1
<1> HIDE DEF F
<1>3. PICK g \in [0..Last -> Board] :
        g[0] = b /\ \A n \in 1..Last : g[n] = F[<<g[n - 1], n - 1>>]
  <2>1. Closed(Board, F)
    BY <1>2 DEF Closed
  <2>2. \E g : IsChain(g, Last, Board, b, F)
    BY <1>0, <2>1, ChainExists, Zenon
  <2> QED  BY <2>2 DEF IsChain
<1>4. Is(g)
  <2>1. ASSUME NEW n \in 0..Last, n # 0
        PROVE  g[n] = IF n - 1 \in xs THEN Settled(g[n - 1], n - 1) ELSE g[n - 1]
    <3>1. n \in 1..Last /\ n - 1 \in Nat /\ n - 1 \in 0..Last
      BY <1>0, <2>1
    <3> QED  BY <1>1, <1>3, <3>1
  <2> QED  BY <1>3, <2>1
<1> DEFINE h == CHOOSE u : Is(u)
<1>5. Is(h) /\ SettledAll(b, xs) = h[Last]
  <2>1. Is(CHOOSE u : Is(u))
    <3> HIDE DEF Is
    <3> QED  BY <1>4
  <2>2. SettledAll(b, xs) = (CHOOSE u : Is(u))[Last]
    BY DEF SettledAll, InOrder, Last
  <2> QED  BY <2>1, <2>2
<1> HIDE DEF h
<1>6. /\ h[0] = b
      /\ \A n \in 1..Last : h[n] = IF n - 1 \in xs THEN Settled(h[n - 1], n - 1) ELSE h[n - 1]
  BY <1>0, <1>5
<1> HIDE DEF Is
<1>7. \A n \in 0..Last : h[n] \in Board
  <2> DEFINE T == {n \in 0..Last : h[n] \in Board}
  <2>1. 0 \in T
    BY <1>0, <1>6
  <2>2. ASSUME NEW k \in 0..(Last - 1), k \in T PROVE k + 1 \in T
    <3>1. k + 1 \in 1..Last /\ k + 1 \in 0..Last /\ (k + 1) - 1 = k
      BY <1>0
    <3> QED  BY <1>6, <2>2, <3>1
  <2> HIDE DEF T
  <2>3. \A k \in 0..Last : k \in T
    BY <1>0, <2>1, <2>2, UpTo
  <2> QED  BY <2>3 DEF T
<1> QED  BY <1>5, <1>6, <1>7

LEMMA TakeChain ==
  ASSUME NEW b \in Board, NEW xs \in SUBSET Ids,
         \A m \in Board, t \in Ids : Take(m, t) \in Board
  PROVE  \E g : /\ g[0] = b /\ Taken(b, xs) = g[Last]
                /\ \A n \in 0..Last : g[n] \in Board
                /\ \A n \in 1..Last :
                     g[n] = IF n - 1 \in xs THEN Take(g[n - 1], n - 1) ELSE g[n - 1]
<1> DEFINE F == [p \in Board \X Nat |-> IF p[2] \in xs THEN Take(p[1], p[2]) ELSE p[1]]
           Is(h) == h = [n \in 0..Last |-> IF n = 0 THEN b
                          ELSE IF n - 1 \in xs THEN Take(h[n - 1], n - 1) ELSE h[n - 1]]
<1>0. Last \in Nat
  BY Sizes DEF Last
<1>1. \A m \in Board, k \in Nat : F[<<m, k>>] = IF k \in xs THEN Take(m, k) ELSE m
  OBVIOUS
<1>2. \A m \in Board, k \in Nat : F[<<m, k>>] \in Board
  <2> HIDE DEF F
  <2> QED  BY <1>1
<1> HIDE DEF F
<1>3. PICK g \in [0..Last -> Board] :
        g[0] = b /\ \A n \in 1..Last : g[n] = F[<<g[n - 1], n - 1>>]
  <2>1. Closed(Board, F)
    BY <1>2 DEF Closed
  <2>2. \E g : IsChain(g, Last, Board, b, F)
    BY <1>0, <2>1, ChainExists, Zenon
  <2> QED  BY <2>2 DEF IsChain
<1>4. Is(g)
  <2>1. ASSUME NEW n \in 0..Last, n # 0
        PROVE  g[n] = IF n - 1 \in xs THEN Take(g[n - 1], n - 1) ELSE g[n - 1]
    <3>1. n \in 1..Last /\ n - 1 \in Nat /\ n - 1 \in 0..Last
      BY <1>0, <2>1
    <3> QED  BY <1>1, <1>3, <3>1
  <2> QED  BY <1>3, <2>1
<1> DEFINE h == CHOOSE u : Is(u)
<1>5. Is(h) /\ Taken(b, xs) = h[Last]
  <2>1. Is(CHOOSE u : Is(u))
    <3> HIDE DEF Is
    <3> QED  BY <1>4
  <2>2. Taken(b, xs) = (CHOOSE u : Is(u))[Last]
    BY DEF Taken, InOrder, Last
  <2> QED  BY <2>1, <2>2
<1> HIDE DEF h
<1>6. /\ h[0] = b
      /\ \A n \in 1..Last : h[n] = IF n - 1 \in xs THEN Take(h[n - 1], n - 1) ELSE h[n - 1]
  BY <1>0, <1>5
<1> HIDE DEF Is
<1>7. \A n \in 0..Last : h[n] \in Board
  <2> DEFINE T == {n \in 0..Last : h[n] \in Board}
  <2>1. 0 \in T
    BY <1>0, <1>6
  <2>2. ASSUME NEW k \in 0..(Last - 1), k \in T PROVE k + 1 \in T
    <3>1. k + 1 \in 1..Last /\ k + 1 \in 0..Last /\ (k + 1) - 1 = k
      BY <1>0
    <3> QED  BY <1>6, <2>2, <3>1
  <2> HIDE DEF T
  <2>3. \A k \in 0..Last : k \in T
    BY <1>0, <2>1, <2>2, UpTo
  <2> QED  BY <2>3 DEF T
<1> QED  BY <1>5, <1>6, <1>7

LEMMA ForceChain ==
  ASSUME NEW b \in Board, NEW xs \in SUBSET Ids,
         \A m \in Board, t \in Ids : Forced(m, t) \in Board
  PROVE  \E g : /\ g[0] = b /\ ForcedAll(b, xs) = g[Last]
                /\ \A n \in 0..Last : g[n] \in Board
                /\ \A n \in 1..Last :
                     g[n] = IF n - 1 \in xs THEN Forced(g[n - 1], n - 1) ELSE g[n - 1]
<1> DEFINE F == [p \in Board \X Nat |-> IF p[2] \in xs THEN Forced(p[1], p[2]) ELSE p[1]]
           Is(h) == h = [n \in 0..Last |-> IF n = 0 THEN b
                          ELSE IF n - 1 \in xs THEN Forced(h[n - 1], n - 1) ELSE h[n - 1]]
<1>0. Last \in Nat
  BY Sizes DEF Last
<1>1. \A m \in Board, k \in Nat : F[<<m, k>>] = IF k \in xs THEN Forced(m, k) ELSE m
  OBVIOUS
<1>2. \A m \in Board, k \in Nat : F[<<m, k>>] \in Board
  <2> HIDE DEF F
  <2> QED  BY <1>1
<1> HIDE DEF F
<1>3. PICK g \in [0..Last -> Board] :
        g[0] = b /\ \A n \in 1..Last : g[n] = F[<<g[n - 1], n - 1>>]
  <2>1. Closed(Board, F)
    BY <1>2 DEF Closed
  <2>2. \E g : IsChain(g, Last, Board, b, F)
    BY <1>0, <2>1, ChainExists, Zenon
  <2> QED  BY <2>2 DEF IsChain
<1>4. Is(g)
  <2>1. ASSUME NEW n \in 0..Last, n # 0
        PROVE  g[n] = IF n - 1 \in xs THEN Forced(g[n - 1], n - 1) ELSE g[n - 1]
    <3>1. n \in 1..Last /\ n - 1 \in Nat /\ n - 1 \in 0..Last
      BY <1>0, <2>1
    <3> QED  BY <1>1, <1>3, <3>1
  <2> QED  BY <1>3, <2>1
<1> DEFINE h == CHOOSE u : Is(u)
<1>5. Is(h) /\ ForcedAll(b, xs) = h[Last]
  <2>1. Is(CHOOSE u : Is(u))
    <3> HIDE DEF Is
    <3> QED  BY <1>4
  <2>2. ForcedAll(b, xs) = (CHOOSE u : Is(u))[Last]
    BY DEF ForcedAll, InOrder, Last
  <2> QED  BY <2>1, <2>2
<1> HIDE DEF h
<1>6. /\ h[0] = b
      /\ \A n \in 1..Last : h[n] = IF n - 1 \in xs THEN Forced(h[n - 1], n - 1) ELSE h[n - 1]
  BY <1>0, <1>5
<1> HIDE DEF Is
<1>7. \A n \in 0..Last : h[n] \in Board
  <2> DEFINE T == {n \in 0..Last : h[n] \in Board}
  <2>1. 0 \in T
    BY <1>0, <1>6
  <2>2. ASSUME NEW k \in 0..(Last - 1), k \in T PROVE k + 1 \in T
    <3>1. k + 1 \in 1..Last /\ k + 1 \in 0..Last /\ (k + 1) - 1 = k
      BY <1>0
    <3> QED  BY <1>6, <2>2, <3>1
  <2> HIDE DEF T
  <2>3. \A k \in 0..Last : k \in T
    BY <1>0, <2>1, <2>2, UpTo
  <2> QED  BY <2>3 DEF T
<1> QED  BY <1>5, <1>6, <1>7

LEMMA DepartChain ==
  ASSUME NEW b \in Board, NEW xs \in SUBSET Seats,
         \A m \in Board, t \in Seats : Departed(m, t) \in Board
  PROVE  \E g : /\ g[0] = b /\ BurntOut(b, xs) = g[Last]
                /\ \A n \in 0..Last : g[n] \in Board
                /\ \A n \in 1..Last :
                     g[n] = IF n - 1 \in xs THEN Departed(g[n - 1], n - 1) ELSE g[n - 1]
<1> DEFINE F == [p \in Board \X Nat |-> IF p[2] \in xs THEN Departed(p[1], p[2]) ELSE p[1]]
           Is(h) == h = [n \in 0..Last |-> IF n = 0 THEN b
                          ELSE IF n - 1 \in xs THEN Departed(h[n - 1], n - 1) ELSE h[n - 1]]
<1>0. Last \in Nat
  BY Sizes DEF Last
<1>1. \A m \in Board, k \in Nat : F[<<m, k>>] = IF k \in xs THEN Departed(m, k) ELSE m
  OBVIOUS
<1>2. \A m \in Board, k \in Nat : F[<<m, k>>] \in Board
  <2> HIDE DEF F
  <2> QED  BY <1>1
<1> HIDE DEF F
<1>3. PICK g \in [0..Last -> Board] :
        g[0] = b /\ \A n \in 1..Last : g[n] = F[<<g[n - 1], n - 1>>]
  <2>1. Closed(Board, F)
    BY <1>2 DEF Closed
  <2>2. \E g : IsChain(g, Last, Board, b, F)
    BY <1>0, <2>1, ChainExists, Zenon
  <2> QED  BY <2>2 DEF IsChain
<1>4. Is(g)
  <2>1. ASSUME NEW n \in 0..Last, n # 0
        PROVE  g[n] = IF n - 1 \in xs THEN Departed(g[n - 1], n - 1) ELSE g[n - 1]
    <3>1. n \in 1..Last /\ n - 1 \in Nat /\ n - 1 \in 0..Last
      BY <1>0, <2>1
    <3> QED  BY <1>1, <1>3, <3>1
  <2> QED  BY <1>3, <2>1
<1> DEFINE h == CHOOSE u : Is(u)
<1>5. Is(h) /\ BurntOut(b, xs) = h[Last]
  <2>1. Is(CHOOSE u : Is(u))
    <3> HIDE DEF Is
    <3> QED  BY <1>4
  <2>2. BurntOut(b, xs) = (CHOOSE u : Is(u))[Last]
    BY DEF BurntOut, InOrder, Last
  <2> QED  BY <2>1, <2>2
<1> HIDE DEF h
<1>6. /\ h[0] = b
      /\ \A n \in 1..Last : h[n] = IF n - 1 \in xs THEN Departed(h[n - 1], n - 1) ELSE h[n - 1]
  BY <1>0, <1>5
<1> HIDE DEF Is
<1>7. \A n \in 0..Last : h[n] \in Board
  <2> DEFINE T == {n \in 0..Last : h[n] \in Board}
  <2>1. 0 \in T
    BY <1>0, <1>6
  <2>2. ASSUME NEW k \in 0..(Last - 1), k \in T PROVE k + 1 \in T
    <3>1. k + 1 \in 1..Last /\ k + 1 \in 0..Last /\ (k + 1) - 1 = k
      BY <1>0
    <3> QED  BY <1>6, <2>2, <3>1
  <2> HIDE DEF T
  <2>3. \A k \in 0..Last : k \in T
    BY <1>0, <2>1, <2>2, UpTo
  <2> QED  BY <2>3 DEF T
<1> QED  BY <1>5, <1>6, <1>7

-----------------------------------------------------------------------------
(* Seats and their loads *)

\* Desks are finite.
LEMMA LoadIsANumber ==
  ASSUME NEW b, NEW s
  PROVE  IsFiniteSet(Desk(b, s)) /\ Load(b, s) \in Nat
<1>1. IsFiniteSet(Ids)
  BY Sizes, FS_Interval DEF Ids
<1>2. Desk(b, s) \in SUBSET Ids
  BY DEF Desk, Open
<1>3. IsFiniteSet(Desk(b, s))
  BY <1>1, <1>2, FS_Subset
<1> QED  BY <1>3, FS_CardinalityType DEF Load

\* The lightest seat is occupied, when one is; the first among equals.
LEMMA Lightest ==
  ASSUME NEW b, b.seats \in SUBSET Seats
  PROVE  /\ LightestSeat(b) \in Seats
         /\ b.seats # {} => LightestSeat(b) \in b.seats
         /\ \A r \in b.seats : /\ Load(b, LightestSeat(b)) <= Load(b, r)
                               /\ r < LightestSeat(b) => Load(b, LightestSeat(b)) < Load(b, r)
<1>1. CASE b.seats = {}
  BY <1>1, Sizes DEF LightestSeat
<1>2. CASE b.seats # {}
  <2> DEFINE M == {s \in b.seats : \A r \in b.seats : Load(b, s) <= Load(b, r)}
             L == {Load(b, s) : s \in b.seats}
  <2>0. \A s \in b.seats : Load(b, s) \in Nat
    BY LoadIsANumber
  <2>1. PICK x \in L : \A y \in L : x <= y
    <3>1. L \subseteq Nat /\ L # {}
      BY <1>2, <2>0
    <3> HIDE DEF L
    <3> QED  BY <3>1, LeastExists
  <2>2. M # {} /\ M \in SUBSET Nat
    <3>1. PICK s \in b.seats : x = Load(b, s)
      OBVIOUS
    <3>2. s \in M
      BY <2>1, <3>1
    <3> QED  BY <3>2, Sizes
  <2>3. LightestSeat(b) = Min(M)
    BY <1>2 DEF LightestSeat
  <2>4. Min(M) \in M /\ \A y \in M : Min(M) <= y
    <3> HIDE DEF M
    <3> QED  BY <2>2, LeastIsMin
  <2>5. ASSUME NEW r \in b.seats, r < Min(M) PROVE Load(b, Min(M)) < Load(b, r)
    <3>1. r \notin M
      <4> HIDE DEF M
      <4>1. r \in Nat /\ (r \in M => Min(M) <= r)
        BY <2>4, Sizes
      <4>2. Min(M) \in Nat
        BY <2>2, <2>4
      <4> QED  BY <2>5, <4>1, <4>2
    <3>2. PICK q \in b.seats : ~(Load(b, r) <= Load(b, q))
      BY <3>1
    <3>3. Load(b, Min(M)) <= Load(b, q) /\ Min(M) \in b.seats
      BY <2>4
    <3> HIDE DEF M
    <3>4. Load(b, Min(M)) \in Nat /\ Load(b, r) \in Nat /\ Load(b, q) \in Nat
      BY <2>0, <3>3
    <3> QED  BY <3>2, <3>3, <3>4
  <2>6. Min(M) \in b.seats /\ \A r \in b.seats : Load(b, Min(M)) <= Load(b, r)
    BY <2>4
  <2> HIDE DEF M
  <2> QED  BY <2>3, <2>5, <2>6
<1> QED  BY <1>1, <1>2

\* The lead sits on an occupied seat.
LEMMA Lead ==
  ASSUME NEW b, b.seats \in SUBSET Seats
  PROVE  LeadSeat(b) \in Seats /\ (b.seats # {} => LeadSeat(b) \in b.seats)
<1>1. CASE b.seats = {}
  BY <1>1, Sizes DEF LeadSeat
<1>2. CASE b.seats # {}
  <2>1. b.seats \in SUBSET Nat
    BY Sizes
  <2>2. Min(b.seats) \in b.seats
    BY <1>2, <2>1, LeastIsMin
  <2> QED  BY <1>2, <2>2 DEF LeadSeat
<1> QED  BY <1>1, <1>2

\* The oldest ticket of a desk is on it.
LEMMA FirstOfDesk ==
  ASSUME NEW b, NEW s, Desk(b, s) # {}
  PROVE  Min(Desk(b, s)) \in Desk(b, s)
<1>1. Desk(b, s) \in SUBSET Nat
  BY Sizes DEF Desk, Open
<1> QED  BY <1>1, LeastIsMin

\* The next id is of a ticket that is nothing yet.
LEMMA FirstUnused ==
  ASSUME NEW b, Unused(b) # {}
  PROVE  Min(Unused(b)) \in Ids /\ b.tickets[Min(Unused(b))].status = "none"
<1>1. Unused(b) \in SUBSET Nat
  BY Sizes DEF Unused
<1>2. Min(Unused(b)) \in Unused(b)
  BY <1>1, LeastIsMin
<1> QED  BY <1>2 DEF Unused

-----------------------------------------------------------------------------
(* What the rules do to a board *)

\* Move changes who holds the ticket, and nothing else.
LEMMA MoveFacts ==
  ASSUME NEW b \in Board, NEW t \in Ids, NEW c, c = Move(b, t)
  PROVE  /\ c \in Board
         /\ c.seats = b.seats /\ c.hired = b.hired /\ c.hand = b.hand /\ c.asked = b.asked
         /\ \A u \in Ids \ {t} : c.tickets[u] = b.tickets[u]
         /\ c.tickets[t].holder = LightestSeat(b) /\ c.tickets[t].status = b.tickets[t].status
         /\ c.tickets[t].parent = b.tickets[t].parent /\ c.tickets[t].team = b.tickets[t].team
         /\ c.tickets[t].landed = b.tickets[t].landed
<1> DEFINE x == [b.tickets[t] EXCEPT !.holder = LightestSeat(b)]
<1>1. LightestSeat(b) \in Seats
  BY Lightest DEF Board
<1>2. c = [b EXCEPT !.tickets = [b.tickets EXCEPT ![t] = x]]
  BY DEF Move
<1>3. b.tickets \in [Ids -> Ticket]
  BY DEF Board
<1>4. /\ x \in Ticket /\ x.holder = LightestSeat(b) /\ x.status = b.tickets[t].status
      /\ x.parent = b.tickets[t].parent /\ x.team = b.tickets[t].team
      /\ x.landed = b.tickets[t].landed
  BY <1>1, <1>3 DEF Ticket
<1> HIDE DEF x
<1>5. /\ c \in Board /\ c.tickets = [b.tickets EXCEPT ![t] = x]
      /\ c.seats = b.seats /\ c.hired = b.hired /\ c.hand = b.hand /\ c.asked = b.asked
  BY <1>2, <1>3, <1>4 DEF Board
<1>6. c.tickets[t] = x /\ \A u \in Ids \ {t} : c.tickets[u] = b.tickets[u]
  BY <1>3, <1>5
<1> QED  BY <1>4, <1>5, <1>6

-----------------------------------------------------------------------------
(* What holds of every board, and of one whose hands agree                   *)

IsOpen(b, t) == b.tickets[t].status = "open"

On(b, t, s) == t \in Ids /\ IsOpen(b, t) /\ ~b.tickets[t].team /\ Holder(b, t) = s

\* Only what was merged was delivered; what has not been opened is nobody's and
\* stands on nothing; what something stands on has been opened.
Tidy(b) ==
  \A t \in Ids :
    /\ b.tickets[t].status # "merged" => b.tickets[t].landed = 0
    /\ b.tickets[t].status \in {"none", "backlog"} =>
         ~b.tickets[t].team /\ b.tickets[t].parent = NoId
    /\ b.tickets[t].team \/ b.tickets[t].status \in {"none", "backlog"} =>
         b.tickets[t].holder = NoSeat
    /\ b.tickets[t].parent # NoId =>
         b.tickets[b.tickets[t].parent].status \in {"open", "merged"}

\* WorkIsHeld, of any board.
Held(b) ==
  b.seats # {} =>
    \A t \in Ids : IsOpen(b, t) =>
      IF b.tickets[t].team THEN b.hired ELSE Holder(b, t) \in b.seats

\* A vacant seat has nothing in hand and is asked nothing.
Seated(b) ==
  \A s \in Seats :
    /\ s \notin b.seats => b.hand[s] = NoId /\ b.asked[s] = Nothing
    /\ b.asked[s].kind = "nothing" <=> b.asked[s].ticket = NoId

Sound(b) == b \in Board /\ Tidy(b) /\ Held(b) /\ Seated(b)

HandOK(b, s) == On(b, b.hand[s], s) \/ (b.hand[s] = NoId /\ \A t \in Ids : ~On(b, t, s))

Clear(b, t) == \A o \in Ids : IsOpen(b, o) => b.tickets[o].parent # t

AskOK(b, s) ==
  b.asked[s].ticket # NoId => On(b, b.asked[s].ticket, s) /\ Clear(b, b.asked[s].ticket)

\* What holds of the hands even while a departure parts tickets from obstacles.
Handy(b) ==
  /\ \A s \in b.seats : HandOK(b, s) /\ AskOK(b, s)
  /\ \A o \in Ids : IsOpen(b, o) /\ b.tickets[o].parent # NoId => IsOpen(b, b.tickets[o].parent)
  /\ \A t \in Ids : b.tickets[t].landed <= 1

Together(b) ==
  \A o \in Ids :
    LET t == b.tickets[o].parent
    IN IsOpen(b, o) /\ t # NoId /\ IsOpen(b, t) =>
         b.tickets[t].team = b.tickets[o].team /\ Holder(b, t) = Holder(b, o)

Half(b, p) == Sound(b) /\ (~p => Handy(b))
Good(b, p) == Sound(b) /\ (~p => Handy(b) /\ Together(b))

\* What it is to be a board, field by field.
LEMMA TicketFields ==
  ASSUME NEW b \in Board
  PROVE  /\ b.tickets \in [Ids -> Ticket] /\ b.seats \in SUBSET Seats /\ b.hired \in BOOLEAN
         /\ b.hand \in [Seats -> Ids \cup {NoId}]
         /\ \A s \in Seats : /\ b.asked[s].ticket \in Ids \cup {NoId}
                             /\ b.asked[s].kind \in {"nothing", "accepted", "rejected", "conflict"}
         /\ \A t \in Ids :
              /\ b.tickets[t] \in Ticket
              /\ b.tickets[t].parent \in Ids \cup {NoId} /\ b.tickets[t].team \in BOOLEAN
              /\ b.tickets[t].holder \in Seats \cup {NoSeat} /\ b.tickets[t].landed \in 0..2
              /\ b.tickets[t].status \in {"none", "backlog", "open", "merged", "cancelled"}
              /\ Holder(b, t) \in Seats
<1>1. /\ b.tickets \in [Ids -> Ticket] /\ b.seats \in SUBSET Seats /\ b.hired \in BOOLEAN
      /\ b.hand \in [Seats -> Ids \cup {NoId}]
      /\ b.asked \in [Seats -> [kind : {"nothing", "accepted", "rejected", "conflict"},
                                ticket : Ids \cup {NoId}]]
  BY DEF Board
<1>2. \A t \in Ids : b.tickets[t] \in Ticket
  BY <1>1
<1>3. \A t \in Ids :
        /\ b.tickets[t].parent \in Ids \cup {NoId} /\ b.tickets[t].team \in BOOLEAN
        /\ b.tickets[t].holder \in Seats \cup {NoSeat} /\ b.tickets[t].landed \in 0..2
        /\ b.tickets[t].status \in {"none", "backlog", "open", "merged", "cancelled"}
  BY <1>2 DEF Ticket
<1>4. \A t \in Ids : Holder(b, t) \in Seats
  BY <1>3, Sizes DEF Holder
<1>5. \A s \in Seats : /\ b.asked[s].ticket \in Ids \cup {NoId}
                       /\ b.asked[s].kind \in {"nothing", "accepted", "rejected", "conflict"}
  BY <1>1
<1> QED  BY <1>1, <1>2, <1>3, <1>4, <1>5

\* The board that rules make of b: other tickets, other hands.
Remade(b, ts, hs) == [b EXCEPT !.tickets = ts, !.hand = hs]

LEMMA RemadeFacts ==
  ASSUME NEW b \in Board, NEW ts \in [Ids -> Ticket], NEW hs \in [Seats -> Ids \cup {NoId}]
  PROVE  /\ Remade(b, ts, hs) \in Board
         /\ Remade(b, ts, hs).tickets = ts /\ Remade(b, ts, hs).hand = hs
         /\ Remade(b, ts, hs).seats = b.seats /\ Remade(b, ts, hs).hired = b.hired
         /\ Remade(b, ts, hs).asked = b.asked
<1>1. b.tickets \in [Ids -> Ticket]
  BY DEF Board
<1>2. [b EXCEPT !.tickets = ts] \in Board
  BY <1>1 DEF Board
<1>3. [[b EXCEPT !.tickets = ts] EXCEPT !.hand = hs] \in Board
  <2> DEFINE d == [b EXCEPT !.tickets = ts]
  <2> HIDE DEF d
  <2>1. [d EXCEPT !.hand = hs] \in Board
    BY <1>2 DEF Board, d
  <2> QED  BY <2>1 DEF d
<1>4. Remade(b, ts, hs) \in Board
  BY <1>3 DEF Remade
<1>5. /\ Remade(b, ts, hs).tickets = ts /\ Remade(b, ts, hs).hand = hs
      /\ Remade(b, ts, hs).seats = b.seats /\ Remade(b, ts, hs).hired = b.hired
      /\ Remade(b, ts, hs).asked = b.asked
  BY DEF Remade, Board
<1> QED  BY <1>4, <1>5

LEMMA Remaking ==
  ASSUME NEW b \in Board, NEW ts, NEW hs
  PROVE  /\ [b EXCEPT !.tickets = ts, !.hand = hs] = Remade(b, ts, hs)
         /\ [b EXCEPT !.tickets = ts] = Remade(b, ts, b.hand)
         /\ [b EXCEPT !.hand = hs] = Remade(b, b.tickets, hs)
BY DEF Board, Remade

\* openTicket(): the ticket is on the desk of s, and in hand or not.
OpenedAt(b, t, s, h) ==
  Remade(b, [b.tickets EXCEPT ![t] = [b.tickets[t] EXCEPT !.status = "open", !.holder = s]],
            [b.hand EXCEPT ![s] = h])

LEMMA OpenedFacts ==
  ASSUME NEW b \in Board, NEW t \in Ids, NEW s \in Seats, NEW h \in Ids \cup {NoId},
         NEW c, c = OpenedAt(b, t, s, h)
  PROVE  /\ c \in Board /\ c.seats = b.seats /\ c.hired = b.hired /\ c.asked = b.asked
         /\ \A r \in Seats : c.hand[r] = IF r = s THEN h ELSE b.hand[r]
         /\ \A u \in Ids \ {t} : c.tickets[u] = b.tickets[u]
         /\ c.tickets[t].status = "open" /\ c.tickets[t].holder = s
         /\ c.tickets[t].team = b.tickets[t].team /\ c.tickets[t].parent = b.tickets[t].parent
         /\ c.tickets[t].landed = b.tickets[t].landed
<1> DEFINE x == [b.tickets[t] EXCEPT !.status = "open", !.holder = s]
<1>1. c = Remade(b, [b.tickets EXCEPT ![t] = x], [b.hand EXCEPT ![s] = h])
  BY DEF OpenedAt
<1>2. b.tickets \in [Ids -> Ticket] /\ b.hand \in [Seats -> Ids \cup {NoId}]
  BY DEF Board
<1>3. /\ x \in Ticket /\ x.status = "open" /\ x.holder = s /\ x.team = b.tickets[t].team
      /\ x.parent = b.tickets[t].parent /\ x.landed = b.tickets[t].landed
  BY <1>2 DEF Ticket
<1> HIDE DEF x
<1>4. [b.tickets EXCEPT ![t] = x] \in [Ids -> Ticket]
      /\ [b.hand EXCEPT ![s] = h] \in [Seats -> Ids \cup {NoId}]
  BY <1>2, <1>3
<1>5. /\ c \in Board /\ c.tickets = [b.tickets EXCEPT ![t] = x] /\ c.hand = [b.hand EXCEPT ![s] = h]
      /\ c.seats = b.seats /\ c.hired = b.hired /\ c.asked = b.asked
  BY <1>1, <1>4, RemadeFacts
<1>6. c.tickets[t] = x /\ \A u \in Ids \ {t} : c.tickets[u] = b.tickets[u]
  BY <1>2, <1>5
<1>7. \A r \in Seats : c.hand[r] = IF r = s THEN h ELSE b.hand[r]
  BY <1>2, <1>5
<1> QED  BY <1>3, <1>5, <1>6, <1>7

\* A ticket of the backlog is opened on a seat's desk; the seat keeps what it has
\* in hand, or takes the ticket.
LEMMA OpenedKeeps ==
  ASSUME NEW b, NEW p, Good(b, p), NEW t \in Ids, b.tickets[t].status = "backlog",
         NEW s \in b.seats, NEW h \in {b.hand[s], t}, h # NoId, NEW c, c = OpenedAt(b, t, s, h)
  PROVE  /\ Good(c, p) /\ c.seats = b.seats /\ c.hired = b.hired /\ IsOpen(c, t)
         /\ c.tickets[t].parent = NoId
         /\ \A u \in Ids \ {t} : c.tickets[u] = b.tickets[u]
<1>1. b \in Board /\ Tidy(b) /\ Held(b) /\ Seated(b)
  BY DEF Good, Sound
<1>2. s \in Seats /\ h \in Ids \cup {NoId}
  BY <1>1 DEF Board
<1>3. /\ c \in Board /\ c.seats = b.seats /\ c.hired = b.hired /\ c.asked = b.asked
      /\ \A r \in Seats : c.hand[r] = IF r = s THEN h ELSE b.hand[r]
      /\ \A u \in Ids \ {t} : c.tickets[u] = b.tickets[u]
      /\ c.tickets[t].status = "open" /\ c.tickets[t].holder = s
      /\ c.tickets[t].team = b.tickets[t].team /\ c.tickets[t].parent = b.tickets[t].parent
      /\ c.tickets[t].landed = b.tickets[t].landed
  BY <1>1, <1>2, OpenedFacts
<1>4. /\ t # NoId /\ ~b.tickets[t].team /\ b.tickets[t].parent = NoId /\ b.tickets[t].landed = 0
      /\ \A u \in Ids : b.tickets[u].parent # t
  BY <1>1, Sizes DEF Tidy
<1>5. Holder(c, t) = s /\ \A u \in Ids \ {t} : Holder(c, u) = Holder(b, u)
  BY <1>2, <1>3, Sizes DEF Holder
<1>6. Sound(c)
  <2>1. Tidy(c)
    <3> SUFFICES ASSUME NEW u \in Ids, u # t
                 PROVE  /\ c.tickets[u].status # "merged" => c.tickets[u].landed = 0
                        /\ c.tickets[u].status \in {"none", "backlog"} =>
                             ~c.tickets[u].team /\ c.tickets[u].parent = NoId
                        /\ c.tickets[u].team \/ c.tickets[u].status \in {"none", "backlog"} =>
                             c.tickets[u].holder = NoSeat
                        /\ c.tickets[u].parent # NoId =>
                             c.tickets[c.tickets[u].parent].status \in {"open", "merged"}
      BY <1>3, <1>4 DEF Tidy
    <3> QED  BY <1>1, <1>3, <1>4, TicketFields DEF Tidy
  <2>2. Held(c)
    BY <1>1, <1>3, <1>4, <1>5 DEF Held, IsOpen
  <2>3. Seated(c)
    BY <1>1, <1>2, <1>3 DEF Seated
  <2> QED  BY <1>3, <2>1, <2>2, <2>3 DEF Sound
<1>7. ASSUME ~p PROVE Handy(c) /\ Together(c)
  <2>1. Handy(b) /\ Together(b)
    BY <1>7 DEF Good
  <2>a. /\ \A u \in Ids \ {t} : \A r : On(c, u, r) <=> On(b, u, r)
        /\ \A r : (On(c, t, r) <=> r = s) /\ ~On(b, t, r)
    BY <1>3, <1>4, <1>5 DEF On, IsOpen
  <2>2. \A r \in b.seats : HandOK(c, r)
    <3> SUFFICES ASSUME NEW r \in b.seats PROVE HandOK(c, r)
      OBVIOUS
    <3>1. HandOK(b, r) /\ r \in Seats
      BY <1>1, <2>1, TicketFields DEF Handy
    <3> QED  BY <1>3, <2>a, <3>1 DEF HandOK, On
  <2>3. \A r \in b.seats : AskOK(c, r)
    BY <1>2, <1>3, <1>4, <1>5, <2>1 DEF Handy, AskOK, Clear, On, IsOpen
  <2>4. Handy(c)
    <3>1. \A u \in Ids : c.tickets[u].landed <= 1
      BY <1>3, <1>4, <2>1 DEF Handy
    <3>2. ASSUME NEW o \in Ids, IsOpen(c, o), c.tickets[o].parent # NoId
          PROVE  IsOpen(c, c.tickets[o].parent)
      <4>1. o # t /\ IsOpen(b, o) /\ c.tickets[o] = b.tickets[o] /\ b.tickets[o].parent # NoId
        BY <1>3, <1>4, <3>2 DEF IsOpen
      <4>2. IsOpen(b, b.tickets[o].parent) /\ b.tickets[o].parent \in Ids \ {t}
        BY <1>1, <1>4, <2>1, <4>1, TicketFields DEF Handy
      <4> QED  BY <1>3, <4>1, <4>2 DEF IsOpen
    <3> QED  BY <1>3, <2>2, <2>3, <3>1, <3>2 DEF Handy
  <2>5. Together(c)
    BY <1>1, <1>3, <1>4, <1>5, <2>1, TicketFields DEF Together, IsOpen
  <2> QED  BY <2>4, <2>5
<1> QED  BY <1>3, <1>4, <1>6, <1>7 DEF Good, IsOpen

LEMMA GivenKeeps ==
  ASSUME NEW b, NEW p, Good(b, p), NEW t \in Ids, b.tickets[t].status = "backlog",
         NEW s \in b.seats, NEW c, c = Given(b, t, s)
  PROVE  Good(c, p) /\ c.seats = b.seats /\ c.hired = b.hired
<1>1. c = OpenedAt(b, t, s, t)
  BY DEF Given, OpenedAt, Remade
<1>2. t # NoId
  BY Sizes
<1> QED  BY <1>1, <1>2, OpenedKeeps

-----------------------------------------------------------------------------
(* Tickets that are not on anybody's desk, and points *)

\* The two are on the same desk, at the same point of their way.
Alike(x, y) ==
  /\ x.status = y.status /\ x.parent = y.parent /\ x.holder = y.holder /\ x.team = y.team
  /\ x.landed = y.landed

Unopened(x) == x.status \in {"none", "backlog"}
Shelved(x) ==
  /\ x.status \in {"backlog", "cancelled"}
  /\ ~x.team /\ x.parent = NoId /\ x.landed = 0 /\ x.holder = NoSeat

\* Tickets that nobody holds may come to the backlog or leave the board from it.
LEMMA ShelvedKeeps ==
  ASSUME NEW b, NEW p, Good(b, p), NEW ts \in [Ids -> Ticket],
         \A t \in Ids : \/ Alike(b.tickets[t], ts[t])
                        \/ Unopened(b.tickets[t]) /\ Shelved(ts[t]),
         NEW c, c = Remade(b, ts, b.hand)
  PROVE  /\ Good(c, p) /\ c.tickets = ts /\ c.hand = b.hand
         /\ c.seats = b.seats /\ c.hired = b.hired /\ c.asked = b.asked
<1>1. b \in Board /\ Tidy(b) /\ Held(b) /\ Seated(b)
  BY DEF Good, Sound
<1>2. /\ c \in Board /\ c.tickets = ts /\ c.hand = b.hand /\ c.seats = b.seats
      /\ c.hired = b.hired /\ c.asked = b.asked
  <2>1. b.hand \in [Seats -> Ids \cup {NoId}]
    BY <1>1, TicketFields
  <2> QED  BY <1>1, <2>1, RemadeFacts
<1>3. \A t \in Ids : /\ IsOpen(c, t) <=> IsOpen(b, t)
                     /\ IsOpen(b, t) => Alike(b.tickets[t], c.tickets[t])
  BY <1>2 DEF IsOpen, Alike, Unopened, Shelved
<1>4. \A t \in Ids : b.tickets[t].status \in {"open", "merged"} => c.tickets[t].status = b.tickets[t].status
  BY <1>2 DEF Alike, Unopened
<1>5. \A t \in Ids : c.tickets[t].landed \in {0, b.tickets[t].landed}
  BY <1>2 DEF Alike, Shelved
<1>6. \A t \in Ids : /\ Alike(b.tickets[t], c.tickets[t]) => Holder(c, t) = Holder(b, t)
                     /\ IsOpen(b, t) => Holder(c, t) = Holder(b, t)
  BY <1>3 DEF Holder, Alike
<1>7. \A t \in Ids : \A s : On(c, t, s) <=> On(b, t, s)
  BY <1>3, <1>6 DEF On, Alike
<1>8. Sound(c)
  <2>1. Tidy(c)
    <3> SUFFICES ASSUME NEW t \in Ids
                 PROVE  /\ c.tickets[t].status # "merged" => c.tickets[t].landed = 0
                        /\ c.tickets[t].status \in {"none", "backlog"} =>
                             ~c.tickets[t].team /\ c.tickets[t].parent = NoId
                        /\ c.tickets[t].team \/ c.tickets[t].status \in {"none", "backlog"} =>
                             c.tickets[t].holder = NoSeat
                        /\ c.tickets[t].parent # NoId =>
                             c.tickets[c.tickets[t].parent].status \in {"open", "merged"}
      BY DEF Tidy
    <3>1. CASE Alike(b.tickets[t], c.tickets[t])
      <4>1. /\ c.tickets[t].parent = b.tickets[t].parent /\ c.tickets[t].status = b.tickets[t].status
            /\ c.tickets[t].landed = b.tickets[t].landed /\ c.tickets[t].team = b.tickets[t].team
            /\ c.tickets[t].holder = b.tickets[t].holder
        BY <3>1 DEF Alike
      <4>2. c.tickets[t].parent # NoId => c.tickets[t].parent \in Ids
        BY <1>1, <4>1, TicketFields
      <4>3. c.tickets[t].parent # NoId => b.tickets[c.tickets[t].parent].status \in {"open", "merged"}
        BY <1>1, <4>1 DEF Tidy
      <4> QED  BY <1>1, <1>4, <4>1, <4>2, <4>3 DEF Tidy
    <3>2. CASE Shelved(c.tickets[t])
      BY <3>2 DEF Shelved
    <3> QED  BY <1>2, <3>1, <3>2
  <2>2. Held(c)
    BY <1>1, <1>2, <1>3, <1>6 DEF Held, Alike
  <2>3. Seated(c)
    BY <1>1, <1>2 DEF Seated
  <2> QED  BY <1>2, <2>1, <2>2, <2>3 DEF Sound
<1>9. ASSUME ~p PROVE Handy(c) /\ Together(c)
  <2>1. Handy(b) /\ Together(b)
    BY <1>9 DEF Good
  <2>2. \A o \in Ids : IsOpen(c, o) =>
          IsOpen(b, o) /\ c.tickets[o].parent = b.tickets[o].parent /\ c.tickets[o].team = b.tickets[o].team
    BY <1>3 DEF Alike
  <2>3. ASSUME NEW s \in b.seats PROVE HandOK(c, s) /\ AskOK(c, s)
    <3>1. HandOK(b, s) /\ AskOK(b, s) /\ s \in Seats
      BY <1>1, <2>1, TicketFields DEF Handy
    <3>2. HandOK(c, s)
      BY <1>2, <1>7, <3>1 DEF HandOK, On
    <3>3. AskOK(c, s)
      BY <1>2, <1>7, <2>2, <3>1 DEF AskOK, Clear, On
    <3> QED  BY <3>2, <3>3
  <2>4. \A o \in Ids : IsOpen(c, o) /\ c.tickets[o].parent # NoId =>
          /\ c.tickets[o].parent \in Ids /\ IsOpen(b, c.tickets[o].parent)
          /\ IsOpen(c, c.tickets[o].parent)
    BY <1>1, <1>3, <2>1, <2>2, TicketFields DEF Handy
  <2>5. \A t \in Ids : c.tickets[t].landed <= 1
    BY <1>5, <2>1 DEF Handy
  <2>6. Together(c)
    <3> SUFFICES ASSUME NEW o \in Ids, IsOpen(c, o), c.tickets[o].parent # NoId
                 PROVE  /\ c.tickets[c.tickets[o].parent].team = c.tickets[o].team
                        /\ Holder(c, c.tickets[o].parent) = Holder(c, o)
      BY DEF Together
    <3> DEFINE t == c.tickets[o].parent
    <3>1. t \in Ids /\ IsOpen(b, t) /\ IsOpen(c, t) /\ IsOpen(b, o) /\ b.tickets[o].parent = t
      BY <2>2, <2>4
    <3>2. b.tickets[t].team = b.tickets[o].team /\ Holder(b, t) = Holder(b, o)
      <4>1. LET u == b.tickets[o].parent
            IN  IsOpen(b, o) /\ u # NoId /\ IsOpen(b, u) =>
                  b.tickets[u].team = b.tickets[o].team /\ Holder(b, u) = Holder(b, o)
        BY <2>1 DEF Together
      <4>2. t # NoId
        OBVIOUS
      <4> HIDE DEF t
      <4> QED  BY <3>1, <4>1, <4>2
    <3> HIDE DEF t
    <3>3. c.tickets[t].team = c.tickets[o].team /\ Holder(c, t) = Holder(c, o)
      BY <1>6, <2>2, <3>1, <3>2
    <3> QED  BY <3>3 DEF t
  <2> QED  BY <1>2, <2>3, <2>4, <2>5, <2>6 DEF Handy
<1> QED  BY <1>2, <1>8, <1>9 DEF Good

\* Tickets that arrive are on the ids they were given, and nothing else moves.
ANew(kind) == [NoTicket EXCEPT !.kind = kind, !.status = "backlog"]

Gone == [NoTicket EXCEPT !.status = "cancelled"]

LEMMA NoTicketFacts ==
  /\ NoTicket \in Ticket
  /\ ~NoTicket.team /\ NoTicket.parent = NoId /\ NoTicket.landed = 0
  /\ NoTicket.holder = NoSeat
<1>1. 0 \in 0..2
  OBVIOUS
<1> QED  BY <1>1 DEF NoTicket, Ticket

LEMMA ANewTicket ==
  ASSUME NEW k \in Kinds
  PROVE  /\ ANew(k) \in Ticket /\ Shelved(ANew(k)) /\ ANew(k).status = "backlog"
BY NoTicketFacts DEF ANew, Ticket, Shelved

LEMMA GoneTicket == Gone \in Ticket /\ Shelved(Gone) /\ Gone.status = "cancelled"
BY NoTicketFacts DEF Gone, Ticket, Shelved

\* Work arrives in the backlog.
LEMMA ArrivedKeeps ==
  ASSUME NEW b, NEW p, Good(b, p), NEW kinds, DOMAIN kinds \subseteq Unused(b),
         \A t \in DOMAIN kinds : kinds[t] \in Kinds,
         NEW c, c = Arrived(b, kinds)
  PROVE  /\ Good(c, p) /\ c.seats = b.seats /\ c.hired = b.hired /\ c.asked = b.asked
         /\ c.hand = b.hand
         /\ \A t \in Ids : IF t \in DOMAIN kinds THEN c.tickets[t].status = "backlog"
                                                  ELSE c.tickets[t] = b.tickets[t]
<1> DEFINE ts == [t \in Ids |-> IF t \in DOMAIN kinds
                                THEN ANew(kinds[t])
                                ELSE b.tickets[t]]
<1>1. b \in Board
  BY DEF Good, Sound
<1>2. \A k \in Kinds : /\ ANew(k) \in Ticket /\ Shelved(ANew(k))
                        /\ ANew(k).status = "backlog"
  BY ANewTicket
<1>3. ASSUME NEW t \in Ids
      PROVE  /\ ts[t] \in Ticket
             /\ IF t \in DOMAIN kinds
                THEN Unopened(b.tickets[t]) /\ Shelved(ts[t]) /\ ts[t].status = "backlog"
                ELSE ts[t] = b.tickets[t]
  <2>1. CASE t \in DOMAIN kinds
    <3>1. Unopened(b.tickets[t])
      BY <2>1 DEF Unused, Unopened
    <3>2. ts[t] = ANew(kinds[t]) /\ kinds[t] \in Kinds
      BY <2>1
    <3> QED  BY <1>2, <2>1, <3>1, <3>2
  <2>2. CASE t \notin DOMAIN kinds
    BY <1>1, <2>2, TicketFields
  <2> QED  BY <2>1, <2>2
<1>4. ts \in [Ids -> Ticket]
  BY <1>3
<1>5. c = Remade(b, ts, b.hand)
  BY <1>1, Remaking DEF Arrived, ANew
<1> HIDE DEF ts
<1>6. \A t \in Ids : Alike(b.tickets[t], ts[t]) \/ (Unopened(b.tickets[t]) /\ Shelved(ts[t]))
  BY <1>3 DEF Alike
<1>7. /\ Good(c, p) /\ c.tickets = ts /\ c.hand = b.hand
      /\ c.seats = b.seats /\ c.hired = b.hired /\ c.asked = b.asked
  BY <1>4, <1>5, <1>6, ShelvedKeeps
<1> QED  BY <1>3, <1>7

\* Work of the backlog goes.
LEMMA CancelledKeeps ==
  ASSUME NEW b, NEW p, Good(b, p), NEW gone, gone \subseteq Backlog(b),
         NEW c, c = Cancelled(b, gone)
  PROVE  /\ Good(c, p) /\ c.seats = b.seats /\ c.hired = b.hired
         /\ \A t \in Ids : c.tickets[t].status = "backlog" => b.tickets[t].status = "backlog"
<1> DEFINE ts == [t \in Ids |-> IF t \in gone THEN Gone
                                ELSE b.tickets[t]]
<1>1. b \in Board
  BY DEF Good, Sound
<1>2. /\ Gone \in Ticket /\ Shelved(Gone)
      /\ Gone.status = "cancelled"
  BY GoneTicket
<1>3. ASSUME NEW t \in Ids
      PROVE  /\ ts[t] \in Ticket
             /\ IF t \in gone THEN Unopened(b.tickets[t]) /\ Shelved(ts[t]) /\ ts[t].status = "cancelled"
                ELSE ts[t] = b.tickets[t]
  BY <1>1, <1>2, TicketFields DEF Backlog, Unopened
<1>4. ts \in [Ids -> Ticket]
  BY <1>3
<1>5. c = Remade(b, ts, b.hand)
  BY <1>1, Remaking DEF Cancelled, Gone
<1> HIDE DEF ts
<1>6. \A t \in Ids : Alike(b.tickets[t], ts[t]) \/ (Unopened(b.tickets[t]) /\ Shelved(ts[t]))
  BY <1>3 DEF Alike
<1>7. /\ Good(c, p) /\ c.tickets = ts /\ c.seats = b.seats /\ c.hired = b.hired
  BY <1>4, <1>5, <1>6, ShelvedKeeps
<1> QED  BY <1>3, <1>7

\* Points are nobody's business here.
Pointed(b, t, v) == [b EXCEPT !.tickets[t].done = v]

\* Points and flags are nobody's hands.
LEMMA DoneKeeps ==
  ASSUME NEW b, NEW p, Good(b, p), NEW t \in Ids, NEW v \in BOOLEAN,
         NEW c, c = Pointed(b, t, v)
  PROVE  /\ Good(c, p) /\ c.hand = b.hand /\ c.seats = b.seats /\ c.hired = b.hired
         /\ c.asked = b.asked
         /\ \A u \in Ids : Alike(b.tickets[u], c.tickets[u])
<1> DEFINE ts == [b.tickets EXCEPT ![t] = [b.tickets[t] EXCEPT !.done = v]]
<1>1. b \in Board /\ b.tickets \in [Ids -> Ticket]
  BY DEF Good, Sound, Board
<1>2. [b.tickets[t] EXCEPT !.done = v] \in Ticket /\ Alike(b.tickets[t], [b.tickets[t] EXCEPT !.done = v])
  BY <1>1 DEF Ticket, Alike
<1>3. ts \in [Ids -> Ticket] /\ \A u \in Ids : Alike(b.tickets[u], ts[u])
  BY <1>1, <1>2 DEF Alike
<1>4. c = Remade(b, ts, b.hand)
  BY <1>1, Remaking DEF Pointed
<1> HIDE DEF ts
<1>5. \A u \in Ids : Alike(b.tickets[u], ts[u]) \/ (Unopened(b.tickets[u]) /\ Shelved(ts[u]))
  BY <1>3
<1>6. /\ Good(c, p) /\ c.tickets = ts /\ c.hand = b.hand /\ c.seats = b.seats
      /\ c.hired = b.hired /\ c.asked = b.asked
  BY <1>3, <1>4, <1>5, ShelvedKeeps
<1> QED  BY <1>3, <1>6

-----------------------------------------------------------------------------
(* Work that arrives, is forced, is pulled by the developer *)

LEMMA ForcedOpens ==
  ASSUME NEW b \in Board, NEW t \in Ids
  PROVE  \E s \in Seats : \E h \in {b.hand[s], t} :
           /\ h # NoId /\ Forced(b, t) = OpenedAt(b, t, s, h)
           /\ b.seats # {} => s \in b.seats
<1>1. b.seats \in SUBSET Seats /\ t # NoId
  BY Sizes DEF Board
<1> DEFINE opened == [b EXCEPT !.tickets[t].status = "open"]
           s == LightestSeat(opened)
           h == IF b.hand[s] = NoId THEN t ELSE b.hand[s]
<1>2. opened.seats = b.seats
  BY <1>1 DEF Board
<1>3. s \in Seats /\ (b.seats # {} => s \in b.seats)
  <2> HIDE DEF opened
  <2> QED  BY <1>1, <1>2, Lightest
<1>4. Forced(b, t) = OpenedAt(b, t, s, h)
  BY <1>1 DEF Forced, OpenedAt, Remade, Board
<1>5. h \in {b.hand[s], t} /\ h # NoId
  BY <1>1
<1> HIDE DEF s, h, opened
<1> QED  BY <1>3, <1>4, <1>5

LEMMA ForcedTyped ==
  ASSUME NEW b \in Board, NEW t \in Ids
  PROVE  Forced(b, t) \in Board
<1>1. PICK s \in Seats : \E h \in {b.hand[s], t} : h # NoId /\ Forced(b, t) = OpenedAt(b, t, s, h)
  BY ForcedOpens
<1>2. PICK h \in {b.hand[s], t} : Forced(b, t) = OpenedAt(b, t, s, h)
  BY <1>1
<1>3. h \in Ids \cup {NoId}
  BY TicketFields
<1> QED  BY <1>2, <1>3, OpenedFacts

\* openTicket(), forced: the ticket lands on the lightest desk.
LEMMA ForcedKeeps ==
  ASSUME NEW b, NEW p, Good(b, p), NEW t \in Ids, b.tickets[t].status = "backlog",
         b.seats # {}, NEW c, c = Forced(b, t)
  PROVE  /\ Good(c, p) /\ c.seats = b.seats /\ c.hired = b.hired /\ IsOpen(c, t)
         /\ c.tickets[t].parent = NoId
         /\ \A u \in Ids \ {t} : c.tickets[u] = b.tickets[u]
<1>1. b \in Board
  BY DEF Good, Sound
<1>2. PICK s \in b.seats : \E h \in {b.hand[s], t} : h # NoId /\ c = OpenedAt(b, t, s, h)
  BY <1>1, ForcedOpens
<1> QED  BY <1>2, OpenedKeeps

\* Along a chain over tickets of the backlog, those still to come are in it.
LEMMA ForcedAllKeeps ==
  ASSUME NEW b, NEW p, Good(b, p), b.seats # {},
         NEW xs \in SUBSET Backlog(b), NEW c, c = ForcedAll(b, xs)
  PROVE  Good(c, p) /\ c.seats = b.seats /\ c.hired = b.hired
<1>1. b \in Board /\ xs \in SUBSET Ids
  BY DEF Good, Sound, Backlog
<1>2. PICK g : /\ g[0] = b /\ c = g[Last]
               /\ \A n \in 1..Last :
                    g[n] = IF n - 1 \in xs THEN Forced(g[n - 1], n - 1) ELSE g[n - 1]
  BY <1>1, ForcedTyped, ForceChain
<1> DEFINE T == {n \in 0..Last : /\ Good(g[n], p) /\ g[n].seats = b.seats /\ g[n].hired = b.hired
                                 /\ \A t \in xs : t >= n => g[n].tickets[t].status = "backlog"}
<1>3. Last \in Nat
  BY Sizes DEF Last
<1>4. 0 \in T
  BY <1>2, <1>3 DEF Backlog
<1>5. ASSUME NEW k \in 0..(Last - 1), k \in T PROVE k + 1 \in T
  <2>1. k + 1 \in 1..Last /\ k + 1 \in 0..Last /\ (k + 1) - 1 = k /\ k \in Nat
    BY <1>3
  <2>2. g[k + 1] = IF k \in xs THEN Forced(g[k], k) ELSE g[k]
    BY <1>2, <2>1
  <2>3. /\ Good(g[k], p) /\ g[k].seats = b.seats /\ g[k].hired = b.hired
        /\ \A t \in xs : t >= k => g[k].tickets[t].status = "backlog"
    BY <1>5
  <2>4. \A t \in xs : t >= k + 1 => t >= k /\ t \in Ids \ {k}
    BY <1>1, <2>1, Sizes
  <2>5. CASE k \in xs
    <3>1. k \in Ids /\ g[k].tickets[k].status = "backlog"
      BY <1>1, <2>1, <2>3, <2>5
    <3>2. /\ Good(g[k + 1], p) /\ g[k + 1].seats = b.seats /\ g[k + 1].hired = b.hired
          /\ \A u \in Ids \ {k} : g[k + 1].tickets[u] = g[k].tickets[u]
      BY <2>2, <2>3, <2>5, <3>1, ForcedKeeps
    <3>3. \A t \in xs : t >= k + 1 => g[k + 1].tickets[t].status = "backlog"
      BY <2>3, <2>4, <3>2
    <3> QED  BY <2>1, <3>2, <3>3
  <2>6. CASE k \notin xs
    BY <2>1, <2>2, <2>3, <2>4, <2>6
  <2> QED  BY <2>5, <2>6
<1> HIDE DEF T
<1>6. \A k \in 0..Last : k \in T
  BY <1>3, <1>4, <1>5, UpTo
<1>7. Last \in T
  BY <1>3, <1>6
<1> QED  BY <1>2, <1>7 DEF T

LEMMA OneOfFacts ==
  ASSUME NEW b, NEW kind, Unused(b) # {}
  PROVE  /\ DOMAIN OneOf(b, kind) = {Min(Unused(b))}
         /\ DOMAIN OneOf(b, kind) \subseteq Unused(b)
         /\ \A t \in DOMAIN OneOf(b, kind) : OneOf(b, kind)[t] = kind
<1>1. Min(Unused(b)) \in Unused(b)
  BY FirstUnused DEF Unused
<1> QED  BY <1>1 DEF OneOf

LEMMA OneArrives ==
  ASSUME NEW b, NEW p, Good(b, p), Unused(b) # {}, NEW kind \in Kinds,
         NEW c, c = Arrived(b, OneOf(b, kind))
  PROVE  /\ Good(c, p) /\ c.seats = b.seats /\ c.hired = b.hired /\ c.hand = b.hand
         /\ c.asked = b.asked
         /\ Min(Unused(b)) \in Ids /\ c.tickets[Min(Unused(b))].status = "backlog"
<1>1. /\ DOMAIN OneOf(b, kind) = {Min(Unused(b))}
      /\ DOMAIN OneOf(b, kind) \subseteq Unused(b)
      /\ \A t \in DOMAIN OneOf(b, kind) : OneOf(b, kind)[t] \in Kinds
  BY OneOfFacts
<1>2. Min(Unused(b)) \in Ids
  BY FirstUnused
<1> QED  BY <1>1, <1>2, ArrivedKeeps

LEMMA WithForcedKeeps ==
  ASSUME NEW b, NEW p, Good(b, p), b.seats # {}, Unused(b) # {}, NEW c, c = WithForced(b)
  PROVE  Good(c, p) /\ c.seats = b.seats /\ c.hired = b.hired
<1> DEFINE d == Arrived(b, OneOf(b, "forced"))
           t == Min(Unused(b))
<1>1. "forced" \in Kinds
  BY DEF Kinds
<1>2. Good(d, p) /\ d.seats = b.seats /\ d.hired = b.hired /\ t \in Ids /\ d.tickets[t].status = "backlog"
  BY <1>1, OneArrives
<1>3. c = Forced(d, t)
  BY DEF WithForced
<1> HIDE DEF d, t
<1> QED  BY <1>2, <1>3, ForcedKeeps

LEMMA ArrivalsKeep ==
  ASSUME NEW b, NEW p, Good(b, p), NEW c \in Arrivals(b)
  PROVE  Good(c, p) /\ c.seats = b.seats /\ c.hired = b.hired
<1>1. CASE c = b
  BY <1>1
<1>2. CASE c # b
  <2>1. PICK kinds \in UNION {[ids -> Drawn \cup {"feature"}] : ids \in NextIds(b)} :
          c = Arrived(b, kinds)
    BY <1>2 DEF Arrivals
  <2>2. PICK ids \in NextIds(b) : kinds \in [ids -> Drawn \cup {"feature"}]
    BY <2>1
  <2>3. DOMAIN kinds \subseteq Unused(b) /\ \A t \in DOMAIN kinds : kinds[t] \in Kinds
    BY <2>2, DesksDrawn DEF NextIds, Kinds
  <2> QED  BY <2>1, <2>3, ArrivedKeeps
<1> QED  BY <1>1, <1>2

LEMMA TakeFacts ==
  ASSUME NEW b \in Board, NEW t \in Ids, NEW c, c = Take(b, t), c # b
  PROVE  /\ c \in Board /\ c.seats = b.seats /\ c.hired = b.hired /\ c.asked = b.asked
         /\ c.hand = b.hand /\ b.hired
         /\ \A u \in Ids \ {t} : c.tickets[u] = b.tickets[u]
         /\ c.tickets[t].status = "open" /\ c.tickets[t].team
         /\ c.tickets[t].parent = b.tickets[t].parent /\ c.tickets[t].landed = b.tickets[t].landed
         /\ c.tickets[t].holder = b.tickets[t].holder
<1> DEFINE x == [b.tickets[t] EXCEPT !.status = "open", !.team = TRUE]
<1>1. b.hired /\ c = [b EXCEPT !.tickets[t].status = "open", !.tickets[t].team = TRUE]
  BY DEF Take
<1>2. b.tickets \in [Ids -> Ticket] /\ b.hand \in [Seats -> Ids \cup {NoId}]
  BY DEF Board
<1>3. [b EXCEPT !.tickets[t].status = "open", !.tickets[t].team = TRUE]
        = [b EXCEPT !.tickets = [b.tickets EXCEPT ![t] = x]]
  BY <1>2 DEF Board, Ticket
<1>4. /\ x \in Ticket /\ x.status = "open" /\ x.team /\ x.holder = b.tickets[t].holder
      /\ x.parent = b.tickets[t].parent /\ x.landed = b.tickets[t].landed
  BY <1>2 DEF Ticket
<1> HIDE DEF x
<1>5. c = Remade(b, [b.tickets EXCEPT ![t] = x], b.hand)
  BY <1>1, <1>3, Remaking
<1>6. [b.tickets EXCEPT ![t] = x] \in [Ids -> Ticket]
  BY <1>2, <1>4
<1>7. /\ c \in Board /\ c.tickets = [b.tickets EXCEPT ![t] = x] /\ c.hand = b.hand
      /\ c.seats = b.seats /\ c.hired = b.hired /\ c.asked = b.asked
  BY <1>2, <1>5, <1>6, RemadeFacts
<1>8. c.tickets[t] = x /\ \A u \in Ids \ {t} : c.tickets[u] = b.tickets[u]
  BY <1>2, <1>7
<1> QED  BY <1>1, <1>4, <1>7, <1>8

LEMMA TakeTyped ==
  ASSUME NEW b \in Board, NEW t \in Ids
  PROVE  Take(b, t) \in Board
<1> SUFFICES ASSUME NEW c, c = Take(b, t), c # b PROVE c \in Board
  OBVIOUS
<1> QED  BY TakeFacts

\* pullTeam(), one ticket.
LEMMA TakeKeeps ==
  ASSUME NEW b, NEW p, Good(b, p), NEW t \in Ids, b.tickets[t].status = "backlog",
         NEW c, c = Take(b, t)
  PROVE  /\ Good(c, p) /\ c.seats = b.seats /\ c.hired = b.hired
         /\ \A u \in Ids \ {t} : c.tickets[u] = b.tickets[u]
<1> SUFFICES ASSUME c # b
             PROVE  /\ Good(c, p) /\ c.seats = b.seats /\ c.hired = b.hired
                    /\ \A u \in Ids \ {t} : c.tickets[u] = b.tickets[u]
  OBVIOUS
<1>1. b \in Board /\ Tidy(b) /\ Held(b) /\ Seated(b)
  BY DEF Good, Sound
<1>2. /\ c \in Board /\ c.seats = b.seats /\ c.hired = b.hired /\ c.asked = b.asked
      /\ c.hand = b.hand /\ b.hired
      /\ \A u \in Ids \ {t} : c.tickets[u] = b.tickets[u]
      /\ c.tickets[t].status = "open" /\ c.tickets[t].team
      /\ c.tickets[t].parent = b.tickets[t].parent /\ c.tickets[t].landed = b.tickets[t].landed
      /\ c.tickets[t].holder = b.tickets[t].holder
  BY <1>1, TakeFacts
<1>3. /\ t # NoId /\ b.tickets[t].holder = NoSeat /\ b.tickets[t].parent = NoId /\ b.tickets[t].landed = 0
      /\ \A u \in Ids : b.tickets[u].parent # t
  BY <1>1, Sizes DEF Tidy
<1>4. \A u \in Ids \ {t} : Holder(c, u) = Holder(b, u)
  BY <1>2 DEF Holder
<1>5. \A u \in Ids : \A r : On(c, u, r) <=> On(b, u, r)
  BY <1>2, <1>4 DEF On, IsOpen
<1>6. Sound(c)
  <2>1. Tidy(c)
    <3> SUFFICES ASSUME NEW u \in Ids, u # t
                 PROVE  /\ c.tickets[u].status # "merged" => c.tickets[u].landed = 0
                        /\ c.tickets[u].status \in {"none", "backlog"} =>
                             ~c.tickets[u].team /\ c.tickets[u].parent = NoId
                        /\ c.tickets[u].team \/ c.tickets[u].status \in {"none", "backlog"} =>
                             c.tickets[u].holder = NoSeat
                        /\ c.tickets[u].parent # NoId =>
                             c.tickets[c.tickets[u].parent].status \in {"open", "merged"}
      BY <1>2, <1>3 DEF Tidy
    <3> QED  BY <1>1, <1>2, <1>3, TicketFields DEF Tidy
  <2>2. Held(c)
    BY <1>1, <1>2, <1>3, <1>4 DEF Held, IsOpen
  <2>3. Seated(c)
    BY <1>1, <1>2 DEF Seated
  <2> QED  BY <1>2, <2>1, <2>2, <2>3 DEF Sound
<1>7. ASSUME ~p PROVE Handy(c) /\ Together(c)
  <2>1. Handy(b) /\ Together(b)
    BY <1>7 DEF Good
  <2>a. ASSUME NEW s \in b.seats PROVE HandOK(c, s) /\ AskOK(c, s)
    <3>1. HandOK(b, s) /\ AskOK(b, s) /\ s \in Seats
      BY <1>1, <2>1, TicketFields DEF Handy
    <3>2. HandOK(c, s)
      BY <1>2, <1>5, <3>1 DEF HandOK, On
    <3>3. AskOK(c, s)
      BY <1>2, <1>3, <1>5, <3>1 DEF AskOK, Clear, IsOpen, On
    <3> QED  BY <3>2, <3>3
  <2>4. \A u \in Ids : c.tickets[u].landed <= 1
    BY <1>2, <1>3, <2>1 DEF Handy
  <2>5. ASSUME NEW o \in Ids, IsOpen(c, o), c.tickets[o].parent # NoId
        PROVE  IsOpen(c, c.tickets[o].parent)
    <3>1. o # t /\ IsOpen(b, o) /\ c.tickets[o] = b.tickets[o] /\ b.tickets[o].parent # NoId
      BY <1>2, <1>3, <2>5 DEF IsOpen
    <3>2. IsOpen(b, b.tickets[o].parent) /\ b.tickets[o].parent \in Ids \ {t}
      BY <1>1, <1>3, <2>1, <3>1, TicketFields DEF Handy
    <3> QED  BY <1>2, <3>1, <3>2 DEF IsOpen
  <2>6. Together(c)
    BY <1>1, <1>2, <1>3, <1>4, <2>1, TicketFields DEF Together, IsOpen
  <2> QED  BY <1>2, <2>a, <2>4, <2>5, <2>6 DEF Handy
<1> QED  BY <1>2, <1>6, <1>7 DEF Good

\* pullTeam(), all of them.
LEMMA PulledKeeps ==
  ASSUME NEW b, NEW p, Good(b, p), NEW c, c = Pulled(b)
  PROVE  Good(c, p) /\ c.seats = b.seats /\ c.hired = b.hired
<1> DEFINE xs == {t \in Backlog(b) : b.tickets[t].kind \in TeamTakes}
<1>1. b \in Board /\ xs \in SUBSET Ids /\ xs \subseteq Backlog(b)
  BY DEF Good, Sound, Backlog
<1>2. c = Taken(b, xs)
  BY DEF Pulled
<1> HIDE DEF xs
<1>3. PICK g : /\ g[0] = b /\ c = g[Last]
               /\ \A n \in 1..Last :
                    g[n] = IF n - 1 \in xs THEN Take(g[n - 1], n - 1) ELSE g[n - 1]
  BY <1>1, <1>2, TakeTyped, TakeChain
<1> DEFINE T == {n \in 0..Last : /\ Good(g[n], p) /\ g[n].seats = b.seats /\ g[n].hired = b.hired
                                 /\ \A t \in xs : t >= n => g[n].tickets[t].status = "backlog"}
<1>4. Last \in Nat
  BY Sizes DEF Last
<1>5. 0 \in T
  BY <1>1, <1>3, <1>4 DEF Backlog
<1>6. ASSUME NEW k \in 0..(Last - 1), k \in T PROVE k + 1 \in T
  <2>1. k + 1 \in 1..Last /\ k + 1 \in 0..Last /\ (k + 1) - 1 = k /\ k \in Nat
    BY <1>4
  <2>2. g[k + 1] = IF k \in xs THEN Take(g[k], k) ELSE g[k]
    BY <1>3, <2>1
  <2>3. /\ Good(g[k], p) /\ g[k].seats = b.seats /\ g[k].hired = b.hired
        /\ \A t \in xs : t >= k => g[k].tickets[t].status = "backlog"
    BY <1>6
  <2>4. \A t \in xs : t >= k + 1 => t >= k /\ t \in Ids \ {k}
    BY <1>1, <2>1, Sizes
  <2>5. CASE k \in xs
    <3>1. k \in Ids /\ g[k].tickets[k].status = "backlog"
      BY <1>1, <2>1, <2>3, <2>5
    <3>2. /\ Good(g[k + 1], p) /\ g[k + 1].seats = b.seats /\ g[k + 1].hired = b.hired
          /\ \A u \in Ids \ {k} : g[k + 1].tickets[u] = g[k].tickets[u]
      BY <2>2, <2>3, <2>5, <3>1, TakeKeeps
    <3>3. \A t \in xs : t >= k + 1 => g[k + 1].tickets[t].status = "backlog"
      BY <2>3, <2>4, <3>2
    <3> QED  BY <2>1, <3>2, <3>3
  <2>6. CASE k \notin xs
    BY <2>1, <2>2, <2>3, <2>4, <2>6
  <2> QED  BY <2>5, <2>6
<1> HIDE DEF T
<1>7. \A k \in 0..Last : k \in T
  BY <1>4, <1>5, <1>6, UpTo
<1>8. Last \in T
  BY <1>4, <1>7
<1> QED  BY <1>3, <1>8 DEF T

-----------------------------------------------------------------------------
(* Commits *)

AnObstacle(x, t) ==
  [NoTicket EXCEPT !.kind = "obstacle", !.status = "open", !.parent = t, !.holder = x.holder,
                   !.team = x.team]

LEMMA ObstacleFacts ==
  ASSUME NEW b \in Board, NEW t \in Ids, Unused(b) # {}, NEW c, c = WithObstacle(b, t)
  PROVE  \E o \in Ids :
           /\ c \in Board /\ c.seats = b.seats /\ c.hired = b.hired /\ c.asked = b.asked
           /\ \A s \in Seats : c.hand[s] = IF b.hand[s] = t THEN o ELSE b.hand[s]
           /\ b.tickets[o].status = "none"
           /\ \A u \in Ids \ {o} : c.tickets[u] = b.tickets[u]
           /\ c.tickets[o].status = "open" /\ c.tickets[o].parent = t /\ c.tickets[o].landed = 0
           /\ c.tickets[o].holder = b.tickets[t].holder /\ c.tickets[o].team = b.tickets[t].team
<1> DEFINE o == Min(Unused(b))
           x == AnObstacle(b.tickets[t], t)
           hs == [s \in Seats |-> IF b.hand[s] = t THEN o ELSE b.hand[s]]
<1>1. o \in Ids /\ b.tickets[o].status = "none"
  BY FirstUnused
<1>2. /\ b.tickets \in [Ids -> Ticket] /\ b.hand \in [Seats -> Ids \cup {NoId}]
      /\ b.tickets[t].holder \in Seats \cup {NoSeat} /\ b.tickets[t].team \in BOOLEAN
  BY TicketFields
<1>3. /\ x \in Ticket /\ x.status = "open" /\ x.parent = t /\ x.landed = 0
      /\ x.holder = b.tickets[t].holder /\ x.team = b.tickets[t].team
  BY <1>2, NoTicketFacts DEF AnObstacle, Ticket, Kinds
<1>4. c = [b EXCEPT !.tickets = [b.tickets EXCEPT ![o] = x], !.hand = hs]
  BY DEF WithObstacle, AnObstacle
<1> HIDE DEF x, o
<1>5. [b.tickets EXCEPT ![o] = x] \in [Ids -> Ticket] /\ hs \in [Seats -> Ids \cup {NoId}]
  BY <1>1, <1>2, <1>3
<1>6. \A s \in Seats : hs[s] = IF b.hand[s] = t THEN o ELSE b.hand[s]
  OBVIOUS
<1> HIDE DEF hs
<1>7. c = Remade(b, [b.tickets EXCEPT ![o] = x], hs)
  BY <1>4 DEF Remade
<1>8. /\ c \in Board /\ c.tickets = [b.tickets EXCEPT ![o] = x] /\ c.hand = hs
      /\ c.seats = b.seats /\ c.hired = b.hired /\ c.asked = b.asked
  BY <1>5, <1>7, RemadeFacts
<1>9. c.tickets[o] = x /\ \A u \in Ids \ {o} : c.tickets[u] = b.tickets[u]
  BY <1>1, <1>2, <1>8
<1> QED  BY <1>1, <1>3, <1>6, <1>8, <1>9

\* An obstacle is in the hands its ticket was in, and nobody is asked about that one.
LEMMA ObstacleKeeps ==
  ASSUME NEW b, NEW p, Good(b, p), NEW t \in Ids, IsOpen(b, t), Unused(b) # {},
         ~p => \A s \in b.seats : b.asked[s].ticket # t,
         NEW c, c = WithObstacle(b, t)
  PROVE  /\ Good(c, p) /\ c.seats = b.seats /\ c.hired = b.hired
         /\ \A u \in Ids : IsOpen(b, u) => c.tickets[u] = b.tickets[u]
<1>1. b \in Board /\ Tidy(b) /\ Held(b) /\ Seated(b)
  BY DEF Good, Sound
<1>2. PICK o \in Ids :
        /\ c \in Board /\ c.seats = b.seats /\ c.hired = b.hired /\ c.asked = b.asked
        /\ \A s \in Seats : c.hand[s] = IF b.hand[s] = t THEN o ELSE b.hand[s]
        /\ b.tickets[o].status = "none"
        /\ \A u \in Ids \ {o} : c.tickets[u] = b.tickets[u]
        /\ c.tickets[o].status = "open" /\ c.tickets[o].parent = t /\ c.tickets[o].landed = 0
        /\ c.tickets[o].holder = b.tickets[t].holder /\ c.tickets[o].team = b.tickets[t].team
  BY <1>1, ObstacleFacts
<1>3. /\ t # NoId /\ o # NoId /\ o # t /\ ~IsOpen(b, o)
      /\ \A u \in Ids : b.tickets[u].parent # o
  BY <1>1, <1>2, Sizes DEF Tidy, IsOpen
<1>4. Holder(c, o) = Holder(b, t) /\ \A u \in Ids \ {o} : Holder(c, u) = Holder(b, u)
  BY <1>2 DEF Holder
<1>5. /\ \A u \in Ids \ {o} : \A r : On(c, u, r) <=> On(b, u, r)
      /\ \A r : (On(c, o, r) <=> On(b, t, r)) /\ ~On(b, o, r)
  BY <1>2, <1>3, <1>4 DEF On, IsOpen
<1>6. Sound(c)
  <2>1. Tidy(c)
    <3> SUFFICES ASSUME NEW u \in Ids, u # o
                 PROVE  /\ c.tickets[u].status # "merged" => c.tickets[u].landed = 0
                        /\ c.tickets[u].status \in {"none", "backlog"} =>
                             ~c.tickets[u].team /\ c.tickets[u].parent = NoId
                        /\ c.tickets[u].team \/ c.tickets[u].status \in {"none", "backlog"} =>
                             c.tickets[u].holder = NoSeat
                        /\ c.tickets[u].parent # NoId =>
                             c.tickets[c.tickets[u].parent].status \in {"open", "merged"}
      BY <1>2, <1>3 DEF Tidy, IsOpen
    <3> QED  BY <1>1, <1>2, <1>3, TicketFields DEF Tidy
  <2>2. Held(c)
    BY <1>1, <1>2, <1>3, <1>4 DEF Held, IsOpen
  <2>3. Seated(c)
    BY <1>1, <1>2, <1>3 DEF Seated
  <2> QED  BY <1>2, <2>1, <2>2, <2>3 DEF Sound
<1>7. ASSUME ~p PROVE Handy(c) /\ Together(c)
  <2>1. Handy(b) /\ Together(b) /\ \A s \in b.seats : b.asked[s].ticket # t
    BY <1>7 DEF Good
  <2>2. ASSUME NEW s \in b.seats PROVE HandOK(c, s) /\ AskOK(c, s)
    <3>1. HandOK(b, s) /\ AskOK(b, s) /\ s \in Seats
      BY <1>1, <2>1, TicketFields DEF Handy
    <3>2. HandOK(c, s)
      BY <1>2, <1>3, <1>5, <3>1 DEF HandOK, On
    <3>3. AskOK(c, s)
      BY <1>2, <1>3, <1>5, <2>1, <3>1 DEF AskOK, Clear, IsOpen, On
    <3> QED  BY <3>2, <3>3
  <2>3. \A u \in Ids : c.tickets[u].landed <= 1
    BY <1>2, <2>1 DEF Handy
  <2>4. ASSUME NEW q \in Ids, IsOpen(c, q), c.tickets[q].parent # NoId
        PROVE  IsOpen(c, c.tickets[q].parent)
    <3>1. CASE q = o
      BY <1>2, <1>3, <3>1 DEF IsOpen
    <3>2. CASE q # o
      <4>1. IsOpen(b, q) /\ c.tickets[q] = b.tickets[q] /\ b.tickets[q].parent # NoId
        BY <1>2, <2>4, <3>2 DEF IsOpen
      <4>2. IsOpen(b, b.tickets[q].parent) /\ b.tickets[q].parent \in Ids \ {o}
        BY <1>1, <1>3, <2>1, <4>1, TicketFields DEF Handy
      <4> QED  BY <1>2, <4>1, <4>2 DEF IsOpen
    <3> QED  BY <3>1, <3>2
  <2>5. Together(c)
    <3> SUFFICES ASSUME NEW q \in Ids, IsOpen(c, q), c.tickets[q].parent # NoId
                 PROVE  /\ c.tickets[c.tickets[q].parent].team = c.tickets[q].team
                        /\ Holder(c, c.tickets[q].parent) = Holder(c, q)
      BY DEF Together
    <3>1. CASE q = o
      BY <1>2, <1>3, <1>4, <3>1
    <3>2. CASE q # o
      <4>1. IsOpen(b, q) /\ c.tickets[q] = b.tickets[q] /\ b.tickets[q].parent # NoId
        BY <1>2, <3>2 DEF IsOpen
      <4>2. IsOpen(b, b.tickets[q].parent) /\ b.tickets[q].parent \in Ids \ {o}
        BY <1>1, <1>3, <2>1, <4>1, TicketFields DEF Handy
      <4>3. /\ b.tickets[b.tickets[q].parent].team = b.tickets[q].team
            /\ Holder(b, b.tickets[q].parent) = Holder(b, q)
        BY <2>1, <4>1, <4>2 DEF Together
      <4> QED  BY <1>2, <1>4, <3>2, <4>1, <4>2, <4>3
    <3> QED  BY <3>1, <3>2
  <2> QED  BY <1>2, <2>2, <2>3, <2>4, <2>5 DEF Handy
<1>8. \A u \in Ids : IsOpen(b, u) => c.tickets[u] = b.tickets[u]
  BY <1>2, <1>3
<1> QED  BY <1>2, <1>6, <1>7, <1>8 DEF Good

LEMMA WrittenKeeps ==
  ASSUME NEW b, NEW p, Good(b, p), NEW t \in Ids, NEW c \in Written(b, t)
  PROVE  /\ Good(c, p) /\ c.hand = b.hand /\ c.seats = b.seats /\ c.hired = b.hired
         /\ c.asked = b.asked
         /\ \A u \in Ids : Alike(b.tickets[u], c.tickets[u])
<1>1. CASE c = b
  BY <1>1 DEF Alike
<1>2. CASE c # b
  <2>1. \E v \in BOOLEAN : c = Pointed(b, t, v)
    BY <1>2 DEF Written, Pointed
  <2> QED  BY <2>1, DoneKeeps
<1> QED  BY <1>1, <1>2

\* A commit, with the obstacle it may turn up.
LEMMA CommitKeeps ==
  ASSUME NEW b, NEW p, Good(b, p), NEW t \in Ids, IsOpen(b, t),
         ~p => \A s \in b.seats : b.asked[s].ticket # t,
         NEW c \in WrittenOrSpawned(b, t)
  PROVE  /\ Good(c, p) /\ c.seats = b.seats /\ c.hired = b.hired
         /\ \A u \in Ids : IsOpen(b, u) => IsOpen(c, u) /\ Alike(b.tickets[u], c.tickets[u])
<1>1. CASE c \in Written(b, t)
  BY <1>1, WrittenKeeps DEF Alike, IsOpen
<1>2. CASE c \notin Written(b, t)
  <2>1. PICK w \in Written(b, t) : CanSpawn(w, t) /\ c = WithObstacle(w, t)
    BY <1>2 DEF WrittenOrSpawned
  <2>2. /\ Good(w, p) /\ w.seats = b.seats /\ w.hired = b.hired /\ w.asked = b.asked
        /\ \A u \in Ids : Alike(b.tickets[u], w.tickets[u])
    BY WrittenKeeps
  <2>3. IsOpen(w, t) /\ Unused(w) # {} /\ \A u \in Ids : IsOpen(b, u) => IsOpen(w, u)
    BY <2>1, <2>2 DEF Alike, IsOpen, CanSpawn
  <2>4. /\ Good(c, p) /\ c.seats = w.seats /\ c.hired = w.hired
        /\ \A u \in Ids : IsOpen(w, u) => c.tickets[u] = w.tickets[u]
    BY <2>1, <2>2, <2>3, ObstacleKeeps
  <2>5. \A u \in Ids : IsOpen(b, u) => IsOpen(c, u) /\ Alike(b.tickets[u], c.tickets[u])
    BY <2>2, <2>3, <2>4 DEF IsOpen
  <2> QED  BY <2>2, <2>4, <2>5
<1> QED  BY <1>1, <1>2

-----------------------------------------------------------------------------
(* Work that lands *)

LEMMA MergedFacts ==
  ASSUME NEW x \in Ticket
  PROVE  /\ Merged(x) \in Ticket /\ Merged(x).status = "merged" /\ Merged(x).parent = x.parent
         /\ ~Merged(x).team
         /\ x.landed = 0 => Merged(x).landed = 1
<1> DEFINE n == Min({2, x.landed + 1})
<1>1. x.landed \in 0..2 /\ x.parent \in Ids \cup {NoId}
  BY DEF Ticket
<1>2. n \in {2, x.landed + 1} /\ \A y \in {2, x.landed + 1} : n <= y
  <2>1. {2, x.landed + 1} \in SUBSET Nat /\ {2, x.landed + 1} # {}
    BY <1>1
  <2> QED  BY <2>1, LeastIsMin
<1>3. n \in 0..2 /\ (x.landed = 0 => n = 1)
  <2>1. n <= 2 /\ n <= x.landed + 1
    BY <1>2
  <2> HIDE DEF n
  <2> QED  BY <1>1, <1>2, <2>1
<1>4. Merged(x) = [NoTicket EXCEPT !.status = "merged", !.parent = x.parent, !.landed = n]
  BY DEF Merged
<1> HIDE DEF n
<1> QED  BY <1>1, <1>3, <1>4, NoTicketFacts DEF Ticket

\* settleCurrent() changes one hand at most, to what that hand should hold.
LEMMA SettledFacts ==
  ASSUME NEW b \in Board, NEW s \in Seats, NEW c, c = Settled(b, s)
  PROVE  /\ c \in Board /\ c.tickets = b.tickets /\ c.seats = b.seats /\ c.hired = b.hired
         /\ c.asked = b.asked
         /\ \A r \in Seats \ {s} : c.hand[r] = b.hand[r]
         /\ \/ c.hand[s] = b.hand[s] /\ b.hand[s] \in Ids /\ IsOpen(b, b.hand[s])
            \/ HandOK(c, s)
<1> DEFINE h == IF Desk(b, s) = {} THEN NoId ELSE Min(Desk(b, s))
<1>1. CASE b.hand[s] \in Open(b)
  BY <1>1 DEF Settled, Open, IsOpen
<1>2. CASE b.hand[s] \notin Open(b)
  <2>1. h \in Ids \cup {NoId} /\ ((h = NoId /\ Desk(b, s) = {}) \/ h \in Desk(b, s))
    BY FirstOfDesk DEF Desk, Open
  <2>2. c = Remade(b, b.tickets, [b.hand EXCEPT ![s] = h])
    BY <1>2 DEF Settled, Remade, Board
  <2> HIDE DEF h
  <2>3. b.tickets \in [Ids -> Ticket] /\ b.hand \in [Seats -> Ids \cup {NoId}]
    BY DEF Board
  <2>4. [b.hand EXCEPT ![s] = h] \in [Seats -> Ids \cup {NoId}]
    BY <2>1, <2>3
  <2>5. /\ c \in Board /\ c.tickets = b.tickets /\ c.hand = [b.hand EXCEPT ![s] = h]
        /\ c.seats = b.seats /\ c.hired = b.hired /\ c.asked = b.asked
    BY <2>2, <2>3, <2>4, RemadeFacts
  <2>6. c.hand[s] = h /\ \A r \in Seats \ {s} : c.hand[r] = b.hand[r]
    BY <2>3, <2>5
  <2>7. \A t : t \in Desk(b, s) <=> On(c, t, s)
    BY <2>5 DEF Desk, Open, Team, On, IsOpen, Holder
  <2>8. HandOK(c, s)
    BY <2>1, <2>6, <2>7 DEF HandOK
  <2> QED  BY <2>5, <2>6, <2>8
<1> QED  BY <1>1, <1>2

LEMMA SettledTyped == \A b \in Board, s \in Seats : Settled(b, s) \in Board
BY SettledFacts

\* A ticket lands that nothing stands on and that nobody is asked about any more.
LEMMA LandKeeps ==
  ASSUME NEW b, NEW p, Good(b, p), NEW c \in Board, c.seats = b.seats, c.hired = b.hired,
         NEW t \in Ids, \A u \in Ids \ {t} : Alike(b.tickets[u], c.tickets[u]),
         c.tickets[t].status = "merged", c.tickets[t].parent = b.tickets[t].parent,
         ~c.tickets[t].team,
         b.tickets[t].landed = 0 => c.tickets[t].landed = 1,
         \A r \in Seats \ b.seats : c.hand[r] = NoId,
         \A r \in Seats : c.asked[r] \in {b.asked[r], Nothing},
         ~p => /\ IsOpen(b, t) /\ Clear(b, t)
               /\ \A r \in b.seats : c.asked[r].ticket # t /\ HandOK(c, r)
  PROVE  Good(c, p)
<1>1. b \in Board /\ Tidy(b) /\ Held(b) /\ Seated(b)
  BY DEF Good, Sound
<1>2. \A u \in Ids \ {t} : /\ IsOpen(c, u) <=> IsOpen(b, u)
                           /\ c.tickets[u].status = b.tickets[u].status
                           /\ c.tickets[u].parent = b.tickets[u].parent
                           /\ c.tickets[u].team = b.tickets[u].team
                           /\ c.tickets[u].landed = b.tickets[u].landed
                           /\ c.tickets[u].holder = b.tickets[u].holder
                           /\ Holder(c, u) = Holder(b, u)
  BY DEF Alike, IsOpen, Holder
<1>3. ~IsOpen(c, t)
  BY DEF IsOpen
<1>4. Sound(c)
  <2>1. Tidy(c)
    <3> SUFFICES ASSUME NEW u \in Ids
                 PROVE  /\ c.tickets[u].status # "merged" => c.tickets[u].landed = 0
                        /\ c.tickets[u].status \in {"none", "backlog"} =>
                             ~c.tickets[u].team /\ c.tickets[u].parent = NoId
                        /\ c.tickets[u].team \/ c.tickets[u].status \in {"none", "backlog"} =>
                             c.tickets[u].holder = NoSeat
                        /\ c.tickets[u].parent # NoId =>
                             c.tickets[c.tickets[u].parent].status \in {"open", "merged"}
      BY DEF Tidy
    <3>1. c.tickets[u].parent # NoId => c.tickets[c.tickets[u].parent].status \in {"open", "merged"}
      <4>1. c.tickets[u].parent = b.tickets[u].parent
        BY <1>2
      <4>2. c.tickets[u].parent # NoId =>
              /\ c.tickets[u].parent \in Ids
              /\ b.tickets[c.tickets[u].parent].status \in {"open", "merged"}
        BY <1>1, <4>1, TicketFields DEF Tidy
      <4> QED  BY <1>2, <4>2
    <3>2. CASE u = t
      BY <3>1, <3>2
    <3>3. CASE u # t
      BY <1>1, <1>2, <3>1, <3>3 DEF Tidy
    <3> QED  BY <3>2, <3>3
  <2>2. Held(c)
    BY <1>1, <1>2, <1>3 DEF Held
  <2>3. Seated(c)
    BY <1>1 DEF Seated, Nothing, Ask
  <2> QED  BY <2>1, <2>2, <2>3 DEF Sound
<1>5. ASSUME ~p PROVE Handy(c) /\ Together(c)
  <2>1. /\ Handy(b) /\ Together(b) /\ IsOpen(b, t) /\ Clear(b, t)
        /\ \A r \in b.seats : c.asked[r].ticket # t /\ HandOK(c, r)
    BY <1>5 DEF Good
  <2>2. ASSUME NEW s \in b.seats PROVE AskOK(c, s)
    <3>1. AskOK(b, s) /\ s \in Seats /\ c.asked[s] \in {b.asked[s], Nothing}
      BY <1>1, <2>1, TicketFields DEF Handy
    <3>2. CASE c.asked[s].ticket = NoId
      BY <3>2 DEF AskOK
    <3>3. CASE c.asked[s].ticket # NoId
      <4> DEFINE u == c.asked[s].ticket
      <4>1. c.asked[s] = b.asked[s]
        BY <3>1, <3>3 DEF Nothing, Ask
      <4>2. u = b.asked[s].ticket /\ u # t /\ u # NoId
        BY <2>1, <3>3, <4>1
      <4> HIDE DEF u
      <4>3. On(b, u, s) /\ Clear(b, u)
        BY <3>1, <4>2 DEF AskOK
      <4>4. On(c, u, s) /\ Clear(c, u)
        BY <1>2, <1>3, <4>2, <4>3 DEF On, Clear
      <4> QED  BY <4>4 DEF AskOK, u
    <3> QED  BY <3>2, <3>3
  <2>3. ASSUME NEW o \in Ids, IsOpen(c, o), c.tickets[o].parent # NoId
        PROVE  LET q == c.tickets[o].parent
               IN  /\ IsOpen(c, q) /\ c.tickets[q].team = c.tickets[o].team
                   /\ Holder(c, q) = Holder(c, o)
    <3>1. o # t /\ IsOpen(b, o) /\ c.tickets[o].parent = b.tickets[o].parent
      BY <1>2, <1>3, <2>3
    <3> DEFINE q == b.tickets[o].parent
    <3>2. q \in Ids /\ q # t /\ IsOpen(b, q)
      BY <1>1, <2>1, <2>3, <3>1, TicketFields DEF Handy, Clear
    <3>3. b.tickets[q].team = b.tickets[o].team /\ Holder(b, q) = Holder(b, o)
      BY <2>1, <2>3, <3>1, <3>2 DEF Together
    <3> HIDE DEF q
    <3>4. /\ IsOpen(c, q) /\ c.tickets[q].team = c.tickets[o].team
          /\ Holder(c, q) = Holder(c, o)
      BY <1>2, <3>1, <3>2, <3>3
    <3> QED  BY <3>1, <3>4 DEF q
  <2>4. \A u \in Ids : c.tickets[u].landed <= 1
    <3>1. b.tickets[t].landed = 0
      BY <1>1, <2>1 DEF Tidy, IsOpen
    <3> QED  BY <1>2, <2>1, <3>1 DEF Handy
  <2>5. Handy(c)
    BY <2>1, <2>2, <2>3, <2>4 DEF Handy
  <2>6. Together(c)
    BY <2>3 DEF Together
  <2> QED  BY <2>5, <2>6
<1> QED  BY <1>4, <1>5 DEF Good

LEMMA ObstacleLandedFacts ==
  ASSUME NEW b \in Board, NEW o \in Ids, NEW c, c = ObstacleLanded(b, o)
  PROVE  /\ c \in Board /\ c.seats = b.seats /\ c.hired = b.hired /\ c.asked = b.asked
         /\ \A s \in Seats : c.hand[s] = IF b.hand[s] = o THEN b.tickets[o].parent ELSE b.hand[s]
         /\ \A u \in Ids \ {o} : c.tickets[u] = b.tickets[u]
         /\ c.tickets[o].status = "merged" /\ c.tickets[o].parent = b.tickets[o].parent
         /\ ~c.tickets[o].team
         /\ b.tickets[o].landed = 0 => c.tickets[o].landed = 1
<1> DEFINE x == Merged(b.tickets[o])
           hs == [s \in Seats |-> IF b.hand[s] = o THEN b.tickets[o].parent ELSE b.hand[s]]
<1>1. /\ b.tickets \in [Ids -> Ticket] /\ b.hand \in [Seats -> Ids \cup {NoId}]
      /\ b.tickets[o].parent \in Ids \cup {NoId}
  BY TicketFields
<1>2. /\ x \in Ticket /\ x.status = "merged" /\ x.parent = b.tickets[o].parent /\ ~x.team
      /\ b.tickets[o].landed = 0 => x.landed = 1
  BY <1>1, MergedFacts
<1>3. c = [b EXCEPT !.tickets = [b.tickets EXCEPT ![o] = x], !.hand = hs]
  BY DEF ObstacleLanded
<1> HIDE DEF x
<1>4. [b.tickets EXCEPT ![o] = x] \in [Ids -> Ticket] /\ hs \in [Seats -> Ids \cup {NoId}]
  BY <1>1, <1>2
<1>5. \A s \in Seats : hs[s] = IF b.hand[s] = o THEN b.tickets[o].parent ELSE b.hand[s]
  OBVIOUS
<1> HIDE DEF hs
<1>6. c = Remade(b, [b.tickets EXCEPT ![o] = x], hs)
  BY <1>3 DEF Remade
<1>7. /\ c \in Board /\ c.tickets = [b.tickets EXCEPT ![o] = x] /\ c.hand = hs
      /\ c.seats = b.seats /\ c.hired = b.hired /\ c.asked = b.asked
  BY <1>4, <1>6, RemadeFacts
<1>8. c.tickets[o] = x /\ \A u \in Ids \ {o} : c.tickets[u] = b.tickets[u]
  BY <1>1, <1>7
<1> QED  BY <1>2, <1>5, <1>7, <1>8

\* completeObstacle()
LEMMA ObstacleLandedKeeps ==
  ASSUME NEW b, NEW p, Good(b, p), NEW o \in Ids, IsOpen(b, o), b.tickets[o].parent # NoId,
         Clear(b, o), ~p => \A s \in b.seats : b.asked[s].ticket # o,
         NEW c, c = ObstacleLanded(b, o)
  PROVE  /\ Good(c, p) /\ c.seats = b.seats /\ c.hired = b.hired
         /\ \A u \in Ids \ {o} : c.tickets[u] = b.tickets[u]
<1>1. b \in Board /\ Tidy(b) /\ Held(b) /\ Seated(b)
  BY DEF Good, Sound
<1>2. /\ c \in Board /\ c.seats = b.seats /\ c.hired = b.hired /\ c.asked = b.asked
      /\ \A s \in Seats : c.hand[s] = IF b.hand[s] = o THEN b.tickets[o].parent ELSE b.hand[s]
      /\ \A u \in Ids \ {o} : c.tickets[u] = b.tickets[u]
      /\ c.tickets[o].status = "merged" /\ c.tickets[o].parent = b.tickets[o].parent
      /\ ~c.tickets[o].team
      /\ b.tickets[o].landed = 0 => c.tickets[o].landed = 1
  BY <1>1, ObstacleLandedFacts
<1>3. \A u \in Ids \ {o} : Alike(b.tickets[u], c.tickets[u])
  BY <1>2 DEF Alike
<1>4. \A r \in Seats \ b.seats : c.hand[r] = NoId
  BY <1>1, <1>2, Sizes DEF Seated
<1>5. ASSUME ~p, NEW s \in b.seats PROVE HandOK(c, s)
  <2> DEFINE t == b.tickets[o].parent
  <2>1. Handy(b) /\ Together(b) /\ HandOK(b, s) /\ s \in Seats
    BY <1>1, <1>5, TicketFields DEF Good, Handy
  <2>2. t \in Ids /\ t # o /\ IsOpen(b, t)
    BY <1>1, <2>1, TicketFields DEF Handy, Clear
  <2>3. b.tickets[t].team = b.tickets[o].team /\ Holder(b, t) = Holder(b, o)
    BY <2>1, <2>2 DEF Together
  <2>4. c.hand[s] = IF b.hand[s] = o THEN t ELSE b.hand[s]
    BY <1>2, <2>1
  <2> HIDE DEF t
  <2>5. \A u \in Ids \ {o} : On(c, u, s) <=> On(b, u, s)
    BY <1>2 DEF On, IsOpen, Holder
  <2>6. ~On(c, o, s) /\ (On(b, o, s) => On(b, t, s))
    BY <1>2, <2>2, <2>3 DEF On, IsOpen
  <2> QED  BY <2>1, <2>2, <2>4, <2>5, <2>6, Sizes DEF HandOK, On
<1> QED  BY <1>1, <1>2, <1>3, <1>4, <1>5, LandKeeps

-----------------------------------------------------------------------------
(* People who go *)

\* A desk is what is on it.
LEMMA DeskIsOn ==
  ASSUME NEW b, NEW s
  PROVE  Desk(b, s) = {t \in Ids : On(b, t, s)}
BY DEF Desk, Open, Team, On, IsOpen

\* A desk that a ticket comes to holds one more.
LEMMA LoadGrows ==
  ASSUME NEW b, NEW c, NEW s, NEW t \in Ids, ~On(b, t, s),
         \A u \in Ids \ {t} : On(c, u, s) <=> On(b, u, s)
  PROVE  /\ On(c, t, s) => Load(c, s) = Load(b, s) + 1
         /\ ~On(c, t, s) => Load(c, s) = Load(b, s)
<1>1. IsFiniteSet(Desk(b, s)) /\ Load(b, s) = Cardinality(Desk(b, s)) /\ t \notin Desk(b, s)
  BY LoadIsANumber, DeskIsOn DEF Load
<1>2. Load(c, s) = Cardinality(Desk(c, s))
  BY DEF Load
<1>3. ASSUME On(c, t, s) PROVE Load(c, s) = Load(b, s) + 1
  <2>1. Desk(c, s) = Desk(b, s) \cup {t}
    BY <1>3, DeskIsOn
  <2>2. Cardinality(Desk(b, s) \cup {t}) = Cardinality(Desk(b, s)) + 1
    BY <1>1, FS_AddElement
  <2> QED  BY <1>1, <1>2, <2>1, <2>2
<1>4. ASSUME ~On(c, t, s) PROVE Load(c, s) = Load(b, s)
  <2>1. Desk(c, s) = Desk(b, s)
    BY <1>4, DeskIsOn
  <2> QED  BY <1>1, <1>2, <2>1
<1> QED  BY <1>3, <1>4

\* Since board a, no desk received work to end up more than one ahead of another.
Balanced(a, b) ==
  \A s \in b.seats : \A r \in b.seats :
    (\E t \in Ids : On(b, t, s) /\ ~On(a, t, s)) => Load(b, s) <= Load(b, r) + 1

\* A ticket that comes to one of the lightest desks leaves them balanced.
LEMMA LandsLight ==
  ASSUME NEW a, NEW b, Balanced(a, b), NEW c, c.seats = b.seats, NEW t \in Ids, NEW s \in b.seats,
         \A r \in b.seats : Load(b, s) <= Load(b, r),
         \A r \in b.seats : ~On(b, t, r) /\ (On(c, t, r) <=> r = s),
         \A r \in b.seats : \A u \in Ids \ {t} : On(c, u, r) <=> On(b, u, r)
  PROVE  Balanced(a, c)
<1>1. \A r \in b.seats : Load(b, r) \in Nat /\ Load(c, r) \in Nat
  BY LoadIsANumber
<1>2. ASSUME NEW r \in b.seats
      PROVE  /\ r = s => Load(c, r) = Load(b, r) + 1
             /\ r # s => Load(c, r) = Load(b, r)
  BY LoadGrows
<1> SUFFICES ASSUME NEW q \in b.seats, NEW r \in b.seats,
                    \E u \in Ids : On(c, u, q) /\ ~On(a, u, q)
             PROVE  Load(c, q) <= Load(c, r) + 1
  BY DEF Balanced
<1>3. CASE q = s
  <2>1. Load(c, q) = Load(b, s) + 1 /\ Load(b, s) <= Load(b, r) /\ Load(b, r) <= Load(c, r)
    BY <1>1, <1>2, <1>3
  <2> QED  BY <1>1, <2>1
<1>4. CASE q # s
  <2>1. \E u \in Ids : On(b, u, q) /\ ~On(a, u, q)
    BY <1>4
  <2>2. Load(b, q) <= Load(b, r) + 1
    BY <2>1 DEF Balanced
  <2>3. Load(c, q) = Load(b, q) /\ Load(b, r) <= Load(c, r)
    BY <1>1, <1>2, <1>4
  <2> QED  BY <1>1, <2>2, <2>3
<1> QED  BY <1>3, <1>4

\* The same ticket, perhaps on another desk.
Shifted(x, y) ==
  x.status = y.status /\ x.parent = y.parent /\ x.team = y.team /\ x.landed = y.landed

\* One ticket of somebody who has gone is routed.
LEMMA MoveKeeps ==
  ASSUME NEW a, NEW b \in Board, Balanced(a, b), b.seats # {}, NEW s \in Seats \ b.seats,
         NEW t \in Ids, On(b, t, s), NEW c, c = Move(b, t)
  PROVE  /\ Balanced(a, c) /\ c \in Board
         /\ c.seats = b.seats /\ c.hired = b.hired /\ c.hand = b.hand /\ c.asked = b.asked
         /\ \A u \in Ids \ {t} : c.tickets[u] = b.tickets[u]
         /\ Shifted(b.tickets[t], c.tickets[t]) /\ c.tickets[t].holder \in b.seats
<1> DEFINE q == LightestSeat(b)
<1>1. /\ c \in Board
      /\ c.seats = b.seats /\ c.hired = b.hired /\ c.hand = b.hand /\ c.asked = b.asked
      /\ \A u \in Ids \ {t} : c.tickets[u] = b.tickets[u]
      /\ c.tickets[t].holder = q /\ Shifted(b.tickets[t], c.tickets[t])
  BY MoveFacts DEF Shifted
<1>2. q \in b.seats /\ q \in Seats /\ \A r \in b.seats : Load(b, q) <= Load(b, r)
  BY Lightest, TicketFields
<1> HIDE DEF q
<1>3. Holder(c, t) = q
  BY <1>1, <1>2, Sizes DEF Holder
<1>4. \A r \in b.seats : ~On(b, t, r) /\ (On(c, t, r) <=> r = q)
  BY <1>1, <1>3 DEF On, IsOpen, Shifted
<1>5. \A r \in b.seats : \A u \in Ids \ {t} : On(c, u, r) <=> On(b, u, r)
  BY <1>1 DEF On, IsOpen, Holder
<1>6. Balanced(a, c)
  BY <1>1, <1>2, <1>4, <1>5, LandsLight
<1> QED  BY <1>1, <1>2, <1>6

\* All tickets of somebody who has gone are routed.
LEMMA MovedKeeps ==
  ASSUME NEW a, NEW b \in Board, Balanced(a, b), b.seats # {}, NEW s \in Seats \ b.seats,
         NEW xs \in SUBSET Ids, \A t \in xs : On(b, t, s), NEW c, c = Moved(b, xs)
  PROVE  /\ Balanced(a, c) /\ c \in Board
         /\ c.seats = b.seats /\ c.hired = b.hired /\ c.hand = b.hand /\ c.asked = b.asked
         /\ \A u \in Ids : /\ u \notin xs => c.tickets[u] = b.tickets[u]
                           /\ u \in xs => /\ Shifted(b.tickets[u], c.tickets[u])
                                          /\ c.tickets[u].holder \in b.seats
<1>1. \A m \in Board, t \in Ids : Move(m, t) \in Board
  BY MoveFacts
<1>2. PICK g : /\ g[0] = b /\ c = g[Last]
               /\ \A n \in 0..Last : g[n] \in Board
               /\ \A n \in 1..Last :
                    g[n] = IF n - 1 \in xs THEN Move(g[n - 1], n - 1) ELSE g[n - 1]
  BY <1>1, MoveChain
<1> DEFINE Rest(m) == /\ m.seats = b.seats /\ m.hired = b.hired /\ m.hand = b.hand
                      /\ m.asked = b.asked
           T == {n \in 0..Last :
                   /\ Balanced(a, g[n]) /\ Rest(g[n])
                   /\ \A u \in Ids : /\ u \notin xs \/ u >= n => g[n].tickets[u] = b.tickets[u]
                                     /\ u \in xs /\ u < n =>
                                          /\ Shifted(b.tickets[u], g[n].tickets[u])
                                          /\ g[n].tickets[u].holder \in b.seats}
<1>3. Last \in Nat
  BY Sizes DEF Last
<1>4. 0 \in T
  <2>1. \A u \in Ids : u \in Nat /\ u >= 0 /\ ~(u < 0)
    BY Sizes
  <2> QED  BY <1>2, <1>3, <2>1
<1>5. ASSUME NEW k \in 0..(Last - 1), k \in T PROVE k + 1 \in T
  <2>1. k + 1 \in 1..Last /\ k + 1 \in 0..Last /\ (k + 1) - 1 = k /\ k \in Nat /\ k \in 0..Last
    BY <1>3
  <2>2. g[k + 1] = IF k \in xs THEN Move(g[k], k) ELSE g[k]
    BY <1>2, <2>1
  <2>3. /\ Balanced(a, g[k]) /\ Rest(g[k]) /\ g[k] \in Board
        /\ \A u \in Ids : /\ u \notin xs \/ u >= k => g[k].tickets[u] = b.tickets[u]
                          /\ u \in xs /\ u < k => /\ Shifted(b.tickets[u], g[k].tickets[u])
                                                  /\ g[k].tickets[u].holder \in b.seats
    BY <1>2, <1>5, <2>1
  <2>4. \A u \in Ids : /\ u >= k + 1 => u >= k /\ u # k
                       /\ u < k + 1 => u < k \/ u = k
    <3>1. \A u \in Ids : u \in Nat
      BY Sizes
    <3> HIDE DEF T
    <3> QED  BY <2>1, <3>1
  <2>5. CASE k \in xs
    <3>1. k \in Ids /\ g[k].tickets[k] = b.tickets[k] /\ On(b, k, s)
      BY <2>1, <2>3, <2>5
    <3>2. On(g[k], k, s) /\ g[k].seats # {} /\ s \in Seats \ g[k].seats
      BY <2>3, <3>1 DEF On, IsOpen, Holder
    <3>3. /\ Balanced(a, g[k + 1]) /\ Rest(g[k + 1])
          /\ \A u \in Ids \ {k} : g[k + 1].tickets[u] = g[k].tickets[u]
          /\ Shifted(g[k].tickets[k], g[k + 1].tickets[k])
          /\ g[k + 1].tickets[k].holder \in g[k].seats
      BY <2>2, <2>3, <2>5, <3>1, <3>2, MoveKeeps
    <3>4. ASSUME NEW u \in Ids
          PROVE  /\ u \notin xs \/ u >= k + 1 => g[k + 1].tickets[u] = b.tickets[u]
                 /\ u \in xs /\ u < k + 1 =>
                      /\ Shifted(b.tickets[u], g[k + 1].tickets[u])
                      /\ g[k + 1].tickets[u].holder \in b.seats
      <4>1. CASE u = k
        <5>1. ~(u >= k + 1)
          BY <2>1, <4>1
        <5> QED  BY <2>3, <2>5, <3>1, <3>3, <4>1, <5>1
      <4>2. CASE u # k
        BY <2>3, <2>4, <3>3, <4>2
      <4> QED  BY <4>1, <4>2
    <3> QED  BY <2>1, <3>3, <3>4
  <2>6. CASE k \notin xs
    <3>1. \A u \in Ids : /\ u >= k + 1 => u >= k
                         /\ u \in xs /\ u < k + 1 => u < k
      BY <2>4, <2>6
    <3> QED  BY <2>1, <2>2, <2>3, <2>6, <3>1
  <2> QED  BY <2>5, <2>6
<1> HIDE DEF T
<1>6. \A k \in 0..Last : k \in T
  BY <1>3, <1>4, <1>5, UpTo
<1>7. Last \in T /\ Last \in 0..Last
  BY <1>3, <1>6
<1>8. \A u \in Ids : u < Last
  BY Sizes DEF Last, Ids
<1> QED  BY <1>2, <1>7, <1>8 DEF T

\* Hands that were empty take the oldest ticket that came.
LEMMA PickedFacts ==
  ASSUME NEW b \in Board, NEW c, c = Picked(b)
  PROVE  /\ c \in Board /\ c.tickets = b.tickets
         /\ c.seats = b.seats /\ c.hired = b.hired /\ c.asked = b.asked
         /\ \A s \in Seats : \/ c.hand[s] = b.hand[s] /\ (s \in b.seats => b.hand[s] # NoId)
                             \/ s \notin b.seats /\ c.hand[s] = b.hand[s]
                             \/ s \in b.seats /\ HandOK(c, s)
<1> DEFINE Hand(s) == IF s \in b.seats /\ b.hand[s] = NoId /\ Desk(b, s) # {}
                      THEN Min(Desk(b, s)) ELSE b.hand[s]
           hs == [s \in Seats |-> Hand(s)]
<1>1. b.tickets \in [Ids -> Ticket] /\ b.hand \in [Seats -> Ids \cup {NoId}]
  BY DEF Board
<1>2. ASSUME NEW s \in Seats
      PROVE  /\ Hand(s) \in Ids \cup {NoId}
             /\ \/ Hand(s) = b.hand[s] /\ b.hand[s] # NoId
                \/ s \notin b.seats /\ Hand(s) = b.hand[s]
                \/ s \in b.seats /\ Hand(s) = NoId /\ Desk(b, s) = {}
                \/ s \in b.seats /\ Hand(s) \in Desk(b, s)
  <2>1. CASE s \in b.seats /\ b.hand[s] = NoId /\ Desk(b, s) # {}
    BY <2>1, FirstOfDesk DEF Desk, Open
  <2>2. CASE ~(s \in b.seats /\ b.hand[s] = NoId /\ Desk(b, s) # {})
    BY <1>1, <2>2
  <2> QED  BY <2>1, <2>2
<1>3. c = [b EXCEPT !.hand = hs]
  BY DEF Picked
<1>4. \A s \in Seats : hs[s] = Hand(s)
  OBVIOUS
<1>5. hs \in [Seats -> Ids \cup {NoId}]
  BY <1>2
<1> HIDE DEF hs, Hand
<1>6. c = Remade(b, b.tickets, hs)
  BY <1>3, Remaking
<1>7. /\ c \in Board /\ c.tickets = b.tickets /\ c.hand = hs
      /\ c.seats = b.seats /\ c.hired = b.hired /\ c.asked = b.asked
  BY <1>1, <1>5, <1>6, RemadeFacts
<1>8. \A s \in Seats : Desk(c, s) = Desk(b, s)
  BY <1>7 DEF Desk, Open, Team, Holder
<1>9. ASSUME NEW s \in Seats
      PROVE  \/ c.hand[s] = b.hand[s] /\ (s \in b.seats => b.hand[s] # NoId)
             \/ s \notin b.seats /\ c.hand[s] = b.hand[s]
             \/ s \in b.seats /\ HandOK(c, s)
  <2>1. c.hand[s] = Hand(s)
    BY <1>4, <1>7
  <2>2. \A t : t \in Desk(b, s) <=> On(c, t, s)
    BY <1>7 DEF Desk, Open, Team, On, IsOpen, Holder
  <2>3. (c.hand[s] = NoId /\ Desk(b, s) = {}) \/ c.hand[s] \in Desk(b, s) => HandOK(c, s)
    BY <2>2 DEF HandOK
  <2> QED  BY <1>2, <2>1, <2>3
<1> QED  BY <1>7, <1>9

\* The seat is vacant, what its human held is not handed over yet.
Vacated(b, s) == [b EXCEPT !.seats = @ \ {s}, !.hand[s] = NoId, !.asked[s] = Nothing]

Asking == [kind : {"nothing", "accepted", "rejected", "conflict"}, ticket : Ids \cup {NoId}]

LEMMA VacatedFacts ==
  ASSUME NEW b \in Board, NEW s \in Seats, NEW c, c = Vacated(b, s)
  PROVE  /\ c \in Board /\ c.tickets = b.tickets /\ c.hired = b.hired
         /\ c.seats = b.seats \ {s} /\ c.hand[s] = NoId /\ c.asked[s] = Nothing
         /\ \A r \in Seats \ {s} : c.hand[r] = b.hand[r] /\ c.asked[r] = b.asked[r]
<1>1. /\ b.tickets \in [Ids -> Ticket] /\ b.hand \in [Seats -> Ids \cup {NoId}]
      /\ b.seats \in SUBSET Seats /\ b.asked \in [Seats -> Asking]
  BY DEF Board, Asking
<1>2. Nothing \in Asking
  BY DEF Nothing, Ask, Asking
<1> DEFINE d == [b EXCEPT !.seats = b.seats \ {s}]
           e == [d EXCEPT !.hand = [b.hand EXCEPT ![s] = NoId]]
           f == [e EXCEPT !.asked = [b.asked EXCEPT ![s] = Nothing]]
<1>3. c = f
  BY DEF Vacated, Board
<1>4. /\ d \in Board /\ d.tickets = b.tickets /\ d.hired = b.hired /\ d.seats = b.seats \ {s}
      /\ d.hand = b.hand /\ d.asked = b.asked
  BY <1>1 DEF Board
<1> HIDE DEF d
<1>5. /\ e \in Board /\ e.tickets = b.tickets /\ e.hired = b.hired /\ e.seats = b.seats \ {s}
      /\ e.hand = [b.hand EXCEPT ![s] = NoId] /\ e.asked = b.asked
  <2>1. [b.hand EXCEPT ![s] = NoId] \in [Seats -> Ids \cup {NoId}]
    BY <1>1
  <2> QED  BY <1>4, <2>1 DEF Board
<1> HIDE DEF e
<1>6. /\ f \in Board /\ f.tickets = b.tickets /\ f.hired = b.hired /\ f.seats = b.seats \ {s}
      /\ f.hand = [b.hand EXCEPT ![s] = NoId] /\ f.asked = [b.asked EXCEPT ![s] = Nothing]
  <2>1. [b.asked EXCEPT ![s] = Nothing] \in [Seats -> Asking]
    BY <1>1, <1>2
  <2> QED  BY <1>5, <2>1 DEF Board, Asking
<1> HIDE DEF f
<1> QED  BY <1>1, <1>3, <1>6

LEMMA DepartedIs ==
  ASSUME NEW b, NEW s, NEW d, d = Vacated(b, s)
  PROVE  Departed(b, s) = IF d.seats = {} THEN d ELSE Picked(Moved(d, Desk(b, s)))
BY DEF Departed, Vacated

LEMMA DepartedTyped == \A b \in Board, s \in Seats : Departed(b, s) \in Board
<1> SUFFICES ASSUME NEW b \in Board, NEW s \in Seats PROVE Departed(b, s) \in Board
  OBVIOUS
<1> DEFINE d == Vacated(b, s)
           e == Moved(d, Desk(b, s))
<1>1. d \in Board
  BY VacatedFacts
<1>2. Departed(b, s) = IF d.seats = {} THEN d ELSE Picked(e)
  BY DepartedIs
<1>3. e \in Board
  <2>1. Desk(b, s) \in SUBSET Ids
    BY DEF Desk, Open
  <2>2. \A m \in Board, t \in Ids : Move(m, t) \in Board
    BY MoveFacts
  <2> HIDE DEF d
  <2>3. PICK g : /\ e = g[Last] /\ \A n \in 0..Last : g[n] \in Board
    BY <1>1, <2>1, <2>2, MoveChain
  <2>4. Last \in 0..Last
    BY Sizes DEF Last
  <2> QED  BY <2>3, <2>4
<1> HIDE DEF d, e
<1> QED  BY <1>1, <1>2, <1>3, PickedFacts

\* Whose tickets are left alone, and where the others go.
LEMMA DepartedFacts ==
  ASSUME NEW a, NEW b \in Board, NEW s \in b.seats, Balanced(a, b), NEW c, c = Departed(b, s)
  PROVE  /\ Balanced(a, c) /\ c \in Board /\ c.hired = b.hired /\ c.seats = b.seats \ {s}
         /\ c.hand[s] = NoId /\ c.asked[s] = Nothing
         /\ \A r \in Seats \ {s} : /\ c.asked[r] = b.asked[r]
                                   /\ \/ c.hand[r] = b.hand[r] /\ (r \in b.seats => b.hand[r] # NoId)
                                      \/ r \notin b.seats /\ c.hand[r] = b.hand[r]
                                      \/ r \in b.seats /\ HandOK(c, r)
         /\ \A t \in Ids : /\ ~On(b, t, s) => c.tickets[t] = b.tickets[t]
                           /\ On(b, t, s) => /\ Shifted(b.tickets[t], c.tickets[t])
                                             /\ c.seats # {} => c.tickets[t].holder \in c.seats
<1> DEFINE d == Vacated(b, s)
           e == Moved(d, Desk(b, s))
<1>0. s \in Seats
  BY TicketFields
<1>1. /\ d \in Board /\ d.tickets = b.tickets /\ d.hired = b.hired
      /\ d.seats = b.seats \ {s} /\ d.hand[s] = NoId /\ d.asked[s] = Nothing
      /\ \A r \in Seats \ {s} : d.hand[r] = b.hand[r] /\ d.asked[r] = b.asked[r]
  BY <1>0, VacatedFacts
<1>2. c = IF d.seats = {} THEN d ELSE Picked(e)
  BY DepartedIs
<1> HIDE DEF d
<1>3. \A t, r : On(d, t, r) <=> On(b, t, r)
  BY <1>1 DEF On, IsOpen, Holder
<1>4. Balanced(a, d)
  <2>1. \A r : Load(d, r) = Load(b, r)
    BY <1>1 DEF Load, Desk, Open, Team, Holder
  <2> QED  BY <1>1, <1>3, <2>1 DEF Balanced
<1>5. CASE d.seats = {}
  <2>1. c = d
    BY <1>2, <1>5
  <2> QED  BY <1>1, <1>4, <1>5, <2>1, TicketFields DEF Shifted
<1>6. CASE d.seats # {}
  <2>1. s \in Seats \ d.seats /\ Desk(b, s) \in SUBSET Ids /\ \A t \in Desk(b, s) : On(d, t, s)
    BY <1>0, <1>1, <1>3, DeskIsOn
  <2>2. /\ Balanced(a, e) /\ e \in Board
        /\ e.seats = d.seats /\ e.hired = d.hired /\ e.hand = d.hand /\ e.asked = d.asked
        /\ \A u \in Ids : /\ u \notin Desk(b, s) => e.tickets[u] = d.tickets[u]
                          /\ u \in Desk(b, s) => /\ Shifted(d.tickets[u], e.tickets[u])
                                                 /\ e.tickets[u].holder \in d.seats
    BY <1>1, <1>4, <1>6, <2>1, MovedKeeps
  <2> HIDE DEF e
  <2>3. /\ c \in Board /\ c.tickets = e.tickets
        /\ c.seats = e.seats /\ c.hired = e.hired /\ c.asked = e.asked
        /\ \A r \in Seats : \/ c.hand[r] = e.hand[r] /\ (r \in e.seats => e.hand[r] # NoId)
                            \/ r \notin e.seats /\ c.hand[r] = e.hand[r]
                            \/ r \in e.seats /\ HandOK(c, r)
    BY <1>2, <1>6, <2>2, PickedFacts
  <2>4. Balanced(a, c)
    <3>1. \A t, r : On(c, t, r) <=> On(e, t, r)
      BY <2>3 DEF On, IsOpen, Holder
    <3>2. \A r : Load(c, r) = Load(e, r)
      BY <2>3 DEF Load, Desk, Open, Team, Holder
    <3> QED  BY <2>2, <2>3, <3>1, <3>2 DEF Balanced
  <2>5. ASSUME NEW t \in Ids
        PROVE  /\ ~On(b, t, s) => c.tickets[t] = b.tickets[t]
               /\ On(b, t, s) => /\ Shifted(b.tickets[t], c.tickets[t])
                                 /\ c.seats # {} => c.tickets[t].holder \in c.seats
    BY <1>1, <2>2, <2>3, DeskIsOn
  <2>6. c.hand[s] = NoId
    BY <1>0, <1>1, <2>2, <2>3
  <2>7. ASSUME NEW r \in Seats \ {s}
        PROVE  /\ c.asked[r] = b.asked[r]
               /\ \/ c.hand[r] = b.hand[r] /\ (r \in b.seats => b.hand[r] # NoId)
                  \/ r \notin b.seats /\ c.hand[r] = b.hand[r]
                  \/ r \in b.seats /\ HandOK(c, r)
    BY <1>1, <2>2, <2>3
  <2> QED  BY <1>1, <2>2, <2>3, <2>4, <2>5, <2>6, <2>7
<1> QED  BY <1>5, <1>6

\* leaveSeat(): the board stays half good, and balanced.
LEMMA DepartedKeeps ==
  ASSUME NEW a, NEW b, NEW p, Half(b, p), NEW s \in b.seats, Balanced(a, b), NEW c, c = Departed(b, s)
  PROVE  Half(c, p) /\ Balanced(a, c) /\ c.seats = b.seats \ {s} /\ c.hired = b.hired
<1>1. b \in Board /\ Tidy(b) /\ Held(b) /\ Seated(b)
  BY DEF Half, Sound
<1>2. /\ Balanced(a, c) /\ c \in Board /\ c.hired = b.hired /\ c.seats = b.seats \ {s}
      /\ c.hand[s] = NoId /\ c.asked[s] = Nothing
      /\ \A r \in Seats \ {s} : /\ c.asked[r] = b.asked[r]
                                /\ \/ c.hand[r] = b.hand[r] /\ (r \in b.seats => b.hand[r] # NoId)
                                   \/ r \notin b.seats /\ c.hand[r] = b.hand[r]
                                   \/ r \in b.seats /\ HandOK(c, r)
      /\ \A t \in Ids : /\ ~On(b, t, s) => c.tickets[t] = b.tickets[t]
                        /\ On(b, t, s) => /\ Shifted(b.tickets[t], c.tickets[t])
                                          /\ c.seats # {} => c.tickets[t].holder \in c.seats
  BY <1>1, DepartedFacts
<1>3. \A t \in Ids : /\ Shifted(b.tickets[t], c.tickets[t]) /\ (IsOpen(c, t) <=> IsOpen(b, t))
                     /\ ~On(b, t, s) => c.tickets[t].holder = b.tickets[t].holder
  BY <1>2 DEF Shifted, IsOpen
<1>4. \A t \in Ids : \A r \in c.seats : On(b, t, r) => On(c, t, r)
  <2> SUFFICES ASSUME NEW t \in Ids, NEW r \in c.seats, On(b, t, r) PROVE On(c, t, r)
    OBVIOUS
  <2>1. r # s /\ ~On(b, t, s)
    BY <1>2 DEF On
  <2> QED  BY <1>2, <2>1 DEF On, IsOpen, Holder
<1>5. Sound(c)
  <2>1. Tidy(c)
    <3> SUFFICES ASSUME NEW t \in Ids
                 PROVE  /\ c.tickets[t].status # "merged" => c.tickets[t].landed = 0
                        /\ c.tickets[t].status \in {"none", "backlog"} =>
                             ~c.tickets[t].team /\ c.tickets[t].parent = NoId
                        /\ c.tickets[t].team \/ c.tickets[t].status \in {"none", "backlog"} =>
                             c.tickets[t].holder = NoSeat
                        /\ c.tickets[t].parent # NoId =>
                             c.tickets[c.tickets[t].parent].status \in {"open", "merged"}
      BY DEF Tidy
    <3>1. /\ c.tickets[t].status = b.tickets[t].status /\ c.tickets[t].parent = b.tickets[t].parent
          /\ c.tickets[t].team = b.tickets[t].team /\ c.tickets[t].landed = b.tickets[t].landed
      BY <1>3 DEF Shifted
    <3>2. c.tickets[t].team \/ c.tickets[t].status \in {"none", "backlog"} =>
            c.tickets[t].holder = b.tickets[t].holder
      BY <1>3, <3>1 DEF On, IsOpen
    <3>3. c.tickets[t].parent # NoId =>
            c.tickets[c.tickets[t].parent].status = b.tickets[c.tickets[t].parent].status
      BY <1>1, <1>3, <3>1, TicketFields DEF Shifted
    <3> QED  BY <1>1, <3>1, <3>2, <3>3 DEF Tidy
  <2>2. Held(c)
    <3> SUFFICES ASSUME c.seats # {}, NEW t \in Ids, IsOpen(c, t)
                 PROVE  IF c.tickets[t].team THEN c.hired ELSE Holder(c, t) \in c.seats
      BY DEF Held
    <3>1. IsOpen(b, t) /\ c.tickets[t].team = b.tickets[t].team
      BY <1>3 DEF Shifted
    <3>2. IF b.tickets[t].team THEN b.hired ELSE Holder(b, t) \in b.seats
      BY <1>1, <1>2, <3>1 DEF Held
    <3>3. CASE On(b, t, s)
      <4>1. c.tickets[t].holder \in c.seats /\ c.tickets[t].holder # NoSeat
        BY <1>1, <1>2, <3>3, Sizes, TicketFields
      <4> QED  BY <3>1, <3>3, <4>1 DEF On, Holder
    <3>4. CASE ~On(b, t, s)
      BY <1>2, <3>1, <3>2, <3>4 DEF On, Holder
    <3> QED  BY <3>3, <3>4
  <2>3. Seated(c)
    <3> SUFFICES ASSUME NEW r \in Seats
                 PROVE  /\ r \notin c.seats => c.hand[r] = NoId /\ c.asked[r] = Nothing
                        /\ c.asked[r].kind = "nothing" <=> c.asked[r].ticket = NoId
      BY DEF Seated
    <3>1. CASE r = s
      BY <1>2, <3>1 DEF Nothing, Ask
    <3>2. CASE r # s
      BY <1>1, <1>2, <3>2 DEF Seated
    <3> QED  BY <3>1, <3>2
  <2> QED  BY <1>2, <2>1, <2>2, <2>3 DEF Sound
<1>6. ASSUME ~p PROVE Handy(c)
  <2>1. Handy(b)
    BY <1>6 DEF Half
  <2>2. ASSUME NEW r \in c.seats PROVE HandOK(c, r) /\ AskOK(c, r)
    <3>1. HandOK(b, r) /\ AskOK(b, r) /\ r \in Seats \ {s} /\ r \in b.seats
      BY <1>1, <1>2, <2>1, TicketFields DEF Handy
    <3>2. HandOK(c, r)
      <4>1. CASE c.hand[r] = b.hand[r] /\ b.hand[r] # NoId
        <5>1. On(b, b.hand[r], r)
          BY <3>1, <4>1 DEF HandOK
        <5>2. b.hand[r] \in Ids
          BY <5>1 DEF On
        <5> QED  BY <1>4, <4>1, <5>1, <5>2 DEF HandOK
      <4> QED  BY <1>2, <3>1, <4>1
    <3>3. AskOK(c, r)
      <4>1. c.asked[r] = b.asked[r]
        BY <1>2, <3>1
      <4>2. ASSUME c.asked[r].ticket # NoId
            PROVE  On(c, c.asked[r].ticket, r) /\ Clear(c, c.asked[r].ticket)
        <5> DEFINE t == c.asked[r].ticket
        <5>1. On(b, t, r) /\ Clear(b, t) /\ t \in Ids
          BY <3>1, <4>1, <4>2 DEF AskOK, On
        <5> HIDE DEF t
        <5>2. On(c, t, r)
          BY <1>4, <5>1
        <5>3. Clear(c, t)
          BY <1>3, <5>1 DEF Clear, Shifted
        <5> QED  BY <5>2, <5>3 DEF t
      <4> QED  BY <4>2 DEF AskOK
    <3> QED  BY <3>2, <3>3
  <2>3. \A o \in Ids : IsOpen(c, o) /\ c.tickets[o].parent # NoId => IsOpen(c, c.tickets[o].parent)
    <3> SUFFICES ASSUME NEW o \in Ids, IsOpen(c, o), c.tickets[o].parent # NoId
                 PROVE  IsOpen(c, c.tickets[o].parent)
      OBVIOUS
    <3>1. c.tickets[o].parent = b.tickets[o].parent /\ IsOpen(b, o)
      BY <1>3 DEF Shifted
    <3>2. c.tickets[o].parent \in Ids /\ IsOpen(b, c.tickets[o].parent)
      BY <1>1, <2>1, <3>1, TicketFields DEF Handy
    <3> QED  BY <1>3, <3>2
  <2>4. \A t \in Ids : c.tickets[t].landed <= 1
    BY <1>3, <2>1 DEF Handy, Shifted
  <2> QED  BY <2>2, <2>3, <2>4 DEF Handy
<1> QED  BY <1>2, <1>5, <1>6 DEF Half

\* Several people burn out, one after the other.
LEMMA BurntOutKeeps ==
  ASSUME NEW a, NEW b, NEW p, Half(b, p), NEW ss \in SUBSET b.seats, Balanced(a, b),
         NEW c, c = BurntOut(b, ss)
  PROVE  Half(c, p) /\ Balanced(a, c) /\ c.seats = b.seats \ ss /\ c.hired = b.hired
<1>1. b \in Board /\ ss \in SUBSET Seats /\ b.seats \in SUBSET Seats
  BY TicketFields DEF Half, Sound
<1>0. b.seats \subseteq Nat
  BY <1>1, Sizes
<1>2. PICK g : /\ g[0] = b /\ c = g[Last]
               /\ \A n \in 1..Last :
                    g[n] = IF n - 1 \in ss THEN Departed(g[n - 1], n - 1) ELSE g[n - 1]
  BY <1>1, DepartedTyped, DepartChain
<1> DEFINE T == {n \in 0..Last : /\ Half(g[n], p) /\ Balanced(a, g[n]) /\ g[n].hired = b.hired
                                 /\ g[n].seats = {s \in b.seats : s \in ss => s >= n}}
<1>3. Last \in Nat
  BY Sizes DEF Last
<1>4. 0 \in T
  <2>1. \A s \in b.seats : s >= 0
    BY <1>0
  <2>2. b.seats = {s \in b.seats : s \in ss => s >= 0}
    BY <2>1
  <2> QED  BY <1>2, <1>3, <2>2
<1>5. ASSUME NEW k \in 0..(Last - 1), k \in T PROVE k + 1 \in T
  <2>1. k + 1 \in 1..Last /\ k + 1 \in 0..Last /\ (k + 1) - 1 = k /\ k \in Nat
    BY <1>3
  <2>2. g[k + 1] = IF k \in ss THEN Departed(g[k], k) ELSE g[k]
    BY <1>2, <2>1
  <2>3. /\ Half(g[k], p) /\ Balanced(a, g[k]) /\ g[k].hired = b.hired
        /\ g[k].seats = {s \in b.seats : s \in ss => s >= k}
    BY <1>5
  <2>4. \A s \in b.seats : s >= k + 1 <=> s >= k /\ s # k
    BY <1>0, <2>1
  <2>5. CASE k \in ss
    <3>1. k \in g[k].seats
      BY <2>1, <2>3, <2>5
    <3>2. /\ Half(g[k + 1], p) /\ Balanced(a, g[k + 1]) /\ g[k + 1].hired = g[k].hired
          /\ g[k + 1].seats = g[k].seats \ {k}
      BY <2>2, <2>3, <2>5, <3>1, DepartedKeeps
    <3>3. g[k].seats \ {k} = {s \in b.seats : s \in ss => s >= k + 1}
      BY <2>3, <2>4, <2>5
    <3> QED  BY <2>1, <2>3, <3>2, <3>3
  <2>6. CASE k \notin ss
    <3>1. g[k].seats = {s \in b.seats : s \in ss => s >= k + 1}
      BY <2>3, <2>4, <2>6
    <3> QED  BY <2>1, <2>2, <2>3, <2>6, <3>1
  <2> QED  BY <2>5, <2>6
<1> HIDE DEF T
<1>6. \A k \in 0..Last : k \in T
  BY <1>3, <1>4, <1>5, UpTo
<1>7. Last \in T
  BY <1>3, <1>6
<1>8. \A s \in Seats : ~(s >= Last)
  BY Sizes DEF Last, Seats
<1>9. {s \in b.seats : s \in ss => s >= Last} = b.seats \ ss
  BY <1>1, <1>8
<1> QED  BY <1>2, <1>7, <1>9 DEF T

-----------------------------------------------------------------------------
(* A developer who is let go *)

\* The ticket is nobody's, so seat 0's.
Freed(b, t) == [b EXCEPT !.tickets[t].team = FALSE]

LEMMA FreedFacts ==
  ASSUME NEW b \in Board, NEW t \in Ids, NEW c, c = Freed(b, t)
  PROVE  /\ c \in Board
         /\ c.seats = b.seats /\ c.hired = b.hired /\ c.hand = b.hand /\ c.asked = b.asked
         /\ \A u \in Ids \ {t} : c.tickets[u] = b.tickets[u]
         /\ c.tickets[t].holder = b.tickets[t].holder /\ c.tickets[t].status = b.tickets[t].status
         /\ c.tickets[t].parent = b.tickets[t].parent /\ ~c.tickets[t].team
         /\ c.tickets[t].landed = b.tickets[t].landed
<1> DEFINE x == [b.tickets[t] EXCEPT !.team = FALSE]
<1>1. c = [b EXCEPT !.tickets = [b.tickets EXCEPT ![t] = x]]
  BY DEF Freed
<1>2. b.tickets \in [Ids -> Ticket]
  BY DEF Board
<1>3. /\ x \in Ticket /\ x.holder = b.tickets[t].holder /\ x.status = b.tickets[t].status
      /\ x.parent = b.tickets[t].parent /\ ~x.team /\ x.landed = b.tickets[t].landed
  BY <1>2 DEF Ticket
<1> HIDE DEF x
<1>4. /\ c \in Board /\ c.tickets = [b.tickets EXCEPT ![t] = x]
      /\ c.seats = b.seats /\ c.hired = b.hired /\ c.hand = b.hand /\ c.asked = b.asked
  BY <1>1, <1>2, <1>3 DEF Board
<1>5. c.tickets[t] = x /\ \A u \in Ids \ {t} : c.tickets[u] = b.tickets[u]
  BY <1>2, <1>4
<1> QED  BY <1>3, <1>4, <1>5

LEMMA RouteIs ==
  ASSUME NEW b, NEW t, NEW d, d = Freed(b, t)
  PROVE  Route(b, t) = Move(d, t)
BY DEF Route, Freed

LEMMA RouteTyped == \A b \in Board, t \in Ids : Route(b, t) \in Board
<1> SUFFICES ASSUME NEW b \in Board, NEW t \in Ids PROVE Route(b, t) \in Board
  OBVIOUS
<1> DEFINE d == Freed(b, t)
<1>1. d \in Board /\ Route(b, t) = Move(d, t)
  BY FreedFacts, RouteIs
<1> HIDE DEF d
<1> QED  BY <1>1, MoveFacts

\* Counted on seat 0's desk while it is routed, it still goes to the lightest.
LEMMA RouteKeeps ==
  ASSUME NEW a, NEW b \in Board, Balanced(a, b), b.seats # {}, NEW t \in Ids, IsOpen(b, t),
         b.tickets[t].team, b.tickets[t].holder = NoSeat, NEW c, c = Route(b, t)
  PROVE  /\ Balanced(a, c) /\ c \in Board
         /\ c.seats = b.seats /\ c.hired = b.hired /\ c.hand = b.hand /\ c.asked = b.asked
         /\ \A u \in Ids \ {t} : c.tickets[u] = b.tickets[u]
         /\ c.tickets[t].status = b.tickets[t].status /\ c.tickets[t].parent = b.tickets[t].parent
         /\ c.tickets[t].landed = b.tickets[t].landed
         /\ ~c.tickets[t].team /\ c.tickets[t].holder \in b.seats
<1> DEFINE m == Freed(b, t)
           q == LightestSeat(m)
<1>1. /\ m \in Board
      /\ m.seats = b.seats /\ m.hired = b.hired /\ m.hand = b.hand /\ m.asked = b.asked
      /\ \A u \in Ids \ {t} : m.tickets[u] = b.tickets[u]
      /\ m.tickets[t].holder = b.tickets[t].holder /\ m.tickets[t].status = b.tickets[t].status
      /\ m.tickets[t].parent = b.tickets[t].parent /\ ~m.tickets[t].team
      /\ m.tickets[t].landed = b.tickets[t].landed
  BY FreedFacts
<1>2. c = Move(m, t)
  BY RouteIs
<1> HIDE DEF m
<1>3. /\ c \in Board
      /\ c.seats = m.seats /\ c.hired = m.hired /\ c.hand = m.hand /\ c.asked = m.asked
      /\ \A u \in Ids \ {t} : c.tickets[u] = m.tickets[u]
      /\ c.tickets[t].holder = q /\ c.tickets[t].status = m.tickets[t].status
      /\ c.tickets[t].parent = m.tickets[t].parent /\ c.tickets[t].team = m.tickets[t].team
      /\ c.tickets[t].landed = m.tickets[t].landed
  BY <1>1, <1>2, MoveFacts
<1>4. /\ q \in b.seats /\ q \in Seats
      /\ \A r \in b.seats : Load(m, q) <= Load(m, r) /\ (r < q => Load(m, q) < Load(m, r))
  BY <1>1, Lightest, TicketFields
<1> HIDE DEF q
<1>5. \A r \in b.seats : \A u \in Ids \ {t} :
        (On(m, u, r) <=> On(b, u, r)) /\ (On(c, u, r) <=> On(b, u, r))
  BY <1>1, <1>3 DEF On, IsOpen, Holder
<1>6. \A r \in b.seats : ~On(b, t, r) /\ (On(m, t, r) <=> r = 0)
  BY <1>1 DEF On, IsOpen, Holder, SoloSeat
<1>7. \A r \in b.seats : On(c, t, r) <=> r = q
  <2>1. Holder(c, t) = q
    BY <1>3, <1>4, Sizes DEF Holder
  <2> QED  BY <1>1, <1>3, <2>1 DEF On, IsOpen
<1>8. \A r \in b.seats : /\ Load(b, r) \in Nat /\ r \in Nat
                         /\ r = 0 => Load(m, r) = Load(b, r) + 1
                         /\ r # 0 => Load(m, r) = Load(b, r)
  <2> SUFFICES ASSUME NEW r \in b.seats
               PROVE  /\ Load(b, r) \in Nat /\ r \in Nat
                      /\ r = 0 => Load(m, r) = Load(b, r) + 1
                      /\ r # 0 => Load(m, r) = Load(b, r)
    OBVIOUS
  <2>1. r \in Nat /\ Load(b, r) \in Nat
    BY LoadIsANumber, Sizes, TicketFields
  <2>2. /\ On(m, t, r) => Load(m, r) = Load(b, r) + 1
        /\ ~On(m, t, r) => Load(m, r) = Load(b, r)
    BY <1>5, <1>6, LoadGrows
  <2> QED  BY <1>6, <2>1, <2>2
<1>9. \A r \in b.seats : Load(b, q) <= Load(b, r)
  <2> SUFFICES ASSUME NEW r \in b.seats PROVE Load(b, q) <= Load(b, r)
    OBVIOUS
  <2>1. /\ Load(b, r) \in Nat /\ r \in Nat /\ Load(b, q) \in Nat /\ q \in Nat
        /\ (r = 0 => Load(m, r) = Load(b, r) + 1) /\ (r # 0 => Load(m, r) = Load(b, r))
        /\ (q = 0 => Load(m, q) = Load(b, q) + 1) /\ (q # 0 => Load(m, q) = Load(b, q))
        /\ Load(m, q) <= Load(m, r) /\ (r < q => Load(m, q) < Load(m, r))
    BY <1>4, <1>8
  <2> QED  BY <2>1
<1>10. Balanced(a, c)
  BY <1>1, <1>3, <1>4, <1>5, <1>6, <1>7, <1>9, LandsLight
<1> QED  BY <1>1, <1>3, <1>4, <1>10

\* releaseDev(): the tickets of the developer are routed.
LEMMA RoutedKeeps ==
  ASSUME NEW a, NEW b \in Board, Balanced(a, b), b.seats # {}, NEW xs \in SUBSET Ids,
         \A t \in xs : IsOpen(b, t) /\ b.tickets[t].team /\ b.tickets[t].holder = NoSeat,
         NEW c, c = Routed(b, xs)
  PROVE  /\ Balanced(a, c) /\ c \in Board
         /\ c.seats = b.seats /\ c.hired = b.hired /\ c.hand = b.hand /\ c.asked = b.asked
         /\ \A u \in Ids :
              /\ u \notin xs => c.tickets[u] = b.tickets[u]
              /\ u \in xs => /\ c.tickets[u].status = b.tickets[u].status
                             /\ c.tickets[u].parent = b.tickets[u].parent
                             /\ c.tickets[u].landed = b.tickets[u].landed
                             /\ ~c.tickets[u].team /\ c.tickets[u].holder \in b.seats
<1>2. PICK g : /\ g[0] = b /\ c = g[Last]
               /\ \A n \in 0..Last : g[n] \in Board
               /\ \A n \in 1..Last :
                    g[n] = IF n - 1 \in xs THEN Route(g[n - 1], n - 1) ELSE g[n - 1]
  BY RouteTyped, RouteChain
<1> DEFINE Rest(m) == /\ m.seats = b.seats /\ m.hired = b.hired /\ m.hand = b.hand
                      /\ m.asked = b.asked
           Free(m, u) == /\ m.tickets[u].status = b.tickets[u].status
                         /\ m.tickets[u].parent = b.tickets[u].parent
                         /\ m.tickets[u].landed = b.tickets[u].landed
                         /\ ~m.tickets[u].team /\ m.tickets[u].holder \in b.seats
           T == {n \in 0..Last :
                   /\ Balanced(a, g[n]) /\ Rest(g[n])
                   /\ \A u \in Ids : /\ u \notin xs \/ u >= n => g[n].tickets[u] = b.tickets[u]
                                     /\ u \in xs /\ u < n => Free(g[n], u)}
<1>3. Last \in Nat
  BY Sizes DEF Last
<1>4. 0 \in T
  <2>1. \A u \in Ids : u \in Nat /\ u >= 0 /\ ~(u < 0)
    BY Sizes
  <2> QED  BY <1>2, <1>3, <2>1
<1>5. ASSUME NEW k \in 0..(Last - 1), k \in T PROVE k + 1 \in T
  <2>1. k + 1 \in 1..Last /\ k + 1 \in 0..Last /\ (k + 1) - 1 = k /\ k \in Nat /\ k \in 0..Last
    BY <1>3
  <2>2. g[k + 1] = IF k \in xs THEN Route(g[k], k) ELSE g[k]
    BY <1>2, <2>1
  <2>3. /\ Balanced(a, g[k]) /\ Rest(g[k]) /\ g[k] \in Board
        /\ \A u \in Ids : /\ u \notin xs \/ u >= k => g[k].tickets[u] = b.tickets[u]
                          /\ u \in xs /\ u < k => Free(g[k], u)
    BY <1>2, <1>5, <2>1
  <2>4. \A u \in Ids : /\ u >= k + 1 => u >= k /\ u # k
                       /\ u < k + 1 => u < k \/ u = k
    <3>1. \A u \in Ids : u \in Nat
      BY Sizes
    <3> HIDE DEF T
    <3> QED  BY <2>1, <3>1
  <2>5. CASE k \in xs
    <3>1. k \in Ids /\ g[k].tickets[k] = b.tickets[k]
      BY <2>1, <2>3, <2>5
    <3>2. /\ IsOpen(g[k], k) /\ g[k].tickets[k].team /\ g[k].tickets[k].holder = NoSeat
          /\ g[k].seats # {}
      BY <2>3, <2>5, <3>1 DEF IsOpen
    <3>3. /\ Balanced(a, g[k + 1]) /\ Rest(g[k + 1])
          /\ \A u \in Ids \ {k} : g[k + 1].tickets[u] = g[k].tickets[u]
          /\ Free(g[k + 1], k)
      BY <2>2, <2>3, <2>5, <3>1, <3>2, RouteKeeps
    <3>4. ASSUME NEW u \in Ids
          PROVE  /\ u \notin xs \/ u >= k + 1 => g[k + 1].tickets[u] = b.tickets[u]
                 /\ u \in xs /\ u < k + 1 => Free(g[k + 1], u)
      <4>1. CASE u = k
        <5>1. ~(u >= k + 1)
          BY <2>1, <4>1
        <5> QED  BY <2>5, <3>3, <4>1, <5>1
      <4>2. CASE u # k
        BY <2>3, <2>4, <3>3, <4>2
      <4> QED  BY <4>1, <4>2
    <3> QED  BY <2>1, <3>3, <3>4
  <2>6. CASE k \notin xs
    <3>1. \A u \in Ids : /\ u >= k + 1 => u >= k
                         /\ u \in xs /\ u < k + 1 => u < k
      BY <2>4, <2>6
    <3> QED  BY <2>1, <2>2, <2>3, <2>6, <3>1
  <2> QED  BY <2>5, <2>6
<1> HIDE DEF T
<1>6. \A k \in 0..Last : k \in T
  BY <1>3, <1>4, <1>5, UpTo
<1>7. Last \in T /\ Last \in 0..Last
  BY <1>3, <1>6
<1>8. \A u \in Ids : u < Last
  BY Sizes DEF Last, Ids
<1> QED  BY <1>2, <1>7, <1>8 DEF T

\* Every hand on an open ticket stays on it, every other is settled.
LEMMA SettledAllFacts ==
  ASSUME NEW b \in Board, NEW ss \in SUBSET Seats, NEW c, c = SettledAll(b, ss)
  PROVE  /\ c \in Board /\ c.tickets = b.tickets /\ c.seats = b.seats /\ c.hired = b.hired
         /\ c.asked = b.asked
         /\ \A r \in Seats \ ss : c.hand[r] = b.hand[r]
         /\ \A r \in ss : \/ c.hand[r] = b.hand[r] /\ b.hand[r] \in Ids /\ IsOpen(b, b.hand[r])
                          \/ HandOK(c, r)
<1>2. PICK g : /\ g[0] = b /\ c = g[Last]
               /\ \A n \in 0..Last : g[n] \in Board
               /\ \A n \in 1..Last :
                    g[n] = IF n - 1 \in ss THEN Settled(g[n - 1], n - 1) ELSE g[n - 1]
  BY SettledTyped, SettleChain
<1> DEFINE Rest(m) == /\ m.tickets = b.tickets /\ m.seats = b.seats /\ m.hired = b.hired
                      /\ m.asked = b.asked
           Done(m, r) == \/ m.hand[r] = b.hand[r] /\ b.hand[r] \in Ids /\ IsOpen(b, b.hand[r])
                         \/ HandOK(m, r)
           T == {n \in 0..Last :
                   /\ Rest(g[n])
                   /\ \A r \in Seats : /\ r \notin ss \/ r >= n => g[n].hand[r] = b.hand[r]
                                       /\ r \in ss /\ r < n => Done(g[n], r)}
<1>3. Last \in Nat
  BY Sizes DEF Last
<1>4. 0 \in T
  <2>1. \A r \in Seats : r \in Nat /\ r >= 0 /\ ~(r < 0)
    BY Sizes
  <2> QED  BY <1>2, <1>3, <2>1
<1>5. ASSUME NEW k \in 0..(Last - 1), k \in T PROVE k + 1 \in T
  <2>1. k + 1 \in 1..Last /\ k + 1 \in 0..Last /\ (k + 1) - 1 = k /\ k \in Nat /\ k \in 0..Last
    BY <1>3
  <2>2. g[k + 1] = IF k \in ss THEN Settled(g[k], k) ELSE g[k]
    BY <1>2, <2>1
  <2>3. /\ Rest(g[k]) /\ g[k] \in Board
        /\ \A r \in Seats : /\ r \notin ss \/ r >= k => g[k].hand[r] = b.hand[r]
                            /\ r \in ss /\ r < k => Done(g[k], r)
    BY <1>2, <1>5, <2>1
  <2>4. \A r \in Seats : /\ r >= k + 1 => r >= k /\ r # k
                         /\ r < k + 1 => r < k \/ r = k
    BY <2>1, Sizes
  <2>5. CASE k \in ss
    <3>1. k \in Seats /\ g[k].hand[k] = b.hand[k]
      BY <2>1, <2>3, <2>5
    <3>2. /\ Rest(g[k + 1])
          /\ \A r \in Seats \ {k} : g[k + 1].hand[r] = g[k].hand[r]
          /\ \/ /\ g[k + 1].hand[k] = g[k].hand[k] /\ g[k].hand[k] \in Ids
                /\ IsOpen(g[k], g[k].hand[k])
             \/ HandOK(g[k + 1], k)
      BY <2>2, <2>3, <2>5, <3>1, SettledFacts
    <3>3. Done(g[k + 1], k)
      BY <2>3, <3>1, <3>2 DEF IsOpen
    <3>4. ASSUME NEW r \in Seats
          PROVE  /\ r \notin ss \/ r >= k + 1 => g[k + 1].hand[r] = b.hand[r]
                 /\ r \in ss /\ r < k + 1 => Done(g[k + 1], r)
      <4>1. CASE r = k
        <5>1. ~(r >= k + 1)
          BY <2>1, <4>1
        <5> QED  BY <2>5, <3>3, <4>1, <5>1
      <4>2. CASE r # k
        <5>1. g[k + 1].hand[r] = g[k].hand[r]
          BY <3>2, <4>2
        <5>2. Done(g[k], r) => Done(g[k + 1], r)
          BY <2>3, <3>2, <5>1 DEF HandOK, On, IsOpen, Holder
        <5> QED  BY <2>3, <2>4, <4>2, <5>1, <5>2
      <4> QED  BY <4>1, <4>2
    <3> QED  BY <2>1, <3>2, <3>4
  <2>6. CASE k \notin ss
    <3>1. \A r \in Seats : /\ r >= k + 1 => r >= k
                           /\ r \in ss /\ r < k + 1 => r < k
      BY <2>4, <2>6
    <3> QED  BY <2>1, <2>2, <2>3, <2>6, <3>1
  <2> QED  BY <2>5, <2>6
<1> HIDE DEF T
<1>6. \A k \in 0..Last : k \in T
  BY <1>3, <1>4, <1>5, UpTo
<1>7. Last \in T /\ Last \in 0..Last
  BY <1>3, <1>6
<1>8. \A r \in Seats : r < Last
  BY Sizes DEF Last, Seats
<1> QED  BY <1>2, <1>7, <1>8 DEF T

Fired(b) == [b EXCEPT !.hired = FALSE]

LEMMA FiredFacts ==
  ASSUME NEW b \in Board, NEW c, c = Fired(b)
  PROVE  /\ c \in Board /\ ~c.hired /\ c.tickets = b.tickets /\ c.seats = b.seats
         /\ c.hand = b.hand /\ c.asked = b.asked
BY DEF Fired, Board

LEMMA ReleasedIs ==
  ASSUME NEW b, NEW d, d = Fired(b), NEW e, e = Routed(d, Team(b))
  PROVE  Released(b) = SettledAll(e, b.seats)
BY DEF Released, Fired

\* releaseDev(), with the hands that are settled after it.
LEMMA ReleasedKeeps ==
  ASSUME NEW a, NEW b, NEW p, Half(b, p), Balanced(a, b), b.seats # {}, NEW c, c = Released(b)
  PROVE  Half(c, p) /\ Balanced(a, c) /\ c.seats = b.seats /\ ~c.hired
<1> DEFINE d == Fired(b)
           e == Routed(d, Team(b))
<1>1. b \in Board /\ Tidy(b) /\ Held(b) /\ Seated(b)
  BY DEF Half, Sound
<1>2. /\ d \in Board /\ ~d.hired /\ d.tickets = b.tickets /\ d.seats = b.seats
      /\ d.hand = b.hand /\ d.asked = b.asked
  BY <1>1, FiredFacts
<1>3. c = SettledAll(e, b.seats)
  BY ReleasedIs
<1> HIDE DEF d
<1>4. /\ Team(b) \in SUBSET Ids
      /\ \A t \in Team(b) : IsOpen(d, t) /\ d.tickets[t].team /\ d.tickets[t].holder = NoSeat
  BY <1>1, <1>2 DEF Team, Open, IsOpen, Tidy
<1>5. Balanced(a, d)
  <2>1. \A t, r : On(d, t, r) <=> On(b, t, r)
    BY <1>2 DEF On, IsOpen, Holder
  <2>2. \A r : Load(d, r) = Load(b, r)
    BY <1>2 DEF Load, Desk, Open, Team, Holder
  <2> QED  BY <1>2, <2>1, <2>2 DEF Balanced
<1>6. /\ Balanced(a, e) /\ e \in Board
      /\ e.seats = d.seats /\ e.hired = d.hired /\ e.hand = d.hand /\ e.asked = d.asked
      /\ \A u \in Ids :
           /\ u \notin Team(b) => e.tickets[u] = d.tickets[u]
           /\ u \in Team(b) => /\ e.tickets[u].status = d.tickets[u].status
                               /\ e.tickets[u].parent = d.tickets[u].parent
                               /\ e.tickets[u].landed = d.tickets[u].landed
                               /\ ~e.tickets[u].team /\ e.tickets[u].holder \in d.seats
  BY <1>2, <1>4, <1>5, RoutedKeeps
<1> HIDE DEF e
<1>7. /\ c \in Board /\ c.tickets = e.tickets /\ c.seats = e.seats /\ c.hired = e.hired
      /\ c.asked = e.asked
      /\ \A r \in Seats \ b.seats : c.hand[r] = e.hand[r]
      /\ \A r \in b.seats : \/ c.hand[r] = e.hand[r] /\ e.hand[r] \in Ids /\ IsOpen(e, e.hand[r])
                            \/ HandOK(c, r)
  BY <1>1, <1>3, <1>6, SettledAllFacts, TicketFields
<1>8. Balanced(a, c)
  <2>1. \A t, r : On(c, t, r) <=> On(e, t, r)
    BY <1>7 DEF On, IsOpen, Holder
  <2>2. \A r : Load(c, r) = Load(e, r)
    BY <1>7 DEF Load, Desk, Open, Team, Holder
  <2> QED  BY <1>6, <1>7, <2>1, <2>2 DEF Balanced
<1>9. ASSUME NEW t \in Ids
      PROVE  /\ c.tickets[t].status = b.tickets[t].status
             /\ c.tickets[t].parent = b.tickets[t].parent
             /\ c.tickets[t].landed = b.tickets[t].landed
             /\ t \notin Team(b) => c.tickets[t] = b.tickets[t]
             /\ t \in Team(b) => ~c.tickets[t].team /\ c.tickets[t].holder \in b.seats
             /\ IsOpen(c, t) <=> IsOpen(b, t)
             /\ t \in Team(b) <=> IsOpen(b, t) /\ b.tickets[t].team
  BY <1>2, <1>6, <1>7 DEF IsOpen, Team, Open
<1>10. \A t : \A r : On(b, t, r) => On(c, t, r)
  BY <1>9 DEF On, Holder
<1>11. Sound(c)
  <2>1. Tidy(c)
    <3> SUFFICES ASSUME NEW t \in Ids
                 PROVE  /\ c.tickets[t].status # "merged" => c.tickets[t].landed = 0
                        /\ c.tickets[t].status \in {"none", "backlog"} =>
                             ~c.tickets[t].team /\ c.tickets[t].parent = NoId
                        /\ c.tickets[t].team \/ c.tickets[t].status \in {"none", "backlog"} =>
                             c.tickets[t].holder = NoSeat
                        /\ c.tickets[t].parent # NoId =>
                             c.tickets[c.tickets[t].parent].status \in {"open", "merged"}
      BY DEF Tidy
    <3>1. c.tickets[t].team => t \notin Team(b)
      BY <1>9
    <3>2. c.tickets[t].status \in {"none", "backlog"} => t \notin Team(b)
      BY <1>9 DEF IsOpen
    <3>3. c.tickets[t].parent # NoId =>
            c.tickets[c.tickets[t].parent].status = b.tickets[c.tickets[t].parent].status
      BY <1>1, <1>9, TicketFields
    <3> QED  BY <1>1, <1>9, <3>1, <3>2, <3>3 DEF Tidy
  <2>2. Held(c)
    <3> SUFFICES ASSUME NEW t \in Ids, IsOpen(c, t)
                 PROVE  IF c.tickets[t].team THEN c.hired ELSE Holder(c, t) \in c.seats
      BY DEF Held
    <3>1. CASE t \in Team(b)
      <4>1. c.tickets[t].holder \in b.seats /\ c.tickets[t].holder # NoSeat
        BY <1>1, <1>9, <3>1, Sizes, TicketFields
      <4> QED  BY <1>2, <1>6, <1>7, <1>9, <3>1, <4>1 DEF Holder
    <3>2. CASE t \notin Team(b)
      <4>1. IsOpen(b, t) /\ ~b.tickets[t].team /\ c.tickets[t] = b.tickets[t]
        BY <1>9, <3>2
      <4>2. Holder(b, t) \in b.seats
        BY <1>1, <4>1 DEF Held
      <4> QED  BY <1>2, <1>6, <1>7, <4>1, <4>2 DEF Holder
    <3> QED  BY <3>1, <3>2
  <2>3. Seated(c)
    BY <1>1, <1>2, <1>6, <1>7 DEF Seated
  <2> QED  BY <1>7, <2>1, <2>2, <2>3 DEF Sound
<1>12. ASSUME ~p PROVE Handy(c)
  <2>1. Handy(b)
    BY <1>12 DEF Half
  <2>2. ASSUME NEW r \in c.seats PROVE HandOK(c, r) /\ AskOK(c, r)
    <3>1. HandOK(b, r) /\ AskOK(b, r) /\ r \in Seats /\ r \in b.seats
      BY <1>1, <1>2, <1>6, <1>7, <2>1, TicketFields DEF Handy
    <3>2. HandOK(c, r)
      <4>1. CASE c.hand[r] = e.hand[r] /\ e.hand[r] \in Ids
        <5>1. c.hand[r] = b.hand[r] /\ b.hand[r] # NoId
          BY <1>2, <1>6, <4>1, Sizes
        <5>2. On(b, b.hand[r], r)
          BY <3>1, <5>1 DEF HandOK
        <5> QED  BY <1>10, <5>1, <5>2 DEF HandOK
      <4> QED  BY <1>7, <3>1, <4>1
    <3>3. AskOK(c, r)
      <4>1. c.asked[r] = b.asked[r]
        BY <1>2, <1>6, <1>7
      <4>2. \A t \in Ids : Clear(b, t) => Clear(c, t)
        BY <1>9 DEF Clear
      <4> QED  BY <1>10, <3>1, <4>1, <4>2 DEF AskOK, On
    <3> QED  BY <3>2, <3>3
  <2>3. \A o \in Ids : IsOpen(c, o) /\ c.tickets[o].parent # NoId => IsOpen(c, c.tickets[o].parent)
    <3> SUFFICES ASSUME NEW o \in Ids, IsOpen(c, o), c.tickets[o].parent # NoId
                 PROVE  IsOpen(c, c.tickets[o].parent)
      OBVIOUS
    <3>1. c.tickets[o].parent = b.tickets[o].parent /\ IsOpen(b, o)
      BY <1>9
    <3>2. c.tickets[o].parent \in Ids /\ IsOpen(b, c.tickets[o].parent)
      BY <1>1, <2>1, <3>1, TicketFields DEF Handy
    <3> QED  BY <1>9, <3>2
  <2>4. \A t \in Ids : c.tickets[t].landed <= 1
    BY <1>9, <2>1 DEF Handy
  <2> QED  BY <2>2, <2>3, <2>4 DEF Handy
<1> QED  BY <1>2, <1>6, <1>7, <1>8, <1>11, <1>12 DEF Half

-----------------------------------------------------------------------------
(* Questions, and the landing they are about *)

Asked(b, s, q) == [b EXCEPT !.asked[s] = q]

\* A question changes nothing but the question.
LEMMA AskedFacts ==
  ASSUME NEW b \in Board, NEW s \in Seats, NEW q \in Asking, NEW c, c = Asked(b, s, q)
  PROVE  /\ c \in Board /\ c.tickets = b.tickets /\ c.seats = b.seats /\ c.hired = b.hired
         /\ c.hand = b.hand /\ c.asked[s] = q
         /\ \A r \in Seats \ {s} : c.asked[r] = b.asked[r]
<1>1. b.asked \in [Seats -> Asking]
  BY DEF Board, Asking
<1>2. [b.asked EXCEPT ![s] = q] \in [Seats -> Asking]
  BY <1>1
<1>3. c = [b EXCEPT !.asked = [b.asked EXCEPT ![s] = q]]
  BY DEF Asked
<1>4. /\ c \in Board /\ c.tickets = b.tickets /\ c.seats = b.seats /\ c.hired = b.hired
      /\ c.hand = b.hand /\ c.asked = [b.asked EXCEPT ![s] = q]
  BY <1>2, <1>3 DEF Board, Asking
<1> QED  BY <1>1, <1>4

\* A seat is asked about work of its own, with nothing in its way.
LEMMA AskedKeeps ==
  ASSUME NEW b, NEW p, Good(b, p), NEW s \in b.seats, NEW q \in Asking,
         q.kind = "nothing" <=> q.ticket = NoId,
         ~p /\ q.ticket # NoId => On(b, q.ticket, s) /\ Clear(b, q.ticket),
         NEW c, c = Asked(b, s, q)
  PROVE  /\ Good(c, p) /\ c.tickets = b.tickets /\ c.seats = b.seats /\ c.hired = b.hired
         /\ c.hand = b.hand /\ c.asked[s] = q
<1>1. b \in Board /\ Tidy(b) /\ Held(b) /\ Seated(b) /\ s \in Seats
  BY TicketFields DEF Good, Sound
<1>2. /\ c \in Board /\ c.tickets = b.tickets /\ c.seats = b.seats /\ c.hired = b.hired
      /\ c.hand = b.hand /\ c.asked[s] = q
      /\ \A r \in Seats \ {s} : c.asked[r] = b.asked[r]
  BY <1>1, AskedFacts
<1>3. \A t, r : (On(c, t, r) <=> On(b, t, r)) /\ (IsOpen(c, t) <=> IsOpen(b, t))
  BY <1>2 DEF On, IsOpen, Holder
<1>4. Sound(c)
  <2>1. Tidy(c)
    BY <1>1, <1>2 DEF Tidy
  <2>2. Held(c)
    BY <1>1, <1>2 DEF Held, IsOpen, Holder
  <2>3. Seated(c)
    BY <1>1, <1>2 DEF Seated
  <2> QED  BY <1>2, <2>1, <2>2, <2>3 DEF Sound
<1>5. ASSUME ~p PROVE Handy(c) /\ Together(c)
  <2>1. Handy(b) /\ Together(b)
    BY <1>5 DEF Good
  <2>2. \A t : Clear(c, t) <=> Clear(b, t)
    BY <1>2, <1>3 DEF Clear
  <2>3. ASSUME NEW r \in b.seats PROVE HandOK(c, r) /\ AskOK(c, r)
    <3>1. HandOK(b, r) /\ AskOK(b, r) /\ r \in Seats
      BY <1>1, <2>1, TicketFields DEF Handy
    <3>2. HandOK(c, r)
      BY <1>2, <1>3, <3>1 DEF HandOK
    <3>3. AskOK(c, r)
      BY <1>2, <1>3, <1>5, <2>2, <3>1 DEF AskOK
    <3> QED  BY <3>2, <3>3
  <2>4. Handy(c)
    BY <1>2, <1>3, <2>1, <2>3 DEF Handy
  <2>5. Together(c)
    BY <1>2, <2>1 DEF Together, IsOpen, Holder
  <2> QED  BY <2>4, <2>5
<1> QED  BY <1>2, <1>4, <1>5 DEF Good

LEMMA NothingFacts == Nothing \in Asking /\ Nothing.kind = "nothing" /\ Nothing.ticket = NoId
BY DEF Nothing, Ask, Asking

\* The ticket is merged, and somebody's points may be fixed with it.
Delivered(b, t) == [b EXCEPT !.tickets[t] = Merged(@)]

LEMMA DeliveredFacts ==
  ASSUME NEW b \in Board, NEW t \in Ids, NEW c, c = Delivered(b, t)
  PROVE  /\ c \in Board /\ c.seats = b.seats /\ c.hired = b.hired /\ c.hand = b.hand
         /\ c.asked = b.asked
         /\ \A u \in Ids \ {t} : c.tickets[u] = b.tickets[u]
         /\ c.tickets[t].status = "merged" /\ c.tickets[t].parent = b.tickets[t].parent
         /\ ~c.tickets[t].team /\ (b.tickets[t].landed = 0 => c.tickets[t].landed = 1)
<1> DEFINE x == Merged(b.tickets[t])
<1>1. b.tickets \in [Ids -> Ticket]
  BY TicketFields
<1>2. /\ x \in Ticket /\ x.status = "merged" /\ x.parent = b.tickets[t].parent /\ ~x.team
      /\ b.tickets[t].landed = 0 => x.landed = 1
  BY <1>1, MergedFacts
<1>3. c = [b EXCEPT !.tickets = [b.tickets EXCEPT ![t] = x]]
  BY DEF Delivered
<1> HIDE DEF x
<1>4. /\ c \in Board /\ c.tickets = [b.tickets EXCEPT ![t] = x] /\ c.seats = b.seats
      /\ c.hired = b.hired /\ c.hand = b.hand /\ c.asked = b.asked
  BY <1>1, <1>2, <1>3 DEF Board
<1>5. c.tickets[t] = x /\ \A u \in Ids \ {t} : c.tickets[u] = b.tickets[u]
  BY <1>1, <1>4
<1> QED  BY <1>2, <1>4, <1>5

LEMMA PointedFacts ==
  ASSUME NEW b \in Board, NEW t \in Ids, NEW v \in BOOLEAN, NEW c, c = Pointed(b, t, v)
  PROVE  /\ c \in Board /\ c.seats = b.seats /\ c.hired = b.hired /\ c.hand = b.hand
         /\ c.asked = b.asked
         /\ \A u \in Ids : Alike(b.tickets[u], c.tickets[u])
<1> DEFINE x == [b.tickets[t] EXCEPT !.done = v]
<1>1. b.tickets \in [Ids -> Ticket]
  BY TicketFields
<1>2. x \in Ticket /\ Alike(b.tickets[t], x)
  BY <1>1 DEF Ticket, Alike
<1>3. c = [b EXCEPT !.tickets = [b.tickets EXCEPT ![t] = x]]
  BY DEF Pointed
<1> HIDE DEF x
<1>4. /\ c \in Board /\ c.tickets = [b.tickets EXCEPT ![t] = x] /\ c.seats = b.seats
      /\ c.hired = b.hired /\ c.hand = b.hand /\ c.asked = b.asked
  BY <1>1, <1>2, <1>3 DEF Board
<1>5. \A u \in Ids : Alike(b.tickets[u], c.tickets[u])
  BY <1>1, <1>2, <1>4 DEF Alike
<1> QED  BY <1>4, <1>5

\* completeMerge(), what it leaves of the ticket and of the others.
LEMMA LandedFacts ==
  ASSUME NEW b \in Board, NEW t \in Ids, NEW s \in Seats, NEW c \in Landed(b, t, s)
  PROVE  /\ c \in Board /\ c.seats = b.seats /\ c.hired = b.hired /\ c.asked = b.asked
         /\ \A u \in Ids \ {t} : Alike(b.tickets[u], c.tickets[u])
         /\ c.tickets[t].status = "merged" /\ c.tickets[t].parent = b.tickets[t].parent
         /\ ~c.tickets[t].team /\ (b.tickets[t].landed = 0 => c.tickets[t].landed = 1)
         /\ \A r \in Seats \ {s} : c.hand[r] = b.hand[r]
         /\ \/ c.hand[s] = b.hand[s] /\ b.hand[s] \in Ids /\ IsOpen(c, b.hand[s])
            \/ HandOK(c, s)
<1> DEFINE d == Delivered(b, t)
<1>1. /\ d \in Board /\ d.seats = b.seats /\ d.hired = b.hired /\ d.hand = b.hand
      /\ d.asked = b.asked
      /\ \A u \in Ids \ {t} : d.tickets[u] = b.tickets[u]
      /\ d.tickets[t].status = "merged" /\ d.tickets[t].parent = b.tickets[t].parent
      /\ ~d.tickets[t].team /\ (b.tickets[t].landed = 0 => d.tickets[t].landed = 1)
  BY DeliveredFacts
<1>2. PICK l : /\ c = Settled(l, s)
               /\ l = d \/ \E u \in Ids : \E v \in BOOLEAN : l = Pointed(d, u, v)
  BY DEF Landed, Delivered, Pointed, Open
<1> HIDE DEF d
<1>3. /\ l \in Board /\ l.seats = b.seats /\ l.hired = b.hired /\ l.hand = b.hand
      /\ l.asked = b.asked
      /\ \A u \in Ids : Alike(d.tickets[u], l.tickets[u])
  <2>1. CASE l = d
    BY <1>1, <2>1 DEF Alike
  <2>2. CASE l # d
    <3>1. PICK u \in Ids : \E v \in BOOLEAN : l = Pointed(d, u, v)
      BY <1>2, <2>2
    <3> QED  BY <1>1, <3>1, PointedFacts
  <2> QED  BY <2>1, <2>2
<1>4. /\ c \in Board /\ c.tickets = l.tickets /\ c.seats = l.seats /\ c.hired = l.hired
      /\ c.asked = l.asked
      /\ \A r \in Seats \ {s} : c.hand[r] = l.hand[r]
      /\ \/ c.hand[s] = l.hand[s] /\ l.hand[s] \in Ids /\ IsOpen(l, l.hand[s])
         \/ HandOK(c, s)
  BY <1>2, <1>3, SettledFacts
<1>5. \A u \in Ids \ {t} : Alike(b.tickets[u], c.tickets[u])
  BY <1>1, <1>3, <1>4
<1>6. /\ c.tickets[t].status = "merged" /\ c.tickets[t].parent = b.tickets[t].parent
      /\ ~c.tickets[t].team /\ (b.tickets[t].landed = 0 => c.tickets[t].landed = 1)
  BY <1>1, <1>3, <1>4 DEF Alike
<1>7. \/ c.hand[s] = b.hand[s] /\ b.hand[s] \in Ids /\ IsOpen(c, b.hand[s])
      \/ HandOK(c, s)
  BY <1>3, <1>4 DEF IsOpen
<1> QED  BY <1>3, <1>4, <1>5, <1>6, <1>7

\* What lands was on the desk of s or on nobody's; the hand of s is settled.
LEMMA LandedHands ==
  ASSUME NEW b, Good(b, FALSE), NEW t \in Ids, NEW s \in b.seats,
         \A r \in b.seats : On(b, t, r) => r = s,
         NEW c \in Landed(b, t, s)
  PROVE  \A r \in b.seats : HandOK(c, r)
<1>1. b \in Board /\ s \in Seats /\ Handy(b)
  BY TicketFields DEF Good, Sound
<1>2. /\ \A u \in Ids \ {t} : Alike(b.tickets[u], c.tickets[u])
      /\ c.tickets[t].status = "merged"
      /\ \A r \in Seats \ {s} : c.hand[r] = b.hand[r]
      /\ \/ c.hand[s] = b.hand[s] /\ b.hand[s] \in Ids /\ IsOpen(c, b.hand[s])
         \/ HandOK(c, s)
  BY <1>1, LandedFacts
<1>3. \A u \in Ids \ {t} : \A r : On(c, u, r) <=> On(b, u, r)
  BY <1>2 DEF Alike, On, IsOpen, Holder
<1>4. ~IsOpen(c, t) /\ \A r : ~On(c, t, r)
  BY <1>2 DEF On, IsOpen
<1> SUFFICES ASSUME NEW r \in b.seats PROVE HandOK(c, r)
  OBVIOUS
<1>5. HandOK(b, r) /\ r \in Seats
  BY <1>1, TicketFields DEF Handy
<1>6. CASE r = s
  <2>1. CASE c.hand[s] = b.hand[s] /\ b.hand[s] \in Ids /\ IsOpen(c, b.hand[s])
    <3>1. b.hand[s] # NoId /\ b.hand[s] \in Ids \ {t}
      BY <1>4, <2>1, Sizes
    <3>2. On(b, b.hand[s], s)
      BY <1>5, <1>6, <3>1 DEF HandOK
    <3> QED  BY <1>3, <1>6, <2>1, <3>1, <3>2 DEF HandOK
  <2> QED  BY <1>2, <1>6, <2>1
<1>7. CASE r # s
  <2>1. c.hand[r] = b.hand[r] /\ ~On(b, t, r)
    BY <1>2, <1>5, <1>7
  <2>2. CASE On(b, b.hand[r], r)
    <3>1. b.hand[r] \in Ids \ {t}
      BY <2>1, <2>2 DEF On
    <3> QED  BY <1>3, <2>1, <2>2, <3>1 DEF HandOK
  <2>3. CASE ~On(b, b.hand[r], r)
    <3>1. b.hand[r] = NoId /\ \A u \in Ids : ~On(b, u, r)
      BY <1>5, <2>3 DEF HandOK
    <3>2. \A u \in Ids : ~On(c, u, r)
      BY <1>3, <1>4, <3>1
    <3> QED  BY <2>1, <3>1, <3>2 DEF HandOK
  <2> QED  BY <2>2, <2>3
<1> QED  BY <1>6, <1>7

\* The team merges what it held.
LEMMA TeamLandedKeeps ==
  ASSUME NEW b, NEW p, Good(b, p), b.seats # {}, NEW t \in Ids, IsOpen(b, t), b.tickets[t].team,
         IsReady(b, t), NEW c \in TeamLanded(b, t)
  PROVE  /\ Good(c, p) /\ c.seats = b.seats /\ c.hired = b.hired
         /\ \A u \in Ids \ {t} : Alike(b.tickets[u], c.tickets[u])
<1>1. b \in Board /\ Seated(b) /\ b.seats \in SUBSET Seats
  BY TicketFields DEF Good, Sound
<1>2. Clear(b, t)
  BY DEF IsReady, Obstacles, Open, Clear, IsOpen
<1>3. \A r : ~On(b, t, r)
  BY DEF On
<1>4. ~p => \A r \in b.seats : b.asked[r].ticket # t
  <2> SUFFICES ASSUME ~p, NEW r \in b.seats, b.asked[r].ticket = t PROVE FALSE
    OBVIOUS
  <2>1. AskOK(b, r) /\ t # NoId
    BY Sizes DEF Good, Handy
  <2> QED  BY <1>3, <2>1 DEF AskOK
<1>5. CASE b.tickets[t].parent # NoId
  <2>1. c = ObstacleLanded(b, t)
    BY <1>5 DEF TeamLanded
  <2>2. /\ Good(c, p) /\ c.seats = b.seats /\ c.hired = b.hired
        /\ \A u \in Ids \ {t} : c.tickets[u] = b.tickets[u]
    BY <1>2, <1>4, <1>5, <2>1, ObstacleLandedKeeps
  <2> QED  BY <2>2 DEF Alike
<1>6. CASE b.tickets[t].parent = NoId
  <2> DEFINE s == LeadSeat(b)
  <2>1. s \in b.seats /\ s \in Seats
    BY <1>1, Lead
  <2>2. c \in Landed(b, t, s)
    BY <1>6 DEF TeamLanded
  <2> HIDE DEF s
  <2>3. /\ c \in Board /\ c.seats = b.seats /\ c.hired = b.hired /\ c.asked = b.asked
        /\ \A u \in Ids \ {t} : Alike(b.tickets[u], c.tickets[u])
        /\ c.tickets[t].status = "merged" /\ c.tickets[t].parent = b.tickets[t].parent
        /\ ~c.tickets[t].team /\ (b.tickets[t].landed = 0 => c.tickets[t].landed = 1)
        /\ \A r \in Seats \ {s} : c.hand[r] = b.hand[r]
    BY <1>1, <2>1, <2>2, LandedFacts
  <2>4. \A r \in Seats \ b.seats : c.hand[r] = NoId
    BY <1>1, <2>1, <2>3 DEF Seated
  <2>5. ~p => \A r \in b.seats : c.asked[r].ticket # t /\ HandOK(c, r)
    <3> SUFFICES ASSUME ~p PROVE \A r \in b.seats : c.asked[r].ticket # t /\ HandOK(c, r)
      OBVIOUS
    <3>1. Good(b, FALSE)
      BY DEF Good
    <3>2. \A r \in b.seats : HandOK(c, r)
      BY <1>3, <2>1, <2>2, <3>1, LandedHands
    <3> QED  BY <1>4, <2>3, <3>2
  <2>6. Good(c, p)
    BY <1>2, <2>3, <2>4, <2>5, LandKeeps
  <2> QED  BY <2>3, <2>6
<1> QED  BY <1>5, <1>6

\* A seat merges what it was asked about.
LEMMA LandedForKeeps ==
  ASSUME NEW b, NEW p, Good(b, p), NEW s \in b.seats, b.asked[s].ticket # NoId,
         NEW c \in LandedFor(b, s)
  PROVE  Good(c, p) /\ c.seats = b.seats /\ c.hired = b.hired
<1> DEFINE t == b.asked[s].ticket
<1>1. b \in Board /\ Seated(b) /\ b.seats \in SUBSET Seats /\ s \in Seats /\ t \in Ids
  BY TicketFields DEF Good, Sound
<1>2. PICK l \in Landed(b, t, s) : c = Asked(l, s, Nothing)
  BY DEF LandedFor, Asked
<1>3. t = b.asked[s].ticket
  OBVIOUS
<1> HIDE DEF t
<1>4. /\ l \in Board /\ l.seats = b.seats /\ l.hired = b.hired /\ l.asked = b.asked
      /\ \A u \in Ids \ {t} : Alike(b.tickets[u], l.tickets[u])
      /\ l.tickets[t].status = "merged" /\ l.tickets[t].parent = b.tickets[t].parent
      /\ ~l.tickets[t].team /\ (b.tickets[t].landed = 0 => l.tickets[t].landed = 1)
      /\ \A r \in Seats \ {s} : l.hand[r] = b.hand[r]
  BY <1>1, LandedFacts
<1>5. /\ c \in Board /\ c.tickets = l.tickets /\ c.seats = l.seats /\ c.hired = l.hired
      /\ c.hand = l.hand /\ c.asked[s] = Nothing
      /\ \A r \in Seats \ {s} : c.asked[r] = l.asked[r]
  BY <1>1, <1>2, <1>4, AskedFacts, NothingFacts
<1>6. \A r \in Seats \ b.seats : c.hand[r] = NoId
  BY <1>1, <1>4, <1>5 DEF Seated
<1>7. \A r \in Seats : c.asked[r] \in {b.asked[r], Nothing}
  BY <1>4, <1>5
<1>8. ~p => /\ IsOpen(b, t) /\ Clear(b, t)
            /\ \A r \in b.seats : c.asked[r].ticket # t /\ HandOK(c, r)
  <2> SUFFICES ASSUME ~p
               PROVE  /\ IsOpen(b, t) /\ Clear(b, t)
                      /\ \A r \in b.seats : c.asked[r].ticket # t /\ HandOK(c, r)
    OBVIOUS
  <2>1. Good(b, FALSE) /\ \A r \in b.seats : AskOK(b, r)
    BY DEF Good, Handy
  <2>2. On(b, t, s) /\ Clear(b, t)
    BY <1>3, <2>1 DEF AskOK
  <2>3. \A r : On(b, t, r) => r = s
    BY <2>2 DEF On
  <2>4. \A r \in b.seats : HandOK(l, r)
    BY <1>1, <2>1, <2>3, LandedHands
  <2>5. ASSUME NEW r \in b.seats PROVE HandOK(c, r)
    BY <1>5, <2>4 DEF HandOK, On, IsOpen, Holder
  <2>6. ASSUME NEW r \in b.seats PROVE c.asked[r].ticket # t
    <3>1. CASE r = s
      BY <1>1, <1>5, <3>1, NothingFacts, Sizes
    <3>2. CASE r # s
      <4>1. c.asked[r] = b.asked[r]
        BY <1>1, <1>4, <1>5, <3>2
      <4>2. b.asked[r].ticket = t => On(b, t, r)
        BY <1>1, <2>1, Sizes DEF AskOK
      <4> QED  BY <2>3, <3>2, <4>1, <4>2
    <3> QED  BY <3>1, <3>2
  <2> QED  BY <2>2, <2>5, <2>6 DEF On
<1>9. /\ c.seats = b.seats /\ c.hired = b.hired
      /\ \A u \in Ids \ {t} : Alike(b.tickets[u], c.tickets[u])
      /\ c.tickets[t].status = "merged" /\ c.tickets[t].parent = b.tickets[t].parent
      /\ ~c.tickets[t].team /\ (b.tickets[t].landed = 0 => c.tickets[t].landed = 1)
  BY <1>4, <1>5
<1>10. Good(c, p)
  BY <1>1, <1>5, <1>6, <1>7, <1>8, <1>9, LandKeeps
<1> QED  BY <1>9, <1>10

-----------------------------------------------------------------------------
(* A hand, a seat, a developer *)

\* A seat takes another ticket of its desk in hand.
LEMMA CheckoutKeeps ==
  ASSUME NEW b, NEW p, Good(b, p), NEW s \in b.seats, NEW t, On(b, t, s),
         NEW c, c = [b EXCEPT !.hand[s] = t]
  PROVE  Good(c, p) /\ c.seats = b.seats /\ c.hired = b.hired
<1>1. b \in Board /\ Tidy(b) /\ Held(b) /\ Seated(b) /\ s \in Seats /\ t \in Ids
  BY TicketFields DEF Good, Sound, On
<1>2. /\ b.tickets \in [Ids -> Ticket] /\ b.hand \in [Seats -> Ids \cup {NoId}]
      /\ [b.hand EXCEPT ![s] = t] \in [Seats -> Ids \cup {NoId}]
  BY <1>1, TicketFields
<1>3. c = Remade(b, b.tickets, [b.hand EXCEPT ![s] = t])
  BY <1>1, Remaking
<1>4. /\ c \in Board /\ c.tickets = b.tickets /\ c.hand = [b.hand EXCEPT ![s] = t]
      /\ c.seats = b.seats /\ c.hired = b.hired /\ c.asked = b.asked
  BY <1>1, <1>2, <1>3, RemadeFacts
<1>5. c.hand[s] = t /\ \A r \in Seats \ {s} : c.hand[r] = b.hand[r]
  BY <1>2, <1>4
<1>6. \A u, r : (On(c, u, r) <=> On(b, u, r)) /\ (IsOpen(c, u) <=> IsOpen(b, u))
  BY <1>4 DEF On, IsOpen, Holder
<1>7. Sound(c)
  <2>1. Tidy(c)
    BY <1>1, <1>4 DEF Tidy
  <2>2. Held(c)
    BY <1>1, <1>4 DEF Held, IsOpen, Holder
  <2>3. Seated(c)
    BY <1>1, <1>4, <1>5 DEF Seated
  <2> QED  BY <1>4, <2>1, <2>2, <2>3 DEF Sound
<1>8. ASSUME ~p PROVE Handy(c) /\ Together(c)
  <2>1. Handy(b) /\ Together(b)
    BY <1>8 DEF Good
  <2>2. \A u : Clear(c, u) <=> Clear(b, u)
    BY <1>4, <1>6 DEF Clear
  <2>3. ASSUME NEW r \in b.seats PROVE HandOK(c, r) /\ AskOK(c, r)
    <3>1. HandOK(b, r) /\ AskOK(b, r) /\ r \in Seats
      BY <1>1, <2>1, TicketFields DEF Handy
    <3>2. HandOK(c, r)
      BY <1>5, <1>6, <3>1 DEF HandOK
    <3>3. AskOK(c, r)
      BY <1>4, <1>6, <2>2, <3>1 DEF AskOK
    <3> QED  BY <3>2, <3>3
  <2>4. Handy(c)
    BY <1>4, <1>6, <2>1, <2>3 DEF Handy
  <2>5. Together(c)
    BY <1>4, <2>1 DEF Together, IsOpen, Holder
  <2> QED  BY <2>4, <2>5
<1> QED  BY <1>4, <1>7, <1>8 DEF Good

\* A developer more takes nothing from anybody.
LEMMA HireKeeps ==
  ASSUME NEW b, NEW p, Good(b, p), NEW c, c = [b EXCEPT !.hired = TRUE]
  PROVE  Good(c, p) /\ c.seats = b.seats /\ c.hired
<1>1. b \in Board /\ Tidy(b) /\ Held(b) /\ Seated(b)
  BY DEF Good, Sound
<1>2. /\ c \in Board /\ c.tickets = b.tickets /\ c.hand = b.hand /\ c.seats = b.seats
      /\ c.hired /\ c.asked = b.asked
  BY <1>1 DEF Board
<1>3. Sound(c)
  <2>1. Tidy(c)
    BY <1>1, <1>2 DEF Tidy
  <2>2. Held(c)
    BY <1>1, <1>2 DEF Held, IsOpen, Holder
  <2>3. Seated(c)
    BY <1>1, <1>2 DEF Seated
  <2> QED  BY <1>2, <2>1, <2>2, <2>3 DEF Sound
<1>4. ASSUME ~p PROVE Handy(c) /\ Together(c)
  BY <1>2, <1>4 DEF Good, Handy, HandOK, AskOK, Clear, On, IsOpen, Holder, Together
<1> QED  BY <1>2, <1>3, <1>4 DEF Good

\* A newcomer's desk is empty: all the work is on the desks of the others.
LEMMA JoinKeeps ==
  ASSUME NEW b, NEW p, Good(b, p), NEW s \in Seats, s \notin b.seats, b.seats # {},
         NEW c, c = [b EXCEPT !.seats = @ \cup {s}]
  PROVE  Good(c, p) /\ c.seats = b.seats \cup {s}
<1>1. b \in Board /\ Tidy(b) /\ Held(b) /\ Seated(b)
  BY DEF Good, Sound
<1>2. /\ c \in Board /\ c.tickets = b.tickets /\ c.hand = b.hand /\ c.seats = b.seats \cup {s}
      /\ c.hired = b.hired /\ c.asked = b.asked
  BY <1>1 DEF Board
<1>3. Sound(c)
  <2>1. Tidy(c)
    BY <1>1, <1>2 DEF Tidy
  <2>2. Held(c)
    BY <1>1, <1>2 DEF Held, IsOpen, Holder
  <2>3. Seated(c)
    BY <1>1, <1>2 DEF Seated
  <2> QED  BY <1>2, <2>1, <2>2, <2>3 DEF Sound
<1>4. ASSUME ~p PROVE Handy(c) /\ Together(c)
  <2>1. Handy(b) /\ Together(b)
    BY <1>4 DEF Good
  <2>2. \A u, r : (On(c, u, r) <=> On(b, u, r)) /\ (IsOpen(c, u) <=> IsOpen(b, u))
    BY <1>2 DEF On, IsOpen, Holder
  <2>3. ASSUME NEW r \in c.seats PROVE HandOK(c, r) /\ AskOK(c, r)
    <3>1. CASE r = s
      <4>1. \A u \in Ids : ~On(b, u, s)
        BY <1>1 DEF Held, On
      <4>2. b.hand[s] = NoId /\ b.asked[s] = Nothing
        BY <1>1 DEF Seated
      <4> QED  BY <1>2, <2>2, <3>1, <4>1, <4>2, NothingFacts DEF HandOK, AskOK
    <3>2. CASE r # s
      BY <1>2, <2>1, <2>2, <3>2 DEF Handy, HandOK, AskOK, Clear
    <3> QED  BY <3>1, <3>2
  <2>4. Handy(c)
    BY <1>2, <2>1, <2>2, <2>3 DEF Handy
  <2>5. Together(c)
    BY <1>2, <2>1 DEF Together, IsOpen, Holder
  <2> QED  BY <2>4, <2>5
<1> QED  BY <1>2, <1>3, <1>4 DEF Good

-----------------------------------------------------------------------------
(* The invariant *)

\* Where the round is, and whom it still waits for.
RoundOK ==
  /\ next \in 0..MaxSeats
  /\ phase \in {"play", "event", "relic", "over"}
  /\ at \in {"idle", "round", "team", "ship", "shipEarly", "thrown"}
  /\ board.seats = {} => phase = "over" /\ at = "idle"
  /\ todo \subseteq board.seats
  /\ at \notin {"round", "thrown"} => todo = {}
  /\ queue \subseteq Ids
  /\ at = "team" => queue \subseteq Team(board)
  /\ burnt \subseteq Seats \ board.seats
  /\ at # "shipEarly" => burnt = {}
  /\ parted \in BOOLEAN
  /\ at = "thrown" => parted

DesksInv == Good(board, parted) /\ RoundOK

\* What a step owes the desks of those who stay: whoever goes, whoever is let go,
\* their work is spread.
Spread ==
  (board'.seats # board.seats \/ (board.hired /\ ~board'.hired))
    /\ board.seats \cap board'.seats = board'.seats => Balanced(board, board')

Kept == Good(board', parted') /\ RoundOK' /\ Spread

\* The flag `parted` is raised by boards that are not Together.
LEMMA SplitIs ==
  ASSUME NEW b \in Board
  PROVE  Split(b) <=> ~Together(b)
<1>1. \A t : t \in Open(b) <=> t \in Ids /\ IsOpen(b, t)
  BY DEF Open, IsOpen
<1>2. \A o \in Ids : b.tickets[o].parent \in Ids <=> b.tickets[o].parent # NoId
  BY TicketFields, Sizes
<1> QED  BY <1>1, <1>2 DEF Split, Together

\* A departure may part a ticket from its obstacle, and the flag says so.
LEMMA Parting ==
  ASSUME NEW b, NEW p \in BOOLEAN, Half(b, p), NEW q, q = (p \/ Split(b))
  PROVE  Good(b, q) /\ q \in BOOLEAN
<1>1. b \in Board
  BY DEF Half, Sound
<1>2. q \in BOOLEAN
  BY DEF Split
<1>3. ~q => ~p /\ Together(b)
  BY <1>1, SplitIs
<1> QED  BY <1>2, <1>3 DEF Half, Good

\* Without a departure nothing is parted.
LEMMA NotParting ==
  ASSUME NEW b, NEW p \in BOOLEAN, Good(b, p), NEW q, q = (p \/ Split(b))
  PROVE  Good(b, q) /\ q \in BOOLEAN
BY Parting DEF Good, Half

\* A good board is half good, and balanced since itself.
LEMMA GoodIsHalf ==
  ASSUME NEW b, NEW p, Good(b, p)
  PROVE  Half(b, p) /\ Balanced(b, b) /\ b \in Board /\ b.seats \in SUBSET Seats
BY TicketFields DEF Good, Half, Balanced, Sound

\* Work in hand, while the seat is asked nothing, is what nobody is asked about.
LEMMA OwnWork ==
  ASSUME NEW b, NEW p, Good(b, p), NEW s \in b.seats, b.hand[s] \in Open(b),
         b.asked[s].kind = "nothing"
  PROVE  /\ b.hand[s] \in Ids /\ IsOpen(b, b.hand[s])
         /\ ~p => /\ On(b, b.hand[s], s)
                  /\ \A r \in b.seats : b.asked[r].ticket # b.hand[s]
<1>1. b \in Board /\ Seated(b) /\ s \in Seats
  BY TicketFields DEF Good, Sound
<1> DEFINE t == b.hand[s]
<1>2. t \in Ids /\ IsOpen(b, t) /\ t # NoId
  BY Sizes DEF Open, IsOpen
<1>3. ASSUME ~p PROVE On(b, t, s) /\ \A r \in b.seats : b.asked[r].ticket # t
  <2>1. \A r \in b.seats : HandOK(b, r) /\ AskOK(b, r)
    BY <1>3 DEF Good, Handy
  <2>2. On(b, t, s)
    BY <1>2, <2>1 DEF HandOK
  <2>3. b.asked[s].ticket = NoId
    BY <1>1 DEF Seated
  <2> HIDE DEF t
  <2>4. ASSUME NEW r \in b.seats, b.asked[r].ticket = t PROVE FALSE
    <3>1. On(b, t, r)
      BY <1>2, <2>1, <2>4 DEF AskOK
    <3>2. r = s
      BY <2>2, <3>1 DEF On
    <3> QED  BY <1>2, <2>3, <2>4, <3>2
  <2> QED  BY <2>2, <2>4
<1> QED  BY <1>2, <1>3

\* A question is about work of the seat's own.
LEMMA OwnQuestion ==
  ASSUME NEW b, NEW p, Good(b, p), NEW s \in b.seats, b.asked[s].kind # "nothing"
  PROVE  /\ b.asked[s].ticket # NoId /\ b.asked[s].ticket \in Ids
         /\ ~p => On(b, b.asked[s].ticket, s) /\ Clear(b, b.asked[s].ticket)
<1>1. b \in Board /\ Seated(b) /\ s \in Seats
  BY TicketFields DEF Good, Sound
<1>2. b.asked[s].ticket # NoId /\ b.asked[s].ticket \in Ids
  BY <1>1, TicketFields DEF Seated
<1>3. ~p => AskOK(b, s)
  BY DEF Good, Handy
<1> QED  BY <1>2, <1>3 DEF AskOK

LEMMA ReadyIsClear ==
  ASSUME NEW b, NEW t, IsReady(b, t)
  PROVE  Clear(b, t)
BY DEF IsReady, Obstacles, Open, Clear, IsOpen

-----------------------------------------------------------------------------
(* Between two rounds *)

\* A step of a seat or of the company that stays between two rounds.
Calm ==
  /\ Idle /\ board.seats # {} /\ SameRound /\ next' = next
  /\ board'.seats = board.seats

\* Between two rounds the round has no state.
LEMMA CalmKeeps ==
  ASSUME DesksInv, Calm, Good(board', parted'), parted' \in BOOLEAN,
         phase' \in {"play", "event", "relic", "over"}
  PROVE  RoundOK'
BY DEF DesksInv, RoundOK, Calm, Idle, SameRound

LEMMA ActsFacts ==
  ASSUME DesksInv, NEW s, NEW kind, Acts(s, kind)
  PROVE  /\ Good(board, parted) /\ s \in board.seats /\ board.seats # {} /\ phase = "play"
         /\ board.asked[s].kind = kind /\ Idle /\ SameRound /\ next' = next /\ parted' = parted
         /\ parted \in BOOLEAN
BY DEF DesksInv, RoundOK, Acts, IsAsked

\* A free action that leaves the seats, and the developer if there is one.
LEMMA FreeKeeps ==
  ASSUME DesksInv, NEW s, NEW kind, Acts(s, kind), Good(board', parted),
         board'.seats = board.seats, board.hired => board'.hired,
         phase' \in {"play", "event", "over"}
  PROVE  Kept /\ Calm
<1>1. /\ board.seats # {} /\ Idle /\ SameRound /\ next' = next /\ parted' = parted
      /\ parted \in BOOLEAN
  BY ActsFacts
<1>2. Calm /\ Good(board', parted') /\ parted' \in BOOLEAN
  BY <1>1 DEF Calm
<1>3. RoundOK'
  BY <1>2, CalmKeeps
<1>4. Spread
  BY DEF Spread
<1> QED  BY <1>2, <1>3, <1>4 DEF Kept

LEMMA StartKeeps ==
  ASSUME DesksInv, NEW s, Start(s)
  PROVE  Kept /\ Calm
<1>1. Acts(s, "nothing") /\ phase' = phase
  BY DEF Start
<1>2. Good(board, parted) /\ s \in board.seats /\ phase = "play"
  BY <1>1, ActsFacts
<1>3. PICK t \in Ids : board.tickets[t].status = "backlog" /\ board' = Given(board, t, s)
  BY DEF Start, Backlog
<1>4. Good(board', parted) /\ board'.seats = board.seats /\ board'.hired = board.hired
  BY <1>2, <1>3, GivenKeeps
<1> QED  BY <1>1, <1>2, <1>4, FreeKeeps

LEMMA CheckoutStep ==
  ASSUME DesksInv, NEW s, Checkout(s)
  PROVE  Kept /\ Calm
<1>1. Acts(s, "nothing") /\ phase' = phase
  BY DEF Checkout
<1>2. Good(board, parted) /\ s \in board.seats /\ phase = "play"
  BY <1>1, ActsFacts
<1>3. PICK t : On(board, t, s) /\ board' = [board EXCEPT !.hand[s] = t]
  BY DeskIsOn DEF Checkout
<1>4. Good(board', parted) /\ board'.seats = board.seats /\ board'.hired = board.hired
  BY <1>2, <1>3, CheckoutKeeps
<1> QED  BY <1>1, <1>2, <1>4, FreeKeeps

LEMMA AskIsAsking ==
  ASSUME NEW k \in {"accepted", "rejected", "conflict"}, NEW t \in Ids
  PROVE  /\ Ask(k, t) \in Asking /\ Ask(k, t).ticket = t /\ Ask(k, t).kind = k
         /\ Ask(k, t).kind = "nothing" <=> Ask(k, t).ticket = NoId
BY Sizes DEF Ask, Asking

LEMMA SubmitAcceptedKeeps ==
  ASSUME DesksInv, NEW s, SubmitAccepted(s)
  PROVE  Kept /\ Calm
<1> DEFINE t == board.hand[s]
           q == Ask("accepted", t)
<1>1. /\ Acts(s, "nothing") /\ phase' = phase /\ t \in Open(board) /\ IsReady(board, t)
      /\ board' = Asked(board, s, q)
  BY DEF SubmitAccepted, Submits, InHand, Asked
<1>2. Good(board, parted) /\ s \in board.seats /\ phase = "play" /\ board.asked[s].kind = "nothing"
  BY <1>1, ActsFacts
<1>3. t \in Ids /\ (~parted => On(board, t, s)) /\ Clear(board, t)
  BY <1>1, <1>2, OwnWork, ReadyIsClear
<1>4. q \in Asking /\ q.ticket = t /\ (q.kind = "nothing" <=> q.ticket = NoId)
  BY <1>3, AskIsAsking
<1> HIDE DEF t, q
<1>5. Good(board', parted) /\ board'.seats = board.seats /\ board'.hired = board.hired
  BY <1>1, <1>2, <1>3, <1>4, AskedKeeps
<1> QED  BY <1>1, <1>2, <1>5, FreeKeeps

LEMMA SubmitRefusedKeeps ==
  ASSUME DesksInv, NEW s, SubmitRefused(s)
  PROVE  Kept /\ Calm
<1> DEFINE t == board.hand[s]
           q == Ask("rejected", t)
           flagged == [board EXCEPT !.tickets[t].done = FALSE]
           u == Min(Backlog(board))
           extra == IF Backlog(board) = {} THEN flagged ELSE Forced(flagged, u)
<1>1. /\ Acts(s, "nothing") /\ t \in Open(board) /\ IsReady(board, t)
      /\ \/ phase' = "over" /\ board' = flagged
         \/ phase' = "play" /\ board' = Asked(extra, s, q)
  BY DEF SubmitRefused, Submits, InHand, Asked
<1>2. Good(board, parted) /\ s \in board.seats /\ phase = "play" /\ board.asked[s].kind = "nothing"
  BY <1>1, ActsFacts
<1>3. t \in Ids /\ (~parted => On(board, t, s)) /\ Clear(board, t) /\ IsOpen(board, t)
  BY <1>1, <1>2, OwnWork, ReadyIsClear
<1>4. q \in Asking /\ q.ticket = t /\ (q.kind = "nothing" <=> q.ticket = NoId)
  BY <1>3, AskIsAsking
<1>5. flagged = Pointed(board, t, FALSE)
  BY DEF Pointed
<1> HIDE DEF t, q, flagged
<1>6. /\ Good(flagged, parted) /\ flagged.seats = board.seats /\ flagged.hired = board.hired
      /\ \A v \in Ids : Alike(board.tickets[v], flagged.tickets[v])
  <2>1. \E v \in BOOLEAN : flagged = Pointed(board, t, v)
    BY <1>5
  <2> QED  BY <1>2, <1>3, <2>1, DoneKeeps
<1>7. IsOpen(flagged, t) /\ Clear(flagged, t) /\ (~parted => On(flagged, t, s))
  BY <1>3, <1>6 DEF Alike, IsOpen, Clear, On, Holder
<1>8. /\ Good(extra, parted) /\ extra.seats = board.seats /\ extra.hired = board.hired
      /\ Clear(extra, t) /\ (~parted => On(extra, t, s))
  <2>1. CASE Backlog(board) = {}
    BY <1>6, <1>7, <2>1
  <2>2. CASE Backlog(board) # {}
    <3>1. u \in Ids /\ flagged.tickets[u].status = "backlog"
      <4>1. Backlog(board) \in SUBSET Nat
        BY Sizes DEF Backlog
      <4>2. u \in Backlog(board)
        BY <2>2, <4>1, LeastIsMin
      <4> QED  BY <1>6, <4>2 DEF Backlog, Alike
    <3>2. extra = Forced(flagged, u)
      BY <2>2
    <3> HIDE DEF u, extra
    <3>3. /\ Good(extra, parted) /\ extra.seats = flagged.seats /\ extra.hired = flagged.hired
          /\ extra.tickets[u].parent = NoId
          /\ \A v \in Ids \ {u} : extra.tickets[v] = flagged.tickets[v]
      BY <1>2, <1>6, <3>1, <3>2, ForcedKeeps
    <3>4. t # u /\ t # NoId
      BY <1>3, <1>7, <3>1, Sizes DEF IsOpen
    <3>5. Clear(extra, t)
      BY <1>7, <3>3, <3>4 DEF Clear, IsOpen
    <3>6. ~parted => On(extra, t, s)
      BY <1>3, <1>7, <3>3, <3>4 DEF On, IsOpen, Holder
    <3> QED  BY <1>6, <3>3, <3>5, <3>6
  <2> QED  BY <2>1, <2>2
<1> HIDE DEF extra
<1>9. /\ Good(board', parted) /\ board'.seats = board.seats /\ board'.hired = board.hired
      /\ phase' \in {"play", "over"}
  <2>1. CASE board' = flagged /\ phase' = "over"
    BY <1>6, <2>1
  <2>2. CASE board' = Asked(extra, s, q) /\ phase' = "play"
    BY <1>2, <1>4, <1>8, <2>2, AskedKeeps
  <2> QED  BY <1>1, <2>1, <2>2
<1> QED  BY <1>1, <1>9, FreeKeeps

LEMMA FollowupKeeps ==
  ASSUME DesksInv, NEW s, Followup(s)
  PROVE  Kept /\ Calm
<1> DEFINE t == board.asked[s].ticket
           q == Ask("accepted", t)
<1>1. Acts(s, "rejected") /\ phase' = phase
  BY DEF Followup
<1>2. Good(board, parted) /\ s \in board.seats /\ phase = "play" /\ board.asked[s].kind = "rejected"
  BY <1>1, ActsFacts
<1>3. PICK ids \in NextIds(board) :
        board' = Asked(Arrived(board, [u \in ids |-> "bug"]), s, q)
  BY DEF Followup, Asked
<1> DEFINE d == Arrived(board, [u \in ids |-> "bug"])
<1>4. /\ Good(d, parted) /\ d.seats = board.seats /\ d.hired = board.hired
      /\ d.asked = board.asked
  <2> DEFINE kinds == [u \in ids |-> "bug"]
  <2>1. DOMAIN kinds \subseteq Unused(board) /\ \A u \in DOMAIN kinds : kinds[u] \in Kinds
    BY DEF NextIds, Kinds
  <2> HIDE DEF kinds
  <2>2. /\ Good(Arrived(board, kinds), parted) /\ Arrived(board, kinds).seats = board.seats
        /\ Arrived(board, kinds).hired = board.hired /\ Arrived(board, kinds).asked = board.asked
    BY <1>2, <2>1, ArrivedKeeps
  <2> QED  BY <2>2 DEF kinds
<1> HIDE DEF d
<1>5. /\ t \in Ids /\ (~parted => On(d, t, s) /\ Clear(d, t))
  BY <1>2, <1>4, OwnQuestion
<1>6. q \in Asking /\ q.ticket = t /\ (q.kind = "nothing" <=> q.ticket = NoId)
  BY <1>5, AskIsAsking
<1> HIDE DEF t, q
<1>7. Good(board', parted) /\ board'.seats = board.seats /\ board'.hired = board.hired
  BY <1>2, <1>3, <1>4, <1>5, <1>6, AskedKeeps DEF d
<1> QED  BY <1>1, <1>2, <1>7, FreeKeeps

\* An incident is work for somebody, and perhaps the end.
LEMMA IncidentKeeps ==
  ASSUME NEW b, NEW p, Good(b, p), b.seats # {}, Incident(b)
  PROVE  /\ Good(board', p) /\ board'.seats = b.seats /\ board'.hired = b.hired
         /\ phase = "play" => phase' \in {"play", "event", "over"}
         /\ phase # "play" => phase' \in {phase, "over"}
<1>1. Unused(b) # {} /\ board' = WithForced(b)
  BY DEF Incident
<1>2. Good(board', p) /\ board'.seats = b.seats /\ board'.hired = b.hired
  BY <1>1, WithForcedKeeps
<1> QED  BY <1>2 DEF Incident

LEMMA HireStep ==
  ASSUME DesksInv, NEW s, Hire(s)
  PROVE  Kept /\ Calm
<1>1. Acts(s, "nothing") /\ phase' = phase /\ board' = [board EXCEPT !.hired = TRUE]
  BY DEF Hire
<1>2. Good(board, parted) /\ phase = "play"
  BY <1>1, ActsFacts
<1>3. Good(board', parted) /\ board'.seats = board.seats /\ board'.hired
  BY <1>1, <1>2, HireKeeps
<1> QED  BY <1>1, <1>2, <1>3, FreeKeeps

LEMMA AcquireKeeps ==
  ASSUME DesksInv, NEW s, Acquire(s)
  PROVE  Kept /\ Calm
<1> DEFINE bought == [board EXCEPT !.hired = TRUE]
<1>1. /\ Acts(s, "nothing")
      /\ (board' = bought /\ phase' = phase) \/ Incident(bought)
  BY DEF Acquire
<1>2. Good(board, parted) /\ phase = "play" /\ board.seats # {}
  BY <1>1, ActsFacts
<1>3. Good(bought, parted) /\ bought.seats = board.seats /\ bought.hired
  BY <1>2, HireKeeps
<1> HIDE DEF bought
<1>4. CASE board' = bought /\ phase' = phase
  BY <1>1, <1>2, <1>3, <1>4, FreeKeeps
<1>5. CASE Incident(bought)
  <2>1. /\ Good(board', parted) /\ board'.seats = board.seats /\ board'.hired
        /\ phase' \in {"play", "event", "over"}
    BY <1>2, <1>3, <1>5, IncidentKeeps
  <2> QED  BY <1>1, <2>1, FreeKeeps
<1> QED  BY <1>1, <1>4, <1>5

LEMMA AnswersFacts ==
  ASSUME DesksInv, NEW question, Answers(question)
  PROVE  /\ Good(board, parted) /\ board.seats # {} /\ Idle /\ SameRound /\ next' = next
         /\ parted \in BOOLEAN /\ phase = question
BY DEF DesksInv, RoundOK, Answers

LEMMA AnswerEventKeeps ==
  ASSUME DesksInv, AnswerEvent
  PROVE  Kept /\ Calm
<1>1. /\ Answers("event") /\ phase' \in {"play", "over"}
      /\ parted' = (parted \/ Split(board'))
  BY DEF AnswerEvent, Parts
<1>2. /\ Good(board, parted) /\ board.seats # {} /\ Idle /\ SameRound /\ next' = next
      /\ parted \in BOOLEAN
  BY <1>1, AnswersFacts
<1>3. /\ Half(board, parted) /\ Balanced(board, board) /\ board \in Board
      /\ board.seats \in SUBSET Seats
  BY <1>2, GoodIsHalf
<1>4. /\ Half(board', parted) /\ board'.seats = board.seats
      /\ board'.hired = board.hired \/ Balanced(board, board')
  <2>1. CASE board' = board
    BY <1>3, <2>1
  <2>2. CASE Unused(board) # {} /\ board' = Arrived(board, OneOf(board, "bug"))
    <3>1. "bug" \in Kinds
      BY DEF Kinds
    <3>2. Good(board', parted) /\ board'.seats = board.seats /\ board'.hired = board.hired
      BY <1>2, <2>2, <3>1, OneArrives
    <3> QED  BY <3>2 DEF Good, Half
  <2>3. CASE /\ Unused(board) # {}
             /\ board' = Given(Arrived(board, OneOf(board, "vip")), Min(Unused(board)), LeadSeat(board))
    <3> DEFINE d == Arrived(board, OneOf(board, "vip"))
               t == Min(Unused(board))
               s == LeadSeat(board)
    <3>1. "vip" \in Kinds
      BY DEF Kinds
    <3>2. /\ Good(d, parted) /\ d.seats = board.seats /\ d.hired = board.hired
          /\ t \in Ids /\ d.tickets[t].status = "backlog"
      BY <1>2, <2>3, <3>1, OneArrives
    <3>3. s \in board.seats
      BY <1>2, <1>3, Lead
    <3>4. board' = Given(d, t, s)
      BY <2>3
    <3> HIDE DEF d, t, s
    <3>5. Good(board', parted) /\ board'.seats = d.seats /\ board'.hired = d.hired
      BY <3>2, <3>3, <3>4, GivenKeeps
    <3> QED  BY <3>2, <3>5 DEF Good, Half
  <2>4. CASE board.hired /\ board' = Released(board)
    BY <1>2, <1>3, <2>4, ReleasedKeeps
  <2> QED  BY <2>1, <2>2, <2>3, <2>4 DEF AnswerEvent
<1>5. Good(board', parted') /\ parted' \in BOOLEAN
  BY <1>1, <1>2, <1>4, Parting
<1>6. Calm
  BY <1>2, <1>4 DEF Calm
<1>7. RoundOK'
  BY <1>1, <1>5, <1>6, CalmKeeps
<1>8. Spread
  BY <1>4 DEF Spread
<1> QED  BY <1>5, <1>6, <1>7, <1>8 DEF Kept

LEMMA BonusesKeep ==
  ASSUME NEW b \in Bonuses, DesksInv
  PROVE  Good(b, parted) /\ b.seats = board.seats /\ (board.hired => b.hired)
<1>1. Good(board, parted)
  BY DEF DesksInv
<1>2. CASE b = board
  BY <1>1, <1>2
<1>3. CASE b = [board EXCEPT !.hired = TRUE]
  BY <1>1, <1>3, HireKeeps
<1>4. CASE b = Cancelled(board, Backlog(board))
  BY <1>1, <1>4, CancelledKeeps
<1>5. CASE Unused(board) # {} /\ b = Arrived(board, OneOf(board, "vip"))
  <2>1. "vip" \in Kinds
    BY DEF Kinds
  <2> QED  BY <1>1, <1>5, <2>1, OneArrives
<1> QED  BY <1>2, <1>3, <1>4, <1>5 DEF Bonuses

LEMMA OpenSprintKeeps ==
  ASSUME NEW b, NEW p, Good(b, p), b.seats # {}, OpenSprint(b)
  PROVE  Good(board', p) /\ board'.seats = b.seats /\ board'.hired = b.hired
<1>1. PICK gone \in SUBSET {t \in Backlog(b) : b.tickets[t].kind \in {"feature", "vip"}},
           old \in Ids \cup {NoId} :
        LET staffed == Pulled(Cancelled(b, gone))
            stale == {t \in Backlog(staffed) :
                        t <= old /\ staffed.tickets[t].kind \in ForcedWhenStale}
        IN board' \in Arrivals(ForcedAll(staffed, stale))
  BY DEF OpenSprint
<1> DEFINE c == Cancelled(b, gone)
           staffed == Pulled(c)
           stale == {t \in Backlog(staffed) :
                       t <= old /\ staffed.tickets[t].kind \in ForcedWhenStale}
           d == ForcedAll(staffed, stale)
<1>2. Good(c, p) /\ c.seats = b.seats /\ c.hired = b.hired
  BY CancelledKeeps
<1>3. stale \in SUBSET Backlog(staffed) /\ board' \in Arrivals(d)
  BY <1>1
<1> HIDE DEF stale, c
<1>4. Good(staffed, p) /\ staffed.seats = b.seats /\ staffed.hired = b.hired
  BY <1>2, PulledKeeps
<1> HIDE DEF staffed
<1>5. Good(d, p) /\ d.seats = b.seats /\ d.hired = b.hired
  BY <1>3, <1>4, ForcedAllKeeps
<1> HIDE DEF d
<1> QED  BY <1>3, <1>5, ArrivalsKeep

LEMMA ChooseRelicKeeps ==
  ASSUME DesksInv, ChooseRelic
  PROVE  Kept /\ Calm
<1>1. /\ Answers("relic") /\ phase' \in {"play", "event", "over"} /\ parted' = parted
  BY DEF ChooseRelic
<1>2. /\ Good(board, parted) /\ board.seats # {} /\ Idle /\ SameRound /\ next' = next
      /\ parted \in BOOLEAN
  BY <1>1, AnswersFacts
<1>3. PICK b \in Bonuses : OpenSprint(b)
  BY DEF ChooseRelic
<1>4. Good(b, parted) /\ b.seats = board.seats /\ (board.hired => b.hired)
  BY BonusesKeep
<1>5. Good(board', parted) /\ board'.seats = board.seats /\ (board.hired => board'.hired)
  BY <1>2, <1>3, <1>4, OpenSprintKeeps
<1>6. Calm
  BY <1>2, <1>5 DEF Calm
<1>7. RoundOK'
  BY <1>1, <1>2, <1>5, <1>6, CalmKeeps
<1>8. Spread
  BY <1>5 DEF Spread
<1> QED  BY <1>1, <1>5, <1>6, <1>7, <1>8 DEF Kept

LEMMA JoinCrewKeeps ==
  ASSUME DesksInv, JoinCrew
  PROVE  Kept /\ board'.seats = board.seats \cup {next}
<1>1. /\ Good(board, parted) /\ RoundOK /\ Idle /\ phase # "over" /\ next < MaxSeats
      /\ board' = [board EXCEPT !.seats = @ \cup {next}] /\ next' = next + 1
      /\ SameRound /\ phase' = phase /\ parted' = parted
  BY DEF DesksInv, JoinCrew
<1>2. board.seats # {} /\ next \in Seats /\ next \in Nat /\ next' \in 0..MaxSeats
  <2>1. board.seats # {} /\ next \in 0..MaxSeats
    BY <1>1 DEF RoundOK
  <2> QED  BY <1>1, <2>1, Sizes DEF Seats
<1>3. Good(board', parted) /\ board'.seats = board.seats \cup {next}
  <2>1. CASE next \notin board.seats
    BY <1>1, <1>2, <2>1, JoinKeeps
  <2>2. CASE next \in board.seats
    <3>1. board \in Board /\ board.seats \cup {next} = board.seats
      BY <1>1, <2>2 DEF Good, Sound
    <3>2. board' = board
      BY <1>1, <3>1 DEF Board
    <3> QED  BY <1>1, <3>1, <3>2
  <2> QED  BY <2>1, <2>2
<1>4. RoundOK'
  <2>1. todo' = {} /\ burnt' = {} /\ at' = "idle" /\ queue' \subseteq Ids /\ parted' \in BOOLEAN
    BY <1>1 DEF RoundOK, Idle, SameRound
  <2>2. board'.seats # {}
    BY <1>3
  <2>3. next' \in 0..MaxSeats
    BY <1>2
  <2>4. phase' \in {"play", "event", "relic", "over"}
    BY <1>1 DEF RoundOK
  <2> QED  BY <2>1, <2>2, <2>3, <2>4 DEF RoundOK
<1>5. Spread
  <2>1. CASE next \in board.seats
    <3>1. board' = board
      <4>1. board \in Board /\ board.seats \cup {next} = board.seats
        BY <1>1, <2>1 DEF Good, Sound
      <4> QED  BY <1>1, <4>1 DEF Board
    <3> QED  BY <3>1 DEF Spread
  <2>2. CASE next \notin board.seats
    BY <1>3, <2>2 DEF Spread
  <2> QED  BY <2>1, <2>2
<1> QED  BY <1>1, <1>3, <1>4, <1>5 DEF Kept

LEMMA LeaveCrewKeeps ==
  ASSUME DesksInv, LeaveCrew
  PROVE  Kept /\ \E s \in board.seats : board'.seats = board.seats \ {s}
<1>1. PICK s \in board.seats : board' = Departed(board, s)
  BY DEF LeaveCrew
<1>2. /\ Good(board, parted) /\ RoundOK /\ Idle /\ SameRound /\ next' = next
      /\ phase' = (IF board'.seats = {} THEN "over" ELSE phase)
      /\ parted' = (parted \/ Split(board')) /\ parted \in BOOLEAN
  BY DEF DesksInv, LeaveCrew, Parts, RoundOK
<1>3. Half(board, parted) /\ Balanced(board, board)
  BY <1>2, GoodIsHalf
<1>4. /\ Half(board', parted) /\ Balanced(board, board') /\ board'.seats = board.seats \ {s}
      /\ board'.hired = board.hired
  BY <1>1, <1>3, DepartedKeeps
<1>5. Good(board', parted') /\ parted' \in BOOLEAN
  BY <1>2, <1>4, Parting
<1>6. RoundOK'
  <2>1. todo' = {} /\ burnt' = {} /\ at' = "idle" /\ queue' \subseteq Ids
    BY <1>2 DEF RoundOK, Idle, SameRound
  <2>2. next' \in 0..MaxSeats /\ phase' \in {"play", "event", "relic", "over"}
    BY <1>2 DEF RoundOK
  <2> QED  BY <1>2, <1>5, <2>1, <2>2 DEF RoundOK
<1>7. Spread
  BY <1>4 DEF Spread
<1> QED  BY <1>4, <1>5, <1>6, <1>7 DEF Kept

-----------------------------------------------------------------------------
(* The seats play *)

\* What a part of a round shows of itself: nothing until the round is over.
Hidden ==
  /\ next' = next
  /\ at # "idle" \/ phase = "play"
  /\ at' # "idle" => board'.seats \cup burnt' = board.seats \cup burnt
  /\ at' = "idle" => burnt' = {} /\ board'.seats \subseteq board.seats \cup burnt

LEMMA TurnFacts ==
  ASSUME DesksInv, NEW s, Turn(s)
  PROVE  /\ Good(board, parted) /\ s \in board.seats /\ board.seats # {} /\ burnt = {}
         /\ Waiting \subseteq board.seats /\ at \in {"idle", "round"} /\ parted \in BOOLEAN
         /\ at # "idle" \/ phase = "play"
BY DEF DesksInv, RoundOK, Turn, InRound, Idle, Waiting

LEMMA PlayedKeeps ==
  ASSUME DesksInv, NEW s, Turn(s), Played(s), Good(board', parted),
         board'.seats = board.seats, board'.hired = board.hired,
         phase' \in {"play", "event", "relic", "over"}
  PROVE  Kept /\ Hidden
<1>1. /\ Good(board, parted) /\ board.seats # {} /\ burnt = {}
      /\ Waiting \subseteq board.seats /\ at \in {"idle", "round"} /\ parted \in BOOLEAN
      /\ at # "idle" \/ phase = "play"
  BY TurnFacts
<1>2. /\ at' = (IF phase' = "over" THEN "idle" ELSE "round")
      /\ todo' = (IF phase' = "over" THEN {} ELSE {r \in Waiting : r > s})
      /\ next' = next /\ queue' = queue /\ burnt' = burnt /\ parted' = parted
  BY DEF Played
<1>3. RoundOK'
  <2>1. next \in 0..MaxSeats /\ queue \subseteq Ids
    BY DEF DesksInv, RoundOK
  <2>2. todo' \subseteq board'.seats /\ (at' # "round" => todo' = {})
    BY <1>1, <1>2
  <2> QED  BY <1>1, <1>2, <2>1, <2>2 DEF RoundOK
<1>4. Spread
  BY DEF Spread
<1>5. Hidden
  BY <1>1, <1>2 DEF Hidden
<1> QED  BY <1>2, <1>3, <1>4, <1>5 DEF Kept

LEMMA ThrowsKeeps ==
  ASSUME DesksInv, NEW s, Turn(s), Throws, parted
  PROVE  Kept /\ Hidden
<1>1. /\ Good(board, parted) /\ board.seats # {} /\ burnt = {}
      /\ at \in {"idle", "round"} /\ parted \in BOOLEAN
      /\ at # "idle" \/ phase = "play"
  BY TurnFacts
<1>2. /\ at' = "thrown" /\ board' = board /\ next' = next /\ phase' = phase /\ todo' = todo
      /\ queue' = queue /\ burnt' = burnt /\ parted' = parted
  BY DEF Throws
<1>3. RoundOK'
  BY <1>1, <1>2 DEF DesksInv, RoundOK
<1> QED  BY <1>1, <1>2, <1>3 DEF Kept, Hidden, Spread

LEMMA RunEndsKeeps ==
  ASSUME DesksInv, RunEnds
  PROVE  Kept /\ Hidden
<1>1. /\ InRound /\ phase' = "over" /\ at' = "idle" /\ todo' = {}
      /\ board' = board /\ next' = next /\ queue' = queue /\ burnt' = burnt /\ parted' = parted
  BY DEF RunEnds
<1>2. Good(board, parted) /\ burnt = {} /\ (at # "idle" \/ phase = "play")
  BY <1>1 DEF DesksInv, RoundOK, InRound, Idle
<1>3. RoundOK'
  BY <1>1, <1>2 DEF DesksInv, RoundOK
<1> QED  BY <1>1, <1>2, <1>3 DEF Kept, Hidden, Spread

LEMMA CommitStep ==
  ASSUME DesksInv, NEW s, Commit(s)
  PROVE  Kept /\ Hidden
<1> DEFINE t == board.hand[s]
<1>1. /\ Turn(s) /\ board.asked[s].kind = "nothing" /\ t \in Open(board) /\ phase = "play"
      /\ board' \in WrittenOrSpawned(board, t) /\ phase' = phase /\ Played(s)
  BY DEF Commit, IsAsked, InHand, Acted
<1>2. Good(board, parted) /\ s \in board.seats
  BY <1>1, TurnFacts
<1>3. /\ t \in Ids /\ IsOpen(board, t)
      /\ ~parted => \A r \in board.seats : board.asked[r].ticket # t
  BY <1>1, <1>2, OwnWork
<1> HIDE DEF t
<1>4. Good(board', parted) /\ board'.seats = board.seats /\ board'.hired = board.hired
  BY <1>1, <1>2, <1>3, CommitKeeps
<1> QED  BY <1>1, <1>4, PlayedKeeps

\* A ticket sent back is in the hands of its seat, or a departure has parted them.
LEMMA ResumeKeeps ==
  ASSUME DesksInv, NEW s, Resume(s)
  PROVE  Kept /\ Hidden
<1>1. Turn(s) /\ board.asked[s].kind = "rejected" /\ phase = "play"
  BY DEF Resume, IsAsked
<1>2. Good(board, parted) /\ s \in board.seats /\ parted \in BOOLEAN
  BY <1>1, TurnFacts
<1>3. CASE InHand(s)
  <2> DEFINE t == board.hand[s]
             d == Asked(board, s, Nothing)
  <2>1. board' \in Written(d, t) /\ phase' = phase /\ Played(s) /\ t \in Ids
    BY <1>3 DEF Resume, Asked, Acted, InHand, Open
  <2>2. Good(d, parted) /\ d.seats = board.seats /\ d.hired = board.hired
    BY <1>2, AskedKeeps, NothingFacts
  <2> HIDE DEF d, t
  <2>3. Good(board', parted) /\ board'.seats = board.seats /\ board'.hired = board.hired
    BY <2>1, <2>2, WrittenKeeps
  <2> QED  BY <1>1, <2>1, <2>3, PlayedKeeps
<1>4. CASE ~InHand(s)
  <2>1. Throws
    BY <1>4 DEF Resume
  <2>2. ASSUME ~parted PROVE FALSE
    <3>1. On(board, board.asked[s].ticket, s) /\ board.asked[s].ticket \in Ids
      BY <1>1, <1>2, <2>2, OwnQuestion
    <3>2. HandOK(board, s)
      BY <1>2, <2>2 DEF Good, Handy
    <3>3. On(board, board.hand[s], s)
      BY <3>1, <3>2 DEF HandOK
    <3> QED  BY <1>4, <3>3 DEF On, IsOpen, InHand, Open
  <2> QED  BY <1>1, <1>2, <2>1, <2>2, ThrowsKeeps
<1> QED  BY <1>3, <1>4

\* So does an obstacle have its ticket to land in.
LEMMA MergeObstacleKeeps ==
  ASSUME DesksInv, NEW s, MergeObstacle(s)
  PROVE  Kept /\ Hidden
<1> DEFINE o == board.hand[s]
<1>1. /\ Turn(s) /\ board.asked[s].kind = "nothing" /\ o \in Open(board) /\ phase = "play"
      /\ board.tickets[o].parent # NoId /\ IsReady(board, o)
      /\ IF HasWhereToLand(board, o)
         THEN board' = ObstacleLanded(board, o) /\ phase' = phase /\ Played(s)
         ELSE Throws
  BY DEF MergeObstacle, IsAsked, InHand, Acted
<1>2. Good(board, parted) /\ s \in board.seats /\ parted \in BOOLEAN
  BY <1>1, TurnFacts
<1>3. /\ o \in Ids /\ IsOpen(board, o)
      /\ ~parted => \A r \in board.seats : board.asked[r].ticket # o
  BY <1>1, <1>2, OwnWork
<1>4. Clear(board, o)
  BY <1>1, ReadyIsClear
<1> HIDE DEF o
<1>5. CASE HasWhereToLand(board, o)
  <2>1. Good(board', parted) /\ board'.seats = board.seats /\ board'.hired = board.hired
    BY <1>1, <1>2, <1>3, <1>4, <1>5, ObstacleLandedKeeps
  <2> QED  BY <1>1, <1>5, <2>1, PlayedKeeps
<1>6. CASE ~HasWhereToLand(board, o)
  <2>1. ASSUME ~parted PROVE FALSE
    <3>1. IsOpen(board, board.tickets[o].parent)
      BY <1>1, <1>2, <1>3, <2>1 DEF Good, Handy
    <3>2. board.tickets[o].parent \in Ids
      BY <1>1, <1>2, <1>3, TicketFields DEF Good, Sound
    <3> QED  BY <1>6, <3>1, <3>2 DEF HasWhereToLand, Open, IsOpen
  <2> QED  BY <1>1, <1>2, <1>6, <2>1, ThrowsKeeps
<1> QED  BY <1>5, <1>6

LEMMA MergeKeeps ==
  ASSUME DesksInv, NEW s, Merge(s)
  PROVE  Kept /\ Hidden
<1> DEFINE t == board.asked[s].ticket
           q == Ask("conflict", t)
<1>1. /\ Turn(s) /\ board.asked[s].kind # "nothing" /\ phase = "play"
      /\ board' \in LandedFor(board, s) \/ board' = Asked(board, s, q)
      /\ phase' = phase /\ Played(s)
  BY DEF Merge, IsAsked, Acted, Asked
<1>2. Good(board, parted) /\ s \in board.seats
  BY <1>1, TurnFacts
<1>3. /\ t # NoId /\ t \in Ids /\ (~parted => On(board, t, s) /\ Clear(board, t))
  BY <1>1, <1>2, OwnQuestion
<1>4. q \in Asking /\ q.ticket = t /\ (q.kind = "nothing" <=> q.ticket = NoId)
  BY <1>3, AskIsAsking
<1>5. Good(board', parted) /\ board'.seats = board.seats /\ board'.hired = board.hired
  <2>1. CASE board' \in LandedFor(board, s)
    BY <1>2, <1>3, <2>1, LandedForKeeps
  <2>2. CASE board' = Asked(board, s, q)
    <3> HIDE DEF t, q
    <3> QED  BY <1>2, <1>3, <1>4, <2>2, AskedKeeps
  <2> QED  BY <1>1, <2>1, <2>2
<1> QED  BY <1>1, <1>5, PlayedKeeps

LEMMA ResolveConflictKeeps ==
  ASSUME DesksInv, NEW s, ResolveConflict(s)
  PROVE  Kept /\ Hidden
<1>1. /\ Turn(s) /\ board.asked[s].kind # "nothing" /\ phase = "play"
      /\ board' \in LandedFor(board, s) /\ phase' = phase /\ Played(s)
  BY DEF ResolveConflict, IsAsked, Acted
<1>2. Good(board, parted) /\ s \in board.seats
  BY <1>1, TurnFacts
<1>3. board.asked[s].ticket # NoId
  BY <1>1, <1>2, OwnQuestion
<1>4. Good(board', parted) /\ board'.seats = board.seats /\ board'.hired = board.hired
  BY <1>1, <1>2, <1>3, LandedForKeeps
<1> QED  BY <1>1, <1>4, PlayedKeeps

LEMMA HackBreaksKeeps ==
  ASSUME DesksInv, NEW s, HackBreaks(s)
  PROVE  Kept /\ Hidden
<1>1. Turn(s) /\ phase = "play" /\ Incident(board) /\ Played(s)
  BY DEF HackBreaks, IsAsked
<1>2. Good(board, parted) /\ board.seats # {}
  BY <1>1, TurnFacts
<1>3. /\ Good(board', parted) /\ board'.seats = board.seats /\ board'.hired = board.hired
      /\ phase' \in {"play", "event", "over"}
  BY <1>1, <1>2, IncidentKeeps
<1> QED  BY <1>1, <1>3, PlayedKeeps

-----------------------------------------------------------------------------
(* The end of the turn *)

LEMMA SeatsArePlayedKeeps ==
  ASSUME DesksInv, SeatsArePlayed
  PROVE  Kept /\ Hidden
<1>1. /\ InRound /\ queue' = Team(board') /\ at' = "team" /\ todo' = {}
      /\ next' = next /\ phase' = phase /\ burnt' = burnt /\ parted' = parted
  BY DEF SeatsArePlayed
<1>2. PICK b : /\ b = board \/ (Unused(board) # {} /\ b = WithForced(board))
               /\ board' = Pulled(b)
  BY DEF SeatsArePlayed
<1>3. /\ Good(board, parted) /\ burnt = {} /\ board.seats # {} /\ (at # "idle" \/ phase = "play")
      /\ next \in 0..MaxSeats /\ phase \in {"play", "event", "relic", "over"} /\ parted \in BOOLEAN
  BY <1>1 DEF DesksInv, RoundOK, InRound, Idle
<1>4. Good(b, parted) /\ b.seats = board.seats /\ b.hired = board.hired
  BY <1>2, <1>3, WithForcedKeeps
<1>5. Good(board', parted) /\ board'.seats = board.seats /\ board'.hired = board.hired
  BY <1>2, <1>4, PulledKeeps
<1>6. RoundOK'
  <2>1. queue' \subseteq Ids
    BY <1>1 DEF Team, Open
  <2> QED  BY <1>1, <1>3, <1>5, <2>1 DEF RoundOK
<1>7. Spread
  BY <1>5 DEF Spread
<1> QED  BY <1>1, <1>3, <1>5, <1>6, <1>7 DEF Kept, Hidden

LEMMA TeamWorksKeeps ==
  ASSUME DesksInv, TeamWorks
  PROVE  Kept /\ Hidden
<1>1. /\ at = "team" /\ next' = next /\ phase' = phase /\ at' = at /\ todo' = todo
      /\ burnt' = burnt /\ parted' = parted
  BY DEF TeamWorks
<1>2. PICK t \in queue :
        /\ queue' = queue \ {t}
        /\ \E b \in IF board.tickets[t].done THEN {board} ELSE WrittenOrSpawned(board, t) :
             IF IsReady(b, t) THEN board' \in TeamLanded(b, t) ELSE board' = b
  BY DEF TeamWorks
<1>3. PICK b : /\ b = board \/ b \in WrittenOrSpawned(board, t)
               /\ IF IsReady(b, t) THEN board' \in TeamLanded(b, t) ELSE board' = b
  <2>1. PICK b \in IF board.tickets[t].done THEN {board} ELSE WrittenOrSpawned(board, t) :
          IF IsReady(b, t) THEN board' \in TeamLanded(b, t) ELSE board' = b
    BY <1>2
  <2>2. b = board \/ b \in WrittenOrSpawned(board, t)
    BY <2>1
  <2> QED  BY <2>1, <2>2
<1>4. /\ Good(board, parted) /\ RoundOK /\ board.seats # {} /\ queue \subseteq Team(board)
      /\ parted \in BOOLEAN /\ burnt = {} /\ todo = {}
  BY <1>1 DEF DesksInv, RoundOK
<1>5. \A u \in queue : u \in Ids /\ IsOpen(board, u) /\ board.tickets[u].team
  BY <1>4 DEF Team, Open, IsOpen
<1>6. ~parted => \A r \in board.seats : board.asked[r].ticket # t
  <2> SUFFICES ASSUME ~parted, NEW r \in board.seats, board.asked[r].ticket = t PROVE FALSE
    OBVIOUS
  <2>1. AskOK(board, r) /\ t # NoId
    BY <1>4, <1>5, Sizes DEF Good, Handy
  <2> QED  BY <1>5, <2>1 DEF AskOK, On
<1>7. /\ Good(b, parted) /\ b.seats = board.seats /\ b.hired = board.hired
      /\ \A u \in Ids : IsOpen(board, u) => IsOpen(b, u) /\ Alike(board.tickets[u], b.tickets[u])
  <2>1. CASE b = board
    BY <1>4, <2>1 DEF Alike
  <2>2. CASE b \in WrittenOrSpawned(board, t)
    BY <1>4, <1>5, <1>6, <2>2, CommitKeeps
  <2> QED  BY <1>3, <2>1, <2>2
<1>8. \A u \in queue : u \in Ids /\ IsOpen(b, u) /\ b.tickets[u].team
  BY <1>5, <1>7 DEF Alike
<1>9. /\ Good(board', parted) /\ board'.seats = board.seats /\ board'.hired = board.hired
      /\ \A u \in Ids \ {t} : Alike(b.tickets[u], board'.tickets[u])
  <2>1. CASE IsReady(b, t)
    <3>1. board' \in TeamLanded(b, t)
      BY <1>3, <2>1
    <3>2. t \in Ids /\ IsOpen(b, t) /\ b.tickets[t].team /\ b.seats # {}
      BY <1>4, <1>7, <1>8
    <3>3. /\ Good(board', parted) /\ board'.seats = b.seats /\ board'.hired = b.hired
          /\ \A u \in Ids \ {t} : Alike(b.tickets[u], board'.tickets[u])
      BY <1>7, <2>1, <3>1, <3>2, TeamLandedKeeps
    <3> QED  BY <1>7, <3>3
  <2>2. CASE ~IsReady(b, t)
    BY <1>3, <1>7, <2>2 DEF Alike
  <2> QED  BY <2>1, <2>2
<1>10. queue' \subseteq Team(board') /\ queue' \subseteq Ids
  <2>1. \A u \in queue' : u \in Ids \ {t} /\ IsOpen(b, u) /\ b.tickets[u].team
    BY <1>2, <1>8
  <2>2. \A u \in queue' : board'.tickets[u].status = "open" /\ board'.tickets[u].team
    BY <1>9, <2>1 DEF Alike, IsOpen
  <2> QED  BY <2>1, <2>2 DEF Team, Open
<1>11. RoundOK'
  BY <1>1, <1>4, <1>9, <1>10 DEF RoundOK
<1>12. Spread
  BY <1>9 DEF Spread
<1> QED  BY <1>1, <1>4, <1>9, <1>11, <1>12 DEF Kept, Hidden

\* Those who burn out go one after the other, and the turn is over.
LEMMA TurnEndsKeeps ==
  ASSUME DesksInv, NEW b, Half(b, parted), Balanced(board, b), b.seats = board.seats,
         at \in {"team", "ship"}, NEW p \in {"play", "event", "relic", "over"}, TurnEnds(b, p)
  PROVE  Kept /\ Hidden
<1>1. PICK gone \in SUBSET b.seats : board' = BurntOut(b, gone)
  BY DEF TurnEnds
<1>2. /\ phase' = (IF board'.seats = {} THEN "over" ELSE p)
      /\ at' = (IF phase' = "play" /\ BoardIsEmpty(board') THEN "shipEarly" ELSE "idle")
      /\ burnt' = (IF at' = "idle" THEN {} ELSE b.seats \ board'.seats)
      /\ parted' = (parted \/ Split(board'))
      /\ next' = next /\ todo' = todo /\ queue' = queue
  BY DEF TurnEnds, Parts
<1>3. /\ RoundOK /\ parted \in BOOLEAN /\ todo = {} /\ burnt = {} /\ b.seats \in SUBSET Seats
      /\ next \in 0..MaxSeats /\ queue \subseteq Ids
  BY GoodIsHalf DEF DesksInv, RoundOK
<1>4. /\ Half(board', parted) /\ Balanced(board, board') /\ board'.seats = b.seats \ gone
  BY <1>1, BurntOutKeeps
<1>5. Good(board', parted') /\ parted' \in BOOLEAN
  BY <1>2, <1>3, <1>4, Parting
<1>6. RoundOK'
  <2>1. at' \in {"idle", "shipEarly"} /\ phase' \in {"play", "event", "relic", "over"}
    BY <1>2
  <2>2. board'.seats = {} => phase' = "over" /\ at' = "idle"
    BY <1>2
  <2>3. burnt' \subseteq Seats \ board'.seats /\ (at' # "shipEarly" => burnt' = {})
    BY <1>2, <1>3, <2>1
  <2> QED  BY <1>2, <1>3, <1>5, <2>1, <2>2, <2>3 DEF RoundOK
<1>7. Spread
  BY <1>4 DEF Spread
<1>8. Hidden
  BY <1>2, <1>3, <1>4 DEF Hidden
<1> QED  BY <1>5, <1>6, <1>7, <1>8 DEF Kept

LEMMA MonthsKeep ==
  ASSUME NEW b, NEW p, Half(b, p), b.seats # {}, NEW c \in Months(b)
  PROVE  /\ Half(c, p) /\ Balanced(b, c) /\ c.seats = b.seats
<1>1. Balanced(b, b)
  BY DEF Balanced
<1>2. CASE c = b
  BY <1>1, <1>2
<1>3. CASE c = Released(b)
  BY <1>1, <1>3, ReleasedKeeps
<1> QED  BY <1>2, <1>3 DEF Months

LEMMA PaydayKeeps ==
  ASSUME DesksInv, Payday
  PROVE  Kept /\ Hidden
<1>1. at = "team" /\ board.seats # {} /\ phase \in {"play", "event", "relic", "over"}
  BY DEF Payday, TeamIsDone, DesksInv, RoundOK
<1>2. PICK b \in Months(board),
           p \in {phase, "over"} \cup IF phase = "play" THEN {"event"} ELSE {} : TurnEnds(b, p)
  BY DEF Payday
<1>3. p \in {"play", "event", "relic", "over"}
  BY <1>1, <1>2
<1>4. Half(board, parted)
  BY GoodIsHalf DEF DesksInv
<1>5. Half(b, parted) /\ Balanced(board, b) /\ b.seats = board.seats
  BY <1>1, <1>4, MonthsKeep
<1> QED  BY <1>1, <1>2, <1>3, <1>5, TurnEndsKeeps

LEMMA BoxGoesOnKeeps ==
  ASSUME DesksInv, BoxGoesOn
  PROVE  Kept /\ Hidden
<1>1. at = "team" /\ phase \in {"play", "event", "relic", "over"} /\ TurnEnds(board, phase)
  BY DEF BoxGoesOn, TeamIsDone, DesksInv, RoundOK
<1>2. Half(board, parted) /\ Balanced(board, board)
  BY GoodIsHalf DEF DesksInv
<1> QED  BY <1>1, <1>2, TurnEndsKeeps

LEMMA ShipStep ==
  ASSUME DesksInv, Ship
  PROVE  Kept /\ Hidden
<1>1. PICK p \in {"relic", "over"} : TurnEnds(board, p)
  BY DEF Ship
<1>2. Half(board, parted) /\ Balanced(board, board) /\ at = "ship"
  BY GoodIsHalf DEF DesksInv, Ship
<1>3. p \in {"play", "event", "relic", "over"}
  OBVIOUS
<1> QED  BY <1>1, <1>2, <1>3, TurnEndsKeeps

\* Nobody goes in the rest of the turn.
LEMMA GoesKeeps ==
  ASSUME DesksInv, at \in {"team", "ship", "shipEarly"},
         NEW to \in {"ship", "shipEarly", "idle"}, Goes(at, to), to \in {"idle", "shipEarly"} \/ burnt = {},
         Good(board', parted'), parted' \in BOOLEAN, board'.seats = board.seats, Spread,
         phase' \in {"play", "event", "relic", "over"}, queue' = queue
  PROVE  Kept /\ Hidden
<1>1. /\ at' = (IF phase' = "over" THEN "idle" ELSE to)
      /\ burnt' = (IF at' = "idle" THEN {} ELSE burnt) /\ next' = next /\ todo' = todo
  BY DEF Goes
<1>2. /\ next \in 0..MaxSeats /\ board.seats # {} /\ todo = {} /\ queue \subseteq Ids
      /\ burnt \subseteq Seats \ board.seats
  BY DEF DesksInv, RoundOK
<1>3. RoundOK'
  <2>1. at' \in {"idle", "ship", "shipEarly"} /\ (at' # "shipEarly" => burnt' = {})
    BY <1>1
  <2> QED  BY <1>1, <1>2, <2>1 DEF RoundOK
<1>4. Hidden
  BY <1>1 DEF Hidden
<1> QED  BY <1>3, <1>4 DEF Kept

LEMMA BoxEndsKeeps ==
  ASSUME DesksInv, BoxEnds
  PROVE  Kept /\ Hidden
<1>1. /\ at = "team" /\ Goes(at, "ship") /\ queue' = queue /\ parted' = parted
      /\ phase' \in {phase, "over"}
  BY DEF BoxEnds, TeamIsDone
<1>2. PICK gone \in SUBSET {t \in Backlog(board) : board.tickets[t].kind \in Dated} :
        board' = Cancelled(board, gone)
  BY DEF BoxEnds
<1>3. /\ Good(board, parted) /\ parted \in BOOLEAN /\ burnt = {}
      /\ phase \in {"play", "event", "relic", "over"}
  BY <1>1 DEF DesksInv, RoundOK
<1>4. gone \subseteq Backlog(board)
  BY <1>2
<1>5. Good(board', parted) /\ board'.seats = board.seats /\ board'.hired = board.hired
  BY <1>2, <1>3, <1>4, CancelledKeeps
<1>6. Spread
  BY <1>5 DEF Spread
<1> QED  BY <1>1, <1>3, <1>5, <1>6, GoesKeeps

LEMMA ShipBugsKeeps ==
  ASSUME DesksInv, ShipBugs
  PROVE  Kept /\ Hidden
<1>1. /\ at \in {"ship", "shipEarly"} /\ Incident(board) /\ queue' = queue /\ parted' = parted
      /\ Goes(at, at)
  BY DEF ShipBugs, Shipping
<1>2. /\ Good(board, parted) /\ parted \in BOOLEAN /\ board.seats # {}
      /\ at = "shipEarly" \/ burnt = {}
      /\ phase \in {"play", "event", "relic", "over"}
  BY <1>1 DEF DesksInv, RoundOK
<1>3. /\ Good(board', parted) /\ board'.seats = board.seats /\ board'.hired = board.hired
      /\ phase' \in {"play", "event", "relic", "over"}
  BY <1>1, <1>2, IncidentKeeps
<1>4. Spread
  BY <1>3 DEF Spread
<1> QED  BY <1>1, <1>2, <1>3, <1>4, GoesKeeps

LEMMA MonthsDueKeeps ==
  ASSUME DesksInv, MonthsDue
  PROVE  Kept /\ Hidden
<1>1. /\ at \in {"ship", "shipEarly"} /\ board' \in Months(board) /\ phase' \in {phase, "over"}
      /\ parted' = (parted \/ Split(board')) /\ queue' = queue /\ Goes(at, at)
  BY DEF MonthsDue, Shipping, Parts
<1>2. /\ parted \in BOOLEAN /\ board.seats # {} /\ (at = "shipEarly" \/ burnt = {})
      /\ phase \in {"play", "event", "relic", "over"}
  BY <1>1 DEF DesksInv, RoundOK
<1>3. Half(board, parted)
  BY GoodIsHalf DEF DesksInv
<1>4. Half(board', parted) /\ Balanced(board, board') /\ board'.seats = board.seats
  BY <1>1, <1>2, <1>3, MonthsKeep
<1>5. Good(board', parted') /\ parted' \in BOOLEAN
  BY <1>1, <1>2, <1>4, Parting
<1>6. Spread
  BY <1>4 DEF Spread
<1> QED  BY <1>1, <1>2, <1>4, <1>5, <1>6, GoesKeeps

LEMMA ShipEarlyKeeps ==
  ASSUME DesksInv, ShipEarly
  PROVE  Kept /\ Hidden
<1>1. /\ at = "shipEarly" /\ phase' \in {"relic", "over"} /\ board' = board /\ queue' = queue
      /\ parted' = parted /\ Goes(at, "idle")
  BY DEF ShipEarly, Goes
<1>2. Good(board', parted') /\ parted' \in BOOLEAN
  BY <1>1 DEF DesksInv, RoundOK
<1>3. Spread
  BY <1>1 DEF Spread
<1> QED  BY <1>1, <1>2, <1>3, GoesKeeps

-----------------------------------------------------------------------------
(* The run as a whole *)

Founded ==
  [tickets |-> [t \in Ids |-> NoTicket], seats |-> {SoloSeat}, hired |-> FALSE,
   hand |-> [s \in Seats |-> NoId], asked |-> [s \in Seats |-> Nothing]]

LEMMA FoundedFacts ==
  /\ Founded.seats = {SoloSeat} /\ SoloSeat \in Seats
  /\ \A t \in Ids : Founded.tickets[t] = NoTicket
  /\ \A s \in Seats : Founded.hand[s] = NoId /\ Founded.asked[s] = Nothing
  /\ Founded \in Board
<1>1. SoloSeat \in Seats
  BY Sizes DEF SoloSeat, Seats
<1>2. NoTicket \in Ticket /\ Nothing \in Asking
  BY NoTicketFacts, NothingFacts
<1>3. Founded \in Board
  BY <1>1, <1>2 DEF Founded, Board, Asking
<1> QED  BY <1>1, <1>3 DEF Founded

\* The board of a run that starts.
LEMMA FoundedIsGood == Good(Founded, FALSE)
<1>1. NoTicket.status = "none" /\ NoTicket.landed = 0 /\ ~NoTicket.team
      /\ NoTicket.parent = NoId /\ NoTicket.holder = NoSeat
  BY DEF NoTicket
<1>2. \A t \in Ids : Founded.tickets[t] = NoTicket /\ ~IsOpen(Founded, t)
  BY <1>1, FoundedFacts DEF IsOpen
<1>3. Tidy(Founded)
  BY <1>1, <1>2 DEF Tidy
<1>4. Held(Founded)
  BY <1>2 DEF Held
<1>5. Seated(Founded)
  BY FoundedFacts, NothingFacts DEF Seated
<1>6. Handy(Founded)
  <2>1. \A t \in Ids : Founded.tickets[t].landed <= 1
    BY <1>1, <1>2
  <2>2. ASSUME NEW s \in Founded.seats PROVE HandOK(Founded, s) /\ AskOK(Founded, s)
    <3>1. s \in Seats /\ Founded.hand[s] = NoId /\ Founded.asked[s].ticket = NoId
      BY FoundedFacts, NothingFacts
    <3> QED  BY <1>2, <3>1 DEF HandOK, AskOK, On
  <2> QED  BY <1>2, <2>1, <2>2 DEF Handy
<1>7. Together(Founded)
  BY <1>2 DEF Together
<1> QED  BY <1>3, <1>4, <1>5, <1>6, <1>7, FoundedFacts DEF Good, Sound

LEMMA DesksStart ==
  ASSUME DesksInit
  PROVE  DesksInv /\ board.seats = {SoloSeat}
<1>1. /\ board \in Arrivals(Founded) /\ next = 1 /\ phase = "play" /\ at = "idle" /\ todo = {}
      /\ queue = {} /\ burnt = {} /\ parted = FALSE
  BY DEF DesksInit, Founded
<1>2. Good(board, FALSE) /\ board.seats = {SoloSeat}
  BY <1>1, FoundedIsGood, FoundedFacts, ArrivalsKeep
<1>3. 1 \in 0..MaxSeats
  BY Sizes
<1>4. RoundOK
  BY <1>1, <1>2, <1>3 DEF RoundOK
<1> QED  BY <1>1, <1>2, <1>4 DEF DesksInv

LEMMA Stutter ==
  ASSUME DesksInv, UNCHANGED deskVars
  PROVE  DesksInv'
<1>1. /\ board' = board /\ next' = next /\ phase' = phase /\ at' = at /\ todo' = todo
      /\ queue' = queue /\ burnt' = burnt /\ parted' = parted
  BY DEF deskVars
<1> QED  BY <1>1 DEF DesksInv, RoundOK

\* The steps of a seat between two rounds.
FreeAct(s) ==
  Start(s) \/ Checkout(s) \/ SubmitAccepted(s) \/ SubmitRefused(s) \/ Followup(s)
  \/ Hire(s) \/ Acquire(s)

LEMMA FreeActKeeps ==
  ASSUME DesksInv, NEW s, FreeAct(s)
  PROVE  Kept /\ Calm /\ phase = "play" /\ phase' \in {"play", "event", "over"}
<1>1. CASE Start(s)
  BY <1>1, StartKeeps, ActsFacts DEF Start
<1>2. CASE Checkout(s)
  BY <1>2, CheckoutStep, ActsFacts DEF Checkout
<1>3. CASE SubmitAccepted(s)
  BY <1>3, SubmitAcceptedKeeps, ActsFacts DEF SubmitAccepted, Submits
<1>4. CASE SubmitRefused(s)
  BY <1>4, SubmitRefusedKeeps, ActsFacts DEF SubmitRefused, Submits
<1>5. CASE Followup(s)
  BY <1>5, FollowupKeeps, ActsFacts DEF Followup
<1>6. CASE Hire(s)
  BY <1>6, HireStep, ActsFacts DEF Hire
<1>7. CASE Acquire(s)
  <2>1. Acts(s, "nothing") /\ (phase' = phase \/ phase' \in IF phase = "play" THEN {"play", "event", "over"} ELSE {phase, "over"})
    BY <1>7 DEF Acquire, Incident
  <2> QED  BY <1>7, <2>1, AcquireKeeps, ActsFacts
<1> QED  BY <1>1, <1>2, <1>3, <1>4, <1>5, <1>6, <1>7 DEF FreeAct

\* The steps of a round.
RoundStep == SeatsPlay \/ EndOfTurn

LEMMA RoundStepKeeps ==
  ASSUME DesksInv, RoundStep
  PROVE  Kept /\ Hidden
<1>1. CASE SeatsPlay
  <2>1. CASE RunEnds
    BY <2>1, RunEndsKeeps
  <2>2. ASSUME NEW s \in Seats, Commit(s) PROVE Kept /\ Hidden
    BY <2>2, CommitStep
  <2>3. ASSUME NEW s \in Seats, Resume(s) PROVE Kept /\ Hidden
    BY <2>3, ResumeKeeps
  <2>4. ASSUME NEW s \in Seats, MergeObstacle(s) PROVE Kept /\ Hidden
    BY <2>4, MergeObstacleKeeps
  <2>5. ASSUME NEW s \in Seats, Merge(s) PROVE Kept /\ Hidden
    BY <2>5, MergeKeeps
  <2>6. ASSUME NEW s \in Seats, ResolveConflict(s) PROVE Kept /\ Hidden
    BY <2>6, ResolveConflictKeeps
  <2>7. ASSUME NEW s \in Seats, HackBreaks(s) PROVE Kept /\ Hidden
    BY <2>7, HackBreaksKeeps
  <2> QED  BY <1>1, <2>1, <2>2, <2>3, <2>4, <2>5, <2>6, <2>7 DEF SeatsPlay
<1>2. CASE EndOfTurn
  BY <1>2, SeatsArePlayedKeeps, TeamWorksKeeps, PaydayKeeps, BoxGoesOnKeeps, BoxEndsKeeps,
     ShipBugsKeeps, MonthsDueKeeps, ShipStep, ShipEarlyKeeps DEF EndOfTurn
<1> QED  BY <1>1, <1>2 DEF RoundStep

LEMMA NextIs ==
  DesksNext <=>
    JoinCrew \/ LeaveCrew \/ AnswerEvent \/ ChooseRelic \/ (\E s \in Seats : FreeAct(s)) \/ RoundStep
BY DEF DesksNext, BetweenRounds, FreeAct, RoundStep

\* Every step keeps the invariant and spreads the work of those who go.
LEMMA NextKeeps ==
  ASSUME DesksInv, DesksNext
  PROVE  Kept
<1>1. CASE JoinCrew
  BY <1>1, JoinCrewKeeps
<1>2. CASE LeaveCrew
  BY <1>2, LeaveCrewKeeps
<1>3. CASE AnswerEvent
  BY <1>3, AnswerEventKeeps
<1>4. CASE ChooseRelic
  BY <1>4, ChooseRelicKeeps
<1>5. ASSUME NEW s \in Seats, FreeAct(s) PROVE Kept
  BY <1>5, FreeActKeeps
<1>6. CASE RoundStep
  BY <1>6, RoundStepKeeps
<1> QED  BY <1>1, <1>2, <1>3, <1>4, <1>5, <1>6, NextIs

\* The invariant holds all along.
THEOREM DesksInvariant == DesksSpec => []DesksInv
<1>1. DesksInit => DesksInv
  BY DesksStart
<1>2. DesksInv /\ [DesksNext]_deskVars => DesksInv'
  <2>1. ASSUME DesksInv, DesksNext PROVE DesksInv'
    BY <2>1, NextKeeps DEF Kept, DesksInv
  <2>2. ASSUME DesksInv, UNCHANGED deskVars PROVE DesksInv'
    BY <2>2, Stutter
  <2> QED  BY <2>1, <2>2
<1> QED  BY <1>1, <1>2, PTL DEF DesksSpec

\* Every variable keeps its type: nobody holds what is not a ticket, and the
\* queue of the developer is of tickets (types.ts RunState, crew.ts).
THEOREM DesksTypes == DesksSpec => []DesksTypeOK
<1>1. DesksInv => DesksTypeOK
  <2> SUFFICES ASSUME DesksInv PROVE DesksTypeOK
    OBVIOUS
  <2>1. board \in Board /\ board.seats \subseteq Seats
    BY TicketFields DEF DesksInv, Good, Sound
  <2>2. todo \subseteq Seats /\ burnt \subseteq Seats
    BY <2>1 DEF DesksInv, RoundOK
  <2> QED  BY <2>1, <2>2 DEF DesksInv, RoundOK, DesksTypeOK
<1> QED  BY <1>1, DesksInvariant, PTL

LEMMA OpenIs == \A b, t : t \in Open(b) <=> t \in Ids /\ IsOpen(b, t)
BY DEF Open, IsOpen

\* Work is never left on the desk of somebody who has gone, and until a
\* departure parts a ticket from its obstacle the hands of the company agree
\* with its desks (crew.ts leaveSeat, settleCurrent; team.ts releaseDev).
THEOREM HandsAgreeWithDesks == DesksSpec => []DesksAgree
<1>1. DesksInv => DesksAgree
  <2> SUFFICES ASSUME DesksInv PROVE DesksAgree
    OBVIOUS
  <2>1. Good(board, parted) /\ board \in Board
    BY DEF DesksInv, Good, Sound
  <2>2. WorkIsHeld
    BY <2>1, OpenIs DEF Good, Sound, Held, WorkIsHeld
  <2>3. ASSUME ~parted PROVE HandsAgree
    <3>1. Handy(board) /\ ~Split(board)
      BY <2>1, <2>3, SplitIs DEF Good
    <3>2. ASSUME NEW s \in board.seats
          PROVE  IF Desk(board, s) = {} THEN board.hand[s] = NoId
                 ELSE board.hand[s] \in Desk(board, s)
      <4>1. HandOK(board, s)
        BY <3>1 DEF Handy
      <4>2. \A t : t \in Desk(board, s) <=> On(board, t, s)
        BY DeskIsOn DEF On
      <4>3. CASE On(board, board.hand[s], s)
        BY <4>2, <4>3
      <4>4. CASE board.hand[s] = NoId /\ \A t \in Ids : ~On(board, t, s)
        <5>1. Desk(board, s) = {}
          BY <4>4, DeskIsOn
        <5> QED  BY <4>4, <5>1
      <4> QED  BY <4>1, <4>3, <4>4 DEF HandOK
    <3>3. ASSUME NEW s \in board.seats, board.asked[s].ticket # NoId
          PROVE  /\ board.asked[s].ticket \in Desk(board, s)
                 /\ Obstacles(board, board.asked[s].ticket) = {}
      <4>1. AskOK(board, s)
        BY <3>1 DEF Handy
      <4>2. On(board, board.asked[s].ticket, s) /\ Clear(board, board.asked[s].ticket)
        BY <3>3, <4>1 DEF AskOK
      <4>3. board.asked[s].ticket \in Desk(board, s)
        BY <4>2, DeskIsOn DEF On
      <4> QED  BY <4>2, <4>3, OpenIs DEF Obstacles, Clear
    <3> QED  BY <3>1, <3>2, <3>3 DEF HandsAgree
  <2> QED  BY <2>2, <2>3 DEF DesksAgree
<1> QED  BY <1>1, DesksInvariant, PTL

\* None is delivered twice and no round throws for a parent that is gone,
\* until a departure parts a ticket from its obstacle (write.ts completeMerge).
THEOREM MergesEnd == DesksSpec => []LandsOnce
<1>1. DesksInv => LandsOnce
  BY DEF DesksInv, RoundOK, Good, Handy, LandsOnce
<1> QED  BY <1>1, DesksInvariant, PTL

\* Whoever goes, hired or human, their work spreads over the lightest desks
\* (crew.ts lightestSeat, asked again for each ticket).
THEOREM WorkSpreads == DesksSpec => LightestDesk
<1> DEFINE Fair ==
      (Goner /\ board.seats \cap board'.seats = board'.seats) =>
        \A s, r \in board'.seats :
          (\E t \in Desk(board', s) \ Desk(board, s) : TRUE) =>
            Load(board', s) <= Load(board', r) + 1
<1>1. ASSUME DesksInv, [DesksNext]_deskVars PROVE [Fair]_deskVars
  <2>1. CASE DesksNext
    <3> SUFFICES ASSUME Goner, board.seats \cap board'.seats = board'.seats,
                        NEW s \in board'.seats, NEW r \in board'.seats,
                        NEW t \in Desk(board', s) \ Desk(board, s)
                 PROVE  Load(board', s) <= Load(board', r) + 1
      OBVIOUS
    <3>1. Balanced(board, board')
      BY <1>1, <2>1, NextKeeps DEF Kept, Spread, Goner
    <3>2. t \in Ids /\ On(board', t, s) /\ ~On(board, t, s)
      BY DeskIsOn DEF On
    <3> QED  BY <3>1, <3>2 DEF Balanced
  <2>2. CASE UNCHANGED deskVars
    BY <2>2
  <2> QED  BY <1>1, <2>1, <2>2
<1> QED  BY <1>1, DesksInvariant, PTL DEF DesksSpec, LightestDesk

-----------------------------------------------------------------------------
(* The realtime world's view of the run                                      *)

Shown(e) == e \in [phase : {"play", "event", "relic", "over"}, seats : SUBSET Seats, next : 0..MaxSeats]

\* Two views with the same fields are one.
LEMMA SameView ==
  ASSUME NEW e, NEW f, Shown(e), Shown(f), e.phase = f.phase, e.seats = f.seats, e.next = f.next
  PROVE  e = f
BY DEF Shown

\* The view of a state.
LEMMA SeenFacts ==
  ASSUME DesksInv
  PROVE  /\ Seen.phase = (IF at = "idle" THEN phase ELSE "play")
         /\ Seen.seats = board.seats \cup burnt /\ Seen.next = next /\ Shown(Seen)
<1>1. board.seats \subseteq Seats /\ burnt \subseteq Seats
  BY TicketFields DEF DesksInv, RoundOK, Good, Sound
<1> QED  BY <1>1 DEF DesksInv, RoundOK, Seen, Shown

LEMMA SeenNext ==
  ASSUME DesksInv'
  PROVE  /\ Seen'.phase = (IF at' = "idle" THEN phase' ELSE "play")
         /\ Seen'.seats = board'.seats \cup burnt' /\ Seen'.next = next' /\ Shown(Seen')
<1>1. board'.seats \subseteq Seats /\ burnt' \subseteq Seats
  BY TicketFields DEF DesksInv, RoundOK, Good, Sound
<1> QED  BY <1>1 DEF DesksInv, RoundOK, Seen, Shown

LEMMA IdleIsSeen ==
  ASSUME DesksInv, Idle
  PROVE  Seen.phase = phase /\ Seen.seats = board.seats /\ Seen.next = next /\ burnt = {}
BY SeenFacts DEF Idle, DesksInv, RoundOK

\* A step of CrewEngine that only changes the phase.
LEMMA PhaseShown ==
  ASSUME NEW e, Shown(e), NEW f, Shown(f), NEW p, f.phase = p, f.seats = e.seats, f.next = e.next
  PROVE  f = Engine!InPhase(e, p)
<1> DEFINE g == [e EXCEPT !.phase = p]
<1>1. g.phase = p /\ g.seats = e.seats /\ g.next = e.next /\ Shown(g)
  BY DEF Shown
<1>2. f = g
  BY <1>1, SameView
<1> QED  BY <1>2 DEF Engine!InPhase

\* A step between two rounds changes the phase in view, and nothing else.
LEMMA CalmIsSeen ==
  ASSUME DesksInv, DesksInv', Calm
  PROVE  /\ Seen.phase = phase /\ Seen'.phase = phase'
         /\ Seen'.seats = Seen.seats /\ Seen'.next = Seen.next
         /\ Shown(Seen) /\ Shown(Seen')
<1>1. at = "idle" /\ at' = "idle" /\ burnt' = burnt /\ board'.seats = board.seats /\ next' = next
  BY DEF Calm, Idle, SameRound
<1> QED  BY <1>1, SeenFacts, SeenNext

LEMMA FreeActIsSeen ==
  ASSUME DesksInv, DesksInv', NEW s, FreeAct(s)
  PROVE  Engine!Acts
<1>1. Calm /\ phase = "play" /\ phase' \in {"play", "event", "over"}
  BY FreeActKeeps
<1>2. Seen' = Engine!InPhase(Seen, phase') /\ Seen.phase = "play"
  BY <1>1, CalmIsSeen, PhaseShown
<1> QED  BY <1>1, <1>2 DEF Engine!Acts, Engine!ActEnds

LEMMA AnswerIsSeen ==
  ASSUME DesksInv, DesksInv', AnswerEvent \/ ChooseRelic
  PROVE  Engine!Answers
<1>1. Calm
  BY AnswerEventKeeps, ChooseRelicKeeps
<1>2. Seen' = Engine!InPhase(Seen, phase') /\ Seen.phase = phase
  BY <1>1, CalmIsSeen, PhaseShown
<1>3. \/ phase = "event" /\ phase' \in {"play", "over"}
      \/ phase = "relic" /\ phase' \in {"play", "event", "over"}
  BY DEF AnswerEvent, ChooseRelic, Answers
<1>4. phase' \in Engine!AnswerEnds(Seen) /\ Seen.phase \in Engine!Deciding
  BY <1>2, <1>3 DEF Engine!AnswerEnds, Engine!Deciding
<1> QED  BY <1>2, <1>4 DEF Engine!Answers

LEMMA JoinIsSeen ==
  ASSUME DesksInv, DesksInv', JoinCrew
  PROVE  Engine!Joins
<1>1. /\ Idle /\ phase # "over" /\ HasRoom /\ next < MaxSeats /\ next' = next + 1
      /\ at' = at /\ burnt' = burnt /\ phase' = phase
  BY DEF JoinCrew, SameRound
<1>2. /\ Seen.phase = phase /\ Seen.seats = board.seats /\ Seen.next = next /\ burnt = {}
      /\ Shown(Seen)
  BY <1>1, IdleIsSeen, SeenFacts
<1>3. board'.seats = board.seats \cup {next}
  BY JoinCrewKeeps
<1>4. /\ Seen'.phase = phase /\ Seen'.seats = board.seats \cup {next} /\ Seen'.next = next + 1
      /\ Shown(Seen')
  BY <1>1, <1>2, <1>3, SeenNext DEF Idle
<1>5. Cardinality(board.seats) < Capacity
  <2>1. board.seats \in SUBSET Seats
    BY TicketFields DEF DesksInv, Good, Sound
  <2>2. IsFiniteSet(Seats)
    BY Sizes, FS_Interval DEF Seats
  <2>3. Cardinality(board.seats) \in Nat
    BY <2>1, <2>2, FS_Subset, FS_CardinalityType
  <2>4. Capacity \in Nat
    BY DesksSizes
  <2>5. Cardinality(board.seats) + (IF board.hired THEN 1 ELSE 0) < Capacity
    BY <1>1 DEF HasRoom, Headcount
  <2> QED  BY <2>3, <2>4, <2>5
<1>6. Engine!CanJoin(Seen)
  <2>1. Seen.phase # "over" /\ Seen.next < MaxSeats
    BY <1>1, <1>2
  <2>2. Cardinality(Seen.seats) < Capacity
    BY <1>2, <1>5
  <2>3. Engine!Cardinality(Seen.seats) = Cardinality(Seen.seats)
    BY DEF Engine!Cardinality, Cardinality
  <2> QED  BY <2>1, <2>2, <2>3 DEF Engine!CanJoin
<1>7. Seen' = Engine!Joined(Seen)
  <2> DEFINE g == [Seen EXCEPT !.seats = @ \cup {Seen.next}, !.next = @ + 1]
  <2>1. next \in Seats /\ next + 1 \in 0..MaxSeats
    BY <1>1, Sizes DEF DesksInv, RoundOK, Seats
  <2>2. g.phase = phase /\ g.seats = board.seats \cup {next} /\ g.next = next + 1
    BY <1>2 DEF Shown
  <2>3. Shown(g)
    BY <1>2, <2>1 DEF Shown
  <2>4. Seen' = g
    BY <1>4, <2>2, <2>3, SameView
  <2> QED  BY <2>4 DEF Engine!Joined
<1> QED  BY <1>6, <1>7 DEF Engine!Joins

\* CrewEngine's Without, in the terms of a view of it.
LEMMA WithoutShown ==
  ASSUME NEW e, Shown(e), NEW f, Shown(f), NEW gone, f.seats = e.seats \ gone, f.next = e.next,
         f.phase = IF e.seats \subseteq gone THEN "over" ELSE e.phase
  PROVE  f = Engine!Without(e, gone)
<1> DEFINE g == [e EXCEPT !.seats = @ \ gone,
                          !.phase = IF e.seats \subseteq gone THEN "over" ELSE @]
<1>1. /\ g.seats = e.seats \ gone /\ g.next = e.next
      /\ g.phase = IF e.seats \subseteq gone THEN "over" ELSE e.phase
  BY DEF Shown
<1>2. Shown(g)
  BY DEF Shown
<1>3. f = g
  BY <1>1, <1>2, SameView
<1> QED  BY <1>3 DEF Engine!Without

LEMMA LeaveIsSeen ==
  ASSUME DesksInv, DesksInv', LeaveCrew
  PROVE  Engine!Leaves
<1>1. /\ Idle /\ next' = next /\ at' = at /\ burnt' = burnt
      /\ phase' = (IF board'.seats = {} THEN "over" ELSE phase)
  BY DEF LeaveCrew, SameRound
<1>2. /\ Seen.phase = phase /\ Seen.seats = board.seats /\ Seen.next = next /\ burnt = {}
      /\ Shown(Seen)
  BY <1>1, IdleIsSeen, SeenFacts
<1>3. PICK s \in board.seats : board'.seats = board.seats \ {s}
  BY LeaveCrewKeeps
<1>4. /\ Seen'.phase = (IF board.seats \subseteq {s} THEN "over" ELSE phase)
      /\ Seen'.seats = board.seats \ {s} /\ Seen'.next = next /\ Shown(Seen')
  BY <1>1, <1>2, <1>3, SeenNext DEF Idle
<1>5. Seen' = Engine!Without(Seen, {s})
  BY <1>2, <1>4, WithoutShown
<1> QED  BY <1>2, <1>3, <1>5 DEF Engine!Leaves

\* A part of a round is not seen, or is the whole round when it ends.
LEMMA RoundIsSeen ==
  ASSUME DesksInv, DesksInv', RoundStep
  PROVE  Engine!Rounds \/ Seen' = Seen
<1>1. Hidden
  BY RoundStepKeeps
<1>2. Seen.phase = "play" /\ Seen.seats = board.seats \cup burnt /\ Seen.next = next /\ Shown(Seen)
  BY <1>1, SeenFacts DEF Hidden
<1>3. CASE at' # "idle"
  <2>1. Seen'.phase = "play" /\ Seen'.seats = Seen.seats /\ Seen'.next = next /\ Shown(Seen')
    BY <1>1, <1>2, <1>3, SeenNext DEF Hidden
  <2> QED  BY <1>2, <2>1, SameView
<1>4. CASE at' = "idle"
  <2> DEFINE gone == Seen.seats \ board'.seats
             ended == [Seen EXCEPT !.phase = phase']
  <2>1. /\ Seen'.phase = phase' /\ Seen'.seats = board'.seats /\ Seen'.next = next
        /\ Shown(Seen') /\ board'.seats \subseteq Seen.seats
    BY <1>1, <1>2, <1>4, SeenNext DEF Hidden
  <2>2. /\ phase' \in {"play", "event", "relic", "over"}
        /\ board'.seats = {} => phase' = "over"
    BY DEF DesksInv, RoundOK
  <2>3. ended.phase = phase' /\ ended.seats = Seen.seats /\ ended.next = Seen.next /\ Shown(ended)
    BY <1>2, <2>2 DEF Shown
  <2>4. ended = Engine!InPhase(Seen, phase')
    BY DEF Engine!InPhase
  <2>5. Seen'.phase = IF ended.seats \subseteq gone THEN "over" ELSE ended.phase
    <3>1. ended.seats \subseteq gone => board'.seats = {}
      BY <2>1, <2>3
    <3> QED  BY <2>1, <2>2, <2>3, <3>1
  <2>6. Seen'.seats = ended.seats \ gone
    BY <2>1, <2>3
  <2>7. Seen'.next = ended.next
    BY <1>2, <2>1, <2>3
  <2> HIDE DEF ended, gone
  <2>8. Seen' = Engine!Without(ended, gone)
    BY <2>1, <2>3, <2>5, <2>6, <2>7, WithoutShown
  <2>9. gone \in SUBSET Seen.seats
    BY DEF gone
  <2> DEFINE r == [end |-> phase', burnt |-> gone]
  <2>10. r \in Engine!RoundEnds(Seen) /\ r.end = phase' /\ r.burnt = gone
    BY <2>2, <2>9 DEF Engine!RoundEnds
  <2>11. Seen' = Engine!AfterRound(Seen, r.end, r.burnt)
    BY <2>4, <2>8, <2>10 DEF Engine!AfterRound
  <2> QED  BY <1>2, <2>10, <2>11 DEF Engine!Rounds
<1> QED  BY <1>3, <1>4

\* The run behind its tickets is the company CrewEngine describes to the realtime
\* world: a round is one step of it and the burnt out leave with that step.
THEOREM DesksAreACrew == DesksSpec => EngineIsACrew
<1>1. DesksInit => Engine!CrewInit
  <2> SUFFICES ASSUME DesksInit PROVE Engine!CrewInit
    OBVIOUS
  <2>1. phase = "play" /\ next = 1 /\ at = "idle" /\ burnt = {} /\ board.seats = {0}
    BY DesksStart DEF DesksInit, SoloSeat
  <2> QED  BY <2>1 DEF Engine!CrewInit, Engine!Started, Seen
<1>2. ASSUME DesksInv, DesksInv', [DesksNext]_deskVars PROVE [Engine!CrewNext]_Seen
  <2>1. CASE UNCHANGED deskVars
    BY <2>1 DEF deskVars, Seen
  <2>2. CASE JoinCrew
    BY <1>2, <2>2, JoinIsSeen DEF Engine!CrewNext
  <2>3. CASE LeaveCrew
    BY <1>2, <2>3, LeaveIsSeen DEF Engine!CrewNext
  <2>4. CASE AnswerEvent \/ ChooseRelic
    BY <1>2, <2>4, AnswerIsSeen DEF Engine!CrewNext
  <2>5. ASSUME NEW s \in Seats, FreeAct(s) PROVE Engine!CrewNext
    BY <1>2, <2>5, FreeActIsSeen DEF Engine!CrewNext
  <2>6. CASE RoundStep
    BY <1>2, <2>6, RoundIsSeen DEF Engine!CrewNext
  <2> QED  BY <1>2, <2>1, <2>2, <2>3, <2>4, <2>5, <2>6, NextIs
<1> QED  BY <1>1, <1>2, DesksInvariant, PTL DEF DesksSpec, EngineIsACrew, Engine!CrewSpec
=============================================================================
