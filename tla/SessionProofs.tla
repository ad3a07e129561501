---------------------------- MODULE SessionProofs ----------------------------
(***************************************************************************)
(* One player's session, for any number of connections and any log: the    *)
(* browser has one connection at most, a stage that has not asked for the  *)
(* company again shows a prefix of its log, and a page that has heard      *)
(* everything shows the seat, the question and the round of its company.   *)
(*                                                                         *)
(* A connection is the one of the current generation, and while its ticket *)
(* is awaited there is no other, nor a retry.  Nothing that is in a frame, *)
(* in the store or on the stage is ahead of the log.  Of the frames on     *)
(* their way to the page, the last that is about the seat, the question or *)
(* the round says what the company is now; where there is none, the page   *)
(* shows it already.                                                       *)
(***************************************************************************)
EXTENDS Session, SequenceTheorems, FiniteSetTheorems, WellFoundedInduction, TLAPS

FrameUpTo(n) == [kind : {"welcome", "outdated", "joined", "entry", "resolved", "open",
                         "ask", "result", "left", "closed"},
                 n : 0..n, r : Nat]
SocketUpTo(n) == [browser : {"none", "opening", "live", "closing", "shut"},
                  server : {"none", "open", "hello", "closing", "gone"},
                  up : Seq(Requests), down : Seq(FrameUpTo(n))]
SocksUpTo(n) == [Dials -> SocketUpTo(n)]
ViewUpTo(n) == [join : None..n, applied : 0..n, inbox : SUBSET (1..n),
                round : Int, asking : BOOLEAN, closed : BOOLEAN]
StageUpTo(n) == [mounted : BOOLEAN, fresh : BOOLEAN, at : 0..n, good : BOOLEAN, lost : BOOLEAN]
Client == [status : {"idle", "connecting", "open", "reconnecting", "closed", "outdated", "disabled"},
           held : BOOLEAN, terminal : BOOLEAN, again : BOOLEAN,
           gen : 0..MaxDials, dials : 0..MaxDials, retry : BOOLEAN,
           fetching : SUBSET Dials, socket : 0..MaxDials]
Company == [online : BOOLEAN, seat : BOOLEAN, alive : BOOLEAN, seq : 0..MaxSeq,
            round : Nat, asking : BOOLEAN]

\* Frames, store and stage know nothing of the log that is not in it.
Types ==
  /\ client \in Client
  /\ world \in Company
  /\ socks \in SocksUpTo(world.seq)
  /\ view \in ViewUpTo(world.seq)
  /\ stage \in StageUpTo(world.seq)
  /\ drifts \in Nat

Connected(g) == socks[g].browser \in {"opening", "live"}

\* The socket is the one of the current generation, whose ticket has come.
OneSocket ==
  /\ \A g \in Dials : Connected(g) => g = client.socket
  /\ client.socket # NoSocket =>
       client.socket = client.gen /\ client.gen \notin client.fetching /\ ~client.retry
  /\ client.gen \in client.fetching => ~client.retry
  /\ ~client.held => client.gen = NoSocket /\ ~client.retry

\* A dial whose ticket is awaited, or to come, has had no socket: the close of one
\* that was given up, however late, is not that of the dial under way.
Undialled ==
  /\ client.gen <= client.dials
  /\ \A g \in client.fetching : g <= client.dials
  /\ \A g \in Dials : socks[g].browser # "none" => g <= client.dials /\ g \notin client.fetching

\* A stage that went wrong has asked again.
WrongIsLost(st) == st.good \/ st.lost

SessionInv == Types /\ OneSocket /\ Undialled /\ WrongIsLost(stage)

-----------------------------------------------------------------------------
(* Frames *)

LEMMA FramesGrow ==
  ASSUME NEW m \in Nat, NEW n \in Nat, m <= n, NEW s \in Seq(FrameUpTo(m))
  PROVE  s \in Seq(FrameUpTo(n))
<1>1. FrameUpTo(m) \subseteq FrameUpTo(n)
  BY DEF FrameUpTo
<1>2. Len(s) \in Nat /\ s \in [1..Len(s) -> FrameUpTo(m)]
  BY LenProperties
<1>3. s \in [1..Len(s) -> FrameUpTo(n)]
  BY <1>1, <1>2
<1> QED  BY <1>2, <1>3

LEMMA SocksGrow ==
  ASSUME NEW m \in Nat, NEW n \in Nat, m <= n, NEW ss \in SocksUpTo(m)
  PROVE  ss \in SocksUpTo(n)
<1>1. \A s \in Seq(FrameUpTo(m)) : s \in Seq(FrameUpTo(n))
  BY FramesGrow
<1>2. SocketUpTo(m) \subseteq SocketUpTo(n)
  BY <1>1 DEF SocketUpTo
<1> QED  BY <1>2 DEF SocksUpTo

LEMMA DataGrow ==
  ASSUME NEW m \in Nat, NEW n \in Nat, m <= n
  PROVE  /\ ViewUpTo(m) \subseteq ViewUpTo(n)
         /\ StageUpTo(m) \subseteq StageUpTo(n)
<1>1. None..m \subseteq None..n /\ 0..m \subseteq 0..n /\ 1..m \subseteq 1..n
  BY DEF None
<1> QED  BY <1>1 DEF ViewUpTo, StageUpTo

LEMMA IsAFrame ==
  ASSUME NEW n \in Nat, NEW i \in 0..n, NEW r \in Nat,
         NEW kind \in {"welcome", "outdated", "joined", "entry", "resolved", "open",
                       "ask", "result", "left", "closed"}
  PROVE  F(kind, i, r) \in FrameUpTo(n)
BY DEF F, FrameUpTo

LEMMA IsSaid ==
  ASSUME NEW n \in Nat,
         NEW kind \in {"welcome", "outdated", "joined", "entry", "resolved", "open",
                       "ask", "result", "left", "closed"}
  PROVE  Say(kind) \in FrameUpTo(n)
BY DEF Say, F, FrameUpTo

LEMMA OneFrame ==
  ASSUME NEW S, NEW a \in S, NEW b \in S
  PROVE  <<>> \in Seq(S) /\ <<a>> \in Seq(S) /\ <<a, b>> \in Seq(S)
OBVIOUS

LEMMA JoinedFrames ==
  ASSUME NEW w \in Company
  PROVE  Joined(w) \in Seq(FrameUpTo(w.seq))
<1>1. w.seq \in Nat /\ w.seq \in 0..w.seq /\ w.round \in Nat
  BY SessionBounds DEF Company
<1>2. F("joined", w.seq, w.round) \in FrameUpTo(w.seq) /\ Say("ask") \in FrameUpTo(w.seq)
  BY <1>1, IsAFrame, IsSaid
<1> DEFINE S == FrameUpTo(w.seq)
<1> HIDE DEF S
<1>3. <<F("joined", w.seq, w.round)>> \in Seq(S)
      /\ (IF w.asking THEN <<Say("ask")>> ELSE <<>>) \in Seq(S)
  BY <1>2, OneFrame DEF S
<1> QED  BY <1>3, ConcatProperties DEF Joined, S

\* Frames on the way change nothing else of a socket.
LEMMA SentTo ==
  ASSUME NEW n \in Nat, NEW sock \in SocketUpTo(n), NEW frames \in Seq(FrameUpTo(n))
  PROVE  LET new == [sock EXCEPT !.down = @ \o frames]
         IN new \in SocketUpTo(n) /\ new.browser = sock.browser
<1>1. sock.down \o frames \in Seq(FrameUpTo(n))
  BY ConcatProperties DEF SocketUpTo
<1> QED  BY <1>1 DEF SocketUpTo

LEMMA DeliveredKeeps ==
  ASSUME NEW n \in Nat, NEW ss \in SocksUpTo(n), NEW frames \in Seq(FrameUpTo(n))
  PROVE  /\ Delivered(ss, frames) \in SocksUpTo(n)
         /\ \A g \in Dials : Delivered(ss, frames)[g].browser = ss[g].browser
<1>1. \A g \in Dials : ss[g] \in SocketUpTo(n)
  BY DEF SocksUpTo
<1>2. \A g \in Dials : LET new == [ss[g] EXCEPT !.down = @ \o frames]
                       IN new \in SocketUpTo(n) /\ new.browser = ss[g].browser
  BY <1>1, SentTo
<1>3. \A g \in Dials : /\ Delivered(ss, frames)[g] \in SocketUpTo(n)
                       /\ Delivered(ss, frames)[g].browser = ss[g].browser
  BY <1>1, <1>2 DEF Delivered
<1> QED  BY <1>3 DEF Delivered, SocksUpTo

-----------------------------------------------------------------------------
(* The store and the stage *)

\* A non-empty set of numbers has a least one.
LEMMA LeastOf ==
  ASSUME NEW T, T \subseteq Nat, T # {}
  PROVE  \E x \in T : \A y \in T : x <= y
<1> DEFINE R == {ss \in Nat \X Nat : ss[1] < ss[2]}
<1>1. IsWellFoundedOn(R, Nat)
  BY NatLessThanWellFounded DEF OpToRel
<1> HIDE DEF R
<1>2. PICK x \in T : \A y \in T : ~(<<y, x>> \in R)
  BY <1>1, WFMin
<1>3. \A y \in T : ~(y < x)
  BY <1>2 DEF R
<1> QED  BY <1>3

\* The run of entries that follows a is found, and ends with one of them.
LEMMA RunEndIsThere ==
  ASSUME NEW n \in 0..MaxSeq, NEW a \in 0..n, NEW S \in SUBSET (1..n), a + 1 \in S
  PROVE  RunEnd(a, S) \in a..n
<1> DEFINE Ends(b) == (a + 1)..b \subseteq S /\ (b = MaxSeq \/ b + 1 \notin S)
           T == {c \in Nat : c > a /\ c \notin S}
<1>1. n \in Nat /\ a \in Nat /\ MaxSeq \in Nat /\ n <= MaxSeq
  BY SessionBounds
<1>2. n + 1 \in T
  BY <1>1
<1>3. PICK c \in T : \A d \in T : c <= d
  <2>1. T \subseteq Nat /\ T # {}
    BY <1>2
  <2> HIDE DEF T
  <2> QED  BY <2>1, LeastOf
<1>4. c - 1 \in a..MaxSeq /\ Ends(c - 1)
  <2>1. c \in Nat /\ c > a /\ c <= n + 1
    BY <1>2, <1>3
  <2>2. \A d \in (a + 1)..(c - 1) : d \in S
    BY <1>1, <1>3, <2>1
  <2> QED  BY <1>1, <1>3, <2>1, <2>2
<1>5. RunEnd(a, S) \in a..MaxSeq /\ (a + 1)..RunEnd(a, S) \subseteq S
  BY <1>4 DEF RunEnd
<1> QED
  <2> DEFINE b == RunEnd(a, S)
  <2>1. b \in a..MaxSeq /\ (a + 1)..b \subseteq S
    BY <1>5
  <2> HIDE DEF b
  <2>2. b = a \/ b \in S
    BY <1>1, <2>1
  <2>3. b \in a..n
    BY <1>1, <2>1, <2>2
  <2> QED  BY <2>3 DEF b

LEMMA DrainedKeeps ==
  ASSUME NEW n \in 0..MaxSeq, NEW v \in ViewUpTo(n), NEW st \in StageUpTo(n), NEW bad \in BOOLEAN,
         WrongIsLost(st)
  PROVE  LET d == Drained(v, st, bad)
         IN /\ d.view \in ViewUpTo(n) /\ d.stage \in StageUpTo(n) /\ WrongIsLost(d.stage)
            /\ d.asks \in BOOLEAN
<1> DEFINE next == Later(v.applied, v.inbox)
           end == RunEnd(v.applied, next)
           empty == [v EXCEPT !.inbox = {}]
<1>1. empty \in ViewUpTo(n)
  BY DEF ViewUpTo
<1>2. CASE ~st.mounted \/ st.lost
  BY <1>2 DEF Drained
<1>3. CASE ~(~st.mounted \/ st.lost) /\ next = {}
  BY <1>1, <1>3 DEF Drained
<1>4. CASE ~(~st.mounted \/ st.lost) /\ next # {} /\ v.applied + 1 \notin next
  <2>1. Drained(v, st, bad) = [view |-> empty, stage |-> [st EXCEPT !.lost = TRUE], asks |-> TRUE]
    BY <1>4 DEF Drained
  <2>2. [st EXCEPT !.lost = TRUE] \in StageUpTo(n) /\ WrongIsLost([st EXCEPT !.lost = TRUE])
    BY DEF StageUpTo, WrongIsLost
  <2> QED  BY <1>1, <2>1, <2>2
<1>5. CASE /\ ~(~st.mounted \/ st.lost) /\ next # {} /\ v.applied + 1 \in next
           /\ ~Fits(st, v, bad)
  <2>1. Drained(v, st, bad) =
          [view |-> empty, stage |-> [st EXCEPT !.lost = TRUE, !.good = FALSE], asks |-> TRUE]
    BY <1>5 DEF Drained
  <2>2. /\ [st EXCEPT !.lost = TRUE, !.good = FALSE] \in StageUpTo(n)
        /\ WrongIsLost([st EXCEPT !.lost = TRUE, !.good = FALSE])
    BY DEF StageUpTo, WrongIsLost
  <2> QED  BY <1>1, <2>1, <2>2
<1>6. CASE /\ ~(~st.mounted \/ st.lost) /\ next # {} /\ v.applied + 1 \in next
           /\ Fits(st, v, bad)
  <2> DEFINE more == Later(end, next) # {}
             good == st.good /\ st.at = v.applied /\ ~bad
             nextView == [v EXCEPT !.applied = end, !.inbox = {}]
             nextStage == [st EXCEPT !.at = end, !.lost = more, !.good = good]
  <2>1. Drained(v, st, bad) = [view |-> nextView, stage |-> nextStage, asks |-> more]
    BY <1>6 DEF Drained
  <2>2. end \in 0..n
    <3>1. v.applied \in 0..n /\ next \in SUBSET (1..n) /\ n \in Nat
      BY SessionBounds DEF ViewUpTo, Later
    <3>2. end \in v.applied..n
      BY <1>6, <3>1, RunEndIsThere
    <3> QED  BY <3>1, <3>2
  <2>3. good = TRUE /\ more \in BOOLEAN
    BY <1>6 DEF Fits, WrongIsLost, StageUpTo
  <2> HIDE DEF end, more, good
  <2>4. nextView \in ViewUpTo(n)
    BY <2>2 DEF ViewUpTo
  <2>5. nextStage \in StageUpTo(n) /\ WrongIsLost(nextStage)
    BY <2>2, <2>3 DEF StageUpTo, WrongIsLost
  <2> HIDE DEF nextView, nextStage
  <2> QED  BY <2>1, <2>3, <2>4, <2>5
<1> QED  BY <1>2, <1>3, <1>4, <1>5, <1>6

LEMMA AskingKeeps ==
  ASSUME NEW n \in Nat, NEW ss \in SocksUpTo(n), NEW g \in 0..MaxDials, NEW asks \in BOOLEAN
  PROVE  /\ Asking(ss, g, asks) \in SocksUpTo(n)
         /\ \A h \in Dials : Asking(ss, g, asks)[h].browser = ss[h].browser
<1>1. CASE Asking(ss, g, asks) = ss
  BY <1>1
<1>2. CASE g \in Dials /\ Asking(ss, g, asks) = [ss EXCEPT ![g].up = Append(@, "resync")]
  <2> DEFINE new == [ss[g] EXCEPT !.up = Append(@, "resync")]
  <2>1. ss[g] \in SocketUpTo(n) /\ "resync" \in Requests
    BY <1>2 DEF SocksUpTo, Requests
  <2>2. Append(ss[g].up, "resync") \in Seq(Requests)
    BY <2>1, AppendProperties DEF SocketUpTo
  <2>3. new \in SocketUpTo(n) /\ new.browser = ss[g].browser
    BY <2>1, <2>2 DEF SocketUpTo
  <2>4. Asking(ss, g, asks) = [ss EXCEPT ![g] = new]
    BY <1>2 DEF SocksUpTo
  <2> HIDE DEF new
  <2> QED  BY <1>2, <2>3, <2>4 DEF SocksUpTo
<1> QED  BY <1>1, <1>2, SessionBounds DEF Asking, NoSocket, Dials

LEMMA SettleKeeps ==
  ASSUME NEW n \in 0..MaxSeq, NEW v \in ViewUpTo(n), NEW st \in StageUpTo(n), WrongIsLost(st),
         NEW ss \in SocksUpTo(n), NEW g \in 0..MaxDials, drifts \in Nat, Settle(v, st, ss, g)
  PROVE  /\ view' \in ViewUpTo(n) /\ stage' \in StageUpTo(n) /\ WrongIsLost(stage')
         /\ socks' \in SocksUpTo(n) /\ drifts' \in Nat
         /\ \A h \in Dials : socks'[h].browser = ss[h].browser
<1>1. PICK bad \in BOOLEAN :
        /\ drifts' = IF bad THEN drifts + 1 ELSE drifts
        /\ view' = Drained(v, st, bad).view
        /\ stage' = Drained(v, st, bad).stage
        /\ socks' = Asking(ss, g, Drained(v, st, bad).asks)
  BY DEF Settle
<1>2. n \in Nat
  BY SessionBounds
<1>3. Drained(v, st, bad).asks \in BOOLEAN
  BY DrainedKeeps
<1>4. drifts' \in Nat
  BY <1>1
<1> QED  BY <1>1, <1>2, <1>3, <1>4, DrainedKeeps, AskingKeeps

LEMMA ReducedKeeps ==
  ASSUME NEW n \in Nat, NEW v \in ViewUpTo(n), NEW f \in FrameUpTo(n)
  PROVE  Reduced(v, f) \in ViewUpTo(n)
<1>1. NoView \in ViewUpTo(n)
  BY DEF NoView, ViewUpTo, None
<1>2. f.n \in 0..n /\ f.r \in Nat /\ None \in None..n /\ None \in Int
  BY DEF FrameUpTo, None
<1>3. Queued(v, f.n) \in ViewUpTo(n)
  BY <1>2 DEF Queued, Later, ViewUpTo
<1>4. Resolved(v, f.n) \in ViewUpTo(n)
  BY <1>2, <1>3 DEF Resolved, ViewUpTo
<1>5. [NoView EXCEPT !.join = f.n, !.applied = f.n, !.round = f.r] \in ViewUpTo(n)
  <2>1. f.n \in None..n
    BY <1>2 DEF None
  <2>2. ASSUME NEW w \in ViewUpTo(n), NEW i \in 0..n, NEW r \in Int, i \in None..n
        PROVE  [w EXCEPT !.join = i, !.applied = i, !.round = r] \in ViewUpTo(n)
    BY <2>2 DEF ViewUpTo
  <2>3. f.r \in Int
    BY <1>2
  <2> QED  BY <1>1, <1>2, <2>1, <2>2, <2>3
<1>6. /\ [v EXCEPT !.round = f.r] \in ViewUpTo(n)
      /\ [v EXCEPT !.asking = TRUE] \in ViewUpTo(n)
      /\ [v EXCEPT !.asking = FALSE] \in ViewUpTo(n)
      /\ [v EXCEPT !.join = None, !.inbox = {}, !.round = None, !.asking = FALSE] \in ViewUpTo(n)
      /\ [v EXCEPT !.closed = TRUE, !.round = None, !.asking = FALSE] \in ViewUpTo(n)
  <2>1. [v EXCEPT !.round = f.r] \in ViewUpTo(n)
    BY <1>2 DEF ViewUpTo
  <2>2. [v EXCEPT !.asking = TRUE] \in ViewUpTo(n) /\ [v EXCEPT !.asking = FALSE] \in ViewUpTo(n)
    BY DEF ViewUpTo
  <2>3. [v EXCEPT !.join = None, !.inbox = {}, !.round = None, !.asking = FALSE] \in ViewUpTo(n)
    BY <1>2 DEF ViewUpTo
  <2>4. [v EXCEPT !.closed = TRUE, !.round = None, !.asking = FALSE] \in ViewUpTo(n)
    BY <1>2 DEF ViewUpTo
  <2> QED  BY <2>1, <2>2, <2>3, <2>4
<1> QED  BY <1>3, <1>4, <1>5, <1>6 DEF Reduced, FrameUpTo

-----------------------------------------------------------------------------
(* The server *)

\* What the server does leaves the browser as it is.
LEMMA ServerStep ==
  ASSUME SessionInv, UNCHANGED <<client, view, stage, drifts>>,
         world' \in Company, world.seq <= world'.seq, socks' \in SocksUpTo(world'.seq),
         \A g \in Dials : socks'[g].browser = socks[g].browser
  PROVE  SessionInv'
<1>1. world.seq \in Nat /\ world'.seq \in Nat
  BY SessionBounds DEF SessionInv, Types, Company
<1>2. Types'
  BY <1>1, DataGrow DEF SessionInv, Types
<1>3. OneSocket'
  BY DEF SessionInv, OneSocket, Connected
<1>4. Undialled'
  BY DEF SessionInv, Undialled
<1> QED  BY <1>2, <1>3, <1>4 DEF SessionInv

LEMMA MovedKeeps ==
  ASSUME NEW w \in Company, NEW outcome \in Outcomes
  PROVE  Moved(w, outcome) \in Company /\ Moved(w, outcome).seq = w.seq
BY DEF Moved, Company, Outcomes

LEMMA ToldFrames ==
  ASSUME NEW w, NEW n \in Nat, NEW frames \in Seq(FrameUpTo(n)), NEW outcome \in Outcomes
  PROVE  Told(w, frames, outcome) \in Seq(FrameUpTo(n))
<1> DEFINE S == FrameUpTo(n)
<1>1. Say("ask") \in S /\ Say("left") \in S /\ Say("closed") \in S
  BY IsSaid
<1> HIDE DEF S
<1>2. /\ Append(frames, Say("ask")) \in Seq(S) /\ <<Say("left")>> \in Seq(S)
      /\ Append(frames, Say("closed")) \in Seq(S) /\ <<>> \in Seq(S)
  <2>1. frames \in Seq(S)
    BY DEF S
  <2> QED  BY <1>1, <2>1, AppendProperties, OneFrame
<1> QED  BY <1>2 DEF Told, Outcomes, S

LEMMA OpensKeeps ==
  ASSUME SessionInv, NEW g \in Dials, ServerOpens(g) \/ ServerCloses(g)
  PROVE  SessionInv'
<1>1. world.seq \in Nat /\ world \in Company /\ socks \in SocksUpTo(world.seq) /\ socks[g] \in SocketUpTo(world.seq)
  BY SessionBounds DEF SessionInv, Types, Company, SocksUpTo
<1>2. CASE ServerOpens(g)
  <2> DEFINE new == [socks[g] EXCEPT !.server = "open"]
  <2>1. socks' = [socks EXCEPT ![g] = new] /\ UNCHANGED <<client, view, stage, world, drifts>>
    BY <1>1, <1>2 DEF ServerOpens, SocksUpTo
  <2>2. new \in SocketUpTo(world.seq) /\ new.browser = socks[g].browser
    BY <1>1 DEF SocketUpTo
  <2> HIDE DEF new
  <2>3. socks' \in SocksUpTo(world.seq) /\ \A h \in Dials : socks'[h].browser = socks[h].browser
    BY <1>1, <2>1, <2>2 DEF SocksUpTo
  <2> QED  BY <1>1, <2>1, <2>3, ServerStep
<1>3. CASE ServerCloses(g)
  <2> DEFINE new == [socks[g] EXCEPT !.server = "gone", !.up = <<>>]
  <2>1. socks' = [socks EXCEPT ![g] = new] /\ UNCHANGED <<client, view, stage, drifts>>
    BY <1>1, <1>3 DEF ServerCloses, SocksUpTo
  <2>2. new \in SocketUpTo(world.seq) /\ new.browser = socks[g].browser
    <3>1. <<>> \in Seq(Requests)
      OBVIOUS
    <3> QED  BY <1>1, <3>1 DEF SocketUpTo
  <2> HIDE DEF new
  <2>3. socks' \in SocksUpTo(world.seq) /\ \A h \in Dials : socks'[h].browser = socks[h].browser
    BY <1>1, <2>1, <2>2 DEF SocksUpTo
  <2>4. world' \in Company /\ world'.seq = world.seq
    BY <1>1, <1>3 DEF ServerCloses, Company
  <2> QED  BY <1>1, <2>1, <2>3, <2>4, ServerStep
<1> QED  BY <1>2, <1>3

\* A frame heard is off the socket.
LEMMA HeardKeeps ==
  ASSUME NEW n \in Nat, NEW ss \in SocksUpTo(n), NEW g \in Dials, ss[g].up # <<>>
  PROVE  LET heard == [ss EXCEPT ![g].up = Tail(@)]
         IN heard \in SocksUpTo(n) /\ \A h \in Dials : heard[h].browser = ss[h].browser
<1> DEFINE new == [ss[g] EXCEPT !.up = Tail(@)]
<1>1. ss[g] \in SocketUpTo(n)
  BY DEF SocksUpTo
<1>2. Tail(ss[g].up) \in Seq(Requests)
  BY <1>1 DEF SocketUpTo
<1>3. new \in SocketUpTo(n) /\ new.browser = ss[g].browser
  BY <1>1, <1>2 DEF SocketUpTo
<1>4. [ss EXCEPT ![g].up = Tail(@)] = [ss EXCEPT ![g] = new]
  BY DEF SocksUpTo
<1> HIDE DEF new
<1> QED  BY <1>3, <1>4 DEF SocksUpTo

LEMMA HelloKeeps ==
  ASSUME world \in Company, NEW g \in Dials, NEW ss \in SocksUpTo(world.seq), Hello(g, ss)
  PROVE  /\ world' \in Company /\ world'.seq = world.seq /\ socks' \in SocksUpTo(world.seq)
         /\ \A h \in Dials : socks'[h].browser = ss[h].browser
<1>1. world.seq \in Nat /\ ss[g] \in SocketUpTo(world.seq)
  BY SessionBounds DEF Company, SocksUpTo
<1> DEFINE S == FrameUpTo(world.seq)
<1>2. /\ Say("outdated") \in S /\ Say("welcome") \in S
      /\ ss[g].down \in Seq(S) /\ Joined(world) \in Seq(S)
  <2>1. Say("outdated") \in S /\ Say("welcome") \in S
    BY <1>1, IsSaid
  <2>2. ss[g].down \in Seq(S)
    BY <1>1 DEF SocketUpTo
  <2> QED  BY <2>1, <2>2, JoinedFrames
<1>3. ASSUME NEW down \in Seq(S), NEW server \in {"closing", "hello"},
             socks' = [ss EXCEPT ![g] = [ss[g] EXCEPT !.server = server, !.down = down]]
      PROVE  /\ socks' \in SocksUpTo(world.seq)
             /\ \A h \in Dials : socks'[h].browser = ss[h].browser
  <2> DEFINE new == [ss[g] EXCEPT !.server = server, !.down = down]
  <2>1. new \in SocketUpTo(world.seq) /\ new.browser = ss[g].browser
    BY <1>1 DEF SocketUpTo
  <2>2. socks' = [ss EXCEPT ![g] = new]
    BY <1>3
  <2> HIDE DEF new
  <2> QED  BY <1>1, <2>1, <2>2 DEF SocksUpTo
<1>4. CASE /\ socks' = [ss EXCEPT ![g].server = "closing", ![g].down = Append(@, Say("outdated"))]
           /\ UNCHANGED world
  <2> HIDE DEF S
  <2>1. Append(ss[g].down, Say("outdated")) \in Seq(S)
    BY <1>2, AppendProperties
  <2>2. socks' = [ss EXCEPT ![g] = [ss[g] EXCEPT !.server = "closing", !.down = Append(ss[g].down, Say("outdated"))]]
    BY <1>4 DEF SocksUpTo
  <2> QED  BY <1>3, <1>4, <2>1, <2>2
<1>5. CASE LET answer == HelloAnswer(g)
           IN /\ socks' = [ss EXCEPT ![g].server = "hello",
                                     ![g].down = Append(@, Say("welcome"))
                                       \o (IF answer.seated THEN Joined(world) ELSE <<>>)]
              /\ world' = [world EXCEPT !.online = answer.online]
  <2> HIDE DEF S
  <2> DEFINE company == IF HelloAnswer(g).seated THEN Joined(world) ELSE <<>>
             down == Append(ss[g].down, Say("welcome")) \o company
  <2>1. Append(ss[g].down, Say("welcome")) \in Seq(S) /\ company \in Seq(S)
    BY <1>2, AppendProperties, OneFrame
  <2> HIDE DEF company
  <2>2. down \in Seq(S)
    BY <2>1, ConcatProperties
  <2>3. socks' = [ss EXCEPT ![g] = [ss[g] EXCEPT !.server = "hello", !.down = down]]
    BY <1>5 DEF SocksUpTo, company
  <2>4. HelloAnswer(g).online \in BOOLEAN
    BY DEF HelloAnswer, Company
  <2>5. world' \in Company /\ world'.seq = world.seq
    BY <1>5, <2>4 DEF Company
  <2> QED  BY <1>3, <2>2, <2>3, <2>5
<1> QED  BY <1>4, <1>5 DEF Hello

LEMMA JoinKeeps ==
  ASSUME world \in Company, NEW ss \in SocksUpTo(world.seq), JoinCompany(ss) \/ LeaveCompany(ss)
  PROVE  /\ world' \in Company /\ world.seq <= world'.seq /\ socks' \in SocksUpTo(world'.seq)
         /\ \A h \in Dials : socks'[h].browser = ss[h].browser
<1>1. world.seq \in Nat /\ MaxSeq \in Nat /\ world.seq <= MaxSeq
  BY SessionBounds DEF Company
<1>2. CASE socks' = ss /\ UNCHANGED world
  BY <1>1, <1>2
<1>3. ASSUME NEW w \in Company, w.seq = world.seq + 1, world' = w,
             NEW frames \in Seq(FrameUpTo(w.seq)), socks' = Delivered(ss, frames)
      PROVE  /\ world' \in Company /\ world.seq <= world'.seq /\ socks' \in SocksUpTo(world'.seq)
             /\ \A h \in Dials : socks'[h].browser = ss[h].browser
  <2>1. ss \in SocksUpTo(w.seq) /\ w.seq \in Nat
    BY <1>1, <1>3, SocksGrow
  <2> QED  BY <1>1, <1>3, <2>1, DeliveredKeeps
<1>4. ASSUME JoinCompany(ss), ~(socks' = ss /\ UNCHANGED world)
      PROVE  /\ world' \in Company /\ world.seq <= world'.seq /\ socks' \in SocksUpTo(world'.seq)
             /\ \A h \in Dials : socks'[h].browser = ss[h].browser
  <2>1. world.seq # MaxSeq
    BY <1>4 DEF JoinCompany
  <2>2. PICK asks \in {world.asking, TRUE} :
          LET w == [world EXCEPT !.seat = TRUE, !.seq = world.seq + 1, !.asking = asks]
          IN world' = w /\ socks' = Delivered(ss, Joined(w))
    BY <1>4 DEF JoinCompany
  <2> DEFINE w == [world EXCEPT !.seat = TRUE, !.seq = world.seq + 1, !.asking = asks]
  <2>3. w \in Company /\ w.seq = world.seq + 1
    <3>1. asks \in BOOLEAN
      BY DEF Company
    <3>2. world.seq + 1 \in 0..MaxSeq /\ world \in Company
      BY <1>1, <2>1
    <3>3. ASSUME NEW n \in 0..MaxSeq, NEW asking \in BOOLEAN
          PROVE  LET new == [world EXCEPT !.seat = TRUE, !.seq = n, !.asking = asking]
                 IN new \in Company /\ new.seq = n
      BY <3>3 DEF Company
    <3> QED  BY <3>1, <3>2, <3>3
  <2>4. world' = w /\ socks' = Delivered(ss, Joined(w))
    BY <2>2
  <2> HIDE DEF w
  <2> QED  BY <1>3, <2>3, <2>4, JoinedFrames
<1>5. ASSUME LeaveCompany(ss), ~(socks' = ss /\ UNCHANGED world)
      PROVE  /\ world' \in Company /\ world.seq <= world'.seq /\ socks' \in SocksUpTo(world'.seq)
             /\ \A h \in Dials : socks'[h].browser = ss[h].browser
  <2>1. world.seq # MaxSeq
    BY <1>5 DEF LeaveCompany
  <2>2. PICK outcome \in {"out", "closed"} :
          /\ world' = Moved([world EXCEPT !.seq = world.seq + 1], outcome)
          /\ socks' = Delivered(ss, <<Say("left")>>)
    BY <1>5 DEF LeaveCompany
  <2> DEFINE moved == [world EXCEPT !.seq = world.seq + 1]
             w == Moved(moved, outcome)
  <2>3. moved \in Company /\ moved.seq = world.seq + 1
    BY <1>1, <2>1 DEF Company
  <2> HIDE DEF moved
  <2>4. w \in Company /\ w.seq = world.seq + 1
    BY <2>3, MovedKeeps DEF Outcomes
  <2>5. world' = w /\ socks' = Delivered(ss, <<Say("left")>>)
    BY <2>2 DEF moved
  <2> HIDE DEF w
  <2>6. <<Say("left")>> \in Seq(FrameUpTo(w.seq))
    <3> DEFINE S == FrameUpTo(w.seq)
    <3>1. Say("left") \in S
      BY <1>1, <2>4, IsSaid
    <3> HIDE DEF S
    <3>2. <<Say("left")>> \in Seq(S)
      BY <3>1, OneFrame
    <3> QED  BY <3>2 DEF S
  <2> QED  BY <1>3, <2>4, <2>5, <2>6
<1> QED  BY <1>2, <1>4, <1>5

LEMMA HearsKeeps ==
  ASSUME SessionInv, NEW g \in Dials, ServerHears(g)
  PROVE  SessionInv'
<1>1. world.seq \in Nat /\ world \in Company /\ socks \in SocksUpTo(world.seq)
  BY SessionBounds DEF SessionInv, Types, Company
<1> DEFINE ss == [socks EXCEPT ![g].up = Tail(@)]
<1>2. ss \in SocksUpTo(world.seq) /\ \A h \in Dials : ss[h].browser = socks[h].browser
  BY <1>1, HeardKeeps DEF ServerHears
<1>3. /\ UNCHANGED <<client, view, stage, drifts>>
      /\ \/ Hello(g, ss)
         \/ socks' = Delivered(ss, Joined(world)) /\ UNCHANGED world
         \/ JoinCompany(ss) \/ LeaveCompany(ss)
         \/ socks' = ss /\ UNCHANGED world
  BY DEF ServerHears
<1> HIDE DEF ss
<1>4. /\ world' \in Company /\ world.seq <= world'.seq /\ socks' \in SocksUpTo(world'.seq)
      /\ \A h \in Dials : socks'[h].browser = ss[h].browser
  <2>1. CASE Hello(g, ss)
    BY <1>1, <1>2, <2>1, HelloKeeps
  <2>2. CASE socks' = Delivered(ss, Joined(world)) /\ UNCHANGED world
    BY <1>1, <1>2, <2>2, JoinedFrames, DeliveredKeeps
  <2>3. CASE JoinCompany(ss) \/ LeaveCompany(ss)
    BY <1>1, <1>2, <2>3, JoinKeeps
  <2>4. CASE socks' = ss /\ UNCHANGED world
    BY <1>1, <1>2, <2>4
  <2> QED  BY <1>3, <2>1, <2>2, <2>3, <2>4
<1> QED  BY <1>2, <1>3, <1>4, ServerStep

LEMMA NextEntry ==
  ASSUME world \in Company, world.seq < MaxSeq, NEW asking \in BOOLEAN, NEW round \in Nat
  PROVE  LET w == [world EXCEPT !.seq = world.seq + 1, !.asking = asking, !.round = round]
         IN w \in Company /\ w.seq = world.seq + 1
<1>1. world.seq + 1 \in 0..MaxSeq
  BY SessionBounds DEF Company
<1> QED  BY <1>1 DEF Company

\* An entry is in the log before any frame is about it.
LEMMA EntryKeeps ==
  ASSUME SessionInv, UNCHANGED <<client, view, stage, drifts>>, NEW w \in Company, w.seq = world.seq + 1,
         NEW outcome \in Outcomes, NEW said \in Seq(FrameUpTo(w.seq)), NEW opens \in Seq(FrameUpTo(w.seq)),
         world' = Moved(w, outcome), socks' = Delivered(socks, Told(world, said, outcome) \o opens)
  PROVE  SessionInv'
<1>1. world.seq \in Nat /\ w.seq \in Nat /\ socks \in SocksUpTo(world.seq)
  BY SessionBounds DEF SessionInv, Types, Company
<1>2. socks \in SocksUpTo(w.seq)
  BY <1>1, SocksGrow
<1> DEFINE S == FrameUpTo(w.seq)
           frames == Told(world, said, outcome) \o opens
<1>3. frames \in Seq(S)
  <2>1. Told(world, said, outcome) \in Seq(S)
    BY <1>1, ToldFrames
  <2>2. opens \in Seq(S)
    OBVIOUS
  <2> HIDE DEF S
  <2> QED  BY <2>1, <2>2, ConcatProperties
<1> HIDE DEF frames
<1>4. socks' = Delivered(socks, frames)
  BY DEF frames
<1>5. /\ socks' \in SocksUpTo(w.seq)
      /\ \A g \in Dials : socks'[g].browser = socks[g].browser
  BY <1>1, <1>2, <1>3, <1>4, DeliveredKeeps
<1>6. world' \in Company /\ world'.seq = w.seq
  BY MovedKeeps
<1> QED  BY <1>1, <1>5, <1>6, ServerStep

LEMMA EntryFrames ==
  ASSUME NEW n \in Nat, NEW r \in Nat
  PROVE  /\ <<Say("result"), F("entry", n, 0)>> \in Seq(FrameUpTo(n))
         /\ <<F("entry", n, 0)>> \in Seq(FrameUpTo(n))
         /\ <<F("resolved", n, 0)>> \in Seq(FrameUpTo(n))
         /\ <<F("open", 0, r)>> \in Seq(FrameUpTo(n))
         /\ <<>> \in Seq(FrameUpTo(n))
<1> DEFINE S == FrameUpTo(n)
<1>1. /\ Say("result") \in S /\ F("entry", n, 0) \in S /\ F("resolved", n, 0) \in S
      /\ F("open", 0, r) \in S
  BY IsAFrame, IsSaid
<1> HIDE DEF S
<1>2. /\ <<Say("result"), F("entry", n, 0)>> \in Seq(S) /\ <<F("entry", n, 0)>> \in Seq(S)
      /\ <<F("resolved", n, 0)>> \in Seq(S) /\ <<F("open", 0, r)>> \in Seq(S) /\ <<>> \in Seq(S)
  BY <1>1, OneFrame
<1> QED  BY <1>2 DEF S

LEMMA TickKeeps ==
  ASSUME SessionInv, Tick \/ OthersEntry
  PROVE  SessionInv'
<1>1. /\ world \in Company /\ world.seq < MaxSeq /\ world.asking \in BOOLEAN /\ world.round \in Nat
      /\ world.seq \in Nat /\ UNCHANGED <<client, view, stage, drifts>>
  <2>1. world \in Company
    BY DEF SessionInv, Types
  <2>2. world.asking \in BOOLEAN /\ world.round \in Nat /\ world.seq \in Nat
    BY <2>1, SessionBounds DEF Company
  <2>3. world.seq < MaxSeq /\ UNCHANGED <<client, view, stage, drifts>>
    BY DEF Tick, OthersEntry
  <2> QED  BY <2>1, <2>2, <2>3
<1>2. CASE Tick
  <2> DEFINE round == IF world.asking THEN world.round ELSE world.round + 1
             w == [world EXCEPT !.seq = world.seq + 1, !.asking = FALSE, !.round = round]
             said == IF world.asking THEN <<Say("result"), F("entry", w.seq, 0)>>
                     ELSE <<F("resolved", w.seq, 0)>>
             after(outcome) == Moved(w, outcome)
             opens(outcome) == IF after(outcome).alive /\ after(outcome).seat /\ ~after(outcome).asking
                               THEN <<F("open", 0, after(outcome).round)>> ELSE <<>>
  <2>1. PICK outcome \in Outcomes :
          /\ world' = Moved(w, outcome)
          /\ socks' = Delivered(socks, Told(world, said, outcome) \o opens(outcome))
    BY <1>2 DEF Tick
  <2>2. round \in Nat
    BY <1>1
  <2> HIDE DEF round
  <2>3. w \in Company /\ w.seq = world.seq + 1
    BY <1>1, <2>2, NextEntry
  <2> HIDE DEF w
  <2>4. w.seq \in Nat /\ after(outcome).round \in Nat
    BY <1>1, <2>3, MovedKeeps DEF Company
  <2>5. said \in Seq(FrameUpTo(w.seq)) /\ opens(outcome) \in Seq(FrameUpTo(w.seq))
    BY <2>4, EntryFrames
  <2> HIDE DEF said, opens, after
  <2> QED  BY <1>1, <2>1, <2>3, <2>5, EntryKeeps
<1>3. CASE OthersEntry
  <2>1. PICK settles \in BOOLEAN, outcome \in Outcomes :
          LET w == [world EXCEPT !.seq = world.seq + 1, !.asking = world.asking /\ ~settles]
              entry == F("entry", w.seq, 0)
              said == IF settles THEN <<Say("result"), entry>> ELSE <<entry>>
          IN world' = Moved(w, outcome) /\ socks' = Delivered(socks, Told(world, said, outcome))
    BY <1>3 DEF OthersEntry
  <2> DEFINE asking == world.asking /\ ~settles
             w == [world EXCEPT !.seq = world.seq + 1, !.asking = asking]
             said == IF settles THEN <<Say("result"), F("entry", w.seq, 0)>> ELSE <<F("entry", w.seq, 0)>>
  <2>2. world' = Moved(w, outcome) /\ socks' = Delivered(socks, Told(world, said, outcome))
    BY <2>1
  <2>3. asking \in BOOLEAN /\ world.seq + 1 \in 0..MaxSeq
    <3>1. asking \in BOOLEAN
      OBVIOUS
    <3>2. world.seq + 1 \in 0..MaxSeq
      BY <1>1, SessionBounds
    <3> QED  BY <3>1, <3>2
  <2> HIDE DEF asking
  <2>4. w \in Company /\ w.seq = world.seq + 1
    BY <1>1, <2>3 DEF Company
  <2> HIDE DEF w
  <2>5. w.seq \in Nat
    BY <1>1, <2>4
  <2>6. said \in Seq(FrameUpTo(w.seq)) /\ <<>> \in Seq(FrameUpTo(w.seq))
    BY <2>5, EntryFrames
  <2> HIDE DEF said
  <2>7. Told(world, said, outcome) \o <<>> = Told(world, said, outcome)
    <3> DEFINE S == FrameUpTo(w.seq)
    <3>1. Told(world, said, outcome) \in Seq(S)
      BY <2>5, <2>6, ToldFrames
    <3> HIDE DEF S
    <3> QED  BY <3>1, ConcatEmptySeq
  <2> QED  BY <1>1, <2>2, <2>4, <2>6, <2>7, EntryKeeps
<1> QED  BY <1>2, <1>3

-----------------------------------------------------------------------------
(* The browser *)

LEMMA StageKeeps ==
  ASSUME SessionInv, Unmount \/ Mount \/ BackToLobby
  PROVE  SessionInv'
<1>1. /\ world.seq \in 0..MaxSeq /\ world.seq \in Nat /\ world \in Company /\ socks \in SocksUpTo(world.seq)
      /\ view \in ViewUpTo(world.seq) /\ stage \in StageUpTo(world.seq) /\ drifts \in Nat
      /\ client \in Client /\ client.socket \in 0..MaxDials
  BY SessionBounds DEF SessionInv, Types, Company, Client
<1>2. UNCHANGED <<client, world>>
  BY DEF Unmount, Mount, BackToLobby
<1>3. NoStage \in StageUpTo(world.seq) /\ NoStage.good = TRUE
  BY <1>1 DEF NoStage, StageUpTo
<1>4. ASSUME socks' \in SocksUpTo(world.seq), view' \in ViewUpTo(world.seq), stage' \in StageUpTo(world.seq),
             drifts' \in Nat, WrongIsLost(stage'), \A g \in Dials : socks'[g].browser = socks[g].browser
      PROVE  SessionInv'
  <2>1. OneSocket' /\ Undialled'
    BY <1>2, <1>4 DEF SessionInv, OneSocket, Undialled, Connected
  <2> QED  BY <1>1, <1>2, <1>4, <2>1 DEF SessionInv, Types
<1>5. CASE Unmount
  BY <1>1, <1>3, <1>4, <1>5 DEF Unmount, WrongIsLost
<1>6. CASE BackToLobby
  <2>1. [NoView EXCEPT !.applied = view.applied] \in ViewUpTo(world.seq)
    <3>1. NoView \in ViewUpTo(world.seq)
      BY <1>1 DEF NoView, ViewUpTo, None
    <3>2. view.applied \in 0..world.seq
      BY <1>1 DEF ViewUpTo
    <3>3. ASSUME NEW v \in ViewUpTo(world.seq), NEW n \in 0..world.seq
          PROVE  [v EXCEPT !.applied = n] \in ViewUpTo(world.seq)
      BY <3>3 DEF ViewUpTo
    <3> QED  BY <3>1, <3>2, <3>3
  <2> QED  BY <1>1, <1>4, <1>6, <2>1 DEF BackToLobby, SessionInv
<1>7. CASE Mount
  <2> DEFINE st == [NoStage EXCEPT !.mounted = TRUE, !.fresh = TRUE, !.at = view.join]
  <2>1. view.join \in 0..world.seq
    BY <1>1, <1>7 DEF Mount, ViewUpTo, None
  <2>2. st \in StageUpTo(world.seq) /\ st.good = TRUE
    BY <1>3, <2>1 DEF StageUpTo
  <2>3. Settle(view, st, socks, client.socket)
    BY <1>7 DEF Mount
  <2> HIDE DEF st
  <2>4. WrongIsLost(st)
    BY <2>2 DEF WrongIsLost
  <2> QED  BY <1>1, <1>4, <2>2, <2>3, <2>4, SettleKeeps
<1> QED  BY <1>5, <1>6, <1>7

\* A step of the connection: the client and the browser's ends of sockets.
LEMMA ClientStep ==
  ASSUME SessionInv, UNCHANGED <<view, stage, world, drifts>>, client' \in Client,
         socks' \in SocksUpTo(world.seq), OneSocket', Undialled'
  PROVE  SessionInv'
BY DEF SessionInv, Types

LEMMA DialKeeps ==
  ASSUME NEW c \in Client, c.dials < MaxDials
  PROVE  /\ Dialled(c) \in Client
         /\ Dialled(c).gen = c.dials + 1 /\ Dialled(c).held = c.held /\ Dialled(c).retry = c.retry
         /\ Dialled(c).socket = c.socket /\ Dialled(c).dials = c.dials + 1
         /\ Dialled(c).fetching = c.fetching \cup {c.dials + 1}
<1> DEFINE status == IF c.again THEN "reconnecting" ELSE "connecting"
           d == c.dials + 1
           fetching == c.fetching \cup {d}
<1>1. /\ d \in 0..MaxDials /\ fetching \in SUBSET Dials
      /\ status \in {"reconnecting", "connecting"}
  BY SessionBounds DEF Client, Dials
<1>2. Dialled(c) = [c EXCEPT !.dials = d, !.gen = d, !.fetching = fetching, !.status = status]
  BY DEF Dialled
<1> HIDE DEF status, d, fetching
<1>3. /\ Dialled(c) \in Client /\ Dialled(c).gen = d /\ Dialled(c).held = c.held
      /\ Dialled(c).retry = c.retry /\ Dialled(c).socket = c.socket
      /\ Dialled(c).dials = d /\ Dialled(c).fetching = fetching
  BY <1>1, <1>2 DEF Client
<1> QED  BY <1>3 DEF d, fetching

LEMMA ShutKeeps ==
  ASSUME NEW n \in Nat, NEW ss \in SocksUpTo(n), NEW g \in 0..MaxDials
  PROVE  /\ Shut(ss, g) \in SocksUpTo(n)
         /\ \A h \in Dials : Shut(ss, g)[h].browser = IF h = g THEN "closing" ELSE ss[h].browser
<1>1. CASE g = NoSocket
  BY <1>1 DEF Shut, Dials, NoSocket
<1>2. CASE g # NoSocket
  <2> DEFINE new == [ss[g] EXCEPT !.browser = "closing", !.down = <<>>]
  <2>1. g \in Dials
    BY <1>2, SessionBounds DEF Dials, NoSocket
  <2>2. ss[g] \in SocketUpTo(n) /\ <<>> \in Seq(FrameUpTo(n))
    BY <2>1 DEF SocksUpTo
  <2>3. new \in SocketUpTo(n) /\ new.browser = "closing"
    BY <2>2 DEF SocketUpTo
  <2>4. Shut(ss, g) = [ss EXCEPT ![g] = new]
    BY <1>2, <2>1 DEF Shut, SocksUpTo
  <2> HIDE DEF new
  <2> QED  BY <2>1, <2>3, <2>4 DEF SocksUpTo
<1> QED  BY <1>1, <1>2

\* What the invariant says of a socket and of the client.
LEMMA Facts ==
  ASSUME SessionInv
  PROVE  /\ world.seq \in Nat /\ world.seq \in 0..MaxSeq /\ world \in Company
         /\ socks \in SocksUpTo(world.seq) /\ client \in Client
         /\ view \in ViewUpTo(world.seq) /\ stage \in StageUpTo(world.seq) /\ drifts \in Nat
         /\ \A g \in Dials : socks[g] \in SocketUpTo(world.seq)
         /\ client.gen \in 0..MaxDials /\ client.socket \in 0..MaxDials
         /\ client.fetching \subseteq Dials /\ client.dials \in 0..MaxDials
         /\ NoSocket \notin Dials /\ Dials \subseteq 0..MaxDials
<1>1. /\ world \in Company /\ socks \in SocksUpTo(world.seq) /\ client \in Client
      /\ view \in ViewUpTo(world.seq) /\ stage \in StageUpTo(world.seq) /\ drifts \in Nat
  BY DEF SessionInv, Types
<1>2. world.seq \in Nat /\ world.seq \in 0..MaxSeq
  BY <1>1, SessionBounds DEF Company
<1>3. \A g \in Dials : socks[g] \in SocketUpTo(world.seq)
  BY <1>1 DEF SocksUpTo
<1>4. /\ client.gen \in 0..MaxDials /\ client.socket \in 0..MaxDials
      /\ client.fetching \subseteq Dials /\ client.dials \in 0..MaxDials
  BY <1>1 DEF Client
<1>5. NoSocket \notin Dials /\ Dials \subseteq 0..MaxDials
  BY SessionBounds DEF NoSocket, Dials
<1> QED  BY <1>1, <1>2, <1>3, <1>4, <1>5

LEMMA HoldKeeps ==
  ASSUME SessionInv, Retain \/ Release \/ RetryFires
  PROVE  SessionInv'
<1> USE Facts
<1>1. UNCHANGED <<view, stage, world, drifts>>
  BY DEF Retain, Release, RetryFires
<1>2. ASSUME NEW c \in Client, c.dials < MaxDials, c.held, c.gen = client.gen, c.socket = NoSocket,
             ~c.retry, c.dials = client.dials, c.fetching = client.fetching, client.socket = NoSocket, client' = Dialled(c), UNCHANGED socks
      PROVE  SessionInv'
  <2>1. /\ client' \in Client /\ client'.held = c.held /\ client'.retry = c.retry
        /\ client'.socket = NoSocket /\ client'.dials = client.dials + 1 /\ client'.gen = client.dials + 1
        /\ client'.fetching = client.fetching \cup {client.dials + 1}
    BY <1>2, DialKeeps
  <2>2. OneSocket'
    BY <1>2, <2>1 DEF SessionInv, OneSocket, Connected
  <2>3. Undialled'
    <3>1. client.dials \in Nat /\ Dials \subseteq Nat /\ client.fetching \subseteq Nat
      BY SessionBounds DEF Dials
    <3> QED  BY <1>2, <2>1, <3>1 DEF SessionInv, Undialled
  <2> QED  BY <1>1, <1>2, <2>1, <2>2, <2>3, ClientStep
<1>3. CASE Retain
  <2> DEFINE c == [client EXCEPT !.held = TRUE, !.terminal = FALSE]
  <2>1. client' = Dialled(c) /\ UNCHANGED socks /\ ~client.held /\ client.dials < MaxDials
    BY <1>3 DEF Retain
  <2>2. client.gen = NoSocket /\ ~client.retry /\ client.socket = NoSocket
    BY <2>1 DEF SessionInv, OneSocket
  <2>3. c \in Client /\ c.held /\ c.gen = client.gen /\ c.socket = client.socket
        /\ c.retry = client.retry /\ c.dials = client.dials /\ c.fetching = client.fetching
    BY DEF Client
  <2> HIDE DEF c
  <2> QED  BY <1>2, <2>1, <2>2, <2>3
<1>4. CASE Release
  <2>1. /\ client' = [client EXCEPT !.held = FALSE, !.gen = NoSocket, !.retry = FALSE,
                                    !.socket = NoSocket, !.again = FALSE, !.status = "idle"]
        /\ socks' = Shut(socks, client.socket)
    BY <1>4 DEF Release
  <2>2. /\ client' \in Client /\ client'.gen = NoSocket /\ ~client'.retry /\ client'.socket = NoSocket
        /\ client'.fetching = client.fetching /\ client'.dials = client.dials
    <3>1. NoSocket \in 0..MaxDials
      BY SessionBounds DEF NoSocket
    <3> QED  BY <2>1, <3>1 DEF Client
  <2>3. /\ socks' \in SocksUpTo(world.seq)
        /\ \A g \in Dials : socks'[g].browser = IF g = client.socket THEN "closing" ELSE socks[g].browser
    BY <2>1, ShutKeeps
  <2>4. \A g \in Dials : ~Connected(g)'
    BY <2>3 DEF SessionInv, OneSocket, Connected
  <2>5. OneSocket'
    BY <2>2, <2>4 DEF OneSocket
  <2>6. client.socket # NoSocket => client.socket <= client.dials /\ client.socket \notin client.fetching
    BY DEF SessionInv, OneSocket, Undialled
  <2>7. Undialled'
    <3>1. client.dials \in Nat
      BY SessionBounds
    <3> QED  BY <2>2, <2>3, <2>6, <3>1 DEF SessionInv, Undialled, NoSocket
  <2> QED  BY <1>1, <2>2, <2>3, <2>5, <2>7, ClientStep
<1>5. CASE RetryFires
  <2> DEFINE c == [client EXCEPT !.retry = FALSE]
  <2>1. /\ client' = IF client.held /\ ~client.terminal THEN Dialled(c) ELSE c
        /\ UNCHANGED socks /\ client.dials < MaxDials
    BY <1>5 DEF RetryFires
  <2>2. client.held /\ client.socket = NoSocket
    BY <1>5 DEF RetryFires, SessionInv, OneSocket
  <2>3. /\ c \in Client /\ c.held = client.held /\ c.gen = client.gen /\ c.socket = client.socket
        /\ ~c.retry /\ c.dials = client.dials /\ c.fetching = client.fetching
    BY DEF Client
  <2> HIDE DEF c
  <2>4. CASE client' = Dialled(c)
    BY <1>2, <2>1, <2>2, <2>3, <2>4
  <2>5. CASE client' = c
    <3>1. OneSocket'
      BY <2>1, <2>2, <2>3, <2>5 DEF SessionInv, OneSocket, Connected
    <3>2. Undialled'
      BY <2>1, <2>3, <2>5 DEF SessionInv, Undialled
    <3> QED  BY <1>1, <2>1, <2>3, <2>5, <3>1, <3>2, ClientStep
  <2> QED  BY <2>1, <2>4, <2>5
<1> QED  BY <1>3, <1>4, <1>5

LEMMA TicketKeeps ==
  ASSUME SessionInv, NEW g \in Dials, TicketAnswered(g)
  PROVE  SessionInv'
<1> USE Facts
<1> DEFINE fetching == client.fetching \ {g}
           c == [client EXCEPT !.fetching = fetching]
<1>1. UNCHANGED <<view, stage, world, drifts>> /\ g \in client.fetching
  BY DEF TicketAnswered
<1>2. /\ c \in Client /\ c.fetching = fetching /\ c.held = client.held /\ c.gen = client.gen
      /\ c.socket = client.socket /\ c.retry = client.retry /\ c.dials = client.dials
  BY DEF Client
<1>3. \/ client' = c /\ UNCHANGED socks
      \/ /\ g = client.gen
         /\ client' = [c EXCEPT !.socket = g]
         /\ socks' = [socks EXCEPT ![g].browser = "opening"]
      \/ /\ g = client.gen
         /\ client' \in {Stopped(c, "closed"), Stopped(c, "disabled"), Backoff(c)}
         /\ UNCHANGED socks
  BY DEF TicketAnswered, TicketCurrent
<1> HIDE DEF c
<1>4. CASE client' = c /\ UNCHANGED socks
  <2>1. OneSocket'
    BY <1>2, <1>4 DEF SessionInv, OneSocket, Connected
  <2>2. Undialled'
    BY <1>2, <1>4 DEF SessionInv, Undialled
  <2> QED  BY <1>1, <1>2, <1>4, <2>1, <2>2, ClientStep
<1>5. ASSUME g = client.gen
      PROVE  client.socket = NoSocket /\ ~client.retry /\ client.held /\ \A h \in Dials : ~Connected(h)
  BY <1>1, <1>5 DEF SessionInv, OneSocket
<1>6. CASE /\ g = client.gen
           /\ client' = [c EXCEPT !.socket = g]
           /\ socks' = [socks EXCEPT ![g].browser = "opening"]
  <2> DEFINE new == [socks[g] EXCEPT !.browser = "opening"]
  <2>1. new \in SocketUpTo(world.seq) /\ new.browser = "opening"
    BY DEF SocketUpTo
  <2>2. socks' = [socks EXCEPT ![g] = new]
    BY <1>6 DEF SocksUpTo
  <2> HIDE DEF new
  <2>3. socks' \in SocksUpTo(world.seq) /\ \A h \in Dials \ {g} : socks'[h] = socks[h]
    BY <2>1, <2>2 DEF SocksUpTo
  <2>4. /\ client' \in Client /\ client'.fetching = fetching /\ client'.held = client.held
        /\ client'.gen = client.gen /\ client'.socket = g /\ client'.retry = client.retry
        /\ client'.dials = client.dials
    BY <1>2, <1>6 DEF Client
  <2>5. OneSocket'
    BY <1>5, <1>6, <2>3, <2>4 DEF OneSocket, Connected
  <2>6. Undialled'
    BY <1>1, <2>3, <2>4 DEF SessionInv, Undialled
  <2> QED  BY <1>1, <2>3, <2>4, <2>5, <2>6, ClientStep
<1>7. CASE /\ g = client.gen
           /\ client' \in {Stopped(c, "closed"), Stopped(c, "disabled"), Backoff(c)}
           /\ UNCHANGED socks
  <2>1. /\ client' \in Client /\ client'.fetching = fetching /\ client'.held = client.held
        /\ client'.gen = client.gen /\ client'.socket = NoSocket /\ client'.dials = client.dials
    <3>1. NoSocket \in 0..MaxDials
      BY SessionBounds DEF NoSocket
    <3>2. CASE client' = Stopped(c, "closed") \/ client' = Stopped(c, "disabled")
      <4>1. ASSUME NEW status \in {"closed", "disabled"}, client' = Stopped(c, status)
            PROVE  /\ client' \in Client /\ client'.fetching = c.fetching /\ client'.held = c.held
                   /\ client'.gen = c.gen /\ client'.socket = NoSocket /\ client'.dials = c.dials
        BY <1>2, <3>1, <4>1 DEF Stopped, Client
      <4> QED  BY <1>2, <3>2, <4>1
    <3>3. CASE client' = Backoff(c)
      BY <1>2, <1>5, <1>7, <3>3 DEF Backoff, Client
    <3> QED  BY <1>7, <3>2, <3>3
  <2>2. OneSocket'
    BY <1>5, <1>7, <2>1 DEF OneSocket, Connected
  <2>3. Undialled'
    BY <1>7, <2>1 DEF SessionInv, Undialled
  <2> QED  BY <1>1, <1>7, <2>1, <2>2, <2>3, ClientStep
<1> QED  BY <1>3, <1>4, <1>6, <1>7

LEMMA SocketKeeps ==
  ASSUME SessionInv, NEW g \in Dials, SocketOpens(g) \/ SocketCloses(g) \/ LateClose(g)
  PROVE  SessionInv'
<1> USE Facts
<1>1. UNCHANGED <<view, stage, world, drifts>>
  BY DEF SocketOpens, SocketCloses, LateClose
<1>2. <<"hello">> \in Seq(Requests) /\ <<>> \in Seq(Requests) /\ <<>> \in Seq(FrameUpTo(world.seq))
  BY DEF Requests
<1>3. CASE SocketOpens(g)
  <2> DEFINE up == IF g = client.gen THEN <<"hello">> ELSE <<>>
             new == [socks[g] EXCEPT !.browser = "live", !.up = up]
  <2>1. up \in Seq(Requests)
    BY <1>2
  <2>2. socks' = [socks EXCEPT ![g] = new] /\ client' = client /\ Connected(g)
    BY <1>3 DEF SocketOpens, SocksUpTo, Connected
  <2> HIDE DEF up
  <2>3. new \in SocketUpTo(world.seq)
    BY <2>1 DEF SocketUpTo
  <2> HIDE DEF new
  <2>4. socks' \in SocksUpTo(world.seq) /\ \A h \in Dials \ {g} : socks'[h] = socks[h]
    BY <2>2, <2>3 DEF SocksUpTo
  <2>5. OneSocket'
    BY <2>2, <2>4 DEF SessionInv, OneSocket, Connected
  <2>6. Undialled'
    BY <2>2, <2>4 DEF SessionInv, Undialled, Connected
  <2> QED  BY <1>1, <2>2, <2>4, <2>5, <2>6, ClientStep
<1>4. ASSUME NEW c, c = AfterClose(client)
      PROVE  /\ c \in Client /\ c.held = client.held /\ c.gen = client.gen
             /\ c.socket = NoSocket /\ c.fetching = client.fetching /\ c.dials = client.dials
             /\ c.retry => client.held
  <2>1. NoSocket \in 0..MaxDials
    BY SessionBounds DEF NoSocket
  <2> QED  BY <1>4, <2>1 DEF AfterClose, Backoff, Client
<1>5. ASSUME NEW b \in {"closing", "shut"}, NEW to \in Seq(FrameUpTo(world.seq)),
             socks' = [socks EXCEPT ![g].browser = b, ![g].down = to]
      PROVE  /\ socks' \in SocksUpTo(world.seq)
             /\ \A h \in Dials : socks'[h].browser = IF h = g THEN b ELSE socks[h].browser
  <2> DEFINE new == [socks[g] EXCEPT !.browser = b, !.down = to]
  <2>1. new \in SocketUpTo(world.seq) /\ new.browser = b
    BY DEF SocketUpTo
  <2>2. socks' = [socks EXCEPT ![g] = new]
    BY <1>5 DEF SocksUpTo
  <2> HIDE DEF new
  <2> QED  BY <2>1, <2>2 DEF SocksUpTo
<1>6. CASE SocketCloses(g)
  <2>1. Connected(g) /\ g = client.socket /\ g = client.gen /\ client.gen \notin client.fetching
        /\ client.held /\ ~client.retry
    BY <1>6 DEF SocketCloses, Connected, SessionInv, OneSocket
  <2>2. client' = AfterClose(client) /\ socks' = [socks EXCEPT ![g].browser = "shut", ![g].down = <<>>]
    BY <1>6, <2>1 DEF SocketCloses, ClosedBy
  <2>3. /\ socks' \in SocksUpTo(world.seq)
        /\ \A h \in Dials : socks'[h].browser = IF h = g THEN "shut" ELSE socks[h].browser
    BY <1>2, <1>5, <2>2
  <2>4. \A h \in Dials : ~Connected(h)'
    BY <2>1, <2>3 DEF SessionInv, OneSocket, Connected
  <2>5. /\ client' \in Client /\ client'.held = client.held /\ client'.gen = client.gen
        /\ client'.socket = NoSocket /\ client'.fetching = client.fetching /\ client'.dials = client.dials
    BY <1>4, <2>2
  <2>6. OneSocket'
    BY <2>1, <2>4, <2>5 DEF OneSocket
  <2>7. Undialled'
    BY <2>1, <2>3, <2>5 DEF SessionInv, Undialled, Connected
  <2> QED  BY <1>1, <2>3, <2>5, <2>6, <2>7, ClientStep
<1>7. CASE LateClose(g)
  <2>1. socks[g].browser = "closing" /\ client' = ClosedBy(client, g)
        /\ socks' = [socks EXCEPT ![g].browser = "shut", ![g].down = @]
    BY <1>7 DEF LateClose, SocksUpTo, SocketUpTo
  <2>2. /\ socks' \in SocksUpTo(world.seq)
        /\ \A h \in Dials : socks'[h].browser = IF h = g THEN "shut" ELSE socks[h].browser
    <3>1. socks[g].down \in Seq(FrameUpTo(world.seq))
      BY DEF SocketUpTo
    <3>2. socks' = [socks EXCEPT ![g].browser = "shut", ![g].down = socks[g].down]
      BY <2>1 DEF SocksUpTo, SocketUpTo
    <3> QED  BY <1>5, <3>1, <3>2
  <2>3. ASSUME NEW h \in Dials PROVE Connected(h)' <=> Connected(h)
    <3>1. CASE h = g
      <4>1. socks[h].browser = "closing" /\ socks'[h].browser = "shut"
        BY <2>1, <2>2, <3>1
      <4> QED  BY <4>1 DEF Connected
    <3>2. CASE h # g
      <4>1. socks'[h].browser = socks[h].browser
        BY <2>2, <3>2
      <4> QED  BY <4>1 DEF Connected
    <3> QED  BY <3>1, <3>2
  <2>4. CASE g # client.gen
    <3>1. client' = client
      BY <2>1, <2>4 DEF ClosedBy
    <3>2. OneSocket'
      BY <2>3, <3>1 DEF SessionInv, OneSocket
    <3>3. Undialled'
      BY <2>1, <2>2, <3>1 DEF SessionInv, Undialled
    <3> QED  BY <1>1, <2>2, <3>1, <3>2, <3>3, ClientStep
  <2>5. CASE g = client.gen
    <3>1. client' = AfterClose(client)
      BY <2>1, <2>5 DEF ClosedBy
    <3>2. /\ client' \in Client /\ client'.held = client.held /\ client'.gen = client.gen
          /\ client'.socket = NoSocket /\ client'.fetching = client.fetching
          /\ client'.dials = client.dials /\ (client'.retry => client.held)
      BY <1>4, <3>1
    <3>3. client.gen \notin client.fetching /\ client.held /\ \A h \in Dials : ~Connected(h)'
      BY <2>1, <2>3, <2>5 DEF SessionInv, OneSocket, Undialled, Connected
    <3>4. OneSocket'
      BY <3>2, <3>3 DEF OneSocket
    <3>5. Undialled'
      BY <2>1, <2>2, <3>2 DEF SessionInv, Undialled
    <3> QED  BY <1>1, <2>2, <3>2, <3>4, <3>5, ClientStep
  <2> QED  BY <2>4, <2>5
<1> QED  BY <1>3, <1>6, <1>7

LEMMA AskKeeps ==
  ASSUME SessionInv, NEW request \in {"join", "leave"}, Ask(request)
  PROVE  SessionInv'
<1> USE Facts
<1> DEFINE g == client.socket
           new == [socks[g] EXCEPT !.up = <<request>>]
<1>1. g \in Dials /\ UNCHANGED <<client, view, stage, world, drifts>>
  BY SessionBounds DEF Ask, IsOpen, NoSocket, Dials
<1>2. <<request>> \in Seq(Requests)
  BY DEF Requests
<1>3. new \in SocketUpTo(world.seq) /\ new.browser = socks[g].browser
  BY <1>1, <1>2 DEF SocketUpTo
<1>4. socks' = [socks EXCEPT ![g] = new]
  BY <1>1 DEF Ask, SocksUpTo
<1> HIDE DEF new, g
<1>5. socks' \in SocksUpTo(world.seq) /\ \A h \in Dials : socks'[h].browser = socks[h].browser
  BY <1>1, <1>3, <1>4 DEF SocksUpTo
<1>6. OneSocket'
  BY <1>1, <1>5 DEF SessionInv, OneSocket, Connected
<1>7. Undialled'
  BY <1>1, <1>5 DEF SessionInv, Undialled
<1> QED  BY <1>1, <1>5, <1>6, <1>7, ClientStep

LEMMA ReceiveKeeps ==
  ASSUME SessionInv, NEW g \in Dials, Receive(g)
  PROVE  SessionInv'
<1> USE Facts
<1> DEFINE f == Head(socks[g].down)
           new == [socks[g] EXCEPT !.down = Tail(@)]
           ss == [socks EXCEPT ![g].down = Tail(@)]
           shut == IF f.kind = "outdated" THEN Shut(ss, g) ELSE ss
           st == IF f.kind = "joined" THEN [stage EXCEPT !.fresh = FALSE] ELSE stage
<1>1. Connected(g) /\ g = client.socket /\ g = client.gen /\ socks[g].down # <<>> /\ world' = world
  BY DEF Receive, Connected, SessionInv, OneSocket
<1>2. f \in FrameUpTo(world.seq) /\ Tail(socks[g].down) \in Seq(FrameUpTo(world.seq))
  <2> DEFINE S == FrameUpTo(world.seq)
  <2>1. socks[g].down \in Seq(S)
    BY DEF SocketUpTo
  <2> HIDE DEF S
  <2>2. Head(socks[g].down) \in S /\ Tail(socks[g].down) \in Seq(S)
    BY <1>1, <2>1
  <2> QED  BY <2>2 DEF S
<1>3. /\ client' = CASE f.kind = "welcome" -> [client EXCEPT !.status = "open", !.again = FALSE]
                     [] f.kind = "outdated" -> Stopped(client, "outdated")
                     [] OTHER -> client
      /\ Settle(Reduced(view, f), st, shut, client.socket)
  BY <1>1 DEF Receive
<1>4. ss \in SocksUpTo(world.seq) /\ \A h \in Dials : ss[h].browser = socks[h].browser
  <2>1. new \in SocketUpTo(world.seq) /\ new.browser = socks[g].browser
    BY <1>2 DEF SocketUpTo
  <2>2. ss = [socks EXCEPT ![g] = new]
    BY DEF SocksUpTo
  <2> HIDE DEF new, ss
  <2> QED  BY <2>1, <2>2 DEF SocksUpTo
<1>5. st \in StageUpTo(world.seq) /\ WrongIsLost(st)
  BY DEF StageUpTo, WrongIsLost, SessionInv
<1>6. Reduced(view, f) \in ViewUpTo(world.seq)
  BY <1>2, ReducedKeeps
<1> HIDE DEF f, ss, st
<1>7. /\ shut \in SocksUpTo(world.seq)
      /\ \A h \in Dials : shut[h].browser = IF f.kind = "outdated" /\ h = g THEN "closing" ELSE socks[h].browser
  BY <1>1, <1>4, ShutKeeps
<1> HIDE DEF shut
<1>8. /\ view' \in ViewUpTo(world.seq) /\ stage' \in StageUpTo(world.seq) /\ WrongIsLost(stage')
      /\ socks' \in SocksUpTo(world.seq) /\ drifts' \in Nat
      /\ \A h \in Dials : socks'[h].browser = shut[h].browser
  BY <1>3, <1>5, <1>6, <1>7, SettleKeeps
<1>9. /\ client' \in Client /\ client'.held = client.held /\ client'.gen = client.gen
      /\ client'.fetching = client.fetching /\ (client'.retry => client.retry)
      /\ client'.dials = client.dials
      /\ client'.socket = IF f.kind = "outdated" THEN NoSocket ELSE client.socket
  <2>1. CASE f.kind = "welcome"
    BY <1>3, <2>1 DEF Client
  <2>2. CASE f.kind = "outdated"
    <3>1. NoSocket \in 0..MaxDials
      BY SessionBounds DEF NoSocket
    <3> QED  BY <1>3, <2>2, <3>1 DEF Client, Stopped
  <2>3. CASE f.kind \notin {"welcome", "outdated"}
    BY <1>3, <2>3 DEF Client
  <2> QED  BY <2>1, <2>2, <2>3
<1>10. OneSocket'
  <2>1. \A h \in Dials : Connected(h)' => h = client'.socket
    BY <1>1, <1>7, <1>8, <1>9 DEF SessionInv, OneSocket, Connected
  <2> QED  BY <1>1, <1>9, <2>1 DEF SessionInv, OneSocket
<1>11. Undialled'
  BY <1>1, <1>7, <1>8, <1>9 DEF SessionInv, Undialled, Connected
<1> QED  BY <1>1, <1>8, <1>9, <1>10, <1>11 DEF SessionInv, Types

-----------------------------------------------------------------------------
(* One connection, and a prefix of the log *)

LEMMA InitHolds == Init => SessionInv
<1> SUFFICES ASSUME Init PROVE SessionInv
  OBVIOUS
<1>1. world.seq = 0 /\ 0 \in Nat /\ 0 \in 0..MaxSeq /\ 0 \in 0..MaxDials /\ 0 \in 0..0
  BY SessionBounds DEF Init
<1>2. client \in Client
  BY <1>1 DEF Init, Client, NoSocket
<1>3. world \in Company
  BY <1>1 DEF Init, Company
<1>4. NoSock \in SocketUpTo(0)
  <2>1. <<>> \in Seq(Requests) /\ <<>> \in Seq(FrameUpTo(0))
    OBVIOUS
  <2> QED  BY <2>1 DEF NoSock, SocketUpTo
<1>5. socks \in SocksUpTo(0)
  BY <1>4 DEF Init, SocksUpTo
<1>6. view \in ViewUpTo(0) /\ stage \in StageUpTo(0) /\ drifts \in Nat
  BY <1>1 DEF Init, NoView, NoStage, ViewUpTo, StageUpTo, None
<1>7. OneSocket
  BY DEF Init, OneSocket, Connected, NoSock, NoSocket
<1>8. Undialled
  BY DEF Init, Undialled, NoSock, NoSocket
<1> QED  BY <1>1, <1>2, <1>3, <1>5, <1>6, <1>7, <1>8 DEF SessionInv, Types, WrongIsLost, Init, NoStage

LEMMA NextKeeps == SessionInv /\ [Next]_vars => SessionInv'
<1> SUFFICES ASSUME SessionInv, [Next]_vars PROVE SessionInv'
  OBVIOUS
<1>1. CASE UNCHANGED vars
  BY <1>1 DEF vars, SessionInv, Types, OneSocket, Undialled, Connected
<1>2. CASE Next
  BY <1>2, HoldKeeps, TicketKeeps, SocketKeeps, ReceiveKeeps, OpensKeeps, HearsKeeps, StageKeeps,
     AskKeeps, TickKeeps DEF Next
<1> QED  BY <1>1, <1>2

LEMMA SessionIsSound == Spec => []SessionInv
BY InitHolds, NextKeeps, PTL DEF Spec

\* However many times it is dialled, the browser has one connection (client.ts).
THEOREM BrowserHasOneConnection == Spec => []OneConnection
<1>1. ASSUME SessionInv PROVE OneConnection
  <2> DEFINE S == {g \in Dials : socks[g].browser \in {"opening", "live"}}
  <2>1. S \subseteq {client.socket}
    BY <1>1 DEF SessionInv, OneSocket, Connected
  <2> HIDE DEF S
  <2>2. IsFiniteSet({client.socket}) /\ Cardinality({client.socket}) = 1
    BY FS_Singleton
  <2>3. Cardinality(S) <= 1
    BY <2>1, <2>2, FS_Subset
  <2> QED  BY <2>3 DEF OneConnection, S
<1> QED  BY <1>1, SessionIsSound, PTL

\* A stage that has not asked for the company again is a prefix of its log, for a
\* log of any length (driver.ts).
THEOREM StageShowsALogPrefix == Spec => []StageIsALogPrefix
<1>1. SessionInv => StageIsALogPrefix
  BY SessionBounds DEF SessionInv, Types, StageUpTo, Company, WrongIsLost, StageIsALogPrefix
<1> QED  BY <1>1, SessionIsSound, PTL

-----------------------------------------------------------------------------
(* What is on its way to the page *)

Heard == [kind : {"welcome", "outdated", "joined", "entry", "resolved", "open",
                  "ask", "result", "left", "closed"}, n : Nat, r : Nat]

\* The frames after which the page has another seat, question or round.
AboutSeat == {"joined", "left", "closed"}
AboutQuestion == AboutSeat \cup {"ask", "result"}
AboutRound == AboutSeat \cup {"resolved", "open"}

\* The frames that leave the page seated, asking or not, and on the round r or none.
Seats == {f \in Heard : f.kind = "joined"}
Asks(asking) == {f \in Heard : f.kind \in AboutQuestion /\ (f.kind = "ask" <=> asking)}
Opens(r) == {f \in Heard : f.kind \in AboutRound /\ (f.kind \in {"joined", "open"} => f.r = r)}

NoneAbout(d, kinds) == \A i \in 1..Len(d) : d[i].kind \notin kinds
LastAbout(d, kinds, good) ==
  \E k \in 1..Len(d) : d[k] \in good /\ \A i \in (k + 1)..Len(d) : d[i].kind \notin kinds

SeatShown(v) == v.join # None /\ ~v.closed
QuestionShown(v, w) == v.asking = w.asking
RoundShown(v, w) == v.round \in {None, w.round}

\* Once the page has heard d it shows what the company is.
Agreeing(d, v, w) ==
  /\ (NoneAbout(d, AboutSeat) /\ SeatShown(v)) \/ LastAbout(d, AboutSeat, Seats)
  /\ (NoneAbout(d, AboutQuestion) /\ QuestionShown(v, w))
       \/ LastAbout(d, AboutQuestion, Asks(w.asking))
  /\ (NoneAbout(d, AboutRound) /\ RoundShown(v, w))
       \/ LastAbout(d, AboutRound, Opens(w.round))

Hearing(g) == g = client.socket /\ socks[g].server = "hello" /\ socks[g].browser = "live"

PageInv == \A g \in Dials : Hearing(g) /\ world.seat => Agreeing(socks[g].down, view, world)

LEMMA AboutBoth ==
  ASSUME NEW S, NEW d \in Seq(S), NEW e \in Seq(S), NEW kinds, NEW good
  PROVE  /\ NoneAbout(d, kinds) /\ NoneAbout(e, kinds) => NoneAbout(d \o e, kinds)
         /\ LastAbout(d, kinds, good) /\ NoneAbout(e, kinds) => LastAbout(d \o e, kinds, good)
         /\ LastAbout(e, kinds, good) => LastAbout(d \o e, kinds, good)
<1>1. /\ Len(d) \in Nat /\ Len(e) \in Nat /\ Len(d \o e) = Len(d) + Len(e)
      /\ \A i \in 1..Len(d) + Len(e) : (d \o e)[i] = IF i <= Len(d) THEN d[i] ELSE e[i - Len(d)]
  BY ConcatProperties, LenProperties
<1> DEFINE de == d \o e
<1> HIDE DEF de
<1>2. NoneAbout(d, kinds) /\ NoneAbout(e, kinds) => NoneAbout(de, kinds)
  <2> SUFFICES ASSUME NoneAbout(d, kinds), NoneAbout(e, kinds), NEW i \in 1..Len(de)
               PROVE  de[i].kind \notin kinds
    BY DEF NoneAbout
  <2>1. i <= Len(d) \/ i - Len(d) \in 1..Len(e)
    BY <1>1 DEF de
  <2> QED  BY <1>1, <2>1 DEF NoneAbout, de
<1>3. LastAbout(d, kinds, good) /\ NoneAbout(e, kinds) => LastAbout(de, kinds, good)
  <2> SUFFICES ASSUME LastAbout(d, kinds, good), NoneAbout(e, kinds)
               PROVE  LastAbout(de, kinds, good)
    OBVIOUS
  <2>1. PICK k \in 1..Len(d) : d[k] \in good /\ \A i \in (k + 1)..Len(d) : d[i].kind \notin kinds
    BY DEF LastAbout
  <2>2. k \in 1..Len(de) /\ de[k] = d[k]
    BY <1>1 DEF de
  <2>3. ASSUME NEW i \in (k + 1)..Len(de) PROVE de[i].kind \notin kinds
    <3>1. i \in (k + 1)..Len(d) \/ (i > Len(d) /\ i - Len(d) \in 1..Len(e))
      BY <1>1 DEF de
    <3>2. i \in 1..Len(d) + Len(e)
      BY <1>1 DEF de
    <3> QED  BY <1>1, <2>1, <3>1, <3>2 DEF NoneAbout, de
  <2> QED  BY <2>1, <2>2, <2>3 DEF LastAbout
<1>4. LastAbout(e, kinds, good) => LastAbout(de, kinds, good)
  <2> SUFFICES ASSUME LastAbout(e, kinds, good)
               PROVE  LastAbout(de, kinds, good)
    OBVIOUS
  <2>1. PICK k \in 1..Len(e) : e[k] \in good /\ \A i \in (k + 1)..Len(e) : e[i].kind \notin kinds
    BY DEF LastAbout
  <2> DEFINE j == Len(d) + k
  <2>2. j \in 1..Len(de) /\ de[j] = e[k]
    BY <1>1 DEF de
  <2>3. ASSUME NEW i \in (j + 1)..Len(de) PROVE de[i].kind \notin kinds
    <3>1. i - Len(d) \in (k + 1)..Len(e) /\ de[i] = e[i - Len(d)]
      BY <1>1 DEF de
    <3> QED  BY <2>1, <3>1
  <2> HIDE DEF j
  <2> QED  BY <2>1, <2>2, <2>3 DEF LastAbout
<1> QED  BY <1>2, <1>3, <1>4 DEF de

LEMMA AboutTheRest ==
  ASSUME NEW S, NEW d \in Seq(S), d # <<>>, NEW kinds, NEW good
  PROVE  /\ NoneAbout(d, kinds) => NoneAbout(Tail(d), kinds) /\ Head(d).kind \notin kinds
         /\ LastAbout(d, kinds, good) =>
              \/ LastAbout(Tail(d), kinds, good)
              \/ NoneAbout(Tail(d), kinds) /\ Head(d) \in good
<1>1. /\ Len(d) \in Nat /\ Len(d) >= 1 /\ Head(d) = d[1] /\ Len(Tail(d)) = Len(d) - 1
      /\ \A i \in 1..Len(Tail(d)) : Tail(d)[i] = d[i + 1]
  BY HeadTailProperties, LenProperties, EmptySeq
<1> DEFINE t == Tail(d)
<1> HIDE DEF t
<1>2. NoneAbout(d, kinds) => NoneAbout(t, kinds) /\ Head(d).kind \notin kinds
  BY <1>1 DEF NoneAbout, t
<1>3. ASSUME LastAbout(d, kinds, good)
      PROVE  LastAbout(t, kinds, good) \/ (NoneAbout(t, kinds) /\ Head(d) \in good)
  <2>1. PICK k \in 1..Len(d) : d[k] \in good /\ \A i \in (k + 1)..Len(d) : d[i].kind \notin kinds
    BY <1>3 DEF LastAbout
  <2>2. CASE k = 1
    BY <1>1, <2>1, <2>2 DEF NoneAbout, t
  <2>3. CASE k # 1
    <3> DEFINE j == k - 1
    <3>1. j \in 1..Len(t) /\ t[j] = d[k]
      BY <1>1, <2>3 DEF t
    <3>2. ASSUME NEW i \in (j + 1)..Len(t) PROVE t[i].kind \notin kinds
      <4>1. t[i] = d[i + 1] /\ i + 1 \in (k + 1)..Len(d)
        BY <1>1, <2>3 DEF t
      <4> QED  BY <2>1, <4>1
    <3> HIDE DEF j
    <3> QED  BY <2>1, <3>1, <3>2 DEF LastAbout
  <2> QED  BY <2>2, <2>3
<1> QED  BY <1>2, <1>3 DEF t

\* The frames of one step.
LEMMA AboutFew ==
  ASSUME NEW a, NEW b, NEW c, NEW kinds, NEW good
  PROVE  /\ NoneAbout(<<>>, kinds)
         /\ a.kind \notin kinds => NoneAbout(<<a>>, kinds)
         /\ a.kind \notin kinds /\ b.kind \notin kinds => NoneAbout(<<a, b>>, kinds)
         /\ a.kind \notin kinds /\ b.kind \notin kinds /\ c.kind \notin kinds => NoneAbout(<<a, b, c>>, kinds)
         /\ a \in good => LastAbout(<<a>>, kinds, good)
         /\ a \in good /\ b.kind \notin kinds => LastAbout(<<a, b>>, kinds, good)
         /\ b \in good => LastAbout(<<a, b>>, kinds, good)
         /\ a \in good /\ b.kind \notin kinds /\ c.kind \notin kinds => LastAbout(<<a, b, c>>, kinds, good)
         /\ c \in good => LastAbout(<<a, b, c>>, kinds, good)
<1>1. /\ Len(<<>>) = 0 /\ Len(<<a>>) = 1 /\ Len(<<a, b>>) = 2 /\ Len(<<a, b, c>>) = 3
      /\ <<a>>[1] = a /\ <<a, b>>[1] = a /\ <<a, b>>[2] = b
      /\ <<a, b, c>>[1] = a /\ <<a, b, c>>[2] = b /\ <<a, b, c>>[3] = c
  OBVIOUS
<1>2. /\ NoneAbout(<<>>, kinds)
      /\ a.kind \notin kinds => NoneAbout(<<a>>, kinds)
  BY <1>1 DEF NoneAbout
<1>3. a.kind \notin kinds /\ b.kind \notin kinds => NoneAbout(<<a, b>>, kinds)
  BY <1>1 DEF NoneAbout
<1>4. a.kind \notin kinds /\ b.kind \notin kinds /\ c.kind \notin kinds => NoneAbout(<<a, b, c>>, kinds)
  BY <1>1 DEF NoneAbout
<1>5. a \in good => LastAbout(<<a>>, kinds, good)
  BY <1>1 DEF LastAbout
<1>6. a \in good /\ b.kind \notin kinds => LastAbout(<<a, b>>, kinds, good)
  BY <1>1 DEF LastAbout
<1>7. b \in good => LastAbout(<<a, b>>, kinds, good)
  BY <1>1 DEF LastAbout
<1>8. a \in good /\ b.kind \notin kinds /\ c.kind \notin kinds => LastAbout(<<a, b, c>>, kinds, good)
  BY <1>1 DEF LastAbout
<1>9. c \in good => LastAbout(<<a, b, c>>, kinds, good)
  BY <1>1 DEF LastAbout
<1> QED  BY <1>2, <1>3, <1>4, <1>5, <1>6, <1>7, <1>8, <1>9

LEMMA TwoFrames ==
  ASSUME NEW a, NEW b, NEW c
  PROVE  /\ <<a>> \o <<>> = <<a>> /\ <<a>> \o <<b>> = <<a, b>>
         /\ <<a, b>> \o <<>> = <<a, b>> /\ <<a, b>> \o <<c>> = <<a, b, c>>
         /\ Append(<<a>>, b) = <<a, b>> /\ Append(<<a, b>>, c) = <<a, b, c>>
<1> DEFINE S == {a, b, c}
<1>1. a \in S /\ b \in S /\ c \in S
  OBVIOUS
<1> HIDE DEF S
<1>2. <<a>> \in Seq(S) /\ <<b>> \in Seq(S) /\ <<c>> \in Seq(S) /\ <<a, b>> \in Seq(S) /\ <<a, b, c>> \in Seq(S)
  BY <1>1
<1>3. /\ Len(<<a>>) = 1 /\ Len(<<a, b>>) = 2 /\ Len(<<b>>) = 1 /\ Len(<<c>>) = 1 /\ Len(<<a, b, c>>) = 3
      /\ <<a>>[1] = a /\ <<b>>[1] = b /\ <<c>>[1] = c
      /\ <<a, b>>[1] = a /\ <<a, b>>[2] = b
      /\ <<a, b, c>>[1] = a /\ <<a, b, c>>[2] = b /\ <<a, b, c>>[3] = c
  OBVIOUS
<1>4. <<a>> \o <<>> = <<a>> /\ <<a, b>> \o <<>> = <<a, b>>
  BY <1>2, ConcatEmptySeq
<1>5. <<a>> \o <<b>> = <<a, b>>
  <2> DEFINE t == <<a>> \o <<b>>
  <2>1. t \in Seq(S) /\ Len(t) = 2
    BY <1>2, <1>3, ConcatProperties
  <2>2. t[1] = a /\ t[2] = b
    BY <1>2, <1>3, ConcatProperties
  <2> HIDE DEF t
  <2>3. t = <<a, b>>
    BY <1>2, <1>3, <2>1, <2>2, SeqEqual
  <2> QED  BY <2>3 DEF t
<1>6. <<a, b>> \o <<c>> = <<a, b, c>>
  <2> DEFINE t == <<a, b>> \o <<c>>
  <2>1. t \in Seq(S) /\ Len(t) = 3
    BY <1>2, <1>3, ConcatProperties
  <2>2. t[1] = a /\ t[2] = b /\ t[3] = c
    BY <1>2, <1>3, ConcatProperties
  <2> HIDE DEF t
  <2>3. t = <<a, b, c>>
    BY <1>2, <1>3, <2>1, <2>2, SeqEqual
  <2> QED  BY <2>3 DEF t
<1>7. Append(<<a>>, b) = <<a>> \o <<b>> /\ Append(<<a, b>>, c) = <<a, b>> \o <<c>>
  <2>1. Append(<<a>>, b) = <<a>> \o <<b>>
    BY <1>1, <1>2, AppendIsConcat
  <2>2. Append(<<a, b>>, c) = <<a, b>> \o <<c>>
    BY <1>1, <1>2, AppendIsConcat
  <2> QED  BY <2>1, <2>2
<1> QED  BY <1>4, <1>5, <1>6, <1>7

\* The whole company is said again.
LEMMA JoinedAgrees ==
  ASSUME NEW v, NEW w \in Company, NEW S, NEW d \in Seq(S), Joined(w) \in Seq(S)
  PROVE  Agreeing(d \o Joined(w), v, w)
<1> DEFINE j == F("joined", w.seq, w.round)
           q == Say("ask")
           e == Joined(w)
<1>1. w.seq \in Nat /\ w.round \in Nat /\ w.asking \in BOOLEAN
  BY SessionBounds DEF Company
<1>2. /\ j \in Seats /\ j \in Opens(w.round) /\ (~w.asking => j \in Asks(w.asking))
      /\ (w.asking => q \in Asks(w.asking)) /\ q.kind \notin AboutSeat /\ q.kind \notin AboutRound
  BY <1>1 DEF F, Say, Heard, Seats, Asks, Opens, AboutSeat, AboutQuestion, AboutRound
<1>3. e = IF w.asking THEN <<j, q>> ELSE <<j>>
  <2>1. e = <<j>> \o (IF w.asking THEN <<q>> ELSE <<>>)
    BY DEF Joined
  <2> HIDE DEF j, q, e
  <2>2. <<j>> \o <<q>> = <<j, q>> /\ <<j>> \o <<>> = <<j>>
    BY TwoFrames
  <2> QED  BY <2>1, <2>2
<1> HIDE DEF j, q, e
<1>4. LastAbout(e, AboutSeat, Seats)
  BY <1>2, <1>3, AboutFew
<1>5. LastAbout(e, AboutQuestion, Asks(w.asking))
  BY <1>2, <1>3, AboutFew
<1>6. LastAbout(e, AboutRound, Opens(w.round))
  BY <1>2, <1>3, AboutFew
<1>7. e \in Seq(S)
  BY DEF e
<1>8. /\ LastAbout(d \o e, AboutSeat, Seats)
      /\ LastAbout(d \o e, AboutQuestion, Asks(w.asking))
      /\ LastAbout(d \o e, AboutRound, Opens(w.round))
  BY <1>4, <1>5, <1>6, <1>7, AboutBoth
<1> QED  BY <1>8 DEF Agreeing, e

\* What is said of a step that leaves the seat alone: the question and the round are
\* the ones of before, or a frame is about the ones there are now.
LEMMA SaidAgrees ==
  ASSUME NEW v, NEW w, NEW new, NEW S, NEW d \in Seq(S), NEW e \in Seq(S), Agreeing(d, v, w),
         NoneAbout(e, AboutSeat),
         \/ NoneAbout(e, AboutQuestion) /\ new.asking = w.asking
         \/ LastAbout(e, AboutQuestion, Asks(new.asking)),
         \/ NoneAbout(e, AboutRound) /\ new.round = w.round
         \/ LastAbout(e, AboutRound, Opens(new.round))
  PROVE  Agreeing(d \o e, v, new)
<1>1. (NoneAbout(d \o e, AboutSeat) /\ SeatShown(v)) \/ LastAbout(d \o e, AboutSeat, Seats)
  BY AboutBoth DEF Agreeing
<1>2. \/ NoneAbout(d \o e, AboutQuestion) /\ QuestionShown(v, new)
      \/ LastAbout(d \o e, AboutQuestion, Asks(new.asking))
  <2>1. CASE NoneAbout(e, AboutQuestion) /\ new.asking = w.asking
    BY <2>1, AboutBoth DEF Agreeing, QuestionShown
  <2>2. CASE LastAbout(e, AboutQuestion, Asks(new.asking))
    BY <2>2, AboutBoth
  <2> QED  BY <2>1, <2>2
<1>3. \/ NoneAbout(d \o e, AboutRound) /\ RoundShown(v, new)
      \/ LastAbout(d \o e, AboutRound, Opens(new.round))
  <2>1. CASE NoneAbout(e, AboutRound) /\ new.round = w.round
    BY <2>1, AboutBoth DEF Agreeing, RoundShown
  <2>2. CASE LastAbout(e, AboutRound, Opens(new.round))
    BY <2>2, AboutBoth
  <2> QED  BY <2>1, <2>2
<1> QED  BY <1>1, <1>2, <1>3 DEF Agreeing

\* The frames of a round, a question or an entry that leaves the seat alone.
LEMMA RoundFrames ==
  ASSUME NEW n \in Nat, NEW round \in Nat, NEW m \in Nat
  PROVE  LET answer == Say("result")
             entry == F("entry", n, 0)
             resolved == F("resolved", n, 0)
             open == F("open", m, round)
             ask == Say("ask")
         IN /\ {answer, entry, resolved, open, ask} \subseteq Heard
            /\ \A f \in {answer, entry, resolved, open, ask} : f.kind \notin AboutSeat
            /\ \A f \in {entry, resolved, open} : f.kind \notin AboutQuestion
            /\ \A f \in {answer, entry, ask} : f.kind \notin AboutRound
            /\ answer \in Asks(FALSE) /\ ask \in Asks(TRUE)
            /\ resolved \in Opens(round) /\ open \in Opens(round)
<1> DEFINE answer == Say("result")
           entry == F("entry", n, 0)
           resolved == F("resolved", n, 0)
           open == F("open", m, round)
           ask == Say("ask")
<1>1. /\ answer.kind = "result" /\ entry.kind = "entry" /\ resolved.kind = "resolved"
      /\ open.kind = "open" /\ ask.kind = "ask" /\ open.r = round
      /\ answer \in Heard /\ entry \in Heard /\ resolved \in Heard /\ open \in Heard /\ ask \in Heard
  BY DEF Say, F, Heard
<1> HIDE DEF answer, entry, resolved, open, ask
<1>2. /\ \A f \in {answer, entry, resolved, open, ask} : f \in Heard /\ f.kind \notin AboutSeat
      /\ \A f \in {entry, resolved, open} : f.kind \notin AboutQuestion
      /\ \A f \in {answer, entry, ask} : f.kind \notin AboutRound
  BY <1>1 DEF AboutSeat, AboutQuestion, AboutRound
<1>3. /\ answer \in Asks(FALSE) /\ ask \in Asks(TRUE)
      /\ resolved \in Opens(round) /\ open \in Opens(round)
  BY <1>1 DEF Asks, Opens, AboutQuestion, AboutSeat, AboutRound
<1> QED  BY <1>2, <1>3 DEF answer, entry, resolved, open, ask

-----------------------------------------------------------------------------
(* Each step keeps what the page shows in line with the company *)

\* Where nothing the page, its connection and the company are compared by changes.
LEMMA PageStays ==
  ASSUME SessionInv, PageInv, world'.seat => world.seat,
         world'.asking = world.asking, world'.round = world.round,
         SeatShown(view)' = SeatShown(view), view'.asking = view.asking, view'.round = view.round,
         \A g \in Dials : Hearing(g)' => Hearing(g) /\ socks'[g].down = socks[g].down
  PROVE  PageInv'
<1> SUFFICES ASSUME NEW g \in Dials, Hearing(g)', world'.seat
             PROVE  Agreeing(socks'[g].down, view', world')
  BY DEF PageInv
<1>1. Hearing(g) /\ socks'[g].down = socks[g].down /\ Agreeing(socks[g].down, view, world)
  BY DEF PageInv
<1> QED  BY <1>1 DEF Agreeing, SeatShown, QuestionShown, RoundShown

\* What the server sends to every connection of the player.
LEMMA DeliveredAgrees ==
  ASSUME SessionInv, NEW n \in Nat, NEW ss \in SocksUpTo(n), NEW frames, NEW g \in Dials,
         ss[g].server = "hello", ss[g].browser = "live"
  PROVE  /\ Delivered(ss, frames)[g].down = ss[g].down \o frames
         /\ Delivered(ss, frames)[g].server = "hello" /\ Delivered(ss, frames)[g].browser = "live"
<1>1. g \in Known(ss) /\ ss[g] \in SocketUpTo(n)
  BY DEF Known, SocksUpTo
<1>2. Delivered(ss, frames)[g] = [ss[g] EXCEPT !.down = @ \o frames]
  BY <1>1 DEF Delivered
<1> QED  BY <1>1, <1>2 DEF SocketUpTo

LEMMA DeliveredTo ==
  ASSUME NEW n \in Nat, NEW ss \in SocksUpTo(n), NEW frames, NEW g \in Dials
  PROVE  /\ Delivered(ss, frames)[g].server = ss[g].server
         /\ Delivered(ss, frames)[g].browser = ss[g].browser
<1>1. ss[g] \in SocketUpTo(n)
  BY DEF SocksUpTo
<1>2. \/ Delivered(ss, frames)[g] = [ss[g] EXCEPT !.down = @ \o frames]
      \/ Delivered(ss, frames)[g] = ss[g]
  BY DEF Delivered
<1> QED  BY <1>1, <1>2 DEF SocketUpTo

\* A step of the server that sends its frames to the connections that said hello.
LEMMA PageHears ==
  ASSUME SessionInv, UNCHANGED <<client, view>>, NEW frames,
         socks' = Delivered(socks, frames),
         \A g \in Dials : Hearing(g) /\ world'.seat =>
                            Agreeing(socks[g].down \o frames, view, world')
  PROVE  PageInv'
<1> USE Facts
<1> SUFFICES ASSUME NEW g \in Dials, Hearing(g)', world'.seat
             PROVE  Agreeing(socks'[g].down, view', world')
  BY DEF PageInv
<1>1. Hearing(g)
  BY DeliveredTo DEF Hearing
<1>2. socks'[g].down = socks[g].down \o frames
  BY <1>1, DeliveredAgrees DEF Hearing
<1> QED  BY <1>1, <1>2

LEMMA HeardFrames ==
  ASSUME SessionInv, NEW g \in Dials
  PROVE  socks[g].down \in Seq(Heard)
<1> USE Facts
<1>1. FrameUpTo(world.seq) \subseteq Heard
  BY DEF FrameUpTo, Heard
<1> DEFINE S == FrameUpTo(world.seq)
           d == socks[g].down
<1>2. d \in Seq(S)
  BY DEF SocketUpTo
<1> HIDE DEF S, d
<1>3. Len(d) \in Nat /\ d \in [1..Len(d) -> S]
  BY <1>2, LenProperties
<1>4. d \in [1..Len(d) -> Heard]
  BY <1>1, <1>3 DEF S
<1>5. d \in Seq(Heard)
  BY <1>3, <1>4
<1> QED  BY <1>5 DEF d

LEMMA FewFrames ==
  ASSUME NEW S, NEW a \in S, NEW b \in S, NEW c \in S
  PROVE  <<a>> \in Seq(S) /\ <<a, b>> \in Seq(S) /\ <<a, b, c>> \in Seq(S)
OBVIOUS

\* What a step that leaves the seat alone says of the question and of the round.
Says(frames, w, new) ==
  /\ frames \in Seq(Heard)
  /\ NoneAbout(frames, AboutSeat)
  /\ \/ NoneAbout(frames, AboutQuestion) /\ new.asking = w.asking
     \/ LastAbout(frames, AboutQuestion, Asks(new.asking))
  /\ \/ NoneAbout(frames, AboutRound) /\ new.round = w.round
     \/ LastAbout(frames, AboutRound, Opens(new.round))

LEMMA SaysAgrees ==
  ASSUME SessionInv, PageInv, UNCHANGED <<client, view>>, NEW frames,
         socks' = Delivered(socks, frames),
         world'.seat => world.seat /\ Says(frames, world, world')
  PROVE  PageInv'
<1>1. ASSUME NEW g \in Dials, Hearing(g), world'.seat
      PROVE  Agreeing(socks[g].down \o frames, view, world')
  <2>1. Agreeing(socks[g].down, view, world)
    BY <1>1 DEF PageInv
  <2>2. socks[g].down \in Seq(Heard)
    BY HeardFrames
  <2>3. Says(frames, world, world')
    BY <1>1
  <2> QED  BY <2>1, <2>2, <2>3, SaidAgrees DEF Says
<1> QED  BY <1>1, PageHears

\* A round or a question settled: what was asked is over, and a round or a question
\* is there.
LEMMA RoundSays ==
  ASSUME NEW w, NEW new, NEW n \in Nat, new.round \in Nat, w.asking \in BOOLEAN,
         NEW said, said = IF w.asking THEN <<Say("result"), F("entry", n, 0)>> ELSE <<F("resolved", n, 0)>>,
         w.asking => new.round = w.round
  PROVE  /\ new.asking = FALSE => Says(said \o <<F("open", 0, new.round)>>, w, new)
         /\ new.asking = TRUE => Says(Append(said, Say("ask")), w, new)
<1> DEFINE answer == Say("result")
           entry == F("entry", n, 0)
           resolved == F("resolved", n, 0)
           open == F("open", 0, new.round)
           ask == Say("ask")
<1>1. /\ answer \in Heard /\ entry \in Heard /\ resolved \in Heard /\ open \in Heard /\ ask \in Heard
      /\ answer.kind \notin AboutSeat /\ entry.kind \notin AboutSeat /\ resolved.kind \notin AboutSeat
      /\ open.kind \notin AboutSeat /\ ask.kind \notin AboutSeat
      /\ entry.kind \notin AboutQuestion /\ resolved.kind \notin AboutQuestion /\ open.kind \notin AboutQuestion
      /\ answer.kind \notin AboutRound /\ entry.kind \notin AboutRound /\ ask.kind \notin AboutRound
      /\ answer \in Asks(FALSE) /\ ask \in Asks(TRUE)
      /\ resolved \in Opens(new.round) /\ open \in Opens(new.round)
  <2>1. 0 \in Nat
    OBVIOUS
  <2> QED  BY <2>1, RoundFrames
<1>2. said = IF w.asking THEN <<answer, entry>> ELSE <<resolved>>
  OBVIOUS
<1> HIDE DEF answer, entry, resolved, open, ask
<1>3. ASSUME new.asking = FALSE PROVE Says(said \o <<open>>, w, new)
  <2>1. CASE w.asking
    <3>1. said \o <<open>> = <<answer, entry, open>>
      BY <1>2, <2>1, TwoFrames
    <3>2. /\ <<answer, entry, open>> \in Seq(Heard)
          /\ NoneAbout(<<answer, entry, open>>, AboutSeat)
      BY <1>1, FewFrames, AboutFew
    <3>3. LastAbout(<<answer, entry, open>>, AboutQuestion, Asks(FALSE))
      BY <1>1, AboutFew
    <3>4. LastAbout(<<answer, entry, open>>, AboutRound, Opens(new.round))
      BY <1>1, AboutFew
    <3> QED  BY <1>3, <3>1, <3>2, <3>3, <3>4 DEF Says
  <2>2. CASE ~w.asking
    <3>1. said \o <<open>> = <<resolved, open>>
      BY <1>2, <2>2, TwoFrames
    <3>2. /\ <<resolved, open>> \in Seq(Heard)
          /\ NoneAbout(<<resolved, open>>, AboutSeat)
      BY <1>1, FewFrames, AboutFew
    <3>3. NoneAbout(<<resolved, open>>, AboutQuestion)
      BY <1>1, AboutFew
    <3>4. LastAbout(<<resolved, open>>, AboutRound, Opens(new.round))
      BY <1>1, AboutFew
    <3>5. new.asking = w.asking
      BY <1>3, <2>2
    <3> QED  BY <3>5, <3>1, <3>2, <3>3, <3>4 DEF Says
  <2> QED  BY <2>1, <2>2
<1>4. ASSUME new.asking = TRUE PROVE Says(Append(said, ask), w, new)
  <2>1. CASE w.asking
    <3>1. Append(said, ask) = <<answer, entry, ask>>
      BY <1>2, <2>1, TwoFrames
    <3>2. /\ <<answer, entry, ask>> \in Seq(Heard)
          /\ NoneAbout(<<answer, entry, ask>>, AboutSeat)
      BY <1>1, FewFrames, AboutFew
    <3>3. LastAbout(<<answer, entry, ask>>, AboutQuestion, Asks(TRUE))
      BY <1>1, AboutFew
    <3>4. NoneAbout(<<answer, entry, ask>>, AboutRound) /\ new.round = w.round
      BY <1>1, <2>1, AboutFew
    <3> QED  BY <1>4, <3>1, <3>2, <3>3, <3>4 DEF Says
  <2>2. CASE ~w.asking
    <3>1. Append(said, ask) = <<resolved, ask>>
      BY <1>2, <2>2, TwoFrames
    <3>2. /\ <<resolved, ask>> \in Seq(Heard)
          /\ NoneAbout(<<resolved, ask>>, AboutSeat)
      BY <1>1, FewFrames, AboutFew
    <3>3. LastAbout(<<resolved, ask>>, AboutQuestion, Asks(TRUE))
      BY <1>1, AboutFew
    <3>4. LastAbout(<<resolved, ask>>, AboutRound, Opens(new.round))
      BY <1>1, AboutFew
    <3> QED  BY <1>4, <3>1, <3>2, <3>3, <3>4 DEF Says
  <2> QED  BY <2>1, <2>2
<1> QED  BY <1>3, <1>4 DEF open, ask

LEMMA TickAgrees ==
  ASSUME SessionInv, PageInv, Tick
  PROVE  PageInv'
<1> USE Facts
<1> DEFINE round == IF world.asking THEN world.round ELSE world.round + 1
           w == [world EXCEPT !.seq = world.seq + 1, !.asking = FALSE, !.round = round]
           said == IF world.asking THEN <<Say("result"), F("entry", w.seq, 0)>>
                   ELSE <<F("resolved", w.seq, 0)>>
           after(outcome) == Moved(w, outcome)
           opens(outcome) == IF after(outcome).alive /\ after(outcome).seat /\ ~after(outcome).asking
                             THEN <<F("open", 0, after(outcome).round)>> ELSE <<>>
<1>1. PICK outcome \in Outcomes :
        /\ world' = Moved(w, outcome)
        /\ socks' = Delivered(socks, Told(world, said, outcome) \o opens(outcome))
  BY DEF Tick
<1>2. world.asking \in BOOLEAN /\ world.round \in Nat /\ round \in Nat /\ world.seq < MaxSeq /\ world.alive
      /\ UNCHANGED <<client, view>>
  <2>1. world.asking \in BOOLEAN /\ world.round \in Nat
    BY DEF Company
  <2> QED  BY <2>1 DEF Tick
<1>3. world.asking => round = world.round
  OBVIOUS
<1> HIDE DEF round
<1>4. /\ w \in Company /\ w.seq = world.seq + 1 /\ w.asking = FALSE /\ w.round = round
      /\ w.seat = world.seat /\ w.alive = world.alive
  <2>1. w \in Company /\ w.seq = world.seq + 1
    BY <1>2, NextEntry
  <2> QED  BY <2>1 DEF Company
<1> DEFINE n == world.seq + 1
<1>5. n \in Nat /\ said = IF world.asking THEN <<Say("result"), F("entry", n, 0)>> ELSE <<F("resolved", n, 0)>>
  BY <1>4
<1> HIDE DEF w, said, n
<1>6. CASE world'.seat
  <2>1. /\ outcome \in {"plain", "ask"} /\ world.seat /\ world'.alive /\ world'.round = round
        /\ world'.asking = (outcome = "ask")
    BY <1>1, <1>2, <1>4, <1>6 DEF Moved, Outcomes, Company
  <2>2. CASE outcome = "plain"
    <3>1. world'.asking = FALSE
      BY <2>1, <2>2
    <3>2. Told(world, said, outcome) \o opens(outcome) = said \o <<F("open", 0, world'.round)>>
      BY <1>1, <1>6, <2>1, <2>2, <3>1 DEF Told
    <3>3. Says(said \o <<F("open", 0, world'.round)>>, world, world')
      BY <1>2, <1>3, <1>5, <2>1, <3>1, RoundSays
    <3> QED  BY <1>1, <1>2, <2>1, <3>2, <3>3, SaysAgrees
  <2>3. CASE outcome = "ask"
    <3>1. world'.asking = TRUE
      BY <2>1, <2>3
    <3>2. Told(world, said, outcome) = Append(said, Say("ask")) /\ opens(outcome) = <<>>
      BY <1>1, <1>6, <2>1, <2>3, <3>1 DEF Told
    <3>3. Says(Append(said, Say("ask")), world, world')
      BY <1>2, <1>3, <1>5, <2>1, <3>1, RoundSays
    <3>4. Told(world, said, outcome) \o opens(outcome) = Append(said, Say("ask"))
      <4> DEFINE said1 == Append(said, Say("ask"))
      <4>1. said1 \in Seq(Heard)
        BY <3>3 DEF Says
      <4> HIDE DEF said1
      <4>2. said1 \o <<>> = said1
        BY <4>1, ConcatEmptySeq
      <4>3. Told(world, said, outcome) = said1
        BY <3>2 DEF said1
      <4> QED  BY <3>2, <4>2, <4>3 DEF said1
    <3> QED  BY <1>1, <1>2, <2>1, <3>3, <3>4, SaysAgrees
  <2> QED  BY <2>1, <2>2, <2>3
<1> QED  BY <1>6 DEF PageInv

LEMMA EntryAgrees ==
  ASSUME SessionInv, PageInv, OthersEntry
  PROVE  PageInv'
<1> USE Facts
<1>1. PICK settles \in BOOLEAN, outcome \in Outcomes :
        LET w == [world EXCEPT !.seq = world.seq + 1, !.asking = world.asking /\ ~settles]
            entry == F("entry", w.seq, 0)
            said == IF settles THEN <<Say("result"), entry>> ELSE <<entry>>
        IN /\ settles => world.asking
           /\ w.asking => outcome # "ask" /\ (outcome = "closed" => ~world.seat)
           /\ world' = Moved(w, outcome) /\ socks' = Delivered(socks, Told(world, said, outcome))
  BY DEF OthersEntry
<1>2. world.asking \in BOOLEAN /\ world.round \in Nat /\ world.seq < MaxSeq /\ UNCHANGED <<client, view>>
  <2>1. world.asking \in BOOLEAN /\ world.round \in Nat
    BY DEF Company
  <2> QED  BY <2>1 DEF OthersEntry
<1> DEFINE asking == world.asking /\ ~settles
           w == [world EXCEPT !.seq = world.seq + 1, !.asking = asking]
           said == IF settles THEN <<Say("result"), F("entry", w.seq, 0)>> ELSE <<F("entry", w.seq, 0)>>
<1>3. asking \in BOOLEAN /\ (settles => world.asking /\ ~asking) /\ (~settles => asking = world.asking)
  BY <1>1, <1>2
<1>4. world' = Moved(w, outcome) /\ socks' = Delivered(socks, Told(world, said, outcome))
  BY <1>1
<1>5. asking => outcome # "ask"
  BY <1>1, <1>2 DEF Company
<1> HIDE DEF asking
<1>6. w.seq = world.seq + 1 /\ w.asking = asking /\ w.round = world.round /\ w.seat = world.seat
  BY DEF Company
<1> DEFINE n == world.seq + 1
           entry == F("entry", n, 0)
           answer == Say("result")
           ask == Say("ask")
<1>7. said = IF settles THEN <<answer, entry>> ELSE <<entry>>
  BY <1>6
<1>8. /\ answer \in Heard /\ entry \in Heard /\ ask \in Heard
      /\ answer.kind \notin AboutSeat /\ entry.kind \notin AboutSeat /\ ask.kind \notin AboutSeat
      /\ entry.kind \notin AboutQuestion
      /\ answer.kind \notin AboutRound /\ entry.kind \notin AboutRound /\ ask.kind \notin AboutRound
      /\ answer \in Asks(FALSE) /\ ask \in Asks(TRUE)
  <2>1. n \in Nat /\ 0 \in Nat
    OBVIOUS
  <2> QED  BY <2>1, RoundFrames
<1>9. w.asking \in BOOLEAN
  BY <1>3, <1>6
<1> HIDE DEF w, said, entry, answer, n
<1>10. CASE world'.seat
  <2>1. /\ outcome \in {"plain", "ask"} /\ world.seat /\ world'.round = world.round
        /\ world'.asking = IF outcome = "ask" THEN TRUE ELSE asking
    <3>1. w.seat /\ outcome \in {"plain", "ask"}
      BY <1>4, <1>6, <1>10 DEF Moved, Outcomes, Company, w
    <3>2. CASE outcome = "plain"
      BY <1>4, <1>6, <3>1, <3>2 DEF Moved
    <3>3. CASE outcome = "ask"
      BY <1>4, <1>6, <3>1, <3>3 DEF Moved, w, Company
    <3> QED  BY <1>6, <3>1, <3>2, <3>3
  <2>2. CASE outcome = "plain"
    <3>1. Told(world, said, outcome) = said /\ world'.asking = asking
      BY <2>1, <2>2 DEF Told
    <3>2. CASE settles
      <4>1. said = <<answer, entry>> /\ world'.asking = FALSE
        BY <1>3, <1>7, <3>1, <3>2
      <4>2. <<answer, entry>> \in Seq(Heard) /\ NoneAbout(<<answer, entry>>, AboutSeat)
            /\ NoneAbout(<<answer, entry>>, AboutRound)
        BY <1>8, FewFrames, AboutFew
      <4>3. LastAbout(<<answer, entry>>, AboutQuestion, Asks(FALSE))
        BY <1>8, AboutFew
      <4>4. Says(said, world, world')
        BY <2>1, <4>1, <4>2, <4>3 DEF Says
      <4> QED  BY <1>2, <1>4, <2>1, <3>1, <4>4, SaysAgrees
    <3>3. CASE ~settles
      <4>1. said = <<entry>> /\ world'.asking = world.asking
        BY <1>3, <1>7, <3>1, <3>3
      <4>2. <<entry>> \in Seq(Heard) /\ NoneAbout(<<entry>>, AboutSeat)
            /\ NoneAbout(<<entry>>, AboutRound) /\ NoneAbout(<<entry>>, AboutQuestion)
        BY <1>8, FewFrames, AboutFew
      <4>3. Says(said, world, world')
        BY <2>1, <4>1, <4>2 DEF Says
      <4> QED  BY <1>2, <1>4, <2>1, <3>1, <4>3, SaysAgrees
    <3> QED  BY <3>2, <3>3
  <2>3. CASE outcome = "ask"
    <3>1. Told(world, said, outcome) = Append(said, ask) /\ world'.asking = TRUE
      BY <2>1, <2>3 DEF Told
    <3> HIDE DEF ask
    <3>2. CASE settles
      <4>1. Append(said, ask) = <<answer, entry, ask>>
        BY <1>7, <3>2, TwoFrames
      <4>2. /\ <<answer, entry, ask>> \in Seq(Heard) /\ NoneAbout(<<answer, entry, ask>>, AboutSeat)
            /\ NoneAbout(<<answer, entry, ask>>, AboutRound)
        BY <1>8, FewFrames, AboutFew
      <4>3. LastAbout(<<answer, entry, ask>>, AboutQuestion, Asks(TRUE))
        BY <1>8, AboutFew
      <4>4. Says(Append(said, ask), world, world')
        BY <2>1, <3>1, <4>1, <4>2, <4>3 DEF Says
      <4> QED  BY <1>2, <1>4, <2>1, <3>1, <4>4, SaysAgrees
    <3>3. CASE ~settles
      <4>1. Append(said, ask) = <<entry, ask>>
        BY <1>7, <3>3, TwoFrames
      <4>2. /\ <<entry, ask>> \in Seq(Heard) /\ NoneAbout(<<entry, ask>>, AboutSeat)
            /\ NoneAbout(<<entry, ask>>, AboutRound)
        BY <1>8, FewFrames, AboutFew
      <4>3. LastAbout(<<entry, ask>>, AboutQuestion, Asks(TRUE))
        BY <1>8, AboutFew
      <4>4. Says(Append(said, ask), world, world')
        BY <2>1, <3>1, <4>1, <4>2, <4>3 DEF Says
      <4> QED  BY <1>2, <1>4, <2>1, <3>1, <4>4, SaysAgrees
    <3> QED  BY <3>2, <3>3
  <2> QED  BY <2>1, <2>2, <2>3
<1> QED  BY <1>10 DEF PageInv

\* A page that is back on a company, or is sent it again, is sent all of it.
LEMMA HelloAgrees ==
  ASSUME SessionInv, PageInv, NEW g \in Dials, NEW ss \in SocksUpTo(world.seq), Hello(g, ss),
         UNCHANGED <<client, view>>,
         \A h \in Dials : /\ ss[h].down = socks[h].down /\ ss[h].server = socks[h].server
                          /\ ss[h].browser = socks[h].browser
  PROVE  PageInv'
<1> USE Facts
<1>1. ss[g] \in SocketUpTo(world.seq)
  BY DEF SocksUpTo
<1>2. world'.seat = world.seat /\ world'.asking = world.asking /\ world'.round = world.round
  BY DEF Hello, Company
<1> SUFFICES ASSUME NEW h \in Dials, Hearing(h)', world'.seat
             PROVE  Agreeing(socks'[h].down, view', world')
  BY DEF PageInv
<1>3. CASE h # g
  <2>1. socks'[h] = ss[h]
    BY <1>3 DEF Hello, SocksUpTo
  <2>2. Hearing(h) /\ socks'[h].down = socks[h].down
    BY <2>1 DEF Hearing
  <2>3. Agreeing(socks[h].down, view, world)
    BY <1>2, <2>2 DEF PageInv
  <2> QED  BY <1>2, <2>2, <2>3 DEF Agreeing, QuestionShown, RoundShown
<1>4. CASE h = g
  <2> DEFINE before == Append(ss[g].down, Say("welcome"))
  <2>1. HelloAnswer(g).seated = TRUE
    BY <1>2 DEF HelloAnswer, Company
  <2>2. socks'[g].server = "hello"
    BY <1>4 DEF Hearing
  <2>3. socks'[g].down = before \o Joined(world)
    <3>1. CASE socks' = [ss EXCEPT ![g].server = "closing", ![g].down = Append(@, Say("outdated"))]
      <4>1. socks'[g].server = "closing"
        BY <1>1, <3>1 DEF SocksUpTo, SocketUpTo
      <4> QED  BY <2>2, <4>1
    <3>2. CASE socks' = [ss EXCEPT ![g].server = "hello",
                                   ![g].down = Append(@, Say("welcome"))
                                     \o (IF HelloAnswer(g).seated THEN Joined(world) ELSE <<>>)]
      <4> DEFINE down == Append(ss[g].down, Say("welcome"))
                           \o (IF HelloAnswer(g).seated THEN Joined(world) ELSE <<>>)
                 new == [ss[g] EXCEPT !.server = "hello", !.down = down]
      <4>1. socks' = [ss EXCEPT ![g] = new]
        BY <3>2 DEF SocksUpTo
      <4>2. down = before \o Joined(world)
        BY <2>1
      <4> HIDE DEF down
      <4>3. new.down = down
        BY <1>1 DEF SocketUpTo
      <4> HIDE DEF new
      <4>4. socks'[g] = new
        BY <4>1 DEF SocksUpTo
      <4> QED  BY <4>2, <4>3, <4>4
    <3> QED  BY <3>1, <3>2 DEF Hello
  <2>4. Say("welcome") \in FrameUpTo(world.seq)
    BY IsSaid
  <2> DEFINE S == FrameUpTo(world.seq)
  <2>5. ss[g].down \in Seq(S) /\ Say("welcome") \in S /\ Joined(world) \in Seq(S)
    BY <1>1, <2>4, JoinedFrames DEF SocketUpTo
  <2> HIDE DEF S
  <2>6. before \in Seq(S)
    BY <2>5, AppendProperties
  <2> HIDE DEF before
  <2>7. Agreeing(before \o Joined(world), view, world)
    BY <2>5, <2>6, JoinedAgrees
  <2> QED  BY <1>2, <1>4, <2>3, <2>7 DEF Agreeing, QuestionShown, RoundShown
<1> QED  BY <1>3, <1>4

LEMMA CompanyAgrees ==
  ASSUME SessionInv, NEW w \in Company, NEW n \in Nat, NEW ss \in SocksUpTo(n), w.seq >= n,
         world' = w, socks' = Delivered(ss, Joined(w)), UNCHANGED <<client, view>>
  PROVE  PageInv'
<1> SUFFICES ASSUME NEW g \in Dials, Hearing(g)'
             PROVE  Agreeing(socks'[g].down, view', world')
  BY DEF PageInv
<1>1. ss[g].server = "hello" /\ ss[g].browser = "live"
  BY DeliveredTo DEF Hearing
<1>2. socks'[g].down = ss[g].down \o Joined(w)
  BY <1>1, DeliveredAgrees
<1> DEFINE S == FrameUpTo(w.seq)
<1>3. ss[g].down \in Seq(S) /\ Joined(w) \in Seq(S)
  <2>1. w.seq \in Nat
    BY SessionBounds DEF Company
  <2>2. ss[g].down \in Seq(FrameUpTo(n))
    BY DEF SocksUpTo, SocketUpTo
  <2> QED  BY <2>1, <2>2, FramesGrow, JoinedFrames
<1> HIDE DEF S
<1>4. Agreeing(ss[g].down \o Joined(w), view, w)
  BY <1>3, JoinedAgrees
<1> QED  BY <1>2, <1>4

LEMMA HearsAgrees ==
  ASSUME SessionInv, PageInv, NEW g \in Dials, ServerHears(g)
  PROVE  PageInv'
<1> USE Facts
<1> DEFINE ss == [socks EXCEPT ![g].up = Tail(@)]
<1>1. ss \in SocksUpTo(world.seq)
  BY HeardKeeps DEF ServerHears
<1>2. \A h \in Dials : /\ ss[h].down = socks[h].down /\ ss[h].server = socks[h].server
                       /\ ss[h].browser = socks[h].browser
  <2> SUFFICES ASSUME NEW h \in Dials
               PROVE  /\ ss[h].down = socks[h].down /\ ss[h].server = socks[h].server
                      /\ ss[h].browser = socks[h].browser
    OBVIOUS
  <2>1. ss[h] = IF h = g THEN [socks[g] EXCEPT !.up = Tail(@)] ELSE socks[h]
    BY DEF SocksUpTo
  <2> HIDE DEF ss
  <2> QED  BY <2>1 DEF SocketUpTo
<1>3. /\ UNCHANGED <<client, view>>
      /\ \/ Hello(g, ss)
         \/ socks' = Delivered(ss, Joined(world)) /\ UNCHANGED world
         \/ JoinCompany(ss) \/ LeaveCompany(ss)
         \/ socks' = ss /\ UNCHANGED world
  BY DEF ServerHears
<1> HIDE DEF ss
<1>4. CASE Hello(g, ss)
  BY <1>1, <1>2, <1>3, <1>4, HelloAgrees
<1>5. CASE socks' = Delivered(ss, Joined(world)) /\ UNCHANGED world
  BY <1>1, <1>3, <1>5, CompanyAgrees
<1>6. CASE socks' = ss /\ UNCHANGED world
  BY <1>2, <1>3, <1>6, PageStays DEF SeatShown, Hearing
<1>7. ASSUME JoinCompany(ss), ~(socks' = ss /\ UNCHANGED world)
      PROVE  PageInv'
  <2>1. PICK asks \in {world.asking, TRUE} :
          LET w == [world EXCEPT !.seat = TRUE, !.seq = world.seq + 1, !.asking = asks]
          IN world' = w /\ socks' = Delivered(ss, Joined(w))
    BY <1>7 DEF JoinCompany
  <2> DEFINE w == [world EXCEPT !.seat = TRUE, !.seq = world.seq + 1, !.asking = asks]
  <2>2. world' = w /\ socks' = Delivered(ss, Joined(w))
    BY <2>1
  <2>3. w \in Company /\ w.seq >= world.seq
    <3>1. world' \in Company /\ world.seq <= world'.seq
      BY <1>1, <1>7, JoinKeeps
    <3> QED  BY <2>2, <3>1
  <2> HIDE DEF w
  <2> QED  BY <1>1, <1>3, <2>2, <2>3, CompanyAgrees
<1>8. ASSUME LeaveCompany(ss), ~(socks' = ss /\ UNCHANGED world)
      PROVE  PageInv'
  <2>1. ~world'.seat
    BY <1>8 DEF LeaveCompany, Moved, Company
  <2> QED  BY <2>1 DEF PageInv
<1> QED  BY <1>3, <1>4, <1>5, <1>6, <1>7, <1>8

LEMMA OpensAgrees ==
  ASSUME SessionInv, PageInv, NEW g \in Dials, ServerOpens(g) \/ ServerCloses(g)
  PROVE  PageInv'
<1> USE Facts
<1>1. /\ UNCHANGED <<client, view>>
      /\ world'.seat = world.seat /\ world'.asking = world.asking /\ world'.round = world.round
  BY DEF ServerOpens, ServerCloses, Company
<1>2. ASSUME NEW h \in Dials, Hearing(h)'
      PROVE  Hearing(h) /\ socks'[h].down = socks[h].down
  <2>1. CASE h # g
    BY <1>1, <1>2, <2>1 DEF ServerOpens, ServerCloses, Hearing, SocksUpTo
  <2>2. CASE h = g
    BY <1>1, <1>2, <2>2 DEF ServerOpens, ServerCloses, Hearing, SocksUpTo, SocketUpTo
  <2> QED  BY <2>1, <2>2
<1> QED  BY <1>1, <1>2, PageStays DEF SeatShown

\* Connections change hands: the one that is heard was heard before.
LEMMA HoldAgrees ==
  ASSUME SessionInv, PageInv, Retain \/ Release \/ RetryFires
  PROVE  PageInv'
<1> USE Facts
<1>1. UNCHANGED <<view, world>>
  BY DEF Retain, Release, RetryFires
<1>2. CASE Release
  <2>1. client'.socket = NoSocket
    BY <1>2 DEF Release, Client
  <2> QED  BY <2>1 DEF PageInv, Hearing
<1>3. CASE Retain \/ RetryFires
  <2>1. client'.socket = client.socket /\ UNCHANGED socks
    BY <1>3 DEF Retain, RetryFires, Dialled, Client
  <2>2. \A g \in Dials : Hearing(g)' => Hearing(g) /\ socks'[g].down = socks[g].down
    BY <2>1 DEF Hearing
  <2> QED  BY <1>1, <2>2, PageStays DEF SeatShown
<1> QED  BY <1>2, <1>3

LEMMA TicketAgrees ==
  ASSUME SessionInv, PageInv, NEW g \in Dials, TicketAnswered(g)
  PROVE  PageInv'
<1> USE Facts
<1> DEFINE c == [client EXCEPT !.fetching = client.fetching \ {g}]
<1>1. UNCHANGED <<view, world>>
  BY DEF TicketAnswered
<1>2. c.socket = client.socket /\ c \in Client
  BY DEF Client
<1>3. \/ client' = c /\ UNCHANGED socks
      \/ client' = [c EXCEPT !.socket = g] /\ socks' = [socks EXCEPT ![g].browser = "opening"]
      \/ client' \in {Stopped(c, "closed"), Stopped(c, "disabled"), Backoff(c)} /\ UNCHANGED socks
  BY DEF TicketAnswered
<1> HIDE DEF c
<1>4. ASSUME NEW h \in Dials, Hearing(h)'
      PROVE  Hearing(h) /\ socks'[h].down = socks[h].down
  <2>1. CASE client' = c /\ UNCHANGED socks
    BY <1>2, <1>4, <2>1 DEF Hearing
  <2>2. CASE client' = [c EXCEPT !.socket = g] /\ socks' = [socks EXCEPT ![g].browser = "opening"]
    <3>1. client'.socket = g /\ socks'[g].browser = "opening"
      BY <1>2, <2>2 DEF Client, SocksUpTo, SocketUpTo
    <3> QED  BY <1>4, <3>1 DEF Hearing
  <2>3. CASE client' \in {Stopped(c, "closed"), Stopped(c, "disabled"), Backoff(c)} /\ UNCHANGED socks
    <3>1. client'.socket \in {NoSocket, client.socket}
      BY <1>2, <2>3 DEF Stopped, Backoff, Client
    <3> QED  BY <1>4, <2>3, <3>1 DEF Hearing
  <2> QED  BY <1>3, <2>1, <2>2, <2>3
<1> QED  BY <1>1, <1>4, PageStays DEF SeatShown

LEMMA SocketAgrees ==
  ASSUME SessionInv, PageInv, NEW g \in Dials, SocketOpens(g) \/ SocketCloses(g) \/ LateClose(g)
  PROVE  PageInv'
<1> USE Facts
<1>1. UNCHANGED <<view, world>>
  BY DEF SocketOpens, SocketCloses, LateClose
<1>2. ASSUME NEW h \in Dials, Hearing(h)'
      PROVE  Hearing(h) /\ socks'[h].down = socks[h].down
  <2>1. CASE SocketOpens(g)
    <3>1. client' = client /\ socks[g].server # "hello"
      BY <2>1 DEF SocketOpens
    <3>2. socks'[g].server = socks[g].server
      BY <2>1 DEF SocketOpens, SocksUpTo, SocketUpTo
    <3>3. h # g => socks'[h] = socks[h]
      BY <2>1 DEF SocketOpens, SocksUpTo
    <3> QED  BY <1>2, <3>1, <3>2, <3>3 DEF Hearing
  <2>2. CASE SocketCloses(g) \/ LateClose(g)
    <3>1. socks'[g].browser = "shut"
      BY <2>2 DEF SocketCloses, LateClose, SocksUpTo, SocketUpTo
    <3>2. h # g => socks'[h] = socks[h]
      BY <2>2 DEF SocketCloses, LateClose, SocksUpTo
    <3>3. client'.socket \in {NoSocket, client.socket}
      BY <2>2 DEF SocketCloses, LateClose, ClosedBy, AfterClose, Backoff, Client
    <3> QED  BY <1>2, <3>1, <3>2, <3>3 DEF Hearing
  <2> QED  BY <2>1, <2>2
<1> QED  BY <1>1, <1>2, PageStays DEF SeatShown

LEMMA AskAgrees ==
  ASSUME SessionInv, PageInv, NEW request \in {"join", "leave"}, Ask(request)
  PROVE  PageInv'
<1> USE Facts
<1>1. UNCHANGED <<client, view, world>> /\ socks' = [socks EXCEPT ![client.socket].up = <<request>>]
  BY DEF Ask
<1>2. \A h \in Dials : Hearing(h)' => Hearing(h) /\ socks'[h].down = socks[h].down
  BY <1>1 DEF Hearing, SocksUpTo, SocketUpTo
<1> QED  BY <1>1, <1>2, PageStays DEF SeatShown

\* Draining the inbox leaves what the page is compared by.
LEMMA DrainedShows ==
  ASSUME NEW n \in Nat, NEW v \in ViewUpTo(n), NEW st, NEW bad
  PROVE  LET d == Drained(v, st, bad).view
         IN d.join = v.join /\ d.closed = v.closed /\ d.asking = v.asking /\ d.round = v.round
<1> DEFINE end == RunEnd(v.applied, Later(v.applied, v.inbox))
           empty == [v EXCEPT !.inbox = {}]
           moved == [v EXCEPT !.applied = end, !.inbox = {}]
<1>1. Drained(v, st, bad).view \in {v, empty, moved}
  BY DEF Drained
<1> HIDE DEF end
<1>2. /\ empty.join = v.join /\ empty.closed = v.closed /\ empty.asking = v.asking /\ empty.round = v.round
      /\ moved.join = v.join /\ moved.closed = v.closed /\ moved.asking = v.asking /\ moved.round = v.round
  BY DEF ViewUpTo
<1> QED  BY <1>1, <1>2

LEMMA SettleShows ==
  ASSUME NEW n \in Nat, NEW v \in ViewUpTo(n), NEW st, NEW ss \in SocksUpTo(n), NEW g \in 0..MaxDials,
         Settle(v, st, ss, g)
  PROVE  /\ view'.join = v.join /\ view'.closed = v.closed
         /\ view'.asking = v.asking /\ view'.round = v.round
         /\ \A h \in Dials : /\ socks'[h].down = ss[h].down /\ socks'[h].server = ss[h].server
                             /\ socks'[h].browser = ss[h].browser
<1>1. PICK bad \in BOOLEAN : /\ view' = Drained(v, st, bad).view
                             /\ socks' = Asking(ss, g, Drained(v, st, bad).asks)
  BY DEF Settle
<1>2. ASSUME NEW asks, NEW h \in Dials
      PROVE  LET after == Asking(ss, g, asks)[h]
             IN after.down = ss[h].down /\ after.server = ss[h].server /\ after.browser = ss[h].browser
  <2>1. ss[h] \in SocketUpTo(n)
    BY DEF SocksUpTo
  <2>2. \/ Asking(ss, g, asks)[h] = ss[h]
        \/ Asking(ss, g, asks)[h] = [ss[h] EXCEPT !.up = Append(@, "resync")]
    BY DEF Asking, SocksUpTo
  <2> QED  BY <2>1, <2>2 DEF SocketUpTo
<1> QED  BY <1>1, <1>2, DrainedShows

\* A company that has closed is not shown seated: a page that leaves it for the lobby
\* has been sent another one, whatever it knew.
LEMMA LobbyAgrees ==
  ASSUME SessionInv, PageInv, BackToLobby
  PROVE  PageInv'
<1> SUFFICES ASSUME NEW g \in Dials, Hearing(g)', world'.seat
             PROVE  Agreeing(socks'[g].down, view', world')
  BY DEF PageInv
<1> DEFINE d == socks[g].down
<1>1. UNCHANGED <<client, socks, world>> /\ ~SeatShown(view)
  BY DEF BackToLobby, SeatShown
<1>2. Agreeing(d, view, world)
  BY <1>1 DEF PageInv, Hearing
<1> HIDE DEF d
<1>3. LastAbout(d, AboutSeat, Seats)
  BY <1>1, <1>2 DEF Agreeing
<1>4. PICK k \in 1..Len(d) : d[k] \in Seats
  BY <1>3 DEF LastAbout
<1>5. ~NoneAbout(d, AboutQuestion) /\ ~NoneAbout(d, AboutRound)
  BY <1>4 DEF NoneAbout, Seats, AboutQuestion, AboutRound, AboutSeat
<1>6. Agreeing(d, view', world)
  BY <1>2, <1>3, <1>5 DEF Agreeing
<1> QED  BY <1>1, <1>6 DEF d

LEMMA StageAgrees ==
  ASSUME SessionInv, PageInv, Unmount \/ Mount \/ BackToLobby
  PROVE  PageInv'
<1> USE Facts
<1>1. CASE Unmount
  <2>1. UNCHANGED <<client, socks, view, world>>
    BY <1>1 DEF Unmount
  <2>2. \A g \in Dials : Hearing(g)' => Hearing(g) /\ socks'[g].down = socks[g].down
    BY <2>1 DEF Hearing
  <2> QED  BY <2>1, <2>2, PageStays DEF SeatShown
<1>2. CASE Mount
  <2> DEFINE st == [NoStage EXCEPT !.mounted = TRUE, !.fresh = TRUE, !.at = view.join]
  <2>1. Settle(view, st, socks, client.socket) /\ UNCHANGED <<client, world>>
    BY <1>2 DEF Mount
  <2> HIDE DEF st
  <2>2. /\ view'.join = view.join /\ view'.closed = view.closed
        /\ view'.asking = view.asking /\ view'.round = view.round
        /\ \A h \in Dials : /\ socks'[h].down = socks[h].down /\ socks'[h].server = socks[h].server
                            /\ socks'[h].browser = socks[h].browser
    BY <2>1, SettleShows
  <2>3. \A g \in Dials : Hearing(g)' => Hearing(g) /\ socks'[g].down = socks[g].down
    BY <2>1, <2>2 DEF Hearing
  <2> QED  BY <2>1, <2>2, <2>3, PageStays DEF SeatShown
<1>3. CASE BackToLobby
  BY <1>3, LobbyAgrees
<1> QED  BY <1>1, <1>2, <1>3

\* A frame the page reads does to it what its kind says.
LEMMA ReducedShows ==
  ASSUME NEW n \in Nat, NEW v \in ViewUpTo(n), NEW f \in FrameUpTo(n), NEW w
  PROVE  LET v2 == Reduced(v, f)
         IN /\ f \in Seats => SeatShown(v2)
            /\ f.kind \notin AboutSeat /\ SeatShown(v) => SeatShown(v2)
            /\ w.asking \in BOOLEAN /\ f \in Asks(w.asking) => QuestionShown(v2, w)
            /\ f.kind \notin AboutQuestion /\ QuestionShown(v, w) => QuestionShown(v2, w)
            /\ f \in Opens(w.round) => RoundShown(v2, w)
            /\ f.kind \notin AboutRound /\ RoundShown(v, w) => RoundShown(v2, w)
<1> DEFINE v2 == Reduced(v, f)
<1>1. f.kind \in {"welcome", "outdated", "joined", "entry", "resolved", "open",
                  "ask", "result", "left", "closed"} /\ f.n \in Nat
  BY DEF FrameUpTo
<1>2. /\ Queued(v, f.n).join = v.join /\ Queued(v, f.n).closed = v.closed
      /\ Queued(v, f.n).asking = v.asking /\ Queued(v, f.n).round = v.round
      /\ Resolved(v, f.n).join = v.join /\ Resolved(v, f.n).closed = v.closed
      /\ Resolved(v, f.n).asking = v.asking /\ Resolved(v, f.n).round = None
  BY DEF Queued, Resolved, ViewUpTo
<1>3. CASE f.kind = "joined"
  <2>1. v2.join = f.n /\ v2.closed = FALSE /\ v2.asking = FALSE /\ v2.round = f.r
    BY <1>3 DEF Reduced, NoView
  <2> HIDE DEF v2
  <2>2. SeatShown(v2)
    BY <1>1, <2>1 DEF SeatShown, None
  <2>3. w.asking \in BOOLEAN /\ f \in Asks(w.asking) => QuestionShown(v2, w)
    BY <1>3, <2>1 DEF QuestionShown, Asks
  <2>4. f \in Opens(w.round) => RoundShown(v2, w)
    BY <1>3, <2>1 DEF RoundShown, Opens
  <2> QED  BY <1>3, <2>2, <2>3, <2>4 DEF AboutSeat, AboutQuestion, AboutRound, v2
<1>4. CASE f.kind \in {"left", "closed"}
  <2>1. v2.asking = FALSE /\ v2.round = None
    BY <1>4 DEF Reduced, ViewUpTo
  <2> HIDE DEF v2
  <2>2. w.asking \in BOOLEAN /\ f \in Asks(w.asking) => QuestionShown(v2, w)
    BY <1>4, <2>1 DEF QuestionShown, Asks
  <2>3. RoundShown(v2, w)
    BY <2>1 DEF RoundShown
  <2> QED  BY <1>4, <2>2, <2>3 DEF Seats, AboutSeat, AboutQuestion, AboutRound, v2
<1>5. CASE f.kind \in {"ask", "result"}
  <2>1. /\ v2.join = v.join /\ v2.closed = v.closed /\ v2.round = v.round
        /\ v2.asking = (f.kind = "ask")
    BY <1>5 DEF Reduced, ViewUpTo
  <2> HIDE DEF v2
  <2>2. w.asking \in BOOLEAN /\ f \in Asks(w.asking) => QuestionShown(v2, w)
    BY <1>5, <2>1 DEF QuestionShown, Asks
  <2>3. (SeatShown(v) => SeatShown(v2)) /\ (RoundShown(v, w) => RoundShown(v2, w))
    BY <2>1 DEF SeatShown, RoundShown
  <2> QED  BY <1>5, <2>2, <2>3 DEF Seats, Opens, AboutSeat, AboutQuestion, AboutRound, v2
<1>6. CASE f.kind \in {"open", "resolved"}
  <2>1. /\ v2.join = v.join /\ v2.closed = v.closed /\ v2.asking = v.asking
        /\ v2.round = IF f.kind = "open" THEN f.r ELSE None
    BY <1>2, <1>6 DEF Reduced, ViewUpTo
  <2> HIDE DEF v2
  <2>2. f \in Opens(w.round) => RoundShown(v2, w)
    BY <1>6, <2>1 DEF RoundShown, Opens
  <2>3. (SeatShown(v) => SeatShown(v2)) /\ (QuestionShown(v, w) => QuestionShown(v2, w))
    BY <2>1 DEF SeatShown, QuestionShown
  <2> QED  BY <1>6, <2>2, <2>3 DEF Seats, Asks, AboutSeat, AboutQuestion, AboutRound, v2
<1>7. CASE f.kind \in {"welcome", "outdated", "entry"}
  <2>1. v2.join = v.join /\ v2.closed = v.closed /\ v2.asking = v.asking /\ v2.round = v.round
    BY <1>2, <1>7 DEF Reduced
  <2> HIDE DEF v2
  <2>2. /\ SeatShown(v) => SeatShown(v2)
        /\ QuestionShown(v, w) => QuestionShown(v2, w)
        /\ RoundShown(v, w) => RoundShown(v2, w)
    BY <2>1 DEF SeatShown, QuestionShown, RoundShown
  <2> QED  BY <1>7, <2>2 DEF Seats, Asks, Opens, AboutSeat, AboutQuestion, AboutRound, v2
<1> QED  BY <1>1, <1>3, <1>4, <1>5, <1>6, <1>7

\* Reading the first of the frames on their way.
LEMMA ReadingAgrees ==
  ASSUME NEW n \in Nat, NEW v \in ViewUpTo(n), NEW w \in Company,
         NEW d \in Seq(FrameUpTo(n)), d # <<>>, Agreeing(d, v, w)
  PROVE  Agreeing(Tail(d), Reduced(v, Head(d)), w)
<1> DEFINE S == FrameUpTo(n)
           f == Head(d)
           v2 == Reduced(v, f)
<1>1. d \in Seq(S) /\ w.asking \in BOOLEAN
  BY DEF Company
<1> HIDE DEF S
<1>2. f \in S
  BY <1>1
<1>3. /\ f \in Seats => SeatShown(v2)
      /\ f.kind \notin AboutSeat /\ SeatShown(v) => SeatShown(v2)
      /\ f \in Asks(w.asking) => QuestionShown(v2, w)
      /\ f.kind \notin AboutQuestion /\ QuestionShown(v, w) => QuestionShown(v2, w)
      /\ f \in Opens(w.round) => RoundShown(v2, w)
      /\ f.kind \notin AboutRound /\ RoundShown(v, w) => RoundShown(v2, w)
  BY <1>1, <1>2, ReducedShows DEF S
<1>4. \A kinds, good :
        /\ NoneAbout(d, kinds) => NoneAbout(Tail(d), kinds) /\ f.kind \notin kinds
        /\ LastAbout(d, kinds, good) =>
             \/ LastAbout(Tail(d), kinds, good)
             \/ NoneAbout(Tail(d), kinds) /\ f \in good
  BY <1>1, AboutTheRest
<1> HIDE DEF f, v2
<1>5. (NoneAbout(Tail(d), AboutSeat) /\ SeatShown(v2)) \/ LastAbout(Tail(d), AboutSeat, Seats)
  BY <1>3, <1>4 DEF Agreeing
<1>6. \/ NoneAbout(Tail(d), AboutQuestion) /\ QuestionShown(v2, w)
      \/ LastAbout(Tail(d), AboutQuestion, Asks(w.asking))
  BY <1>3, <1>4 DEF Agreeing
<1>7. \/ NoneAbout(Tail(d), AboutRound) /\ RoundShown(v2, w)
      \/ LastAbout(Tail(d), AboutRound, Opens(w.round))
  BY <1>3, <1>4 DEF Agreeing
<1> QED  BY <1>5, <1>6, <1>7 DEF Agreeing, v2, f

LEMMA ReceiveAgrees ==
  ASSUME SessionInv, PageInv, NEW g \in Dials, Receive(g)
  PROVE  PageInv'
<1> USE Facts
<1> DEFINE d == socks[g].down
           f == Head(d)
           ss == [socks EXCEPT ![g].down = Tail(@)]
           shut == IF f.kind = "outdated" THEN Shut(ss, g) ELSE ss
           st == IF f.kind = "joined" THEN [stage EXCEPT !.fresh = FALSE] ELSE stage
<1>1. Connected(g) /\ g = client.socket /\ g = client.gen /\ d # <<>> /\ world' = world
  BY DEF Receive, Connected, SessionInv, OneSocket
<1>2. d \in Seq(FrameUpTo(world.seq)) /\ f \in FrameUpTo(world.seq)
      /\ Tail(d) \in Seq(FrameUpTo(world.seq))
  <2> DEFINE S == FrameUpTo(world.seq)
  <2>1. d \in Seq(S)
    BY DEF SocketUpTo
  <2> HIDE DEF S
  <2>2. Head(d) \in S /\ Tail(d) \in Seq(S)
    BY <1>1, <2>1
  <2> QED  BY <2>1, <2>2 DEF S
<1>3. /\ client' = CASE f.kind = "welcome" -> [client EXCEPT !.status = "open", !.again = FALSE]
                     [] f.kind = "outdated" -> Stopped(client, "outdated")
                     [] OTHER -> client
      /\ Settle(Reduced(view, f), st, shut, client.socket)
  BY <1>1 DEF Receive
<1>4. ss \in SocksUpTo(world.seq) /\ ss[g].down = Tail(d) /\ ss[g].server = socks[g].server
      /\ ss[g].browser = socks[g].browser
  <2> DEFINE new == [socks[g] EXCEPT !.down = Tail(@)]
  <2>1. /\ new \in SocketUpTo(world.seq) /\ new.down = Tail(d) /\ new.server = socks[g].server
        /\ new.browser = socks[g].browser
    BY <1>2 DEF SocketUpTo
  <2>2. ss = [socks EXCEPT ![g] = new]
    BY DEF SocksUpTo
  <2> HIDE DEF new, ss, d
  <2> QED  BY <2>1, <2>2 DEF SocksUpTo
<1>5. Reduced(view, f) \in ViewUpTo(world.seq)
  BY <1>2, ReducedKeeps
<1> HIDE DEF ss, st
<1>6. shut \in SocksUpTo(world.seq)
  BY <1>1, <1>4, ShutKeeps
<1> HIDE DEF shut
<1>7. /\ view'.join = Reduced(view, f).join /\ view'.closed = Reduced(view, f).closed
      /\ view'.asking = Reduced(view, f).asking /\ view'.round = Reduced(view, f).round
      /\ \A h \in Dials : /\ socks'[h].down = shut[h].down /\ socks'[h].server = shut[h].server
                          /\ socks'[h].browser = shut[h].browser
  BY <1>3, <1>5, <1>6, SettleShows
<1> SUFFICES ASSUME NEW h \in Dials, Hearing(h)', world'.seat
             PROVE  Agreeing(socks'[h].down, view', world')
  BY DEF PageInv
<1>8. f.kind # "outdated"
  <2> SUFFICES ASSUME f.kind = "outdated" PROVE FALSE
    OBVIOUS
  <2>1. client'.socket = NoSocket
    BY <1>3 DEF Stopped, Client
  <2> QED  BY <2>1 DEF Hearing
<1>9. client'.socket = client.socket
  BY <1>3, <1>8 DEF Client
<1>10. h = g /\ shut = ss
  BY <1>1, <1>8, <1>9 DEF Hearing, shut
<1>11. Hearing(g) /\ socks'[g].down = Tail(d)
  BY <1>1, <1>4, <1>7, <1>10 DEF Hearing
<1>12. Agreeing(d, view, world)
  BY <1>1, <1>11 DEF PageInv
<1>13. Agreeing(Tail(d), Reduced(view, f), world)
  BY <1>1, <1>2, <1>12, ReadingAgrees
<1>14. Agreeing(Tail(d), view', world)
  BY <1>7, <1>13 DEF Agreeing, SeatShown, QuestionShown, RoundShown
<1> QED  BY <1>1, <1>10, <1>11, <1>14

LEMMA PageKeeps == SessionInv /\ PageInv /\ [Next]_vars => PageInv'
<1> SUFFICES ASSUME SessionInv, PageInv, [Next]_vars PROVE PageInv'
  OBVIOUS
<1>1. CASE UNCHANGED vars
  BY <1>1 DEF vars, PageInv, Hearing
<1>2. CASE Next
  BY <1>2, HoldAgrees, TicketAgrees, SocketAgrees, ReceiveAgrees, OpensAgrees, HearsAgrees,
     StageAgrees, AskAgrees, TickAgrees, EntryAgrees DEF Next
<1> QED  BY <1>1, <1>2

\* However often it reconnects, resyncs or changes stage in the middle of a question,
\* a page that has heard everything shows the seat, the question and the round the
\* company has (joinedMessages, reduceServer).
THEOREM PageShowsTheCompany == Spec => []PageAgrees
<1>1. Init => PageInv
  BY DEF Init, PageInv
<1>2. SessionInv /\ PageInv => PageAgrees
  <2> SUFFICES ASSUME SessionInv, PageInv, Quiet, world.seat
               PROVE  SeatShown(view) /\ QuestionShown(view, world) /\ RoundShown(view, world)
    BY DEF PageAgrees, SeatShown, QuestionShown, RoundShown
  <2>1. client.socket \in Dials /\ Hearing(client.socket)
    BY SessionBounds DEF Quiet, Hearing, SessionInv, Types, Client, NoSocket, Dials
  <2>2. Agreeing(<<>>, view, world)
    BY <2>1 DEF Quiet, PageInv
  <2>3. ASSUME NEW kinds, NEW good PROVE ~LastAbout(<<>>, kinds, good)
    BY DEF LastAbout
  <2> QED  BY <2>2, <2>3 DEF Agreeing
<1>3. Spec => []PageInv
  BY <1>1, SessionIsSound, PageKeeps, PTL DEF Spec
<1> QED  BY <1>2, <1>3, SessionIsSound, PTL
=============================================================================
