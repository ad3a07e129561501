------------------------------ MODULE Session ------------------------------
(***************************************************************************)
(* One player's session in a company: the browser's connection (client.ts),*)
(* what it knows (reduce.ts), the stage that replays the company's log     *)
(* (driver.ts, MultiStage.tsx), and the server's side of it (server.ts and *)
(* the answers of world.ts).  Ticket, socket, frames each way, the close   *)
(* seen by the browser and the close seen by the server are steps of their *)
(* own, so a connection may be half open, and an old one may outlive a new *)
(* one.                                                                    *)
(*                                                                         *)
(* An entry of the log is its sequence number.  A stage that applies an    *)
(* entry to another state than the one it follows gets another hash.       *)
(***************************************************************************)
EXTENDS Integers, Sequences, SequencesExt, FiniteSets

CONSTANTS
  MaxDials,   \* bound: connections the client tries, each with a socket of its own,
              \* the last of them never given up
  MaxSeq,     \* bound: entries of the company's log
  MaxLag,     \* bound: frames in flight when the company moves on
  MaxDrifts   \* bound: entries a stage gets wrong though it has its place

ASSUME SessionBounds == MaxDials \in Nat \ {0} /\ {MaxSeq, MaxLag, MaxDrifts} \subseteq Nat

VARIABLES
  client,   \* the connection: status, generation, timers
  socks,    \* by generation: the browser's end, the server's end, frames each way
  view,     \* the store: what the page knows of its company
  stage,    \* the stage and its driver
  world,    \* the server: presence, the seat, the company
  drifts

vars == <<client, socks, view, stage, world, drifts>>

Dials == 1..MaxDials
None == -1
NoSocket == 0

Frame == [kind : {"welcome", "outdated", "joined", "entry", "resolved", "open",
                  "ask", "result", "left", "closed"},
          n : 0..MaxSeq, r : 0..MaxSeq]
F(kind, n, r) == [kind |-> kind, n |-> n, r |-> r]
Say(kind) == F(kind, 0, 0)
Requests == {"hello", "resync", "join", "leave"}

NoSock == [browser |-> "none", server |-> "none", up |-> <<>>, down |-> <<>>]

SessionTypeOK ==
  /\ client \in [status : {"idle", "connecting", "open", "reconnecting", "closed",
                           "outdated", "disabled"},
                 held : BOOLEAN, terminal : BOOLEAN, again : BOOLEAN,
                 gen : 0..MaxDials, dials : 0..MaxDials, retry : BOOLEAN,
                 fetching : SUBSET Dials, socket : 0..MaxDials]
  /\ \A g \in Dials :
       /\ socks[g].browser \in {"none", "opening", "live", "closing", "shut"}
       /\ socks[g].server \in {"none", "open", "hello", "closing", "gone"}
       /\ Range(socks[g].up) \subseteq Requests
       /\ Range(socks[g].down) \subseteq Frame
  /\ view \in [join : None..MaxSeq, applied : 0..MaxSeq, inbox : SUBSET (1..MaxSeq),
               round : None..MaxSeq, asking : BOOLEAN, closed : BOOLEAN]
  /\ stage \in [mounted : BOOLEAN, fresh : BOOLEAN, at : 0..MaxSeq,
                good : BOOLEAN, lost : BOOLEAN]
  /\ world \in [online : BOOLEAN, seat : BOOLEAN, alive : BOOLEAN,
                seq : 0..MaxSeq, round : 0..MaxSeq, asking : BOOLEAN]
  /\ drifts \in 0..MaxDrifts

NoView == [join |-> None, applied |-> 0, inbox |-> {}, round |-> None,
           asking |-> FALSE, closed |-> FALSE]
NoStage == [mounted |-> FALSE, fresh |-> FALSE, at |-> 0, good |-> TRUE, lost |-> FALSE]

Init ==
  /\ client = [status |-> "idle", held |-> FALSE, terminal |-> FALSE, again |-> FALSE,
               gen |-> 0, dials |-> 0, retry |-> FALSE, fetching |-> {}, socket |-> NoSocket]
  /\ socks = [g \in Dials |-> NoSock]
  /\ view = NoView
  /\ stage = NoStage
  /\ world = [online |-> FALSE, seat |-> FALSE, alive |-> TRUE, seq |-> 0,
              round |-> 0, asking |-> FALSE]
  /\ drifts = 0

-----------------------------------------------------------------------------
(* The client's connection (client.ts) *)

\* connect(), up to the ticket it awaits.  `gen` is the connection whose events
\* count: the generation of the code, or none once it is bumped by a close.
Dialled(c) ==
  [c EXCEPT !.dials = c.dials + 1, !.gen = c.dials + 1,
            !.fetching = c.fetching \cup {c.dials + 1},
            !.status = IF c.again THEN "reconnecting" ELSE "connecting"]

\* scheduleRetry()
Backoff(c) == [c EXCEPT !.again = TRUE, !.status = "reconnecting", !.retry = TRUE]

\* stopFor(): nothing a retry would change.
Stopped(c, status) ==
  [c EXCEPT !.terminal = TRUE, !.retry = FALSE, !.socket = NoSocket, !.status = status]

\* The browser closes a socket: it hears no more, and is told of the close later.
Shut(ss, g) == IF g = NoSocket THEN ss ELSE [ss EXCEPT ![g].browser = "closing", ![g].down = <<>>]

\* retain(), by the layout of the multiplayer screens.
Retain ==
  /\ ~client.held
  /\ client.dials < MaxDials
  /\ client' = Dialled([client EXCEPT !.held = TRUE, !.terminal = FALSE])
  /\ UNCHANGED <<socks, view, stage, world, drifts>>

\* release(), which closes.  The bound: the last dial is not given up, as nothing
\* could come after it.
Release ==
  /\ client.held
  /\ client.dials < MaxDials
  /\ client' = [client EXCEPT !.held = FALSE, !.gen = NoSocket, !.retry = FALSE,
                              !.socket = NoSocket, !.again = FALSE, !.status = "idle"]
  /\ socks' = Shut(socks, client.socket)
  /\ UNCHANGED <<view, stage, world, drifts>>

RetryFires ==
  /\ client.retry
  /\ client.dials < MaxDials
  /\ client' = IF client.held /\ ~client.terminal
               THEN Dialled([client EXCEPT !.retry = FALSE])
               ELSE [client EXCEPT !.retry = FALSE]
  /\ UNCHANGED <<socks, view, stage, world, drifts>>

\* (Mutant) A ticket is used however late it comes.
TicketCurrent_Any(g) == TRUE

\* A later connection or a close makes the answer one to ignore.
TicketCurrent(g) == g = client.gen

\* The ticket route answers: a ticket, a refusal (401, 403 or 404), or nothing useful.
TicketAnswered(g) ==
  /\ g \in client.fetching
  /\ LET c == [client EXCEPT !.fetching = client.fetching \ {g}]
     IN \/ /\ ~TicketCurrent(g)
           /\ client' = c
           /\ UNCHANGED socks
        \/ /\ TicketCurrent(g)
           /\ client' = [c EXCEPT !.socket = g]
           /\ socks' = [socks EXCEPT ![g].browser = "opening"]
        \/ /\ TicketCurrent(g)
           /\ client' \in {Stopped(c, "closed"), Stopped(c, "disabled")}
           /\ UNCHANGED socks
        \/ /\ TicketCurrent(g)
           /\ client' = Backoff(c)
           /\ UNCHANGED socks
  /\ UNCHANGED <<view, stage, world, drifts>>

\* The open event: hello, unless the connection was given up meanwhile.
SocketOpens(g) ==
  /\ socks[g].browser = "opening"
  /\ socks[g].server \in {"open", "closing"}
  /\ socks' = [socks EXCEPT ![g].browser = "live",
                            ![g].up = IF g = client.gen THEN <<"hello">> ELSE <<>>]
  /\ UNCHANGED <<client, view, stage, world, drifts>>

AfterClose(c) ==
  LET c1 == [c EXCEPT !.socket = NoSocket, !.retry = FALSE]
  IN IF c.terminal \/ ~c.held THEN c1 ELSE Backoff(c1)

\* (Mutant) The close of a connection given up is taken for that of the current one.
ClosedBy_Any(c, g) == AfterClose(c)

ClosedBy(c, g) == IF g = c.gen THEN AfterClose(c) ELSE c

\* The close event: refused, closed by the server, or the network is lost, which
\* the server may notice much later.
SocketCloses(g) ==
  /\ socks[g].browser \in {"opening", "live"}
  /\ socks' = [socks EXCEPT ![g].browser = "shut", ![g].down = <<>>]
  /\ client' = ClosedBy(client, g)
  /\ UNCHANGED <<view, stage, world, drifts>>

\* The close event of a socket the browser closed itself, by then perhaps on
\* another dial.
LateClose(g) ==
  /\ socks[g].browser = "closing"
  /\ socks' = [socks EXCEPT ![g].browser = "shut"]
  /\ client' = ClosedBy(client, g)
  /\ UNCHANGED <<view, stage, world, drifts>>

-----------------------------------------------------------------------------
(* What the page knows (reduce.ts) and the stage (driver.ts) *)

Later(a, S) == {n \in S : n > a}

\* queue(): unless it is there or was applied already.
Queued(v, n) == [v EXCEPT !.inbox = v.inbox \cup Later(v.applied, {n})]

\* The next round opens with a frame of its own.
Resolved(v, n) == [Queued(v, n) EXCEPT !.round = None]

\* reduceServer(): the frames that touch the company.
Reduced(v, f) ==
  CASE f.kind = "joined" -> [NoView EXCEPT !.join = f.n, !.applied = f.n, !.round = f.r]
    [] f.kind = "entry" -> IF v.join = None THEN v ELSE Queued(v, f.n)
    [] f.kind = "resolved" -> Resolved(v, f.n)
    [] f.kind = "open" -> [v EXCEPT !.round = f.r]
    [] f.kind = "ask" -> [v EXCEPT !.asking = TRUE]
    [] f.kind = "result" -> [v EXCEPT !.asking = FALSE]
    [] f.kind = "left" -> [v EXCEPT !.join = None, !.inbox = {}, !.round = None, !.asking = FALSE]
    [] f.kind = "closed" -> [v EXCEPT !.closed = TRUE, !.round = None, !.asking = FALSE]
    [] OTHER -> v

\* The last entry of the run that starts right after a in S.
RunEnd(a, S) == CHOOSE b \in a..MaxSeq :
                  (a + 1)..b \subseteq S /\ (b = MaxSeq \/ b + 1 \notin S)

\* (Mutant) The hash is not looked at.
Fits_Unchecked(st, v, bad) == TRUE

\* Whether the next entry gives the hash the server had.
Fits(st, v, bad) == st.at = v.applied /\ ~bad

\* drain(): entries in order on the stage until one is missing or goes wrong.
\* `bad` says that the stage gets the first of them wrong.
Drained(v, st, bad) ==
  LET next == Later(v.applied, v.inbox)
      end == RunEnd(v.applied, next)
  IN IF ~st.mounted \/ st.lost THEN [view |-> v, stage |-> st, asks |-> FALSE]
     ELSE IF next = {}
     THEN [view |-> [v EXCEPT !.inbox = {}], stage |-> st, asks |-> FALSE]
     ELSE IF v.applied + 1 \notin next
     THEN [view |-> [v EXCEPT !.inbox = {}], stage |-> [st EXCEPT !.lost = TRUE], asks |-> TRUE]
     ELSE IF ~Fits(st, v, bad)
     THEN [view |-> [v EXCEPT !.inbox = {}],
           stage |-> [st EXCEPT !.lost = TRUE, !.good = FALSE], asks |-> TRUE]
     ELSE [view |-> [v EXCEPT !.applied = end, !.inbox = {}],
           stage |-> [st EXCEPT !.at = end, !.lost = Later(end, next) # {},
                                !.good = st.good /\ st.at = v.applied /\ ~bad],
           asks |-> Later(end, next) # {}]

\* (Mutant) The inbox is emptied and nothing is sent.
Asking_Silent(ss, g, asks) == ss

\* The resync request of a driver that lost its place, if there is a socket for it.
Asking(ss, g, asks) ==
  IF asks /\ g # NoSocket /\ ss[g].browser = "live"
  THEN [ss EXCEPT ![g].up = Append(@, "resync")] ELSE ss

\* Every change of the store drains the inbox, whichever stage is there.
Settle(v, st, ss, g) ==
  \E bad \in BOOLEAN :
    LET d == Drained(v, st, bad)
    IN /\ bad => d.asks /\ drifts < MaxDrifts
       /\ drifts' = IF bad THEN drifts + 1 ELSE drifts
       /\ view' = d.view
       /\ stage' = d.stage
       /\ socks' = Asking(ss, g, d.asks)

\* receive(): frames of an older connection are ignored.
Receive(g) ==
  /\ socks[g].browser = "live"
  /\ socks[g].down # <<>>
  /\ LET f == Head(socks[g].down)
         ss == [socks EXCEPT ![g].down = Tail(@)]
     IN IF g # client.gen
        THEN socks' = ss /\ UNCHANGED <<client, view, stage, drifts>>
        ELSE /\ client' = CASE f.kind = "welcome" -> [client EXCEPT !.status = "open", !.again = FALSE]
                            [] f.kind = "outdated" -> Stopped(client, "outdated")
                            [] OTHER -> client
             /\ Settle(Reduced(view, f),
                       IF f.kind = "joined" THEN [stage EXCEPT !.fresh = FALSE] ELSE stage,
                       IF f.kind = "outdated" THEN Shut(ss, g) ELSE ss,
                       client.socket)
  /\ UNCHANGED world

\* The old stage goes: another company was sent, or there is none any more.
Unmount ==
  /\ stage.mounted
  /\ ~stage.fresh \/ view.join = None
  /\ stage' = NoStage
  /\ UNCHANGED <<client, socks, view, world, drifts>>

\* onReady(): a stage built from the entries of the join, and its driver.
Mount ==
  /\ ~stage.mounted
  /\ view.join # None
  /\ Settle(view, [NoStage EXCEPT !.mounted = TRUE, !.fresh = TRUE, !.at = view.join],
            socks, client.socket)
  /\ UNCHANGED <<client, world>>

\* "Back to the lobby", once the company has closed.
BackToLobby ==
  /\ view.join # None
  /\ view.closed
  /\ view' = [NoView EXCEPT !.applied = view.applied]
  /\ UNCHANGED <<client, socks, stage, world, drifts>>

IsOpen == client.status = "open" /\ client.socket # NoSocket

\* Join or leave, asked on an open connection.
Ask(request) ==
  /\ IsOpen
  /\ request = "join" => view.join = None
  /\ request = "leave" => view.join # None
  /\ Len(socks[client.socket].up) = 0
  /\ socks' = [socks EXCEPT ![client.socket].up = <<request>>]
  /\ UNCHANGED <<client, view, stage, world, drifts>>

-----------------------------------------------------------------------------
(* The server (server.ts) and what the world answers (world.ts) *)

\* The sockets of this player the server knows.
Known(ss) == {g \in Dials : ss[g].server \in {"open", "hello", "closing"}}

\* deliver(): every socket of the player, whether it said hello or not.  What is
\* sent to a browser that is gone is lost.
Delivered(ss, frames) ==
  [g \in Dials |-> IF g \in Known(ss) /\ ss[g].browser \notin {"closing", "shut"} THEN [ss[g] EXCEPT !.down = @ \o frames] ELSE ss[g]]

\* (Mutant) The question on the table is not said again.
Joined_NoQuestion(w) == <<F("joined", w.seq, w.round)>>

\* joinedMessages(): the whole company, and the question it is deciding.
Joined(w) ==
  <<F("joined", w.seq, w.round)>> \o (IF w.asking THEN <<Say("ask")>> ELSE <<>>)

\* fetch() and open(): the ticket is good and there are not too many sockets.
ServerOpens(g) ==
  /\ socks[g].browser = "opening"
  /\ socks[g].server = "none"
  /\ Cardinality(Known(socks)) < 3
  /\ socks' = [socks EXCEPT ![g].server = "open"]
  /\ UNCHANGED <<client, view, stage, world, drifts>>

\* Presence, and whether the socket is sent a company: the first socket of a
\* profile announces it, a later one only where it has a seat.
HelloAnswer(g) ==
  IF Cardinality(Known(socks)) = 1 THEN [online |-> TRUE, seated |-> world.seat]
  ELSE IF ~world.seat THEN [online |-> world.online, seated |-> FALSE]
  ELSE [online |-> TRUE, seated |-> TRUE]

Hello(g, ss) ==
  \/ /\ socks' = [ss EXCEPT ![g].server = "closing", ![g].down = Append(@, Say("outdated"))]
     /\ UNCHANGED world
  \/ LET answer == HelloAnswer(g)
     IN /\ socks' = [ss EXCEPT ![g].server = "hello",
                               ![g].down = Append(@, Say("welcome"))
                                 \o (IF answer.seated THEN Joined(world) ELSE <<>>)]
        /\ world' = [world EXCEPT !.online = answer.online]

Lag == Max({Len(socks[g].down) : g \in Dials})

\* What afterEntry() makes of an entry.  A player who loses the seat hears only
\* that: the rest goes to those who are still in the company.
Outcomes == {"plain", "ask", "out", "closed"}

Moved(w, outcome) ==
  CASE outcome = "plain" -> w
    [] outcome = "ask" -> [w EXCEPT !.asking = TRUE]
    [] outcome = "out" -> [w EXCEPT !.seat = FALSE]
    [] outcome = "closed" -> [w EXCEPT !.seat = FALSE, !.alive = FALSE, !.asking = FALSE]

Told(w, frames, outcome) ==
  IF ~w.seat THEN <<>>
  ELSE CASE outcome = "plain" -> frames
         [] outcome = "ask" -> Append(frames, Say("ask"))
         [] outcome = "out" -> <<Say("left")>>
         [] outcome = "closed" -> Append(frames, Say("closed"))

JoinCompany(ss) ==
  IF world.seat \/ ~world.alive \/ world.seq = MaxSeq
  THEN socks' = ss /\ UNCHANGED world
  ELSE \E asks \in {world.asking, TRUE} :
         LET w == [world EXCEPT !.seat = TRUE, !.seq = world.seq + 1, !.asking = asks]
         IN /\ world' = w
            /\ socks' = Delivered(ss, Joined(w))

LeaveCompany(ss) ==
  IF ~world.seat \/ world.seq = MaxSeq
  THEN socks' = ss /\ UNCHANGED world
  ELSE \E outcome \in {"out", "closed"} :
         /\ world' = Moved([world EXCEPT !.seq = world.seq + 1], outcome)
         /\ socks' = Delivered(ss, <<Say("left")>>)

\* message(): before the hello only a hello is heard.
ServerHears(g) ==
  /\ socks[g].server \in {"open", "hello"}
  /\ socks[g].up # <<>>
  /\ LET request == Head(socks[g].up)
         ss == [socks EXCEPT ![g].up = Tail(@)]
     IN CASE socks[g].server = "open" /\ request = "hello" -> Hello(g, ss)
          [] socks[g].server = "hello" /\ request = "resync" ->
               /\ socks' = IF world.seat THEN Delivered(ss, Joined(world)) ELSE ss
               /\ UNCHANGED world
          [] socks[g].server = "hello" /\ request = "join" -> JoinCompany(ss)
          [] socks[g].server = "hello" /\ request = "leave" -> LeaveCompany(ss)
          [] OTHER -> socks' = ss /\ UNCHANGED world
  /\ UNCHANGED <<client, view, stage, drifts>>

\* close(), for whatever reason: the hello that never came, too many messages,
\* an outdated client, a connection that broke or that the browser closed.  The
\* last socket to close takes the profile offline, if that one had said hello.
ServerCloses(g) ==
  /\ socks[g].server \in {"open", "hello", "closing"}
  /\ socks' = [socks EXCEPT ![g].server = "gone", ![g].up = <<>>]
  /\ world' = IF Known(socks) = {g} /\ socks[g].server = "hello"
              THEN [world EXCEPT !.online = FALSE] ELSE world
  /\ UNCHANGED <<client, view, stage, drifts>>

\* tick(): a round is played, or the question is settled without one; the next
\* round is announced where nothing is asked.
Tick ==
  /\ world.alive
  /\ Lag <= MaxLag
  /\ world.seq < MaxSeq
  /\ \E outcome \in Outcomes :
       LET w == [world EXCEPT !.seq = world.seq + 1, !.asking = FALSE,
                              !.round = IF world.asking THEN world.round ELSE world.round + 1]
           said == IF world.asking THEN <<Say("result"), F("entry", w.seq, 0)>>
                   ELSE <<F("resolved", w.seq, 0)>>
           after == Moved(w, outcome)
           opens == IF after.alive /\ after.seat /\ ~after.asking
                    THEN <<F("open", 0, after.round)>> ELSE <<>>
       IN /\ outcome = "out" => world.seat
          /\ world' = after
          /\ socks' = Delivered(socks, Told(world, said, outcome) \o opens)
  /\ UNCHANGED <<client, view, stage, drifts>>

\* Somebody's free action, join or departure, or the vote that settles the question.
\* While the company is still asking only joins and departures come: they may find
\* that one's own seat was released, but open nothing and end the company of nobody
\* who is seated.
OthersEntry ==
  /\ world.alive
  /\ Lag <= MaxLag
  /\ world.seq < MaxSeq
  /\ \E settles \in BOOLEAN, outcome \in Outcomes :
       LET w == [world EXCEPT !.seq = world.seq + 1, !.asking = world.asking /\ ~settles]
           entry == F("entry", w.seq, 0)
           said == IF settles THEN <<Say("result"), entry>> ELSE <<entry>>
       IN /\ settles => world.asking
          /\ w.asking => outcome # "ask" /\ (outcome = "closed" => ~world.seat)
          /\ outcome = "out" => world.seat
          /\ world' = Moved(w, outcome)
          /\ socks' = Delivered(socks, Told(world, said, outcome))
  /\ UNCHANGED <<client, view, stage, drifts>>

-----------------------------------------------------------------------------

Next ==
  \/ Retain \/ Release \/ RetryFires
  \/ \E g \in Dials : \/ TicketAnswered(g) \/ SocketOpens(g) \/ SocketCloses(g)
                      \/ LateClose(g) \/ Receive(g) \/ ServerOpens(g) \/ ServerHears(g)
                      \/ ServerCloses(g)
  \/ Unmount \/ Mount \/ BackToLobby
  \/ \E request \in {"join", "leave"} : Ask(request)
  \/ Tick \/ OthersEntry

\* Timers fire, the ticket route answers, a connection that is opening opens,
\* frames that arrived are handled, React mounts.  Nobody owes a tick, a request
\* or a failure.  Each event would be served in its turn; that each side serves
\* some event that waits is enough.
BrowserEvent ==
  \/ RetryFires \/ Mount \/ Unmount
  \/ \E g \in Dials : \/ TicketAnswered(g) \/ SocketOpens(g) \/ Receive(g)
                      \/ socks[g].server = "gone" /\ SocketCloses(g)
ServerEvent == \E g \in Dials : ServerOpens(g) \/ ServerHears(g)

Fairness == WF_vars(BrowserEvent) /\ WF_vars(ServerEvent)

Spec == Init /\ [][Next]_vars /\ Fairness

-----------------------------------------------------------------------------
(* Properties *)

\* The page has heard everything the server said on its connection.
Quiet ==
  /\ client.status = "open"
  /\ client.socket # NoSocket
  /\ socks[client.socket].server = "hello"
  /\ socks[client.socket].browser = "live"
  /\ socks[client.socket].down = <<>>

\* However retries, late tickets, releases and drops fall, the browser never has
\* two connections (the generation of client.ts).
OneConnection == Cardinality({g \in Dials : socks[g].browser \in {"opening", "live"}}) <= 1

\* A stage that has not asked for the company again shows a prefix of its log:
\* no gap, reordering or stale stage goes unnoticed (driver.ts).
StageIsALogPrefix == stage.mounted /\ ~stage.lost => stage.good /\ stage.at <= world.seq

\* A page that has heard everything is on the stage of the player's open company,
\* whichever of their sockets the server counts first, asks what the company is
\* asking and offers no round but the one the server takes moves for, also after a
\* reconnection or a resync in the middle of a vote (joinedMessages, reduceServer).
PageAgrees ==
  Quiet /\ world.seat =>
    /\ view.join # None /\ ~view.closed
    /\ view.asking = world.asking
    /\ view.round \in {None, world.round}

\* A driver that lost its place gets the company again, or its connection ends, or
\* the player has no seat to be sent.
LossIsRepaired ==
  []<>(stage.mounted /\ stage.lost /\ world.seat => client.status # "open" \/ view.join = None)

\* A screen that holds the connection gets it back after any failure, unless it
\* was told that a retry changes nothing: whatever late tickets, closes and timers
\* of given-up dials come meanwhile, a dial that does not fail itself ends open.
\* The bound leaves the last dial without a retry once it has failed.
LastDialFailed ==
  /\ client.dials = MaxDials
  /\ MaxDials \notin client.fetching
  /\ socks[MaxDials].browser \in {"none", "closing", "shut"}
ConnectionComesBack ==
  []<>(client.held /\ ~client.terminal => IsOpen \/ LastDialFailed)

\* (Violated) reduce.ts:246 "The next round opens with its own frame; until then
\* there is nothing to choose": a page without a round has a question to answer.
RoundAgrees ==
  Quiet /\ world.seat /\ ~world.asking => view.round = world.round

\* (Violated) MultiStage.tsx:35 "When the player no longer has a seat, or the
\* company is gone, they are carried back to the lobby".
SeatAgrees == Quiet /\ ~world.seat => view.join = None \/ view.closed

\* (Violated) server.ts:286 "Only the first socket of a profile announces them to
\* the world": a player whose connection is open is online.
PresentWhenOpen == Quiet => world.online
=============================================================================
