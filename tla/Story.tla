-------------------------------- MODULE Story --------------------------------
(***************************************************************************)
(* The canvas tells a run as a story (chips/FxQueue.ts): each published     *)
(* batch of events becomes effects played one after the other, the graph   *)
(* draws a commit when its moment comes (bridge/reveal.ts), the HUD holds   *)
(* a gauge until the figure that moves it has flown to it                   *)
(* (bridge/gaugeCues.ts), and until the end of it `pendingAnimation` keeps  *)
(* the player waiting.                                                      *)
(*                                                                         *)
(* The run itself is a set of commits and one gauge.  A batch writes a      *)
(* commit or none, may throw the oldest away (a showcase), and moves the    *)
(* gauge by `Balls` with each figure it raises, or without one.     *)
(* The scene comes and goes (SceneGuard): here it is up, lost, or drawn by  *)
(* Canvas2D.  How long an effect holds is left out: a frame ends one or     *)
(* does not come.                                                           *)
(***************************************************************************)
EXTENDS Naturals, Sequences, FiniteSets

CONSTANTS
  Kinds,                     \* of session: "solo", "company", the landing's "showcase"
  Figures,                   \* how many figures a batch may raise
  MaxBatches, MaxLosses      \* bounds: batches published, scenes lost

ASSUME StoryKinds == Kinds \subseteq {"solo", "company", "showcase"}
ASSUME StoryBounds ==
  {MaxBatches, MaxLosses} \subseteq Nat /\ Figures \subseteq Nat

Balls == 2                   \* what a figure flies as, each an equal share of it
Commits == 0..MaxBatches     \* the first is there from the start
NoHeld == [batch |-> 0]

VARIABLES
  kind, reduced,             \* the session's kind, the player's reduced motion
  nodes, live, batch,        \* session: commits, gauge, publications
  animated,                  \* session: its presentation
  pending, held,             \* store: pendingAnimation, heldGauges
  scene,                     \* "webgl", "canvas" or "none"
  shown,                     \* scene: the reveal set
  queue, serial, skipped,    \* scene: effects to play, batches queued, those cut short
  watch,                     \* scene: batches whose watchdog is armed
  flights,                   \* HUD: figures flying to the gauge
  hidden, modal,             \* page: the tab is hidden, a dialog is open
  losses

session == <<kind, reduced, nodes, live, batch>>
store == <<pending, held>>
fx == <<shown, queue, serial, skipped, watch>>
window == <<hidden, modal>>
storyVars == <<session, animated, store, scene, fx, flights, window, losses>>

Effects == [kind : {"reveal"}, of : Nat, node : Commits]
           \cup [kind : {"pop"}, of : Nat, batch : Nat, figure : Nat, value : Nat]
           \cup [kind : {"done"}, of : Nat]

StoryTypeOK ==
  /\ kind \in Kinds /\ {reduced, animated, pending, hidden, modal} \subseteq BOOLEAN
  /\ nodes \subseteq Commits /\ shown \subseteq Commits
  /\ live \in Nat /\ batch \in 0..MaxBatches /\ losses \in 0..MaxLosses
  /\ held = NoHeld \/ held \in [batch : 1..MaxBatches, value : Nat, applied : Nat]
  /\ scene \in {"webgl", "canvas", "none"}
  /\ \A i \in DOMAIN queue : queue[i] \in Effects
  /\ serial \in 0..MaxBatches /\ {skipped, watch} \subseteq SUBSET (1..MaxBatches)

\* mountGame(): the run, then its first scene, drawn complete.
StoryInit ==
  /\ kind \in Kinds /\ reduced \in BOOLEAN
  /\ nodes = {0} /\ live = 0 /\ batch = 0
  /\ scene = "webgl" /\ animated = TRUE
  /\ pending = FALSE /\ held = NoHeld
  /\ shown = {0} /\ queue = <<>> /\ serial = 0 /\ skipped = {} /\ watch = {}
  /\ flights = {} /\ hidden = FALSE /\ modal = FALSE /\ losses = 0

Up == scene # "none"
Played == kind # "showcase"               \* a showcase is looked at: no click, no figures
Still == reduced \/ scene = "canvas"      \* nothing moves: buildPixiScene's context

-----------------------------------------------------------------------------
(* The gauge the HUD holds *)

ShownGauge == IF held = NoHeld THEN live ELSE held.value

\* GaugeFx: held gauges let go take the figures in the air with them.
Flying(was, is, fs) == IF was # NoHeld /\ is = NoHeld THEN {} ELSE fs

\* (Mutant) A figure of any batch moves the gauge.
Late_AnyBatch(h, b, figure) == h.applied >= figure
\* A cue is late when its batch is over, or a later figure has landed.
Late(h, b, figure) == h.batch # b \/ h.applied >= figure

\* releaseGauge(), with settle().
Released(h, b, figure, value) ==
  IF h = NoHeld \/ Late(h, b, figure) THEN h
  ELSE IF value = live THEN NoHeld
  ELSE [h EXCEPT !.value = value, !.applied = figure]

\* stepGauge(): one ball of a figure has landed, the last one lands the figure.
Stepped(h, f) ==
  IF f.landed + 1 = Balls THEN Released(h, f.batch, f.figure, f.value)
  ELSE IF h = NoHeld \/ Late(h, f.batch, f.figure) THEN h
  ELSE [h EXCEPT !.value = f.value - Balls + f.landed + 1]

\* emitGaugeCue(): the HUD flies the figure, or lands it at once (a loss, a
\* gauge off screen, no room in the air).
Announce(b, figure, value, dialog) ==
  \/ /\ flights' = flights \cup
          {[batch |-> b, figure |-> figure, value |-> value, landed |-> 0, dialog |-> dialog]}
     /\ UNCHANGED held
  \/ /\ held' = Released(held, b, figure, value)
     /\ flights' = Flying(held, held', flights)

\* Off the canvas a figure has landed before the next one rises (a pop holds
\* 650 ms, a ball lands between 520 and 880 ms after it); from a dialog they
\* all leave together.
BallLands(f) ==
  /\ f \in flights
  /\ f.dialog \/ \A g \in flights : ~g.dialog /\ g.batch = f.batch => g.figure >= f.figure
  /\ held' = Stepped(held, f)
  /\ LET left == flights \ {f}
         rest == IF f.landed + 1 = Balls THEN left
                 ELSE left \cup {[f EXCEPT !.landed = @ + 1]}
     IN flights' = Flying(held, held', rest)
  /\ UNCHANGED <<session, animated, pending, scene, fx, window, losses>>

-----------------------------------------------------------------------------
(* Publishing a batch *)

Batches ==
  {b \in [told : BOOLEAN, writes : BOOLEAN, drops : BOOLEAN, figures : Figures,
          silent : BOOLEAN, mine : BOOLEAN, dialog : BOOLEAN] :
     /\ ~b.told => ~b.writes /\ ~b.drops /\ ~b.silent /\ b.figures = 0
     /\ b.silent => b.figures = 0
     /\ b.dialog => b.mine /\ b.told /\ Played
     /\ b.drops => kind = "showcase"
     /\ b.figures > 0 => Played}

Moved(b) == Balls * (IF b.silent THEN 1 ELSE b.figures)

\* planBatch(), and the batch's last step.
Reveals(b, s) == IF b.writes THEN <<[kind |-> "reveal", of |-> s, node |-> batch + 1]>> ELSE <<>>
Pops(b, s) ==
  IF b.dialog THEN <<>>
  ELSE [i \in 1..b.figures |->
          [kind |-> "pop", of |-> s, batch |-> batch + 1, figure |-> i, value |-> live + Balls * i]]
Done(s) == <<[kind |-> "done", of |-> s]>>

\* A dialog's figures leave from it, at once.
Thrown(b) ==
  IF b.dialog
  THEN {[batch |-> batch + 1, figure |-> i, value |-> live + Balls * i, landed |-> 0,
         dialog |-> TRUE] : i \in 1..b.figures}
  ELSE {}

\* (Mutant) Held whether or not the scene plays.
Holding_Always(b) ==
  IF b.mine /\ Moved(b) > 0
  THEN [batch |-> batch + 1, value |-> live, applied |-> 0] ELSE NoHeld
\* publish(): the gauges that moved keep their old value while the scene plays.
Holding(b) ==
  IF animated /\ ~reduced /\ Played /\ b.mine /\ Moved(b) > 0
  THEN [batch |-> batch + 1, value |-> live, applied |-> 0] ELSE NoHeld

\* What is on screen when a batch is published: the story as far as it has been
\* told, or cut short first (FxQueue.skip()).
Told == [shown |-> shown, skipped |-> skipped, held |-> held, flights |-> flights]
CutShort ==
  [shown |-> nodes,
   skipped |-> IF serial = 0 THEN skipped ELSE skipped \cup {serial},
   held |-> NoHeld,
   flights |-> Flying(held, NoHeld, flights)]

\* enqueue(): `new` commits are the state's, `now` is what was on screen.  A gauge
\* no figure will move shows the run now; a hidden tab cuts the story to its end.
Enqueue(b, new, now) ==
  LET s == serial + 1
      kept == IF ~Still /\ b.figures = 0 THEN NoHeld ELSE Holding(b)
      cut == hidden
  IN /\ serial' = s
     /\ watch' = watch \cup {s}
     /\ queue' = queue \o (IF Still THEN <<>> ELSE Reveals(b, s) \o Pops(b, s)) \o Done(s)
     /\ shown' = IF cut \/ Still THEN new ELSE now.shown
     /\ skipped' = IF cut THEN now.skipped \cup {s} ELSE now.skipped
     /\ held' = IF cut THEN NoHeld ELSE kept
     /\ pending' = (animated /\ b.told /\ ~cut)
     /\ flights' = IF cut \/ kept = NoHeld THEN Flying(now.held, NoHeld, now.flights)
                   ELSE now.flights \cup Thrown(b)

\* dispatch() and applyEntry(): the run moves, the store is written, the scene
\* that listens queues the story.  With no scene nobody waits, and nothing is held.
Apply(b, now) ==
  /\ batch < MaxBatches
  /\ batch' = batch + 1
  /\ live' = live + Moved(b)
  /\ nodes' = {n \in nodes : b.drops => \E m \in nodes : m < n}
                \cup (IF b.writes THEN {batch + 1} ELSE {})
  /\ IF Up THEN Enqueue(b, nodes', now)
     ELSE /\ held' = Holding(b)
          /\ flights' = Flying(held, held', flights)
          /\ pending' = (animated /\ b.told)
          /\ UNCHANGED fx
  /\ UNCHANGED <<kind, reduced, animated, scene, window, losses>>

\* Alone, one acts once the canvas has told the last turn.
Dispatch ==
  kind # "company" /\ ~pending /\ \E b \in Batches : b.mine /\ b.told /\ Apply(b, Told)

\* A company's entries come when they come, mine or a colleague's; what happened
\* to a colleague's own gauges is not told.  One that comes while a story plays cuts
\* it short first (EntryDriver.run).
Entry ==
  kind = "company" /\ \E b \in Batches : Apply(b, IF pending THEN CutShort ELSE Told)

-----------------------------------------------------------------------------
(* The scene plays it *)

\* FxQueue.skip()
Cut ==
  /\ skipped' = CutShort.skipped
  /\ shown' = CutShort.shown
  /\ held' = CutShort.held
  /\ flights' = CutShort.flights
  /\ pending' = FALSE

PlayReveal(e) ==
  /\ e.kind = "reveal"
  /\ shown' = shown \cup {e.node}
  /\ UNCHANGED <<store, flights, watch>>

PlayPop(e) ==
  /\ e.kind = "pop"
  /\ IF e.of \in skipped THEN UNCHANGED <<held, flights>>
     ELSE Announce(e.batch, e.figure, e.value, FALSE)
  /\ UNCHANGED <<pending, shown, watch>>

\* (Mutant) The last step of a batch does not complete the graph.
Ends_AsDrawn(e) ==
  IF e.of = serial
  THEN held' = NoHeld /\ pending' = FALSE /\ flights' = Flying(held, NoHeld, flights)
       /\ UNCHANGED shown
  ELSE UNCHANGED <<store, flights, shown>>
\* A batch that was followed by another is not the one that says "done".
Ends(e) ==
  IF e.of = serial
  THEN /\ held' = NoHeld /\ pending' = FALSE /\ shown' = nodes
       /\ flights' = Flying(held, NoHeld, flights)
  ELSE UNCHANGED <<store, flights, shown>>

PlayDone(e) == e.kind = "done" /\ watch' = watch \ {e.of} /\ Ends(e)

\* One frame: none is drawn in a hidden tab, none plays under a dialog.
Frame ==
  /\ Up /\ ~hidden /\ ~modal /\ queue # <<>>
  /\ LET e == Head(queue) IN PlayReveal(e) \/ PlayPop(e) \/ PlayDone(e)
  /\ queue' = Tail(queue)
  /\ UNCHANGED <<session, animated, scene, serial, skipped, window, losses>>

\* A click on the canvas, or an action taken while it plays (skipAnimations()).
Skip ==
  /\ Up /\ Played /\ pending
  /\ Cut
  /\ UNCHANGED <<session, animated, scene, queue, serial, watch, window, losses>>

\* (Mutant) Under a dialog the watchdog gives up instead of waiting.
WatchdogFires_Once(s) ==
  /\ s \in watch
  /\ watch' = watch \ {s}
  /\ IF s = serial /\ pending /\ ~modal THEN Cut
     ELSE UNCHANGED <<store, shown, skipped, flights>>
  /\ UNCHANGED <<session, animated, scene, queue, serial, window, losses>>

\* The wall clock, 8 s after a batch: under a dialog it is armed again.
WatchdogFires(s) ==
  /\ s \in watch
  /\ IF s = serial /\ pending
     THEN ~modal /\ watch' = watch \ {s} /\ Cut
     ELSE watch' = watch \ {s} /\ UNCHANGED <<store, shown, skipped, flights>>
  /\ UNCHANGED <<session, animated, scene, queue, serial, window, losses>>

Hide ==
  /\ ~hidden /\ hidden' = TRUE
  /\ IF Up /\ pending THEN Cut ELSE UNCHANGED <<store, shown, skipped, flights>>
  /\ UNCHANGED <<session, animated, scene, queue, serial, watch, modal, losses>>
ShowTab == hidden /\ hidden' = FALSE /\ UNCHANGED <<session, animated, store, scene, fx, flights, modal, losses>>
OpenModal == ~modal /\ modal' = TRUE /\ UNCHANGED <<session, animated, store, scene, fx, flights, hidden, losses>>
CloseModal == modal /\ modal' = FALSE /\ UNCHANGED <<session, animated, store, scene, fx, flights, hidden, losses>>

-----------------------------------------------------------------------------
(* The scene comes and goes under the run: mountGame's onChange *)

Unwait == pending' = FALSE /\ held' = NoHeld

SceneLost ==
  /\ Up /\ losses < MaxLosses
  /\ losses' = losses + 1
  /\ scene' = "none" /\ animated' = FALSE
  /\ Unwait
  /\ flights' = Flying(held, held', flights)
  /\ shown' = {} /\ queue' = <<>> /\ serial' = 0 /\ skipped' = {} /\ watch' = {}
  /\ UNCHANGED <<session, window>>

\* A new picture is complete from its first frame.
SceneBuilt ==
  /\ ~Up
  /\ scene' \in {"webgl", "canvas"}
  /\ animated' = (scene' = "webgl")
  /\ IF animated' THEN UNCHANGED store ELSE Unwait
  /\ flights' = Flying(held, held', flights)
  /\ shown' = nodes
  /\ UNCHANGED <<session, queue, serial, skipped, watch, window, losses>>

Land == \E f \in flights : BallLands(f)
Watchdog == \E s \in watch : WatchdogFires(s)

StoryNext ==
  \/ Dispatch \/ Entry
  \/ Frame \/ Skip \/ Watchdog \/ Land
  \/ Hide \/ ShowTab \/ OpenModal \/ CloseModal
  \/ SceneLost \/ SceneBuilt

\* Timers run; frames may never come again, and nobody has to click, to close
\* a dialog or to come back to the tab.
StoryFairness == \A s \in 1..MaxBatches : WF_storyVars(WatchdogFires(s))

StorySpec == StoryInit /\ [][StoryNext]_storyVars /\ StoryFairness

-----------------------------------------------------------------------------
(* What it promises *)

\* Whoever waits, waits for a scene that animates, with a watchdog armed for the
\* story it is playing: "that must never depend on the player guessing to click"
\* (FxQueue.ts).
WaitIsBacked == pending => scene = "webgl" /\ animated /\ serial \in watch

\* A held value never outlives its story, and belongs to the batch on screen
\* (gaugeCues.ts).
HeldIsOfThisStory == held # NoHeld => pending /\ held.batch = batch

\* Waiting, and the value held for it, are of the story being played.
WaitIsOfThisStory == WaitIsBacked /\ HeldIsOfThisStory

\* "While the queue is draining, `pendingAnimation` is true" (FxQueue.ts): when nobody
\* waits the graph misses nothing, and once the story has drained it holds no commit
\* the run has thrown away (reveal.ts showAll); what is left of a story was cut, by the
\* player or by the entry that followed, and the end of a batch never lets go of the
\* one that came after it.
IdleGraphIsComplete ==
  Up /\ ~pending =>
    /\ nodes \subseteq shown /\ (queue = <<>> => shown = nodes)
    /\ \A i \in DOMAIN queue :
         queue[i].kind # "done" => queue[i].of \in skipped \/ Still

\* A late cue never moves a gauge back (gauges.ts HeldGauges): of the figures
\* the canvas raises, one at a time.
GaugeOnlyRises ==
  [][(\A f \in flights : ~f.dialog) => ShownGauge' >= ShownGauge]_storyVars

\* The same, of the figures of a dialog too.
GaugeNeverBack == [][ShownGauge' >= ShownGauge]_storyVars

\* Nobody waits for ever, frames or no frames, unless dialogs keep being opened.
WaitEnds == []<>~pending \/ []<>modal

===============================================================================
