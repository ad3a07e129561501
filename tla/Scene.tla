-------------------------------- MODULE Scene --------------------------------
(***************************************************************************)
(* Keeping a picture on screen (bridge/sceneGuard.ts), the mounts that own  *)
(* one (bridge/mount.ts), and the two pages that mount: the run's           *)
(* (components/game/GameCanvas.tsx) and the landing's demo                  *)
(* (bridge/landing.ts).  They share one store and one memory of WebGL.      *)
(*                                                                         *)
(* A mount builds its scene asynchronously and may be superseded, disposed  *)
(* or failing meanwhile.  A build is known by its mount and the generation  *)
(* that asked for it.  What is drawn is left out; Story has what the scene  *)
(* plays.  A build that ends and the promises that wait for it run before   *)
(* any other event: the others wait until it is `Quiet`.                    *)
(***************************************************************************)
EXTENDS Naturals, FiniteSets

CONSTANTS
  Limit,                   \* SCENE_RETRY.limit
  MaxVisits, MaxFails      \* bounds: times the player mounts a page, scenes that fail

ASSUME SceneLimit == Limit \in Nat \ {0}
ASSUME SceneBounds == {MaxVisits, MaxFails} \subseteq Nat

Mounts == 1..(MaxVisits + MaxFails)
None == 0
Pages == {"play", "landing"}
Modes == {"webgl", "canvas", "none"}
Gens == 0..(2 * MaxFails + 3)

VARIABLES
  mounts,       \* per mount: whose it is, its supervisor, its handle
  building,     \* scenes being built: <<mount, generation, mode>>
  scenes,       \* scenes that exist: <<mount, generation, mode>>
  webglGivenUp, \* pageSceneMemory
  mountSerial,  \* the last mount
  global,       \* __devgameHandle: the mount that holds it, or None
  shows,        \* the mount whose run the store holds, or None
  page,         \* where the player is
  demo,         \* mountLanding()'s variables
  visits, fails

sceneVars == <<mounts, building, scenes, webglGivenUp, mountSerial, global, shows, page, demo,
          visits, fails>>

\* `retry` is a rebuild that is scheduled, `awaited` the demo's generation that
\* mounts it; "handing" is a first attempt that has ended.
Unmounted ==
  [page |-> "play", state |-> "none", mode |-> "webgl", gen |-> 0, history |-> 0,
   current |-> 0, retry |-> FALSE, awaited |-> 0]
\* `since` is the first generation of this visit, `due` the restarts scheduled.
NoDemo == [gen |-> 0, since |-> 1, handle |-> None, losses |-> 0, due |-> 0, playing |-> FALSE]

SceneTypeOK ==
  /\ mounts \in [Mounts -> [page : Pages, mode : Modes, gen : Gens, current : Gens,
                            state : {"none", "starting", "handing", "up", "disposed"},
                            history : 0..Limit, retry : BOOLEAN, awaited : Nat]]
  /\ {building, scenes} \subseteq SUBSET (Mounts \X Gens \X Modes)
  /\ webglGivenUp \in BOOLEAN
  /\ {mountSerial, global, shows} \subseteq Mounts \cup {None}
  /\ page \in Pages \cup {"elsewhere"}
  /\ demo \in [gen : Nat, since : Nat, handle : Mounts \cup {None}, losses : 0..Limit,
               due : Nat, playing : BOOLEAN]
  /\ visits \in 0..MaxVisits /\ fails \in 0..MaxFails

SceneInit ==
  /\ mounts = [m \in Mounts |-> Unmounted]
  /\ building = {} /\ scenes = {} /\ webglGivenUp = FALSE
  /\ mountSerial = None /\ global = None /\ shows = None
  /\ page = "elsewhere" /\ demo = NoDemo
  /\ visits = 0 /\ fails = 0

Live(m) == m # None /\ mounts[m].state \in {"starting", "handing", "up"}
ScenesOf(m) == {s \in scenes : s[1] = m}
Quiet == \A m \in Mounts : mounts[m].state # "handing"

-----------------------------------------------------------------------------
(* Mounting and disposing *)

\* (Mutant) Whoever is disposed of clears the store.
Clears_Always(m) == TRUE
\* dispose(): the mount that holds the page's handle clears the store, or the
\* landing's last.
Clears(m) == global = m \/ (mounts[m].page = "landing" /\ mountSerial = m)

Disposed(ms, m) ==
  IF ~Live(m) THEN ms
  ELSE [ms EXCEPT ![m].state = "disposed", ![m].gen = @ + 1, ![m].current = 0,
                  ![m].retry = FALSE]

Dispose(m) ==
  /\ mounts' = Disposed(mounts, m)
  /\ scenes' = scenes \ ScenesOf(m)
  /\ global' = IF global = m THEN None ELSE global
  /\ shows' = IF Live(m) /\ Clears(m) THEN None ELSE shows

FirstMode == IF webglGivenUp THEN "canvas" ELSE "webgl"

\* mountGame() up to its first await: it disposes of `gone` on its way, takes the
\* handle if it is the page's game, and publishes.
MountGame(p, awaited, gone) ==
  LET m == mountSerial + 1
  IN /\ m \in Mounts
     /\ mountSerial' = m
     /\ mounts' = [Disposed(mounts, gone) EXCEPT ![m] =
                     [Unmounted EXCEPT !.page = p, !.state = "starting", !.gen = 1,
                                       !.awaited = awaited, !.mode = FirstMode]]
     /\ building' = building \cup {<<m, 1, FirstMode>>}
     /\ scenes' = scenes \ ScenesOf(gone)
     /\ global' = IF p = "play" THEN m ELSE IF gone = global THEN None ELSE global
     /\ shows' = m

Visit == Quiet /\ visits < MaxVisits /\ visits' = visits + 1

\* The run's page mounts its canvas.
PlayMounts ==
  /\ Visit /\ page = "elsewhere"
  /\ page' = "play"
  /\ MountGame("play", 0, global)
  /\ UNCHANGED <<webglGivenUp, demo, fails>>

\* Its effect's cleanup, React's doubled effects included: the handle is disposed
\* of, if it has come.
PlayLeaves ==
  /\ Quiet /\ page = "play"
  /\ page' = "elsewhere"
  /\ IF mounts[mountSerial].state = "up" THEN Dispose(mountSerial)
     ELSE UNCHANGED <<mounts, scenes, global, shows>>
  /\ UNCHANGED <<building, webglGivenUp, mountSerial, demo, visits, fails>>

\* start() of the landing: a new generation, the last handle disposed of.
DemoStarts(since, due) ==
  /\ MountGame("landing", demo.gen + 1, demo.handle)
  /\ demo' = [demo EXCEPT !.gen = @ + 1, !.since = since, !.handle = None,
                          !.playing = FALSE, !.due = due]

LandingMounts ==
  /\ Visit /\ page = "elsewhere"
  /\ page' = "landing"
  /\ DemoStarts(demo.gen + 1, 0)
  /\ UNCHANGED <<webglGivenUp, fails>>

Replay ==
  /\ Visit /\ page = "landing"
  /\ DemoStarts(demo.since, demo.due)
  /\ UNCHANGED <<page, webglGivenUp, fails>>

\* What lost() scheduled.
DemoRestarts ==
  /\ Quiet /\ demo.due > 0
  /\ DemoStarts(demo.since, demo.due - 1)
  /\ UNCHANGED <<page, webglGivenUp, visits, fails>>

LandingLeaves ==
  /\ Quiet /\ page = "landing"
  /\ page' = "elsewhere"
  /\ demo' = [NoDemo EXCEPT !.gen = demo.gen + 1]
  /\ Dispose(demo.handle)
  /\ UNCHANGED <<building, webglGivenUp, mountSerial, visits, fails>>

-----------------------------------------------------------------------------
(* The supervisor *)

\* (Mutant) A build is taken whenever it comes.
Stale_Never(m, g) == FALSE
\* Disposed meanwhile, or a failure already moved on.
Stale(m, g) == ~Live(m) \/ mounts[m].gen # g

\* The first attempt over, the caller has the handle next.
Attempted(state) == IF state = "starting" THEN "handing" ELSE state

BuildSucceeds ==
  /\ Quiet
  /\ \E b \in building, got \in {"webgl", "canvas"} :
       LET m == b[1]  g == b[2]
           degraded == b[3] = "webgl" /\ got = "canvas"
       IN /\ got = "webgl" => b[3] = "webgl"
          /\ building' = building \ {b}
          /\ IF Stale(m, g) THEN UNCHANGED <<mounts, scenes, webglGivenUp>>
             ELSE /\ scenes' = scenes \cup {<<m, g, got>>}
                  /\ webglGivenUp' = (webglGivenUp \/ degraded)
                  /\ mounts' = [mounts EXCEPT
                       ![m].current = g, ![m].mode = IF degraded THEN "canvas" ELSE @,
                       ![m].state = Attempted(@)]
  /\ UNCHANGED <<mountSerial, global, shows, page, demo, visits, fails>>

\* lost(): the landing counts the losses of its own mounts, and starts over,
\* unless Canvas2D fails as often: then the mount's own supervisor goes on.
Lost(m, givenUp) ==
  LET counted == IF demo.losses < Limit THEN demo.losses + 1 ELSE Limit
  IN IF mounts[m].page # "landing" \/ page # "landing" \/ mounts[m].awaited < demo.since
     THEN UNCHANGED demo /\ webglGivenUp' = givenUp
     ELSE IF counted < Limit
     THEN demo' = [demo EXCEPT !.losses = counted, !.due = @ + 1] /\ webglGivenUp' = givenUp
     ELSE IF givenUp
     THEN demo' = [demo EXCEPT !.losses = counted] /\ webglGivenUp' = TRUE
     ELSE demo' = [demo EXCEPT !.losses = 0, !.due = @ + 1] /\ webglGivenUp' = TRUE

\* (Mutant) A failure that steps down does not try again.
Retries_SameMode(m, next) == next = mounts[m].mode
\* With a renderer left to try, the scene is built again.
Retries(m, next) == next # "none"

\* modeAfter(), one step down at the limit.
ModeAfter(mode, count) ==
  IF count < Limit THEN mode ELSE IF mode = "webgl" THEN "canvas" ELSE "none"

\* fail()
Fail(m) ==
  LET count == mounts[m].history + 1
      next == ModeAfter(mounts[m].mode, count)
      givenUp == webglGivenUp \/ (next = "canvas" /\ next # mounts[m].mode)
  IN /\ scenes' = scenes \ ScenesOf(m)
     /\ mounts' = [mounts EXCEPT
          ![m].gen = @ + 1, ![m].current = 0, ![m].mode = next,
          ![m].history = IF next = mounts[m].mode THEN count ELSE 0,
          ![m].retry = Retries(m, next), ![m].state = Attempted(@)]
     /\ IF next = "none" THEN UNCHANGED demo /\ webglGivenUp' = givenUp
        ELSE Lost(m, givenUp)

MayFail == Quiet /\ fails < MaxFails /\ fails' = fails + 1

BuildFails ==
  /\ MayFail
  /\ \E b \in building :
       /\ building' = building \ {b}
       /\ IF Stale(b[1], b[2]) THEN UNCHANGED <<mounts, scenes, webglGivenUp, demo>>
          ELSE Fail(b[1])
  /\ UNCHANGED <<mountSerial, global, shows, page, visits>>

\* A lost context, a throw in a frame.
SceneFails ==
  /\ MayFail
  /\ \E s \in scenes : Fail(s[1])
  /\ UNCHANGED <<building, mountSerial, global, shows, page, visits>>

\* attempt() again.  The restart that lost() scheduled comes first: its timer is
\* the older, and it disposes of the mount.
Retry ==
  /\ Quiet
  /\ \E m \in Mounts :
       /\ mounts[m].retry
       /\ mounts[m].page = "landing" => demo.due = 0
       /\ mounts' = [mounts EXCEPT ![m].retry = FALSE, ![m].gen = @ + 1]
       /\ building' = building \cup {<<m, mounts[m].gen + 1, mounts[m].mode>>}
  /\ UNCHANGED <<scenes, webglGivenUp, mountSerial, global, shows, page, demo, visits, fails>>

\* Ten seconds later a failure counts no more.
FailureExpires ==
  /\ Quiet
  /\ \/ \E m \in Mounts : mounts[m].history > 0
          /\ mounts' = [mounts EXCEPT ![m].history = @ - 1] /\ UNCHANGED demo
     \/ demo.losses > 0 /\ demo' = [demo EXCEPT !.losses = @ - 1] /\ UNCHANGED mounts
  /\ UNCHANGED <<building, scenes, webglGivenUp, mountSerial, global, shows, page, visits, fails>>

-----------------------------------------------------------------------------
(* The handle reaches whoever mounted *)

\* Its effect is still there, its generation is still the last.
Wanted(m) ==
  IF mounts[m].page = "play" THEN page = "play" /\ m = mountSerial
  ELSE page = "landing" /\ mounts[m].awaited = demo.gen

HandOver ==
  \E m \in Mounts :
    /\ mounts[m].state = "handing"
    /\ IF Wanted(m)
       THEN /\ mounts' = [mounts EXCEPT ![m].state = "up"]
            /\ demo' = IF mounts[m].page = "play" THEN demo
                       ELSE [demo EXCEPT !.handle = m, !.playing = TRUE]
            /\ UNCHANGED <<scenes, global, shows>>
       ELSE Dispose(m) /\ UNCHANGED demo
    /\ UNCHANGED <<building, webglGivenUp, mountSerial, page, visits, fails>>

\* The demo's loop: it stops at its end, or where the store shows no run.
DemoStops ==
  /\ Quiet /\ demo.playing
  /\ demo' = [demo EXCEPT !.playing = FALSE]
  /\ UNCHANGED <<mounts, building, scenes, webglGivenUp, mountSerial, global, shows, page,
                 visits, fails>>

SceneNext ==
  \/ PlayMounts \/ PlayLeaves \/ LandingMounts \/ LandingLeaves \/ Replay
  \/ BuildSucceeds \/ BuildFails \/ SceneFails \/ FailureExpires
  \/ Retry \/ DemoRestarts \/ HandOver \/ DemoStops

\* A build ends, a timer fires, a promise is followed.
SceneFairness ==
  /\ WF_sceneVars(BuildSucceeds \/ BuildFails) /\ WF_sceneVars(Retry)
  /\ WF_sceneVars(DemoRestarts) /\ WF_sceneVars(HandOver)

SceneSpec == SceneInit /\ [][SceneNext]_sceneVars /\ SceneFairness

-----------------------------------------------------------------------------
(* What it promises *)

\* A scene that exists is the one its mount has, and its mount is wanted: a build
\* that comes after its mount went, or after a failure, is destroyed; and however
\* many mounts were started and in whatever order they settled, one picture at most
\* is on the page (sceneGuard.ts, GameCanvas.tsx, landing.ts).
NoSceneIsNobodys ==
  /\ \A s \in scenes : Live(s[1]) /\ mounts[s[1]].current = s[2]
  /\ Quiet => Cardinality(scenes) <= 1

\* "A slow first mount resolving after a fast second one" never publishes over
\* it, nor resets its store (mount.ts mountSerial): on the run's page.
RunKeepsItsStore ==
  Live(mountSerial) /\ mounts[mountSerial].page = "play" => shows = mountSerial

\* "Only the mount that currently owns the store may clear it" (mount.ts), on any
\* page.
StoreIsTheMounts == Live(mountSerial) => shows = mountSerial

\* A page that is being looked at gets its picture back, or is drawn by the HUD
\* alone: no failure leaves it waiting for a scene nobody builds.
Pictured ==
  \/ page = "elsewhere"
  \/ \E s \in scenes : s[1] = mountSerial
  \/ mounts[mountSerial].mode = "none"
PictureComesBack == []<>Pictured

===============================================================================
