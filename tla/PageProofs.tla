----------------------------- MODULE PageProofs -----------------------------
(***************************************************************************)
(* What the player's page shows and hands over.  First the picture: one at  *)
(* most, the one that is wanted, for any limit of failures and any number   *)
(* of visits and failures, and a run keeps the store it publishes in,       *)
(* whatever mounts settle late.  Then the story the picture plays: for any  *)
(* number of batches, figures and lost scenes, whoever waits waits for the  *)
(* story on screen, when nobody waits in a run played alone the graph       *)
(* misses nothing, and off a dialog a gauge never goes back.  Last the      *)
(* account, over any number of tabs, runs and page loads: none is awarded a *)
(* run twice, none loses progress, and a page that says "synced" is right.  *)
(***************************************************************************)
EXTENDS Scene, Story, Accounts, FiniteSetTheorems, SequenceTheorems, WellFoundedInduction,
        NaturalsInduction, TLAPS

-----------------------------------------------------------------------------
(*                                THE PICTURE                              *)

-----------------------------------------------------------------------------
(* The inductive invariant *)

States == {"none", "starting", "handing", "up", "disposed"}

MountRecord ==
  [page : Pages, mode : Modes, gen : Nat, current : Nat, state : States,
   history : Nat, retry : BOOLEAN, awaited : Nat]

DemoRecord ==
  [gen : Nat, since : Nat, handle : Mounts \cup {None}, losses : 0..Limit,
   due : Nat, playing : BOOLEAN]

\* The types, with generations not bounded yet.
Shape ==
  /\ mounts \in [Mounts -> MountRecord]
  /\ building \subseteq Mounts \X Nat \X Modes
  /\ scenes \subseteq Mounts \X Nat \X Modes
  /\ webglGivenUp \in BOOLEAN
  /\ mountSerial \in Mounts \cup {None}
  /\ global \in Mounts \cup {None}
  /\ shows \in Mounts \cup {None}
  /\ page \in Pages \cup {"elsewhere"}
  /\ demo \in DemoRecord
  /\ visits \in 0..MaxVisits
  /\ fails \in 0..MaxFails

\* Mounts are numbered as they come.
Spent == \A m \in Mounts : m > mountSerial => mounts[m] = Unmounted

\* A generation is a failure or the rebuild it scheduled, disposal the last; a
\* rebuild is scheduled for a mount that has no scene and a renderer to try.
Generations ==
  \A m \in Mounts :
    /\ mounts[m].gen + (IF mounts[m].retry THEN 1 ELSE 0)
         <= 2 * fails + (IF mounts[m].state = "disposed" THEN 2 ELSE 1)
    /\ mounts[m].current <= mounts[m].gen
    /\ mounts[m].retry => /\ Live(m)
                          /\ mounts[m].current = 0
                          /\ mounts[m].mode # "none"
    /\ mounts[m].mode = "none" => mounts[m].history = 0
    /\ mounts[m].history < Limit

\* A build of the mount's own generation is the only one, and what it will be
\* is missing: it is for a mount without a scene.
Builds ==
  \A b \in building :
    /\ b[1] <= mountSerial
    /\ 1 <= b[2] /\ b[2] <= mounts[b[1]].gen
    /\ b[2] = mounts[b[1]].gen =>
         /\ mounts[b[1]].current = 0
         /\ ~mounts[b[1]].retry
         /\ mounts[b[1]].mode = b[3]
         /\ b[3] # "none"

\* A scene is its mount's, of its generation and its renderer, and its mount's
\* first attempt is over.
Shown ==
  \A s \in scenes :
    /\ mounts[s[1]].state \in {"handing", "up"}
    /\ s[2] # 0
    /\ mounts[s[1]].gen = s[2]
    /\ mounts[s[1]].current = s[2]
    /\ mounts[s[1]].mode = s[3]
    /\ s[3] # "none"

\* What was handed over is what the page that is open still holds.
Handed ==
  \A m \in Mounts : mounts[m].state = "up" =>
    IF mounts[m].page = "play"
    THEN page = "play" /\ m = mountSerial
    ELSE page = "landing" /\ demo.handle = m /\ mounts[m].awaited = demo.gen

\* The demo waits for one mount at a time, and restarts while it is looked at.
Demos ==
  /\ demo.due > 0 => page = "landing"
  /\ \A m \in Mounts : mounts[m].awaited <= demo.gen
  /\ \A m, n \in Mounts :
       mounts[m].page = "landing" /\ mounts[n].page = "landing"
         /\ mounts[m].awaited = mounts[n].awaited => m = n

\* The last mount, when it is a run's, holds the page's handle and the store.
Owned == Live(mountSerial) /\ mounts[mountSerial].page = "play" => shows = mountSerial /\ global = mountSerial

SceneInv ==
  /\ Shape
  /\ Spent
  /\ Generations
  /\ Builds
  /\ Shown
  /\ Handed
  /\ Demos
  /\ Owned

-----------------------------------------------------------------------------
(* Numbers, records *)

LEMMA MountsAreNumbers ==
  /\ Mounts \subseteq Nat \ {0}
  /\ None \notin Mounts
  /\ \A m \in Mounts \cup {None} : m \in Nat
BY SceneBounds DEF Mounts, None

LEMMA TheNextMount ==
  ASSUME Shape
  PROVE  /\ mountSerial \in Nat /\ mountSerial + 1 > mountSerial
         /\ \A m \in Mounts : m > mountSerial + 1 => m > mountSerial
         /\ \A m \in Mounts : m > mountSerial \/ m <= mountSerial
BY MountsAreNumbers, SMT DEF Shape

\* A mount that lives has been numbered.
LEMMA TheLivingAreMounted ==
  ASSUME SceneInv, NEW m \in Mounts
  PROVE  mounts[m].state # "none" => m <= mountSerial
BY TheNextMount, MountsAreNumbers DEF SceneInv, Spent, Unmounted

\* A disposed mount is one generation further, with nothing to show or to try.
LEMMA DisposedMounts ==
  ASSUME Shape, NEW m \in Mounts \cup {None}
  PROVE  /\ Disposed(mounts, m) \in [Mounts -> MountRecord]
         /\ \A n \in Mounts :
              /\ Disposed(mounts, m)[n].page = mounts[n].page
              /\ Disposed(mounts, m)[n].mode = mounts[n].mode
              /\ Disposed(mounts, m)[n].history = mounts[n].history
              /\ Disposed(mounts, m)[n].awaited = mounts[n].awaited
              /\ n = m /\ Live(m) =>
                   /\ Disposed(mounts, m)[n].state = "disposed"
                   /\ Disposed(mounts, m)[n].gen = mounts[n].gen + 1
                   /\ Disposed(mounts, m)[n].current = 0
                   /\ ~Disposed(mounts, m)[n].retry
              /\ ~(n = m /\ Live(m)) => Disposed(mounts, m)[n] = mounts[n]
<1>1. CASE ~Live(m)
  BY <1>1 DEF Disposed, Shape
<1>2. CASE Live(m)
  <2>1. m \in Mounts
    BY <1>2 DEF Live
  <2>2. Disposed(mounts, m) =
          [mounts EXCEPT ![m] = [mounts[m] EXCEPT !.state = "disposed", !.gen = @ + 1,
                                                  !.current = 0, !.retry = FALSE]]
    BY <1>2, <2>1 DEF Disposed, Shape, MountRecord
  <2>3. mounts[m] \in MountRecord
    BY <2>1 DEF Shape
  <2>4. [mounts[m] EXCEPT !.state = "disposed", !.gen = @ + 1,
                          !.current = 0, !.retry = FALSE] \in MountRecord
    <3>1. mounts[m].gen + 1 \in Nat /\ 0 \in Nat /\ "disposed" \in States
      BY <2>3 DEF MountRecord, States
    <3>2. FALSE \in BOOLEAN
      OBVIOUS
    <3> QED  BY <2>3, <3>1, <3>2, Zenon DEF MountRecord
  <2> QED  BY <1>2, <2>1, <2>2, <2>3, <2>4 DEF Shape, MountRecord
<1> QED  BY <1>1, <1>2

-----------------------------------------------------------------------------
(* Mounting *)

NewMount(p, awaited) ==
  [Unmounted EXCEPT !.page = p, !.state = "starting", !.gen = 1,
                    !.awaited = awaited, !.mode = FirstMode]

LEMMA NewMountFields ==
  ASSUME Shape, NEW p \in Pages, NEW awaited \in Nat
  PROVE  /\ NewMount(p, awaited) \in MountRecord
         /\ NewMount(p, awaited).page = p
         /\ NewMount(p, awaited).state = "starting"
         /\ NewMount(p, awaited).gen = 1
         /\ NewMount(p, awaited).current = 0
         /\ NewMount(p, awaited).history = 0
         /\ NewMount(p, awaited).retry = FALSE
         /\ NewMount(p, awaited).awaited = awaited
         /\ NewMount(p, awaited).mode = FirstMode
         /\ FirstMode \in Modes /\ FirstMode # "none"
<1>1. FirstMode \in Modes /\ FirstMode # "none"
  BY DEF FirstMode, Modes
<1>2. Unmounted \in MountRecord
  <2>1. "none" \in States /\ "play" \in Pages /\ "webgl" \in Modes /\ 0 \in Nat /\ FALSE \in BOOLEAN
    BY DEF States, Pages, Modes
  <2> QED  BY <2>1, Zenon DEF MountRecord, Unmounted
<1>3. "starting" \in States /\ 1 \in Nat
  BY DEF States
<1>4. NewMount(p, awaited) \in MountRecord
  BY <1>1, <1>2, <1>3 DEF NewMount, MountRecord
<1>5. Unmounted.current = 0 /\ Unmounted.history = 0 /\ Unmounted.retry = FALSE
  BY DEF Unmounted
<1> QED  BY <1>1, <1>2, <1>4, <1>5 DEF NewMount, MountRecord

\* The others are as they were, but for the one disposed of on the way.
LEMMA MountedMounts ==
  ASSUME Shape, NEW p \in Pages, NEW awaited \in Nat, NEW gone \in Mounts \cup {None},
         MountGame(p, awaited, gone)
  PROVE  /\ mountSerial' = mountSerial + 1 /\ mountSerial' \in Mounts
         /\ mounts' \in [Mounts -> MountRecord]
         /\ mounts'[mountSerial'] = NewMount(p, awaited)
         /\ \A n \in Mounts : n # mountSerial' => mounts'[n] = Disposed(mounts, gone)[n]
<1>1. mounts' = [Disposed(mounts, gone) EXCEPT ![mountSerial + 1] = NewMount(p, awaited)]
      /\ mountSerial' = mountSerial + 1 /\ mountSerial' \in Mounts
  BY DEF MountGame, NewMount
<1> QED  BY <1>1, DisposedMounts, NewMountFields

LEMMA MountingKeeps ==
  ASSUME SceneInv, NEW p \in Pages, NEW awaited \in Nat, NEW gone \in Mounts \cup {None},
         MountGame(p, awaited, gone), UNCHANGED <<webglGivenUp, fails>>,
         page' \in Pages, visits' \in 0..MaxVisits, demo' \in DemoRecord,
         \A n \in Mounts : mounts[n].state = "up" => n = gone
  PROVE  /\ Shape' /\ Spent' /\ Generations' /\ Builds' /\ Shown' /\ Handed' /\ Owned'
         /\ \A n \in Mounts : n # mountSerial' => mounts'[n].page = mounts[n].page
                                             /\ mounts'[n].awaited = mounts[n].awaited
         /\ mounts'[mountSerial'].page = p /\ mounts'[mountSerial'].awaited = awaited
<1> DEFINE ds == Disposed(mounts, gone)
<1>0. Shape
  BY DEF SceneInv
<1>1. /\ mountSerial' = mountSerial + 1 /\ mountSerial' \in Mounts
      /\ mounts' \in [Mounts -> MountRecord]
      /\ mounts'[mountSerial'] = NewMount(p, awaited)
      /\ \A n \in Mounts : n # mountSerial' => mounts'[n] = ds[n]
  BY <1>0, MountedMounts
<1>2. /\ building' = building \cup {<<mountSerial', 1, FirstMode>>}
      /\ scenes' = scenes \ ScenesOf(gone)
      /\ shows' = mountSerial'
      /\ global' = IF p = "play" THEN mountSerial' ELSE IF gone = global THEN None ELSE global
  BY DEF MountGame
<1>3. /\ ds \in [Mounts -> MountRecord]
      /\ \A n \in Mounts :
           /\ ds[n].page = mounts[n].page
           /\ ds[n].mode = mounts[n].mode
           /\ ds[n].history = mounts[n].history
           /\ ds[n].awaited = mounts[n].awaited
           /\ n = gone /\ Live(gone) =>
                /\ ds[n].state = "disposed"
                /\ ds[n].gen = mounts[n].gen + 1
                /\ ds[n].current = 0
                /\ ~ds[n].retry
           /\ ~(n = gone /\ Live(gone)) => ds[n] = mounts[n]
  BY <1>0, DisposedMounts
<1>n. /\ mounts'[mountSerial'].page = p
      /\ mounts'[mountSerial'].state = "starting"
      /\ mounts'[mountSerial'].gen = 1
      /\ mounts'[mountSerial'].current = 0
      /\ mounts'[mountSerial'].history = 0
      /\ mounts'[mountSerial'].retry = FALSE
      /\ mounts'[mountSerial'].awaited = awaited
      /\ mounts'[mountSerial'].mode = FirstMode
      /\ FirstMode \in Modes /\ FirstMode # "none"
  <2> DEFINE new == NewMount(p, awaited)
  <2>1. new.page = p /\ new.state = "starting" /\ new.gen = 1 /\ new.current = 0
        /\ new.history = 0 /\ new.retry = FALSE /\ new.awaited = awaited
        /\ new.mode = FirstMode /\ FirstMode \in Modes /\ FirstMode # "none"
    BY <1>0, NewMountFields
  <2>2. mounts'[mountSerial'] = new
    BY <1>1
  <2> HIDE DEF new
  <2> QED  BY <2>1, <2>2
<1> HIDE DEF ds
<1>4. Shape'
  <2>1. building' \subseteq Mounts \X Nat \X Modes
    BY <1>0, <1>1, <1>2, <1>n DEF Shape
  <2>2. scenes' \subseteq Mounts \X Nat \X Modes
    BY <1>0, <1>2 DEF Shape
  <2>3. global' \in Mounts \cup {None} /\ shows' \in Mounts \cup {None}
    BY <1>0, <1>1, <1>2 DEF Shape
  <2> QED  BY <1>0, <1>1, <2>1, <2>2, <2>3 DEF Shape
<1>5. Spent'
  <2> SUFFICES ASSUME NEW n \in Mounts, n > mountSerial' PROVE mounts'[n] = Unmounted
    BY DEF Spent
  <2>1. n > mountSerial /\ n # mountSerial'
    BY <1>0, <1>1, TheNextMount, MountsAreNumbers
  <2>2. mounts[n] = Unmounted
    BY <2>1 DEF SceneInv, Spent
  <2>3. ~Live(n)
    BY <2>2 DEF Live, Unmounted
  <2> QED  BY <1>1, <1>3, <2>1, <2>2, <2>3
<1>6. Generations'
  <2> SUFFICES ASSUME NEW n \in Mounts
               PROVE  /\ mounts'[n].gen + (IF mounts'[n].retry THEN 1 ELSE 0)
                           <= 2 * fails + (IF mounts'[n].state = "disposed" THEN 2 ELSE 1)
                      /\ mounts'[n].current <= mounts'[n].gen
                      /\ mounts'[n].retry => /\ Live(n)'
                                             /\ mounts'[n].current = 0
                                             /\ mounts'[n].mode # "none"
                      /\ mounts'[n].mode = "none" => mounts'[n].history = 0
                      /\ mounts'[n].history < Limit
    BY DEF Generations, Live
  <2>0. fails \in Nat /\ mounts[n] \in MountRecord
    BY <1>0, SceneBounds DEF Shape
  <2>1. CASE n = mountSerial'
    BY <1>0, <1>1, <2>0, <2>1, <1>n, SceneLimit
  <2>2. CASE n # mountSerial' /\ n = gone /\ Live(gone)
    BY <1>1, <1>3, <2>0, <2>2 DEF SceneInv, Generations, Live, MountRecord
  <2>3. CASE n # mountSerial' /\ ~(n = gone /\ Live(gone))
    BY <1>1, <1>3, <2>0, <2>3 DEF SceneInv, Generations, Live, MountRecord
  <2> QED  BY <2>1, <2>2, <2>3
<1>7. Builds'
  <2> SUFFICES ASSUME NEW b \in building'
               PROVE  /\ b[1] <= mountSerial'
                      /\ 1 <= b[2] /\ b[2] <= mounts'[b[1]].gen
                      /\ b[2] = mounts'[b[1]].gen =>
                           /\ mounts'[b[1]].current = 0
                           /\ ~mounts'[b[1]].retry
                           /\ mounts'[b[1]].mode = b[3]
                           /\ b[3] # "none"
    BY DEF Builds
  <2>1. CASE b = <<mountSerial', 1, FirstMode>>
    <3>1. b[1] = mountSerial' /\ b[2] = 1 /\ b[3] = FirstMode
      BY <2>1
    <3> QED  BY <1>0, <1>1, <3>1, <1>n, MountsAreNumbers
  <2>2. CASE b \in building
    <3>1. b[1] \in Mounts /\ b[2] \in Nat /\ b[3] \in Modes
      BY <1>0, <2>2 DEF Shape
    <3>2. b[1] <= mountSerial /\ b[1] <= mountSerial' /\ b[1] # mountSerial'
      <4>1. b[1] <= mountSerial
        BY <1>0, <2>2 DEF SceneInv, Builds
      <4>2. b[1] \in Nat /\ mountSerial \in Nat /\ mountSerial' = mountSerial + 1
        BY <1>0, <1>1, <3>1, TheNextMount, MountsAreNumbers
      <4> QED  BY ONLY <4>1, <4>2
    <3>3. mounts[b[1]] \in MountRecord /\ mounts'[b[1]] = ds[b[1]]
      BY <1>0, <1>1, <3>1, <3>2 DEF Shape
    <3>4. CASE b[1] = gone /\ Live(gone)
      BY <1>3, <2>2, <3>1, <3>2, <3>3, <3>4 DEF SceneInv, Builds, MountRecord
    <3>5. CASE ~(b[1] = gone /\ Live(gone))
      BY <1>3, <2>2, <3>1, <3>2, <3>3, <3>5 DEF SceneInv, Builds
    <3> QED  BY <3>4, <3>5
  <2> QED  BY <1>2, <2>1, <2>2
<1>8. Shown'
  <2> SUFFICES ASSUME NEW s \in scenes'
               PROVE  /\ mounts'[s[1]].state \in {"handing", "up"}
                      /\ s[2] # 0
                      /\ mounts'[s[1]].gen = s[2]
                      /\ mounts'[s[1]].current = s[2]
                      /\ mounts'[s[1]].mode = s[3]
                      /\ s[3] # "none"
    BY DEF Shown
  <2>1. s \in scenes /\ s[1] # gone
    BY <1>2 DEF ScenesOf
  <2>2. s[1] \in Mounts
    BY <1>0, <2>1 DEF Shape
  <2>3. mounts[s[1]].state \in {"handing", "up"}
    BY <2>1 DEF SceneInv, Shown
  <2>4. s[1] # mountSerial'
    BY <1>0, <1>1, <2>2, <2>3, TheLivingAreMounted, TheNextMount
  <2>5. mounts'[s[1]] = mounts[s[1]]
    BY <1>1, <1>3, <2>1, <2>2, <2>4
  <2> QED  BY <2>1, <2>5 DEF SceneInv, Shown
<1>9. Handed'
  <2>1. \A n \in Mounts : mounts'[n].state # "up"
    <3> SUFFICES ASSUME NEW n \in Mounts PROVE mounts'[n].state # "up"
      OBVIOUS
    <3>1. CASE n = mountSerial'
      BY <1>0, <1>1, <3>1, <1>n
    <3>2. CASE n # mountSerial'
      <4>1. mounts'[n] = ds[n]
        BY <1>1, <3>2
      <4>2. mounts[n].state = "up" => n = gone /\ Live(gone)
        BY MountsAreNumbers DEF Live
      <4> QED  BY <1>3, <4>1, <4>2
    <3> QED  BY <3>1, <3>2
  <2> QED  BY <2>1 DEF Handed
<1>10. Owned'
  BY <1>0, <1>1, <1>2, <1>n DEF Owned
<1>11. /\ \A n \in Mounts : n # mountSerial' => mounts'[n].page = mounts[n].page
                                           /\ mounts'[n].awaited = mounts[n].awaited
       /\ mounts'[mountSerial'].page = p /\ mounts'[mountSerial'].awaited = awaited
  BY <1>0, <1>1, <1>3, <1>n
<1> QED  BY <1>4, <1>5, <1>6, <1>7, <1>8, <1>9, <1>10, <1>11

-----------------------------------------------------------------------------
(* Disposing *)

\* The pages' own variables may move in the same step.
LEMMA DisposingKeeps ==
  ASSUME SceneInv, NEW m \in Mounts \cup {None}, Dispose(m),
         UNCHANGED <<building, webglGivenUp, mountSerial, fails, visits>>,
         page' \in Pages \cup {"elsewhere"}, demo' \in DemoRecord
  PROVE  /\ Shape' /\ Spent' /\ Generations' /\ Builds' /\ Shown' /\ Owned'
         /\ \A n \in Mounts :
              /\ mounts'[n].page = mounts[n].page
              /\ mounts'[n].awaited = mounts[n].awaited
              /\ mounts'[n].state = "up" => n # m /\ mounts[n].state = "up"
<1>0. Shape
  BY DEF SceneInv
<1>1. /\ mounts' \in [Mounts -> MountRecord]
      /\ \A n \in Mounts :
           /\ mounts'[n].page = mounts[n].page
           /\ mounts'[n].mode = mounts[n].mode
           /\ mounts'[n].history = mounts[n].history
           /\ mounts'[n].awaited = mounts[n].awaited
           /\ n = m /\ Live(m) =>
                /\ mounts'[n].state = "disposed"
                /\ mounts'[n].gen = mounts[n].gen + 1
                /\ mounts'[n].current = 0
                /\ ~mounts'[n].retry
           /\ ~(n = m /\ Live(m)) => mounts'[n] = mounts[n]
  <2>1. mounts' = Disposed(mounts, m)
    BY DEF Dispose
  <2> QED  BY <1>0, <2>1, DisposedMounts
<1>2. /\ scenes' = scenes \ ScenesOf(m)
      /\ global' = IF global = m THEN None ELSE global
      /\ shows' = IF Live(m) /\ Clears(m) THEN None ELSE shows
  BY DEF Dispose
<1>3. Shape'
  <2>1. scenes' \subseteq Mounts \X Nat \X Modes
    BY <1>0, <1>2 DEF Shape
  <2>2. global' \in Mounts \cup {None} /\ shows' \in Mounts \cup {None}
    BY <1>0, <1>2 DEF Shape
  <2> QED  BY <1>0, <1>1, <2>1, <2>2 DEF Shape
<1>4. Spent'
  <2> SUFFICES ASSUME NEW n \in Mounts, n > mountSerial PROVE mounts'[n] = Unmounted
    BY DEF Spent
  <2>1. mounts[n] = Unmounted
    BY DEF SceneInv, Spent
  <2>2. ~Live(n)
    BY <2>1 DEF Live, Unmounted
  <2> QED  BY <1>1, <2>1, <2>2
<1>5. Generations'
  <2> SUFFICES ASSUME NEW n \in Mounts
               PROVE  /\ mounts'[n].gen + (IF mounts'[n].retry THEN 1 ELSE 0)
                           <= 2 * fails + (IF mounts'[n].state = "disposed" THEN 2 ELSE 1)
                      /\ mounts'[n].current <= mounts'[n].gen
                      /\ mounts'[n].retry => /\ Live(n)'
                                             /\ mounts'[n].current = 0
                                             /\ mounts'[n].mode # "none"
                      /\ mounts'[n].mode = "none" => mounts'[n].history = 0
                      /\ mounts'[n].history < Limit
    BY DEF Generations, Live
  <2>0. fails \in Nat /\ mounts[n] \in MountRecord
    BY <1>0, SceneBounds DEF Shape
  <2>1. CASE n = m /\ Live(m)
    BY <1>1, <2>0, <2>1 DEF SceneInv, Generations, Live, MountRecord
  <2>2. CASE ~(n = m /\ Live(m))
    BY <1>1, <2>0, <2>2 DEF SceneInv, Generations, Live, MountRecord
  <2> QED  BY <2>1, <2>2
<1>6. Builds'
  <2> SUFFICES ASSUME NEW b \in building
               PROVE  /\ b[1] <= mountSerial
                      /\ 1 <= b[2] /\ b[2] <= mounts'[b[1]].gen
                      /\ b[2] = mounts'[b[1]].gen =>
                           /\ mounts'[b[1]].current = 0
                           /\ ~mounts'[b[1]].retry
                           /\ mounts'[b[1]].mode = b[3]
                           /\ b[3] # "none"
    BY DEF Builds
  <2>1. b[1] \in Mounts /\ b[2] \in Nat /\ b[3] \in Modes /\ mounts[b[1]] \in MountRecord
    BY <1>0 DEF Shape
  <2>2. CASE b[1] = m /\ Live(m)
    BY <1>1, <2>1, <2>2 DEF SceneInv, Builds, MountRecord
  <2>3. CASE ~(b[1] = m /\ Live(m))
    BY <1>1, <2>1, <2>3 DEF SceneInv, Builds
  <2> QED  BY <2>2, <2>3
<1>7. Shown'
  <2> SUFFICES ASSUME NEW s \in scenes'
               PROVE  /\ mounts'[s[1]].state \in {"handing", "up"}
                      /\ s[2] # 0
                      /\ mounts'[s[1]].gen = s[2]
                      /\ mounts'[s[1]].current = s[2]
                      /\ mounts'[s[1]].mode = s[3]
                      /\ s[3] # "none"
    BY DEF Shown
  <2>1. s \in scenes /\ s[1] # m
    BY <1>2 DEF ScenesOf
  <2>2. mounts'[s[1]] = mounts[s[1]]
    BY <1>0, <1>1, <2>1 DEF Shape
  <2> QED  BY <2>1, <2>2 DEF SceneInv, Shown
<1>8. Owned'
  <2> SUFFICES ASSUME Live(mountSerial)', mounts'[mountSerial].page = "play"
               PROVE  shows' = mountSerial /\ global' = mountSerial
    BY DEF Owned
  <2>1. mountSerial \in Mounts
    BY <1>0 DEF Shape, Live
  <2>2. ~(mountSerial = m /\ Live(m)) /\ mounts'[mountSerial] = mounts[mountSerial]
    BY <1>1, <2>1 DEF Live
  <2>3. Live(mountSerial) /\ mounts[mountSerial].page = "play"
    BY <2>2 DEF Live
  <2>4. mountSerial # m /\ shows = mountSerial /\ global = mountSerial
    BY <2>2, <2>3 DEF SceneInv, Owned
  <2> QED  BY <1>2, <2>4 DEF Clears
<1>9. \A n \in Mounts : mounts'[n].state = "up" => n # m /\ mounts[n].state = "up"
  BY <1>1, MountsAreNumbers DEF Live
<1> QED  BY <1>1, <1>3, <1>4, <1>5, <1>6, <1>7, <1>8, <1>9

-----------------------------------------------------------------------------
(* Failing *)

\* lost() moves the demo's own variables and the memory of WebGL.
LEMMA LosingKeeps ==
  ASSUME SceneInv, NEW m \in Mounts, NEW givenUp \in BOOLEAN, Lost(m, givenUp)
  PROVE  /\ demo' \in DemoRecord
         /\ webglGivenUp' \in BOOLEAN
         /\ demo'.gen = demo.gen /\ demo'.handle = demo.handle
         /\ demo'.due > 0 => demo.due > 0 \/ page = "landing"
<1> DEFINE counted == IF demo.losses < Limit THEN demo.losses + 1 ELSE Limit
<1>1. demo \in DemoRecord /\ counted \in 0..Limit /\ 0 \in 0..Limit
  BY SceneLimit DEF SceneInv, Shape, DemoRecord
<1>2. demo.due + 1 \in Nat
  BY <1>1 DEF DemoRecord
<1>3. \/ demo' = demo
      \/ page = "landing" /\ demo' = [demo EXCEPT !.losses = counted, !.due = @ + 1]
      \/ page = "landing" /\ demo' = [demo EXCEPT !.losses = counted]
      \/ page = "landing" /\ demo' = [demo EXCEPT !.losses = 0, !.due = @ + 1]
  BY DEF Lost
<1>4. webglGivenUp' \in BOOLEAN
  BY Zenon DEF Lost
<1> HIDE DEF counted
<1> QED  BY <1>1, <1>2, <1>3, <1>4 DEF DemoRecord

\* The failing mount, and what it will try.
LEMMA FailingMounts ==
  ASSUME SceneInv, NEW m \in Mounts, Fail(m), mounts[m].mode # "none"
  PROVE  /\ mounts' \in [Mounts -> MountRecord]
         /\ mounts'[m].page = mounts[m].page
         /\ mounts'[m].awaited = mounts[m].awaited
         /\ mounts'[m].gen = mounts[m].gen + 1
         /\ mounts'[m].current = 0
         /\ mounts'[m].state = Attempted(mounts[m].state)
         /\ mounts'[m].retry => mounts'[m].mode # "none"
         /\ mounts'[m].mode = "none" => mounts'[m].history = 0
         /\ mounts'[m].history < Limit
         /\ \A n \in Mounts : n # m => mounts'[n] = mounts[n]
<1> DEFINE old == mounts[m]
           count == old.history + 1
           next == ModeAfter(old.mode, count)
           history == IF next = old.mode THEN count ELSE 0
           new == [old EXCEPT !.gen = @ + 1, !.current = 0, !.mode = next,
                              !.history = history, !.retry = Retries(m, next),
                              !.state = Attempted(@)]
<1>1. old \in MountRecord /\ mounts \in [Mounts -> MountRecord]
  BY DEF SceneInv, Shape
<1>2. next \in Modes
  BY <1>1 DEF ModeAfter, Modes, MountRecord
<1>3. history \in Nat /\ history < Limit /\ (next = "none" => history = 0)
  <2>1. old.history \in Nat /\ old.history < Limit /\ Limit \in Nat
    BY <1>1, SceneLimit DEF SceneInv, Generations, MountRecord
  <2>2. next = old.mode => count < Limit
    BY <2>1 DEF ModeAfter
  <2> QED  BY <2>1, <2>2, SceneLimit
<1>4. Attempted(old.state) \in States
  BY <1>1 DEF Attempted, States, MountRecord
<1>5. Retries(m, next) \in BOOLEAN /\ (Retries(m, next) => next # "none")
  BY DEF Retries
<1>6. old.gen + 1 \in Nat /\ 0 \in Nat
  BY <1>1 DEF MountRecord
<1>7. mounts' = [mounts EXCEPT ![m] = new]
  BY <1>1 DEF Fail, MountRecord
<1>8. /\ new \in MountRecord
      /\ new.page = old.page
      /\ new.awaited = old.awaited
      /\ new.gen = old.gen + 1
      /\ new.current = 0
      /\ new.mode = next
      /\ new.history = history
      /\ new.state = Attempted(old.state)
      /\ new.retry = Retries(m, next)
  <2> HIDE DEF old, next, history
  <2> QED  BY <1>1, <1>2, <1>3, <1>4, <1>5, <1>6 DEF MountRecord
<1> HIDE DEF new
<1>9. mounts' \in [Mounts -> MountRecord] /\ mounts'[m] = new
      /\ \A n \in Mounts : n # m => mounts'[n] = mounts[n]
  BY <1>1, <1>7, <1>8
<1> HIDE DEF next, history, old
<1> QED  BY <1>3, <1>5, <1>8, <1>9 DEF old

\* A failure takes the scene away and leaves a mount that tries again, or one
\* with no renderer left.
LEMMA FailingKeeps ==
  ASSUME SceneInv, NEW m \in Mounts, Live(m), mounts[m].mode # "none",
         Fail(m), MayFail, building' \subseteq building,
         UNCHANGED <<mountSerial, global, shows, page, visits>>
  PROVE  SceneInv'
<1>0. Shape
  BY DEF SceneInv
<1>1. /\ mounts' \in [Mounts -> MountRecord]
      /\ mounts'[m].page = mounts[m].page
      /\ mounts'[m].awaited = mounts[m].awaited
      /\ mounts'[m].gen = mounts[m].gen + 1
      /\ mounts'[m].current = 0
      /\ mounts'[m].state = Attempted(mounts[m].state)
      /\ mounts'[m].retry => mounts'[m].mode # "none"
      /\ mounts'[m].mode = "none" => mounts'[m].history = 0
      /\ mounts'[m].history < Limit
      /\ \A n \in Mounts : n # m => mounts'[n] = mounts[n]
  BY FailingMounts
<1>2. scenes' = scenes \ ScenesOf(m)
  BY DEF Fail
<1>3. /\ demo' \in DemoRecord
      /\ webglGivenUp' \in BOOLEAN
      /\ demo'.gen = demo.gen /\ demo'.handle = demo.handle
      /\ demo'.due > 0 => demo.due > 0 \/ page = "landing"
  <2> DEFINE next == ModeAfter(mounts[m].mode, mounts[m].history + 1)
             givenUp == webglGivenUp \/ (next = "canvas" /\ next # mounts[m].mode)
  <2>1. givenUp \in BOOLEAN
    BY <1>0, Zenon DEF Shape
  <2>2. (demo' = demo /\ webglGivenUp' = givenUp) \/ Lost(m, givenUp)
    BY DEF Fail
  <2> HIDE DEF givenUp
  <2>3. CASE demo' = demo /\ webglGivenUp' = givenUp
    BY <1>0, <2>1, <2>3 DEF Shape
  <2>4. CASE Lost(m, givenUp)
    BY <2>1, <2>4, LosingKeeps
  <2> QED  BY <2>2, <2>3, <2>4
<1>4. fails' = fails + 1 /\ fails' \in 0..MaxFails /\ fails \in Nat
  BY <1>0, SceneBounds DEF MayFail, Shape
<1>5. /\ mounts[m].state \in {"starting", "handing", "up"}
      /\ mounts'[m].state \in {"handing", "up"}
      /\ mounts'[m].state = "up" <=> mounts[m].state = "up"
  BY <1>1 DEF Live, Attempted
<1>6. Shape'
  <2>1. building' \subseteq Mounts \X Nat \X Modes /\ scenes' \subseteq Mounts \X Nat \X Modes
    BY <1>0, <1>2 DEF Shape
  <2> QED  BY <1>0, <1>1, <1>3, <1>4, <2>1 DEF Shape
<1>7. Spent'
  <2> SUFFICES ASSUME NEW n \in Mounts, n > mountSerial PROVE mounts'[n] = Unmounted
    BY DEF Spent
  <2>1. mounts[n] = Unmounted
    BY DEF SceneInv, Spent
  <2>2. n # m
    BY <1>5, <2>1 DEF Unmounted
  <2> QED  BY <1>1, <2>1, <2>2
<1>8. Generations'
  <2> SUFFICES ASSUME NEW n \in Mounts
               PROVE  /\ mounts'[n].gen + (IF mounts'[n].retry THEN 1 ELSE 0)
                           <= 2 * fails' + (IF mounts'[n].state = "disposed" THEN 2 ELSE 1)
                      /\ mounts'[n].current <= mounts'[n].gen
                      /\ mounts'[n].retry => /\ Live(n)'
                                             /\ mounts'[n].current = 0
                                             /\ mounts'[n].mode # "none"
                      /\ mounts'[n].mode = "none" => mounts'[n].history = 0
                      /\ mounts'[n].history < Limit
    BY DEF Generations, Live
  <2>0. mounts[n] \in MountRecord /\ mounts[m] \in MountRecord
    BY <1>0 DEF Shape
  <2>1. CASE n = m
    <3>1. mounts[m].gen <= 2 * fails + 1
      BY <1>4, <1>5, <2>0 DEF SceneInv, Generations, MountRecord
    <3>2. mounts'[m].gen + 1 <= 2 * fails' + 1 /\ 0 <= mounts'[m].gen
      BY <1>1, <1>4, <2>0, <3>1 DEF MountRecord
    <3> QED  BY <1>1, <1>4, <1>5, <2>0, <2>1, <3>2, MountsAreNumbers DEF Live, MountRecord
  <2>2. CASE n # m
    BY <1>1, <1>4, <2>0, <2>2 DEF SceneInv, Generations, Live, MountRecord
  <2> QED  BY <2>1, <2>2
<1>9. Builds'
  <2> SUFFICES ASSUME NEW b \in building
               PROVE  /\ b[1] <= mountSerial
                      /\ 1 <= b[2] /\ b[2] <= mounts'[b[1]].gen
                      /\ b[2] = mounts'[b[1]].gen =>
                           /\ mounts'[b[1]].current = 0
                           /\ ~mounts'[b[1]].retry
                           /\ mounts'[b[1]].mode = b[3]
                           /\ b[3] # "none"
    BY DEF Builds
  <2>1. b[1] \in Mounts /\ b[2] \in Nat /\ mounts[b[1]] \in MountRecord
    BY <1>0 DEF Shape
  <2>2. CASE b[1] = m
    BY <1>1, <2>1, <2>2 DEF SceneInv, Builds, MountRecord
  <2>3. CASE b[1] # m
    BY <1>1, <2>1, <2>3 DEF SceneInv, Builds
  <2> QED  BY <2>2, <2>3
<1>10. Shown'
  <2> SUFFICES ASSUME NEW s \in scenes'
               PROVE  /\ mounts'[s[1]].state \in {"handing", "up"}
                      /\ s[2] # 0
                      /\ mounts'[s[1]].gen = s[2]
                      /\ mounts'[s[1]].current = s[2]
                      /\ mounts'[s[1]].mode = s[3]
                      /\ s[3] # "none"
    BY DEF Shown
  <2>1. s \in scenes /\ s[1] # m
    BY <1>2 DEF ScenesOf
  <2>2. mounts'[s[1]] = mounts[s[1]]
    BY <1>0, <1>1, <2>1 DEF Shape
  <2> QED  BY <2>1, <2>2 DEF SceneInv, Shown
<1>11. \A n \in Mounts : /\ mounts'[n].page = mounts[n].page
                         /\ mounts'[n].awaited = mounts[n].awaited
                         /\ mounts'[n].state = "up" <=> mounts[n].state = "up"
  BY <1>1, <1>5
<1>12. Handed'
  BY <1>3, <1>11 DEF SceneInv, Handed
<1>13. Demos'
  BY <1>0, <1>3, <1>11 DEF SceneInv, Demos, Shape, DemoRecord
<1>14. Owned'
  <2>1. Live(mountSerial)' /\ mounts'[mountSerial].page = "play"
          => Live(mountSerial) /\ mounts[mountSerial].page = "play"
    BY <1>0, <1>1, <1>5 DEF Live, Shape
  <2> QED  BY <2>1 DEF SceneInv, Owned
<1> QED  BY <1>6, <1>7, <1>8, <1>9, <1>10, <1>12, <1>13, <1>14 DEF SceneInv

LEMMA BuildFailsKeeps == SceneInv /\ BuildFails => SceneInv'
<1> SUFFICES ASSUME SceneInv, BuildFails PROVE SceneInv'
  OBVIOUS
<1>0. Shape
  BY DEF SceneInv
<1>1. PICK b \in building :
        /\ building' = building \ {b}
        /\ IF Stale(b[1], b[2]) THEN UNCHANGED <<mounts, scenes, webglGivenUp, demo>>
           ELSE Fail(b[1])
  BY DEF BuildFails
<1>2. MayFail /\ UNCHANGED <<mountSerial, global, shows, page, visits>>
  BY DEF BuildFails
<1>3. b[1] \in Mounts /\ building' \subseteq building
  BY <1>0, <1>1 DEF Shape
<1>4. CASE ~Stale(b[1], b[2])
  <2>1. Live(b[1]) /\ mounts[b[1]].gen = b[2]
    BY <1>4 DEF Stale
  <2>2. mounts[b[1]].mode # "none"
    BY <2>1 DEF SceneInv, Builds
  <2> QED  BY <1>1, <1>2, <1>3, <1>4, <2>1, <2>2, FailingKeeps
<1>5. CASE Stale(b[1], b[2])
  <2>1. UNCHANGED <<mounts, scenes, webglGivenUp, demo>>
    BY <1>1, <1>5
  <2>2. fails' = fails + 1 /\ fails' \in 0..MaxFails /\ fails \in Nat
    BY <1>0, <1>2, SceneBounds DEF MayFail, Shape
  <2>3. Shape'
    BY <1>0, <1>2, <1>3, <2>1, <2>2 DEF Shape
  <2>4. Generations'
    <3> SUFFICES ASSUME NEW n \in Mounts
                 PROVE  mounts[n].gen + (IF mounts[n].retry THEN 1 ELSE 0)
                          <= 2 * fails' + (IF mounts[n].state = "disposed" THEN 2 ELSE 1)
      BY <2>1 DEF SceneInv, Generations, Live
    <3>1. mounts[n].gen \in Nat
      BY <1>0 DEF Shape, MountRecord
    <3> QED  BY <2>2, <3>1 DEF SceneInv, Generations
  <2>5. Spent' /\ Builds' /\ Shown' /\ Handed' /\ Demos' /\ Owned'
    BY <1>2, <1>3, <2>1
    DEF SceneInv, Spent, Builds, Shown, Handed, Demos, Owned, Live
  <2> QED  BY <2>3, <2>4, <2>5 DEF SceneInv
<1> QED  BY <1>4, <1>5

LEMMA SceneFailsKeeps == SceneInv /\ SceneFails => SceneInv'
<1> SUFFICES ASSUME SceneInv, SceneFails PROVE SceneInv'
  OBVIOUS
<1>1. PICK s \in scenes : Fail(s[1])
  BY DEF SceneFails
<1>2. s[1] \in Mounts /\ s[1] # None
  BY MountsAreNumbers DEF SceneInv, Shape
<1>3. Live(s[1]) /\ mounts[s[1]].mode # "none"
  BY <1>2 DEF SceneInv, Shown, Live
<1>4. MayFail /\ UNCHANGED <<building, mountSerial, global, shows, page, visits>>
  BY DEF SceneFails
<1> QED  BY <1>1, <1>2, <1>3, <1>4, FailingKeeps

-----------------------------------------------------------------------------
(* Building *)

\* One mount is rewritten, and keeps its page and its place.
LEMMA OneMount ==
  ASSUME Shape, NEW m \in Mounts, NEW new \in MountRecord,
         mounts' = [mounts EXCEPT ![m] = new]
  PROVE  /\ mounts' \in [Mounts -> MountRecord]
         /\ mounts'[m] = new
         /\ \A n \in Mounts : n # m => mounts'[n] = mounts[n]
BY DEF Shape

\* A build that is taken is the one its mount misses; a stale one is dropped.
LEMMA BuildSucceedsKeeps == SceneInv /\ BuildSucceeds => SceneInv'
<1> SUFFICES ASSUME SceneInv, BuildSucceeds PROVE SceneInv'
  OBVIOUS
<1>0. Shape
  BY DEF SceneInv
<1>1. UNCHANGED <<mountSerial, global, shows, page, demo, visits, fails>>
  BY DEF BuildSucceeds
<1>2. PICK b \in building : \E got \in {"webgl", "canvas"} :
        /\ got = "webgl" => b[3] = "webgl"
        /\ building' = building \ {b}
        /\ IF Stale(b[1], b[2]) THEN UNCHANGED <<mounts, scenes, webglGivenUp>>
           ELSE /\ scenes' = scenes \cup {<<b[1], b[2], got>>}
                /\ webglGivenUp' = (webglGivenUp \/ (b[3] = "webgl" /\ got = "canvas"))
                /\ mounts' = [mounts EXCEPT
                     ![b[1]].current = b[2],
                     ![b[1]].mode = IF b[3] = "webgl" /\ got = "canvas" THEN "canvas" ELSE @,
                     ![b[1]].state = Attempted(@)]
  BY DEF BuildSucceeds
<1>3. PICK got \in {"webgl", "canvas"} :
        /\ got = "webgl" => b[3] = "webgl"
        /\ building' = building \ {b}
        /\ IF Stale(b[1], b[2]) THEN UNCHANGED <<mounts, scenes, webglGivenUp>>
           ELSE /\ scenes' = scenes \cup {<<b[1], b[2], got>>}
                /\ webglGivenUp' = (webglGivenUp \/ (b[3] = "webgl" /\ got = "canvas"))
                /\ mounts' = [mounts EXCEPT
                     ![b[1]].current = b[2],
                     ![b[1]].mode = IF b[3] = "webgl" /\ got = "canvas" THEN "canvas" ELSE @,
                     ![b[1]].state = Attempted(@)]
  BY <1>2
<1>4. building' \subseteq building /\ building' \subseteq Mounts \X Nat \X Modes
  BY <1>0, <1>3 DEF Shape
<1>5. CASE Stale(b[1], b[2])
  <2>1. UNCHANGED <<mounts, scenes, webglGivenUp>>
    BY <1>3, <1>5
  <2>2. Shape'
    BY <1>0, <1>1, <1>4, <2>1 DEF Shape
  <2> QED
    BY <1>1, <1>4, <2>1, <2>2
    DEF SceneInv, Spent, Generations, Builds, Shown, Handed, Demos, Owned, Live
<1>6. CASE ~Stale(b[1], b[2])
  <2> DEFINE m == b[1]
             old == mounts[m]
             mode == IF b[3] = "webgl" /\ got = "canvas" THEN "canvas" ELSE old.mode
             new == [old EXCEPT !.current = b[2], !.mode = mode, !.state = Attempted(@)]
  <2>1. m \in Mounts /\ b[2] \in Nat /\ b[3] \in Modes /\ old \in MountRecord
    BY <1>0 DEF Shape
  <2>2. /\ Live(m) /\ old.gen = b[2] /\ old.current = 0 /\ ~old.retry
        /\ old.mode = b[3] /\ b[3] # "none" /\ 1 <= b[2] /\ m <= mountSerial
    BY <1>6 DEF Stale, SceneInv, Builds
  <2>3. mode = got /\ got \in Modes /\ got # "none"
    BY <1>3, <2>1, <2>2 DEF Modes
  <2>4. /\ Attempted(old.state) \in {"handing", "up"}
        /\ Attempted(old.state) \in States
        /\ Attempted(old.state) = "up" <=> old.state = "up"
    BY <2>2 DEF Live, Attempted, States
  <2>5. mounts' = [mounts EXCEPT ![m] = new]
    BY <1>0, <1>3, <1>6, <2>1 DEF Shape, MountRecord
  <2>6. /\ new \in MountRecord
        /\ new.page = old.page /\ new.awaited = old.awaited /\ new.gen = b[2]
        /\ new.current = b[2] /\ new.mode = got /\ new.history = old.history
        /\ new.retry = old.retry /\ new.state = Attempted(old.state)
    <3> HIDE DEF old, mode
    <3> QED  BY <2>1, <2>2, <2>3, <2>4 DEF MountRecord
  <2>7. mounts[m] = old
    OBVIOUS
  <2> HIDE DEF m, old, mode, new
  <2>8. /\ mounts' \in [Mounts -> MountRecord] /\ mounts'[m] = new
        /\ \A n \in Mounts : n # m => mounts'[n] = mounts[n]
    BY <1>0, <2>1, <2>5, <2>6, OneMount
  <2>9. scenes' = scenes \cup {<<m, b[2], got>>}
    BY <1>3, <1>6 DEF m
  <2>10. webglGivenUp' \in BOOLEAN
    BY <1>0, <1>3, <1>6, Zenon DEF Shape
  <2>11. Shape'
    <3>1. scenes' \subseteq Mounts \X Nat \X Modes
      BY <1>0, <2>1, <2>3, <2>9 DEF Shape
    <3> QED  BY <1>0, <1>1, <1>4, <2>8, <2>10, <3>1 DEF Shape
  <2>12. Spent'
    <3> SUFFICES ASSUME NEW n \in Mounts, n > mountSerial PROVE mounts'[n] = Unmounted
      BY <1>1 DEF Spent
    <3>1. n # m
      BY <1>0, <2>1, <2>2, TheNextMount, MountsAreNumbers
    <3> QED  BY <2>8, <3>1 DEF SceneInv, Spent
  <2>13. Generations'
    <3> SUFFICES ASSUME NEW n \in Mounts
                 PROVE  /\ mounts'[n].gen + (IF mounts'[n].retry THEN 1 ELSE 0)
                             <= 2 * fails + (IF mounts'[n].state = "disposed" THEN 2 ELSE 1)
                        /\ mounts'[n].current <= mounts'[n].gen
                        /\ mounts'[n].retry => /\ Live(n)'
                                               /\ mounts'[n].current = 0
                                               /\ mounts'[n].mode # "none"
                        /\ mounts'[n].mode = "none" => mounts'[n].history = 0
                        /\ mounts'[n].history < Limit
      BY <1>1 DEF Generations, Live
    <3>0. mounts[n] \in MountRecord /\ fails \in Nat
      BY <1>0, SceneBounds DEF Shape
    <3>1. CASE n = m
      <4>1. old.state # "disposed" /\ new.state # "disposed" /\ ~new.retry
        BY <2>2, <2>4, <2>6, <2>7 DEF Live
      <4>2. old.gen <= 2 * fails + 1 /\ old.history < Limit
        BY <2>1, <2>2, <2>7, <3>0, <4>1 DEF SceneInv, Generations, MountRecord
      <4> QED  BY <2>1, <2>2, <2>3, <2>6, <2>8, <3>0, <3>1, <4>1, <4>2
    <3>2. CASE n # m
      BY <2>8, <3>2 DEF SceneInv, Generations, Live
    <3> QED  BY <3>1, <3>2
  <2>14. Builds'
    <3> SUFFICES ASSUME NEW c \in building'
                 PROVE  /\ c[1] <= mountSerial
                        /\ 1 <= c[2] /\ c[2] <= mounts'[c[1]].gen
                        /\ c[2] = mounts'[c[1]].gen =>
                             /\ mounts'[c[1]].current = 0
                             /\ ~mounts'[c[1]].retry
                             /\ mounts'[c[1]].mode = c[3]
                             /\ c[3] # "none"
      BY <1>1 DEF Builds
    <3>1. c \in building /\ c # b
      BY <1>3
    <3>2. c[1] \in Mounts /\ c = <<c[1], c[2], c[3]>> /\ b = <<b[1], b[2], b[3]>>
      BY <1>0, <3>1 DEF Shape
    <3>3. CASE c[1] = m
      <4>1. c[2] <= old.gen /\ 1 <= c[2] /\ c[1] <= mountSerial
            /\ (c[2] = old.gen => old.mode = c[3])
        BY <2>7, <3>1, <3>3 DEF SceneInv, Builds
      <4>2. c[2] # b[2]
        BY <2>2, <3>1, <3>2, <3>3, <4>1 DEF m
      <4> QED  BY <2>2, <2>6, <2>8, <2>1, <3>3, <4>1, <4>2
    <3>4. CASE c[1] # m
      BY <2>8, <3>1, <3>2, <3>4 DEF SceneInv, Builds
    <3> QED  BY <3>3, <3>4
  <2>15. Shown'
    <3> SUFFICES ASSUME NEW s \in scenes'
                 PROVE  /\ mounts'[s[1]].state \in {"handing", "up"}
                        /\ s[2] # 0
                        /\ mounts'[s[1]].gen = s[2]
                        /\ mounts'[s[1]].current = s[2]
                        /\ mounts'[s[1]].mode = s[3]
                        /\ s[3] # "none"
      BY DEF Shown
    <3>1. CASE s = <<m, b[2], got>>
      <4>1. s[1] = m /\ s[2] = b[2] /\ s[3] = got
        BY <3>1
      <4> QED  BY <2>1, <2>2, <2>3, <2>4, <2>6, <2>8, <4>1
    <3>2. CASE s \in scenes
      <4>1. s[1] \in Mounts /\ s[2] # 0 /\ mounts[s[1]].current = s[2]
        BY <1>0, <3>2 DEF Shape, SceneInv, Shown
      <4>2. s[1] # m
        BY <2>2, <2>7, <4>1
      <4> QED  BY <2>8, <3>2, <4>1, <4>2 DEF SceneInv, Shown
    <3> QED  BY <2>9, <3>1, <3>2
  <2>16. \A n \in Mounts : /\ mounts'[n].page = mounts[n].page
                           /\ mounts'[n].awaited = mounts[n].awaited
                           /\ mounts'[n].state = "up" <=> mounts[n].state = "up"
    BY <2>4, <2>6, <2>7, <2>8
  <2>17. Handed' /\ Demos'
    BY <1>1, <2>16 DEF SceneInv, Handed, Demos
  <2>18. Owned'
    <3>1. Live(mountSerial)' /\ mounts'[mountSerial].page = "play"
            => Live(mountSerial) /\ mounts[mountSerial].page = "play"
      BY <1>0, <1>1, <2>2, <2>7, <2>8, <2>16 DEF Live, Shape
    <3> QED  BY <1>1, <3>1 DEF SceneInv, Owned
  <2> QED  BY <2>11, <2>12, <2>13, <2>14, <2>15, <2>17, <2>18 DEF SceneInv
<1> QED  BY <1>5, <1>6

\* A rebuild is of a generation nobody has built yet.
LEMMA RetryKeeps == SceneInv /\ Retry => SceneInv'
<1> SUFFICES ASSUME SceneInv, Retry PROVE SceneInv'
  OBVIOUS
<1>0. Shape
  BY DEF SceneInv
<1>1. UNCHANGED <<scenes, webglGivenUp, mountSerial, global, shows, page, demo, visits, fails>>
  BY DEF Retry
<1>2. PICK m \in Mounts :
        /\ mounts[m].retry
        /\ mounts' = [mounts EXCEPT ![m].retry = FALSE, ![m].gen = @ + 1]
        /\ building' = building \cup {<<m, mounts[m].gen + 1, mounts[m].mode>>}
  BY DEF Retry
<1> DEFINE old == mounts[m]
           new == [old EXCEPT !.retry = FALSE, !.gen = @ + 1]
<1>3. old \in MountRecord /\ mounts[m] = old
  BY <1>0 DEF Shape
<1>4. mounts' = [mounts EXCEPT ![m] = new]
  BY <1>0, <1>2 DEF Shape, MountRecord
<1>5. /\ new \in MountRecord
      /\ new.page = old.page /\ new.awaited = old.awaited /\ new.gen = old.gen + 1
      /\ new.current = old.current /\ new.mode = old.mode /\ new.history = old.history
      /\ ~new.retry /\ new.state = old.state
  <2>1. old.gen + 1 \in Nat /\ FALSE \in BOOLEAN
    BY <1>3 DEF MountRecord
  <2> HIDE DEF old
  <2> QED  BY <1>3, <2>1 DEF MountRecord
<1>6. building' = building \cup {<<m, new.gen, new.mode>>}
  BY <1>2, <1>5
<1>7. old.retry
  BY <1>2
<1>8. Live(m) /\ old.current = 0 /\ old.mode # "none"
  BY <1>7 DEF SceneInv, Generations
<1> HIDE DEF old, new
<1>9. /\ mounts' \in [Mounts -> MountRecord] /\ mounts'[m] = new
      /\ \A n \in Mounts : n # m => mounts'[n] = mounts[n]
  BY <1>0, <1>4, <1>5, OneMount
<1>10. m <= mountSerial /\ old.state # "none"
  BY <1>3, <1>8, TheLivingAreMounted DEF Live
<1>11. Shape'
  <2>1. building' \subseteq Mounts \X Nat \X Modes
    BY <1>0, <1>5, <1>6 DEF Shape, MountRecord
  <2> QED  BY <1>0, <1>1, <1>9, <2>1 DEF Shape
<1>12. Spent'
  <2> SUFFICES ASSUME NEW n \in Mounts, n > mountSerial PROVE mounts'[n] = Unmounted
    BY <1>1 DEF Spent
  <2>1. n # m
    BY <1>0, <1>10, TheNextMount, MountsAreNumbers
  <2> QED  BY <1>9, <2>1 DEF SceneInv, Spent
<1>13. Generations'
  <2> SUFFICES ASSUME NEW n \in Mounts
               PROVE  /\ mounts'[n].gen + (IF mounts'[n].retry THEN 1 ELSE 0)
                           <= 2 * fails + (IF mounts'[n].state = "disposed" THEN 2 ELSE 1)
                      /\ mounts'[n].current <= mounts'[n].gen
                      /\ mounts'[n].retry => /\ Live(n)'
                                             /\ mounts'[n].current = 0
                                             /\ mounts'[n].mode # "none"
                      /\ mounts'[n].mode = "none" => mounts'[n].history = 0
                      /\ mounts'[n].history < Limit
    BY <1>1 DEF Generations, Live
  <2>0. mounts[n] \in MountRecord /\ fails \in Nat
    BY <1>0, SceneBounds DEF Shape
  <2>1. CASE n = m
    <3>1. old.gen + 1 <= 2 * fails + (IF old.state = "disposed" THEN 2 ELSE 1)
          /\ old.history < Limit
      BY <1>3, <1>7, <2>0 DEF SceneInv, Generations, MountRecord
    <3> QED  BY <1>3, <1>5, <1>8, <1>9, <2>0, <2>1, <3>1 DEF MountRecord
  <2>2. CASE n # m
    BY <1>9, <2>2 DEF SceneInv, Generations, Live
  <2> QED  BY <2>1, <2>2
<1>14. Builds'
  <2> SUFFICES ASSUME NEW b \in building'
               PROVE  /\ b[1] <= mountSerial
                      /\ 1 <= b[2] /\ b[2] <= mounts'[b[1]].gen
                      /\ b[2] = mounts'[b[1]].gen =>
                           /\ mounts'[b[1]].current = 0
                           /\ ~mounts'[b[1]].retry
                           /\ mounts'[b[1]].mode = b[3]
                           /\ b[3] # "none"
    BY <1>1 DEF Builds
  <2>1. CASE b = <<m, new.gen, new.mode>>
    <3>1. b[1] = m /\ b[2] = new.gen /\ b[3] = new.mode
      BY <2>1
    <3> QED  BY <1>3, <1>5, <1>8, <1>9, <1>10, <3>1 DEF MountRecord
  <2>2. CASE b \in building
    <3>1. b[1] \in Mounts /\ b[2] \in Nat
      BY <1>0, <2>2 DEF Shape
    <3>2. CASE b[1] = m
      BY <1>3, <1>5, <1>9, <2>2, <3>1, <3>2 DEF SceneInv, Builds, MountRecord
    <3>3. CASE b[1] # m
      BY <1>9, <2>2, <3>1, <3>3 DEF SceneInv, Builds
    <3> QED  BY <3>2, <3>3
  <2> QED  BY <1>6, <2>1, <2>2
<1>15. Shown'
  <2> SUFFICES ASSUME NEW s \in scenes
               PROVE  /\ mounts'[s[1]].state \in {"handing", "up"}
                      /\ s[2] # 0
                      /\ mounts'[s[1]].gen = s[2]
                      /\ mounts'[s[1]].current = s[2]
                      /\ mounts'[s[1]].mode = s[3]
                      /\ s[3] # "none"
    BY <1>1 DEF Shown
  <2>1. s[1] \in Mounts /\ s[2] # 0 /\ mounts[s[1]].current = s[2]
    BY <1>0 DEF Shape, SceneInv, Shown
  <2>2. s[1] # m
    BY <1>3, <1>8, <2>1
  <2> QED  BY <1>9, <2>1, <2>2 DEF SceneInv, Shown
<1>16. \A n \in Mounts : /\ mounts'[n].page = mounts[n].page
                         /\ mounts'[n].awaited = mounts[n].awaited
                         /\ mounts'[n].state = mounts[n].state
  BY <1>3, <1>5, <1>9
<1>17. Handed' /\ Demos'
  BY <1>1, <1>16 DEF SceneInv, Handed, Demos
<1>18. Owned'
  BY <1>0, <1>1, <1>16 DEF SceneInv, Owned, Live, Shape
<1> QED  BY <1>11, <1>12, <1>13, <1>14, <1>15, <1>17, <1>18 DEF SceneInv

LEMMA FailureExpiresKeeps == SceneInv /\ FailureExpires => SceneInv'
<1> SUFFICES ASSUME SceneInv, FailureExpires PROVE SceneInv'
  OBVIOUS
<1>0. Shape
  BY DEF SceneInv
<1>1. UNCHANGED <<building, scenes, webglGivenUp, mountSerial, global, shows, page, visits, fails>>
  BY DEF FailureExpires
<1>2. ASSUME NEW m \in Mounts, mounts[m].history > 0, UNCHANGED demo,
             mounts' = [mounts EXCEPT ![m].history = @ - 1]
      PROVE  SceneInv'
  <2> DEFINE old == mounts[m]
             new == [old EXCEPT !.history = @ - 1]
  <2>1. old \in MountRecord /\ mounts[m] = old /\ old.history > 0
    BY <1>0, <1>2 DEF Shape
  <2>2. mounts' = [mounts EXCEPT ![m] = new]
    BY <1>0, <1>2 DEF Shape, MountRecord
  <2>3. /\ new \in MountRecord
        /\ new.page = old.page /\ new.awaited = old.awaited /\ new.gen = old.gen
        /\ new.current = old.current /\ new.mode = old.mode /\ new.history = old.history - 1
        /\ new.retry = old.retry /\ new.state = old.state
    <3> HIDE DEF old
    <3>1. old.history - 1 \in Nat
      BY <2>1 DEF MountRecord
    <3> QED  BY <2>1, <3>1 DEF MountRecord
  <2> HIDE DEF old, new
  <2>4. /\ mounts' \in [Mounts -> MountRecord] /\ mounts'[m] = new
        /\ \A n \in Mounts : n # m => mounts'[n] = mounts[n]
    BY <1>0, <2>2, <2>3, OneMount
  <2>5. \A n \in Mounts :
          /\ mounts'[n].page = mounts[n].page
          /\ mounts'[n].awaited = mounts[n].awaited
          /\ mounts'[n].gen = mounts[n].gen
          /\ mounts'[n].current = mounts[n].current
          /\ mounts'[n].mode = mounts[n].mode
          /\ mounts'[n].retry = mounts[n].retry
          /\ mounts'[n].state = mounts[n].state
    BY <2>1, <2>3, <2>4
  <2>6. Shape'
    BY <1>0, <1>1, <1>2, <2>4 DEF Shape
  <2>7. old.mode # "none" /\ old.history < Limit /\ Limit \in Nat /\ old.history \in Nat
    BY <2>1, SceneLimit DEF SceneInv, Generations, MountRecord
  <2>8. Spent'
    <3> SUFFICES ASSUME NEW n \in Mounts, n > mountSerial PROVE mounts'[n] = Unmounted
      BY <1>1 DEF Spent
    <3>1. mounts[n] = Unmounted
      BY DEF SceneInv, Spent
    <3>2. n # m
      BY <2>1, <3>1 DEF Unmounted
    <3> QED  BY <2>4, <3>1, <3>2
  <2>9. Generations'
    <3>1. \A n \in Mounts : /\ mounts'[n].mode = "none" => mounts'[n].history = 0
                            /\ mounts'[n].history < Limit
      <4> SUFFICES ASSUME NEW n \in Mounts
                   PROVE  /\ mounts'[n].mode = "none" => mounts'[n].history = 0
                          /\ mounts'[n].history < Limit
        OBVIOUS
      <4>1. CASE n = m
        BY <2>3, <2>4, <2>7, <4>1
      <4>2. CASE n # m
        BY <2>4, <4>2 DEF SceneInv, Generations
      <4> QED  BY <4>1, <4>2
    <3> QED  BY <1>1, <2>5, <3>1 DEF SceneInv, Generations, Live
  <2>10. Builds'
    BY <1>0, <1>1, <2>5 DEF SceneInv, Builds, Shape
  <2>11. Shown'
    BY <1>0, <1>1, <2>5 DEF SceneInv, Shown, Shape
  <2>12. Handed' /\ Demos'
    BY <1>1, <1>2, <2>5 DEF SceneInv, Handed, Demos
  <2>13. Owned'
    BY <1>0, <1>1, <2>5 DEF SceneInv, Owned, Live, Shape
  <2> QED  BY <2>6, <2>8, <2>9, <2>10, <2>11, <2>12, <2>13 DEF SceneInv
<1>3. CASE demo.losses > 0 /\ demo' = [demo EXCEPT !.losses = @ - 1] /\ UNCHANGED mounts
  <2>1. /\ demo' \in DemoRecord
        /\ demo'.gen = demo.gen /\ demo'.handle = demo.handle /\ demo'.due = demo.due
    <3>1. demo \in DemoRecord
      BY <1>0 DEF Shape
    <3>2. demo.losses - 1 \in 0..Limit
      BY <1>3, <3>1, SceneLimit DEF DemoRecord
    <3> QED  BY <1>3, <3>1, <3>2 DEF DemoRecord
  <2>2. Shape'
    BY <1>0, <1>1, <1>3, <2>1 DEF Shape
  <2> QED
    BY <1>1, <1>3, <2>1, <2>2
    DEF SceneInv, Spent, Generations, Builds, Shown, Handed, Demos, Owned, Live
<1> QED  BY <1>2, <1>3 DEF FailureExpires

-----------------------------------------------------------------------------
(* Handing over *)

LEMMA HandOverKeeps == SceneInv /\ HandOver => SceneInv'
<1> SUFFICES ASSUME SceneInv, HandOver PROVE SceneInv'
  OBVIOUS
<1>0. Shape
  BY DEF SceneInv
<1>1. PICK m \in Mounts :
        /\ mounts[m].state = "handing"
        /\ IF Wanted(m)
           THEN /\ mounts' = [mounts EXCEPT ![m].state = "up"]
                /\ demo' = IF mounts[m].page = "play" THEN demo
                           ELSE [demo EXCEPT !.handle = m, !.playing = TRUE]
                /\ UNCHANGED <<scenes, global, shows>>
           ELSE Dispose(m) /\ UNCHANGED demo
        /\ UNCHANGED <<building, webglGivenUp, mountSerial, page, visits, fails>>
  BY DEF HandOver
<1>2. CASE ~Wanted(m)
  <2>1. Dispose(m) /\ UNCHANGED <<building, webglGivenUp, mountSerial, page, demo, visits, fails>>
    BY <1>1, <1>2
  <2>2. page' \in Pages \cup {"elsewhere"} /\ demo' \in DemoRecord
    BY <1>0, <2>1 DEF Shape
  <2>3. /\ Shape' /\ Spent' /\ Generations' /\ Builds' /\ Shown' /\ Owned'
        /\ \A n \in Mounts :
              /\ mounts'[n].page = mounts[n].page
              /\ mounts'[n].awaited = mounts[n].awaited
              /\ mounts'[n].state = "up" => n # m /\ mounts[n].state = "up"
    BY <2>1, <2>2, DisposingKeeps
  <2>4. Handed' /\ Demos'
    BY <2>1, <2>3 DEF SceneInv, Handed, Demos
  <2> QED  BY <2>3, <2>4 DEF SceneInv
<1>3. CASE Wanted(m)
  <2>0. UNCHANGED <<building, scenes, webglGivenUp, mountSerial, global, shows, page, visits, fails>>
    BY <1>1, <1>3
  <2> DEFINE old == mounts[m]
             new == [old EXCEPT !.state = "up"]
  <2>1. old \in MountRecord /\ mounts[m] = old /\ old.state = "handing"
    BY <1>0, <1>1 DEF Shape
  <2>2. mounts' = [mounts EXCEPT ![m] = new]
    BY <1>0, <1>1, <1>3 DEF Shape, MountRecord
  <2>3. /\ new \in MountRecord
        /\ new.page = old.page /\ new.awaited = old.awaited /\ new.gen = old.gen
        /\ new.current = old.current /\ new.mode = old.mode /\ new.history = old.history
        /\ new.retry = old.retry /\ new.state = "up"
    <3> HIDE DEF old
    <3> QED  BY <2>1 DEF MountRecord, States
  <2> HIDE DEF old, new
  <2>4. /\ mounts' \in [Mounts -> MountRecord] /\ mounts'[m] = new
        /\ \A n \in Mounts : n # m => mounts'[n] = mounts[n]
    BY <1>0, <2>2, <2>3, OneMount
  <2>5. \A n \in Mounts :
          /\ mounts'[n].page = mounts[n].page
          /\ mounts'[n].awaited = mounts[n].awaited
          /\ mounts'[n].gen = mounts[n].gen
          /\ mounts'[n].current = mounts[n].current
          /\ mounts'[n].mode = mounts[n].mode
          /\ mounts'[n].history = mounts[n].history
          /\ mounts'[n].retry = mounts[n].retry
          /\ n # m => mounts'[n].state = mounts[n].state
    BY <2>1, <2>3, <2>4
  <2>6. demo' = IF old.page = "play" THEN demo
                ELSE [demo EXCEPT !.handle = m, !.playing = TRUE]
    BY <1>1, <1>3 DEF old
  <2>7. /\ demo' \in DemoRecord /\ demo'.gen = demo.gen /\ demo'.due = demo.due
        /\ demo'.handle = IF old.page = "play" THEN demo.handle ELSE m
    BY <1>0, <2>6 DEF Shape, DemoRecord
  <2>8. mounts'[m].state = "up" /\ mounts[m].state = "handing"
    BY <2>1, <2>3, <2>4
  <2>9. Shape'
    BY <1>0, <2>0, <2>4, <2>7 DEF Shape
  <2>10. Spent'
    <3> SUFFICES ASSUME NEW n \in Mounts, n > mountSerial PROVE mounts'[n] = Unmounted
      BY <2>0 DEF Spent
    <3>1. mounts[n] = Unmounted
      BY DEF SceneInv, Spent
    <3>2. n # m
      BY <2>8, <3>1 DEF Unmounted
    <3> QED  BY <2>4, <3>1, <3>2
  <2>11. \A n \in Mounts : /\ Live(n)' <=> Live(n)
                           /\ mounts'[n].state = "disposed" <=> mounts[n].state = "disposed"
    BY <2>5, <2>8 DEF Live
  <2>12. Generations'
    BY <2>0, <2>5, <2>11 DEF SceneInv, Generations
  <2>13. Builds'
    BY <1>0, <2>0, <2>5 DEF SceneInv, Builds, Shape
  <2>14. Shown'
    <3>1. \A n \in Mounts : mounts[n].state \in {"handing", "up"}
                              => mounts'[n].state \in {"handing", "up"}
      BY <2>5, <2>8
    <3> QED  BY <1>0, <2>0, <2>5, <3>1 DEF SceneInv, Shown, Shape
  <2>15. Demos'
    BY <2>0, <2>5, <2>7 DEF SceneInv, Demos
  <2>16. Handed'
    <3> SUFFICES ASSUME NEW n \in Mounts, mounts'[n].state = "up"
                 PROVE  IF mounts[n].page = "play"
                        THEN page = "play" /\ n = mountSerial
                        ELSE page = "landing" /\ demo'.handle = n /\ mounts[n].awaited = demo.gen
      BY <2>0, <2>5, <2>7 DEF Handed
    <3>0. mounts[n].page \in {"play", "landing"} /\ mounts[m].page \in {"play", "landing"}
      BY <1>0 DEF Shape, MountRecord, Pages
    <3>1. CASE n = m
      BY <1>3, <2>1, <2>7, <3>0, <3>1 DEF Wanted
    <3>2. CASE n # m
      <4>1. IF mounts[n].page = "play"
            THEN page = "play" /\ n = mountSerial
            ELSE page = "landing" /\ demo.handle = n /\ mounts[n].awaited = demo.gen
        BY <2>5, <3>2 DEF SceneInv, Handed
      <4>2. CASE mounts[n].page = "play"
        BY <4>1, <4>2
      <4>3. CASE mounts[n].page = "landing"
        <5>1. page = "landing" /\ mounts[n].awaited = demo.gen
          BY <4>1, <4>3
        <5>2. mounts[m].page # "landing"
          <6> SUFFICES ASSUME mounts[m].page = "landing" PROVE FALSE
            OBVIOUS
          <6>1. mounts[m].awaited = demo.gen
            BY <1>3 DEF Wanted
          <6> QED  BY <3>2, <4>3, <5>1, <6>1 DEF SceneInv, Demos
        <5> QED  BY <2>1, <2>7, <3>0, <4>1, <4>3, <5>2
      <4> QED  BY <3>0, <4>2, <4>3
    <3> QED  BY <3>1, <3>2
  <2>17. Owned'
    BY <1>0, <2>0, <2>5, <2>11 DEF SceneInv, Owned, Live, Shape
  <2> QED  BY <2>9, <2>10, <2>12, <2>13, <2>14, <2>15, <2>16, <2>17 DEF SceneInv
<1> QED  BY <1>2, <1>3

LEMMA DemoStopsKeeps == SceneInv /\ DemoStops => SceneInv'
<1> SUFFICES ASSUME SceneInv, DemoStops PROVE SceneInv'
  OBVIOUS
<1>1. /\ UNCHANGED <<mounts, building, scenes, webglGivenUp, mountSerial, global, shows, page,
                     visits, fails>>
      /\ demo' = [demo EXCEPT !.playing = FALSE]
  BY DEF DemoStops
<1>2. /\ demo' \in DemoRecord
      /\ demo'.gen = demo.gen /\ demo'.handle = demo.handle /\ demo'.due = demo.due
  BY <1>1 DEF SceneInv, Shape, DemoRecord
<1>3. Shape'
  BY <1>1, <1>2 DEF SceneInv, Shape
<1> QED
  BY <1>1, <1>2, <1>3
  DEF SceneInv, Spent, Generations, Builds, Shown, Handed, Demos, Owned, Live

-----------------------------------------------------------------------------
(* The pages *)

\* With no page open nothing is up, so the run's mount finds nothing to keep.
LEMMA PlayMountsKeeps == SceneInv /\ PlayMounts => SceneInv'
<1> SUFFICES ASSUME SceneInv, PlayMounts PROVE SceneInv'
  OBVIOUS
<1>0. Shape
  BY DEF SceneInv
<1>1. /\ page = "elsewhere" /\ page' = "play" /\ MountGame("play", 0, global)
      /\ UNCHANGED <<webglGivenUp, demo, fails>> /\ Visit
  BY DEF PlayMounts
<1>2. /\ page' \in Pages /\ visits' \in 0..MaxVisits /\ demo' \in DemoRecord
      /\ "play" \in Pages /\ 0 \in Nat /\ global \in Mounts \cup {None}
  <2>1. visits' \in 0..MaxVisits
    BY <1>0, <1>1, SceneBounds DEF Visit, Shape
  <2> QED  BY <1>0, <1>1, <2>1 DEF Pages, Shape
<1>3. \A n \in Mounts : mounts[n].state = "up" => n = global
  BY <1>1 DEF SceneInv, Handed
<1>4. /\ Shape' /\ Spent' /\ Generations' /\ Builds' /\ Shown' /\ Handed' /\ Owned'
      /\ \A n \in Mounts : n # mountSerial' => mounts'[n].page = mounts[n].page
                                          /\ mounts'[n].awaited = mounts[n].awaited
      /\ mounts'[mountSerial'].page = "play" /\ mounts'[mountSerial'].awaited = 0
  BY <1>1, <1>2, <1>3, MountingKeeps
<1>5. Demos'
  <2>1. ~(demo'.due > 0)
    BY <1>1 DEF SceneInv, Demos
  <2>2. \A n \in Mounts : mounts'[n].awaited <= demo'.gen
    <3>1. 0 <= demo.gen
      BY <1>0 DEF Shape, DemoRecord
    <3> QED  BY <1>1, <1>4, <3>1 DEF SceneInv, Demos
  <2>3. \A n \in Mounts : mounts'[n].page = "landing" =>
          /\ mounts[n].page = "landing"
          /\ mounts'[n].awaited = mounts[n].awaited
    BY <1>4
  <2> QED  BY <2>1, <2>2, <2>3 DEF SceneInv, Demos
<1> QED  BY <1>4, <1>5 DEF SceneInv

\* A start of the demo replaces the one mount that may be up.
LEMMA DemoStartsKeeps ==
  ASSUME SceneInv, NEW since \in Nat, NEW due \in Nat, DemoStarts(since, due),
         UNCHANGED <<webglGivenUp, fails>>, page' = "landing", visits' \in 0..MaxVisits,
         page \in {"landing", "elsewhere"}
  PROVE  SceneInv'
<1>0. Shape
  BY DEF SceneInv
<1>1. MountGame("landing", demo.gen + 1, demo.handle)
  BY DEF DemoStarts
<1>2. /\ demo' \in DemoRecord /\ demo'.gen = demo.gen + 1
      /\ demo.gen \in Nat /\ demo.gen + 1 \in Nat /\ demo.handle \in Mounts \cup {None}
  <2>1. demo \in DemoRecord
    BY <1>0 DEF Shape
  <2>2. demo.gen + 1 \in Nat /\ None \in Mounts \cup {None} /\ FALSE \in BOOLEAN
    BY <2>1 DEF DemoRecord
  <2>3. demo' = [demo EXCEPT !.gen = @ + 1, !.since = since, !.handle = None,
                             !.playing = FALSE, !.due = due]
    BY DEF DemoStarts
  <2> QED  BY <2>1, <2>2, <2>3 DEF DemoRecord
<1>3. \A n \in Mounts : mounts[n].state = "up" => n = demo.handle
  BY DEF SceneInv, Handed
<1>4. "landing" \in Pages /\ page' \in Pages
  BY DEF Pages
<1>5. /\ Shape' /\ Spent' /\ Generations' /\ Builds' /\ Shown' /\ Handed' /\ Owned'
      /\ \A n \in Mounts : n # mountSerial' => mounts'[n].page = mounts[n].page
                                          /\ mounts'[n].awaited = mounts[n].awaited
      /\ mounts'[mountSerial'].page = "landing" /\ mounts'[mountSerial'].awaited = demo.gen + 1
  BY <1>1, <1>2, <1>3, <1>4, MountingKeeps
<1>6. Demos'
  <2>1. \A n \in Mounts : mounts[n].awaited \in Nat /\ mounts[n].awaited <= demo.gen
    BY <1>0 DEF SceneInv, Demos, Shape, MountRecord
  <2>2. \A n \in Mounts : mounts'[n].awaited <= demo'.gen
    <3> SUFFICES ASSUME NEW n \in Mounts PROVE mounts'[n].awaited <= demo'.gen
      OBVIOUS
    <3> QED  BY <1>2, <1>5, <2>1
  <2>3. ASSUME NEW n \in Mounts, NEW k \in Mounts,
               mounts'[n].page = "landing", mounts'[k].page = "landing",
               mounts'[n].awaited = mounts'[k].awaited
        PROVE  n = k
    <3>1. CASE n = mountSerial' /\ k = mountSerial'
      BY <3>1
    <3>2. CASE n = mountSerial' /\ k # mountSerial'
      BY <1>2, <1>5, <2>1, <2>3, <3>2
    <3>3. CASE n # mountSerial' /\ k = mountSerial'
      BY <1>2, <1>5, <2>1, <2>3, <3>3
    <3>4. CASE n # mountSerial' /\ k # mountSerial'
      BY <1>5, <2>3, <3>4 DEF SceneInv, Demos
    <3> QED  BY <3>1, <3>2, <3>3, <3>4
  <2> QED  BY <2>2, <2>3 DEF Demos
<1> QED  BY <1>5, <1>6 DEF SceneInv

LEMMA LandingMountsKeeps == SceneInv /\ LandingMounts => SceneInv'
<1> SUFFICES ASSUME SceneInv, LandingMounts PROVE SceneInv'
  OBVIOUS
<1>1. demo.gen + 1 \in Nat /\ 0 \in Nat /\ visits' \in 0..MaxVisits
  BY SceneBounds DEF SceneInv, Shape, DemoRecord, LandingMounts, Visit
<1> QED  BY <1>1, DemoStartsKeeps DEF LandingMounts

LEMMA ReplayKeeps == SceneInv /\ Replay => SceneInv'
<1> SUFFICES ASSUME SceneInv, Replay PROVE SceneInv'
  OBVIOUS
<1>1. demo.since \in Nat /\ demo.due \in Nat /\ visits' \in 0..MaxVisits
  BY SceneBounds DEF SceneInv, Shape, DemoRecord, Replay, Visit
<1> QED  BY <1>1, DemoStartsKeeps DEF Replay

LEMMA DemoRestartsKeeps == SceneInv /\ DemoRestarts => SceneInv'
<1> SUFFICES ASSUME SceneInv, DemoRestarts PROVE SceneInv'
  OBVIOUS
<1>1. demo.since \in Nat /\ demo.due - 1 \in Nat /\ visits' \in 0..MaxVisits
  BY DEF SceneInv, Shape, DemoRecord, DemoRestarts
<1>2. page = "landing"
  BY DEF SceneInv, Demos, DemoRestarts
<1> QED  BY <1>1, <1>2, DemoStartsKeeps DEF DemoRestarts

\* A page that leaves takes what it was handed with it, and no more.
LEMMA PlayLeavesKeeps == SceneInv /\ PlayLeaves => SceneInv'
<1> SUFFICES ASSUME SceneInv, PlayLeaves PROVE SceneInv'
  OBVIOUS
<1>0. Shape
  BY DEF SceneInv
<1>1. /\ page = "play" /\ page' = "elsewhere"
      /\ UNCHANGED <<building, webglGivenUp, mountSerial, demo, visits, fails>>
  BY DEF PlayLeaves
<1>2. \A n \in Mounts : mounts[n].state = "up" => n = mountSerial
  BY <1>1 DEF SceneInv, Handed
<1>3. CASE mounts[mountSerial].state = "up"
  <2>1. Dispose(mountSerial) /\ mountSerial \in Mounts \cup {None}
    BY <1>0, <1>3 DEF PlayLeaves, Shape
  <2>2. page' \in Pages \cup {"elsewhere"} /\ demo' \in DemoRecord
    BY <1>0, <1>1 DEF Shape
  <2>3. /\ Shape' /\ Spent' /\ Generations' /\ Builds' /\ Shown' /\ Owned'
        /\ \A n \in Mounts :
              /\ mounts'[n].page = mounts[n].page
              /\ mounts'[n].awaited = mounts[n].awaited
              /\ mounts'[n].state = "up" => n # mountSerial /\ mounts[n].state = "up"
    BY <1>1, <2>1, <2>2, DisposingKeeps
  <2>4. Handed'
    BY <1>2, <2>3 DEF Handed
  <2>5. Demos'
    BY <1>1, <2>3 DEF SceneInv, Demos
  <2> QED  BY <2>3, <2>4, <2>5 DEF SceneInv
<1>4. CASE mounts[mountSerial].state # "up"
  <2>1. UNCHANGED <<mounts, scenes, global, shows>>
    BY <1>4 DEF PlayLeaves
  <2>2. Shape'
    BY <1>0, <1>1, <2>1 DEF Shape
  <2>3. Handed'
    BY <1>2, <1>4, <2>1 DEF Handed
  <2>4. Demos'
    BY <1>1, <2>1 DEF SceneInv, Demos
  <2> QED
    BY <1>1, <2>1, <2>2, <2>3, <2>4
    DEF SceneInv, Spent, Generations, Builds, Shown, Owned, Live
<1> QED  BY <1>3, <1>4

LEMMA LandingLeavesKeeps == SceneInv /\ LandingLeaves => SceneInv'
<1> SUFFICES ASSUME SceneInv, LandingLeaves PROVE SceneInv'
  OBVIOUS
<1>0. Shape
  BY DEF SceneInv
<1>1. /\ page = "landing" /\ page' = "elsewhere" /\ Dispose(demo.handle)
      /\ demo' = [NoDemo EXCEPT !.gen = demo.gen + 1]
      /\ UNCHANGED <<building, webglGivenUp, mountSerial, visits, fails>>
  BY DEF LandingLeaves
<1>2. /\ demo' \in DemoRecord /\ demo'.gen = demo.gen + 1 /\ demo'.due = 0
      /\ demo.gen \in Nat /\ demo.handle \in Mounts \cup {None}
  <2>1. NoDemo \in DemoRecord /\ NoDemo.due = 0
    <3>1. 0 \in Nat /\ 1 \in Nat /\ 0 \in 0..Limit /\ FALSE \in BOOLEAN
      BY SceneLimit
    <3> QED  BY <3>1 DEF NoDemo, DemoRecord, None
  <2>2. demo \in DemoRecord /\ demo.gen + 1 \in Nat
    BY <1>0 DEF Shape, DemoRecord
  <2> QED  BY <1>1, <2>1, <2>2 DEF DemoRecord
<1>3. \A n \in Mounts : mounts[n].state = "up" => n = demo.handle
  BY <1>1 DEF SceneInv, Handed
<1>4. /\ Shape' /\ Spent' /\ Generations' /\ Builds' /\ Shown' /\ Owned'
      /\ \A n \in Mounts :
            /\ mounts'[n].page = mounts[n].page
            /\ mounts'[n].awaited = mounts[n].awaited
            /\ mounts'[n].state = "up" => n # demo.handle /\ mounts[n].state = "up"
  BY <1>1, <1>2, DisposingKeeps
<1>5. Handed'
  BY <1>3, <1>4 DEF Handed
<1>6. Demos'
  <2>1. \A n \in Mounts : mounts'[n].awaited <= demo'.gen
    <3> SUFFICES ASSUME NEW n \in Mounts PROVE mounts'[n].awaited <= demo'.gen
      OBVIOUS
    <3>1. mounts[n].awaited \in Nat /\ mounts[n].awaited <= demo.gen
      BY <1>0 DEF SceneInv, Demos, Shape, MountRecord
    <3> QED  BY <1>2, <1>4, <3>1
  <2> QED  BY <1>2, <1>4, <2>1 DEF SceneInv, Demos
<1> QED  BY <1>4, <1>5, <1>6 DEF SceneInv

-----------------------------------------------------------------------------
LEMMA InitScene == SceneInit => SceneInv
<1> SUFFICES ASSUME SceneInit PROVE SceneInv
  OBVIOUS
<1>1. Unmounted \in MountRecord
  <2>1. "none" \in States /\ "play" \in Pages /\ "webgl" \in Modes /\ 0 \in Nat /\ FALSE \in BOOLEAN
    BY DEF States, Pages, Modes
  <2> QED  BY <2>1, Zenon DEF MountRecord, Unmounted
<1>2. NoDemo \in DemoRecord /\ NoDemo.due = 0 /\ NoDemo.gen = 0
  <2>1. 0 \in Nat /\ 1 \in Nat /\ 0 \in 0..Limit /\ FALSE \in BOOLEAN
    BY SceneLimit
  <2> QED  BY <2>1 DEF NoDemo, DemoRecord, None
<1>3. mounts \in [Mounts -> MountRecord] /\ \A n \in Mounts : mounts[n] = Unmounted
  BY <1>1 DEF SceneInit
<1>4. Shape
  <2>1. 0 \in 0..MaxVisits /\ 0 \in 0..MaxFails
    BY SceneBounds
  <2>2. webglGivenUp \in BOOLEAN
    BY Zenon DEF SceneInit
  <2> QED  BY <1>2, <1>3, <2>1, <2>2 DEF SceneInit, Shape
<1>5. /\ Unmounted.page = "play" /\ Unmounted.state = "none" /\ Unmounted.mode = "webgl"
      /\ Unmounted.gen = 0 /\ Unmounted.history = 0 /\ Unmounted.current = 0
      /\ Unmounted.retry = FALSE /\ Unmounted.awaited = 0
  BY DEF Unmounted
<1>6. Spent /\ Generations
  BY <1>3, <1>5, SceneLimit DEF SceneInit, Spent, Generations
<1>7. Builds /\ Shown
  BY DEF SceneInit, Builds, Shown
<1>8. Handed /\ Demos
  BY <1>2, <1>3, <1>5 DEF SceneInit, Handed, Demos
<1>9. Owned
  BY DEF SceneInit, Owned, Live
<1> QED  BY <1>4, <1>6, <1>7, <1>8, <1>9 DEF SceneInv

LEMMA StepScene == SceneInv /\ [SceneNext]_sceneVars => SceneInv'
<1> SUFFICES ASSUME SceneInv, [SceneNext]_sceneVars PROVE SceneInv'
  OBVIOUS
<1>1. CASE UNCHANGED sceneVars
  BY <1>1
  DEF sceneVars, SceneInv, Shape, Spent, Generations, Builds, Shown, Handed, Demos, Owned, Live
<1> QED
  BY <1>1, PlayMountsKeeps, PlayLeavesKeeps, LandingMountsKeeps, LandingLeavesKeeps,
     ReplayKeeps, BuildSucceedsKeeps, BuildFailsKeeps, SceneFailsKeeps, FailureExpiresKeeps,
     RetryKeeps, DemoRestartsKeeps, HandOverKeeps, DemoStopsKeeps
  DEF SceneNext

LEMMA SceneAlways == SceneSpec => []SceneInv
BY InitScene, StepScene, PTL DEF SceneSpec

-----------------------------------------------------------------------------
(* What it promises *)

\* Two scenes of one mount are one: its generation and its renderer say which.
LEMMA OneSceneOfAMount ==
  ASSUME SceneInv, NEW s \in scenes, NEW r \in scenes, s[1] = r[1]
  PROVE  s = r
<1>1. s[2] = r[2] /\ s[3] = r[3]
  BY DEF SceneInv, Shown
<1>2. s = <<s[1], s[2], s[3]>> /\ r = <<r[1], r[2], r[3]>>
  BY DEF SceneInv, Shape
<1> QED  BY <1>1, <1>2

\* Two mounts that are up are one: the page that is open has it.
LEMMA OneMountIsUp ==
  ASSUME SceneInv, NEW m \in Mounts, NEW n \in Mounts,
         mounts[m].state = "up", mounts[n].state = "up"
  PROVE  m = n
<1>1. page = "play" => m = mountSerial /\ n = mountSerial
  BY DEF SceneInv, Handed
<1>2. page # "play" => m = demo.handle /\ n = demo.handle
  BY DEF SceneInv, Handed
<1> QED  BY <1>1, <1>2

\* For any limit of failures and any number of visits: a scene that exists is
\* the one its mount has, its mount is still wanted, and one picture at most is
\* on the page, whatever builds come late, fail, or end in another order.
THEOREM OnePicture == SceneSpec => []NoSceneIsNobodys
<1>1. SceneInv => NoSceneIsNobodys
  <2> SUFFICES ASSUME SceneInv PROVE NoSceneIsNobodys
    OBVIOUS
  <2>1. \A s \in scenes : s[1] \in Mounts /\ s[1] # None
    BY MountsAreNumbers DEF SceneInv, Shape
  <2>2. \A s \in scenes : Live(s[1]) /\ mounts[s[1]].current = s[2]
    BY <2>1 DEF SceneInv, Shown, Live
  <2>3. ASSUME Quiet PROVE Cardinality(scenes) <= 1
    <3>1. ASSUME NEW s \in scenes, NEW r \in scenes PROVE s = r
      <4>1. mounts[s[1]].state = "up" /\ mounts[r[1]].state = "up"
        BY <2>1, <2>3 DEF Quiet, SceneInv, Shown
      <4> QED  BY <2>1, <4>1, OneMountIsUp, OneSceneOfAMount
    <3>2. CASE scenes = {}
      BY <3>2, FS_EmptySet
    <3>3. CASE scenes # {}
      <4>1. PICK s \in scenes : scenes = {s}
        BY <3>1, <3>3
      <4>2. Cardinality({s}) = 1
        BY FS_Singleton
      <4> QED  BY <4>1, <4>2
    <3> QED  BY <3>2, <3>3
  <2> QED  BY <2>2, <2>3 DEF NoSceneIsNobodys
<1> QED  BY <1>1, SceneAlways, PTL

\* The last mount, when it is a run's, has the store for as long as it lives:
\* a mount that settles or is disposed of after it never takes it back.
THEOREM TheRunKeepsItsStore == SceneSpec => []RunKeepsItsStore
<1>1. SceneInv => RunKeepsItsStore
  BY DEF SceneInv, Owned, RunKeepsItsStore
<1> QED  BY <1>1, SceneAlways, PTL

\* Every variable keeps its type: a mount has no more generations than failures,
\* rebuilds and one disposal give it.
THEOREM SceneTypes == SceneSpec => []SceneTypeOK
<1>1. SceneInv => SceneTypeOK
  <2> SUFFICES ASSUME SceneInv PROVE SceneTypeOK
    OBVIOUS
  <2>0. Shape /\ fails \in Nat /\ MaxFails \in Nat /\ fails <= MaxFails
    BY SceneBounds DEF SceneInv, Shape
  <2>1. ASSUME NEW m \in Mounts
        PROVE  /\ mounts[m].gen \in Gens
               /\ mounts[m].current \in Gens
               /\ mounts[m].history \in 0..Limit
    <3>1. mounts[m] \in MountRecord
      BY <2>0 DEF Shape
    <3>2. mounts[m].gen <= 2 * fails + 2 /\ mounts[m].current <= mounts[m].gen
          /\ mounts[m].history < Limit
      BY <2>0, <3>1 DEF SceneInv, Generations, MountRecord
    <3> QED  BY <2>0, <3>1, <3>2, SceneLimit DEF MountRecord, Gens
  <2>2. mounts \in [Mounts -> [page : Pages, mode : Modes, gen : Gens, current : Gens,
                               state : {"none", "starting", "handing", "up", "disposed"},
                               history : 0..Limit, retry : BOOLEAN, awaited : Nat]]
    <3> SUFFICES ASSUME NEW m \in Mounts
                 PROVE  mounts[m] \in [page : Pages, mode : Modes, gen : Gens, current : Gens,
                               state : {"none", "starting", "handing", "up", "disposed"},
                               history : 0..Limit, retry : BOOLEAN, awaited : Nat]
      BY <2>0 DEF Shape
    <3>1. mounts[m] \in MountRecord
      BY <2>0 DEF Shape
    <3> QED  BY <2>1, <3>1 DEF MountRecord, States
  <2>3. building \subseteq Mounts \X Gens \X Modes
    <3> SUFFICES ASSUME NEW b \in building PROVE b \in Mounts \X Gens \X Modes
      OBVIOUS
    <3>1. b = <<b[1], b[2], b[3]>> /\ b[1] \in Mounts /\ b[2] \in Nat /\ b[3] \in Modes
      BY <2>0 DEF Shape
    <3>2. b[2] <= mounts[b[1]].gen /\ mounts[b[1]].gen \in Gens
      BY <2>1, <3>1 DEF SceneInv, Builds
    <3>3. b[2] \in Gens
      BY <2>0, <3>1, <3>2 DEF Gens
    <3> QED  BY <3>1, <3>3
  <2>4. scenes \subseteq Mounts \X Gens \X Modes
    <3> SUFFICES ASSUME NEW s \in scenes PROVE s \in Mounts \X Gens \X Modes
      OBVIOUS
    <3>1. s = <<s[1], s[2], s[3]>> /\ s[1] \in Mounts /\ s[3] \in Modes
      BY <2>0 DEF Shape
    <3>2. s[2] = mounts[s[1]].gen
      BY DEF SceneInv, Shown
    <3> QED  BY <2>1, <3>1, <3>2
  <2> QED  BY <2>0, <2>2, <2>3, <2>4 DEF SceneTypeOK, Shape, DemoRecord
<1> QED  BY <1>1, SceneAlways, PTL

-----------------------------------------------------------------------------
(*                                 THE STORY                               *)

-----------------------------------------------------------------------------
(* The inductive invariant *)

IsHeld(h) == h = NoHeld \/ h \in [batch : Nat, value : Int, applied : Nat]

Flights == [batch : Nat, figure : Nat, value : Nat, landed : Nat, dialog : BOOLEAN]

Types ==
  /\ batch \in 0..MaxBatches /\ live \in Nat /\ serial \in Nat
  /\ queue \in Seq(Effects)
  /\ pending \in BOOLEAN /\ animated \in BOOLEAN /\ scene \in {"webgl", "canvas", "none"}
  /\ 0 \notin watch
  /\ IsHeld(held) /\ flights \subseteq Flights

\* A scene that is lost plays nothing, and only a WebGL scene animates.
SceneIsKnown ==
  /\ animated <=> scene = "webgl"
  /\ ~Up => queue = <<>>

\* Batches are queued in order; the last effect is the one that says the last
\* batch is done, and no other is.
QueueEndsIn(q, s) ==
  \A i \in 1..Len(q) :
    /\ q[i].of <= s
    /\ q[i].kind = "done" /\ q[i].of = s <=> i = Len(q)
QueueEnds == QueueEndsIn(queue, serial)

\* What is queued is the story being waited for, or was cut short.
Awaited == IF pending THEN {serial} ELSE {}
QueueIsAwaited ==
  Still \/ \A i \in 1..Len(queue) :
             queue[i].kind # "done" => queue[i].of \in skipped \cup Awaited

\* When nobody waits, the graph is there.
GraphIsThere ==
  Up /\ ~pending => nodes \subseteq shown /\ (queue = <<>> => shown = nodes)

StoryInv ==
  /\ Types /\ SceneIsKnown /\ WaitIsOfThisStory
  /\ QueueEnds /\ QueueIsAwaited /\ GraphIsThere

-----------------------------------------------------------------------------
(* The gauge and the queue *)

LEMMA Bounds == MaxBatches \in Nat /\ Figures \subseteq Nat
BY StoryBounds

\* A figure that lands moves the value held for its batch, or lets it go.
LEMMA ReleasedIsHeld ==
  ASSUME NEW h, IsHeld(h), NEW b, NEW figure \in Nat, NEW value \in Nat,
         NEW r, r = Released(h, b, figure, value)
  PROVE  IsHeld(r) /\ (r # NoHeld => h # NoHeld /\ r.batch = h.batch)
<1>1. r \in {h, NoHeld} \/ (h # NoHeld /\ r = [h EXCEPT !.value = value, !.applied = figure])
  BY DEF Released
<1>2. ASSUME h \in [batch : Nat, value : Int, applied : Nat]
      PROVE  LET m == [h EXCEPT !.value = value, !.applied = figure]
             IN m \in [batch : Nat, value : Int, applied : Nat] /\ m.batch = h.batch
  <2>1. value \in Int
    OBVIOUS
  <2> QED  BY <1>2, <2>1
<1> QED  BY <1>1, <1>2 DEF IsHeld

LEMMA SteppedIsHeld ==
  ASSUME NEW h, IsHeld(h), NEW f \in Flights, NEW r, r = Stepped(h, f)
  PROVE  IsHeld(r) /\ (r # NoHeld => h # NoHeld /\ r.batch = h.batch)
<1>0. f.figure \in Nat /\ f.value \in Nat /\ f.landed \in Nat
  BY DEF Flights
<1>1. CASE f.landed + 1 = Balls
  BY <1>0, <1>1, ReleasedIsHeld DEF Stepped
<1>2. CASE f.landed + 1 # Balls
  <2>1. r = h \/ (h # NoHeld /\ r = [h EXCEPT !.value = f.value - Balls + f.landed + 1])
    BY <1>2 DEF Stepped
  <2>2. f.value - Balls + f.landed + 1 \in Int
    BY <1>0 DEF Balls
  <2> QED  BY <2>1, <2>2 DEF IsHeld
<1> QED  BY <1>1, <1>2

LEMMA NewEffects ==
  ASSUME Types, batch < MaxBatches
  PROVE  \A b \in Batches, s \in Nat : LET x == Reveals(b, s) \o Pops(b, s) IN
           /\ x \in Seq(Effects)
           /\ \A i \in 1..Len(x) : x[i].of = s /\ x[i].kind # "done"
<1> TAKE b \in Batches, s \in Nat
<1> DEFINE x == Reveals(b, s) \o Pops(b, s)
<1> SUFFICES /\ x \in Seq(Effects)
             /\ \A i \in 1..Len(x) : x[i].of = s /\ x[i].kind # "done"
  OBVIOUS
<1> HIDE DEF x
<1> DEFINE R == Reveals(b, s)
           P == Pops(b, s)
<1>0. b.figures \in Nat /\ batch + 1 \in Commits /\ batch + 1 \in Nat
  <2>1. b.figures \in Figures
    BY DEF Batches
  <2>2. batch \in 0..MaxBatches
    BY DEF Types
  <2>3. batch + 1 \in 0..MaxBatches /\ batch + 1 \in Nat
    BY <2>2, Bounds
  <2> QED  BY <2>1, <2>3, Bounds DEF Commits
<1>1. R \in Seq(Effects) /\ \A i \in 1..Len(R) : R[i].of = s /\ R[i].kind # "done"
  <2>1. [kind |-> "reveal", of |-> s, node |-> batch + 1] \in Effects
    BY <1>0 DEF Effects
  <2> QED  BY <2>1 DEF Reveals
<1>2. P \in Seq(Effects) /\ \A i \in 1..Len(P) : P[i].of = s /\ P[i].kind # "done"
  <2>1. ASSUME NEW i \in 1..b.figures
        PROVE  [kind |-> "pop", of |-> s, batch |-> batch + 1, figure |-> i,
                value |-> live + Balls * i] \in Effects
    <3>1. live + Balls * i \in Nat
      BY <1>0 DEF Types, Balls
    <3> QED  BY <1>0, <3>1 DEF Effects
  <2> QED  BY <1>0, <2>1 DEF Pops
<1> HIDE DEF R, P
<1>3. x = R \o P
  BY DEF R, P, x
<1>4. ASSUME NEW i \in 1..Len(x)
      PROVE  (i \in 1..Len(R) /\ x[i] = R[i]) \/ (i - Len(R) \in 1..Len(P) /\ x[i] = P[i - Len(R)])
  <2>1. Len(x) = Len(R) + Len(P) /\ x[i] = IF i <= Len(R) THEN R[i] ELSE P[i - Len(R)]
    BY <1>1, <1>2, <1>3, ConcatProperties
  <2>2. Len(R) \in Nat /\ Len(P) \in Nat /\ Len(x) \in Nat
    BY <1>1, <1>2, <1>3
  <2> QED  BY <2>1, <2>2
<1> QED  BY <1>1, <1>2, <1>3, <1>4

LEMMA QueueGrows ==
  \A q \in Seq(Effects), s \in Nat, x \in Seq(Effects) :
    QueueEndsIn(q, s) /\ (\A i \in 1..Len(x) : x[i].of = s + 1 /\ x[i].kind # "done") =>
      LET r == q \o x \o Done(s + 1) IN
      /\ r \in Seq(Effects) /\ r # <<>>
      /\ QueueEndsIn(r, s + 1)
      /\ \A i \in 1..Len(r) :
           \/ r[i].of = s + 1 /\ (x = <<>> => r[i].kind = "done")
           \/ i \in 1..Len(q) /\ r[i] = q[i]
<1> SUFFICES ASSUME NEW q \in Seq(Effects), NEW s \in Nat, NEW x \in Seq(Effects),
                    QueueEndsIn(q, s),
                    \A i \in 1..Len(x) : x[i].of = s + 1 /\ x[i].kind # "done"
             PROVE  LET r == q \o x \o Done(s + 1) IN
                    /\ r \in Seq(Effects) /\ r # <<>>
                    /\ QueueEndsIn(r, s + 1)
                    /\ \A i \in 1..Len(r) :
                         \/ r[i].of = s + 1 /\ (x = <<>> => r[i].kind = "done")
                         \/ i \in 1..Len(q) /\ r[i] = q[i]
  OBVIOUS
<1> DEFINE r == q \o x \o Done(s + 1)
<1> HIDE DEF r
<1> DEFINE d == [kind |-> "done", of |-> s + 1]
           y == q \o x
<1>1. d \in Effects /\ d.kind = "done" /\ d.of = s + 1
  BY DEF Effects
<1>2. r = Append(y, d)
  BY DEF Done, r
<1> HIDE DEF d
<1>3. /\ y \in Seq(Effects) /\ Len(y) = Len(q) + Len(x)
      /\ \A i \in 1..Len(y) : y[i] = IF i <= Len(q) THEN q[i] ELSE x[i - Len(q)]
  OBVIOUS
<1> HIDE DEF y
<1>4. /\ r \in Seq(Effects) /\ Len(r) = Len(y) + 1
      /\ \A i \in 1..Len(r) : r[i] = IF i <= Len(y) THEN y[i] ELSE d
  <2>1. /\ Append(y, d) \in Seq(Effects) /\ Len(Append(y, d)) = Len(y) + 1
        /\ \A i \in 1..Len(y) : Append(y, d)[i] = y[i]
        /\ Append(y, d)[Len(y) + 1] = d
    <3>1. y \in Seq(Effects) /\ d \in Effects
      BY <1>1, <1>3
    <3> QED  BY <3>1, AppendProperties, ZenonT(30)
  <2>2. Len(y) \in Nat
    BY <1>3
  <2>3. ASSUME NEW i \in 1..Len(r)
        PROVE  r[i] = IF i <= Len(y) THEN y[i] ELSE d
    <3>1. i \in 1..(Len(y) + 1)
      BY <1>2, <2>1
    <3>2. CASE i <= Len(y)
      <4>1. i \in 1..Len(y)
        BY <2>2, <3>1, <3>2
      <4> QED  BY <1>2, <2>1, <3>2, <4>1
    <3>3. CASE i = Len(y) + 1
      <4>1. ~(i <= Len(y))
        BY <2>2, <3>3
      <4> QED  BY <1>2, <2>1, <3>3, <4>1
    <3> QED  BY <2>2, <3>1, <3>2, <3>3
  <2> QED  BY <1>2, <2>1, <2>3
<1>5. ASSUME NEW i \in 1..Len(r)
      PROVE  /\ r[i].of <= s + 1
             /\ r[i].kind = "done" /\ r[i].of = s + 1 <=> i = Len(r)
             /\ \/ r[i].of = s + 1 /\ (x = <<>> => r[i].kind = "done")
                \/ i \in 1..Len(q) /\ r[i] = q[i]
  <2>1. CASE i <= Len(q)
    <3>1. r[i] = q[i] /\ i # Len(r) /\ i \in 1..Len(q)
      BY <1>3, <1>4, <2>1
    <3>2. q[i].of <= s /\ q[i].of \in Nat
      BY <3>1 DEF QueueEndsIn, Effects
    <3> QED  BY <3>1, <3>2
  <2>2. CASE i > Len(q) /\ i <= Len(y)
    <3>1. r[i] = x[i - Len(q)] /\ i - Len(q) \in 1..Len(x) /\ i # Len(r)
      BY <1>3, <1>4, <2>2
    <3>2. x # <<>>
      BY <3>1
    <3> QED  BY <3>1, <3>2
  <2>3. CASE i > Len(y)
    <3>1. r[i] = d /\ i = Len(r)
      BY <1>3, <1>4, <2>3
    <3> QED  BY <1>1, <3>1
  <2> QED  BY <1>3, <2>1, <2>2, <2>3
<1>6. r # <<>>
  BY <1>3, <1>4
<1> SUFFICES /\ r \in Seq(Effects) /\ r # <<>>
             /\ QueueEndsIn(r, s + 1)
             /\ \A i \in 1..Len(r) :
                  \/ r[i].of = s + 1 /\ (x = <<>> => r[i].kind = "done")
                  \/ i \in 1..Len(q) /\ r[i] = q[i]
  BY DEF r
<1> QED  BY <1>4, <1>5, <1>6 DEF QueueEndsIn

LEMMA QueueShrinks ==
  \A q \in Seq(Effects), s \in Nat : QueueEndsIn(q, s) /\ q # <<>> =>
    /\ Tail(q) \in Seq(Effects) /\ Head(q) \in Effects
    /\ QueueEndsIn(Tail(q), s)
    /\ \A i \in 1..Len(Tail(q)) : i + 1 \in 1..Len(q) /\ Tail(q)[i] = q[i + 1]
    /\ Head(q).kind = "done" /\ Head(q).of = s <=> Tail(q) = <<>>
<1> SUFFICES ASSUME NEW q \in Seq(Effects), NEW s \in Nat, QueueEndsIn(q, s), q # <<>>,
                    NEW e, e = Head(q), NEW r, r = Tail(q)
             PROVE  /\ r \in Seq(Effects) /\ e \in Effects
                    /\ QueueEndsIn(r, s)
                    /\ \A i \in 1..Len(r) : i + 1 \in 1..Len(q) /\ r[i] = q[i + 1]
                    /\ e.kind = "done" /\ e.of = s <=> r = <<>>
  OBVIOUS
<1>1. /\ r \in Seq(Effects) /\ Len(r) = Len(q) - 1 /\ Len(q) \in Nat \ {0}
      /\ \A i \in 1..Len(r) : i + 1 \in 1..Len(q) /\ r[i] = q[i + 1]
      /\ e = q[1] /\ e \in Effects
  OBVIOUS
<1>2. ASSUME NEW i \in 1..Len(r)
      PROVE  r[i].of <= s /\ (r[i].kind = "done" /\ r[i].of = s <=> i = Len(r))
  <2>1. i + 1 \in 1..Len(q) /\ r[i] = q[i + 1]
    BY <1>1
  <2>2. q[i + 1].of <= s /\ (q[i + 1].kind = "done" /\ q[i + 1].of = s <=> i + 1 = Len(q))
    BY <2>1 DEF QueueEndsIn
  <2>3. i + 1 = Len(q) <=> i = Len(r)
    <3>1. Len(r) = Len(q) - 1 /\ Len(q) \in Nat \ {0}
      BY <1>1
    <3> QED  BY <3>1
  <2> QED  BY <2>1, <2>2, <2>3
<1>3. e.kind = "done" /\ e.of = s <=> Len(q) = 1
  <2>1. 1 \in 1..Len(q)
    BY <1>1
  <2>2. q[1].kind = "done" /\ q[1].of = s <=> 1 = Len(q)
    BY <2>1 DEF QueueEndsIn
  <2> QED  BY <1>1, <2>2
<1>4. r = <<>> <=> Len(q) = 1
  BY <1>1
<1>5. QueueEndsIn(r, s)
  BY <1>2 DEF QueueEndsIn
<1> QED  BY <1>1, <1>3, <1>4, <1>5

-----------------------------------------------------------------------------
(* The steps *)

\* The player cut the story short, or the page did: skip().
LEMMA CutKeeps ==
  ASSUME StoryInv, Cut, UNCHANGED <<session, animated, scene, queue, serial>>,
         watch' \subseteq watch
  PROVE  StoryInv'
<1> USE DEF session
<1>1. Types'
  BY DEF StoryInv, Types, Cut, CutShort, Flying, IsHeld
<1>2. SceneIsKnown' /\ WaitIsOfThisStory'
  BY DEF StoryInv, SceneIsKnown, Up, Cut, CutShort, WaitIsOfThisStory, WaitIsBacked, HeldIsOfThisStory
<1>3. QueueEnds'
  BY DEF StoryInv, QueueEnds, QueueEndsIn
<1>4. QueueIsAwaited'
  <2>1. pending => serial # 0
    BY DEF StoryInv, Types, WaitIsOfThisStory, WaitIsBacked
  <2>2. skipped \cup Awaited \subseteq skipped'
    BY <2>1 DEF Cut, CutShort, Awaited
  <2> QED  BY <2>2 DEF StoryInv, QueueIsAwaited, Still
<1>5. GraphIsThere'
  BY DEF Cut, CutShort, GraphIsThere
<1> QED  BY <1>1, <1>2, <1>3, <1>4, <1>5 DEF StoryInv

LEMMA SkipKeeps == ASSUME StoryInv, Skip PROVE StoryInv'
BY CutKeeps DEF Skip

\* What touches neither the story nor the wait for it keeps them.
LEMMA AsideKeeps ==
  ASSUME StoryInv, UNCHANGED <<session, animated, pending, scene, shown, queue, serial, skipped>>,
         watch' \subseteq watch, pending => serial \in watch',
         IsHeld(held'), flights' \subseteq Flights,
         held' # NoHeld => held # NoHeld /\ held'.batch = held.batch
  PROVE  StoryInv'
<1> USE DEF session
<1>1. Types'
  BY DEF StoryInv, Types, IsHeld
<1>2. SceneIsKnown' /\ WaitIsOfThisStory'
  BY DEF StoryInv, SceneIsKnown, Up, WaitIsOfThisStory, WaitIsBacked, HeldIsOfThisStory
<1>3. QueueEnds'
  BY DEF StoryInv, QueueEnds, QueueEndsIn
<1>4. QueueIsAwaited' /\ GraphIsThere'
  BY DEF StoryInv, QueueIsAwaited, Awaited, Still, GraphIsThere, Up
<1> QED  BY <1>1, <1>2, <1>3, <1>4 DEF StoryInv

LEMMA WatchdogKeeps == ASSUME StoryInv, NEW s \in watch, WatchdogFires(s) PROVE StoryInv'
<1>1. CASE s = serial /\ pending
  BY <1>1, CutKeeps DEF WatchdogFires
<1>2. CASE ~(s = serial /\ pending)
  <2>1. /\ watch' = watch \ {s}
        /\ UNCHANGED <<session, animated, pending, scene, shown, queue, serial, skipped, held, flights>>
    BY <1>2 DEF WatchdogFires, store
  <2>2. pending => serial \in watch'
    BY <1>2, <2>1 DEF StoryInv, WaitIsOfThisStory, WaitIsBacked
  <2>3. IsHeld(held') /\ flights' \subseteq Flights
    BY <2>1 DEF StoryInv, Types
  <2> QED  BY <2>1, <2>2, <2>3, AsideKeeps
<1> QED  BY <1>1, <1>2

LEMMA LandKeeps == ASSUME StoryInv, NEW f \in flights, BallLands(f) PROVE StoryInv'
<1>1. f \in Flights /\ flights \subseteq Flights /\ IsHeld(held)
  BY DEF StoryInv, Types
<1>2. IsHeld(held') /\ (held' # NoHeld => held # NoHeld /\ held'.batch = held.batch)
  BY <1>1, SteppedIsHeld DEF BallLands
<1>3. flights' \subseteq Flights
  <2>1. [f EXCEPT !.landed = @ + 1] \in Flights
    BY <1>1 DEF Flights
  <2> QED  BY <1>1, <2>1 DEF BallLands, Flying
<1>4. UNCHANGED <<session, animated, pending, scene, shown, queue, serial, skipped, watch>>
  BY DEF BallLands, fx
<1> QED  BY <1>2, <1>3, <1>4, AsideKeeps DEF StoryInv, WaitIsOfThisStory, WaitIsBacked

LEMMA HideKeeps == ASSUME StoryInv, Hide PROVE StoryInv'
<1>1. CASE Up /\ pending
  BY <1>1, CutKeeps DEF Hide
<1>2. CASE ~(Up /\ pending)
  BY <1>2, AsideKeeps DEF Hide, store, StoryInv, Types, WaitIsOfThisStory, WaitIsBacked
<1> QED  BY <1>1, <1>2

LEMMA PageKeeps == ASSUME StoryInv, ShowTab \/ OpenModal \/ CloseModal PROVE StoryInv'
BY AsideKeeps DEF ShowTab, OpenModal, CloseModal, store, fx, StoryInv, Types, WaitIsOfThisStory,
   WaitIsBacked

LEMMA LostKeeps == ASSUME StoryInv, SceneLost PROVE StoryInv'
<1> USE DEF session, SceneLost, Unwait
<1>1. Types'
  <2>1. flights' \subseteq Flights
    BY DEF StoryInv, Types, Flying
  <2>2. /\ queue' = <<>> /\ <<>> \in Seq(Effects) /\ watch' = {} /\ serial' = 0
        /\ pending' = FALSE /\ animated' = FALSE /\ scene' = "none" /\ held' = NoHeld
        /\ UNCHANGED <<batch, live>>
    OBVIOUS
  <2>3. batch \in 0..MaxBatches /\ live \in Nat
    BY DEF StoryInv, Types
  <2> HIDE DEF SceneLost
  <2> QED  BY <2>1, <2>2, <2>3 DEF Types, IsHeld
<1>2. SceneIsKnown' /\ WaitIsOfThisStory' /\ GraphIsThere'
  BY DEF SceneIsKnown, Up, WaitIsOfThisStory, WaitIsBacked, HeldIsOfThisStory, GraphIsThere
<1>3. QueueEnds' /\ QueueIsAwaited'
  BY DEF QueueEnds, QueueEndsIn, QueueIsAwaited
<1> QED  BY <1>1, <1>2, <1>3 DEF StoryInv

LEMMA BuiltKeeps == ASSUME StoryInv, SceneBuilt PROVE StoryInv'
<1> USE DEF session, SceneBuilt, Unwait, store
<1>1. queue = <<>> /\ ~pending /\ held = NoHeld
  BY DEF StoryInv, SceneIsKnown, Up, WaitIsOfThisStory, WaitIsBacked, HeldIsOfThisStory
<1>2. UNCHANGED <<queue, serial, watch>> /\ pending' = FALSE /\ held' = NoHeld
  BY <1>1 DEF StoryInv, Types
<1>3. Types'
  <2>1. flights' \subseteq Flights
    BY <1>1, <1>2 DEF StoryInv, Types, Flying
  <2>2. animated' \in BOOLEAN
    OBVIOUS
  <2> QED  BY <1>1, <1>2, <2>1, <2>2 DEF StoryInv, Types, IsHeld
<1>4. SceneIsKnown' /\ WaitIsOfThisStory' /\ GraphIsThere'
  BY <1>1, <1>2
     DEF SceneIsKnown, Up, WaitIsOfThisStory, WaitIsBacked, HeldIsOfThisStory, GraphIsThere
<1>5. QueueEnds' /\ QueueIsAwaited'
  BY <1>1, <1>2 DEF QueueEnds, QueueEndsIn, QueueIsAwaited
<1> QED  BY <1>3, <1>4, <1>5 DEF StoryInv

\* One effect is played: of the last batch only its end lets go.
LEMMA FrameKeeps == ASSUME StoryInv, Frame PROVE StoryInv'
<1> DEFINE e == Head(queue)
<1>1. /\ queue # <<>> /\ Up /\ queue' = Tail(queue)
      /\ PlayReveal(e) \/ PlayPop(e) \/ PlayDone(e)
      /\ UNCHANGED <<session, animated, scene, serial, skipped>>
  BY DEF Frame
<1>2. /\ queue' \in Seq(Effects) /\ e \in Effects
      /\ QueueEndsIn(queue', serial)
      /\ \A i \in 1..Len(queue') : i + 1 \in 1..Len(queue) /\ queue'[i] = queue[i + 1]
      /\ e.kind = "done" /\ e.of = serial <=> queue' = <<>>
  <2>1. queue \in Seq(Effects) /\ serial \in Nat /\ QueueEndsIn(queue, serial)
    BY DEF StoryInv, Types, QueueEnds
  <2>2. queue # <<>> /\ queue' = Tail(queue) /\ e = Head(queue)
    BY <1>1
  <2> HIDE DEF e
  <2> QED  BY <2>1, <2>2, QueueShrinks
<1> HIDE DEF e
<1>3. QueueEnds'
  BY <1>1, <1>2 DEF QueueEnds, QueueEndsIn
<1>4. SceneIsKnown'
  BY <1>1 DEF StoryInv, SceneIsKnown, Up
<1>5. Still \/ \A i \in 1..Len(queue') :
                  queue'[i].kind # "done" => queue'[i].of \in skipped \cup Awaited
  BY <1>2 DEF StoryInv, QueueIsAwaited
<1>6. CASE e.kind = "done" /\ e.of = serial
  <2>1. /\ pending' = FALSE /\ held' = NoHeld /\ shown' = nodes /\ queue' = <<>>
        /\ flights' \in {flights, {}} /\ watch' \subseteq watch
    BY <1>1, <1>2, <1>6 DEF PlayReveal, PlayPop, PlayDone, Ends, Flying
  <2>2. Types'
    BY <1>1, <1>2, <2>1 DEF StoryInv, Types, IsHeld, session
  <2>3. WaitIsOfThisStory' /\ GraphIsThere'
    BY <1>1, <2>1 DEF session, WaitIsOfThisStory, WaitIsBacked, HeldIsOfThisStory, GraphIsThere
  <2>4. QueueIsAwaited'
    <3>1. 1..Len(queue') = {}
      BY <2>1
    <3> QED  BY <3>1 DEF QueueIsAwaited
  <2> QED  BY <1>3, <1>4, <2>2, <2>3, <2>4 DEF StoryInv
<1>7. CASE ~(e.kind = "done" /\ e.of = serial)
  <2>1. /\ pending' = pending /\ queue' # <<>>
        /\ shown \subseteq shown'
        /\ watch' \in {watch, watch \ {e.of}} /\ (serial \in watch => serial \in watch')
    BY <1>1, <1>2, <1>7 DEF PlayReveal, PlayPop, PlayDone, Ends, store
  <2>2. /\ IsHeld(held') /\ flights' \subseteq Flights
        /\ held' # NoHeld => held # NoHeld /\ held'.batch = held.batch
    <3>0. IsHeld(held) /\ flights \subseteq Flights
      BY DEF StoryInv, Types
    <3>1. CASE PlayPop(e) /\ e.of \notin skipped
      <4>1. e.kind = "pop" /\ Announce(e.batch, e.figure, e.value, FALSE)
        BY <3>1 DEF PlayPop
      <4>2. e.batch \in Nat /\ e.figure \in Nat /\ e.value \in Nat
        BY <1>2, <4>1 DEF Effects
      <4> HIDE DEF e
      <4>3. CASE /\ flights' = flights \cup
                      {[batch |-> e.batch, figure |-> e.figure, value |-> e.value,
                        landed |-> 0, dialog |-> FALSE]}
                 /\ UNCHANGED held
        <5>1. [batch |-> e.batch, figure |-> e.figure, value |-> e.value,
               landed |-> 0, dialog |-> FALSE] \in Flights
          BY <4>2 DEF Flights
        <5> QED  BY <3>0, <4>3, <5>1
      <4>4. CASE /\ held' = Released(held, e.batch, e.figure, e.value)
                 /\ flights' = Flying(held, held', flights)
        <5>1. IsHeld(held') /\ (held' # NoHeld => held # NoHeld /\ held'.batch = held.batch)
          BY <3>0, <4>2, <4>4, ReleasedIsHeld
        <5> QED  BY <3>0, <4>4, <5>1 DEF Flying
      <4> QED  BY <4>1, <4>3, <4>4 DEF Announce
    <3>2. CASE ~(PlayPop(e) /\ e.of \notin skipped)
      BY <1>1, <1>7, <3>0, <3>2 DEF PlayReveal, PlayPop, PlayDone, Ends, store
    <3> QED  BY <3>1, <3>2
  <2>3. Types'
    BY <1>1, <1>2, <2>1, <2>2 DEF StoryInv, Types, session
  <2>4. WaitIsOfThisStory'
    BY <1>1, <2>1, <2>2
       DEF StoryInv, session, WaitIsOfThisStory, WaitIsBacked, HeldIsOfThisStory
  <2>5. GraphIsThere'
    BY <1>1, <2>1 DEF StoryInv, session, GraphIsThere, Up
  <2>6. QueueIsAwaited'
    BY <1>1, <1>5, <2>1 DEF session, QueueIsAwaited, Awaited, Still
  <2> QED  BY <1>3, <1>4, <2>3, <2>4, <2>5, <2>6 DEF StoryInv
<1> QED  BY <1>6, <1>7

\* What a batch finds on screen: what has been told, or the story cut short.
Found(now) == now = Told \/ (pending /\ now = CutShort)

LEMMA OnScreen ==
  ASSUME StoryInv, NEW now, Found(now)
  PROVE  /\ now.held \in {held, NoHeld} /\ now.flights \subseteq flights
         /\ skipped \subseteq now.skipped
BY DEF Found, Told, CutShort, Flying

\* What a batch does to the run, and what it may hold.
LEMMA BatchMoves ==
  ASSUME StoryInv, NEW b \in Batches, NEW now, Apply(b, now)
  PROVE  /\ batch + 1 \in 1..MaxBatches /\ batch' = batch + 1 /\ live' \in Nat
         /\ IsHeld(Holding(b))
         /\ Holding(b) # NoHeld => animated /\ b.told /\ Holding(b).batch = batch + 1
         /\ Thrown(b) \subseteq Flights
<1>1. batch + 1 \in 1..MaxBatches /\ batch' = batch + 1 /\ batch + 1 \in Nat /\ live \in Nat
  <2>1. batch \in 0..MaxBatches /\ batch < MaxBatches
    BY DEF Apply, StoryInv, Types
  <2> QED  BY <2>1, Bounds DEF Apply, StoryInv, Types
<1>2. b.figures \in Nat /\ (~b.told => ~b.silent /\ b.figures = 0)
  BY Bounds DEF Batches
<1>3. Moved(b) \in Nat /\ (Moved(b) > 0 => b.told)
  BY <1>2 DEF Moved, Balls
<1>4. live' \in Nat
  BY <1>1, <1>3 DEF Apply
<1>5. /\ IsHeld(Holding(b))
      /\ Holding(b) # NoHeld => animated /\ b.told /\ Holding(b).batch = batch + 1
  <2>1. [batch |-> batch + 1, value |-> live, applied |-> 0]
          \in [batch : Nat, value : Int, applied : Nat]
    BY <1>1
  <2> QED  BY <1>3, <2>1 DEF Holding, IsHeld
<1>6. Thrown(b) \subseteq Flights
  <2>1. ASSUME NEW i \in 1..b.figures
        PROVE  [batch |-> batch + 1, figure |-> i, value |-> live + Balls * i, landed |-> 0,
                dialog |-> TRUE] \in Flights
    <3>1. i \in Nat /\ live + Balls * i \in Nat
      BY <1>1, <1>2 DEF Balls
    <3> QED  BY <1>1, <3>1 DEF Flights
  <2> QED  BY <2>1 DEF Thrown
<1> QED  BY <1>1, <1>4, <1>5, <1>6

\* A story is queued behind the others, alone only once they have been told.
LEMMA EnqueueKeeps ==
  ASSUME StoryInv, NEW b \in Batches, NEW now, Apply(b, now), Up,
         now = IF pending THEN CutShort ELSE Told
  PROVE  StoryInv'
<1> DEFINE x == IF Still THEN <<>> ELSE Reveals(b, serial + 1) \o Pops(b, serial + 1)
<1>0. /\ now.flights \subseteq flights /\ skipped \cup Awaited \subseteq now.skipped
      /\ nodes \subseteq now.shown
  <2>1. CASE pending
    <3>1. serial # 0
      BY <2>1 DEF StoryInv, Types, WaitIsOfThisStory, WaitIsBacked
    <3> QED  BY <2>1, <3>1 DEF CutShort, Flying, Awaited
  <2>2. CASE ~pending
    BY <2>2 DEF Told, Awaited, StoryInv, GraphIsThere
  <2> QED  BY <2>1, <2>2
<1>1. /\ Enqueue(b, nodes', now)
      /\ UNCHANGED <<kind, reduced, animated, scene>>
  BY DEF Apply
<1>2. /\ serial' = serial + 1 /\ watch' = watch \cup {serial + 1}
      /\ queue' = queue \o x \o Done(serial + 1)
      /\ shown' = IF hidden \/ Still THEN nodes' ELSE now.shown
      /\ skipped' = IF hidden THEN now.skipped \cup {serial + 1} ELSE now.skipped
      /\ pending' = (animated /\ b.told /\ ~hidden)
      /\ held' \in {NoHeld, Holding(b)} /\ (hidden => held' = NoHeld)
      /\ flights' \subseteq flights \cup Thrown(b)
  BY <1>0, <1>1 DEF Enqueue, Flying
<1>3. /\ batch \in 0..MaxBatches /\ serial \in Nat /\ queue \in Seq(Effects) /\ batch < MaxBatches
      /\ QueueEndsIn(queue, serial) /\ Types
  BY DEF StoryInv, Types, QueueEnds, Apply
<1>4. x \in Seq(Effects) /\ \A i \in 1..Len(x) : x[i].of = serial + 1 /\ x[i].kind # "done"
  <2>1. CASE Still
    <3>1. x = <<>>
      BY <2>1
    <3> HIDE DEF x
    <3>2. x \in Seq(Effects) /\ 1..Len(x) = {}
      BY <3>1
    <3> QED  BY <3>2
  <2>2. CASE ~Still
    <3>1. x = Reveals(b, serial + 1) \o Pops(b, serial + 1)
      BY <2>2
    <3>2. serial + 1 \in Nat
      BY <1>3
    <3> HIDE DEF x
    <3> QED  BY <1>3, <3>1, <3>2, NewEffects
  <2> QED  BY <2>1, <2>2
<1> HIDE DEF x
<1>5. /\ queue' \in Seq(Effects) /\ queue' # <<>>
      /\ QueueEndsIn(queue', serial + 1)
      /\ \A i \in 1..Len(queue') :
           \/ queue'[i].of = serial + 1 /\ (x = <<>> => queue'[i].kind = "done")
           \/ i \in 1..Len(queue) /\ queue'[i] = queue[i]
  BY <1>2, <1>3, <1>4, QueueGrows
<1>6. Types'
  <2>1. flights' \subseteq Flights /\ IsHeld(held')
    BY <1>2, <1>3, BatchMoves DEF Types, IsHeld
  <2>2. serial' \in Nat /\ 0 \notin watch'
    BY <1>2, <1>3 DEF Types
  <2>3. pending' \in BOOLEAN /\ animated' \in BOOLEAN /\ scene' = scene
    BY <1>1, <1>2, <1>3 DEF Types
  <2> QED  BY <1>3, <1>5, <2>1, <2>2, <2>3, BatchMoves DEF Types
<1>7. SceneIsKnown' /\ QueueEnds'
  BY <1>1, <1>2, <1>5 DEF StoryInv, SceneIsKnown, Up, QueueEnds, QueueEndsIn
<1>8. WaitIsOfThisStory'
  <2>1. held' # NoHeld => pending' /\ held'.batch = batch'
    <3>1. Holding(b) # NoHeld => animated /\ b.told /\ Holding(b).batch = batch'
      BY BatchMoves
    <3> QED  BY <1>2, <3>1
  <2>2. pending' => scene' = "webgl" /\ animated' /\ serial' \in watch'
    BY <1>1, <1>2 DEF StoryInv, SceneIsKnown
  <2> QED  BY <2>1, <2>2 DEF WaitIsOfThisStory, WaitIsBacked, HeldIsOfThisStory
<1>9. pending' \/ hidden \/ Still \/ (x = <<>> /\ nodes' = nodes)
  <2>1. b.told => pending' \/ hidden \/ Still
    BY <1>2 DEF StoryInv, SceneIsKnown, Up, Still, Types
  <2>2. ~b.told => nodes' = nodes /\ Reveals(b, serial + 1) = <<>> /\ Pops(b, serial + 1) = <<>>
    <3> SUFFICES ASSUME ~b.told
                 PROVE  nodes' = nodes /\ Reveals(b, serial + 1) = <<>> /\ Pops(b, serial + 1) = <<>>
      OBVIOUS
    <3>1. ~b.writes /\ ~b.drops /\ b.figures = 0
      BY DEF Batches
    <3>2. nodes' = nodes
      BY <3>1 DEF Apply
    <3>3. Reveals(b, serial + 1) = <<>>
      BY <3>1 DEF Reveals
    <3>4. Pops(b, serial + 1) = <<>>
      BY <3>1 DEF Pops
    <3> QED  BY <3>2, <3>3, <3>4
  <2> QED  BY <2>1, <2>2 DEF x
<1>10. QueueIsAwaited'
  <2> SUFFICES ASSUME ~Still, NEW i \in 1..Len(queue'), queue'[i].kind # "done"
               PROVE  queue'[i].of \in skipped' \cup Awaited'
    BY <1>1 DEF QueueIsAwaited, Still
  <2>1. CASE queue'[i].of = serial + 1 /\ x # <<>>
    <3>1. pending' \/ hidden
      BY <1>9, <2>1
    <3> QED  BY <1>2, <2>1, <3>1 DEF Awaited
  <2>2. CASE i \in 1..Len(queue) /\ queue'[i] = queue[i]
    <3>1. queue[i].of \in skipped \cup Awaited
      BY <2>2 DEF StoryInv, QueueIsAwaited
    <3> QED  BY <1>0, <1>2, <2>2, <3>1
  <2> QED  BY <1>5, <2>1, <2>2
<1>11. GraphIsThere'
  BY <1>0, <1>1, <1>2, <1>5, <1>9 DEF GraphIsThere
<1> QED  BY <1>6, <1>7, <1>8, <1>10, <1>11 DEF StoryInv

\* While no scene plays, nobody waits.
LEMMA UnseenKeeps ==
  ASSUME StoryInv, NEW b \in Batches, NEW now, Apply(b, now), ~Up
  PROVE  StoryInv'
<1>1. animated = FALSE /\ queue = <<>>
  BY DEF StoryInv, SceneIsKnown, Up, Types
<1>2. /\ held' = NoHeld /\ pending' = FALSE /\ flights' \subseteq flights
      /\ UNCHANGED <<kind, reduced, animated, scene, fx>>
  BY <1>1, BatchMoves DEF Apply, Flying
<1>3. Types'
  <2>1. /\ batch' \in 0..MaxBatches /\ live' \in Nat
    BY BatchMoves
  <2> QED  BY <1>2, <2>1 DEF StoryInv, Types, IsHeld, fx
<1>4. SceneIsKnown' /\ WaitIsOfThisStory' /\ GraphIsThere'
  BY <1>2 DEF StoryInv, SceneIsKnown, Up, fx, WaitIsOfThisStory, WaitIsBacked, HeldIsOfThisStory,
              GraphIsThere
<1>5. QueueEnds' /\ QueueIsAwaited'
  BY <1>1, <1>2 DEF StoryInv, QueueEnds, QueueEndsIn, QueueIsAwaited, fx
<1> QED  BY <1>3, <1>4, <1>5 DEF StoryInv

LEMMA DispatchKeeps == ASSUME StoryInv, Dispatch \/ Entry PROVE StoryInv'
<1>1. PICK b \in Batches : Apply(b, IF pending THEN CutShort ELSE Told)
  BY DEF Dispatch, Entry
<1> QED  BY <1>1, EnqueueKeeps, UnseenKeeps

-----------------------------------------------------------------------------
(* The theorems *)

LEMMA InitStory == StoryInit => StoryInv
<1> SUFFICES ASSUME StoryInit PROVE StoryInv
  OBVIOUS
<1>1. Types
  <2>1. /\ batch = 0 /\ live = 0 /\ serial = 0 /\ queue = <<>> /\ pending = FALSE
        /\ animated = TRUE /\ scene = "webgl" /\ watch = {} /\ held = NoHeld /\ flights = {}
    BY DEF StoryInit
  <2>2. 0 \in 0..MaxBatches /\ <<>> \in Seq(Effects)
    BY Bounds
  <2> QED  BY <2>1, <2>2 DEF Types, IsHeld
<1>2. SceneIsKnown /\ WaitIsOfThisStory /\ GraphIsThere
  BY DEF StoryInit, SceneIsKnown, Up, WaitIsOfThisStory, WaitIsBacked, HeldIsOfThisStory, GraphIsThere
<1>3. QueueEnds /\ QueueIsAwaited
  BY DEF StoryInit, QueueEnds, QueueEndsIn, QueueIsAwaited
<1> QED  BY <1>1, <1>2, <1>3 DEF StoryInv

LEMMA StepStory == StoryInv /\ [StoryNext]_storyVars => StoryInv'
<1> SUFFICES ASSUME StoryInv, [StoryNext]_storyVars PROVE StoryInv'
  OBVIOUS
<1>1. CASE Dispatch \/ Entry
  BY <1>1, DispatchKeeps
<1>2. CASE Frame
  BY <1>2, FrameKeeps
<1>3. CASE Skip
  BY <1>3, SkipKeeps
<1>4. CASE Watchdog
  BY <1>4, WatchdogKeeps DEF Watchdog
<1>5. CASE Land
  BY <1>5, LandKeeps DEF Land
<1>6. CASE Hide
  BY <1>6, HideKeeps
<1>7. CASE ShowTab \/ OpenModal \/ CloseModal
  BY <1>7, PageKeeps
<1>8. CASE SceneLost
  BY <1>8, LostKeeps
<1>9. CASE SceneBuilt
  BY <1>9, BuiltKeeps
<1>10. CASE UNCHANGED storyVars
  BY <1>10, AsideKeeps DEF storyVars, store, fx, StoryInv, Types, WaitIsOfThisStory, WaitIsBacked
<1> QED  BY <1>1, <1>2, <1>3, <1>4, <1>5, <1>6, <1>7, <1>8, <1>9, <1>10 DEF StoryNext

\* Whoever waits waits for a scene that animates, with a watchdog armed for the
\* story it plays, and a gauge is held for that story only (FxQueue.ts,
\* gaugeCues.ts).
THEOREM WaitersHaveTheirStory == StorySpec => []WaitIsOfThisStory
<1>1. StoryInv => WaitIsOfThisStory
  BY DEF StoryInv
<1> QED  BY <1>1, InitStory, StepStory, PTL DEF StorySpec

\* Alone or in a company, when nobody waits the graph misses nothing, and what is left
\* of a story was cut: by the player, the page, or the entry that followed it
\* (reveal.ts showAll, FxQueue.ts, EntryDriver).
THEOREM IdleGraphMissesNothing == StorySpec => []IdleGraphIsComplete
<1>1. StoryInv => IdleGraphIsComplete
  <2> SUFFICES ASSUME StoryInv, Up, ~pending
               PROVE  /\ nodes \subseteq shown /\ (queue = <<>> => shown = nodes)
                      /\ \A i \in DOMAIN queue :
                           queue[i].kind # "done" => queue[i].of \in skipped \/ Still
    BY DEF IdleGraphIsComplete
  <2>1. DOMAIN queue = 1..Len(queue)
    BY DEF StoryInv, Types
  <2> QED  BY <2>1 DEF StoryInv, GraphIsThere, QueueIsAwaited, Awaited
<1> QED  BY <1>1, InitStory, StepStory, PTL DEF StorySpec

-----------------------------------------------------------------------------
(* The gauge only rises *)

\* A figure is announced after another of its batch, and is that much higher.
Before(c, d) == c.figure < d.figure /\ c.value + Balls <= d.value

Pop(e) == e.kind = "pop"

\* The figures the canvas raises wait in the queue in their order, behind the ones
\* in the air.
CuesInOrder ==
  /\ \A i, j \in 1..Len(queue) :
       i < j /\ Pop(queue[i]) /\ Pop(queue[j]) /\ queue[i].batch = queue[j].batch
         => Before(queue[i], queue[j])
  /\ \A f \in flights, i \in 1..Len(queue) :
       ~f.dialog /\ Pop(queue[i]) /\ queue[i].batch = f.batch => Before(f, queue[i])
  /\ \A f, g \in flights :
       ~f.dialog /\ ~g.dialog /\ f.batch = g.batch => f = g \/ Before(f, g) \/ Before(g, f)

\* What a dialog throws is all its batch has.
DialogsApart ==
  \A f \in flights : f.dialog =>
    /\ \A g \in flights : g.batch = f.batch => g.dialog
    /\ \A i \in 1..Len(queue) : Pop(queue[i]) => queue[i].batch # f.batch

\* No figure is of a batch to come, nor higher than the gauge.
CuesOfTheRun ==
  /\ \A f \in flights :
       f.landed < Balls /\ f.batch <= batch /\ (f.batch = batch => f.value <= live)
  /\ \A i \in 1..Len(queue) : Pop(queue[i]) =>
       queue[i].batch <= batch /\ (queue[i].batch = batch => queue[i].value <= live)

\* The value held has not passed what the figures still to land will show.
HeldBehind ==
  held # NoHeld =>
    /\ held.value <= live
    /\ \A f \in flights : ~f.dialog /\ f.batch = held.batch /\ f.figure > held.applied
                            => held.value <= f.value - Balls + f.landed
    /\ \A i \in 1..Len(queue) :
         Pop(queue[i]) /\ queue[i].batch = held.batch /\ queue[i].figure > held.applied
           => held.value <= queue[i].value - Balls

GaugeInv == CuesInOrder /\ DialogsApart /\ CuesOfTheRun /\ HeldBehind

Rises == (\A f \in flights : ~f.dialog) => ShownGauge' >= ShownGauge

LEMMA PopFacts ==
  ASSUME NEW e \in Effects, Pop(e)
  PROVE  e.batch \in Nat /\ e.figure \in Nat /\ e.value \in Nat
BY DEF Effects, Pop

LEMMA GaugeFacts ==
  ASSUME StoryInv, GaugeInv
  PROVE  /\ live \in Nat /\ batch \in Nat /\ queue \in Seq(Effects) /\ Len(queue) \in Nat
         /\ flights \subseteq Flights
         /\ \A i \in 1..Len(queue) : queue[i] \in Effects
         /\ held # NoHeld => held \in [batch : Nat, value : Int, applied : Nat] /\ held.batch = batch
         /\ ShownGauge \in Int /\ ShownGauge <= live
<1>1. /\ live \in Nat /\ batch \in Nat /\ queue \in Seq(Effects) /\ Len(queue) \in Nat
      /\ flights \subseteq Flights /\ IsHeld(held)
      /\ \A i \in 1..Len(queue) : queue[i] \in Effects
  BY Bounds DEF StoryInv, Types
<1>2. held # NoHeld => held \in [batch : Nat, value : Int, applied : Nat] /\ held.batch = batch
  BY <1>1 DEF IsHeld, StoryInv, WaitIsOfThisStory, HeldIsOfThisStory
<1>3. ShownGauge \in Int /\ ShownGauge <= live
  BY <1>1, <1>2 DEF ShownGauge, GaugeInv, HeldBehind
<1> QED  BY <1>1, <1>2, <1>3

\* Figures that are gone, and a value that is let go, move nothing back.
LEMMA GaugeLess ==
  ASSUME StoryInv, GaugeInv, live' = live, batch' = batch,
         flights' \subseteq flights, held' \in {held, NoHeld},
         NEW s \in Nat, Len(queue') \in Nat,
         \A i \in 1..Len(queue') : i + s \in 1..Len(queue) /\ queue'[i] = queue[i + s]
  PROVE  GaugeInv' /\ Rises
<1> USE GaugeFacts
<1>1. CuesInOrder'
  <2>1. ASSUME NEW i \in 1..Len(queue'), NEW j \in 1..Len(queue'), i < j, Pop(queue'[i]), Pop(queue'[j]),
               queue'[i].batch = queue'[j].batch
        PROVE  Before(queue'[i], queue'[j])
    <3>1. i + s < j + s
      BY <2>1
    <3> QED  BY <2>1, <3>1 DEF GaugeInv, CuesInOrder
  <2>2. /\ \A f \in flights', i \in 1..Len(queue') :
             ~f.dialog /\ Pop(queue'[i]) /\ queue'[i].batch = f.batch => Before(f, queue'[i])
        /\ \A f, g \in flights' :
             ~f.dialog /\ ~g.dialog /\ f.batch = g.batch => f = g \/ Before(f, g) \/ Before(g, f)
    BY DEF GaugeInv, CuesInOrder
  <2> QED  BY <2>1, <2>2 DEF CuesInOrder
<1>2. DialogsApart'
  BY DEF GaugeInv, DialogsApart
<1>3. CuesOfTheRun'
  BY DEF GaugeInv, CuesOfTheRun
<1>4. HeldBehind'
  BY DEF GaugeInv, HeldBehind
<1>5. ShownGauge' >= ShownGauge
  BY DEF ShownGauge
<1> QED  BY <1>1, <1>2, <1>3, <1>4, <1>5 DEF GaugeInv, Rises

LEMMA ReleasedMoves ==
  ASSUME NEW h, h # NoHeld => h \in [batch : Nat, value : Int, applied : Nat],
         NEW b, NEW figure \in Nat, NEW value \in Nat,
         NEW r, r = Released(h, b, figure, value)
  PROVE  \/ r = h
         \/ h # NoHeld /\ r = NoHeld
         \/ /\ h # NoHeld /\ h.batch = b /\ h.applied < figure
            /\ r # NoHeld /\ r.batch = b /\ r.value = value /\ r.applied = figure
<1>1. CASE h = NoHeld \/ Late(h, b, figure)
  BY <1>1 DEF Released
<1>2. CASE ~(h = NoHeld \/ Late(h, b, figure)) /\ value = live
  BY <1>2 DEF Released
<1>3. CASE ~(h = NoHeld \/ Late(h, b, figure)) /\ value # live
  <2>1. h \in [batch : Nat, value : Int, applied : Nat] /\ h.batch = b /\ h.applied < figure
    BY <1>3 DEF Late
  <2>2. r = [h EXCEPT !.value = value, !.applied = figure]
    BY <1>3 DEF Released
  <2>3. r.batch = b /\ r.value = value /\ r.applied = figure
    BY <2>1, <2>2
  <2>4. r # NoHeld
    <3>1. DOMAIN r = {"batch", "value", "applied"} /\ DOMAIN NoHeld = {"batch"}
      BY <2>1, <2>2 DEF NoHeld
    <3> QED  BY <3>1
  <2> QED  BY <1>3, <2>1, <2>3, <2>4
<1> QED  BY <1>1, <1>2, <1>3

\* The first figure to wait rises.
LEMMA AnnounceRises ==
  ASSUME StoryInv, GaugeInv, queue # <<>>, Pop(Head(queue)), queue' = Tail(queue),
         Announce(Head(queue).batch, Head(queue).figure, Head(queue).value, FALSE),
         live' = live, batch' = batch
  PROVE  GaugeInv' /\ Rises
<1> USE GaugeFacts
<1> DEFINE e == Head(queue)
<1>1. /\ e = queue[1] /\ 1 \in 1..Len(queue) /\ e \in Effects
      /\ Len(queue') \in Nat
      /\ \A i \in 1..Len(queue') : i + 1 \in 1..Len(queue) /\ queue'[i] = queue[i + 1] /\ 1 < i + 1
  <2>1. /\ Head(queue) = queue[1] /\ Len(queue) \in Nat /\ Len(queue) # 0 /\ Tail(queue) \in Seq(Effects)
        /\ Len(Tail(queue)) = Len(queue) - 1
        /\ \A i \in 1..Len(Tail(queue)) : Tail(queue)[i] = queue[i + 1]
    BY HeadTailProperties, EmptySeq, LenProperties
  <2> QED  BY <2>1
<1>2. e.batch \in Nat /\ e.figure \in Nat /\ e.value \in Nat /\ Pop(e)
  BY <1>1, PopFacts
<1> HIDE DEF e
<1>3. /\ \A i \in 1..Len(queue') :
           Pop(queue'[i]) /\ queue'[i].batch = e.batch => Before(e, queue'[i])
      /\ \A f \in flights : ~f.dialog /\ f.batch = e.batch => Before(f, e)
      /\ \A f \in flights : f.dialog => f.batch # e.batch
      /\ e.batch <= batch /\ (e.batch = batch => e.value <= live)
      /\ held # NoHeld /\ e.batch = held.batch /\ e.figure > held.applied => held.value <= e.value - Balls
  <2>1. \A i \in 1..Len(queue') :
          Pop(queue'[i]) /\ queue'[i].batch = e.batch => Before(e, queue'[i])
    BY <1>1, <1>2 DEF GaugeInv, CuesInOrder
  <2>2. \A f \in flights : ~f.dialog /\ f.batch = e.batch => Before(f, e)
    BY <1>1, <1>2 DEF GaugeInv, CuesInOrder
  <2>3. \A f \in flights : f.dialog => f.batch # e.batch
    BY <1>1, <1>2 DEF GaugeInv, DialogsApart
  <2>4. e.batch <= batch /\ (e.batch = batch => e.value <= live)
    BY <1>1, <1>2 DEF GaugeInv, CuesOfTheRun
  <2>5. held # NoHeld /\ e.batch = held.batch /\ e.figure > held.applied => held.value <= e.value - Balls
    BY <1>1, <1>2 DEF GaugeInv, HeldBehind
  <2> QED  BY <2>1, <2>2, <2>3, <2>4, <2>5
<1>4. CASE /\ flights' = flights \cup {[batch |-> e.batch, figure |-> e.figure, value |-> e.value,
                                        landed |-> 0, dialog |-> FALSE]}
           /\ UNCHANGED held
  <2> DEFINE new == [batch |-> e.batch, figure |-> e.figure, value |-> e.value,
                     landed |-> 0, dialog |-> FALSE]
  <2>1. /\ flights' = flights \cup {new} /\ new.batch = e.batch /\ new.figure = e.figure
        /\ new.value = e.value /\ new.landed = 0 /\ ~new.dialog
    BY <1>4
  <2> HIDE DEF new
  <2>2. CuesInOrder'
    <3>1. \A i, j \in 1..Len(queue') :
            i < j /\ Pop(queue'[i]) /\ Pop(queue'[j]) /\ queue'[i].batch = queue'[j].batch
              => Before(queue'[i], queue'[j])
      <4> SUFFICES ASSUME NEW i \in 1..Len(queue'), NEW j \in 1..Len(queue'), i < j,
                          Pop(queue'[i]), Pop(queue'[j]), queue'[i].batch = queue'[j].batch
                   PROVE  Before(queue'[i], queue'[j])
        OBVIOUS
      <4>1. i + 1 < j + 1
        OBVIOUS
      <4> QED  BY <1>1, <4>1 DEF GaugeInv, CuesInOrder
    <3>2. \A f \in flights', i \in 1..Len(queue') :
            ~f.dialog /\ Pop(queue'[i]) /\ queue'[i].batch = f.batch => Before(f, queue'[i])
      BY <1>1, <1>3, <2>1 DEF GaugeInv, CuesInOrder, Before
    <3>3. \A f, g \in flights' :
            ~f.dialog /\ ~g.dialog /\ f.batch = g.batch => f = g \/ Before(f, g) \/ Before(g, f)
      BY <1>3, <2>1 DEF GaugeInv, CuesInOrder, Before
    <3> QED  BY <3>1, <3>2, <3>3 DEF CuesInOrder
  <2>3. DialogsApart'
    BY <1>1, <1>3, <2>1 DEF GaugeInv, DialogsApart
  <2>4. CuesOfTheRun'
    <3>1. 0 < Balls
      BY DEF Balls
    <3> QED  BY <1>1, <1>3, <2>1, <3>1 DEF GaugeInv, CuesOfTheRun
  <2>5. HeldBehind'
    <3>1. e.value - Balls + 0 = e.value - Balls
      BY <1>2 DEF Balls
    <3> QED  BY <1>1, <1>3, <1>4, <2>1, <3>1 DEF GaugeInv, HeldBehind
  <2>6. ShownGauge' = ShownGauge
    BY <1>4 DEF ShownGauge
  <2> QED  BY <2>2, <2>3, <2>4, <2>5, <2>6 DEF GaugeInv, Rises
<1>5. CASE /\ held' = Released(held, e.batch, e.figure, e.value)
           /\ flights' = Flying(held, held', flights)
  <2>1. flights' \subseteq flights
    BY <1>5 DEF Flying
  <2>2. CASE held' \in {held, NoHeld}
    BY <1>1, <2>1, <2>2, GaugeLess
  <2>3. CASE held' \notin {held, NoHeld}
    <3>1. /\ held # NoHeld /\ held.batch = e.batch /\ held.applied < e.figure
          /\ held' # NoHeld /\ held'.batch = e.batch /\ held'.value = e.value /\ held'.applied = e.figure
      <4>1. held # NoHeld => held \in [batch : Nat, value : Int, applied : Nat]
        OBVIOUS
      <4>2. held' = Released(held, e.batch, e.figure, e.value) /\ e.figure \in Nat /\ e.value \in Nat
        BY <1>2, <1>5
      <4>3. \/ held' = held
            \/ held # NoHeld /\ held' = NoHeld
            \/ /\ held # NoHeld /\ held.batch = e.batch /\ held.applied < e.figure
               /\ held' # NoHeld /\ held'.batch = e.batch /\ held'.value = e.value
               /\ held'.applied = e.figure
        BY <4>1, <4>2, ReleasedMoves
      <4> QED  BY <2>3, <4>3
    <3>2. CuesInOrder' /\ DialogsApart' /\ CuesOfTheRun'
      <4>1. \A i, j \in 1..Len(queue') :
              i < j /\ Pop(queue'[i]) /\ Pop(queue'[j]) /\ queue'[i].batch = queue'[j].batch
                => Before(queue'[i], queue'[j])
        <5> SUFFICES ASSUME NEW i \in 1..Len(queue'), NEW j \in 1..Len(queue'), i < j,
                            Pop(queue'[i]), Pop(queue'[j]), queue'[i].batch = queue'[j].batch
                     PROVE  Before(queue'[i], queue'[j])
          OBVIOUS
        <5>1. i + 1 < j + 1
          OBVIOUS
        <5> QED  BY <1>1, <5>1 DEF GaugeInv, CuesInOrder
      <4>2. CuesInOrder'
        BY <1>1, <2>1, <4>1 DEF GaugeInv, CuesInOrder
      <4>3. DialogsApart' /\ CuesOfTheRun'
        BY <1>1, <2>1 DEF GaugeInv, DialogsApart, CuesOfTheRun
      <4> QED  BY <4>2, <4>3
    <3>3. HeldBehind'
      <4>1. held'.value <= live'
        BY <1>3, <3>1
      <4>2. \A f \in flights' : ~f.dialog /\ f.batch = held'.batch => ~(f.figure > held'.applied)
        BY <1>2, <1>3, <2>1, <3>1 DEF Before, Flights
      <4>3. ASSUME NEW i \in 1..Len(queue'), Pop(queue'[i]), queue'[i].batch = held'.batch
            PROVE  held'.value <= queue'[i].value - Balls
        <5>1. Before(e, queue'[i]) /\ queue'[i].value \in Nat
          BY <1>1, <1>3, <3>1, <4>3, PopFacts
        <5> QED  BY <1>2, <3>1, <5>1 DEF Before, Balls
      <4> QED  BY <4>1, <4>2, <4>3 DEF HeldBehind
    <3>4. ShownGauge' >= ShownGauge
      <4>1. held.value <= e.value - Balls /\ held.value \in Int
        BY <1>3, <3>1
      <4> QED  BY <1>2, <3>1, <4>1 DEF ShownGauge, Balls
    <3> QED  BY <3>2, <3>3, <3>4 DEF GaugeInv, Rises
  <2> QED  BY <2>2, <2>3
<1> QED  BY <1>4, <1>5 DEF Announce, e

\* A ball lands: the last of its figure, or one that leaves it in the air.
LEMMA LandRises ==
  ASSUME StoryInv, GaugeInv, NEW f \in flights, BallLands(f)
  PROVE  GaugeInv' /\ Rises
<1> USE GaugeFacts
<1>1. /\ UNCHANGED <<live, batch, queue>>
      /\ f.dialog \/ \A g \in flights : ~g.dialog /\ g.batch = f.batch => g.figure >= f.figure
      /\ held' = Stepped(held, f)
  BY DEF BallLands, session, fx
<1>2. /\ f \in Flights /\ f.batch \in Nat /\ f.figure \in Nat /\ f.value \in Nat /\ f.landed \in Nat
      /\ f.dialog \in BOOLEAN /\ f.landed < Balls
      /\ f.batch = batch => f.value <= live
  BY DEF Flights, GaugeInv, CuesOfTheRun
<1>3. held # NoHeld => held \in [batch : Nat, value : Int, applied : Nat] /\ held.batch = batch
  OBVIOUS
\* The figures of the batch that are not late are above it.
<1>4. /\ \A g \in flights : ~f.dialog /\ ~g.dialog /\ g.batch = f.batch /\ g # f => Before(f, g)
      /\ \A g \in flights : f.dialog /\ g.batch = f.batch => g.dialog
  <2>1. ASSUME NEW g \in flights, ~f.dialog, ~g.dialog, g.batch = f.batch, g # f
        PROVE  Before(f, g)
    <3>1. Before(f, g) \/ Before(g, f)
      BY <2>1 DEF GaugeInv, CuesInOrder
    <3>2. g.figure >= f.figure /\ g.figure \in Nat
      BY <1>1, <2>1 DEF Flights
    <3> QED  BY <1>2, <3>1, <3>2 DEF Before
  <2> QED  BY <2>1 DEF GaugeInv, DialogsApart
<1>5. \A i \in 1..Len(queue) : Pop(queue[i]) /\ queue[i].batch = f.batch => ~f.dialog /\ Before(f, queue[i])
  BY <1>2 DEF GaugeInv, DialogsApart, CuesInOrder
\* What is held never passes the ball that lands.
<1>6. ~f.dialog /\ held # NoHeld /\ held.batch = f.batch /\ held.applied < f.figure
        => held.value <= f.value - Balls + f.landed
  BY <1>2, <1>3 DEF GaugeInv, HeldBehind
\* A value v that the figure sets is behind the others.
<1>7. ASSUME NEW v \in Int, v <= f.value, NEW g \in flights, g # f, ~g.dialog, g.batch = f.batch
      PROVE  v <= g.value - Balls + g.landed
  <2>1. Before(f, g) /\ g.value \in Nat /\ g.landed \in Nat
    BY <1>2, <1>4, <1>7 DEF Flights
  <2> QED  BY <1>2, <1>7, <2>1 DEF Before, Balls
<1>8. ASSUME NEW v \in Int, v <= f.value, NEW i \in 1..Len(queue), Pop(queue[i]), queue[i].batch = f.batch
      PROVE  v <= queue[i].value - Balls
  <2>1. Before(f, queue[i]) /\ queue[i].value \in Nat
    BY <1>5, <1>8, PopFacts
  <2> QED  BY <1>2, <1>8, <2>1 DEF Before, Balls
<1>9. CASE f.landed + 1 = Balls
  <2>1. held' = Released(held, f.batch, f.figure, f.value) /\ flights' \subseteq flights \ {f}
    BY <1>1, <1>9 DEF Stepped, BallLands, Flying
  <2>2. CASE held' \in {held, NoHeld}
    <3>1. \A i \in 1..Len(queue') : i + 0 \in 1..Len(queue) /\ queue'[i] = queue[i + 0]
      BY <1>1
    <3>2. flights' \subseteq flights /\ Len(queue') \in Nat /\ 0 \in Nat
      BY <1>1, <2>1
    <3> QED  BY <1>1, <2>2, <3>1, <3>2, GaugeLess
  <2>3. CASE held' \notin {held, NoHeld}
    <3>1. /\ held # NoHeld /\ held.batch = f.batch /\ held.applied < f.figure
          /\ held' # NoHeld /\ held'.batch = f.batch /\ held'.value = f.value /\ held'.applied = f.figure
      <4>1. held # NoHeld => held \in [batch : Nat, value : Int, applied : Nat]
        BY <1>3
      <4>2. \/ held' = held
            \/ held # NoHeld /\ held' = NoHeld
            \/ /\ held # NoHeld /\ held.batch = f.batch /\ held.applied < f.figure
               /\ held' # NoHeld /\ held'.batch = f.batch /\ held'.value = f.value
               /\ held'.applied = f.figure
        BY <1>2, <2>1, <4>1, ReleasedMoves
      <4> QED  BY <2>3, <4>2
    <3>2. CuesInOrder' /\ DialogsApart' /\ CuesOfTheRun'
      BY <1>1, <2>1 DEF GaugeInv, CuesInOrder, DialogsApart, CuesOfTheRun
    <3>3. HeldBehind'
      <4>1. held'.value <= live' /\ f.value \in Int
        BY <1>1, <1>2, <1>3, <3>1
      <4> QED  BY <1>1, <1>2, <1>7, <1>8, <2>1, <3>1, <4>1 DEF HeldBehind
    <3>4. ~f.dialog => ShownGauge' >= ShownGauge
      BY <1>2, <1>3, <1>6, <3>1 DEF ShownGauge, Balls
    <3> QED  BY <3>2, <3>3, <3>4 DEF GaugeInv, Rises
  <2> QED  BY <2>2, <2>3
<1>10. CASE f.landed + 1 # Balls
  <2> DEFINE v == f.value - Balls + f.landed + 1
             new == [f EXCEPT !.landed = @ + 1]
  <2>1. v \in Int /\ v <= f.value /\ f.landed + 1 < Balls
    BY <1>2, <1>10 DEF Balls
  <2>2. /\ new \in Flights /\ new.batch = f.batch /\ new.figure = f.figure /\ new.value = f.value
        /\ new.landed = f.landed + 1 /\ new.dialog = f.dialog
    BY <1>2 DEF Flights
  <2>3. \/ held' = held /\ (held = NoHeld \/ held.batch # f.batch \/ held.applied >= f.figure)
        \/ /\ held # NoHeld /\ held.batch = f.batch /\ held.applied < f.figure
           /\ held' # NoHeld /\ held'.batch = f.batch /\ held'.value = v /\ held'.applied = held.applied
    <3>1. CASE held = NoHeld \/ Late(held, f.batch, f.figure)
      BY <1>1, <1>10, <3>1 DEF Stepped, Late
    <3>2. CASE ~(held = NoHeld \/ Late(held, f.batch, f.figure))
      <4>1. held' = [held EXCEPT !.value = v]
        BY <1>1, <1>10, <3>2 DEF Stepped
      <4> HIDE DEF v
      <4>2. /\ held \in [batch : Nat, value : Int, applied : Nat]
            /\ held.batch = f.batch /\ held.applied < f.figure
        BY <1>2, <1>3, <3>2 DEF Late
      <4>3. /\ held'.batch = f.batch /\ held'.value = v /\ held'.applied = held.applied
            /\ DOMAIN held' = {"batch", "value", "applied"}
        BY <4>1, <4>2
      <4>4. DOMAIN NoHeld = {"batch"}
        BY DEF NoHeld
      <4>5. held' # NoHeld
        BY <4>3, <4>4
      <4> QED  BY <3>2, <4>2, <4>3, <4>5
    <3> QED  BY <3>1, <3>2
  <2>4. flights' = (flights \ {f}) \cup {new}
    BY <1>10, <2>3 DEF BallLands, Flying
  <2> HIDE DEF v, new
  <2>5. CuesInOrder'
    <3>1. \A g \in flights', i \in 1..Len(queue) :
            ~g.dialog /\ Pop(queue[i]) /\ queue[i].batch = g.batch => Before(g, queue[i])
      BY <1>5, <2>2, <2>4 DEF GaugeInv, CuesInOrder, Before
    <3>2. \A g, h \in flights' :
            ~g.dialog /\ ~h.dialog /\ g.batch = h.batch => g = h \/ Before(g, h) \/ Before(h, g)
      BY <1>4, <2>2, <2>4 DEF GaugeInv, CuesInOrder, Before
    <3> QED  BY <1>1, <3>1, <3>2 DEF GaugeInv, CuesInOrder
  <2>6. DialogsApart'
    BY <1>1, <2>2, <2>4 DEF GaugeInv, DialogsApart
  <2>7. CuesOfTheRun'
    BY <1>1, <2>1, <2>2, <2>4 DEF GaugeInv, CuesOfTheRun
  <2>8. CASE held' = held /\ (held = NoHeld \/ held.batch # f.batch \/ held.applied >= f.figure)
    <3>1. HeldBehind'
      BY <1>1, <1>2, <1>3, <2>2, <2>4, <2>8 DEF GaugeInv, HeldBehind
    <3>2. ShownGauge' = ShownGauge
      BY <1>1, <2>8 DEF ShownGauge
    <3> QED  BY <2>5, <2>6, <2>7, <3>1, <3>2 DEF GaugeInv, Rises
  <2>9. CASE /\ held # NoHeld /\ held.batch = f.batch /\ held.applied < f.figure
             /\ held' # NoHeld /\ held'.batch = f.batch /\ held'.value = v /\ held'.applied = held.applied
    <3>1. HeldBehind'
      <4>1. v <= live'
        BY <1>1, <1>2, <1>3, <2>1, <2>9
      <4>2. ~new.dialog => v <= new.value - Balls + new.landed
        BY <1>2, <2>2 DEF v, Balls
      <4>3. \A g \in flights' : ~g.dialog /\ g.batch = held'.batch => v <= g.value - Balls + g.landed
        BY <1>7, <2>1, <2>4, <2>9, <4>2
      <4>4. \A i \in 1..Len(queue') : Pop(queue'[i]) /\ queue'[i].batch = held'.batch
                                        => v <= queue'[i].value - Balls
        BY <1>1, <1>8, <2>1, <2>9
      <4> QED  BY <2>9, <4>1, <4>3, <4>4 DEF HeldBehind
    <3>2. ~f.dialog => ShownGauge' >= ShownGauge
      BY <1>2, <1>3, <1>6, <2>9 DEF ShownGauge, Balls, v
    <3> QED  BY <2>5, <2>6, <2>7, <3>1, <3>2 DEF GaugeInv, Rises
  <2> QED  BY <2>3, <2>8, <2>9
<1> QED  BY <1>9, <1>10

\* What is queued for a batch: its figures wait in their order, each as much
\* higher as it counts.
Numbered(b, x) ==
  \E r \in Nat : \A i \in 1..Len(x) : Pop(x[i]) =>
    /\ i - r \in 1..b.figures /\ ~b.dialog
    /\ x[i].figure = i - r /\ x[i].value = live + Balls * (i - r) /\ x[i].batch = batch + 1

LEMMA NewPops ==
  ASSUME Types, batch < MaxBatches, NEW b \in Batches, NEW s \in Nat,
         NEW x, x = Reveals(b, s) \o Pops(b, s)
  PROVE  x \in Seq(Effects) /\ Numbered(b, x)
<1> USE DEF Numbered
<1> DEFINE R == Reveals(b, s)
           P == Pops(b, s)
           r == Len(R)
<1>0. b.figures \in Nat /\ batch + 1 \in Commits /\ batch + 1 \in Nat /\ live \in Nat
  <2>1. b.figures \in Figures
    BY DEF Batches
  <2>2. batch \in 0..MaxBatches /\ live \in Nat
    BY DEF Types
  <2>3. batch + 1 \in 0..MaxBatches /\ batch + 1 \in Nat
    BY <2>2, Bounds
  <2> QED  BY <2>1, <2>2, <2>3, Bounds DEF Commits
<1>1. x \in Seq(Effects)
  BY NewEffects
<1>2. R \in Seq(Effects) /\ r \in Nat /\ \A i \in 1..r : ~Pop(R[i])
  <2> DEFINE reveal == [kind |-> "reveal", of |-> s, node |-> batch + 1]
  <2>1. reveal \in Effects /\ ~Pop(reveal)
    BY <1>0 DEF Effects, Pop
  <2>2. R = <<>> \/ R = <<reveal>>
    BY DEF Reveals
  <2> HIDE DEF reveal, R
  <2>3. CASE R = <<>>
    <3>1. R \in Seq(Effects) /\ r = 0
      BY <2>3
    <3> QED  BY <3>1
  <2>4. CASE R = <<reveal>>
    <3>1. R \in Seq(Effects) /\ r = 1 /\ R[1] = reveal
      BY <2>1, <2>4
    <3> QED  BY <2>1, <3>1
  <2> QED  BY <2>2, <2>3, <2>4
<1>3. /\ P \in Seq(Effects) /\ Len(P) \in Nat
      /\ \A i \in 1..Len(P) :
           /\ i \in 1..b.figures /\ ~b.dialog
           /\ P[i].figure = i /\ P[i].value = live + Balls * i /\ P[i].batch = batch + 1
  <2>1. CASE b.dialog
    <3>1. P = <<>>
      BY <2>1 DEF Pops
    <3> HIDE DEF P
    <3>2. Len(P) = 0 /\ P \in Seq(Effects)
      BY <3>1
    <3> QED  BY <3>2
  <2>2. CASE ~b.dialog
    <3> DEFINE pop(i) == [kind |-> "pop", of |-> s, batch |-> batch + 1, figure |-> i,
                          value |-> live + Balls * i]
    <3>1. P = [i \in 1..b.figures |-> pop(i)]
      BY <2>2 DEF Pops
    <3>2. \A i \in 1..b.figures :
            /\ pop(i) \in Effects
            /\ pop(i).figure = i /\ pop(i).value = live + Balls * i /\ pop(i).batch = batch + 1
      <4> SUFFICES ASSUME NEW i \in 1..b.figures
                   PROVE  /\ pop(i) \in Effects
                          /\ pop(i).figure = i /\ pop(i).value = live + Balls * i
                          /\ pop(i).batch = batch + 1
        OBVIOUS
      <4>1. live + Balls * i \in Nat
        BY <1>0 DEF Balls
      <4> QED  BY <1>0, <4>1 DEF Effects
    <3> HIDE DEF P, pop
    <3>3. P \in Seq(Effects) /\ Len(P) = b.figures
      <4>1. \A i \in 1..b.figures : pop(i) \in Effects
        BY <3>2
      <4>2. b.figures \in Nat
        BY <1>0
      <4> QED  BY ONLY <3>1, <4>1, <4>2
    <3>4. \A i \in 1..b.figures : P[i] = pop(i)
      BY <3>1
    <3> QED  BY <1>0, <2>2, <3>2, <3>3, <3>4
  <2> QED  BY <2>1, <2>2
<1> HIDE DEF R, P
<1>4. /\ Len(x) = r + Len(P)
      /\ \A i \in 1..Len(x) : x[i] = IF i <= r THEN R[i] ELSE P[i - r]
  <2>1. x = R \o P
    BY DEF R, P
  <2> QED  BY <1>2, <1>3, <2>1, ConcatProperties
<1>5. ASSUME NEW i \in 1..Len(x), Pop(x[i])
      PROVE  /\ i - r \in 1..b.figures /\ ~b.dialog
             /\ x[i].figure = i - r /\ x[i].value = live + Balls * (i - r) /\ x[i].batch = batch + 1
  <2>1. ~(i <= r)
    BY <1>2, <1>4, <1>5
  <2>2. i - r \in 1..Len(P) /\ x[i] = P[i - r]
    BY <1>2, <1>3, <1>4, <2>1
  <2> QED  BY <1>3, <2>2
<1> QED  BY <1>1, <1>2, <1>5

LEMMA MovedHigher ==
  ASSUME StoryInv, NEW b \in Batches, NEW now, Apply(b, now)
  PROVE  /\ live' \in Nat /\ live <= live' /\ batch' = batch + 1 /\ batch' \in Nat
         /\ \A k \in 1..b.figures : live + Balls * k <= live'
<1>1. b.figures \in Nat /\ live \in Nat /\ batch \in Nat /\ (b.silent => b.figures = 0)
  <2>1. b.figures \in Nat /\ (b.silent => b.figures = 0)
    BY Bounds DEF Batches
  <2>2. live \in Nat /\ batch \in Nat
    BY Bounds DEF StoryInv, Types
  <2> QED  BY <2>1, <2>2
<1>2. live' = live + Balls * (IF b.silent THEN 1 ELSE b.figures) /\ batch' = batch + 1
  BY DEF Apply, Moved
<1> QED  BY <1>1, <1>2 DEF Balls

\* The cues that waited stay ahead, and the figures behind them are the ones of b.
Ahead(n) == \A i \in 1..Len(queue') : i <= n => queue'[i] = queue[i]

Behind(b, n, r) ==
  \A i \in 1..Len(queue') : i > n /\ Pop(queue'[i]) =>
    /\ i - r \in 1..b.figures /\ ~b.dialog
    /\ queue'[i].figure = i - r /\ queue'[i].value = live + Balls * (i - r)
    /\ queue'[i].batch = batch + 1

\* The figures of the batch before are late; the ones of this batch are above what
\* is held for it.
LEMMA ApplyRises ==
  ASSUME StoryInv, GaugeInv, NEW b \in Batches, NEW now, Apply(b, now),
         held' \in {NoHeld, Holding(b)}, flights' \subseteq flights \cup Thrown(b),
         Len(queue') \in Nat, NEW n \in Nat, NEW r \in Nat, n = Len(queue),
         Ahead(n), Behind(b, n, r)
  PROVE  GaugeInv' /\ Rises
<1> USE GaugeFacts DEF Ahead, Behind
<1>1. /\ live' \in Nat /\ live <= live' /\ batch' = batch + 1 /\ batch' \in Nat
      /\ \A k \in 1..b.figures : live + Balls * k <= live'
      /\ b.figures \in Nat
  BY MovedHigher, Bounds DEF Batches
<1>2. /\ \A f \in flights : f.batch <= batch /\ f.batch \in Nat
      /\ \A i \in 1..Len(queue) : Pop(queue[i]) => queue[i].batch <= batch /\ queue[i].batch \in Nat
  BY PopFacts DEF GaugeInv, CuesOfTheRun, Flights
<1>3. \A f \in Thrown(b) :
        /\ f.batch = batch + 1 /\ f.dialog /\ b.dialog /\ f.landed = 0
        /\ f.value <= live'
  BY <1>1 DEF Thrown
\* An effect that waited, or one of the batch.
<1>4. ASSUME NEW i \in 1..Len(queue'), Pop(queue'[i])
      PROVE  \/ i \in 1..Len(queue) /\ i <= n /\ queue'[i] = queue[i] /\ queue'[i].batch <= batch
             \/ /\ i > n /\ ~b.dialog /\ queue'[i].batch = batch + 1
                /\ i - r \in 1..b.figures /\ queue'[i].figure = i - r
                /\ queue'[i].value = live + Balls * (i - r)
  <2>1. CASE i <= n
    BY <1>2, <1>4, <2>1
  <2>2. CASE i > n
    BY <1>4, <2>2
  <2> QED  BY <2>1, <2>2
<1>5. CuesInOrder'
  <2>1. ASSUME NEW i \in 1..Len(queue'), NEW j \in 1..Len(queue'), i < j, Pop(queue'[i]), Pop(queue'[j]),
               queue'[i].batch = queue'[j].batch
        PROVE  Before(queue'[i], queue'[j])
    <3>1. CASE j <= n
      <4>1. /\ i \in 1..Len(queue) /\ queue'[i] = queue[i]
            /\ j \in 1..Len(queue) /\ queue'[j] = queue[j]
        BY <2>1, <3>1
      <4> QED  BY <2>1, <4>1 DEF GaugeInv, CuesInOrder
    <3>2. CASE j > n
      <4>1. queue'[j].batch = batch + 1
        BY <1>4, <2>1, <3>2
      <4>2. ~(queue'[i].batch <= batch)
        BY <2>1, <4>1
      <4>3. /\ i - r \in 1..b.figures /\ queue'[i].figure = i - r /\ queue'[i].value = live + Balls * (i - r)
            /\ j - r \in 1..b.figures /\ queue'[j].figure = j - r /\ queue'[j].value = live + Balls * (j - r)
        BY <1>4, <2>1, <3>2, <4>2
      <4> QED  BY <2>1, <4>3 DEF Before, Balls
    <3> QED  BY <3>1, <3>2
  <2>2. ASSUME NEW f \in flights', ~f.dialog PROVE f \in flights
    BY <1>3, <2>2
  <2>3. ASSUME NEW f \in flights', ~f.dialog, NEW i \in 1..Len(queue'), Pop(queue'[i]),
               queue'[i].batch = f.batch
        PROVE  Before(f, queue'[i])
    <3>1. f \in flights /\ f.batch <= batch
      BY <1>2, <2>2, <2>3
    <3>2. i \in 1..Len(queue) /\ queue'[i] = queue[i]
      BY <1>2, <1>4, <2>3, <3>1
    <3> QED  BY <2>3, <3>1, <3>2 DEF GaugeInv, CuesInOrder
  <2>4. \A f, g \in flights' :
          ~f.dialog /\ ~g.dialog /\ f.batch = g.batch => f = g \/ Before(f, g) \/ Before(g, f)
    BY <2>2 DEF GaugeInv, CuesInOrder
  <2> QED  BY <2>1, <2>3, <2>4 DEF CuesInOrder
<1>6. DialogsApart'
  <2> SUFFICES ASSUME NEW f \in flights', f.dialog
               PROVE  /\ \A g \in flights' : g.batch = f.batch => g.dialog
                      /\ \A i \in 1..Len(queue') : Pop(queue'[i]) => queue'[i].batch # f.batch
    BY DEF DialogsApart
  <2>1. CASE f \in flights
    <3>1. f.batch <= batch /\ f.batch \in Nat
      BY <1>2, <2>1
    <3>2. \A g \in flights' : g.batch = f.batch => g.dialog
      BY <1>3, <2>1 DEF GaugeInv, DialogsApart
    <3>3. \A i \in 1..Len(queue') : Pop(queue'[i]) => queue'[i].batch # f.batch
      BY <1>4, <2>1, <3>1 DEF GaugeInv, DialogsApart
    <3> QED  BY <3>2, <3>3
  <2>2. CASE f \in Thrown(b)
    <3>1. f.batch = batch + 1 /\ b.dialog
      BY <1>3, <2>2
    <3>2. \A g \in flights' : g.batch = f.batch => g.dialog
      BY <1>2, <1>3, <3>1
    <3>3. \A i \in 1..Len(queue') : Pop(queue'[i]) => queue'[i].batch # f.batch
      BY <1>4, <3>1
    <3> QED  BY <3>2, <3>3
  <2> QED  BY <2>1, <2>2
<1>7. CuesOfTheRun'
  <2>1. ASSUME NEW f \in flights'
        PROVE  f.landed < Balls /\ f.batch <= batch' /\ (f.batch = batch' => f.value <= live')
    <3>1. CASE f \in flights
      <4>1. f.batch <= batch /\ f.batch \in Nat /\ f.landed < Balls
        BY <1>2, <3>1 DEF GaugeInv, CuesOfTheRun
      <4> QED  BY <1>1, <4>1
    <3>2. CASE f \in Thrown(b)
      BY <1>1, <1>3, <3>2 DEF Balls
    <3> QED  BY <3>1, <3>2
  <2>2. ASSUME NEW i \in 1..Len(queue'), Pop(queue'[i])
        PROVE  queue'[i].batch <= batch' /\ (queue'[i].batch = batch' => queue'[i].value <= live')
    <3>1. CASE i \in 1..Len(queue) /\ queue'[i] = queue[i]
      BY <1>1, <1>2, <2>2, <3>1
    <3>2. CASE ~(i \in 1..Len(queue) /\ queue'[i] = queue[i])
      <4>1. i - r \in 1..b.figures /\ queue'[i].value = live + Balls * (i - r) /\ queue'[i].batch = batch + 1
        BY <1>4, <2>2, <3>2
      <4> QED  BY <1>1, <4>1
    <3> QED  BY <3>1, <3>2
  <2> QED  BY <2>1, <2>2 DEF CuesOfTheRun
<1>8. CASE held' = NoHeld
  <2>1. HeldBehind'
    BY <1>8 DEF HeldBehind
  <2>2. ShownGauge' >= ShownGauge
    BY <1>1, <1>8 DEF ShownGauge
  <2> QED  BY <1>5, <1>6, <1>7, <2>1, <2>2 DEF GaugeInv, Rises
<1>9. CASE held' # NoHeld
  <2>1. held'.batch = batch + 1 /\ held'.value = live /\ held'.applied = 0
    BY <1>9 DEF Holding
  <2>2. HeldBehind'
    <3>1. \A f \in flights' : ~f.dialog => f.batch # held'.batch
      BY <1>2, <1>3, <2>1
    <3>2. ASSUME NEW i \in 1..Len(queue'), Pop(queue'[i]), queue'[i].batch = held'.batch
          PROVE  held'.value <= queue'[i].value - Balls
      <4>1. i - r \in 1..b.figures /\ queue'[i].value = live + Balls * (i - r)
        BY <1>4, <2>1, <3>2
      <4> QED  BY <2>1, <4>1 DEF Balls
    <3> QED  BY <1>1, <2>1, <3>1, <3>2 DEF HeldBehind
  <2>3. ShownGauge' >= ShownGauge
    BY <1>9, <2>1 DEF ShownGauge
  <2> QED  BY <1>5, <1>6, <1>7, <2>2, <2>3 DEF GaugeInv, Rises
<1> QED  BY <1>8, <1>9

\* One effect more at the end of a queue.
LEMMA OneMore ==
  ASSUME NEW y \in Seq(Effects), NEW d \in Effects, NEW q, q = y \o <<d>>
  PROVE  /\ Len(q) = Len(y) + 1
         /\ \A i \in 1..Len(q) : q[i] = IF i <= Len(y) THEN y[i] ELSE d
<1> DEFINE e == <<d>>
<1>1. e \in Seq(Effects) /\ Len(e) = 1 /\ e[1] = d
  OBVIOUS
<1>2. q = y \o e
  OBVIOUS
<1> HIDE DEF e
<1>3. Len(y) \in Nat
  BY LenProperties
<1>4. /\ Len(q) = Len(y) + 1
      /\ \A i \in 1..Len(y) + 1 : q[i] = IF i <= Len(y) THEN y[i] ELSE e[i - Len(y)]
  BY <1>1, <1>2, ConcatProperties
<1>5. \A i \in 1..Len(y) + 1 : ~(i <= Len(y)) => i - Len(y) = 1
  BY <1>3
<1> QED  BY <1>1, <1>4, <1>5

LEMMA BatchRises ==
  ASSUME StoryInv, GaugeInv, NEW b \in Batches, NEW now, Found(now), Apply(b, now)
  PROVE  GaugeInv' /\ Rises
<1> USE GaugeFacts
<1>0. now.flights \subseteq flights
  BY OnScreen
<1> DEFINE n == Len(queue)
           s == serial + 1
           x == IF Still THEN <<>> ELSE Reveals(b, s) \o Pops(b, s)
           d == [kind |-> "done", of |-> s]
<1>1. Types /\ serial \in Nat /\ s \in Nat /\ batch < MaxBatches /\ n \in Nat
  BY DEF StoryInv, Types, Apply
<1>2. CASE ~Up
  <2>1. /\ held' \in {NoHeld, Holding(b)} /\ flights' \subseteq flights \cup Thrown(b)
        /\ queue' = queue
    BY <1>2 DEF Apply, Flying, fx
  <2>2. \A i \in 1..Len(queue') : ~(i > n)
    BY <2>1
  <2>3. \A i \in 1..Len(queue') : i <= n => queue'[i] = queue[i]
    BY <2>1
  <2>4. 0 \in Nat /\ Len(queue') \in Nat
    BY <2>1
  <2>5. Ahead(n) /\ Behind(b, n, 0)
    BY <2>2, <2>3 DEF Ahead, Behind
  <2> QED  BY <1>1, <2>1, <2>4, <2>5, ApplyRises
<1>3. CASE Up
  <2>1. /\ held' \in {NoHeld, Holding(b)} /\ flights' \subseteq flights \cup Thrown(b)
        /\ queue' = queue \o x \o <<d>>
    BY <1>0, <1>3 DEF Apply, Enqueue, Flying, Done
  <2>2. x \in Seq(Effects) /\ Numbered(b, x)
    <3>1. CASE Still
      <4>1. x = <<>>
        BY <3>1
      <4> HIDE DEF x
      <4>2. x \in Seq(Effects) /\ 1..Len(x) = {} /\ 0 \in Nat
        BY <4>1
      <4> QED  BY <4>2 DEF Numbered
    <3>2. CASE ~Still
      <4>1. x = Reveals(b, s) \o Pops(b, s)
        BY <3>2
      <4> HIDE DEF x, s
      <4>2. Types /\ batch < MaxBatches /\ s \in Nat
        BY <1>1
      <4>3. x \in Seq(Effects) /\ Numbered(b, x)
        BY <4>1, <4>2, NewPops
      <4> QED  BY <4>3
    <3> QED  BY <3>1, <3>2
  <2>3. PICK r0 \in Nat : \A i \in 1..Len(x) : Pop(x[i]) =>
              /\ i - r0 \in 1..b.figures /\ ~b.dialog
              /\ x[i].figure = i - r0 /\ x[i].value = live + Balls * (i - r0) /\ x[i].batch = batch + 1
    BY <2>2 DEF Numbered
  <2>4. d \in Effects /\ ~Pop(d)
    BY <1>1 DEF Effects, Pop
  <2> HIDE DEF x, d
  <2> DEFINE y == queue \o x
  <2>5. /\ y \in Seq(Effects) /\ Len(y) = n + Len(x) /\ Len(x) \in Nat
        /\ \A i \in 1..Len(y) : y[i] = IF i <= n THEN queue[i] ELSE x[i - n]
    BY <2>2, ConcatProperties
  <2>6. queue' = y \o <<d>>
    BY <2>1
  <2> HIDE DEF y
  <2>7. /\ Len(queue') = Len(y) + 1
        /\ \A i \in 1..Len(queue') : queue'[i] = IF i <= Len(y) THEN y[i] ELSE d
    <3>1. y \in Seq(Effects) /\ d \in Effects
      BY <2>4, <2>5
    <3> QED  BY ONLY <3>1, <2>6, OneMore
  <2> DEFINE r == n + r0
  <2>8. r \in Nat /\ Len(queue') \in Nat
    BY <1>1, <2>5, <2>7
  <2>9. \A i \in 1..Len(queue') : i <= n => queue'[i] = queue[i]
    BY <1>1, <2>5, <2>7
  <2>10. ASSUME NEW i \in 1..Len(queue'), i > n, Pop(queue'[i])
         PROVE  /\ i - r \in 1..b.figures /\ ~b.dialog
                /\ queue'[i].figure = i - r /\ queue'[i].value = live + Balls * (i - r)
                /\ queue'[i].batch = batch + 1
    <3> DEFINE j == i - n
    <3>1. i <= Len(y)
      BY <2>4, <2>7, <2>10
    <3>2. j \in 1..Len(x) /\ queue'[i] = x[j] /\ j - r0 = i - r
      BY <1>1, <2>5, <2>7, <2>10, <3>1
    <3> HIDE DEF j, r
    <3> QED  BY <2>3, <2>10, <3>2
  <2>11. Ahead(n)
    BY <2>9 DEF Ahead
  <2>12. Behind(b, n, r)
    BY <1>1, <2>8, <2>10 DEF Behind
  <2>13. held' \in {NoHeld, Holding(b)} /\ flights' \subseteq flights \cup Thrown(b)
    BY <2>1
  <2>14. n \in Nat /\ n = Len(queue)
    BY <1>1
  <2> HIDE DEF r, n
  <2> QED  BY <2>8, <2>11, <2>12, <2>13, <2>14, ApplyRises
<1> QED  BY <1>2, <1>3

\* Whatever else happens takes figures away, or lets go of the gauge.
LEMMA StepRises ==
  ASSUME StoryInv, GaugeInv, [StoryNext]_storyVars
  PROVE  GaugeInv' /\ Rises
<1> USE GaugeFacts
<1>1. ASSUME UNCHANGED <<live, batch>>, flights' \subseteq flights, held' \in {held, NoHeld},
             queue' = queue \/ queue' = <<>>
      PROVE  GaugeInv' /\ Rises
  <2>1. Len(queue') \in Nat /\ \A i \in 1..Len(queue') : i + 0 \in 1..Len(queue) /\ queue'[i] = queue[i + 0]
    <3>1. CASE queue' = queue
      BY <3>1
    <3>2. CASE queue' = <<>>
      <4>1. Len(queue') = 0
        BY <3>2
      <4> QED  BY <4>1
    <3> QED  BY <1>1, <3>1, <3>2
  <2>2. 0 \in Nat
    OBVIOUS
  <2> QED  BY <1>1, <2>1, <2>2, GaugeLess
<1>2. CASE Dispatch \/ Entry
  <2>1. PICK b \in Batches : Apply(b, IF pending THEN CutShort ELSE Told)
    BY <1>2 DEF Dispatch, Entry
  <2>2. Found(IF pending THEN CutShort ELSE Told)
    BY DEF Found
  <2> QED  BY <2>1, <2>2, BatchRises
<1>3. CASE Frame
  <2> DEFINE e == Head(queue)
  <2>1. /\ queue # <<>> /\ queue' = Tail(queue) /\ UNCHANGED <<live, batch>>
        /\ PlayReveal(e) \/ PlayPop(e) \/ PlayDone(e)
    BY <1>3 DEF Frame, session
  <2>2. Len(queue') \in Nat /\ \A i \in 1..Len(queue') : i + 1 \in 1..Len(queue) /\ queue'[i] = queue[i + 1]
    <3>1. /\ Len(queue) \in Nat /\ Len(queue) # 0 /\ Len(Tail(queue)) = Len(queue) - 1
          /\ \A i \in 1..Len(Tail(queue)) : Tail(queue)[i] = queue[i + 1]
      BY <2>1, HeadTailProperties, EmptySeq, LenProperties
    <3> QED  BY <2>1, <3>1
  <2>3. CASE Pop(e) /\ Announce(e.batch, e.figure, e.value, FALSE)
    BY <2>1, <2>3, AnnounceRises
  <2>4. CASE ~(Pop(e) /\ Announce(e.batch, e.figure, e.value, FALSE))
    <3>1. flights' \subseteq flights /\ held' \in {held, NoHeld}
      BY <2>1, <2>4 DEF PlayReveal, PlayPop, PlayDone, Ends, Flying, store, Pop
    <3>2. 1 \in Nat
      OBVIOUS
    <3> QED  BY <2>1, <2>2, <3>1, <3>2, GaugeLess
  <2> QED  BY <2>3, <2>4
<1>4. CASE Land
  BY <1>4, LandRises DEF Land
<1>5. CASE Skip \/ Hide
  BY <1>1, <1>5 DEF Skip, Hide, Cut, CutShort, Flying, session, store
<1>6. CASE Watchdog
  BY <1>1, <1>6 DEF Watchdog, WatchdogFires, Cut, CutShort, Flying, session, store
<1>7. CASE ShowTab \/ OpenModal \/ CloseModal
  BY <1>1, <1>7 DEF ShowTab, OpenModal, CloseModal, session, store, fx
<1>8. CASE SceneLost
  BY <1>1, <1>8 DEF SceneLost, Unwait, Flying, session
<1>9. CASE SceneBuilt
  BY <1>1, <1>9 DEF SceneBuilt, Unwait, Flying, session, store
<1>10. CASE UNCHANGED storyVars
  BY <1>1, <1>10 DEF storyVars, session, store, fx
<1> QED  BY <1>2, <1>3, <1>4, <1>5, <1>6, <1>7, <1>8, <1>9, <1>10 DEF StoryNext

\* With no figure of a dialog in the air, no step of the page, the canvas or the run
\* moves a gauge back, however late a figure lands (gauges.ts HeldGauges).
THEOREM TheGaugeOnlyRises == StorySpec => GaugeOnlyRises
<1>1. StoryInit => GaugeInv
  <2> SUFFICES ASSUME StoryInit PROVE GaugeInv
    OBVIOUS
  <2>1. flights = {} /\ held = NoHeld /\ 1..Len(queue) = {}
    BY DEF StoryInit
  <2> QED  BY <2>1 DEF GaugeInv, CuesInOrder, DialogsApart, CuesOfTheRun, HeldBehind
<1>2. StoryInv /\ GaugeInv /\ [StoryNext]_storyVars => GaugeInv' /\ Rises
  BY StepRises
<1>3. StorySpec => []StoryInv
  BY InitStory, StepStory, PTL DEF StorySpec
<1>4. StoryInv /\ GaugeInv /\ [StoryNext]_storyVars => [(\A f \in flights : ~f.dialog) => ShownGauge' >= ShownGauge]_storyVars
  BY <1>2 DEF Rises
<1> QED  BY <1>1, <1>2, <1>3, <1>4, PTL DEF StorySpec, GaugeOnlyRises

-----------------------------------------------------------------------------
(*                                THE ACCOUNT                              *)
(*                                                                         *)
(* The versions carry all three.  A version only grows, a copy read from    *)
(* the account is the account's for as long as the versions are the same,   *)
(* and no copy in a browser is of a version the account has not reached.    *)

Progress == [xp : Nat, ver : Int]
Log == {l \in [id : Nat, len : Nat, claim : Nat, edited : BOOLEAN] : l.edited => l.id \in Panel}
CallOf == [kind : {"profile", "meta", "push", "drop", "submit"}, run : Log]
Row == [status : {"none", "in_progress", "abandoned", "finished", "rejected"}, len : Nat,
        claim : Nat, edited : BOOLEAN, awards : Nat]
Rows == {f \in [Runs -> Row] : \A r \in Runs : f[r].edited => r \in Panel}
Page == [stage : {"closed", "setup", "running", "over"}, meta : Progress,
         run : Log, resumable : Log, dirty : BOOLEAN, submitted : BOOLEAN,
         state : {"offline", "syncing", "synced", "conflict", "error"}]
Queries == {"start", "write", "update", "create", "insert", "existing", "award"}

AccountTypes ==
  /\ tab \in [Tabs -> Page]
  /\ disk \in [meta : Progress, run : Log]
  /\ sync \in [Tabs -> [local : Progress, incoming : Progress,
                        first : BOOLEAN, again : BOOLEAN]]
  /\ calls \in [Tabs -> Seq(CallOf)]
  /\ step \in [Tabs -> [at : Queries, stored : Progress]]
  /\ profile \in Progress
  /\ rows \in Rows

\* A tab that stands at a query has the call it belongs to.
AtACall == \A t \in Tabs : step[t].at # "start" => calls[t] # <<>>

\* What a call has read is the account, unless the account has moved on.
Known(stored, account) ==
  /\ stored = NoProfile \/ stored.ver >= 1
  /\ stored.ver <= account.ver
  /\ stored.ver = account.ver => stored = account
ReadsAreKnown == Known(profile, profile) /\ \A t \in Tabs : Known(step[t].stored, profile)

\* A submission that may still award a run will meet another version if the run
\* was awarded, and only a finished run is awarded.
Submits(t, r, query) == At(t, "submit", query) /\ Run(t).id = r
AwardsAreOver ==
  \A r \in Runs \ Panel :
    /\ rows[r].awards <= 1
    /\ rows[r].awards = 1 => rows[r].status = "finished"
    /\ \A t \in Tabs :
         /\ Submits(t, r, "award") => rows[r].status = "finished"
         /\ (Submits(t, r, "write") \/ Submits(t, r, "award")) /\ rows[r].awards = 1 =>
              step[t].stored.ver < profile.ver

\* No copy is ahead of the account.
NotAhead(meta, ver) == meta.ver <= 0 \/ meta.ver <= ver
CopiesAreBehind ==
  /\ NotAhead(disk.meta, profile.ver)
  /\ \A t \in Tabs :
       /\ NotAhead(tab[t].meta, profile.ver)
       /\ NotAhead(sync[t].local, profile.ver)
       /\ NotAhead(sync[t].incoming, profile.ver)
       /\ At(t, "meta", "write") => NotAhead(sync[t].incoming, step[t].stored.ver)

\* What is on its way to the account covers what the page knew.
IncomingCovers ==
  \A t \in Tabs : Queued(t, "meta") => sync[t].incoming.xp >= sync[t].local.xp

\* A submission goes on only for a player who has an account.
SubmitsForAnAccount ==
  \A t \in Tabs : \A query \in Queries \ {"start"} :
    At(t, "submit", query) => step[t].stored # NoProfile

AccountsInv ==
  /\ AccountTypes /\ AtACall /\ ReadsAreKnown /\ SubmitsForAnAccount /\ AwardsAreOver /\ CopiesAreBehind /\ IncomingCovers

-----------------------------------------------------------------------------
(* Operators *)

LEMMA MaxOfTwo ==
  ASSUME NEW a \in Int, NEW b \in Int
  PROVE  Max({a, b}) \in {a, b} /\ Max({a, b}) >= a /\ Max({a, b}) >= b
<1>1. \E x \in {a, b} : \A y \in {a, b} : x >= y
  OBVIOUS
<1> QED  BY <1>1 DEF Max

\* mergeMeta() is of both copies, and below neither.
LEMMA MergeIsTheBetter ==
  ASSUME NEW a \in Progress, NEW b \in Progress
  PROVE  /\ MergeMeta(a, b) \in Progress
         /\ MergeMeta(a, b).xp >= a.xp /\ MergeMeta(a, b).xp >= b.xp
         /\ MergeMeta(a, b).ver \in {a.ver, b.ver}
<1>1. {a.xp, b.xp, a.ver, b.ver} \subseteq Int /\ {a.xp, b.xp} \subseteq Nat
  BY DEF Progress
<1> QED  BY <1>1, MaxOfTwo DEF MergeMeta, Progress

LEMMA Constants ==
  NoRun \in Log /\ Fresh \in Progress /\ NoProfile \in Progress
BY DEF NoRun, Log, Fresh, NoProfile, Progress

LEMMA InitHolds == Init => AccountsInv
<1> SUFFICES ASSUME Init PROVE AccountsInv
  OBVIOUS
<1>1. AccountTypes
  <2>1. NoPage \in Page
    BY Constants DEF NoPage, Page
  <2>2. NoSync \in [local : Progress, incoming : Progress, first : BOOLEAN, again : BOOLEAN]
    BY Constants DEF NoSync
  <2>3. NoStep \in [at : Queries, stored : Progress] /\ NoRow \in Row /\ ~NoRow.edited
    BY Constants DEF NoStep, NoRow, Row, Queries
  <2>4. rows \in Rows
    <3>1. rows = [r \in Runs |-> NoRow]
      BY DEF Init
    <3> QED  BY <2>3, <3>1 DEF Rows
  <2> QED  BY <2>1, <2>2, <2>3, <2>4, Constants DEF Init, AccountTypes
<1>2. \A t \in Tabs : calls[t] = <<>> /\ step[t] = NoStep /\ sync[t] = NoSync /\ tab[t] = NoPage
  BY DEF Init
<1>3. AtACall /\ ReadsAreKnown
  BY <1>2 DEF Init, AtACall, ReadsAreKnown, Known, NoStep, NoProfile
<1>4. AwardsAreOver
  BY <1>2 DEF Init, AwardsAreOver, Submits, At, NoRow
<1>5. CopiesAreBehind
  BY <1>2 DEF Init, CopiesAreBehind, NotAhead, At, NoSync, NoPage, Fresh
<1>6. IncomingCovers
  BY <1>2 DEF IncomingCovers, Queued
<1>7. SubmitsForAnAccount
  BY <1>2 DEF SubmitsForAnAccount, At
<1> QED  BY <1>1, <1>3, <1>4, <1>5, <1>6, <1>7 DEF AccountsInv

-----------------------------------------------------------------------------
(* How the calls of a tab move on *)

\* A tab stays at its query, whatever is appended to its calls.
Stays(u) ==
  /\ step'[u] = step[u]
  /\ step[u].at # "start" => calls'[u] # <<>> /\ Head(calls'[u]) = Head(calls[u])

LEMMA Appended ==
  ASSUME NEW s \in Seq(CallOf), NEW c \in CallOf
  PROVE  /\ Append(s, c) \in Seq(CallOf) /\ Append(s, c) # <<>>
         /\ s # <<>> => Head(Append(s, c)) = Head(s)
<1>1. s # <<>> => 1 \in 1..Len(s)
  OBVIOUS
<1> QED  BY <1>1, AppendProperties

LEMMA FirstCall ==
  ASSUME NEW s \in Seq(CallOf), s # <<>>
  PROVE  Head(s) \in CallOf /\ Tail(s) \in Seq(CallOf)
OBVIOUS

LEMMA CallIsACall ==
  ASSUME NEW sort \in {"profile", "meta", "push", "drop", "submit"}, NEW run \in Log
  PROVE  Call(sort, run) \in CallOf /\ Call(sort, run).kind = sort
BY DEF Call, CallOf

\* The call under way when a page is left.
LEMMA KeptHead ==
  ASSUME NEW s \in Seq(CallOf), s # <<>>
  PROVE  LET kept == <<Head(s)>>
         IN /\ kept \in Seq(CallOf) /\ kept # <<>> /\ Head(kept) = Head(s)
            /\ \A i \in DOMAIN kept : 1 \in DOMAIN s /\ kept[i] = s[1]
<1>1. Head(s) \in CallOf /\ Head(s) = s[1] /\ 1 \in DOMAIN s
  BY FirstCall, HeadTailProperties, LenProperties, EmptySeq
<1> DEFINE first == Head(s)
           kept == <<first>>
<1>2. first \in CallOf /\ first = s[1]
  BY <1>1
<1> HIDE DEF first
<1>3. /\ kept \in Seq(CallOf) /\ kept # <<>> /\ Head(kept) = first
      /\ \A i \in DOMAIN kept : kept[i] = first
  BY <1>2
<1> QED  BY <1>1, <1>2, <1>3 DEF first

\* The page sends a call.
LEMMA Sends ==
  ASSUME AccountTypes, AtACall, NEW t \in Tabs, NEW c \in CallOf,
         calls' = [calls EXCEPT ![t] = Append(@, c)], UNCHANGED step
  PROVE  calls' \in [Tabs -> Seq(CallOf)] /\ \A u \in Tabs : Stays(u)
<1>1. \A u \in Tabs : calls'[u] = IF u = t THEN Append(calls[t], c) ELSE calls[u]
  BY DEF AccountTypes
<1>2. calls[t] \in Seq(CallOf)
  BY DEF AccountTypes
<1> QED  BY <1>1, <1>2, Appended DEF AccountTypes, Stays, AtACall

\* A call is answered, and may be followed by another of the page.
LEMMA Answers ==
  ASSUME AccountTypes, AtACall, NEW t \in Tabs, calls[t] # <<>>,
         Answered(t) \/ \E sort \in {"profile", "meta"} : AnsweredThen(t, sort)
  PROVE  /\ calls' \in [Tabs -> Seq(CallOf)]
         /\ step' = [step EXCEPT ![t] = NoStep]
         /\ step' \in [Tabs -> [at : Queries, stored : Progress]]
         /\ step'[t] = NoStep /\ \A u \in Tabs \ {t} : Stays(u)
<1>1. NoStep \in [at : Queries, stored : Progress]
  BY Constants DEF NoStep, Queries
<1>2. Tail(calls[t]) \in Seq(CallOf)
  BY FirstCall DEF AccountTypes
<1>3. CASE Answered(t)
  BY <1>1, <1>2, <1>3 DEF Answered, AccountTypes, Stays, AtACall
<1>4. ASSUME NEW sort \in {"profile", "meta"}, AnsweredThen(t, sort)
      PROVE  /\ calls' \in [Tabs -> Seq(CallOf)]
             /\ step' = [step EXCEPT ![t] = NoStep]
             /\ step' \in [Tabs -> [at : Queries, stored : Progress]]
             /\ step'[t] = NoStep /\ \A u \in Tabs \ {t} : Stays(u)
  <2>1. Append(Tail(calls[t]), Call(sort, NoRun)) \in Seq(CallOf)
    BY <1>2, CallIsACall, Appended, Constants
  <2> QED  BY <1>1, <1>4, <2>1 DEF AnsweredThen, AccountTypes, Stays, AtACall
<1> QED  BY <1>3, <1>4

\* A call goes on to its next query.
LEMMA GoesOn ==
  ASSUME AccountTypes, AtACall, NEW t \in Tabs, calls[t] # <<>>, NEW query \in Queries,
         GoesTo(t, query)
  PROVE  /\ calls' = calls
         /\ step' \in [Tabs -> [at : Queries, stored : Progress]]
         /\ step'[t].at = query /\ step'[t].stored = step[t].stored
         /\ \A u \in Tabs \ {t} : Stays(u)
BY DEF GoesTo, AccountTypes, Stays, AtACall, Queries

LEMMA ReadsOn ==
  ASSUME AccountTypes, AtACall, NEW t \in Tabs, calls[t] # <<>>, NEW query \in Queries,
         Reads(t, query)
  PROVE  /\ calls' = calls
         /\ step' \in [Tabs -> [at : Queries, stored : Progress]]
         /\ step'[t].at = query /\ step'[t].stored = profile
         /\ \A u \in Tabs \ {t} : Stays(u)
<1>1. step'[t] = [at |-> query, stored |-> profile]
  BY DEF Reads, AccountTypes
<1>2. step'[t] \in [at : Queries, stored : Progress]
  BY <1>1 DEF AccountTypes
<1> QED  BY <1>1, <1>2 DEF Reads, AccountTypes, Stays, AtACall

-----------------------------------------------------------------------------
(* The page *)

\* Whatever the page does, no query moves and the account is not touched.
PageStep(t) == Open(t) \/ Leave(t) \/ Start(t) \/ Resume(t) \/ Move(t) \/ Save(t) \/ PlayAgain(t) \/ Press(t)

LEMMA PickIsOneOf ==
  ASSUME NEW a \in Log, NEW b \in Log
  PROVE  PickLonger(a, b) \in {a, b}
BY DEF PickLonger

LEMMA ServedIsALog ==
  ASSUME AccountTypes, NEW served \in FindOpenRun
  PROVE  served \in Log
<1>1. CASE InProgress = {}
  BY <1>1, Constants DEF FindOpenRun
<1>2. CASE InProgress # {}
  <2>1. PICK r \in InProgress :
          served = [id |-> r, len |-> rows[r].len, claim |-> rows[r].claim, edited |-> rows[r].edited]
    BY <1>2 DEF FindOpenRun
  <2>2. r \in Runs /\ r \in Nat
    BY <2>1, AccountBounds DEF InProgress, Runs
  <2>3. rows[r] \in Row /\ (rows[r].edited => r \in Panel)
    BY <2>2 DEF AccountTypes, Rows
  <2>4. rows[r].len \in Nat /\ rows[r].claim \in Nat /\ rows[r].edited \in BOOLEAN
    BY <2>3 DEF Row
  <2> QED  BY <2>1, <2>2, <2>3, <2>4 DEF Log
<1> QED  BY <1>1, <1>2

\* Only the runs of the panel are edited.
LEMMA LongerIsALog ==
  ASSUME NEW run \in Log, NEW more \in Longer(run)
  PROVE  more \in Log /\ more.len \in Nat
<1>1. PICK by \in {run.edited} \cup {panel \in {TRUE} : run.id \in Panel /\ run.len + 1 \in PanelAt} :
        more = [run EXCEPT !.len = @ + 1, !.edited = by]
  BY DEF Longer
<1>2. by \in BOOLEAN /\ (by => run.id \in Panel)
  BY DEF Log
<1>3. run \in [id : Nat, len : Nat, claim : Nat, edited : BOOLEAN] /\ run.len + 1 \in Nat
  BY DEF Log
<1> DEFINE len == run.len + 1
<1>4. more = [run EXCEPT !.len = len, !.edited = by] /\ len \in Nat
  BY <1>1, <1>3
<1> HIDE DEF len
<1>5. /\ more \in [id : Nat, len : Nat, claim : Nat, edited : BOOLEAN]
      /\ more.id = run.id /\ more.len = len /\ more.edited = by
  BY <1>2, <1>3, <1>4
<1> QED  BY <1>2, <1>4, <1>5 DEF Log

LEMMA PageCalls ==
  ASSUME AccountTypes, AtACall, NEW t \in Tabs, PageStep(t)
  PROVE  /\ calls' \in [Tabs -> Seq(CallOf)] /\ step' = step
         /\ \A u \in Tabs : Stays(u)
<1> DEFINE Goal == /\ calls' \in [Tabs -> Seq(CallOf)] /\ step' = step
                  /\ \A u \in Tabs : Stays(u)
<1>1. CASE UNCHANGED calls /\ UNCHANGED step
  BY <1>1 DEF AccountTypes, AtACall, Stays
<1>2. ASSUME NEW c \in CallOf, calls' = [calls EXCEPT ![t] = Append(@, c)], UNCHANGED step
      PROVE  Goal
  BY <1>2, Sends
<1>3. \A run \in Log : Call("drop", run) \in CallOf /\ Call("push", run) \in CallOf
                      /\ Call("submit", run) \in CallOf /\ Call("profile", run) \in CallOf
  BY DEF Call, CallOf
<1>4. tab[t] \in Page /\ tab[t].run \in Log
  BY DEF AccountTypes, Page
<1>5. CASE Open(t)
  <2>1. calls' = [calls EXCEPT ![t] = <<Call("profile", NoRun)>>] /\ UNCHANGED step /\ step[t].at = "start"
    BY <1>5 DEF Open
  <2>2. Call("profile", NoRun) \in CallOf
    BY <1>3, Constants
  <2> QED  BY <2>1, <2>2 DEF AccountTypes, AtACall, Stays
<1>11. CASE Leave(t)
  <2> DEFINE kept == <<Head(calls[t])>>
  <2>1. calls' = [calls EXCEPT ![t] = kept] /\ UNCHANGED step /\ calls[t] # <<>> /\ calls[t] \in Seq(CallOf)
    BY <1>11 DEF Leave, AccountTypes
  <2>2. kept \in Seq(CallOf) /\ kept # <<>> /\ Head(kept) = Head(calls[t])
    BY <2>1, KeptHead
  <2> HIDE DEF kept
  <2> QED  BY <2>1, <2>2 DEF AccountTypes, AtACall, Stays
<1>6. CASE Start(t) \/ Resume(t)
  BY <1>1, <1>6 DEF Start, Resume
<1>7. CASE Move(t)
  <2>3. PICK run \in Longer(tab[t].run) :
          calls' = calls \/ calls' = [calls EXCEPT ![t] = Append(@, Call("drop", run))]
    BY <1>7 DEF Move
  <2>1. run \in Log
    BY <1>4, LongerIsALog
  <2>2. (calls' = calls \/ calls' = [calls EXCEPT ![t] = Append(@, Call("drop", run))]) /\ UNCHANGED step
    BY <1>7, <2>3 DEF Move
  <2> QED  BY <1>1, <1>2, <1>3, <2>1, <2>2
<1>8. CASE Save(t)
  <2>1. (calls' = calls \/ calls' = [calls EXCEPT ![t] = Append(@, Call("push", tab[t].run))]) /\ UNCHANGED step
    BY <1>8 DEF Save
  <2> QED  BY <1>1, <1>2, <1>3, <1>4, <2>1
<1>9. CASE PlayAgain(t)
  <2>1. (calls' = calls \/ calls' = [calls EXCEPT ![t] = Append(@, Call("drop", tab[t].run))]) /\ UNCHANGED step
    BY <1>9 DEF PlayAgain
  <2> QED  BY <1>1, <1>2, <1>3, <1>4, <2>1
<1>10. CASE Press(t)
  <2>1. calls' = [calls EXCEPT ![t] = Append(@, Call("submit", tab[t].run))] /\ UNCHANGED step
    BY <1>10 DEF Press
  <2> QED  BY <1>2, <1>3, <1>4, <2>1
<1> QED  BY <1>5, <1>6, <1>7, <1>8, <1>9, <1>10, <1>11 DEF PageStep

LEMMA AppliedIsProgress ==
  ASSUME NEW meta \in Progress, NEW moves \in Nat
  PROVE  /\ ApplyRunToMeta(meta, moves) \in Progress
         /\ ApplyRunToMeta(meta, moves).ver = meta.ver
         /\ ApplyRunToMeta(meta, moves).xp = meta.xp + moves
BY DEF ApplyRunToMeta, Progress

LEMMA SavedIsOneOf ==
  ASSUME NEW a \in Log, NEW b \in Log
  PROVE  WriteLocalRun(a, b) \in {a, b}
BY DEF WriteLocalRun

\* What a page holds is of versions it already had.
LEMMA PageData ==
  ASSUME AccountTypes, NEW t \in Tabs, PageStep(t)
  PROVE  /\ tab' \in [Tabs -> Page] /\ disk' \in [meta : Progress, run : Log]
         /\ \A u \in Tabs \ {t} : tab'[u] = tab[u]
         /\ tab'[t].meta.ver \in {tab[t].meta.ver, disk.meta.ver, 0}
         /\ disk'.meta.ver \in {tab[t].meta.ver, disk.meta.ver}
<1> DEFINE Goal == /\ tab' \in [Tabs -> Page] /\ disk' \in [meta : Progress, run : Log]
                  /\ \A u \in Tabs \ {t} : tab'[u] = tab[u]
                  /\ tab'[t].meta.ver \in {tab[t].meta.ver, disk.meta.ver, 0}
                  /\ disk'.meta.ver \in {tab[t].meta.ver, disk.meta.ver}
<1>1. tab[t] \in Page /\ tab[t].run \in Log /\ tab[t].resumable \in Log
      /\ tab[t].meta \in Progress /\ disk.meta \in Progress /\ disk.run \in Log
  BY DEF AccountTypes, Page
<1>2. ASSUME NEW leaf \in Page, tab' = [tab EXCEPT ![t] = leaf],
             leaf.meta.ver \in {tab[t].meta.ver, disk.meta.ver, 0},
             NEW meta \in Progress, NEW run \in Log, disk' = [meta |-> meta, run |-> run],
             meta.ver \in {tab[t].meta.ver, disk.meta.ver}
      PROVE  Goal
  BY <1>2 DEF AccountTypes
<1>3. disk = [meta |-> disk.meta, run |-> disk.run]
  BY DEF AccountTypes
<1>4. CASE Open(t)
  <2>1. PICK served \in FindOpenRun :
          tab' = [tab EXCEPT ![t] = [NoPage EXCEPT !.stage = "setup", !.meta = disk.meta,
                    !.resumable = PickLonger(disk.run, served), !.state = "syncing"]]
    BY <1>4 DEF Open
  <2>2. PickLonger(disk.run, served) \in Log
    BY <1>1, ServedIsALog, PickIsOneOf
  <2>3. [NoPage EXCEPT !.stage = "setup", !.meta = disk.meta,
           !.resumable = PickLonger(disk.run, served), !.state = "syncing"] \in Page
    BY <1>1, <2>2, Constants DEF NoPage, Page
  <2>4. disk' = disk
    BY <1>4 DEF Open
  <2> QED  BY <1>1, <1>2, <1>3, <2>1, <2>3, <2>4 DEF NoPage
<1>5. CASE Start(t)
  <2> DEFINE left == PickLonger(disk.run, tab[t].resumable)
             meta == IF left.len > 0 /\ ~Finished(left) THEN ApplyRunToMeta(tab[t].meta, left.len)
                     ELSE tab[t].meta
             run == [id |-> CHOOSE r \in Unused : TRUE, len |-> 0, claim |-> meta.xp, edited |-> FALSE]
             leaf == [tab[t] EXCEPT !.stage = "running", !.meta = meta, !.run = run, !.submitted = FALSE]
  <2>1. left \in Log
    BY <1>1, PickIsOneOf
  <2> HIDE DEF left
  <2>2. meta \in Progress /\ meta.ver = tab[t].meta.ver
    <3>1. left.len \in Nat
      BY <2>1 DEF Log
    <3> QED  BY <1>1, <3>1, AppliedIsProgress
  <2> HIDE DEF meta
  <2>3. run \in Log
    <3>1. (CHOOSE r \in Unused : TRUE) \in Unused
      BY <1>5 DEF Start
    <3>2. Unused \subseteq Nat
      BY AccountBounds DEF Unused, Runs
    <3> QED  BY <2>2, <3>1, <3>2 DEF Log, Progress
  <2> HIDE DEF run
  <2>4. leaf \in Page /\ leaf.meta = meta
    BY <1>1, <2>2, <2>3 DEF Page
  <2>5. /\ tab' = [tab EXCEPT ![t] = leaf]
        /\ disk' = [meta |-> IF meta = tab[t].meta THEN disk.meta ELSE meta, run |-> NoRun]
    BY <1>5 DEF Start, left, meta, run, AccountTypes
  <2> HIDE DEF leaf
  <2> QED  BY <1>1, <1>2, <2>2, <2>4, <2>5, Constants
<1>6. CASE Resume(t)
  <2> DEFINE leaf == [tab[t] EXCEPT !.stage = "running", !.run = tab[t].resumable, !.submitted = FALSE]
  <2>1. leaf \in Page /\ leaf.meta = tab[t].meta
    BY <1>1 DEF Page
  <2>2. tab' = [tab EXCEPT ![t] = leaf] /\ disk' = disk
    BY <1>6 DEF Resume, AccountTypes
  <2> QED  BY <1>1, <1>2, <1>3, <2>1, <2>2
<1>7. CASE Move(t)
  <2> DEFINE meta(run) == ApplyRunToMeta(tab[t].meta, run.len)
             on(run) == [tab[t] EXCEPT !.run = run, !.dirty = TRUE]
             over(run) == [tab[t] EXCEPT !.run = run, !.stage = "over", !.meta = meta(run), !.dirty = FALSE]
  <2>1. PICK run \in Longer(tab[t].run) :
          \/ tab' = [tab EXCEPT ![t] = on(run)] /\ disk' = disk
          \/ tab' = [tab EXCEPT ![t] = over(run)] /\ disk' = [meta |-> meta(run), run |-> NoRun]
    BY <1>7 DEF Move, AccountTypes
  <2>2. run \in Log /\ run.len \in Nat
    BY <1>1, LongerIsALog
  <2>3. meta(run) \in Progress /\ meta(run).ver = tab[t].meta.ver
    BY <1>1, <2>2, AppliedIsProgress
  <2> HIDE DEF meta
  <2>4. on(run) \in Page /\ on(run).meta = tab[t].meta /\ over(run) \in Page /\ over(run).meta = meta(run)
    BY <1>1, <2>2, <2>3 DEF Page
  <2> HIDE DEF on, over
  <2> QED  BY <1>1, <1>2, <1>3, <2>1, <2>3, <2>4, Constants
<1>8. CASE Save(t)
  <2> DEFINE leaf == [tab[t] EXCEPT !.dirty = FALSE]
  <2>1. leaf \in Page /\ leaf.meta = tab[t].meta
    BY <1>1 DEF Page
  <2>2. tab' = [tab EXCEPT ![t] = leaf]
    BY <1>8 DEF Save, AccountTypes
  <2>3. disk' = [meta |-> disk.meta, run |-> WriteLocalRun(disk.run, tab[t].run)]
    BY <1>3, <1>8 DEF Save
  <2>4. WriteLocalRun(disk.run, tab[t].run) \in Log
    BY <1>1, SavedIsOneOf
  <2> HIDE DEF leaf
  <2> QED  BY <1>1, <1>2, <2>1, <2>2, <2>3, <2>4
<1>9. CASE PlayAgain(t)
  <2> DEFINE leaf == [tab[t] EXCEPT !.stage = "setup", !.run = NoRun, !.resumable = NoRun]
  <2>1. leaf \in Page /\ leaf.meta = tab[t].meta
    BY <1>1, Constants DEF Page
  <2>2. tab' = [tab EXCEPT ![t] = leaf] /\ disk' = [meta |-> disk.meta, run |-> NoRun]
    BY <1>3, <1>9 DEF PlayAgain, AccountTypes
  <2> HIDE DEF leaf
  <2> QED  BY <1>1, <1>2, <2>1, <2>2, Constants
<1>10. CASE Press(t)
  BY <1>10 DEF Press, AccountTypes
<1>11. CASE Leave(t)
  <2>1. tab' = [tab EXCEPT ![t] = NoPage] /\ disk' = disk
    BY <1>11 DEF Leave
  <2>2. NoPage \in Page /\ NoPage.meta.ver = 0
    BY Constants DEF NoPage, Page, Fresh
  <2> QED  BY <1>1, <1>2, <1>3, <2>1, <2>2
<1> QED  BY <1>4, <1>5, <1>6, <1>7, <1>8, <1>9, <1>10, <1>11 DEF PageStep

-----------------------------------------------------------------------------
(* What each part of the invariant asks of a step *)

LEMMA HeadIsKept ==
  ASSUME AtACall, NEW u \in Tabs, Stays(u), NEW sort, NEW query \in Queries \ {"start"}, At(u, sort, query)'
  PROVE  At(u, sort, query) /\ Run(u)' = Run(u)
BY DEF AtACall, Stays, At, Run, Queries

LEMMA SubmitsCarry ==
  ASSUME AtACall, SubmitsForAnAccount, NEW t \in Tabs, \A u \in Tabs \ {t} : Stays(u),
         \A query \in Queries \ {"start"} : At(t, "submit", query)' => step'[t].stored # NoProfile
  PROVE  SubmitsForAnAccount'
<1>1. ASSUME NEW u \in Tabs \ {t}, NEW query \in Queries \ {"start"}, At(u, "submit", query)'
      PROVE  step'[u].stored # NoProfile
  BY <1>1, HeadIsKept DEF SubmitsForAnAccount, Stays
<1> QED  BY <1>1 DEF SubmitsForAnAccount

\* The account as it is, or of a later version.
Later(account, old) == account = old \/ (account.ver > old.ver /\ account.ver >= 1)

LEMMA KnownLater ==
  ASSUME NEW stored \in Progress, NEW old \in Progress, NEW account \in Progress,
         Known(stored, old) \/ stored = NoProfile, Known(old, old), Later(account, old)
  PROVE  Known(stored, account)
BY DEF Known, Later, NoProfile, Progress

LEMMA ReadsCarry ==
  ASSUME AccountTypes, ReadsAreKnown, profile' \in Progress, Later(profile', profile),
         \A u \in Tabs : step'[u].stored \in {step[u].stored, profile, NoProfile}
  PROVE  ReadsAreKnown'
<1>1. profile \in Progress /\ \A u \in Tabs : step[u].stored \in Progress
  BY DEF AccountTypes
<1>2. /\ Known(profile, profile') /\ Known(NoProfile, profile')
      /\ \A u \in Tabs : Known(step[u].stored, profile')
  BY <1>1, KnownLater, Constants DEF ReadsAreKnown
<1>3. Known(profile', profile')
  BY <1>1, <1>2 DEF Later, Known, Progress
<1> QED  BY <1>2, <1>3 DEF ReadsAreKnown

\* A submission of tab t may be new; the awards are those there were.
LEMMA AwardsCarry ==
  ASSUME AccountTypes, AtACall, AwardsAreOver, NEW t \in Tabs, \A u \in Tabs \ {t} : Stays(u),
         profile' \in Progress, Later(profile', profile),
         \A r \in Runs \ Panel :
           /\ rows'[r].awards = rows[r].awards
           /\ rows[r].status = "finished" => rows'[r].status = "finished"
           /\ Submits(t, r, "award")' => rows'[r].status = "finished"
           /\ (Submits(t, r, "write")' \/ Submits(t, r, "award")') /\ rows[r].awards = 1 =>
                step'[t].stored.ver < profile'.ver
  PROVE  AwardsAreOver'
<1>1. profile'.ver \in Int /\ profile.ver \in Int /\ profile'.ver >= profile.ver
  BY DEF AccountTypes, Later, Progress
<1>2. ASSUME NEW r \in Runs \ Panel, NEW u \in Tabs \ {t}, NEW query \in {"write", "award"}, Submits(u, r, query)'
      PROVE  Submits(u, r, query) /\ step'[u] = step[u]
  BY <1>2, HeadIsKept DEF Submits, Queries, Stays
<1>3. \A u \in Tabs : step[u].stored.ver \in Int
  BY DEF AccountTypes, Progress
<1>4. ASSUME NEW r \in Runs \ Panel
      PROVE  /\ rows'[r].awards <= 1
             /\ rows'[r].awards = 1 => rows'[r].status = "finished"
  BY <1>4 DEF AwardsAreOver
<1>5. ASSUME NEW r \in Runs \ Panel, NEW u \in Tabs \ {t}
      PROVE  /\ Submits(u, r, "award")' => rows'[r].status = "finished"
             /\ (Submits(u, r, "write")' \/ Submits(u, r, "award")') /\ rows'[r].awards = 1 =>
                  step'[u].stored.ver < profile'.ver
  BY <1>1, <1>2, <1>3, <1>5 DEF AwardsAreOver
<1> QED  BY <1>4, <1>5 DEF AwardsAreOver

LEMMA BehindLater ==
  ASSUME NEW meta \in Progress, NEW old \in Progress, NEW account \in Progress,
         NotAhead(meta, old.ver), Later(account, old)
  PROVE  NotAhead(meta, account.ver)
BY DEF NotAhead, Later, Progress

\* Tab t and the storage take new copies, and no older one gets ahead.
LEMMA CopiesCarry ==
  ASSUME AccountTypes, AtACall, CopiesAreBehind, NEW t \in Tabs, \A u \in Tabs \ {t} : Stays(u),
         \A u \in Tabs \ {t} : tab'[u] = tab[u] /\ sync'[u] = sync[u],
         profile' \in Progress, Later(profile', profile),
         NotAhead(disk'.meta, profile'.ver), NotAhead(tab'[t].meta, profile'.ver),
         NotAhead(sync'[t].local, profile'.ver), NotAhead(sync'[t].incoming, profile'.ver),
         At(t, "meta", "write")' => NotAhead(sync'[t].incoming, step'[t].stored.ver)
  PROVE  CopiesAreBehind'
<1>1. \A u \in Tabs : /\ tab[u].meta \in Progress /\ sync[u].local \in Progress
                      /\ sync[u].incoming \in Progress /\ profile \in Progress
  BY DEF AccountTypes, Page
<1>2. ASSUME NEW u \in Tabs \ {t}
      PROVE  /\ NotAhead(tab'[u].meta, profile'.ver)
             /\ NotAhead(sync'[u].local, profile'.ver)
             /\ NotAhead(sync'[u].incoming, profile'.ver)
  BY <1>1, <1>2, BehindLater DEF CopiesAreBehind
<1>3. ASSUME NEW u \in Tabs \ {t}, At(u, "meta", "write")'
      PROVE  NotAhead(sync'[u].incoming, step'[u].stored.ver)
  <2>1. At(u, "meta", "write") /\ step'[u] = step[u]
    BY <1>3, HeadIsKept DEF Queries, Stays
  <2> QED  BY <1>3, <2>1 DEF CopiesAreBehind
<1> QED  BY <1>2, <1>3 DEF CopiesAreBehind

\* A call for the account is on its way only if it was, or is sent now.
LEMMA QueuedAppend ==
  ASSUME NEW s \in Seq(CallOf), NEW c \in CallOf, c.kind # "meta",
         NEW i \in DOMAIN Append(s, c), Append(s, c)[i].kind = "meta"
  PROVE  i \in DOMAIN s /\ s[i].kind = "meta"
<1>1. DOMAIN s = 1..Len(s) /\ DOMAIN Append(s, c) = 1..Len(s) + 1 /\ Len(s) \in Nat
  BY AppendProperties, LenProperties
<1>2. i # Len(s) + 1
  BY AppendProperties
<1> QED  BY <1>1, <1>2, AppendProperties

LEMMA QueuedTail ==
  ASSUME NEW s \in Seq(CallOf), s # <<>>, NEW i \in DOMAIN Tail(s)
  PROVE  i + 1 \in DOMAIN s /\ Tail(s)[i] = s[i + 1]
BY HeadTailProperties, LenProperties

-----------------------------------------------------------------------------
(* Every step keeps the invariant *)

LEMMA PageKeepsIncoming ==
  ASSUME AccountTypes, AtACall, IncomingCovers, NEW t \in Tabs, PageStep(t)
  PROVE  IncomingCovers'
<1> DEFINE Goal == \A u \in Tabs : Queued(u, "meta")' => sync'[u].incoming.xp >= sync'[u].local.xp
<1>1. ASSUME NEW c \in CallOf, c.kind # "meta", calls' = [calls EXCEPT ![t] = Append(@, c)], sync' = sync
      PROVE  Goal
  <2>1. ASSUME NEW u \in Tabs, Queued(u, "meta")' PROVE Queued(u, "meta")
    <3>1. CASE u # t
      BY <1>1, <2>1, <3>1 DEF AccountTypes, Queued
    <3>2. CASE u = t
      <4>1. calls'[t] = Append(calls[t], c) /\ calls[t] \in Seq(CallOf)
        BY <1>1 DEF AccountTypes
      <4>2. PICK i \in DOMAIN Append(calls[t], c) : Append(calls[t], c)[i].kind = "meta"
        BY <2>1, <3>2, <4>1 DEF Queued
      <4> QED  BY <1>1, <3>2, <4>1, <4>2, QueuedAppend DEF Queued
    <3> QED  BY <3>1, <3>2
  <2> QED  BY <1>1, <2>1 DEF IncomingCovers
<1>2. CASE UNCHANGED <<calls, sync>>
  BY <1>2 DEF IncomingCovers, Queued
<1>3. \A run \in Log : /\ Call("drop", run) \in CallOf /\ Call("drop", run).kind = "drop"
                       /\ Call("push", run) \in CallOf /\ Call("push", run).kind = "push"
                       /\ Call("submit", run) \in CallOf /\ Call("submit", run).kind = "submit"
  BY DEF Call, CallOf
<1>4. tab[t].run \in Log
  BY DEF AccountTypes, Page
<1>5. CASE Open(t)
  <2>1. calls' = [calls EXCEPT ![t] = <<Call("profile", NoRun)>>] /\ \A u \in Tabs \ {t} : sync'[u] = sync[u]
    BY <1>5 DEF Open, AccountTypes
  <2>2. ~Queued(t, "meta")'
    BY <2>1 DEF Queued, Call, AccountTypes
  <2>3. \A u \in Tabs \ {t} : calls'[u] = calls[u]
    BY <2>1 DEF AccountTypes
  <2> QED  BY <2>1, <2>2, <2>3 DEF IncomingCovers, Queued
<1>9. CASE Leave(t)
  <2>1. /\ calls' = [calls EXCEPT ![t] = <<Head(calls[t])>>] /\ sync' = sync
        /\ calls[t] # <<>> /\ calls[t] \in Seq(CallOf)
    BY <1>9 DEF Leave, AccountTypes
  <2>2. \A i \in DOMAIN <<Head(calls[t])>> : 1 \in DOMAIN calls[t] /\ <<Head(calls[t])>>[i] = calls[t][1]
    BY <2>1, KeptHead
  <2>3. calls'[t] = <<Head(calls[t])>> /\ \A u \in Tabs \ {t} : calls'[u] = calls[u]
    BY <2>1 DEF AccountTypes
  <2>4. Queued(t, "meta")' => Queued(t, "meta")
    BY <2>2, <2>3 DEF Queued
  <2> QED  BY <2>1, <2>3, <2>4 DEF IncomingCovers, Queued
<1>6. CASE Start(t) \/ Resume(t)
  BY <1>2, <1>6 DEF Start, Resume
<1>7. CASE Move(t)
  <2>1. PICK run \in Longer(tab[t].run) :
          calls' = calls \/ calls' = [calls EXCEPT ![t] = Append(@, Call("drop", run))]
    BY <1>7 DEF Move
  <2>2. sync' = sync /\ run \in Log
    BY <1>4, <1>7, LongerIsALog DEF Move
  <2> QED  BY <1>1, <1>2, <1>3, <2>1, <2>2 DEF IncomingCovers
<1>8. CASE Save(t) \/ PlayAgain(t) \/ Press(t)
  <2>1. \/ calls' = calls
        \/ calls' = [calls EXCEPT ![t] = Append(@, Call("push", tab[t].run))]
        \/ calls' = [calls EXCEPT ![t] = Append(@, Call("drop", tab[t].run))]
        \/ calls' = [calls EXCEPT ![t] = Append(@, Call("submit", tab[t].run))]
    BY <1>8 DEF Save, PlayAgain, Press
  <2>2. sync' = sync
    BY <1>8 DEF Save, PlayAgain, Press
  <2> QED  BY <1>1, <1>2, <1>3, <1>4, <2>1, <2>2 DEF IncomingCovers
<1> QED  BY <1>5, <1>6, <1>7, <1>8, <1>9 DEF PageStep

LEMMA TabKeeps ==
  ASSUME AccountsInv, NEW t \in Tabs, PageStep(t)
  PROVE  AccountsInv'
<1> USE DEF AccountsInv
<1>1. profile' = profile /\ rows' = rows
  BY DEF PageStep, Open, Leave, Start, Resume, Move, Save, PlayAgain, Press
<1>2. /\ calls' \in [Tabs -> Seq(CallOf)] /\ step' = step
      /\ \A u \in Tabs : Stays(u)
  BY PageCalls
<1>3. /\ tab' \in [Tabs -> Page] /\ disk' \in [meta : Progress, run : Log]
      /\ \A u \in Tabs \ {t} : tab'[u] = tab[u]
      /\ tab'[t].meta.ver \in {tab[t].meta.ver, disk.meta.ver, 0}
      /\ disk'.meta.ver \in {tab[t].meta.ver, disk.meta.ver}
  BY PageData
<1>4. sync' = sync \/ (Open(t) /\ sync' = [sync EXCEPT ![t] = [NoSync EXCEPT !.local = disk.meta]])
  BY DEF PageStep, Open, Leave, Start, Resume, Move, Save, PlayAgain, Press
<1>5. [NoSync EXCEPT !.local = disk.meta] \in
        [local : Progress, incoming : Progress, first : BOOLEAN, again : BOOLEAN]
  BY Constants DEF NoSync, AccountTypes
<1>6. AccountTypes'
  <2>1. sync' \in [Tabs -> [local : Progress, incoming : Progress, first : BOOLEAN, again : BOOLEAN]]
    BY <1>4, <1>5 DEF AccountTypes
  <2>2. /\ step' \in [Tabs -> [at : Queries, stored : Progress]]
        /\ profile' \in Progress /\ rows' \in Rows
    BY <1>1, <1>2 DEF AccountTypes
  <2> QED  BY <1>2, <1>3, <2>1, <2>2 DEF AccountTypes
<1>7. AtACall'
  BY <1>2 DEF AtACall, Stays
<1>8. ReadsAreKnown'
  BY <1>1, <1>2 DEF ReadsAreKnown
<1>9. AwardsAreOver'
  <2>1. ASSUME NEW r \in Runs \ Panel, NEW query \in {"write", "award"}, Submits(t, r, query)'
        PROVE  Submits(t, r, query)
    BY <1>2, <2>1, HeadIsKept DEF Submits, Queries
  <2> QED  BY <1>1, <1>2, <2>1, AwardsCarry DEF AwardsAreOver, Later, AccountTypes
<1>10. CopiesAreBehind'
  <2>1. /\ NotAhead(disk'.meta, profile'.ver) /\ NotAhead(tab'[t].meta, profile'.ver)
    BY <1>1, <1>3 DEF CopiesAreBehind, NotAhead
  <2>2. \A u \in Tabs \ {t} : sync'[u] = sync[u]
    BY <1>4 DEF AccountTypes
  <2>3. NotAhead(sync'[t].local, profile'.ver) /\ NotAhead(sync'[t].incoming, profile'.ver)
    <3>1. CASE sync' = sync
      BY <1>1, <3>1 DEF CopiesAreBehind
    <3>2. CASE sync' = [sync EXCEPT ![t] = [NoSync EXCEPT !.local = disk.meta]]
      <4>1. sync'[t].local = disk.meta /\ sync'[t].incoming = Fresh
        BY <3>2 DEF AccountTypes, NoSync
      <4> QED  BY <1>1, <4>1 DEF CopiesAreBehind, NotAhead, Fresh
    <3> QED  BY <1>4, <3>1, <3>2
  <2>4. At(t, "meta", "write")' => NotAhead(sync'[t].incoming, step'[t].stored.ver)
    <3>1. At(t, "meta", "write")' => At(t, "meta", "write")
      BY <1>2, HeadIsKept DEF Queries
    <3>2. At(t, "meta", "write") => ~Open(t)
      BY DEF At, Open
    <3> QED  BY <1>2, <1>4, <3>1, <3>2 DEF CopiesAreBehind
  <2> QED  BY <1>1, <1>2, <1>3, <2>1, <2>2, <2>3, <2>4, CopiesCarry DEF Later, AccountTypes
<1>11. IncomingCovers'
  BY PageKeepsIncoming
<1>12. SubmitsForAnAccount'
  BY <1>2, HeadIsKept DEF SubmitsForAnAccount
<1> QED  BY <1>6, <1>7, <1>8, <1>9, <1>10, <1>11, <1>12

\* What is answered is no longer on its way.
LEMMA IncomingCarry ==
  ASSUME AccountTypes, IncomingCovers, NEW t \in Tabs, calls[t] # <<>>, sync' = sync,
         calls' = calls \/ calls' = [calls EXCEPT ![t] = Tail(@)]
  PROVE  IncomingCovers'
<1>1. ASSUME NEW u \in Tabs, Queued(u, "meta")' PROVE Queued(u, "meta")
  <2>1. CASE calls'[u] = calls[u]
    BY <1>1, <2>1 DEF Queued
  <2>2. CASE u = t /\ calls' = [calls EXCEPT ![t] = Tail(@)]
    <3>1. calls'[t] = Tail(calls[t]) /\ calls[t] \in Seq(CallOf)
      BY <2>2 DEF AccountTypes
    <3>2. PICK i \in DOMAIN Tail(calls[t]) : Tail(calls[t])[i].kind = "meta"
      BY <1>1, <2>2, <3>1 DEF Queued
    <3> QED  BY <2>2, <3>1, <3>2, QueuedTail DEF Queued
  <2> QED  BY <2>1, <2>2 DEF AccountTypes
<1> QED  BY <1>1 DEF IncomingCovers

\* A query of a call that leaves the account and the copies of the progress alone.
Query(t) == Answered(t) \/ \E query \in Queries : GoesTo(t, query) \/ Reads(t, query)

LEMMA QueryMoves ==
  ASSUME AccountTypes, AtACall, NEW t \in Tabs, calls[t] # <<>>, Query(t)
  PROVE  /\ calls' \in [Tabs -> Seq(CallOf)]
         /\ calls' = calls \/ calls' = [calls EXCEPT ![t] = Tail(@)]
         /\ step' \in [Tabs -> [at : Queries, stored : Progress]]
         /\ \A u \in Tabs \ {t} : Stays(u)
         /\ \A u \in Tabs : step'[u].stored \in {step[u].stored, profile, NoProfile}
         /\ step'[t].at # "start" => calls' = calls
<1>1. CASE Answered(t)
  BY <1>1, Answers DEF Answered, NoStep, Stays
<1>2. ASSUME NEW query \in Queries, GoesTo(t, query) PROVE
         /\ calls' = calls
         /\ step' \in [Tabs -> [at : Queries, stored : Progress]]
         /\ \A u \in Tabs \ {t} : Stays(u)
         /\ \A u \in Tabs : step'[u].stored \in {step[u].stored, profile, NoProfile}
  BY <1>2, GoesOn DEF Stays
<1>3. ASSUME NEW query \in Queries, Reads(t, query) PROVE
         /\ calls' = calls
         /\ step' \in [Tabs -> [at : Queries, stored : Progress]]
         /\ \A u \in Tabs \ {t} : Stays(u)
         /\ \A u \in Tabs : step'[u].stored \in {step[u].stored, profile, NoProfile}
  BY <1>3, ReadsOn DEF Stays
<1>4. calls \in [Tabs -> Seq(CallOf)]
  BY DEF AccountTypes
<1> QED  BY <1>1, <1>2, <1>3, <1>4 DEF Query

\* A submission is accepted on the page, whose progress stays.
LEMMA AcceptedKeeps ==
  ASSUME AccountTypes, NEW t \in Tabs, tab' = tab \/ Accepted(t)
  PROVE  /\ tab' \in [Tabs -> Page]
         /\ \A u \in Tabs : tab'[u].meta = tab[u].meta /\ tab'[u].state = tab[u].state
         /\ \A u \in Tabs \ {t} : tab'[u] = tab[u]
<1>1. CASE tab' = tab
  BY <1>1 DEF AccountTypes
<1>2. CASE tab' = [tab EXCEPT ![t].submitted = TRUE]
  <2> DEFINE leaf == [tab[t] EXCEPT !.submitted = TRUE]
  <2>1. tab' = [tab EXCEPT ![t] = leaf]
    BY <1>2 DEF AccountTypes
  <2>2. tab[t] \in Page
    BY DEF AccountTypes
  <2>3. leaf \in Page /\ leaf.meta = tab[t].meta /\ leaf.state = tab[t].state
    BY <2>2 DEF Page
  <2> HIDE DEF leaf
  <2> QED  BY <2>1, <2>3 DEF AccountTypes
<1> QED  BY <1>1, <1>2 DEF Accepted

LEMMA QueryKeeps ==
  ASSUME AccountsInv, NEW t \in Tabs, calls[t] # <<>>, Query(t),
         UNCHANGED <<disk, sync, profile>>, tab' = tab \/ Accepted(t), rows' \in Rows,
         At(t, "meta", "write")' => step'[t].stored = profile,
         \A query \in Queries \ {"start"} : At(t, "submit", query)' => step'[t].stored # NoProfile,
         \A r \in Runs \ Panel :
           /\ rows'[r].awards = rows[r].awards
           /\ rows[r].status = "finished" => rows'[r].status = "finished"
           /\ Submits(t, r, "award")' => rows'[r].status = "finished"
           /\ (Submits(t, r, "write")' \/ Submits(t, r, "award")') /\ rows[r].awards = 1 =>
                step'[t].stored.ver < profile'.ver
  PROVE  AccountsInv'
<1> USE DEF AccountsInv
<1>1. /\ calls' \in [Tabs -> Seq(CallOf)]
      /\ calls' = calls \/ calls' = [calls EXCEPT ![t] = Tail(@)]
      /\ step' \in [Tabs -> [at : Queries, stored : Progress]]
      /\ \A u \in Tabs \ {t} : Stays(u)
      /\ \A u \in Tabs : step'[u].stored \in {step[u].stored, profile, NoProfile}
      /\ step'[t].at # "start" => calls' = calls
  BY QueryMoves
<1>2. /\ tab' \in [Tabs -> Page]
      /\ \A u \in Tabs : tab'[u].meta = tab[u].meta
      /\ \A u \in Tabs \ {t} : tab'[u] = tab[u]
  BY AcceptedKeeps DEF AccountTypes
<1>3. profile' \in Progress /\ Later(profile', profile)
  BY DEF AccountTypes, Later
<1>4. AccountTypes'
  BY <1>1, <1>2, <1>3 DEF AccountTypes
<1>5. AtACall'
  BY <1>1 DEF AtACall, Stays
<1>6. ReadsAreKnown'
  BY <1>1, <1>3, ReadsCarry
<1>7. AwardsAreOver'
  BY <1>1, <1>3, AwardsCarry
<1>8. CopiesAreBehind'
  <2>1. /\ NotAhead(disk'.meta, profile'.ver) /\ NotAhead(tab'[t].meta, profile'.ver)
        /\ NotAhead(sync'[t].local, profile'.ver) /\ NotAhead(sync'[t].incoming, profile'.ver)
    BY <1>2 DEF CopiesAreBehind
  <2>2. \A u \in Tabs \ {t} : tab'[u] = tab[u] /\ sync'[u] = sync[u]
    BY <1>2
  <2>3. At(t, "meta", "write")' => NotAhead(sync'[t].incoming, step'[t].stored.ver)
    BY <2>1
  <2> QED  BY <1>1, <1>3, <2>1, <2>2, <2>3, CopiesCarry
<1>9. IncomingCovers'
  BY <1>1, IncomingCarry
<1>10. SubmitsForAnAccount'
  BY <1>1, SubmitsCarry
<1> QED  BY <1>4, <1>5, <1>6, <1>7, <1>8, <1>9, <1>10

\* The query a call is at after an answer, or a step on.
LEMMA NowAt ==
  ASSUME AccountTypes, AtACall, NEW t \in Tabs, calls[t] # <<>>
  PROVE  /\ Answered(t) => step'[t].at = "start"
         /\ \A query \in Queries : GoesTo(t, query) =>
              calls' = calls /\ step'[t].at = query /\ step'[t].stored = step[t].stored
         /\ \A query \in Queries : Reads(t, query) =>
              calls' = calls /\ step'[t].at = query /\ step'[t].stored = profile
BY Answers, GoesOn, ReadsOn DEF NoStep

LEMMA TheRun ==
  ASSUME AccountTypes, NEW t \in Tabs, calls[t] # <<>>
  PROVE  Run(t) \in Log /\ Head(calls[t]) \in CallOf
<1>1. Head(calls[t]) \in CallOf
  BY FirstCall DEF AccountTypes
<1> QED  BY <1>1 DEF Run, CallOf

\* A row of the table takes another log, is marked, or is ranked.
LEMMA RowLogged ==
  ASSUME AccountTypes, NEW id \in Nat, NEW len \in Nat, NEW edited \in BOOLEAN, edited => id \in Panel,
         rows' = [rows EXCEPT ![id].len = len, ![id].edited = edited]
  PROVE  /\ rows' \in Rows
         /\ \A r \in Runs : rows'[r].awards = rows[r].awards /\ rows'[r].status = rows[r].status
<1> DEFINE logged(row) == [row EXCEPT !.len = len, !.edited = edited]
<1>1. rows \in [Runs -> Row] /\ \A r \in Runs : rows[r] \in Row /\ (rows[r].edited => r \in Panel)
  BY DEF AccountTypes, Rows
<1>2. \A row \in Row : /\ logged(row) \in Row /\ logged(row).awards = row.awards
                       /\ logged(row).status = row.status /\ logged(row).edited = edited
  BY DEF Row
<1>3. rows' = [rows EXCEPT ![id] = logged(rows[id])]
  BY <1>1
<1> HIDE DEF logged
<1>4. \A r \in Runs : rows'[r] = IF r = id THEN logged(rows[r]) ELSE rows[r]
  BY <1>1, <1>3
<1>5. rows' \in [Runs -> Row]
  BY <1>1, <1>2, <1>3
<1> QED  BY <1>1, <1>2, <1>4, <1>5 DEF Rows

LEMMA RowMarked ==
  ASSUME AccountTypes, NEW id \in Nat, NEW status \in {"abandoned", "rejected"},
         rows' = [rows EXCEPT ![id].status = status]
  PROVE  /\ rows' \in Rows
         /\ \A r \in Runs : /\ rows'[r].awards = rows[r].awards
                            /\ rows'[r].status = IF r = id THEN status ELSE rows[r].status
<1> DEFINE marked(row) == [row EXCEPT !.status = status]
<1>1. rows \in [Runs -> Row] /\ \A r \in Runs : rows[r] \in Row /\ (rows[r].edited => r \in Panel)
  BY DEF AccountTypes, Rows
<1>2. \A row \in Row : /\ marked(row) \in Row /\ marked(row).awards = row.awards
                       /\ marked(row).status = status /\ marked(row).edited = row.edited
  BY DEF Row
<1>3. rows' = [rows EXCEPT ![id] = marked(rows[id])]
  BY <1>1
<1> HIDE DEF marked
<1>4. \A r \in Runs : rows'[r] = IF r = id THEN marked(rows[r]) ELSE rows[r]
  BY <1>1, <1>3
<1>5. rows' \in [Runs -> Row]
  BY <1>1, <1>2, <1>3
<1> QED  BY <1>1, <1>2, <1>4, <1>5 DEF Rows

LEMMA RowRanked ==
  ASSUME AccountTypes, NEW id \in Nat, NEW len \in Nat,
         rows' = [rows EXCEPT ![id].status = "finished", ![id].len = len, ![id].edited = FALSE]
  PROVE  /\ rows' \in Rows
         /\ \A r \in Runs : /\ rows'[r].awards = rows[r].awards
                            /\ rows[r].status = "finished" => rows'[r].status = "finished"
                            /\ r = id => rows'[r].status = "finished"
<1> DEFINE ranked(row) == [row EXCEPT !.status = "finished", !.len = len, !.edited = FALSE]
<1>1. rows \in [Runs -> Row] /\ \A r \in Runs : rows[r] \in Row /\ (rows[r].edited => r \in Panel)
  BY DEF AccountTypes, Rows
<1>2. \A row \in Row : /\ ranked(row) \in Row /\ ranked(row).awards = row.awards
                       /\ ranked(row).status = "finished" /\ ~ranked(row).edited
  BY DEF Row
<1>3. rows' = [rows EXCEPT ![id] = ranked(rows[id])]
  <2>1. CASE id \in Runs
    <3>1. rows' = [[[rows EXCEPT ![id].status = "finished"] EXCEPT ![id].len = len] EXCEPT ![id].edited = FALSE]
      OBVIOUS
    <3> QED  BY <1>1, <2>1, <3>1
  <2>2. CASE id \notin Runs
    BY <1>1, <2>2
  <2> QED  BY <2>1, <2>2
<1> HIDE DEF ranked
<1>4. \A r \in Runs : rows'[r] = IF r = id THEN ranked(rows[r]) ELSE rows[r]
  BY <1>1, <1>3
<1>6. \A r \in Runs : ranked(rows[r]) \in Row
  BY <1>1, <1>2
<1>5. rows' \in [Runs -> Row]
  BY ONLY <1>1, <1>3, <1>6
<1> QED  BY <1>1, <1>2, <1>4, <1>5 DEF Rows

\* The calls that change no row.
LEMMA LookingKeeps ==
  ASSUME AccountsInv, NEW t \in Tabs,
         SyncMetaFinds(t) \/ SaveRunFinds(t) \/ SubmitRunReads(t) \/ SubmitRunFinds(t) \/ SubmitRunDies(t)
  PROVE  AccountsInv'
<1> USE DEF AccountsInv
<1>1. calls[t] # <<>>
  BY DEF SyncMetaFinds, SaveRunFinds, SubmitRunReads, SubmitRunFinds, SubmitRunDies, At
<1>2. /\ UNCHANGED <<disk, sync, profile, rows>> /\ (tab' = tab \/ Accepted(t))
      /\ rows' \in Rows
  BY DEF SyncMetaFinds, SaveRunFinds, SubmitRunReads, SubmitRunFinds, SubmitRunDies, AccountTypes
<1>3. \A r \in Runs : rows'[r] = rows[r]
  BY <1>2
<1> DEFINE Held ==
      /\ At(t, "meta", "write")' => step'[t].stored = profile
      /\ \A query \in Queries \ {"start"} : At(t, "submit", query)' => step'[t].stored # NoProfile
      /\ \A r \in Runs \ Panel :
           /\ Submits(t, r, "award")' => rows[r].status = "finished"
           /\ (Submits(t, r, "write")' \/ Submits(t, r, "award")') /\ rows[r].awards = 1 =>
                step'[t].stored.ver < profile.ver
<1>4. ASSUME Answered(t) PROVE Query(t) /\ Held
  BY <1>1, <1>4, NowAt DEF Query, Submits, At
<1>5. CASE SyncMetaFinds(t)
  <2>1. Reads(t, "write") /\ Head(calls[t]).kind = "meta"
    BY <1>5 DEF SyncMetaFinds, At
  <2>2. calls' = calls /\ step'[t].stored = profile
    BY <1>1, <2>1, NowAt DEF Queries
  <2>3. Query(t) /\ Held
    BY <2>1, <2>2 DEF Query, Queries, Submits, At
  <2> QED  BY <1>1, <1>2, <1>3, <2>3, QueryKeeps
<1>6. CASE SaveRunFinds(t)
  <2>1. /\ Answered(t) \/ GoesTo(t, "create") \/ GoesTo(t, "update")
    BY <1>6 DEF SaveRunFinds
  <2>2. ASSUME NEW query \in {"create", "update"}, GoesTo(t, query) PROVE Query(t) /\ Held
    <3>1. calls' = calls /\ step'[t].at = query /\ Head(calls[t]).kind = "push"
      BY <1>1, <1>6, <2>2, NowAt DEF Queries, SaveRunFinds, At
    <3> QED  BY <2>2, <3>1 DEF Query, Queries, Submits, At
  <2> QED  BY <1>1, <1>2, <1>3, <1>4, <2>1, <2>2, QueryKeeps
<1>7. CASE SubmitRunReads(t)
  <2>1. Answered(t) \/ (Reads(t, "existing") /\ profile # NoProfile)
    BY <1>7 DEF SubmitRunReads
  <2>2. ASSUME Reads(t, "existing"), profile # NoProfile PROVE Query(t) /\ Held
    BY <1>1, <2>2, NowAt DEF Query, Queries, Submits, At
  <2> QED  BY <1>1, <1>2, <1>3, <1>4, <2>1, <2>2, QueryKeeps
<1>8. CASE SubmitRunFinds(t)
  <2>1. Answered(t) \/ (GoesTo(t, "write") /\ rows[Run(t).id].status # "finished")
    BY <1>8 DEF SubmitRunFinds
  <2>2. ASSUME GoesTo(t, "write"), rows[Run(t).id].status # "finished" PROVE Query(t) /\ Held
    <3>1. calls' = calls /\ step'[t].at = "write" /\ step'[t].stored = step[t].stored
      BY <1>1, <2>2, NowAt DEF Queries
    <3>2. \A r \in Runs : ~Submits(t, r, "award")'
      BY <3>1 DEF Submits, At
    <3>3. \A r \in Runs : Submits(t, r, "write")' => r = Run(t).id
      BY <3>1 DEF Submits, Run
    <3>4. Head(calls[t]).kind = "submit"
      BY <1>8 DEF SubmitRunFinds, At
    <3>5. step[t].stored # NoProfile
      BY <1>8 DEF SubmitRunFinds, SubmitsForAnAccount, Queries
    <3> QED  BY <3>5, <2>2, <3>1, <3>2, <3>3, <3>4 DEF Query, Queries, At, AwardsAreOver
  <2> QED  BY <1>1, <1>2, <1>3, <1>4, <2>1, <2>2, QueryKeeps
<1>9. CASE SubmitRunDies(t)
  BY <1>1, <1>2, <1>3, <1>4, <1>9, QueryKeeps DEF SubmitRunDies
<1> QED  BY <1>5, <1>6, <1>7, <1>8, <1>9

\* A call that writes the row of a run, and leaves the ranks where they were.
RowIsWritten(t) == Answered(t) \/ (GoesTo(t, "insert") /\ Head(calls[t]).kind = "push")
RanksStay ==
  \A r \in Runs \ Panel :
    /\ rows'[r].awards = rows[r].awards
    /\ rows[r].status = "finished" => rows'[r].status = "finished"

LEMMA RowKeeps ==
  ASSUME AccountsInv, NEW t \in Tabs, calls[t] # <<>>, UNCHANGED <<disk, sync, profile>>, tab' = tab,
         RowIsWritten(t), rows' \in Rows, RanksStay
  PROVE  AccountsInv'
<1>1. Query(t)
  BY DEF RowIsWritten, Query, Queries
<1>2. AccountTypes /\ AtACall
  BY DEF AccountsInv
<1>3. \/ step'[t].at = "start"
      \/ step'[t].at = "insert" /\ calls' = calls /\ Head(calls[t]).kind = "push"
  BY <1>2, NowAt DEF Queries, RowIsWritten
<1>4. ~At(t, "meta", "write")' /\ (\A query \in Queries \ {"start"} : ~At(t, "submit", query)')
      /\ \A r \in Runs \ Panel : ~Submits(t, r, "award")' /\ ~Submits(t, r, "write")'
  BY <1>3 DEF Submits, At
<1> QED  BY <1>1, <1>4, QueryKeeps DEF RanksStay

\* The calls that write the row of a run.
LEMMA RunKeeps ==
  ASSUME AccountsInv, NEW t \in Tabs,
         SaveRunUpdates(t) \/ SaveRunAbandons(t) \/ SaveRunCreates(t) \/ DiscardRun(t)
           \/ SubmitRunWrites(t) \/ SubmitRunRejects(t)
  PROVE  AccountsInv'
<1>0. AccountTypes /\ AtACall
  BY DEF AccountsInv
<1>1. calls[t] # <<>>
  BY DEF SaveRunUpdates, SaveRunAbandons, SaveRunCreates, DiscardRun, SubmitRunWrites, SubmitRunRejects, At
<1>2. UNCHANGED <<disk, sync, profile>> /\ tab' = tab
  BY DEF SaveRunUpdates, SaveRunAbandons, SaveRunCreates, DiscardRun, SubmitRunWrites, SubmitRunRejects
<1>3. /\ Run(t).id \in Nat /\ Run(t).len \in Nat /\ Run(t).claim \in Nat /\ Run(t).edited \in BOOLEAN
      /\ Run(t).edited => Run(t).id \in Panel
  BY <1>0, <1>1, TheRun DEF Log
<1>4. rows \in [Runs -> Row] /\ \A r \in Runs : rows[r] \in Row /\ (rows[r].edited => r \in Panel)
  BY <1>0 DEF AccountTypes, Rows
<1>5. ASSUME rows' = rows PROVE rows' \in Rows /\ RanksStay
  BY <1>0, <1>5 DEF AccountTypes, RanksStay
<1>6. CASE SaveRunUpdates(t)
  <2>1. /\ rows' = [rows EXCEPT ![Run(t).id].len = Run(t).len, ![Run(t).id].edited = Run(t).edited]
        /\ Answered(t)
    BY <1>6 DEF SaveRunUpdates
  <2>2. /\ rows' \in Rows
        /\ \A r \in Runs : rows'[r].awards = rows[r].awards /\ rows'[r].status = rows[r].status
    BY <1>0, <1>3, <2>1, RowLogged
  <2> QED  BY <1>1, <1>2, <2>1, <2>2, RowKeeps DEF RanksStay, RowIsWritten
<1>7. CASE SaveRunAbandons(t)
  <2> DEFINE left == [r \in Runs |-> IF r \in InProgress THEN [rows[r] EXCEPT !.status = "abandoned"]
                                     ELSE rows[r]]
  <2>1. rows' = left /\ GoesTo(t, "insert") /\ Head(calls[t]).kind = "push"
    BY <1>7 DEF SaveRunAbandons, At
  <2>2. \A row \in Row : [row EXCEPT !.status = "abandoned"] \in Row
                         /\ [row EXCEPT !.status = "abandoned"].awards = row.awards
                         /\ [row EXCEPT !.status = "abandoned"].edited = row.edited
    BY DEF Row
  <2>3. \A r \in Runs : /\ left[r] \in Row /\ left[r].awards = rows[r].awards
                        /\ left[r].edited = rows[r].edited
                        /\ rows[r].status = "finished" => left[r].status = "finished"
    BY <1>4, <2>2 DEF InProgress
  <2>4. DOMAIN left = Runs /\ left = [r \in Runs |-> left[r]]
    OBVIOUS
  <2> HIDE DEF left
  <2>5. left \in Rows
    BY <1>4, <2>3, <2>4 DEF Rows
  <2> QED  BY <1>1, <1>2, <2>1, <2>3, <2>5, RowKeeps DEF RanksStay, RowIsWritten
<1>11. CASE SaveRunCreates(t)
  <2> DEFINE created == [status |-> "in_progress", len |-> Run(t).len, claim |-> Run(t).claim,
                         edited |-> Run(t).edited, awards |-> 0]
  <2>1. /\ rows' = IF rows[Run(t).id].status # "none" THEN rows ELSE [rows EXCEPT ![Run(t).id] = created]
        /\ Answered(t)
    BY <1>11 DEF SaveRunCreates
  <2>2. created \in Row /\ created.awards = 0 /\ (created.edited => Run(t).id \in Panel)
    BY <1>3 DEF Row
  <2> HIDE DEF created
  <2>3. CASE rows[Run(t).id].status # "none"
    BY <1>1, <1>2, <1>5, <2>1, <2>3, RowKeeps DEF RowIsWritten
  <2>4. CASE rows[Run(t).id].status = "none"
    <3>1. rows' = [rows EXCEPT ![Run(t).id] = created]
      BY <2>1, <2>4
    <3>2. \A r \in Runs : rows'[r] = IF r = Run(t).id THEN created ELSE rows[r]
      BY <1>4, <3>1
    <3>3. rows' \in Rows
      BY <1>4, <2>2, <3>1, <3>2 DEF Rows
    <3>4. \A r \in Runs \ Panel : rows[r].status = "none" => rows[r].awards = 0
      BY <1>4 DEF AccountsInv, AwardsAreOver, Row
    <3>5. RanksStay
      BY <2>2, <2>4, <3>2, <3>4 DEF RanksStay
    <3> QED  BY <1>1, <1>2, <2>1, <3>3, <3>5, RowKeeps DEF RowIsWritten
  <2> QED  BY <2>3, <2>4
<1>8. CASE DiscardRun(t)
  <2>1. /\ rows' = IF Discardable(Run(t).id) THEN [rows EXCEPT ![Run(t).id].status = "abandoned"] ELSE rows
        /\ Answered(t)
    BY <1>8 DEF DiscardRun
  <2>2. CASE ~Discardable(Run(t).id)
    BY <1>1, <1>2, <1>5, <2>1, <2>2, RowKeeps DEF RowIsWritten
  <2>3. CASE Discardable(Run(t).id)
    <3>1. /\ rows' \in Rows
          /\ \A r \in Runs : /\ rows'[r].awards = rows[r].awards
                             /\ rows'[r].status = IF r = Run(t).id THEN "abandoned" ELSE rows[r].status
      BY <1>0, <1>3, <2>1, <2>3, RowMarked
    <3>2. RanksStay
      BY <2>3, <3>1 DEF RanksStay, Discardable
    <3> QED  BY <1>1, <1>2, <2>1, <3>1, <3>2, RowKeeps DEF RowIsWritten
  <2> QED  BY <2>2, <2>3
<1>10. CASE SubmitRunRejects(t)
  <2> DEFINE created == [status |-> "rejected", len |-> Run(t).len, claim |-> Run(t).claim,
                         edited |-> TRUE, awards |-> 0]
  <2>1. /\ rows' = IF rows[Run(t).id].status # "none" THEN [rows EXCEPT ![Run(t).id].status = "rejected"]
                   ELSE [rows EXCEPT ![Run(t).id] = created]
        /\ Answered(t) /\ Run(t).edited
    BY <1>10 DEF SubmitRunRejects
  <2>2. created \in Row
    BY <1>3 DEF Row
  <2> HIDE DEF created
  <2>3. CASE rows[Run(t).id].status # "none"
    <3>1. rows' = [rows EXCEPT ![Run(t).id].status = "rejected"]
      BY <2>1, <2>3
    <3>2. /\ rows' \in Rows
          /\ \A r \in Runs : /\ rows'[r].awards = rows[r].awards
                             /\ rows'[r].status = IF r = Run(t).id THEN "rejected" ELSE rows[r].status
      BY <1>0, <1>3, <3>1, RowMarked
    <3>3. RanksStay
      BY <1>3, <2>1, <3>2 DEF RanksStay
    <3> QED  BY <1>1, <1>2, <2>1, <3>2, <3>3, RowKeeps DEF RowIsWritten
  <2>4. CASE rows[Run(t).id].status = "none"
    <3>1. rows' = [rows EXCEPT ![Run(t).id] = created]
      BY <2>1, <2>4
    <3>2. \A r \in Runs : rows'[r] = IF r = Run(t).id THEN created ELSE rows[r]
      BY <1>4, <3>1
    <3>3. rows' \in Rows
      BY <1>3, <1>4, <2>1, <2>2, <3>1, <3>2 DEF Rows
    <3>4. RanksStay
      BY <1>3, <2>1, <3>2 DEF RanksStay
    <3> QED  BY <1>1, <1>2, <2>1, <3>3, <3>4, RowKeeps DEF RowIsWritten
  <2> QED  BY <2>3, <2>4
<1>9. CASE SubmitRunWrites(t)
  <2>1. /\ rows' = [rows EXCEPT ![Run(t).id].status = "finished", ![Run(t).id].len = Run(t).len,
                                ![Run(t).id].edited = FALSE]
        /\ GoesTo(t, "award") /\ At(t, "submit", "write")
    BY <1>9 DEF SubmitRunWrites
  <2>3. /\ rows' \in Rows
        /\ \A r \in Runs : /\ rows'[r].awards = rows[r].awards
                           /\ rows[r].status = "finished" => rows'[r].status = "finished"
                           /\ r = Run(t).id => rows'[r].status = "finished"
    BY <1>0, <1>3, <2>1, RowRanked
  <2>4. calls' = calls /\ step'[t].at = "award" /\ step'[t].stored = step[t].stored
    BY <1>0, <1>1, <2>1, NowAt DEF Queries
  <2>5. Query(t) /\ ~At(t, "meta", "write")'
    BY <2>1, <2>4 DEF Query, Queries, At
  <2>6. \A r \in Runs : /\ ~Submits(t, r, "write")'
                        /\ Submits(t, r, "award")' => r = Run(t).id /\ Submits(t, r, "write")
    BY <2>1, <2>4 DEF Submits, At, Run
  <2>8. step'[t].stored # NoProfile
    BY <2>1, <2>4 DEF AccountsInv, SubmitsForAnAccount, Queries
  <2>7. \A r \in Runs \ Panel : Submits(t, r, "award")' /\ rows[r].awards = 1 => step'[t].stored.ver < profile'.ver
    BY <1>2, <2>4, <2>6 DEF AccountsInv, AwardsAreOver
  <2>9. ASSUME NEW r \in Runs \ Panel
        PROVE  /\ rows'[r].awards = rows[r].awards
               /\ rows[r].status = "finished" => rows'[r].status = "finished"
               /\ Submits(t, r, "award")' => rows'[r].status = "finished"
               /\ (Submits(t, r, "write")' \/ Submits(t, r, "award")') /\ rows[r].awards = 1 =>
                    step'[t].stored.ver < profile'.ver
    <3> DEFINE writes == Submits(t, r, "write")'
               ranks == Submits(t, r, "award")'
    <3>1. ~writes /\ (ranks => r = Run(t).id) /\ (ranks /\ rows[r].awards = 1 => step'[t].stored.ver < profile'.ver)
      BY <2>6, <2>7
    <3> HIDE DEF writes, ranks
    <3>2. /\ rows'[r].awards = rows[r].awards
          /\ rows[r].status = "finished" => rows'[r].status = "finished"
          /\ r = Run(t).id => rows'[r].status = "finished"
      <4>1. r \in Runs
        OBVIOUS
      <4> QED  BY ONLY <2>3, <4>1
    <3> QED  BY <3>1, <3>2 DEF writes, ranks
  <2> QED  BY <1>1, <1>2, <2>3, <2>5, <2>8, <2>9, QueryKeeps
<1> QED  BY <1>6, <1>7, <1>8, <1>9, <1>10, <1>11

\* An answer that changes the account or the copies of one tab, and no row.
LEMMA SyncKeeps ==
  ASSUME AccountsInv, NEW t \in Tabs, calls[t] # <<>>,
         Answered(t) \/ \E sort \in {"profile", "meta"} : AnsweredThen(t, sort),
         profile' \in Progress, Later(profile', profile), rows' = rows,
         tab' \in [Tabs -> Page], disk' \in [meta : Progress, run : Log],
         sync' \in [Tabs -> [local : Progress, incoming : Progress, first : BOOLEAN, again : BOOLEAN]],
         \A u \in Tabs \ {t} : tab'[u] = tab[u] /\ sync'[u] = sync[u],
         NotAhead(disk'.meta, profile'.ver), NotAhead(tab'[t].meta, profile'.ver),
         NotAhead(sync'[t].local, profile'.ver), NotAhead(sync'[t].incoming, profile'.ver),
         sync'[t].incoming.xp >= sync'[t].local.xp
  PROVE  AccountsInv'
<1> USE DEF AccountsInv
<1>1. /\ calls' \in [Tabs -> Seq(CallOf)]
      /\ step' = [step EXCEPT ![t] = NoStep]
      /\ step' \in [Tabs -> [at : Queries, stored : Progress]]
      /\ step'[t] = NoStep /\ \A u \in Tabs \ {t} : Stays(u)
  BY Answers
<1>2. step'[t].at = "start" /\ step'[t].stored = NoProfile
  BY <1>1 DEF NoStep
<1>3. AccountTypes'
  BY <1>1 DEF AccountTypes
<1>4. AtACall'
  BY <1>1, <1>2 DEF AtACall, Stays
<1>5. ReadsAreKnown'
  BY <1>1, <1>2, ReadsCarry DEF Stays
<1>6. SubmitsForAnAccount'
  BY <1>1, <1>2, SubmitsCarry DEF At
<1>7. AwardsAreOver'
  <2>1. \A r \in Runs : ~Submits(t, r, "award")' /\ ~Submits(t, r, "write")'
    BY <1>2 DEF Submits, At
  <2>2. \A r \in Runs : rows'[r] = rows[r]
    OBVIOUS
  <2> QED  BY <1>1, <2>1, <2>2, AwardsCarry
<1>8. CopiesAreBehind'
  <2>1. ~At(t, "meta", "write")'
    BY <1>2 DEF At
  <2> QED  BY <1>1, <2>1, CopiesCarry
<1>9. IncomingCovers'
  <2>1. \A u \in Tabs \ {t} : calls'[u] = calls[u]
    BY DEF Answered, AnsweredThen, AccountTypes
  <2>2. ASSUME NEW u \in Tabs \ {t}, Queued(u, "meta")'
        PROVE  sync'[u].incoming.xp >= sync'[u].local.xp
    BY <2>1, <2>2 DEF Queued, IncomingCovers
  <2> QED  BY <2>2 DEF IncomingCovers
<1> QED  BY <1>3, <1>4, <1>5, <1>6, <1>7, <1>8, <1>9

\* The outcome of a synchronisation is the page's progress, and the storage's.
LEMMA OutcomeIs ==
  ASSUME AccountTypes, NEW t \in Tabs, NEW meta \in Progress,
         NEW state \in {"synced", "conflict", "error"}, Outcome(t, meta, state)
  PROVE  /\ tab' \in [Tabs -> Page] /\ disk' \in [meta : Progress, run : Log]
         /\ sync' \in [Tabs -> [local : Progress, incoming : Progress, first : BOOLEAN, again : BOOLEAN]]
         /\ \A u \in Tabs \ {t} : tab'[u] = tab[u] /\ sync'[u] = sync[u]
         /\ tab'[t].meta \in {meta, tab[t].meta} /\ tab'[t].state \in {state, tab[t].state}
         /\ disk'.meta \in {meta, disk.meta} /\ sync'[t] = NoSync
<1> DEFINE leaf == [tab[t] EXCEPT !.meta = meta, !.state = state]
<1>1. NoSync \in [local : Progress, incoming : Progress, first : BOOLEAN, again : BOOLEAN]
  BY Constants DEF NoSync
<1>2. sync' \in [Tabs -> [local : Progress, incoming : Progress, first : BOOLEAN, again : BOOLEAN]]
      /\ sync'[t] = NoSync /\ \A u \in Tabs \ {t} : sync'[u] = sync[u]
  BY <1>1 DEF Outcome, AccountTypes
<1>3. CASE Gone(t)
  BY <1>2, <1>3 DEF Outcome, AccountTypes
<1>4. CASE ~Gone(t)
  <2>1. tab' = [tab EXCEPT ![t] = leaf]
    BY <1>4 DEF Outcome, AccountTypes
  <2>2. tab[t] \in Page
    BY DEF AccountTypes
  <2>3. leaf \in Page /\ leaf.meta = meta /\ leaf.state = state
    BY <2>2 DEF Page
  <2>4. disk' \in [meta : Progress, run : Log] /\ disk'.meta = meta
    BY <1>4 DEF Outcome, AccountTypes
  <2> HIDE DEF leaf
  <2>5. tab' \in [Tabs -> Page] /\ tab'[t] = leaf /\ \A u \in Tabs \ {t} : tab'[u] = tab[u]
    BY <2>1, <2>3 DEF AccountTypes
  <2> QED  BY <1>2, <2>3, <2>4, <2>5
<1> QED  BY <1>3, <1>4

LEMMA NoSyncIsNew ==
  ASSUME NEW ver
  PROVE  /\ NotAhead(NoSync.local, ver) /\ NotAhead(NoSync.incoming, ver)
         /\ NoSync.incoming.xp >= NoSync.local.xp
BY DEF NoSync, NotAhead, Fresh

LEMMA GetMyProfileKeeps ==
  ASSUME AccountsInv, NEW t \in Tabs, GetMyProfile(t)
  PROVE  AccountsInv'
<1> USE DEF AccountsInv
<1>1. calls[t] # <<>> /\ profile' = profile /\ rows' = rows
  BY DEF GetMyProfile, At
<1>2. profile' \in Progress /\ Later(profile', profile)
  BY <1>1 DEF AccountTypes, Later
<1>3. /\ sync[t].local \in Progress /\ sync[t].incoming \in Progress /\ profile \in Progress
      /\ sync[t] \in [local : Progress, incoming : Progress, first : BOOLEAN, again : BOOLEAN]
  BY DEF AccountTypes
<1>4. /\ NotAhead(sync[t].local, profile.ver) /\ NotAhead(sync[t].incoming, profile.ver)
      /\ NotAhead(disk.meta, profile.ver) /\ NotAhead(tab[t].meta, profile.ver)
  BY DEF CopiesAreBehind
<1>5. CASE /\ sync' = [sync EXCEPT ![t] = [@ EXCEPT !.first = profile = NoProfile,
                        !.incoming = IF profile = NoProfile THEN sync[t].local ELSE Merged(t)]]
           /\ AnsweredThen(t, "meta")
           /\ UNCHANGED <<tab, disk>>
  <2> DEFINE incoming == IF profile = NoProfile THEN sync[t].local ELSE Merged(t)
             first == (profile = NoProfile)
             new == [sync[t] EXCEPT !.first = first, !.incoming = incoming]
  <2>1. /\ Merged(t) \in Progress /\ Merged(t).xp >= sync[t].local.xp
        /\ Merged(t).ver \in {profile.ver, sync[t].local.ver}
    BY <1>3, MergeIsTheBetter DEF Merged
  <2>2. /\ incoming \in Progress /\ incoming.xp >= sync[t].local.xp
        /\ incoming.ver \in {profile.ver, sync[t].local.ver}
    BY <1>3, <2>1 DEF Progress
  <2>3. NotAhead(incoming, profile.ver)
    BY <1>3, <1>4, <2>2 DEF NotAhead, Progress
  <2>4. first \in BOOLEAN
    OBVIOUS
  <2>5. sync' = [sync EXCEPT ![t] = new]
    BY <1>5 DEF AccountTypes
  <2> HIDE DEF incoming, first
  <2>6. /\ new \in [local : Progress, incoming : Progress, first : BOOLEAN, again : BOOLEAN]
        /\ new.local = sync[t].local /\ new.incoming = incoming
    BY <1>3, <2>2, <2>4
  <2> HIDE DEF new
  <2>7. /\ sync' \in [Tabs -> [local : Progress, incoming : Progress, first : BOOLEAN, again : BOOLEAN]]
        /\ sync'[t] = new /\ \A u \in Tabs \ {t} : sync'[u] = sync[u]
    BY <2>5, <2>6 DEF AccountTypes
  <2>8. tab' \in [Tabs -> Page] /\ disk' \in [meta : Progress, run : Log] /\ tab' = tab /\ disk' = disk
    BY <1>5 DEF AccountTypes
  <2> QED  BY <1>1, <1>2, <1>4, <1>5, <2>2, <2>3, <2>6, <2>7, <2>8, SyncKeeps
<1>6. CASE /\ Outcome(t, IF sync[t].again THEN sync[t].incoming ELSE sync[t].local, "error")
           /\ Answered(t)
  <2> DEFINE meta == IF sync[t].again THEN sync[t].incoming ELSE sync[t].local
  <2>1. meta \in Progress /\ NotAhead(meta, profile.ver)
    BY <1>3, <1>4
  <2>2. Outcome(t, meta, "error") /\ Answered(t)
    BY <1>6
  <2> HIDE DEF meta
  <2>3. /\ tab' \in [Tabs -> Page] /\ disk' \in [meta : Progress, run : Log]
        /\ sync' \in [Tabs -> [local : Progress, incoming : Progress, first : BOOLEAN, again : BOOLEAN]]
        /\ \A u \in Tabs \ {t} : tab'[u] = tab[u] /\ sync'[u] = sync[u]
        /\ tab'[t].meta \in {meta, tab[t].meta} /\ disk'.meta \in {meta, disk.meta} /\ sync'[t] = NoSync
    BY <2>1, <2>2, OutcomeIs
  <2>4. NotAhead(disk'.meta, profile'.ver) /\ NotAhead(tab'[t].meta, profile'.ver)
    BY <1>1, <1>4, <2>1, <2>3
  <2> QED  BY <1>1, <1>2, <2>2, <2>3, <2>4, NoSyncIsNew, SyncKeeps
<1> QED  BY <1>5, <1>6 DEF GetMyProfile

\* The lock: a write under it replaces what the call had read, and nothing newer.
LEMMA LockHolds ==
  ASSUME AccountsInv, NEW t \in Tabs, At(t, "meta", "write"), step[t].stored # NoProfile,
         Unchanged(sync[t].incoming.ver)
  PROVE  step[t].stored = profile /\ profile.ver >= 1
<1>1. /\ Known(step[t].stored, profile) /\ Known(profile, profile)
      /\ NotAhead(sync[t].incoming, step[t].stored.ver)
  BY DEF AccountsInv, ReadsAreKnown, CopiesAreBehind
<1>2. /\ step[t].stored.ver \in Int /\ profile.ver \in Int /\ sync[t].incoming.ver = profile.ver
  BY DEF AccountsInv, AccountTypes, Progress, Unchanged
<1> QED  BY <1>1, <1>2 DEF Known, NotAhead

SyncWrites(t) ==
  IF step[t].stored = NoProfile THEN [xp |-> sync[t].incoming.xp, ver |-> 1]
  ELSE [MergeMeta(step[t].stored, sync[t].incoming) EXCEPT !.ver = profile.ver + 1]

\* What a synchronisation writes is a later version, and not less than there was.
LEMMA SyncWritesMore ==
  ASSUME AccountsInv, NEW t \in Tabs, At(t, "meta", "write"),
         IF step[t].stored = NoProfile THEN profile = NoProfile ELSE Unchanged(sync[t].incoming.ver)
  PROVE  /\ SyncWrites(t) \in Progress /\ Later(SyncWrites(t), profile)
         /\ SyncWrites(t).xp >= profile.xp /\ SyncWrites(t).xp >= sync[t].incoming.xp
<1>1. step[t].stored \in Progress /\ sync[t].incoming \in Progress /\ profile \in Progress
  BY DEF AccountsInv, AccountTypes
<1>2. CASE step[t].stored = NoProfile
  BY <1>1, <1>2 DEF SyncWrites, Later, Progress, NoProfile
<1>3. CASE step[t].stored # NoProfile
  <2> DEFINE merged == MergeMeta(step[t].stored, sync[t].incoming)
  <2>1. step[t].stored = profile /\ profile.ver >= 1
    BY <1>3, LockHolds
  <2>2. merged \in Progress /\ merged.xp >= profile.xp /\ merged.xp >= sync[t].incoming.xp
    BY <1>1, <2>1, MergeIsTheBetter
  <2>3. SyncWrites(t) = [merged EXCEPT !.ver = profile.ver + 1]
    BY <1>3 DEF SyncWrites
  <2> HIDE DEF merged
  <2> QED  BY <1>1, <2>1, <2>2, <2>3 DEF Later, Progress
<1> QED  BY <1>2, <1>3

\* The two ends of syncMeta(): the account is written, or it is as it was.
LEMMA SyncMetaEnds ==
  ASSUME NEW t \in Tabs, SyncMetaWrites(t)
  PROVE  \/ /\ IF step[t].stored = NoProfile THEN profile = NoProfile ELSE Unchanged(sync[t].incoming.ver)
            /\ profile' = SyncWrites(t) /\ Outcome(t, SyncWrites(t), "synced") /\ Answered(t)
         \/ /\ profile' = profile
            /\ \/ Outcome(t, sync[t].local, "error") /\ Answered(t)
               \/ Outcome(t, sync[t].incoming, "conflict") /\ Answered(t)
               \/ /\ sync' = [sync EXCEPT ![t].again = TRUE]
                  /\ AnsweredThen(t, "profile") /\ UNCHANGED <<tab, disk>>
BY DEF SyncMetaWrites, SyncWrites

LEMMA SyncMetaKeeps ==
  ASSUME AccountsInv, NEW t \in Tabs, SyncMetaWrites(t)
  PROVE  AccountsInv'
<1> USE DEF AccountsInv
<1>1. calls[t] # <<>> /\ rows' = rows /\ At(t, "meta", "write")
  BY DEF SyncMetaWrites, At
<1>2. /\ sync[t].local \in Progress /\ sync[t].incoming \in Progress /\ profile \in Progress
      /\ sync[t] \in [local : Progress, incoming : Progress, first : BOOLEAN, again : BOOLEAN]
  BY DEF AccountTypes
<1>3. /\ NotAhead(sync[t].local, profile.ver) /\ NotAhead(sync[t].incoming, profile.ver)
      /\ NotAhead(disk.meta, profile.ver) /\ NotAhead(tab[t].meta, profile.ver)
  BY DEF CopiesAreBehind
<1>4. ASSUME NEW meta \in Progress, NEW state \in {"synced", "conflict", "error"}, Outcome(t, meta, state),
             Answered(t), profile' \in Progress, Later(profile', profile), NotAhead(meta, profile'.ver)
      PROVE  AccountsInv'
  <2>1. /\ tab' \in [Tabs -> Page] /\ disk' \in [meta : Progress, run : Log]
        /\ sync' \in [Tabs -> [local : Progress, incoming : Progress, first : BOOLEAN, again : BOOLEAN]]
        /\ \A u \in Tabs \ {t} : tab'[u] = tab[u] /\ sync'[u] = sync[u]
        /\ tab'[t].meta \in {meta, tab[t].meta} /\ disk'.meta \in {meta, disk.meta} /\ sync'[t] = NoSync
    BY <1>4, OutcomeIs
  <2>2. disk.meta \in Progress /\ tab[t].meta \in Progress
    BY DEF AccountTypes, Page
  <2>3. NotAhead(disk.meta, profile'.ver) /\ NotAhead(tab[t].meta, profile'.ver)
    BY <1>2, <1>3, <1>4, <2>2, BehindLater
  <2>4. NotAhead(disk'.meta, profile'.ver) /\ NotAhead(tab'[t].meta, profile'.ver)
    BY <1>4, <2>1, <2>3
  <2> QED  BY <1>1, <1>4, <2>1, <2>4, NoSyncIsNew, SyncKeeps
<1>5. CASE /\ IF step[t].stored = NoProfile THEN profile = NoProfile ELSE Unchanged(sync[t].incoming.ver)
           /\ profile' = SyncWrites(t) /\ Outcome(t, SyncWrites(t), "synced") /\ Answered(t)
  <2>1. SyncWrites(t) \in Progress /\ Later(SyncWrites(t), profile)
    BY <1>1, <1>5, SyncWritesMore
  <2>2. NotAhead(SyncWrites(t), SyncWrites(t).ver)
    BY <2>1 DEF NotAhead, Progress
  <2> QED  BY <1>4, <1>5, <2>1, <2>2
<1>6. CASE /\ profile' = profile
           /\ \/ Outcome(t, sync[t].local, "error") /\ Answered(t)
              \/ Outcome(t, sync[t].incoming, "conflict") /\ Answered(t)
  BY <1>2, <1>3, <1>4, <1>6 DEF Later
<1>7. CASE /\ profile' = profile /\ sync' = [sync EXCEPT ![t].again = TRUE]
           /\ AnsweredThen(t, "profile") /\ UNCHANGED <<tab, disk>>
  <2> DEFINE new == [sync[t] EXCEPT !.again = TRUE]
  <2>1. sync' = [sync EXCEPT ![t] = new]
    BY <1>7 DEF AccountTypes
  <2>2. /\ new \in [local : Progress, incoming : Progress, first : BOOLEAN, again : BOOLEAN]
        /\ new.local = sync[t].local /\ new.incoming = sync[t].incoming
    BY <1>2
  <2> HIDE DEF new
  <2>3. /\ sync' \in [Tabs -> [local : Progress, incoming : Progress, first : BOOLEAN, again : BOOLEAN]]
        /\ sync'[t] = new /\ \A u \in Tabs \ {t} : sync'[u] = sync[u]
    BY <2>1, <2>2 DEF AccountTypes
  <2>4. sync[t].incoming.xp >= sync[t].local.xp
    <3>1. 1 \in DOMAIN calls[t] /\ calls[t][1].kind = "meta"
      BY <1>1, HeadTailProperties DEF At, AccountTypes
    <3> QED  BY <3>1 DEF IncomingCovers, Queued
  <2>5. tab' \in [Tabs -> Page] /\ disk' \in [meta : Progress, run : Log] /\ tab' = tab /\ disk' = disk
    BY <1>7 DEF AccountTypes
  <2> QED  BY <1>1, <1>2, <1>3, <1>7, <2>2, <2>3, <2>4, <2>5, SyncKeeps DEF Later
<1> QED  BY <1>5, <1>6, <1>7, SyncMetaEnds

\* What an award is made of: the account as the submission had read it.
LEMMA AwardedAccount ==
  ASSUME AccountsInv, NEW t \in Tabs, At(t, "submit", "award"), Unchanged(step[t].stored.ver)
  PROVE  LET new == [ApplyRunToMeta(step[t].stored, Run(t).len) EXCEPT !.ver = profile.ver + 1]
         IN /\ step[t].stored = profile
            /\ new \in Progress /\ Later(new, profile) /\ new.xp >= profile.xp
            /\ new.ver = profile.ver + 1
<1> USE DEF AccountsInv
<1>1. step[t].stored # NoProfile
  BY DEF SubmitsForAnAccount, Queries
<1>2. step[t].stored = profile /\ profile.ver >= 1
  BY <1>1 DEF ReadsAreKnown, Known, Unchanged
<1>3. profile \in Progress /\ Run(t).len \in Nat
  BY TheRun DEF AccountTypes, At, Log
<1>4. /\ ApplyRunToMeta(profile, Run(t).len) \in Progress
      /\ ApplyRunToMeta(profile, Run(t).len).xp = profile.xp + Run(t).len
  BY <1>3, AppliedIsProgress
<1> QED  BY <1>2, <1>3, <1>4 DEF Later, Progress

LEMMA SubmitRunAwardsKeeps ==
  ASSUME AccountsInv, NEW t \in Tabs, SubmitRunAwards(t)
  PROVE  AccountsInv'
<1> USE DEF AccountsInv
<1>1. /\ calls[t] # <<>> /\ At(t, "submit", "award") /\ Answered(t) /\ Accepted(t)
      /\ UNCHANGED <<disk, sync>>
  BY DEF SubmitRunAwards, At
<1>2. Query(t) /\ step'[t].at = "start"
  BY <1>1, NowAt DEF Query
<1>3. /\ ~At(t, "meta", "write")' /\ (\A query \in Queries \ {"start"} : ~At(t, "submit", query)')
      /\ \A r \in Runs : ~Submits(t, r, "award")' /\ ~Submits(t, r, "write")'
  BY <1>2 DEF Submits, At
<1>4. CASE ~Unchanged(step[t].stored.ver)
  <2>1. UNCHANGED <<profile, rows>>
    BY <1>4 DEF SubmitRunAwards
  <2>2. rows' \in Rows /\ \A r \in Runs : rows'[r] = rows[r]
    BY <2>1 DEF AccountTypes
  <2> QED  BY <1>1, <1>2, <1>3, <2>1, <2>2, QueryKeeps
<1>5. CASE Unchanged(step[t].stored.ver)
  <2> DEFINE new == [ApplyRunToMeta(step[t].stored, Run(t).len) EXCEPT !.ver = profile.ver + 1]
  <2>1. profile' = new /\ rows' = [rows EXCEPT ![Run(t).id].awards = @ + 1]
    BY <1>5 DEF SubmitRunAwards
  <2>2. new \in Progress /\ Later(new, profile) /\ new.ver = profile.ver + 1
    BY <1>1, <1>5, AwardedAccount
  <2> HIDE DEF new
  <2>3. profile' \in Progress /\ Later(profile', profile) /\ profile'.ver = profile.ver + 1
    BY <2>1, <2>2
  <2>4. rows \in [Runs -> Row] /\ \A r \in Runs : rows[r] \in Row /\ (rows[r].edited => r \in Panel)
    BY DEF AccountTypes, Rows
  <2>5. \A row \in Row : [row EXCEPT !.awards = @ + 1] \in Row
                         /\ [row EXCEPT !.awards = @ + 1].edited = row.edited
    BY DEF Row
  <2>6. rows' \in Rows
    <3>1. rows' = [rows EXCEPT ![Run(t).id] = [rows[Run(t).id] EXCEPT !.awards = @ + 1]]
      BY <2>1, <2>4
    <3>2. \A r \in Runs : rows'[r] = IF r = Run(t).id THEN [rows[r] EXCEPT !.awards = @ + 1] ELSE rows[r]
      BY <2>4, <3>1
    <3>3. rows' \in [Runs -> Row]
      BY <2>4, <2>5, <3>1
    <3> QED  BY <2>4, <2>5, <3>2, <3>3 DEF Rows
  <2>7. /\ calls' \in [Tabs -> Seq(CallOf)]
        /\ calls' = calls \/ calls' = [calls EXCEPT ![t] = Tail(@)]
        /\ step' \in [Tabs -> [at : Queries, stored : Progress]]
        /\ \A u \in Tabs \ {t} : Stays(u)
        /\ \A u \in Tabs : step'[u].stored \in {step[u].stored, profile, NoProfile}
    BY <1>1, <1>2, QueryMoves
  <2>8. /\ tab' \in [Tabs -> Page]
        /\ \A u \in Tabs : tab'[u].meta = tab[u].meta
        /\ \A u \in Tabs \ {t} : tab'[u] = tab[u]
    BY <1>1, AcceptedKeeps
  <2>9. AccountTypes'
    BY <1>1, <2>3, <2>6, <2>7, <2>8 DEF AccountTypes
  <2>10. AtACall' /\ ReadsAreKnown' /\ SubmitsForAnAccount'
    <3>1. AtACall'
      BY <1>2, <2>7 DEF AtACall, Stays
    <3>2. ReadsAreKnown'
      BY <2>3, <2>7, ReadsCarry
    <3>3. SubmitsForAnAccount'
      BY <1>3, <2>7, SubmitsCarry
    <3> QED  BY <3>1, <3>2, <3>3
  <2>11. AwardsAreOver'
    <3>1. ASSUME Run(t).id \in Runs \ Panel
          PROVE  rows[Run(t).id].awards = 0 /\ rows[Run(t).id].status = "finished"
      <4>1. Submits(t, Run(t).id, "award")
        BY <1>1 DEF Submits
      <4>2. rows[Run(t).id].awards \in Nat /\ rows[Run(t).id].awards <= 1
        BY <2>4, <3>1 DEF Row, AwardsAreOver
      <4>3. rows[Run(t).id].awards # 1
        <5>1. step[t].stored = profile /\ profile.ver \in Int
          BY <1>1, <1>5, AwardedAccount DEF AccountTypes, Progress
        <5>2. rows[Run(t).id].awards = 1 => step[t].stored.ver < profile.ver
          BY <3>1, <4>1 DEF AwardsAreOver
        <5> QED  BY <5>1, <5>2
      <4> QED  BY <3>1, <4>1, <4>2, <4>3 DEF AwardsAreOver
    <3>2. \A r \in Runs : /\ rows'[r].status = rows[r].status
                          /\ rows'[r].awards = IF r = Run(t).id THEN rows[r].awards + 1 ELSE rows[r].awards
      BY <2>1, <2>4 DEF AccountTypes, Row
    <3>3. ASSUME NEW r \in Runs \ Panel
          PROVE  rows'[r].awards <= 1 /\ (rows'[r].awards = 1 => rows'[r].status = "finished")
      BY <3>1, <3>2, <3>3 DEF AwardsAreOver
    <3>4. ASSUME NEW r \in Runs \ Panel, NEW u \in Tabs \ {t}
          PROVE  /\ Submits(u, r, "award")' => rows'[r].status = "finished"
                 /\ (Submits(u, r, "write")' \/ Submits(u, r, "award")') /\ rows'[r].awards = 1 =>
                      step'[u].stored.ver < profile'.ver
      <4>1. ASSUME NEW query \in {"write", "award"}, Submits(u, r, query)'
            PROVE  Submits(u, r, query) /\ step'[u] = step[u]
        BY <2>7, <3>4, <4>1, HeadIsKept DEF Submits, Queries, Stays
      <4>2. step[u].stored.ver <= profile.ver /\ step[u].stored.ver \in Int /\ profile.ver \in Int
        BY <3>4 DEF ReadsAreKnown, Known, AccountTypes, Progress
      <4> QED  BY <2>3, <3>2, <3>4, <4>1, <4>2 DEF AwardsAreOver
    <3> QED  BY <1>3, <3>3, <3>4 DEF AwardsAreOver
  <2>12. CopiesAreBehind'
    <3>1. profile \in Progress /\ disk.meta \in Progress /\ tab[t].meta \in Progress
          /\ sync[t].local \in Progress /\ sync[t].incoming \in Progress
      BY DEF AccountTypes, Page
    <3>2. /\ NotAhead(disk.meta, profile'.ver) /\ NotAhead(tab[t].meta, profile'.ver)
          /\ NotAhead(sync[t].local, profile'.ver) /\ NotAhead(sync[t].incoming, profile'.ver)
      BY <2>3, <3>1, BehindLater DEF CopiesAreBehind
    <3>3. \A u \in Tabs \ {t} : tab'[u] = tab[u] /\ sync'[u] = sync[u]
      BY <1>1, <2>8
    <3> QED  BY <1>1, <1>3, <2>3, <2>7, <2>8, <3>2, <3>3, CopiesCarry
  <2>13. IncomingCovers'
    BY <1>1, <2>7, IncomingCarry
  <2> QED  BY <2>9, <2>10, <2>11, <2>12, <2>13
<1> QED  BY <1>4, <1>5

LEMMA NextKeeps == AccountsInv /\ [Next]_vars => AccountsInv'
<1> SUFFICES ASSUME AccountsInv, [Next]_vars PROVE AccountsInv'
  OBVIOUS
<1>1. CASE UNCHANGED vars
  BY <1>1 DEF vars, AccountsInv, AccountTypes, AtACall, ReadsAreKnown, SubmitsForAnAccount, AwardsAreOver,
              CopiesAreBehind, IncomingCovers, Submits, At, Run, Queued
<1>2. ASSUME NEW t \in Tabs, PageStep(t) PROVE AccountsInv'
  BY <1>2, TabKeeps
<1>3. CASE Next
  BY <1>2, <1>3, GetMyProfileKeeps, SyncMetaKeeps, LookingKeeps, RunKeeps, SubmitRunAwardsKeeps
     DEF Next, PageStep
<1> QED  BY <1>1, <1>3

LEMMA AccountsAreSound == Spec => []AccountsInv
BY InitHolds, NextKeeps, PTL DEF Spec

-----------------------------------------------------------------------------
(* Theorems *)

\* No account is awarded a run twice, however many tabs submit it (submitRun).
THEOREM AccountAwardsOnce == Spec => []AwardedOnce
<1>1. AccountsInv => AwardedOnce
  BY DEF AccountsInv, AwardsAreOver, AwardedOnce
<1> QED  BY <1>1, AccountsAreSound, PTL

\* What a step makes of the account.
LEMMA AccountSteps ==
  ASSUME NEW t \in Tabs, PageStep(t) \/ GetMyProfile(t) \/ SyncMetaFinds(t) \/ SyncMetaWrites(t)
           \/ SaveRunFinds(t) \/ SaveRunUpdates(t) \/ SaveRunAbandons(t) \/ SaveRunCreates(t)
           \/ DiscardRun(t) \/ SubmitRunReads(t) \/ SubmitRunFinds(t) \/ SubmitRunWrites(t)
           \/ SubmitRunRejects(t) \/ SubmitRunAwards(t) \/ SubmitRunDies(t)
  PROVE  profile' = profile \/ SyncMetaWrites(t) \/ SubmitRunAwards(t)
BY DEF PageStep, Open, Leave, Start, Resume, Move, Save, PlayAgain, Press, GetMyProfile, SyncMetaFinds,
       SaveRunFinds, SaveRunUpdates, SaveRunAbandons, SaveRunCreates, DiscardRun, SubmitRunReads,
       SubmitRunFinds, SubmitRunWrites, SubmitRunRejects, SubmitRunDies

\* The account never loses progress nor a ranked run, whatever overlaps (syncMeta,
\* saveRun, discardRun, submitRun).
THEOREM AccountNeverLoses == Spec => CloudNeverLoses
<1> DEFINE Kept == /\ profile'.xp >= profile.xp
                   /\ \A r \in Runs \ Panel : rows[r].status = "finished" => rows'[r].status = "finished"
<1>1. ASSUME AccountsInv, NEW t \in Tabs, SyncMetaWrites(t) PROVE profile'.xp >= profile.xp
  <2>1. profile.xp \in Nat /\ At(t, "meta", "write")
    BY <1>1 DEF AccountsInv, AccountTypes, Progress, SyncMetaWrites
  <2> QED  BY <1>1, <2>1, SyncMetaEnds, SyncWritesMore
<1>2. ASSUME AccountsInv, NEW t \in Tabs, SubmitRunAwards(t) PROVE profile'.xp >= profile.xp
  <2>1. profile.xp \in Nat
    BY <1>2 DEF AccountsInv, AccountTypes, Progress
  <2>2. CASE Unchanged(step[t].stored.ver)
    <3>1. At(t, "submit", "award")
      BY <1>2 DEF SubmitRunAwards
    <3>2. profile' = [ApplyRunToMeta(step[t].stored, Run(t).len) EXCEPT !.ver = profile.ver + 1]
      BY <1>2, <2>2 DEF SubmitRunAwards
    <3> QED  BY <1>2, <2>2, <3>1, <3>2, AwardedAccount
  <2>3. CASE ~Unchanged(step[t].stored.ver)
    BY <1>2, <2>1, <2>3 DEF SubmitRunAwards
  <2> QED  BY <2>2, <2>3
<1>3. ASSUME AccountsInv, Next PROVE profile'.xp >= profile.xp
  <2>1. profile.xp \in Nat
    BY <1>3 DEF AccountsInv, AccountTypes, Progress
  <2> QED  BY <1>1, <1>2, <1>3, <2>1, AccountSteps DEF Next, PageStep
<1>4. ASSUME AccountsInv, Next PROVE \A r \in Runs \ Panel : rows[r].status = "finished" => rows'[r].status = "finished"
  <2>1. AccountTypes /\ rows \in [Runs -> Row] /\ \A r \in Runs : rows[r] \in Row
    BY <1>4 DEF AccountsInv, AccountTypes, Rows
  <2>2. ASSUME NEW t \in Tabs,
               SaveRunUpdates(t) \/ SubmitRunWrites(t) \/ SubmitRunAwards(t) \/ DiscardRun(t)
        PROVE  \A r \in Runs \ Panel : rows[r].status = "finished" => rows'[r].status = "finished"
    BY <1>4, <2>1, <2>2 DEF SaveRunUpdates, SubmitRunWrites, SubmitRunAwards, DiscardRun, Discardable,
                            AccountsInv, Row
  <2>3. ASSUME NEW t \in Tabs, SaveRunCreates(t)
        PROVE  \A r \in Runs \ Panel : rows[r].status = "finished" => rows'[r].status = "finished"
    BY <1>4, <2>1, <2>3 DEF SaveRunCreates, InProgress
  <2>5. ASSUME NEW t \in Tabs, SaveRunAbandons(t) \/ SubmitRunRejects(t)
        PROVE  \A r \in Runs \ Panel : rows[r].status = "finished" => rows'[r].status = "finished"
    <3>1. CASE SaveRunAbandons(t)
      BY <3>1 DEF SaveRunAbandons, InProgress
    <3>2. CASE SubmitRunRejects(t)
      <4>1. Run(t).id \in Panel
        BY <2>1, <3>2, TheRun DEF SubmitRunRejects, At, Log
      <4>2. \A r \in Runs \ Panel : rows'[r] = rows[r]
        BY <2>1, <3>2, <4>1 DEF SubmitRunRejects
      <4> QED  BY <4>2
    <3> QED  BY <2>5, <3>1, <3>2
  <2>4. ASSUME NEW t \in Tabs, rows' = rows
        PROVE  \A r \in Runs \ Panel : rows[r].status = "finished" => rows'[r].status = "finished"
    BY <2>4
  <2> QED
    BY <1>4, <2>2, <2>3, <2>4, <2>5
    DEF Next, Open, Leave, Start, Resume, Move, Save, PlayAgain, Press, GetMyProfile, SyncMetaFinds,
        SyncMetaWrites, SaveRunFinds, SubmitRunReads, SubmitRunFinds, SubmitRunDies
<1>5. ASSUME AccountsInv, UNCHANGED vars PROVE Kept
  BY <1>5 DEF vars, AccountsInv, AccountTypes, Progress
<1>6. AccountsInv /\ [Next]_vars => [Kept]_vars
  BY <1>3, <1>4
<1> QED  BY <1>6, AccountsAreSound, PTL DEF Spec, CloudNeverLoses

\* Nothing but the end of a synchronisation makes a page say "synced".
LEMMA PageStates ==
  ASSUME AccountTypes, NEW t \in Tabs, PageStep(t), NEW u \in Tabs
  PROVE  tab'[u].state \in {tab[u].state, "syncing", "offline"}
<1>1. tab[u] \in Page /\ tab[t] \in Page
  BY DEF AccountTypes
<1>2. CASE Open(t)
  BY <1>1, <1>2 DEF Open, NoPage, AccountTypes
<1>3. CASE Start(t)
  BY <1>1, <1>3 DEF Start, AccountTypes, Page
<1>4. CASE Resume(t)
  BY <1>1, <1>4 DEF Resume, AccountTypes, Page
<1>5. CASE Move(t)
  <2> DEFINE meta(run) == ApplyRunToMeta(tab[t].meta, run.len)
             on(run) == [tab[t] EXCEPT !.run = run, !.dirty = TRUE]
             over(run) == [tab[t] EXCEPT !.run = run, !.stage = "over", !.meta = meta(run), !.dirty = FALSE]
  <2>1. PICK run \in Longer(tab[t].run) : tab' = [tab EXCEPT ![t] = on(run)] \/ tab' = [tab EXCEPT ![t] = over(run)]
    BY <1>5 DEF Move, AccountTypes
  <2> HIDE DEF meta
  <2>2. on(run).state = tab[t].state /\ over(run).state = tab[t].state
    BY <1>1 DEF Page
  <2> HIDE DEF on, over
  <2> QED  BY <2>1, <2>2 DEF AccountTypes
<1>6. CASE Save(t)
  <2>1. tab' = [tab EXCEPT ![t] = [tab[t] EXCEPT !.dirty = FALSE]]
    BY <1>6 DEF Save, AccountTypes
  <2> QED  BY <1>1, <2>1 DEF AccountTypes, Page
<1>7. CASE PlayAgain(t)
  BY <1>1, <1>7 DEF PlayAgain, AccountTypes, Page
<1>8. CASE Press(t)
  BY <1>8 DEF Press
<1>9. CASE Leave(t)
  BY <1>9 DEF Leave, NoPage, AccountTypes
<1> QED  BY <1>2, <1>3, <1>4, <1>5, <1>6, <1>7, <1>8, <1>9 DEF PageStep

LEMMA CallStates ==
  ASSUME AccountTypes, NEW t \in Tabs, NEW u \in Tabs,
         \/ tab' = tab \/ Accepted(t)
         \/ \E meta \in Progress : Outcome(t, meta, "error") \/ Outcome(t, meta, "conflict")
  PROVE  tab'[u].state \in {tab[u].state, "error", "conflict"}
<1>1. tab[t] \in Page
  BY DEF AccountTypes
<1>2. CASE tab' = tab \/ Accepted(t)
  BY <1>2, AcceptedKeeps
<1>3. ASSUME NEW meta \in Progress, NEW state \in {"error", "conflict"}, Outcome(t, meta, state)
      PROVE  tab'[u].state \in {tab[u].state, "error", "conflict"}
  BY <1>3, OutcomeIs
<1> QED  BY <1>2, <1>3

\* A page that comes to say "synced" has handed over all it knew (syncProgress).
THEOREM SyncedMeansCovered == Spec => SyncedCoversLocal
<1> DEFINE Covers == \A t \in Tabs : tab[t].state = "syncing" /\ tab'[t].state = "synced"
                                       => profile'.xp >= sync[t].local.xp
<1>1. ASSUME AccountsInv, NEW t \in Tabs, SyncMetaWrites(t), NEW u \in Tabs,
             tab[u].state = "syncing", tab'[u].state = "synced"
      PROVE  profile'.xp >= sync[u].local.xp
  <2>1. At(t, "meta", "write") /\ AccountTypes /\ sync[t].local \in Progress /\ sync[t].incoming \in Progress
    BY <1>1 DEF AccountsInv, AccountTypes, SyncMetaWrites
  <2>2. CASE /\ IF step[t].stored = NoProfile THEN profile = NoProfile ELSE Unchanged(sync[t].incoming.ver)
             /\ profile' = SyncWrites(t) /\ Outcome(t, SyncWrites(t), "synced")
    <3>1. SyncWrites(t) \in Progress /\ profile'.xp >= sync[t].incoming.xp
      BY <1>1, <2>1, <2>2, SyncWritesMore
    <3>2. u = t
      BY <1>1, <2>1, <2>2, <3>1, OutcomeIs
    <3>3. sync[t].incoming.xp >= sync[t].local.xp
      <4>1. 1 \in DOMAIN calls[t] /\ calls[t][1].kind = "meta"
        BY <2>1, HeadTailProperties DEF At, AccountTypes
      <4> QED  BY <1>1, <4>1 DEF AccountsInv, IncomingCovers, Queued
    <3>4. profile'.xp \in Int /\ sync[t].incoming.xp \in Int /\ sync[t].local.xp \in Int
      BY <2>1, <2>2, <3>1 DEF Progress
    <3> QED  BY <3>1, <3>2, <3>3, <3>4
  <2>3. CASE \/ Outcome(t, sync[t].local, "error")
             \/ Outcome(t, sync[t].incoming, "conflict")
             \/ UNCHANGED <<tab, disk>>
    BY <1>1, <2>1, <2>3, CallStates
  <2> QED  BY <1>1, <2>2, <2>3, SyncMetaEnds
<1>2. ASSUME AccountsInv, NEW t \in Tabs, GetMyProfile(t), NEW u \in Tabs
      PROVE  tab'[u].state \in {tab[u].state, "error", "conflict"}
  <2>1. AccountTypes /\ sync[t].local \in Progress /\ sync[t].incoming \in Progress
    BY <1>2 DEF AccountsInv, AccountTypes
  <2>2. tab' = tab \/ \E meta \in Progress : Outcome(t, meta, "error")
    BY <1>2, <2>1 DEF GetMyProfile
  <2> QED  BY <2>1, <2>2, CallStates
<1>3. ASSUME AccountsInv, Next PROVE Covers
  <2>1. PICK t \in Tabs :
          \/ PageStep(t) \/ GetMyProfile(t) \/ SyncMetaWrites(t)
          \/ tab' = tab \/ Accepted(t)
    BY <1>3 DEF Next, PageStep, SyncMetaFinds, SaveRunFinds, SaveRunUpdates, SaveRunCreates, DiscardRun,
                SaveRunAbandons, SubmitRunReads, SubmitRunFinds, SubmitRunWrites, SubmitRunRejects,
                SubmitRunAwards, SubmitRunDies
  <2>2. AccountTypes
    BY <1>3 DEF AccountsInv
  <2>3. CASE SyncMetaWrites(t)
    BY <1>1, <1>3, <2>3
  <2>4. CASE PageStep(t) \/ GetMyProfile(t) \/ tab' = tab \/ Accepted(t)
    <3>1. \A u \in Tabs : tab'[u].state \in {tab[u].state, "syncing", "offline", "error", "conflict"}
      BY <1>2, <1>3, <2>2, <2>4, PageStates, CallStates
    <3> QED  BY <3>1
  <2> QED  BY <2>1, <2>3, <2>4
<1>4. ASSUME UNCHANGED vars PROVE Covers
  BY <1>4 DEF vars
<1>5. AccountsInv /\ [Next]_vars => [Covers]_vars
  BY <1>3, <1>4
<1> QED  BY <1>5, AccountsAreSound, PTL DEF Spec, SyncedCoversLocal
=============================================================================
