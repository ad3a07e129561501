# Verification of devgame

devgame is a browser game about developing software. A **run** is played alone in the
browser and its log of actions is replayed by the server when it is submitted; a
**company** is a run played by several people at once, in rounds of thirty seconds, on a
realtime server that keeps every company in memory and writes its log to a database.
This directory holds TLA+ models of the parts where order, failure and time decide
whether the game is right, the TLC configurations that check them, and proofs, checked
by TLAPS, of what matters most.

Paths below are relative to the repository (`src/realtime/world.ts` is the file of that
name in the application's `src` directory).

## 1. Inventory

### The realtime server

| Part | State | Operations | Talks to |
| --- | --- | --- | --- |
| Round clock (`src/realtime/clock.ts`) | start of the schedule, count of ticks, running, handle of the pending timer | start, stop, resume, fire (in two halves around an `await`) | calls `onTick`; stopped and resumed by the persister's callbacks |
| Persister (`persister.ts`) | backlog of batches, failures in a row, chain of flushes | flush, run (in two halves around the commit) | drains the world, commits to the store, pauses and resumes the clock |
| World (`world.ts`) | companies (engine state, log, members, choices, question, snapshot), seats by profile, who is online, who waits in the lobby | connect, disconnect, wait, unwait, create, join, recruit, leave, act, round act, vote, resync, tick, drain, recover | the rules engine; gives its writes to the persister |
| Server (`server.ts`) | sockets by profile, hello state and rate window of each | open, message, close, tick, stop | feeds the world, delivers what it answers |
| Stores (`store.ts`, `prismaStore.ts`) | worlds, companies, members, entries, snapshots; unique live seat per profile | load, create, commit | called by the persister and at boot |
| Machine player (`autopilot.ts`, `game/bridge/supervisor.ts`) | none | drives a seat for one round | the engine, on a copy |
| Connection tickets (`src/lib/realtime/ticket.ts`) | tickets already used | issue, verify, consume | the ticket route, the server |

What makes them hard: every handler of the world runs to its end, but messages, ticks,
flushes and answers of the store interleave between two handlers; `fire` and `run` are
cut in two by an `await`; the store may fail, or commit and lose its answer; the process
may die at any point and starts again from the store; players leave, come back and
are replaced by the machine.

What makes them correct: the schedule is kept and never lost; the store is always a
prefix of the log; a profile has one seat and a seat one profile; a company that decides
does not play and a company that plays goes on playing; a run that is over closes its
company; a restart changes nothing a player could see, except what is documented.

### The browser

| Part | State | Operations | Talks to |
| --- | --- | --- | --- |
| Connection (`src/realtime/client/client.ts`) | status, generation of the dial, socket, retry timer | start, dial, drop, watchdog, send, stop | the ticket route, the server |
| View and stage (`client/reduce.ts`, `client/driver.ts`, `app/.../multi/play/MultiStage.tsx`) | what the page knows of its company; a session that replays the log | apply a message, drain the inbox, resync, leave | the server, the session |
| Session (`src/game/bridge/session.ts`) | the run, the batch of events published, the gauges held | apply, publish, skip, complete | the engine, the store, the scene |
| Scene (`bridge/sceneGuard.ts`, `mount.ts`, `landing.ts`, `components/game/GameCanvas.tsx`) | who owns the canvas, its mode, failures in a row | mount, build, fail, retry, dispose | WebGL; the store of the run |
| Story (`chips/FxQueue.ts`, `bridge/reveal.ts`, `bridge/gaugeCues.ts`, `components/hud/flights.ts`) | effects to play, what is drawn, figures in flight, watchdogs | enqueue, update, skip, land | the session |
| Storyboard (`bridge/pushes.ts`, `render/storyboard.ts`) | the ledger of pushes, the plan of a batch | fold an event, plan, catch up | the graph of the run |
| Accounts (`app/.../play/PlayClient.tsx`, `src/lib/storage/`, `src/lib/profile/`, `src/lib/run/`) | progress and run in each tab, in `localStorage`, in the account | open, play, save, discard, submit, synchronise | the database, through server actions |

What makes them hard: a build, a ticket, an answer of the server or a figure in flight
comes back to a page that has moved on; two tabs share a storage and an account; a story
is told of a state that is already somewhere else. What makes them correct: one connection
and one scene, each owned by who wants it; the page shows a prefix of the company's log;
the player never waits for something that will not come; no progress is lost or counted
twice.

### The rules engine

`src/game/core/` is a pure, seeded reducer: the state of a run, the actions legal in it,
and the state after an action (`rules/reducer.ts`), with the sprint (`sprint.ts`), the
life of a ticket from board to release (`tickets.ts`, `acceptance.ts`, `commit.ts`,
`write.ts`, `review.ts`), the commit graph (`map/graph.ts`, `map/layout.ts`), bounded
gauges (`energy.ts`, `debt.ts`, `quality.ts`), money and servers (`economy.ts`,
`capacity.ts`, `money.ts`, `market.ts`), hired developers (`team.ts`), relics, events,
skills and shop. `rules/crew.ts` puts several humans on one run, and `rules/preview.ts`
tells the player what an action costs before it is taken. It must be deterministic (the
server replays what the browser played), must never get stuck (some action is always legal
until the run is over), must keep its gauges and links in range, and must do what the
panel announces.

The rest (interface, rendering, sound, telemetry, visits, scripts, deployment) keeps no
state the rules depend on. `PROJECT.json` lists every component with what is modelled of
it, and the hazards found while reading the code, each at its line.

## 2. Modules

| Module | Models | Role |
| --- | --- | --- |
| `RoundClock` | `clock.ts` | the schedule, with the two halves of `fire` as two actions |
| `Persister` | `persister.ts`, and the commit of a store | flushes, failures, lost answers, crashes |
| `TickLoop` | `server.ts` | composes the two above through `onTick`, `onPause`, `onResume` |
| `CrewEngine`, `Crew` | `rules/crew.ts`, `rules/reducer.ts` | what the world sees of a company's run: seats and phases; `Crew` is that as a specification |
| `Desks` | `rules/crew.ts`, `acceptance.ts`, `write.ts`, `team.ts` | tickets, hands and questions of a company; implements `Crew` |
| `World` | `world.ts` | every handler that changes a company, a seat or the lobby; tick, drain, restart |
| `TickedWorld` | `world.ts` under `clock.ts` | adds the clock's promise, for liveness |
| `Seating` | the seats of the world | abstract specification, implemented by `World` |
| `CompanyStore` | `prismaStore.ts`, and the writes of `world.ts` | the tables below the batches that `Persister` counts |
| `Session` | `client/`, `MultiStage.tsx`, and the side of `server.ts` and `world.ts` they meet | one player's connection, page and stage |
| `Accounts`, `MCAccounts` | `PlayClient.tsx`, `lib/storage`, `lib/profile`, `lib/run` | tabs, their storage, the account |
| `Story` | `FxQueue.ts`, `session.ts`, `gaugeCues.ts`, `reveal.ts` | the story of a batch and the wait for its end |
| `Scene` | `sceneGuard.ts`, `mount.ts`, `landing.ts`, `GameCanvas.tsx` | who owns the picture |
| `Branches` | `write.ts`, `map/`, `pushes.ts`, `storyboard.ts` | the commit graph, and the screen that catches up with it |
| `SoloRun` | `rules/reducer.ts`, `sprint.ts`, `tickets.ts`, `acceptance.ts`, `team.ts`... | a run played alone, rule by rule |
| `Forecast`, `MCForecast` | `rules/preview.ts`, `energy.ts`, `debt.ts`, `write.ts`, `review.ts` | what the panel announces against what the rules take |
| `...Proofs` | | proofs about `TickLoop` (with its `RoundClock` and `Persister`) and `CompanyStore` (`ServerProofs`), `World` (and `Seating`), `Session`, `Scene`, `Story` and `Accounts` (`PageProofs`, the player's page), `Branches`, `SoloRun`, `Forecast`, `Desks` |

How they hang together: `RoundClock` and `Persister` are the two halves of `TickLoop`;
what the loop promises (a tick always comes) is the fairness of `TickedWorld`. `World` uses
the operators of `CrewEngine` for the runs of its companies and implements `Seating`;
`Desks` implements the same engine from below, with its tickets, so that what `World` takes
for granted about a run is what the rules of a crew do. `Session` is one client of such a
world. `SoloRun`, `Branches` and `Forecast` are three views of the same reducer (who
has what and when, the commits, the numbers), each with what the others leave out as choices.
`Story` and `Scene` meet in what a lost scene does to a story.

### RoundClock, Persister, TickLoop

`now` is the injected clock. `timers` are the host's pending timers and `handle` the one
the clock remembers; `firing` counts the ticks whose `onTick` is awaited. `Fire` is
`fire()` up to the await, `TickDone` what follows it, whether `onTick` returned or threw.
A timer may run at any moment from when it is due, so a late host and a process that slept
are behaviours of the model. `tickedAt` and `deadline` are what players see: when the last
tick was and when the next is announced. `crossed` remembers that `resume()` was called
while a tick was awaited, the one case the schedule does not survive.

In `Persister` writes are numbered in the order the world makes them, so a batch and the
content of the store are sets of numbers. `Begin` is `run()` up to `await store.commit`,
`CommitOk` and `CommitFail` the answer; `CommitFail(TRUE)` is a commit that was applied and
whose answer was lost, `Crash` a process that dies (after `CommitFail(TRUE)`, one that dies
with its last transaction applied). `paused` is the last callback made. Not every backlog
can be stored: `Creations` are the writes that create a company, which the primary key
refuses the second time (`prismaStore.ts:136`), and `Seatings` those that seat, in an older
company, a player whom the write before took from a younger one, which the index of live
seats refuses when one drain holds both (`DrainMisorders`). As a batch is retried whole,
one that is `Refused` is refused until the process dies, and `ServiceComesBack` is said of
the others.

`TickLoop` has both over one state. `settled` encodes what JavaScript guarantees: when a
flush ends, the continuation of the tick that awaited it runs before any other timer,
message or answer. The clock is stopped inside `CommitFail` and resumed inside
`CommitOk`, as the callbacks are; `Restart` is a process that dies and boots.

### CrewEngine, World, Seating

`CrewEngine` keeps a phase, the set of occupied seats and the next seat number, and says
which of them each entry of the log may lead to; the dice, tickets and money become
nondeterministic outcomes. `World` keeps a record per company: status, engine, members,
choices of the round (`pending`), the open question and its voters, the counts of rounds.
A message is refused without any change, so only accepted messages are steps. The tick
takes a *roll* per company, which holds everything the engine would draw. A failure in the
tick of a company is what the code makes of it: the entries already in the log stay, the
rest is skipped. What can fail is in `ThrowCauses`: a review, the review bot of the end of a
turn and a hack won for energy, once seat 0 is vacant; an obstacle parted from its ticket, once
any seat was left. The machine's own free actions may also end the run, and then the round is
refused. `kept` is what the store knows of a member, so that `Restart` loses
exactly what memory alone knew. `Seating` is one slot per seat of each company: a free
profile sits on a fresh slot, profiles leave slots, slots of vanished companies are retired;
`World` implements it with `seat <- seated` and `used` computed from the members.

### Desks

A round of `applyRound` is cut into the seats it plays one after the other, the team, the
month, the release and the burnouts. `board` has the tickets with their holder, each
seat's hand and question, and the one hired developer. Every path by which work changes
desks is there: an arrival, a departure (`leaveSeat`), a burnout, a developer let go, a
stale ticket, an obstacle that lands. `done` is a ticket with its points full and nothing
flagged. A round that throws is lost whole by the caller, and the model stops there.
`parted` says that a departure has left a ticket and its obstacle at two desks: two
properties hold only until then (section 4). `Seen` is the mapping to `CrewEngine`: the
state of the company as it was before the round, until the round is over.

Abstracted: boxes, months, patience, staleness, points and offers are choices; a seat that
misses, passes, rests, skips, reviews or fails a fix does nothing the others see; "forced"
is any number of hotfixes or refactors; a review's write to seat 0 is `World`'s.

### CompanyStore

`Persister` counts writes and is told which of them a database refuses. `CompanyStore` looks
below, at why: a write is a company with all its
members as they stand, its new entries and its snapshot (`WriteOf`), a batch is those of
the companies that changed in the order of the world's map (`Drained`), and a transaction
puts them in one after the other (`Put`), the members of each statement by statement
(`WithMembers`), or refuses everything. The world is cut down to what its writes depend on:
who sits where and how long the log is. Rounds and messages fall between `Flush` and
`Commit`. `LosesAnswers` and `Diverges` switch on the two failures that some properties
do not survive. `Boot` reads the rows; a company it refuses is left in the table.

### Session

One browser, one seat. Asking for a ticket, opening a socket, each frame one way and the
other, and the two ends' knowledge that a socket is closed are separate steps: a connection
may be half open for as long as it likes, and an old one may still have frames on their way
when the new one has said hello. `client` has the connection's variables with the
generation that invalidates late answers, `socks` the sockets by generation, `view` the
page's store, `stage` the session that replays the log, `world` what the server knows. A
stage that applies an entry to another state than the one it follows gets another hash, so
`good` is the hash check. A socket the browser closed itself may tell so when another dial is
under way (`LateClose`), and the server may release the player's own idle seat while a question is open.
A stage mounts late, drifts (`MaxDrifts`), asks a resync, is replaced, goes back to the lobby. Not here: the lobby's list, rankings, seat names.

### Accounts

`tab` is a page (stage, its copy of the progress, its run), `disk` the storage the tabs
share, `profile` and `rows` the database. Next.js sends the server actions of one page one
at a time, so `calls` is a queue per tab whose first is under way; each action is cut at
every query it awaits (`step`), and those of two tabs interleave there. A page may be left or
reloaded with a call under way (`Leave`, then `Open` as another of `Tabs`): the server ends the call,
nobody hears its answer, and the calls behind it are never sent. A link inside the application leaves
the document and its calls alive, which is a page that does nothing more. `Panel` has the runs
the development panel may write in (`play/page.tsx:48` shows it in development builds only): its
entries do not replay on the server (`dto/replay.ts:72`), which refuses the run. The figures of a career
(level, experience, commits) grow together and are one number. `SubmitRun` may be refused,
die between two queries, or meet a unique key.

### Story

A published batch becomes effects: reveals of commits, figures that pop, and an end. The
scene plays them frame by frame; a frame ends an effect or does not come. Figures leave the
scene and fly to a gauge in the HUD, and the gauge is held at what it showed until they
land. `pending` is what makes the player wait. The player may cut the story short, hide the
tab or open a dialog that holds time still; an entry of a company cuts the story on stage short
before its own is told (`driver.ts:76`); and the scene may be lost and rebuilt meanwhile, as WebGL or as a still canvas. The run itself is a set of commits and one gauge.

### Scene

A mount builds its scene asynchronously: a build is known by its mount and the generation
that asked for it, and resolves whenever it likes. `GameCanvas` and the landing's demo are
two owners over one store (`shows`) and one memory of what WebGL failed at
(`webglGivenUp`). Promises that wait for a build run before any other event (`Quiet`).

### Branches

`repo` is the graph: nodes with lane, parents, ticket and `broken`, and the tickets with
the ids they kept. Every rule that adds a node or moves a tip is an action with the lanes
it takes and gives back. `sent` is the batch of events, `ledger` what `pushes.ts` folds from
them over the state *after* the batch, `screen` what the storyboard has drawn when the
story is told. The pushes of one event are a set: they fold different commits, and what is left
on the screen does not depend on their order. Points, bugs and dice are choices; ticket arrivals, forced hotfixes, follow-up
tickets, cancelled ones and the pruning of a showcase are left out; where a rule takes the
oldest, any will do; `Skip` ends on the same screen as `Complete`.

### SoloRun

`applyAction` is one call. Here it is cut into the rules it goes through: `step` names the
next rule, in the order of the calls, and the player moves only when it is `"idle"`. That
gives every rule an action of its own, and makes "every action comes to an end" a property
and not an assumption. A player's action ends at `"settle"` when it is free and at
`"turn"` when it takes the turn; from `"turn"` the engine goes through `endTurn()`
(debt, team, clock, payday), from `"deadlines"` through `endSprint()`, from `"opening"`
through `startNextSprint()`; `"settle"` is the loop at the end of `applyAction`, which
passes turns by itself while only the team has work.

The board is a record per ticket: kind, status, parent (for an obstacle), holder, and two
bits for its work: `full` when its points are written, `flagged` while the review has
something against it. Dice, points, energy, money, debt and criteria are choices; so is
which ticket is the oldest, when the rules take the oldest. The gauge of patience, the
turns and the months are counted as they are. What else is abstracted:

* `"feature"` also stands for migrations, which are arrived, written and landed alike.
* An id is free again once its ticket is gone; nothing in the rules remembers a ticket
  that left the board but a question, and `HandIsMine` says what a question may name.
* A board of `MaxTickets` takes no more tickets. A rule that must add one (an incident, the
  debt) waits for no one: the branch is not taken, as if the dice had said no.
* Which flagged commit a customer's bug follows up is forgotten: one that lands may clear the
  flag of any full ticket (`Landed`), which allows more than the code.
* The offer of a bonus is never empty, because the boosts never run out.
* The pointers on hired developers, the tree and the shop (`dev_set`, `tree`, `buy`,
  `buy_point`) change nothing that is modelled; the showcase and crews are left out.
* `QualityMax` is a constant, though a relic may raise it: the gauge only gets longer.
* `RunBox` says what the balance does: a box is a whole number of months (12 turns of 4)
  and a bonus adds at most one month (4 turns).

### Forecast

A run played alone by its numbers: energy and the tank it is kept in, the turns in a row at
zero, commits that documentation covers, debt, the ticket in hand (a migration or not) with its
points, rework and commits, and the other tickets counted. A skill, an upgrade or a purchase may
enlarge the tank between two turns and fills what it adds (`Raised`, `energy.ts:81`). A commit on
a migration costs the codebase what the panel does not say (`write.ts:256`).
At `"prompt"` the player picks an action and `act` keeps what
`previewAction` announces of it; the rules then run in their order (`step`: the action, the
end of the turn, the calendar with its release, the arrivals), each computing its cost from
the state as it stands, which is where they could part from the panel. `MCBalance` is the
balance of the game scaled down to a gauge of three that may grow to four. Left out: odds, obstacles, hacks,
money, patience, narrative questions, effects that are not constants, the review bot, the
debt's own decay, what is special to deals and customers' bugs, the free
refactor and the longer review of machine commits. Only an unwritten ticket is put down for
another.

## 3. Runs

| Run | Question | Bounds | States |
| --- | --- | --- | --- |
| `tick_loop` | do clock and persister keep schedule and log, and do pauses end? | rounds of 2, horizon 6, limit of 2 failures, 4 writes (the second creates a company, the fourth takes a seat left in the third), 3 flushes queued, 5 timers | 0.3M |
| `world` | do seats, members, choices and questions agree; is the world a `Seating`; does the game go on? | one company, 2 profiles, capacity 2, 3 seats in turn, machine after 1 miss, release after 2 rounds, 3 rounds | 0.1M |
| `accounts` | is progress lost, or awarded twice? | 2 tabs (alike), 2 runs of 3 moves, the last of one of them perhaps the panel's, 2 page loads, a call only to an idle page | 7.0M |
| `session` | one connection, a prefix of the log on the page, and back to it after any failure? | 2 dials, the last never given up, log of 3 entries, 1 frame in flight when the company moves on, 1 drift | 1.6M |
| `story` | is every wait ended, and everything drawn at its end? | three kinds of session, 0 or 2 figures a batch, 2 batches, 1 lost scene | 0.1M |
| `scene` | one picture, of whom it should be, and back after a failure? | 2 failures in a row allowed, 2 visits, 4 failures | 0.3M |
| `branches` | is the graph sound, is the page's ledger the engine's, does the story miss nothing? | 2 features (alike) with an obstacle each, team of 1 holding 1 ticket, 4 commits or sprints | 1.8M |
| `desks` | do hands agree with desks, does everything land once, is the company a `Crew`? | 3 at the site, 4 arrivals, 1 obstacle a ticket, 2 tickets, 1 held by the developer | 0.2M |
| `forecast` | does the panel announce what the rules take; is a burnout seen coming? | gauge of 3 that may grow to 4, debt of 2, box of 3 turns, a payday each, 2 commits on the ticket in hand, 1 other feature or refactor, 1 waiting | 2.4M |
| `solo` | do tickets, hand, obstacles, gauge and months agree; does every action end? | 1 developer, 3 tickets on the board, boxes of 1 turn (2 with a bonus), 2 sprints, gauge of 2 | 1.2M |
| `store` | can what the tables hold always be replayed, with a player for every seat? | 2 profiles, 2 companies of 2 seats and 2 entries, every failure | 1.2M |
| `store_refused` | is every batch one the database can take? (no) | as `store`, without lost answers or refused companies | stops |

**Why these bounds.** They are the smallest at which every case happens. In `tick_loop`, two
failures to reach the limit and one more to pass it, a queue where a tick waits behind a
message and before another, five timers so that forked chains fit. In `world`, three seats so that a
seat is given after one was left; enough rounds on the machine to be released before the
company's last round (`Seating` was also checked with two companies, outside the runs). In `session`, a
second dial is what everything late comes to, and it must open or fail by itself: the player does not
give it up, as no third could follow; three entries give one the page has, one in
flight and one to miss. In `accounts`, a race needs two tabs and two runs (one in progress,
one to award); three moves leave one between a save and the end, and the move of the panel is the last, so
that a run nobody can replay is also saved and submitted; two page loads are two tabs, or one page
left with a call under way and its reload. In `scene`, a failure beyond the limit in each of
WebGL and canvas ends in no scene at all. In `branches`, an obstacle whose feature is
interrupted by another ticket, and four commits for one broken on each branch and one that folds
it; five was checked outside the runs (8.9M). In `desks`, three people are the smallest company in
which a departure parts a ticket from its obstacle; larger boards (3 tickets for 3 seats,
3.6M states; 3 tickets for 2 seats, 0.7M) were checked outside the runs. In `forecast` the gauge
holds one expensive action or several cheap ones and can grow once, a box of three turns reaches a burnout, with a payday inside
and one at its end, and the prices keep the order and thresholds of `balance.ts`. In `solo`,
three tickets are a feature, the obstacle on it and a third one to go back to, or to hand
to the developer; a gauge of two tells "hurt" from "full"; two sprints are
needed for questions (none is asked in the first), for stale tickets and for what a sprint
leaves to the next. Its safety invariants were also checked with two turns per box (13.3
million states) and with three sprints (12.9 million).

**Type invariants** are kept in every module and were checked outside the runs, which spend
their properties on what could be wrong.

**Deadlock.** `CHECK_DEADLOCK FALSE` is in every configuration but `world`'s: a run of the
game ends, a round of `desks` may have thrown, and when a bound on time, entries, dials,
batches, failures or work is used up the model stops where the program would not. No
property depends on the numbers: the proofs below hold for every value of the constants
their modules allow.

**Fairness.** In `tick_loop` the continuations, the flushes and the store's answers happen,
commits the store does not refuse (`Refused`) do not fail for ever, and a connected client goes on pinging (it does every twenty
seconds). In `world` the only fairness is that some tick always comes, which `ClockNeverFreezes`
and `ServiceComesBack` justify; players owe nothing, and nothing is claimed of the rounds of a company once
something in it may throw (`MayThrow`), since the same choice may be played by the machine at each tick. In `solo` the engine alone is fair:
`applyAction` is one synchronous call, which nobody can leave half way, and the player owes
nothing between two calls. In `session` whatever the browser or the server has to do is done in the end, one thing or another
(`BrowserEvent`, `ServerEvent`): timers fire, requests and sockets get an answer of
some kind, frames that arrived are handled and React mounts and unmounts; a browser need
not notice a half-open socket but notices one the server closed; nobody owes a tick, a
message or a failure, and nobody owes a delivery on a connection that is lost. In `story` only
the watchdog's timer runs: frames may never come again, nobody has to click, to close a
dialog or to come back to the tab. In `scene` builds end, one way or the other, and timers
fire; failures and players owe nothing. `accounts`, `branches`, `desks`, `forecast` and the
store are checked for safety only.

## 4. What the runs found

A disagreement with a run of its own:

* **A batch the database refuses** (`store_refused`). A player leaves a company and takes a
  seat in an older one before the departure is stored. The batch writes the older company
  first, so the player has two live rows for the time of a statement, the unique index
  refuses the transaction, and since the batch stays first in the backlog nothing is
  ever stored again. `LosesAnswers = TRUE` gives the same end by another way (a
  batch that created a company was applied, its answer lost, and the retry meets the
  primary key, `prismaStore.ts:136`: the server pauses at the tenth failure and nothing but a
restart, which forgets the rounds played since, brings it back), and so does `Diverges = TRUE` (a company refused at
  boot, `world.ts:184`, keeps its open row and its live members, whose player is free in
  memory and sits down somewhere else).

The others are stated in the modules, each with the line it contradicts, and TLC finds
them when the definition is given to the module's configuration in place of its properties.

*Realtime server*

* **The clock forks** (`NeverTwoInARound` of `TickLoop`). The flush of a message fails for the
  tenth time while a tick awaits its own flush: the clock stops; the tick's flush succeeds
  and resumes the clock, which sets a timer; then the tick's continuation sets another. Both
  chains live on. Without that crossing the clock is proved to keep one.
* **Zombie companies** (`OverIsClosed` of `World`). `releaseIdleSeats` writes its departures
  after `afterEntry` has reconciled members, so the last seat released ends the run in a
  company that stays open; a free action of the machine that ends the run does the same.
* **A departure may freeze a company** (`GameGoesOn` of `TickedWorld` without `MayThrow`). `performReview` writes to
  seat 0 (`review.ts:65`), whoever reviews: a player, or the bot that reads at the end of anybody's
  turn (`review.ts:113`); a hack won for energy refills the player of seat 0 (`hack.ts:60`). Once that founder
  has left they throw. So does the merge of an obstacle whose ticket is gone (`write.ts:385`), below. The
  tick drops the round and keeps the choices, so the next tick meets them again: with a bot, whatever the
  players choose.
* `recover` counts rounds from the last snapshot, so `maxRounds` is not a bound on the
  rounds of a company that outlives a restart (`SnapshotEvery = 2` and `LogIsBounded`;
  `limits.ts:18` says otherwise).
* With nobody connected, the clock stays paused when the store is back, because only messages
  flush (`Clients = FALSE` violates `ServiceComesBack`; the test at
  `tests/realtime-clock.test.ts:144` flushes by hand).

*Session*

* **Presence counts sockets** (`PresentWhenOpen`; `server.ts:287`). Two sockets of a profile opened
  before either says hello announce nobody, and one that never says hello hides a departure.
* `RoundAgrees`: after a reconnection between a tick and its votes the page has no round to play
  until the next one (`reduce.ts:246`). `SeatAgrees`: a player whose seat went while they were away is
  not always carried back to the lobby (`MultiStage.tsx:35`).

*Accounts*

* `NeverTheSum`: a tab opened between the end of a run and its submission uploads the progress
  of the run, and the submission adds it again, the doubling `merge.ts:10` promises to avoid.
* `HonestRunsRank`: a run started under a level the account has not heard of yet is refused as
  an overclaim. `FinishedKeepsItsLog`: a save whose read precedes the submission overwrites the
  log of a ranked run (`actions.ts:78`). `LocalNeverLoses`: a synchronisation that answers late takes
  back what the tab showed meanwhile.
* `markRejected` (`actions.ts:298`) writes on any run that is not the browser's open one, a ranked one included: a copy
  of a run in which the development panel was used, submitted by another tab after the honest copy was
  ranked, takes it off the board. It can be met in development builds only; `AwardedOnce` and
  `CloudNeverLoses` leave these runs out.

*Story, scene, branches*

* `GaugeNeverBack`: the figures of a dialog can take a gauge back.
* `StoreIsTheMounts`: on the landing page a mount given up resets the store of the one that came after
  it (`mount.ts:253`).
* `TicketIsAChain`: an obstacle may stand on a commit its feature no longer has, once the feature's
  broken commits were pushed away (`graph.ts:203`). `StoryIsWhole`: a commit that broke on a feature
  while its obstacle was written is drawn folded too late (`pushes.ts:43`). `StoryCatchesUp` itself fails
  with `Company = TRUE`: an entry of a colleague is told against the ledger of a later state
  (`session.ts:252`, `pushes.ts:47`).

*Rules of a company* (`~parted` dropped from `DesksAgree` or `LandsOnce`)

* A departure (`crew.ts:230`) or a release (`team.ts:306`) hands a ticket and its obstacle to two
  people. When the obstacle lands the feature goes into a second hand (`write.ts:414`): it is
  delivered twice, against `write.ts:434` "A merge is the end of a ticket", or the round throws
  for a feature that is gone (`write.ts:385`) and is lost for everybody.

*Rules of a run*

* **A conflict left on the way** (`ConflictIsAnswered` of `SoloRun`, with boxes of two turns of a month each). A manual
  fix that fails takes a turn. When it was the last of the box, `endSprint` asks for a bonus
  in place of the conflict, which is never asked again: the ticket is an ordinary open one.
  `commit.ts:77` says that a merge cannot be walked away from. A question of the story that
  opens in the turn or at the release of a box that ends is overwritten in the same way,
  although `maybeNarrative` has counted it among those that come once in a run
  (`docs/game-design.md:429`).
* `MachineRefactorIsQuoted` (`Forecast`): the debt shown on a refactor by the machine leaves out what
  the machine adds (`preview.ts:87`, `write.ts:257`). `ReleaseSaves`: the release of a board emptied by the
  action comes before the count of turns at zero and saves nobody (with boxes of four; `reducer.ts:386`,
  `docs/game-design.md:186`). `DoorHasARefactor`: above the floor of debt, a finished ticket can be the
  only one and have nothing to refactor (`tickets.ts:152`, `game-design.md:83`).
* `MigrationIsQuoted` (`Forecast`): each commit on a migration adds debt (`write.ts:256`) and `previewAction`
  announces none (`preview.ts:73`). `QuoteIsCharged` allows that and no other difference.
* `BurnoutIsAlwaysSignposted` (`Forecast`): the release of an emptied board rests the player (`reducer.ts:136`) but
  is neither a turn at zero nor one that ends the count, so a dear action on a full gauge may be the
  second turn at zero. And energy placed on an empty gauge (`tree.ts:41`, `energy.ts:81`) lets a player choose
  above zero and burn out on that turn; which is why `BurnoutIsSignposted` speaks of what was asked since the
  turn counted before, and not of the last choice.

Seen while reading, and stated nowhere: the panel announces a turn for a pull request that
takes none (`preview.ts:143`, `reducer.ts:297`) and for a merge that ends in a conflict, never announces what landing a
refactor pays back, and lists a price for an upgrade (`preview.ts:236`) that the shop discounts (`shop.ts:17`); the
warning of capacity says "the next rise will say it again" (`capacity.ts:41`), which is not so when
servers fall and rise between two reports; a deal accepted by the lead goes in hand while the
lead's own ticket is refused (`narrative.ts:163`, `acceptance.ts:174`); the vote of somebody who has left is
still counted (`world.ts:797`).

## 5. What is proved

For every value of the constants:

* `ServerProofs`, on the clock: types (`ClockTypes`), the chain is never lost (`ClockNeverFreezes`),
  deadlines move ahead (`DeadlinesAhead`); and until a `resume` crosses an interrupted
  tick, one chain (`ClockNeverForks`) and one tick per round (`ClockTicksOncePerRound`).
  `ChainAlive` is inductive with the types. Deadlines need `Announced` (what was announced
  is not later than what the count announces) and three facts about whole rounds
  (`RoundBounds`, `RoundsAreOrdered`, `RoundOfBoundary`). One chain needs `OneChainInv`: the only
  timer is the one the handle names and it is due at the next boundary or later.
  On the persister: no hole (`StoreHasNoHole`), nothing lost (`WritesAreKept`), the pause
  (`PauseFollowsFailures`), growth (`StoreOnlyGrows`). The inductive invariant is `StoreInv`: the
  store is `1..n` and the backlog `(m+1)..drained` with `m <= n`; the overlap between `m` and
  `n` is exactly what commits applied without an answer leave behind.
  On the two together, as the server composes them: everything above but the uniqueness of
  the chain without condition (`ServerIsSafe`), the server pauses only where the persister has
  said so (`ServerRunsUnlessPaused`), deadlines (`ServerDeadlinesAhead`) and one tick per round
  until a crossing (`ServerTicksOncePerRound`). Neither half is proved again: each step of the
  loop is a step of the clock, of the persister, or of both, which is shown once, and
  `LoopInv` adds what only the composition knows: who called whom, and in which order.
* `ServerProofs`, on the tables (`CompanyStore`): whatever the store holds at a crash, the companies it gives back are whole
  (`StoreBootsWhole`), and the types (`StoreTypes`). The invariant (`TablesInv`) is
  the types and, of each company alone, `CompanyOK`, which relates its row, the writes queued about
  it and the memory. There is one history: two entries or snapshots anywhere with one number
  are the same (`OneHistory`). A row has the entries that follow its snapshot, without
  a hole (`RowOK`). Seats are given in order, whoever left was a member, nobody is left in a
  closed company, and whoever plays in an open one is a member (`Seated`, of the row, of every write and of
  the memory). Writes only go on from one another and from the row (`InOrder`, `RowIsBehind`),
  bring every entry the row lacks (`Covered`), and a row that a snapshot has overtaken is
  overtaken again by the retry (`Overtaken`); memory goes on from all of them (`MemoryOK`). A
  commit is two folds, over the writes and over the members of each, which are followed one step
  at a time (`PutFold`, `MemberFold`, by the least index at which the claim fails); a row that
  a commit has moved, as far as it got, keeps `CompanyOK` (`RowMoves`), and the drain has exactly one write for each company that changed
  (`Drains`).
* `SoloRunProofs`, for every balance, board and team. A full gauge is the end of the run
  (`PatienceLostEndsTheRun`), assuming only that the gauge has a length (`RunGauge`): the phase is
  overwritten in a dozen places, and each could revive a run that was lost. The inductive
  invariant is `Gauge`: besides the property, a run that is over is only ever at the end of the
  loop or at the arrival of tickets, the one rule the code does not keep from it (a stale
  ticket may end the run and the tickets of the sprint still arrive). The board agrees
  with the hands (`TheBoardAgrees`) by the invariant `Board`: a ticket that is not open is in nobody's hands and
  stands on nothing, an open obstacle stands on an open ticket in the same hands (`SoundBoard`);
  what is in hand is mine, and the hand is empty only when nothing is mine (`SoundHand`); a question about a
  ticket is about the one in hand, on which nothing stands (`AsksOfHand`); the queue of the team's
  turn is of the team's open tickets. Every rule that moves a ticket is one of a few operators, each shown
  to keep a board sound. A sprint takes its months, no more (`EverySprintIsPaid`) by `Box`: while a sprint
  has turns left, the months closed fit in the turns passed; the release closes what is
  missing; and only a sprint that is paid in full offers a bonus. `SoloTypes` is the types.
* `ForecastProofs`, for every balance within its assumptions: what is announced is what is
  taken, but for the debt of a migration (`QuoteHolds`). It needs that a commit by hand costs no debt
  (`CraftIsClean`, `balance.ts:112`), for otherwise a refactor could take back the commit that writes it; that
  the commits a review reads are as many as it announces (`Freshest`); and that a gauge clipped in several
  steps ends where one that is clipped once does. No turn ends a run in burnout unless the player was
  asked something at zero since the turn counted before, the release of an emptied board apart,
  and whoever chooses has a rest on offer (`BurnoutHolds`). The invariant is `ForecastInv`: the shape of a board and
  a hand, a box that is not over while its turns are played (`Boxed`), and `Streaks`: whoever has turns
  at zero behind them shows it, on an empty gauge, by what they were asked since, or by an early release,
  and a release always leaves some energy. A tank that grows disturbs none of it: it gives energy
  to a player who was asked at zero already. `ForecastTypes` is the types.
* `SessionProofs`: one connection (`BrowserHasOneConnection`) because the open socket is the one
  of the current generation, whose ticket has come and which no retry waits for (`OneSocket`), and a
  dial whose ticket is awaited or that is yet to come has had no socket, so a close that comes late is never its
  own (`Undialled`); a
  stage shows a prefix of the log or is known to be lost (`StageShowsALogPrefix`). The latter needs
  that no frame in flight, no stored entry and no stage is ahead of the log (in `Types`), and
  that a stage which went wrong has asked for the log again (`WrongIsLost`). Once the page has heard what was
  on its way it shows the company as it is (`PageShowsTheCompany`), by `PageInv`: on the connection that is
  heard, of the seat, the question and the round each, the last frame about it tells how the
  world stands, or there is none and the page shows it already (`Agreeing`). A step of the world
  either leaves the three alone or puts the frame that tells of it behind all others.
* `WorldProofs`: seats, members and engines say the same (`SeatsAlwaysAgree`), a company asks
  when its engine waits and keeps choices of the next round only (`CompanyStaysCurrent`), the
  machine plays for the absent only (`MachinePlaysForAbsent`), and the world implements the
  abstract `Seating` (`WorldImplementsSeating`), for any number of players, companies and
  seats. The inductive invariant `WorldInv` is the types, what links the seats to the members,
  and of each company `CompanyInv`. That one is more than the properties: an idle seat that
  is released while a question is open could end the run and leave the question
  (`NobodyIdle`), an open company has a round left to play (`RoundsLeft`), and the machine is
  told of nobody, in memory or in the store, who has not missed enough rounds
  (`MembersOK`). What follows an entry is proved once (`AfterEntryKeeps`, from `MidEntry`) and
  cited by every handler that writes one. The refinement follows from two facts: a handler
  neither replaces a member nor takes one back (`Evolves`), so at most it frees seats, and a
  newcomer sits on a seat never given before (`SeatStep`). `SeatingIsSafe`, one holder per seat,
  is proved of `Seating`, assuming that `NoSlot` is no slot, and follows for the world.
* `PageProofs`, on the picture (`Scene`): nobody's scene is ever on screen and there is one at most (`OnePicture`), a
  run that is played publishes in its own store (`TheRunKeepsItsStore`), and the types (`SceneTypes`). `SceneInv`: a
  generation is a failure or the rebuild it scheduled (`Generations`); only a build of its mount's
  generation will be taken, and its mount has no scene (`Builds`); a scene is its mount's, of its
  generation and its renderer (`Shown`); what was handed over is held by the page that is open (`Handed`); the
  demo waits for one mount at a time (`Demos`); the last mount of a run has the store (`Owned`).
  On the story (`Story`): whoever waits has a scene, a watchdog and held values of the story on screen
  (`WaitersHaveTheirStory`), and no run, alone or not, lets go of anybody before the graph is
  complete (`IdleGraphMissesNothing`). The argument is the shape of the queue (`QueueEnds`): its
  last effect, and no other, says that the last batch is done, so whoever is let go by an
  end is let go with an empty queue and a full graph; everything queued is of the story
  being waited for or was cut (`QueueIsAwaited`), which a new batch keeps because one acts alone only when
  nobody waits, and an entry cuts the story first. Off a dialog a gauge never goes back (`TheGaugeOnlyRises`), by `GaugeInv`:
  the figures of a batch are queued in their order behind those in the air (`CuesInOrder`), a
  dialog's are all its batch has (`DialogsApart`), none is of a batch to come or above the gauge
  (`CuesOfTheRun`), and the value held has not passed what those still to land will show (`HeldBehind`).
  On the account (`Accounts`): a run is awarded once (`AccountAwardsOnce`), an account loses nothing
  (`AccountNeverLoses`), a page that says synced has handed over what it knew
  (`SyncedMeansCovered`), for any number of tabs and runs, the ones the development panel wrote in apart. The argument is the version: what a
  call has read is the account unless the version has moved (`ReadsAreKnown`), so a write that
  finds its version writes over what it merged. A run that was awarded is finished, and
  whoever might still award it holds an older version (`AwardsAreOver`, which needs
  `SubmitsForAnAccount`); no copy is ahead of the account (`CopiesAreBehind`), and what is on its
  way there covers what the page knew (`IncomingCovers`).
* `BranchesProofs`, on the graph: it is sound, for any features, obstacles, capacity and work (`GraphHolds`).
  `GraphIsSound` is not inductive by itself. `BranchInv` says more of the graph, at rest: main and dev have
  their first commits and parents come before (`Rooted`); the commits of a ticket follow one another
  from where it forked, what is broken at their end, so that a push cuts a tail and never a
  link (`Chain`); an open ticket holds its own column and one that wrote nothing has none
  (`LanedIn`); an obstacle that is merged is under a commit its feature keeps, done and taken
  over tickets have what they need (`StatusIs`); and dev is built on the last commit of a merged
  feature (`Landed`). Between the calls of one
  action: the hand is the player's, the shift is the team's, what a review asks has something pushed,
  and a sprint is shipped before it closes. Merging keeps `Landed` because ancestors only grow
  (`AncestorsAre`: the recursive function is well defined on rooted graphs, by the least counterexample, with
  no induction over data), and the free column is free because there are more columns than
  tickets (a finite set below a bound leaves a number out).
  The ledger of pushes is the engine's (`LedgerHolds`), for the same. While a batch grows nothing is published,
  and yet its events will be folded over the graph it led to, not over the one each event
  found: `LedgerInv` therefore says that the events sent so far, heard over the graph as it stands, would
  give its ledger (`Books`). A step that writes no event must not disturb what was heard: whatever is
  still local when an event sends its branch up is on a branch of the player's
  or a merged one (`Settling`), and such a branch is written no more before the batch ends
  (`Moves`, `FoldsStay`). A step that sends one is followed by that event alone (`BooksGrow`): a broken commit
  stays (`BrokenBooks`), a commit that goes through, a submission and a landing fold what broke on
  the branch into what it now ends on (`LedgerFolds`), and what the team and the clock
  write is nobody's local commit (`TeamBooks`, `ClockBooks`).
  The story of a batch tells it all (`StoryHolds`), in a run played alone (`~Company`, which the counterexample of
  section 4 shows it needs). `StoryInv` follows the batch as `LedgerInv` does: the events sent so far, told on
  the screen as it was when the player moved, would draw every commit of the graph as it stands (`Draws`). What is on
  stage after each event is what the account of the pushes says of what is drawn (`Shows`), but for two
  things: a push that waits for the next commit (`Due`) and what folds into a merge that is drawn after
  its push (`Late`). An event keeps it (`StepShows`) if its own commit was not drawn and the branches it sends
  up end on commits that are, or on the merge to come (`Tellable`); so the exception of the property is all
  there is to except. The end settles what waits (`SettleShows`), and the completion finds the screen whole.
* `DesksProofs`, for any capacity, any number of arrivals and tickets, whatever is drawn: hands
  agree with desks (`HandsAgreeWithDesks`), a ticket lands once (`MergesEnd`), what people leave is
  spread over the lightest desks (`WorkSpreads`), and the run is the company `CrewEngine`
  describes (`DesksAreACrew`), which `World` takes for granted; with the types (`DesksTypes`). The
  invariant `DesksInv` says of the board that it is `Sound` whatever happened: what was not
  opened is nobody's, work is with somebody at the site, a vacant seat holds nothing. Until
  `parted` it is also `Handy` (each hand holds one of its own tickets or has none, and is asked
  only of a ticket nothing stands on) and `Together` (an obstacle lies with what it stands on); while people go it
  is only `Half` that, until `parted` is decided. Operators that take tickets or
  seats in order are followed along a chain of boards, one move at a time, and so are the loads: a ticket that is
  routed goes to one of the lightest desks, so none gets more than one ahead (`Balanced`). The
  step simulation: a step between two rounds is one of the company (`Calm`), a part of a round
  shows nothing (`Hidden`), and its last part is the whole round of `Crew`.

Every safety property of the runs is a theorem. Model-checked only is what is out of
the prover's reach: liveness (`ServiceComesBack`, `GameGoesOn`, `ActionsEnd`, `LossIsRepaired`, `ConnectionComesBack`,
`WaitEnds`, `PictureComesBack`), `ENABLED`, and induction over data (the folds of `CompanyStore` and `Desks` are
over bounded indices, and are followed step by step).

## 6. Plan

Done: the server (clock, persister, their loop, the world and its seats, the tables of the
store), the browser (session, accounts, story, scene), the rules (a run alone, its graph, its
numbers, the desks of a company). Left, in this order:

1. A module on the money of a run (`economy.ts`, `capacity.ts`, `market.ts`): users, servers, payday.
2. `Persister` refined by `CompanyStore`: `Creations` and `Seatings` read off its tables.

## 7. Not modelled

Most of the repository's lines are not rules: React components and their styles, the
drawing of the scene, tables of content (relics, events, upgrades, texts), scripts for
balancing, pages around the game. They keep no state of their own beyond what a widget
shows, or are constants; modelling them would say nothing. Within the modelled parts:

* `World` restarts from a store that holds every entry and refuses no company; what a store
  may hold at a crash is `CompanyStore`'s. Its tally of votes, scores and audiences are left out.
* Rate limits of messages, the signature and expiry of tickets, the shutdown of the server.
* The lobby and the leaderboards of a company; the rivals, one pure step per tick.
* Money, servers, users and the market; the odds of every die (randomness is
  nondeterminism everywhere); what the tree of skills and the shop change of the
  prices, of the points and of the team (that they enlarge the tank of energy is in `Forecast`).
* A second site and more than one hired developer in a company.
* The coordinates of the graph, its camera and its animations; sound; telemetry.
* Validation of save files, migrations between versions of a log, and the replay itself: it
  is the same reducer, run again.

`PROJECT.json` gives the reason for each component.
