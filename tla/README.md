# A TLA+ model of Google Snake Online

Google Snake Online lets several browsers play Google Snake in a room of a
small Rust server. This directory holds a model of that system in TLA+, the
configurations with which TLC checks it on small instances, and proofs, checked
by TLAPS, that some of its properties hold for any number of clients and of the
sockets they open.

Paths below are relative to the repository; line numbers are those of the
commit the model was made from.

## 1. The system

### 1.1 Components

| Component | State it keeps | Operations |
|---|---|---|
| **Room** (`server/src/room.rs`) | clients, admin, roles, ready flags, colors, focus; mode and session; race attempt; co-op run; outbox | one handler per message type (`handle`), `join`, `leave`, `tick` |
| **Server tasks** (`server/src/main.rs`) | three maps, each under its own lock: `rooms`, `clients` (a writer per socket), `membership` (the room of a socket) | a task per socket, one tick task; `flush_outbox`, `reap_orphans`, `gc_empty_rooms` |
| **Simulation** (`server/src/coop.rs`) | snakes, fruit, timer of a co-op run that the server plays itself | `set_input`, `step` |
| **Palette** (`server/src/colors.rs`) | none | `first_free_claimable`, `next_free_claimable` |
| **Client connection** (`src/net/client.js`) | socket, flags, timers | connect, reconnect, ping |
| **Client co-op state** (`src/coop/session.js`, `src/coop/state.js`) | generation, seats, board revision, turns and their acknowledgement, a staged replay | react to the relay's messages |
| **Client application** (`src/mod.js`) | all of the above for one page; scheduled publications, queued and coalesced poses | a handler per message, publishers called by the game |
| **Native renderer** (`src/coop/native.js`, `src/coop/binder.js`) | the remote snakes of a page | `applySnakeDelta`, draw |
| Native game hooks and the rest (`src/hooks`, `src/race`, `src/ui`, `src/runtime`) | the page's game | patch and draw |
| Certificates, port mapping, console (`acme.rs`, `upnp.rs`, `bin/console.rs`) | - | external I/O |

`MultiplayerMod.js` is the generated bundle of `src/` and a second mod;
`archive/` holds earlier designs.

### 1.2 How they interact

A socket's task receives a message, takes the lock on `rooms`, and calls the
room's handler, which runs to its end and leaves its answers in the room's
outbox. The task then releases the lock, flushes the outbox and reaps the
clients that the handler has dropped. The tick task does the same for every
room every 16 ms, after `Room.tick`. So handlers of one room are atomic to
each other, and everything between two lock sections (join and enrolment,
taking and sending a batch, looking for orphans and unplugging them) is not.

A **race** is played locally by every client; the server relays scores, holds
the deadline and, optionally, a grace period in which runs that are under way
may finish. A **co-op run** has one of two authorities. Under the *native relay*
the clients play and the server referees: it freezes the seats, lets one of them
(the *initializer*) commit the board, counts board revisions and speed changes,
and records who died. Under the *simulation* the server plays and the clients
send inputs. Which one is used is fixed when a room is created.

In a native run a page publishes what its own game does and applies what the
server relays: a **board** when its snake has eaten, a **pose** with its latest
turns after every tick, a **death**. Everything a page sends is refused or
relayed to the whole room, the sender included, so that the relay is also the
acknowledgement. A page that has missed something asks for a **resync**; the
server replays the state of the match and the page commits it at the `ROSTER`
which ends the replay.

### 1.3 What is hard about it

* **Departures during anything.** Disconnect, kick and demotion can hit the
  admin, the initializer, the board owner, the last living seat or the last
  running racer, at any moment. A kick is a death followed by a `leave`.
* **Many ways to end.** Seven paths end a co-op run and must clear the same
  fields; three end a race.
* **A missing entry.** A seat without an entry in `coop_alive` counts as alive
  in one place and as dead in another.
* **Three locks.** `rooms`, `clients` and `membership` are never held together
  in a way that makes join, kick, flush and collection atomic.
* **Late and repeated messages.** Generations, event numbers, base revisions
  and source ids tell the old from the new.
* **Batches that overtake each other.** `flush_outbox` takes a batch under one
  lock and sends it under another: two tasks may send two batches of a room in
  the other order, so pages see revisions and poses go back.
* **One step, several snakes.** Who dies, who eats and what is refilled is decided
  for all snakes of a simulated step from the board before it.
* **Optimism.** A page counts a board revision before the server has taken its
  board; two pages that eat at the same time name the same base.
* **Several counters for one thing.** A page keeps a match's generation, board
  revision and newest pose in two or three objects, each with its own test of
  what is new.
* **One object, several sockets.** The client's fields and timers are shared by
  sockets that open, fail and close in an order the network chooses.

The complete list, with lines, is under `hazards` in `PROJECT.json`.

### 1.4 What makes each component correct

* Room, lobby: a client of the room is its admin; caps hold in every mode;
  colors of ready players differ; an empty room is idle.
* Room, sessions: run fields and `session_active` agree on every path.
* Native run: somebody can always commit the board; living seats are connected
  players; the last death ends the run; nothing precedes the board; the dead
  stay dead; a new run has a new generation.
* Simulation: room and simulation agree on who lives; nobody's snake crawls on
  after its player has gone; a cell has one owner; a run that goes on has fruit.
* Race: an expired match is open exactly for the runs it waits for.
* Server tasks: an ended socket leaves nothing in the maps; the limit holds; a
  kicked socket ends; a queued roster reaches the clients that are enrolled.
* Client connection: one live socket; client and server agree on which; nothing
  comes back after a disconnect; a lost connection is retried, an attempt ends.
* Boards: pages show the boards the server has committed, in that order, each in
  its own match; every seat gets a board; no page counts past the server.
* Poses: the server's journal has no gap; a pose in time fits it; a page draws a
  body with the turns that made it; a page that has heard everything shows the
  dead as dead.

## 2. The modules

| Module | Models |
|---|---|
| `CoopRun` | one co-op run as a record, and what handlers do to it: functions from runs to runs |
| `Room` | `EXTENDS CoopRun`; the state of a room and one action per handler |
| `MCRoom` | `Room` for TLC, with the symmetry of client ids |
| `CoopRunProofs` | lemmas about the functions of `CoopRun` |
| `RoomProofs` | theorems about `Room!Spec`: the sessions and the runs of co-op |
| `RoomRulesProofs` | theorems about `Room!Spec`: the cap, the colors, the grace of a race |
| `CoopGame` | the simulation of a co-op run: snakes, fruit, buffered turns, a step |
| `SimPromise` | what the room relies on in the simulation, the outcomes of a step that `Room` allows |
| `CoopGameProofs` | lemmas and theorems about `CoopGame!Spec` |
| `RoomServer` | the tasks of the server and the three maps, one lock section per step |
| `MCRoomServer` | `RoomServer` for TLC |
| `RoomServerProofs` | theorems about `RoomServer!Spec`, for any set of sockets and codes |
| `NetClient` | the connection of a client: its sockets, timers and event handlers |
| `NetClientProofs` | lemmas and theorems about `NetClient!Spec`, for any set of sockets |
| `CoopClient` | what a page knows of a match and its board, as a record: functions from pages to pages and messages |
| `CoopBoard` | `EXTENDS CoopClient`; the pages, the relay of the server and the sockets between them |
| `BoardLog` | what `CoopBoard` promises: a log of boards that pages show in order |
| `CoopBoardProofs` | lemmas and theorems about `CoopBoard!Spec`, for any number of pages, fruits, matches and resyncs |
| `PoseRelay` | one seat's poses, turns and death, from its page through the server to the other pages |
| `PoseRelayProofs` | lemmas about journals, theorems about `PoseRelay!Spec` for any number of watchers and turns |

`CoopGame`, `NetClient`, `CoopBoard` and `PoseRelay` are small enough to be run as they
are; their configurations give the constants.

### 2.1 `CoopRun` and `Room`

The run is a record (`Runs`) because handlers compose: `KICK` applies
`KillSeat` and then, inside `LeaveFrom`, `LeaveSeat`; both may end the run. The
operators have the names of the functions they model: `MarkNativeDead` is
`mark_native_seat_dead`, `EndIfAllDead` is `maybe_end_coop_all_dead`,
`NextInitializer` is `next_native_initializer`, `NoRun` is what
`clear_coop_run_state` leaves.

`life` is `coop_alive`. Its value `"none"` is a missing entry, so that
`EndIfAllDead` can read it as the code does (`unwrap_or(true)`: alive), and
`NextInitializer` as *its* code does (`unwrap_or(false)`: not alive).

In `Room` each action is one whole handler, with everything it calls before it
returns: `LeaveFrom` for instance kills the seat, removes the record and the
score, re-picks the board owner, the admin, then ends the run or the grace if
this departure was the last one that they waited for, and at last clears the
session of an empty room. A handler that returns an error before it has changed
anything is not a step; `PlayerDead` with `bodyOk = FALSE` is one that returns
an error *after* it has.

Abstractions:

* *Time.* `Expire` may happen at any tick while a deadline is set, also in the
  lobby: the last client of a race leaves its deadline behind (`room.rs:1031`),
  and a newcomer may join before the room is collected. `SimStep` may happen at any tick once
  the timer has started and a snake has been steered.
* *The simulation.* In a step any set of crawling snakes may die, and the board
  may be cleared if somebody survives. Snakes that have not been steered do not
  move and are not killed by others.
* *Payloads and event numbers.* A message that a sequence or payload check
  rejects changes nothing, and a client can always send one that passes, so the
  checks are left out of the guards. The exception is the body of
  `COOP_PLAYER_DEAD`, rejected after the first change.
* *Ids.* The server gives each socket a fresh random id, so a client that left
  does not come back (`joinOrder[c] = 0` in `Join`), and an iteration in the
  order of ids (`rematch_coop_colors`) may be any order (`Rematched`).
* *Retried join.* A repeated `HELLO` replaces the client's record (`Rejoin`);
  `RepeatHello` says whether clients do that. Ours do not, the server allows it.

### 2.2 `RoomServer`

Each task has a program counter. A socket's task goes through `loop` (still a
member?), `read` (a message, a close, or a time-out after 250 ms), the two lock
sections of `HELLO`, or a command, followed by flush (`take`, `send`), reap
(`snap`, `find`, `unlist`, `unplug`) and `recheck`; its end through `leave`,
flush, reap, `forget`, `gc`, `drop`. The tick runs flush and reap for one room
at a time, and the collector between two rooms.

A room is reduced to whether it is in the map, its clients and its outbox. The
outbox holds the clients to which a message is addressed and `"roster"` for a
broadcast: who is reached by a broadcast is decided when it is *sent*, from
`clients` and `membership`, and that is what `heard` records. `"panic"` is the
end of a task whose `unwrap` fails.

The collector removes a room without clients; that the room has no session then
either is `EmptyRoomIsIdle` of `Room`.

### 2.3 `NetClient`

`st` holds the fields of `MultiplayerClient` under short names (`want` is
`_wantConnected`, `user` is `_closedByUser`, `retryT`, `pingT` and `helloT` the
three timer handles) and, for each socket, the variables of the closure of
`_openSocket`. `helloT` is the handle and `live` the hello timers that will
really fire: a handle that is overwritten leaves its timer alive.

Each action is one task of the event loop, with the methods it calls as
operators (`ClearTimers`, `SettleFail`, `CloseSocket`, `ScheduleReconnect`).
Two facts of the platform matter and are modelled as such: the catch of a
rejected promise runs in a microtask, before the next task (`RunCatch`,
`NextTask`); and a connection that fails gets an error event, then a close event
(`due`), with the microtasks of the first in between. A socket that has closed is
used again, so that three sockets are enough for any number of attempts. The
application makes a new object for each connect, so `Connect` and `Disconnect`
happen once. Delays and the contents of messages are left out.

### 2.4 `CoopClient`, `CoopBoard` and `BoardLog`

`CoopClient` is the page: a record with the fields of `CoopState`, of
`CoopSessionController` and the flags of `MultiplayerApp` that decide about the
relay (the correspondence is in the module). Both revisions a page keeps are
there, `rev` and `srev`, because the code compares a board with the first in one
place and with the second in another. A handler that may send gives the new page
and what it sends; `Handle` is the switch over message types.

`CoopBoard` joins pages and server: `up` and `down` are the sockets, `srv` is
the part of the room that the relay of boards reads, `log` the boards it has
committed. A message handler's output is one batch: `START`, `PLAY` and `INIT`
are together, as are a replay and the `ROSTER` after it. With `Overtaking` a
batch first goes to `flight`, from which batches are sent in any order.

A board is the set of fruits eaten from it, which is all that distinguishes two
boards of a match. Left out, besides what `Room` has: event numbers (a sender's
messages arrive in their order), rosters that do not end a replay, a scrape of
the native board that fails, the second pose a page sends when it hears that the
board is ready. `CanBegin` asks that no publication of the former match is
pending (`pub = 0`): a publication is due 50 ms after the eat, the game of the
next match starts a countdown later. `EarlierGens` are the generations the page
may have played in another room, since the session controller lives as long as
the page.

`BoardLog` is the promise, without queues, revisions that are counted ahead, or
replays: each match has a log to which boards made for it are appended, and a
page shows entries of the log, each later than the one before. `CoopBoard`
implements it under the mapping that keeps `log` and `shown` and takes the sets
of fruits for boards; `shown` records what the handlers of a page have given to
the native board.

### 2.5 `PoseRelay`

One seat is enough, since seats do not touch each other's poses. `me` is its
page (`observeNativePose`, `ackTurns`, the queue before the board is ready),
`srv` what the server keeps of it (`last_turn_seq`, `turn_journals`,
`last_event_seq`, `poses`), `view[c]` what page `c` has of it in `CoopState`,
in the renderer, and in the poses that wait for the next tick. `Merge` is
`mergePoseTurns`, `TurnsFit` is `validate_native_turns`, `Shown` is
`applySnakeDelta`, `Bury` is `mark_native_seat_dead`.

A journal is the set of its turn numbers and a body the number of turns that made
it. What the rest of the validation of a payload (cells, directions, colors, mode)
may say is a refusal that can come at any pose and at any death. `eventSeq` and
`poseSeq` are one counter, since both go up with every pose. A replay is one
message, because nothing else of this channel is sent between its parts. A page
may apply a pose at once or at its next tick, as the code does.

### 2.6 `CoopGame` and `SimPromise`

`CoopGame` is `coop.rs`: `SetInput` is `set_input`, `Step` is `step`, with an
operator for each decision of its loops (`Facing`, `Crawls`, `HitsBody`,
`HeadOn`, `Eats`). In the code the loop over the snakes clears `alive` flags while
it runs, but every decision reads the heads and bodies collected before it, so
the order of the snakes does not matter and the operators speak of the state
before the step. `grow` is 0 between steps: eating adds one and the same pass
uses it. `spawn_one_fruit` takes a random free cell; `Filled` has every choice.
`MarkDead` is what the room does to a snake whose player has gone. Scores, colors
and the types of fruits are left out. Fallbacks that
cannot be reached are left out: seats are numbered without gaps, and after a
refill without fruit no cell is free.

`SimPromise` says of a step exactly what `Room!SimStep` says of it: crawling
snakes may die, the dead stay dead, the run is over with the last death or by a
survivor that has cleared the board. That `CoopGame` implements it justifies the
abstraction in `Room`.

## 3. What is checked

Most runs have at most two million distinct states; `poses` has 7.3 million and
`sim_steps` 7.5 million.
`CHECK_DEADLOCK FALSE` is set everywhere: ids, promotions, generations, events
and inputs are bounded, and the real system also has states in which nothing
happens until somebody connects.

### 3.1 Runs that pass

| Run | Instance | Shows |
|---|---|---|
| `room_lobby` | 3 clients, one further join by a repeated `HELLO`, 3 colors, co-op cap 2, 4 promotions, no sessions | `TypeOK`, `AdminIsMember`, `CapRespected`, `ReadyColorsDistinct` |
| `room_coop` | 3 clients, cap 3, 2 generations, 2 board revisions, one speed source, both authorities | `InitializerCanAct`, `LiveSeatsArePlayers`, `NativeRunHasLiveSeat`, `BoardComesFirst`, `RunMatchesSession`, `LiveSnakesArePlayers`, `SimLifeAgrees`, `RunIsMonotone` |
| `room_race` | 3 clients, both values of `finishOngoingRuns`, both modes | `GraceStaysOpenForRuns`, `EmptyRoomIsIdle`, `OngoingRunsFinish` |
| `sim_steps` | 2 snakes, 1 fruit, a board of 4 x 5, 3 steps | `GameSound`, and `KeepsPromise`, the refinement of `SimPromise` |
| `server_maps` | 2 sockets, 1 room code, limit 1 or 2, 3 messages, fair | `TypeOK`, `EndedLeavesNothing`, `RoomWithinLimit`, `KickedSocketEnds`, `RosterReaches` |
| `net_client` | 3 sockets, 2 outages, fair | `TypeOK`, `OneLiveSocket`, `ViewAgrees`, `QuietAfterDisconnect`, `NoUnwantedSocket`, `LossIsRetried`, `AttemptSettles` |
| `board_matches` | 2 pages, one may leave, 2 matches, 1 fruit, 1 resync, batches in order, fair | `TypeOK`, `NegotiatedGen`, `NeverAhead`, `EverySeatGetsBoard`, and `BoardsFollowLog`, the refinement of `BoardLog` |
| `board_order` | 2 pages, 1 match, 2 fruits, 2 batches in flight that may overtake | `BoardsFollowLog` again |
| `poses` | 1 seat and 1 watcher, 4 events, 3 turns, a journal of 2, 2 batches in flight that may overtake, 1 resync | `TypeOK`, `JournalsConnect`, `InTimeTurnsFit`, `BodyMatchesTurns`, `AnnouncedDeathShown` |

Why these bounds are enough for the interesting cases:

* *Three clients* are an admin, a seat that acts and a seat that is left over:
  the initializer can die, its successor can die, and a third can still commit.
* *A co-op cap of two* with three players makes the switch of modes demote
  somebody; *three colors* for two ready players and one more let a bump wrap
  around; *four promotions* re-promote a demoted player.
* *Two generations* let a second run start with what the first one left.
* *Two revisions* let a stale base revision meet a newer board.
* *Three steps* on a board four cells wide are enough for both snakes to turn into
  the cell between them, to meet a parked or a dead snake, to follow another's
  tail, to eat and to run into the wall; any inputs come before each step. They
  are not enough to fill the board: that a run ends with `ALL_APPLES` only on a
  full board is left to the theorem. (One snake on a 3 x 3 board, which does fill
  it, takes `MaxTick = 30` and 2.3 million states.)
* *Three messages* of two sockets are two joins and a kick, or a join, a leave
  and a join that meets the leaver's clean-up; *limit 1* fills a room.
* Colors are left out of the co-op and race runs (`Colors = {}`), sessions out of
  the lobby run (`MaxGenerations = 0`, `FinishFlags = {}`): no rule reads both,
  except that a ready flag frees a color also in a session (3.2).
* *Three sockets* let the third open while one still closes and another has just
  failed; *two outages* break a first connection and a retry, or one joined
  connection twice.
* *Two matches* let boards, requests and replays of the first meet the second;
  *a page that leaves* hands the initial board over in every phase of it.
* *Two fruits and two pages* let both pages eat on one base, and a page eat again
  before its first board has come back. `MaxRev` bounds eating only.
* *A journal of two* (eight in the code) with three turns overflows; *four
  events* are three turns and a death, or a board between poses; *one watcher*
  is enough because pages do not affect each other.
* The refinement is checked twice: in `board_matches` with a resync and from one
  match to the next, in `board_order` with batches that overtake. `board_order`
  has no resync: a replay that is overtaken by a newer board puts the page back
  on its commit, so `BoardsFollowLog` holds with one or the other.
  `board_matches` has no overtaking: a `SESSION_END` that is overtaken by the next
  `SESSION_START` ends the new match on the page, and `NegotiatedGen` and
  `EverySeatGetsBoard` hold only where that does not happen.

Each property comes with a mutant, a small bug in one of the mapped definitions
that makes TLC report exactly this property (`PROJECT.json`, `mutants`).

### 3.2 Runs that show a disagreement

Each of these checks one sentence of the repository and finds a behaviour that
contradicts it.

| Run | Sentence | Behaviour |
|---|---|---|
| `net_retry` | `src/net/client.js:1` "with reconnect" | A reconnect that cannot reach the server fails in `onerror`, whose catch arms the next retry; the close event of the same socket runs `_clearTimers`, and schedules nothing because the attempt is settled and was not joined. The client still wants a connection and never tries again. |
| `board_stale` | `src/mod.js:657` "eater publishes; peers apply once" | Two pages eat on the same revision. The server refuses the second board; its page has already counted the revision of the winner's board and refuses that one as not newer. Its next board is accepted and overwrites the winner's. |
| `pose_death` | `src/mod.js:638` "Authoritative death still applies immediately" | A client leaves; the server announces its last pose, sequence number included, as the corpse. A page that has this pose takes the corpse for a repeated pose and keeps the snake alive. |

The models have further behaviours that contradict a sentence of the
repository; no configuration is kept for them:

* *Last departure after a kick* (`room.rs:1024` "Last alive player disconnect must
  end co-op"): a simulated seat that is kicked is marked dead, then `leave`
  removes its entry, which `maybe_end_coop_all_dead` reads as alive; when the last
  living player disconnects the run goes on (`room.rs:1009`).
* *Colors of seats* (`README.md:13` "unique colors"): a seat may drop its ready
  flag during a run, and another may then claim its color (`room.rs:1296`).
* *Focus* (`room.rs:3046` "only players can be focused"): it survives the departure
  or demotion of its target and the promotion of its owner.
* *Orphans* (`main.rs:176` "anyone no longer in the room"): `reap_orphans` copies
  the clients of the room; a client that joins and enrols before it reads
  `membership` looks like an orphan and loses its writer.
* *The first roster* (`tests/integration.test.js:423` waits for one after `HELLO`):
  the tick may flush the room between `Room.join` and the insertion into
  `membership` (`main.rs:778`).
* *The collected room* (`main.rs:772` `unwrap()`): the collector may remove the
  room between `get_or_create_room` and the `unwrap`.
* *A second `HELLO`* (`room.rs:1079` "already joined"): `handle_socket` takes every
  `HELLO` itself and joins again (`main.rs:715`); the client stays in its former
  room when its socket has ended. `RepeatHello = TRUE` has it.
* *The same generation in another room* (`src/coop/session.js:361` "Legacy callers
  outside negotiated co-op retain the old local reset"): the session controller
  lives as long as the page. A match with a number that it has had in an earlier
  room is not new to it: it stays in the lobby, and `beginCoopNativeSession` resets
  it as for a legacy caller. Counters and turns of the earlier match stay, so that
  the server also refuses the poses of the new one (`turn_suffix_not_contiguous`).
  `EarlierGens = {0, 1}` in `board_matches` makes `NegotiatedGen` fail in this way.
* *The replaced turn* (`coop.rs:338` "Effective facing for 180° rejection"): a
  third turn replaces the second of the buffer but is compared with it, not with
  the first. A turn back is accepted and dropped without effect when its time
  comes, and a legal turn may be refused. `NoReversal`, in `GameSound`, shows that no more happens.
* *Resync of the dead*: a page that commits a replay feeds the corpse to
  `applySnakeDelta` like a pose (`src/mod.js:3765`), which does not kill
  (`src/coop/native.js:164`): a dead peer is drawn alive again. This is why
  `AnnouncedDeathShown` is about pages that have not asked for a replay.

`README.md:113` gives ten race players as the cap and `room.rs:12` nine; the
first lines of the same README say nine. No run is needed to see that.

### 3.3 Fairness

Liveness is checked in three passing runs and one that shows a disagreement,
under what the scheduling of the code provides and nothing else.

`server_maps` (`KickedSocketEnds`, `RosterReaches`):

* Weak fairness of `Own(c)`: the runtime schedules a task that can go on. All
  locks are held for short sections without waiting, so each section ends, and a
  task that wants one gets it. `Own` contains `Timeout`: a read of the socket
  returns after 250 ms (`main.rs:657`), so a client that never sends does not
  block its task. It contains neither `Close` nor any message.
* Weak fairness of the tick's flush and reap, for the same reason.
* Strong fairness of `TickRoom(k)`: every 16 ms the tick visits all rooms of
  the map in turn, so a room that is in the map again and again is visited.

Nothing is assumed of the peers.

`net_client` and `net_retry` (`AttemptSettles`, `RetriesUntilJoined`): weak
fairness of the timers, of the microtask, of the events of a socket that has
failed or was closed, of a reachable server that accepts and answers, and of the
end of an outage. Neither the user nor an outage has to come, and a server need
not close a connection.

`board_matches` (`EverySeatGetsBoard`): each page's socket delivers while a
message waits in one of its directions, and each page goes on while its 50 ms
timer is due, its native game can start or a seat is there for it to take; both
are weak fairness. Nobody has to start or end a match, to leave, to eat
or to ask for a resync.

## 4. What is proved

`RoomProofs` proves, for every finite set of clients, any palette with at least
as many colors as co-op seats (or none), and all values of the bounds:

| Theorem | Property |
|---|---|
| `TypeCorrect` | `TypeOK` |
| `AdminSafe` | `AdminIsMember` |
| `EmptyRoomSafe` | `EmptyRoomIsIdle` |
| `RunSessionSafe` | `RunMatchesSession` |
| `InitializerSafe` | `InitializerCanAct` |
| `LiveSeatSafe` | `NativeRunHasLiveSeat` |
| `LiveSeatsSafe` | `LiveSeatsArePlayers`, if no client repeats `HELLO` |
| `LiveSnakesSafe` | `LiveSnakesArePlayers`, if no client repeats `HELLO` |
| `SimLifeSafe` | `SimLifeAgrees` |
| `RunMonotone` | `RunIsMonotone` |
| `BoardSafe` | `BoardComesFirst` |

The assumptions are `CoopRunAssumption` and `RoomAssumption`; TLC evaluates both
in every run of `MCRoom`. The condition on `HELLO` is needed: a client that joins
again is a spectator, and nothing kills the seat it had.

**The argument.** `TypeOK` is inductive. The palette assumption is what makes
`LeastOf(Colors \ taken)` exist when a player needs a color. On top of it:

* `LobbyInv` is `AdminIsMember`, `EmptyRoomIsIdle` and `RunMatchesSession` with
  `players \subseteq members`. The last conjunct is what the departure of the
  last client needs: no player remains, so no run does.
* `RunInv` says that the promotion orders of players differ and that the run is
  safe for the members and players (`RunSafe`). `NativeSafe`, its native half,
  holds `InitializerCanAct` and `NativeRunHasLiveSeat` together with the fact
  that no seat of a native run lacks an entry in `coop_alive`: without that fact
  `EndIfAllDead` could leave a run whose seats are dead or missing, and the
  handover would find nobody. `SimSafe`, the other half,
  says that the simulation's living snakes are exactly the living seats; a run
  without a simulation has no living snake. The orders have to differ because
  the slots are ranks: if two players tied for the first place, a cap of one
  would leave a new run without a seat.
* `BoardInv` is `BoardComesFirst` with the finiteness of the source events, without
  which their number would say nothing. It is inductive with `TypeOK`.

The lemmas in `CoopRunProofs` follow the code's functions: each function of a run
(`HandOff`, `MarkNativeDead`, `KillSeat`, `LeaveSeat`, `NewRun`) keeps runs
typed, safe and moving forward only. The proof of a handler then cites the
lemmas of the functions it calls, so the step theorems have one step per action.
`FirstBy` chooses a minimum; that it exists is `LeastNatural`.

`RoomRulesProofs` proves, with the same assumptions:

| Theorem | Property |
|---|---|
| `CapSafe` | `CapRespected` |
| `ColorsSafe` | `ReadyColorsDistinct` |
| `GraceSafe` | `GraceStaysOpenForRuns`, if no client repeats `HELLO` |
| `OngoingSafe` | `OngoingRunsFinish`, an action property |

`RoomAssumption` asks that the co-op cap is not larger than the race cap (4 and 9,
`room.rs:12`): a race takes players up to its own cap, and nothing demotes
anybody when a room goes back from co-op to race. `GraceSafe` needs its condition
because `join` takes a player out of the players without the look at the grace that a
departure ends with (`maybe_end_race_grace`): if the only client whose run goes on
repeats `HELLO`, the grace stays open for nobody.

**The argument.** The cap is kept by a promotion because `SET_ROLE` compares first.
For a switch to co-op it is `KeptBound`: the players that stay are those with
fewer than `MaxCoopPlayers` players promoted before them, and the newest of them
has all others before it. This is why the cap stands on `OrdersDistinct` from
`RunInv`. The colors stand on the cap: `FreeColor` finds a color for a new player
because the others are fewer than the seats, hence than the palette, and
`NextFreeIsFree` shows that `next_free_claimable`, which begins at the wanted color and wraps
around, ends at one no ready player has. The grace is settled at
the end of every handler that could close it (`GraceSettled`, `GraceLeave`).

`RoomServerProofs` proves, for every set of sockets and of room codes:

| Theorem | Property |
|---|---|
| `TypeCorrect` | `TypeOK` |
| `LimitSafe` | `RoomWithinLimit` |
| `EndSafe` | `EndedLeavesNothing`, if no client repeats `HELLO` |

The assumption is `ServerAssumption`. The theorems are about `Spec`; the run checks
`FairSpec`, which implies it. `EndSafe` needs its condition: the task remembers
one room, and a second `HELLO` puts the client into another.

**The argument.** `TypeInv` adds to `TypeOK` what a task in the middle of an
operation knows (`TasksKnow`). `LimitSafe` needs only that sets of clients are
finite, since the count is compared in the section that inserts. For `EndSafe`,
`Accounted` says of each socket, place by place, in which of the three maps its
client may still be found: the room it has joined is the one it remembers, it is
enrolled there or nowhere, and once it has left the room, dropped its enrolment or
its writer, it has not come back. Other tasks only take entries of it away (reaping,
kicks), and the collector removes only rooms without clients, so that every step of
another task keeps this.

`CoopGameProofs` proves, for up to four snakes (the code's limit), every board
at least three cells wide and with two rows for each snake and one more, every
`count` setting and every number of steps:

| Theorem | Property |
|---|---|
| `GameSafe` | `GameSound`, that is `CellsApart`, `NoReversal` and `FruitNeverRunsOut` |
| `TypeCorrect` | `TypeOK`, which no run checks |
| `PromiseKept` | `KeepsPromise`: every step of `CoopGame` is a step of `SimPromise` or a stutter |

The assumption is `BoardAssumption`, which the code's boards (from 10 x 9) and the
run's satisfy.

**The argument.** `IInv` is `TypeOK`, `CellsApart`, `FruitNeverRunsOut` and
`Headed`. The parts of `CellsApart` hold together only: a snake that eats keeps its
last cell, a snake may move into its last cell, and because no fruit lies under
a snake these two cases exclude each other. `Headed` says
that the head of a living snake is ahead of its neck in its direction and that a
snake nobody has steered has no turn buffered: otherwise a step would turn a
parked snake without moving it. `FilledOK` is the lemma about fruit: a board is
left without one only when no cell is free.

`NetClientProofs` proves, for every set of sockets and every number of outages:

| Theorem | Property |
|---|---|
| `TypeCorrect` | `TypeOK` |
| `OneLive` | `OneLiveSocket` |
| `ViewsAgree` | `ViewAgrees` |
| `QuietSafe` | `QuietAfterDisconnect` |
| `NoUnwanted` | `NoUnwantedSocket` |
| `LossRetried` | `LossIsRetried` |

The assumptions are `NoneIsNoSocket` and `OutagesNat`; TLC evaluates both in the
runs of `NetClient`.

**The argument.** `IInv` is `TypeOK`, `QuietAfterDisconnect`, `ClientInv` about
the fields of the client, and `SocketInv` for every socket. `OneLiveSocket` and
`ViewAgrees` are not inductive by themselves: a retry opens a socket whatever the
former one is doing, and the close event of a former socket writes fields that
the present one shares. `SocketInv` says that a socket that is in use is the
current one, or the user has disconnected, and that while a retry is armed, or
about to be by a pending catch, no socket is in use except one whose close event
is due. So no close event is left that could hit the socket which the retry
opens. There is one lemma per task of the event loop, after one for each method that
tasks call. The two action properties follow from `StepOK`, which the lemmas
show of every step together with `IInv'`.

`PoseRelayProofs` proves, for every set of watchers, every length of the journal and
any number of events, turns, batches and replays, overtaking or not:

| Theorem | Property |
|---|---|
| `TypeCorrect` | `TypeOK` |
| `JournalsSafe` | `JournalsConnect` |
| `InTimeSafe` | `InTimeTurnsFit` |
| `BodySafe` | `BodyMatchesTurns` |
| `AnnouncedDeathSafe` | `AnnouncedDeathShown` |

The assumptions are `PlayerIsNoWatcher`, `NoneIsNoSnake`, `WindowNat` and
`BoundsNat`.

**The argument.** A pose carries an event number, the number of turns that made its
body, and a set of turn numbers that is not what it was when the pose was made:
acknowledgements shorten it, `mergePoseTurns` joins it with others, the server cuts
its journal from it. What all copies of a pose have in common is the history of the
page. `Inv` says that there *is* a history `h`, which gives for each event number
the number of turns made by then and never goes down, that explains every pose
there is: queued, on the way up, kept by the server, in a batch, on the way down,
waiting for a tick and drawn (`Consistent`). Only a new pose extends `h`
(`NextEvent`); all other steps keep it. On this rest a few lemmas about
journals that hold for any length: what is cut from a run of turns is a run
(`CutOfRun`), one more turn (`OneMoreTurn`), a newer pose on an older one
(`MergeNewer`), what the server has after it has taken a pose (`ServerTakes`).

For the death, `Told` adds `Owed`: after an announced death each watcher shows the
corpse, or has it waiting for its tick, on its socket or in a batch. It also says
that no replay is on the way as long as none was asked for, which is why the theorem is
about such runs (3.2, *Resync of the dead*).

`CoopBoardProofs` proves, for every set of pages and any number of fruits, matches
and resyncs (a condition in the last column is a hypothesis of the theorem):

| Theorem | Property | Condition |
|---|---|---|
| `TypeCorrect` | `TypeOK` | |
| `BoardsRefine` | `BoardsFollowLog` | batches do not overtake each other |
| `OvertakenBoardsRefine` | `BoardsFollowLog` | one match and no resync; batches may overtake |
| `NegotiatedSafe` | `NegotiatedGen` | no overtaking, no generation recurs from an earlier room |
| `NeverAheadSafe` | `NeverAhead` | as for `NegotiatedSafe` |

The assumptions are `NoneIsNoClient`, `BoundsNat`, `LeaversAreClients` and
`GensNat`. The theorems are about `Spec`; the runs check `FairSpec`, which implies
it.

The conditions are those under which the code keeps the property, not
conveniences of the proof. A `SESSION_END` that is overtaken by the next
`SESSION_START` ends the new match on the page. A page that comes from another
room with the generation which this room reaches later takes itself to be in that
match before it is told (3.2). A replay that is overtaken by a newer board puts the
page back on its commit. With overtaking over several matches and no resync the
refinement is neither checked nor proved.

**The argument.** `BoardLog` says nothing about messages, so what has to be known
is what each message on the way will do to its page when it is handled. Three
invariants say it about the queue `down[c]` of a page, which holds all that is on
the way to it as long as batches keep their order:

* `OrderInv`, for `BoardsRefine`: boards, replays and `COOP_BOARD_READY` are in the
  order of match and revision, between what the page has shown and what the server
  has (`Sorted`, `AllFrom`, `AllUpTo`). What the page has staged of a replay lies
  before whatever follows (`StageOK`), and each `COOP_BOARD_READY` comes directly
  after its board (`Paired`).
* `NegInv`, for `NegotiatedSafe`: the page, and after it each message in turn, knows
  of one match at a time (`Told`, `Rising`, `Plays`). It says at which message a page
  that does not play yet will come to play, which `NegotiatedGen` alone does not.
* `CountInv`, for `NeverAheadSafe`: the boards of a page on the way up climb, each on
  a base that the page has passed (`Climbing`); each revision from the server's up
  to the page's is the base of one of them (`Covered`); and the server will have
  seated the page when it comes to them (`UpdatesOK`), so that it refuses only those
  it has passed.

`LateInv` replaces `OrderInv` for `OvertakenBoardsRefine`, where a page's messages
have no order. It keeps what `canApplyBoard` needs to refuse a stale board: there
is one `SESSION_START`, first in its batch, for pages that do not know of the match
yet, and a page that has shown a board has counted up to it and does not begin to
count anew (`LatePage`). Whatever board is on the way is in the log.

There is one lemma per message that a page can handle, then one per step of
`Next`. `Spec` implements `BoardLog` step by step: handling a board is a step of
`BoardLog` or a stutter, accepting one on the server appends to the log, and every
other step stutters.

**Only model-checked:** liveness. `KickedSocketEnds`, `RosterReaches`, `AttemptSettles`
and `EverySeatGetsBoard` are temporal properties under fairness, which is out of
the prover's reach, and stay with TLC. So does the refutation of the sentences in 3.2.

## 5. What is not modelled

* *Scores of a race, and who leads* (`cmd_score_pulse`, `race_leader_json`):
  arithmetic per client. The one thing concurrent about it, the deadline with
  its grace, is in `Room`. Equal times are decided by the order of a hash map;
  no text says how they should be.
* *The replay of races, of simulated runs, of the timer and of the speed*, and
  the settings that a session carries.
* *The validation of payloads* beyond generations, sequence numbers, revisions
  and turns; rate limits; the wire format; HTTP endpoints.
* *Rendering and the hooks into the game* (`src/hooks`, most of
  `src/coop/native.js`, `src/race`): they patch a minified game whose code is
  not in the repository, so there is nothing to be faithful to.
* *The user interface*, the ready button and the client's palette: they derive
  what they show from the roster.
* *Certificates, port mapping, the operator's console*: I/O.
* `MultiplayerMod.js` is generated from the sources above and from a second mod;
  `archive/`, `tools/` and `.cache/` are not part of the running system.

`PROJECT.json` gives the status of each component.
