# Verification of shooter-mp

`shooter-mp` is a multiplayer shooter with service discovery. Game servers
register in redis, an entry server hands every newcomer the least crowded room,
and clients mirror the entities of the server they play on. This directory holds
TLA+ models of it, the TLC runs that check them on small instances, and theorems
that TLAPS proves for every value of the constants.

    tlc -config MCGameServerShots.cfg MCGameServer.tla     # one run
    tlapm GameServer_proofs.tla                            # one module's proofs

## 1. The system

| part | code | state it keeps | operations | hard behaviour |
|---|---|---|---|---|
| Game server | `server/src/GameServer.*` | `m_Registry` (walls, players, bullets), `m_ClientMap` (connection -> player), `m_Alive`, two redis keys | tick loop: read all messages (`coords`, `shoot`), run connection callbacks (accept, refuse, close), update bullets and players; start, stop, destructor | peers connect, leave and lag at any moment; ids are recycled; everything a client knows comes from an ordered stream of small messages |
| Server base | `shared/src/ServerBase.*` | listen socket, callback instance | open, send, dispatch callbacks, close | send results are ignored |
| Entry server | `entrypoint/src/EntryServer.*` | `m_AvailableServersMap` under `m_ServerMapMutex` | poller thread: clear, SCAN, GET, sleep; main thread: accept, look for a room, answer | two threads, and a database that changes between two calls |
| Network client | `client/src/NetworkClient.*` | connection, `m_Alive`, message callback | find a room, wait for the greeting, poll in a thread, send movement and shots | its thread outlives parts of the scene; waits without a timeout; one status callback for two connections |
| Scene | `client/src/Scene.*`, `client/src/main.cpp` | `m_Registry`, `m_Objects`, `m_MessageQueue`, `m_MarkedForDeletion`, `m_Options`, `m_Alive` | build itself from the greeting; one frame: process the queue under the mutex, send input, delete what was marked | messages left to hang are overtaken by later ones; destruction is deferred, creation is not |
| Movement and collisions | `server/src/GameServer.cpp`, `shared/src/Components.*`, `NetworkClient::SendMovement` | positions and velocities of players and bullets; the velocity last sent | a client sends a velocity when it changes; a tick moves bullets and players and tests what they touch | a server that stops a player without telling its client; ticks of any length; collisions tested only where a path ends |
| Session options | `shared/src/SessionOptions.hpp` | walls, sizes, speeds | read by the server, sent with the greeting | the client's copy is late |
| Drawing, game objects, mains | `client/src/{Player,Bullet,Wall,GameObject}.*`, `*/main.cpp` | textures, flags | draw; parse options; signal handlers | |

How they interact. A game server SETs `<name>.endpoint` and
`<name>.player_count`, INCRs and DECRs the count per player, and DELs both keys
in its destructor. The entry server's poller copies all keys into a map every
300 ms; its main thread sends one entry of that map to each newcomer. The client
closes that connection and opens one to the game server, which answers with a
`greeting` (its player's id and everything that exists) and from then on sends
`connection`, `shoot`, `coords` and `destroy` messages. The client's polling
thread puts them in the scene's queue, which the main thread empties once a
frame. Client requests (`coords`, `shoot`) name the sender's player.

What makes each part correct:

- *Game server*: connections and players correspond one to one; nobody acts on an
  entity that is not his; what a peer knows plus what is on its way to it is the
  world; the stream can be replayed message by message; the advertised count is
  the number of clients; every arrival and departure is handled; a stopped server
  ends and unregisters.
- *Entry server*: after a poll that no redis error ended the map is what redis held;
  in the long run it follows redis; an answer is incomplete only because of a server
  that came or went or a redis error, never because the map was being rebuilt; nobody
  waits for ever while a room stays registered.
- *A client's session*: messages reach whom they are meant for; only a loss ends a
  session from within; what crashes a client that plays is a message of its room,
  not a loss or its own polling thread; what it waits for for ever is an entry server
  that never answers, or a room it has lost before the greeting; a session that is
  over ends.
- *Movement*: no player stands on a wall or outside the world; no bullet leaves it
  but one fired at a bounding wall (the code does not keep that one inside); clients
  know where everything is; a player moves as its keys say, or stands for a reason;
  a bullet that moves ends or leaves the world.
- *Scene*: what the scene holds plus what it has not yet applied is the server's
  world; registry and objects agree; hanging messages are processed; a lost
  connection ends the game.

The hazards of the code, each at its line and with the properties that watch it,
are listed in `PROJECT.json`.

## 2. The modules

| module | models |
|---|---|
| `Registry` | what the server and the clients rely on in EnTT's registry: ids are a slot and a version, `create`, `create(hint)`, recycling. EnTT is not in the repository; these operators are external. |
| `Protocol` | the server's messages, reduced to the entities they name, and what reading them tells a peer |
| `GameServer` | one game server with its peers |
| `World` | the abstract specification of what a game server promises its peers |
| `GameServerWorld` | the refinement mapping from `GameServer` to `World` |
| `Scene` | one client's scene and polling thread, next to a server that announces, moves and destroys entities |
| `Session` | the life of one client from `main` to its exit: main thread, greeting task, polling thread, and the two connections as the client sees them |
| `Movement` | velocities, shots, ticks and collisions: what frames send and what a tick makes of it |
| `Discovery` | game servers' redis keys, the entry server's two threads, waiting clients |
| `GameServer_proofs`, `World_proofs`, `GameServerWorld_proofs`, `Scene_proofs`, `Session_proofs`, `Movement_proofs`, `Discovery_proofs` | theorems and proofs |
| `MC*` | instances for TLC |

**GameServer.** `phase` is where `Run` is in its loop. The server is
one thread, so each iteration of each of its loops is one action:
`ProcessCoords` and `ProcessShoot` are one message of `PollIncomingMessages`,
`OnConnecting`, `OnRefused` and `OnClosed` one callback, `BulletHits`,
`BulletFlies` and `PlayerMoves` one element of `UpdateGameState`'s loops; `Stop`
is the signal handler and interleaves with everything. `clients` is
`m_ClientMap`; `walls`, `players` and `bullets` are the entities of the registry
by their components, `issued` the versions of its slots; `listed` and `count` are
the redis keys. Per connection, `conn` and `pending` are the library's state and
its queued callbacks, `inbox` and `out` the two directions of the stream, `view`
and `me` what the peer has been told. A closure of a connection that is not in
the map (it was opened and closed before the server accepted it) is translated
as written: `operator[]` yields id 0, which is the first wall. `strays` counts
these closures and is the only variable beside the peers' that is not the code's.
Failed assertions of the registry (the run scripts build type Debug) lead to
`phase = "crashed"`. Every redis call (`Start`, `OnConnecting`, `OnClosed`,
`Shutdown`) may throw, before or after redis has done what it was asked; nothing
catches that (`main` has no handler around `Run`, and `~GameServer` is `noexcept`),
so the process ends in `phase = "threw"` with what had been done before the call.
Positions are left out, so that a bullet may hit wherever the code has something
it could hit; `Movement` has them.

**World.** A set of entities; members that are shown every world since they
joined, in order, starting with the one their own arrival made, and perhaps the
current one once more (`Refresh`: something has moved, nobody has come or gone);
ids that never return. `GameServerWorld` maps the players and bullets to `world`,
the ids issued to `used`, connected peers to `members`, what a peer has been told to
`seen`, and each unread message to the world its reader knows after it (`coming`).

**Scene.** The mutex is `MutexFree`: the polling thread appends only
outside `ProcessMessages`. `it` is the iterator of that loop, and each message is
one action, so that messages that hang, are overtaken, or meet a slot that is
still taken appear in every order. `DeleteOne` is one iteration of the deletion
at the end of `Update`. Destroying an id that does not exist is undefined for
EnTT: the model continues or crashes. `ghosts` remembers such ids.
`PollWhileClosing` is the polling thread calling back while `~Scene` has already
destroyed the queue and the mutex; its outcome is open. The server side is what
`GameServer` shows one peer (`StreamIsReplayable`). Of the walls only the first,
id 0, can be destroyed, by the closure of a connection that was never accepted
(GameServer.cpp:289), so it is the only one modelled. A client joins a server that
has run for a while: `Init` has any slots opened, in order, any versions in them up
to `MaxPast`, and any of what was last issued still there beside `Main`. The greeting
names the first wall even if the server has already lost it (GameServer.cpp:388):
then the client has it as a ghost from the start, and what the server puts into its
slot is blocked.

**Session.** `main`, `greeter` and `thread` are the places of the main thread, of
`ConnectToGameServer`'s task and of `Run`'s thread. A status change is a member of
`changes` until `RunCallbacks` dispatches it; whether changes of a handle that has
been closed are still dispatched is left open (`Forget`). `Push` is the message
callback: once `~Scene` is running it uses a mutex and a queue that are destroyed,
and its outcome is open. `RecieveMessage` on a closed handle throws, in a thread
where nothing catches it (`RecieveThrows`). The room's messages can crash the client
in `BuildScene` (a greeting that names two entities of one slot) and in a `Frame` that
processes or deletes something (`AddObject`'s assertion, Scene.hpp:44; a destruction of
an id that does not exist, Scene.cpp:100): which messages do is `Scene`'s business,
here any may. `RoomLost` and `EntryLost` may come
at any moment, also before an answer. `shown` is history: what frames have taken
from the queue, so that `StreamReachesScene` can speak of the whole stream: of the
messages sent, the first `n` have been handed over in order, nothing but errors
came after them, and the others wait in the connection, behind the greeting as long
as the task has not had it. Waiting for an answer is a sleep and another
look (`LookAgain`), so a client that waits for ever is not a deadlock: what it
waits for is the property `WaitsOnlyForAnswers`. `m_Alive` is a plain `bool` that
two threads share; the model lets every write be seen at once.

**Movement.** The players are connected throughout. Coordinates are integers, walls
are parallel to the axes, and distances are compared by their squares, so that the
collision tests are exact. (`config1.json` has a slanting wall too. What stops a
player or a bullet is the same test for every wall, and staying inside the world
depends on the four bounding walls alone, which are parallel to the axes.) `Frame` is a
client's frame: any set of its keys, a click or none, and what `SendMovement`, with
its static `lastPos`, makes of them. A tick has a length `dt` of 1 to `MaxDt` units,
since `frameTime` is whatever the last tick took; bullets are updated one by one in
any order, then all players. `told` is the position the last message gave for each
object, `halted` says that the server has stopped a player, or that its client has
never sent anything, `fromBound` which bullets were fired with their start touching a
bounding wall; all three are history. Nothing stops a bullet that has left the world;
`MaxLost` outside of it the model follows it no farther.

**Discovery.** The poller's redis calls are steps between which servers
register, unregister and are killed. A killed server leaves its keys, and may be
started again over them. `Scan` reads any part of the keys ahead of
the cursor. The main thread's look for a room is one step under the mutex, its
sleep is the absence of one. `FindRoomThrows` is the comparison with an entry
that has no `player_count`. A redis error ends a poll wherever it is and leaves the
map as far as it was rebuilt. The count is what `incr` and `decr` make of it; closures
of connections never accepted take it below zero. `present`, `torn` and `failed` are
history: the servers that were registered when the last poll began, those whose keys
came or went meanwhile, and whether a redis error ended it.

## 3. The runs

| run | instance | shows | states |
|---|---|---|---|
| `shots` | 2 peers, 2 bullets, 2 walls, 6 slots | types; `PlayersAreClients`, `RequestsNameOwnPlayer`, `StreamTellsWorld`, `StreamIsReplayable` | 499 k |
| `peers` | 3 peers, 0 bullets | `CountAccounting`, `StrayDamage` | 266 k |
| `server_live` | 2 peers, 1 bullet | `GameServer` implements `World` (`KeepsPromise`); `StateChangesAreHandled`, `StopEndsTheServer` | 86 k |
| `scene` | 3 slots, 4 messages | types; `NothingIsLost`, `OnlyHungShotsAreDeletedUnborn`, `OnlyDoomedOccupantsBlock`, `OnlyHungCoordsAreSkipped`; `HungShotsAppear`, `LostConnectionEnds` | 225 k |
| `scene_reuse` | 3 slots, 4 messages | violated: `assert(ecsId == id)`, Scene.hpp:44 | |
| `discovery` | 2 servers, 1 client | types; `SettledServersAreListed`, `AnswersAreRooms`, `OnlyPartialPollsKill`, `KeysOutliveOnlyKills` | 3.0 M |
| `discovery_live` | 1 server, 2 clients | `WaitersAreAnswered`, `MapFollowsRedis` | 118 k |
| `discovery_unregister` | 2 servers, 1 client | violated: `assert(valueOpt.has_value())`, EntryServer.cpp:48 | |
| `session` | 1 client, 3 messages | types; `StreamReachesScene`, `EndsOnlyOfLoss`, `OnlyRoomsCrashPlay`, `WaitsOnlyForAnswers`, `SessionsEnd` | 9.9 k |
| `session_options` | 1 client | violated: a player has the session's options, SessionOptions.hpp:17 | |
| `movement` | 2 players, 1 bullet, world of 12 by 8 | types; `WallsHold`, `PositionsAgree`, `VelocityAgreement`, `ClearShotsStayInside`, `BulletsEnd` | 53 k |
| `movement_bullets` | 1 player, 1 bullet, proportions of `config1.json` | violated: bounding walls hold bullets, SessionOptions.hpp:32 | |

Four runs show where the code does not do what an assertion or a comment of it
says.

- `scene_reuse`: a player leaves, or a bullet or the first wall is destroyed, and
  another player joins between two frames of a client; the server has reused the
  slot, the client has only marked it, and `AddObject` gets another id than it asked
  for. (`shoot` has a guard for this;
  `connection` has none.)
- `discovery_unregister`: a game server deletes its keys between the poller's SCAN
  and GET.
- `session_options`: the scene builds the player and everything in the greeting
  from `m_Options` and assigns the session's options afterwards, so that the player
  has the default speed, 300, whatever the server is configured with.
- `movement_bullets`: a bullet starts a player's radius ahead of its shooter and is
  tested against walls only at the end of each tick's path, 8.3 points further; its
  radius is 5. Fired by a player who stands almost at a wall, its first tested
  position is beyond the wall's reach, and it leaves the world for good.

Some properties state how far a known weakness of the code reaches, since what
would hold without it does not:

- `StrayDamage`, `CountAccounting` and the spoilt slot of `StreamIsReplayable`: closures
  of connections never accepted;
- `OnlyDoomedOccupantsBlock` and `HungShotsAppear`: an entity that was destroyed before
  it was created, and the first wall in who was greeted with it after the server had
  lost it, hold their slot for ever, and a shot that is announced there hangs for ever;
- `SettledServersAreListed`, `OnlyPartialPollsKill` and `AnswersAreRooms`: keys that come
  and go during a poll, and a redis error in its middle, which leaves the map half
  rebuilt (EntryServer.cpp:65) - then a settled server may be missing, an answer may
  lack its endpoint, and the next comparison of an entry without a count ends the
  entry server (EntryServer.cpp:139);
- `KeysOutliveOnlyKills`: a killed server stays listed;
- `VelocityAgreement`: a first velocity that is never sent, and stops the client does
  not learn of;
- `OnlyRoomsCrashPlay`: messages of the room that a frame, or the scene's constructor,
  cannot apply, and a polling thread that outlives what it uses;
- `WaitsOnlyForAnswers`: waits without a timeout, and an entry server that does not
  answer while there is no room;
- `EndsOnlyOfLoss`: a late closure of the entry server's connection ends the session
  with the room too;
- `ClearShotsStayInside` and `BulletsEnd`: bullets fired at a bounding wall may leave the
  world; bullets aimed at their shooter's own centre have no direction and stay.

### Bounds

- `Slots`, `MaxVersion`: as many slots as entities can exist, plus none to spare,
  so that slots are reused between players and bullets; versions below the wrap
  at 2^12, which the models leave out. `ConstantsAssumption` says the slots
  suffice.
- `MaxShots` (2, 1, 0), `MaxInbox` (1): two bullets are enough for one to exist
  while another's slot is taken by a player. One unread request per peer is
  enough to be overtaken by a closure.
- `MaxBacklog` (1): a tick does not start while a peer has more than one message
  unread; within a tick the backlog grows freely, so a peer may miss a whole
  tick of changes.
- `Conns` (2 or 3): a connection handle is used once, so three cover one that
  stays, one that leaves and one that is never accepted.
- `MaxEvents` (4), `MaxFeed` (2) in `Scene`: create, destroy, create again in the
  same slot, and destroy again, for which two more versions per slot
  (`MaxVersion` = 2) suffice. The queue itself is unbounded. `MaxPast` (0): what was
  there before the client came fills slots; older versions of it change nothing
  that a client sees, and the theorems hold for all of them.
- `MaxEvents` (3) in `Session`: one message in the thread's hand, one in the queue
  and one in the connection.
- `Movement`: a world of 12 by 8 with one inner wall. One player moves to the right and
  down, past the inner wall or against it and against two bounding walls; the other
  stands where it starts. `MaxDt` (2), a tick twice as long as
  the shortest; `MaxBacklog` (2), a velocity and a shot, or two velocities, under
  way; one bullet in flight, which hits the other player, a wall, leaves the world or
  stays: shots are aimed left, right or at the shooter's own centre. Bullets of radius
  2 cross 2 in a regular tick and 4, their diameter, in a late one; the configured ones
  cross 8.3 points, with a radius of 5 (`StepWithinDiameter`). `MaxLost` (4): farther
  outside no wall or player is near. `movement_bullets` has the
  configuration's proportions (5/3 points to a unit: radius 18, speed 3 per tick,
  bullets of radius 3 and speed 5) in a smaller world.
- `MaxCount` (1, 0), `MaxStrays` (0, 1), `MaxErrors` (1) in `Discovery`: players per
  server, how far below zero its count falls (`discovery_live` counts from -1 to 0,
  `discovery` from 0 to 1), failing redis calls.
- Connections, servers and clients are interchangeable and symmetric in the
  safety runs; the liveness runs use no symmetry.

### Fairness

- `GameServer!FairSpec`: the server thread keeps running (`WF` of its steps), the
  network delivers (`WF` of `PeerReads`), and the server reads faster than its
  peers send: its queue of messages is empty again and again and
  `PollIncomingMessages` eventually sees it (`[]<>` and `SF` of `EndReceive`).
  The loop has no limit of its own (GameServer.cpp:241), so this last part is an
  assumption on the load: without it no callback ever runs.
- `Scene!FairSpec`: the main thread keeps drawing frames, a scene that is not
  alive is closed (main.cpp:77), the polling thread is joined. `ConnectionLost`
  is not assumed fair: `LostConnectionEnds` starts where it has happened.
- `Discovery!FairSpec`: both threads run; the main thread gets the mutex again
  and again, since the poller sleeps 300 ms without it (`SF` of `FindRoom`);
  `RunCallbacks` hands out every connection's changes (`SF` per connection).
- `Session!FairSpec`: both threads and the task run, a scene that is not alive is
  closed, and a room whose connection is not lost greets, which is
  `GameServer!StateChangesAreHandled`, with what that assumes of the load. The entry
  server is not assumed to answer: it does not while there is no room
  (EntryServer.cpp:131-155), and `Discovery!WaitersAreAnswered` promises an answer only
  if some server stays registered.
  Nobody need close the window, and nothing need be lost.
- `Movement!FairSpec`: the server's loop goes on. Nothing is asked of the clients.

Deadlock is checked in every run; a process that has ended takes the explicit
step `Terminated`.

## 4. The proofs

`GameServer_proofs` proves, for any number of connections, slots, walls, shots
and any bounds that satisfy `RegistryAssumption` and `ConstantsAssumption`,

- `TypeCorrect` (`TypeOK`), which includes that no id is issued beyond
  `MaxVersion`;
- `PlayersAlwaysClients` (`PlayersAreClients`);
- `RequestsAlwaysOwn` (`RequestsNameOwnPlayer`);
- `OnlyStraysDamage` (`StrayDamage`);
- `CountAlwaysAccounted` (`CountAccounting`).

All of them cover redis calls that throw. They share one inductive invariant,
`IInv`. None of the properties is inductive
by itself. `RequestsNameOwnPlayer` needs to know what a greeting says: `Sessions`
ties each connection's state, map entry, queued callbacks, unread greeting and
`me` together. `PlayersAreClients` needs the entities to be disjoint by kind
(`Kinds`) and every id to have been issued (`IssuedBefore`), so that a new id is
new. `StrayDamage` needs the requests to be a sender's own: they are the only
other way to touch an entity that does not exist. `CountAccounting` needs
`Counted` and facts about cardinality of the set of clients, which the standard
theorems on finite sets give. The proof has one step per action, each under one
step per part of the invariant it can disturb; what does not change a part is
collected in lemmas.

`GameServerWorld_proofs` proves, under the same assumptions, what the peers are told:

- `StreamsTellWorld` (`StreamTellsWorld`);
- `StreamsReplay` (`StreamIsReplayable`);
- `ServerKeepsPromise` (`KeepsPromise`): the refinement of `World`;
- `PeersUpToDate`: what `World_proofs` proves of `World` holds, through the mapping,
  of the server and its peers.

The invariant `Greeted` extends `GameServer_proofs`' by three parts. `OnePerSlot`: no
two entities that exist share a slot. `Strangers`: nothing has been told to who was
never connected, and nothing is on its way to who is not. `Streams` is about each
connected peer: all of its stream tells it exactly the players and bullets that
exist (`ToldAll`); what a message destroys had been issued and is not announced
again further on (`NoReturn`); and each message fits what the ones before it tell
(`Replayable`). `ToldAll` alone is not inductive: that a destruction takes away what an
earlier message announced, and an announcement adds to it, depends on their order,
which `NoReturn` gives. A new message fits because `ToldAll` says what its reader
will know when it comes to it, and an old one still fits after a read because what
was on its way is then known: the lemmas `ToldBefore`, `ToldAppended` and `ToldAdded`
say what sending and reading do to `ToldBy`. The slot that a closure of a connection
never accepted has spoilt is carried along as `Spoilt`.
The refinement has one lemma per action: a message that is sent is an abstract
world appended to `coming`, a greeting is `Join`, a bullet `Spawn`, a hit or a closure
`Despawn`, coordinates `Refresh`, a read `See`, a peer that leaves and a server that
ends `Part`; everything else stutters.

`World_proofs` proves `MembersUpToDate`: in `World`, the last thing a member has
seen or has coming is the world as it is (`UpToDate`), from `TypeOK` and one
lemma each about appending to and reading from a queue of worlds.

`Scene_proofs` proves, for any slots, versions, past of the server and bounds that
satisfy `SceneAssumption`,

- `TypeCorrect` (`TypeOK`);
- `NothingIsEverLost` (`NothingIsLost`);
- `OnlyHungShotsDieUnborn` (`OnlyHungShotsAreDeletedUnborn`);
- `OnlyTheDoomedBlock` (`OnlyDoomedOccupantsBlock`);
- `OnlyTheHungAreSkipped` (`OnlyHungCoordsAreSkipped`);
- `SlotsAlwaysComeFree`: whatever holds the slot of an announcement that is on its way,
  waits or hangs is marked, a ghost, or destroyed by an earlier message;
- `LossIsAlwaysTold`: once the polling thread has noticed the loss of the server, the
  error waits for a frame or the scene is not alive.

The invariant `Orderly` speaks of `Stream`, what is in the queue and in the connection,
as one sequence, so that receiving a message changes nothing. `Balance` is the
conservation law behind `NothingIsLost`. The rest is the order the server's stream
has and that the frames, which take messages from the middle of it when earlier
ones hang, must not spoil: an entity is announced once (`Once`), spoken of only
after that or while it exists (`Before`) and not after it was destroyed or marked
(`AtLast`), and announced into a slot only after the previous entity of the slot
was destroyed or marked, or is a ghost (`InTurn`). What the iterator of
`ProcessMessages` has passed and left in the queue are shots whose slot is taken
(`PassedHang`), so a destruction, or coordinates, that come to their turn before
their entity was created concern one of those. Removing a message from the middle
of a sequence and adding one at its end are lemmas of their own
(`ThinnedBy` and those around it).

`Session_proofs` proves, for any number of messages,

- `TypeCorrect` (`TypeOK`);
- `StreamAlwaysReachesScene` (`StreamReachesScene`);
- `OnlyLossEnds` (`EndsOnlyOfLoss`);
- `RoomsAloneCrashPlay` (`OnlyRoomsCrashPlay`);
- `LossIsNeverForgotten`: while a client waits for its greeting or plays, a lost room's
  change is still to be dispatched, or its error is in the queue, or the scene has
  seen it; and the polling thread is not told to end before one of the latter two.

`SlotsAlwaysComeFree`, `LossIsAlwaysTold` and `LossIsNeverForgotten` are the safety
halves of `HungShotsAppear`, `LostConnectionEnds` and `SessionsEnd`: what frees the
slot, or ends the session, is always on its way. The inductive invariant has four
parts beside the types. `Closings`: only `~NetworkClient` closes the connection, and only it or a loss clears `m_Alive`.
`Losses`: every undispatched loss, every made-up message and a scene that is not
alive go back to a loss. That a polling thread crashes a client then needs a
connection that is closed or a scene that is being destroyed, which only the later
places of the main thread have; and a frame that has nothing but errors in its queue
does not crash. `Phases`: the polling thread exists exactly while the main thread
plays, by then the task is done, and a thread that is told to end does not receive
again. That is why task and thread never compete for a message, and with it the
types are inductive. `Streaming` strengthens `StreamReachesScene` by what makes
errors come last: while `m_Alive` is set nothing handed over is an error. Sending,
greeting, receiving and failing are one lemma each about the sequences
(`FlowSends`, `FlowGreets`, `FlowHands`, `FlowFails`).

`Movement_proofs` proves, for any players, bullets, world and inner walls that
satisfy `MovementAssumption`,

- `TypeCorrect` (`TypeOK`);
- `WallsAlwaysHold` (`WallsHold`), if no tick carries a player further than one and a
  half radii along an axis (`2 * MaxDt * PlayerSpeed <= 3 * PlayerRadius`, which the
  configured 30 points and 300 points per second allow for ticks up to 0.15 s);
- `ClearShotsAlwaysStayInside` (`ClearShotsStayInside`), if no tick carries a bullet
  further than its diameter (`StepWithinDiameter`: 8.3 points against 10 with the
  configured values, for ticks up to 20 ms); for bullets fired at a bounding wall it
  does not hold, which `movement_bullets` shows;
- `VelocitiesAgree` (`VelocityAgreement`);
- `PositionsAlwaysAgree` (`PositionsAgree`).

The geometry is in lemmas: a circle inside the world that touches no bounding wall
keeps more than its radius from each (`Margins`); one whose next position is
outside by less than it may be still touches one, also past a corner, where the
two excesses are at most half a radius each (`Caught`, `PlayerStep`, `BulletStep`);
a bullet starts inside because its shooter touches no wall (`BulletStart`).
A bullet that was fired clear of the bounding walls stays clear of them, which is the
inductive form of `ClearShotsStayInside` (`BulletsHeld`): it is more than its radius
inside, so a step of its diameter ends less than its radius outside.
`VelocityAgreement` is not inductive: it speaks of an empty backlog only. `Commanded`
says that the last velocity under way, or without one the velocity on the server,
is the one last sent. `PositionsAgree` is stated between ticks; `Told` adds that what
was told of bullets is right within a tick too, and that only a tick moves players.

`Discovery_proofs` proves, for any number of servers, clients, players and redis
errors,

- `TypeCorrect` (`TypeOK`);
- `KillsAloneLeaveKeys` (`KeysOutliveOnlyKills`);
- `PollsSettle` (`SettledServersAreListed`);
- `PartialPollsAloneKill` (`OnlyPartialPollsKill`);
- `AnswersAreAlwaysRooms` (`AnswersAreRooms`).

`SettledServersAreListed` is about polls that have ended. `Progress` is what it
comes from: while a poll runs, each key of a server that has not torn it is ahead
of the cursor, found, or read, and a server that stayed away has not got into the
map. `Collected` says that a poll holds the lock and that every key it has found is
still there or its server has torn the poll, which is all that can make the GET's
assertion fail. A count can only be missing from a map that nobody is rebuilding,
so the second way to die follows from `SettledServersAreListed`, and so does
`AnswersAreRooms`; what a poll that a redis error has ended leaves behind is neither
complete nor current, but nothing in it is of a server that stayed away. `KeysOfServers` is by itself inductive: what each state of a
server says of its keys, whatever an earlier kill has left.

Every safety property that a run checks and that holds is stated by a theorem.
Only model-checked is everything about liveness: `StateChangesAreHandled`,
`StopEndsTheServer`, `HungShotsAppear`, `LostConnectionEnds`, `WaitersAreAnswered`,
`MapFollowsRedis`, `WaitsOnlyForAnswers`, `SessionsEnd` and `BulletsEnd`. The prover has
no rules for liveness under fairness or `ENABLED`. It cannot use induction over data
either, so what a recursive definition computes for every input is out of its
reach; no module declares a `RECURSIVE` operator, and what the proofs need of
sequences is stated by their length and elements.

## 5. Not modelled, and why

- Drawing, option and config parsing, the conversion to JSON and back: wording and
  layout, or numbers that are copied.
- Rounding of floating-point coordinates, and walls and paths that are not parallel
  to the axes: `Movement` computes exactly, with integers. Its keys may make a
  player move along both axes at once; its bullets fly along one.
- Send buffers that overflow (ServerBase.cpp:38): the connections are reliable and
  unbounded; the size of the buffer is the library's.
- Negative receive counts (GameServer.cpp:256): they need an invalid poll group.
- The wrap of an id's version (GameServer.cpp:328): versions are bounded below it.
- What a game server still sends when it fails: a second closure of a connection that
  was never accepted makes it announce once more that the first wall is destroyed,
  before the registry's assertion ends it (GameServer.cpp:289-291). `GameServer` sends
  it; `Scene`'s server does not.
- Signals outside the life of the server object (server/src/main.cpp:109), and a
  listen socket that cannot be opened, which the code logs and goes on from.
- `Scene::HandleEvent(KillEvent)`: it has no caller.

## 6. Plan

Done: `Registry`, `Protocol`, `GameServer` with `World` and the refinement,
`Scene`, `Discovery`, `Session`, `Movement`; redis failures in the game server; kills
and restarts in `Discovery`; the theorems of section 4.

Left: the safety halves of the remaining liveness properties, as invariants and
theorems, such as that a client that waits for a room is still known to the entry
server (`WaitersAreAnswered`).
