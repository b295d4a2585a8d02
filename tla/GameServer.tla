----------------------------- MODULE GameServer -----------------------------
(***************************************************************************)
(* One game server (server/src/GameServer.cpp): the tick loop of Run, the  *)
(* connection callbacks, the handling of client messages and the update of *)
(* bullets and players, next to the peers that open, use and drop          *)
(* connections at any moment.  The server is one thread, so each iteration *)
(* of each of its loops is one action; the peers interleave with them.     *)
(*                                                                         *)
(* Positions and velocities are left out: whether a bullet hits something  *)
(* is a free choice wherever the code could find something to hit.         *)
(***************************************************************************)
EXTENDS Protocol, Integers, Sequences, FiniteSets

CONSTANTS
  Conns,        \* connection handles, one per connection ever opened
  NoId,         \* "this handle is not a key of m_ClientMap"
  WallCount,    \* walls in the session options: slots 0 .. WallCount - 1
  MaxShots,     \* bound: shoot messages sent by all peers together
  MaxInbox,     \* bound: unread messages of one peer
  MaxBacklog    \* bound: messages a peer may lag behind when a tick starts

ASSUME ConstantsAssumption ==
  /\ IsFiniteSet(Conns)
  /\ NoId \notin Ids
  /\ WallCount \in Nat \ {0}
  /\ 0 .. WallCount - 1 \subseteq Slots
  /\ IsFiniteSet(Slots) =>      \* create() never runs out of slots
       Cardinality(Slots) >= WallCount + Cardinality(Conns) + MaxShots
  /\ MaxVersion >= Cardinality(Conns) + MaxShots
  /\ MaxShots \in Nat /\ MaxInbox \in Nat /\ MaxBacklog \in Nat

VARIABLES
  \* the server
  phase,     \* where Run is in its loop
  alive,     \* m_Alive
  todo,      \* entities the current loop of UpdateGameState has still to visit
  clients,   \* m_ClientMap
  walls,     \* m_Registry: entities with a LineCollider
  players,   \*             entities with a PlayerTag (and a CircleCollider)
  bullets,   \*             entities with a BulletTag: [id, shooter]
  issued,    \*             how often each slot has been issued
  listed,    \* redis: the <name>.endpoint and <name>.player_count keys exist
  count,     \* redis: the value of <name>.player_count
  strays,    \* history: closures handled for a handle not in m_ClientMap
  \* the connections and the peers at their other ends
  conn,      \* state of each connection
  pending,   \* status callbacks queued but not dispatched
  inbox,     \* per connection, messages the server has not read
  out,       \* per connection, messages the peer has not read
  view,      \* per connection, the entities the peer has been told of
  me,        \* per connection, the player id the peer was greeted with
  shots      \* shoot messages sent so far

entities == <<walls, players, bullets, issued>>
redis == <<listed, count>>
peers == <<view, me, shots>>
vars == <<phase, alive, todo, clients, entities, redis, strays, conn, pending,
          inbox, out, peers>>

Phases == {"start", "recv", "callbacks", "bullets", "players", "sleep",
           "done", "crashed", "threw"}
Ended == {"done", "crashed", "threw"}
Running == phase \notin {"start"} \cup Ended

WallIds == {<<s, 0>> : s \in 0 .. WallCount - 1}

BulletIds == {b.id : b \in bullets}
Circles == players \cup BulletIds          \* entities with a CircleCollider
Valid == walls \cup Circles                \* what m_Registry.valid accepts

InMap(c) == clients[c] # NoId

Requests == [type : {"coords", "shoot"}, id : Ids]

TypeOK ==
  /\ phase \in Phases
  /\ alive \in BOOLEAN
  /\ todo \subseteq Ids
  /\ clients \in [Conns -> Ids \cup {NoId}]
  /\ walls \subseteq Ids
  /\ players \subseteq Ids
  /\ bullets \subseteq [id : Ids, shooter : Ids]
  /\ issued \in [Slots -> Nat]
  /\ listed \in BOOLEAN
  /\ count \in Int
  /\ strays \in Nat
  /\ conn \in [Conns -> {"idle", "connecting", "connected", "left", "closed"}]
  /\ pending \in [Conns -> SUBSET {"connecting", "closed"}]
  /\ inbox \in [Conns -> Seq(Requests)]
  /\ out \in [Conns -> Seq(Messages)]
  /\ view \in [Conns -> SUBSET Ids]
  /\ me \in [Conns -> Ids \cup {NoId}]
  /\ shots \in Nat

-----------------------------------------------------------------------------
(* The constructor has created the walls, with the first ids of the         *)
(* registry; nothing listens yet.                                           *)
Init ==
  /\ phase = "start"
  /\ alive = TRUE
  /\ todo = {}
  /\ clients = [c \in Conns |-> NoId]
  /\ walls = WallIds
  /\ players = {}
  /\ bullets = {}
  /\ issued = [s \in Slots |-> IF s < WallCount THEN 1 ELSE 0]
  /\ listed = FALSE
  /\ count = 0
  /\ strays = 0
  /\ conn = [c \in Conns |-> "idle"]
  /\ pending = [c \in Conns |-> {}]
  /\ inbox = [c \in Conns |-> <<>>]
  /\ out = [c \in Conns |-> <<>>]
  /\ view = [c \in Conns |-> {}]
  /\ me = [c \in Conns |-> NoId]
  /\ shots = 0

(* SendMessageToAllClients.  A send on a connection whose peer has gone is  *)
(* an error that ServerBase::SendMessageToConnection ignores.               *)
Reached == {c \in Conns : InMap(c) /\ conn[c] = "connected"}

SendToAll(m) ==
  out' = [c \in Conns |-> IF c \in Reached THEN Append(out[c], m) ELSE out[c]]

(* GetCurrentStateJson: the walls of the session options, which is where a  *)
(* greeting takes them from, and the players and bullets of the registry.   *)
StateWithoutBullets == WallIds \cup players

CurrentState == WallIds \cup players \cup BulletIds

(* The newcomer's greeting, sent before it is in the map, and the           *)
(* announcement of its player to those who are.                             *)
GreetFromMap(c, p) ==
  out' = [d \in Conns |->
    IF d = c THEN Append(out[d], Greeting(clients[c], CurrentState))
    ELSE IF d \in Reached THEN Append(out[d], Message("connection", p))
    ELSE out[d]]

GreetAfterMapping(c, p) ==
  out' = [d \in Conns |->
    IF d = c THEN out[d] \o <<Greeting(p, CurrentState), Message("connection", p)>>
    ELSE IF d \in Reached THEN Append(out[d], Message("connection", p))
    ELSE out[d]]

GreetAndAnnounce(c, p) ==
  out' = [d \in Conns |->
    IF d = c THEN Append(out[d], Greeting(p, CurrentState))
    ELSE IF d \in Reached THEN Append(out[d], Message("connection", p))
    ELSE out[d]]

(* m_Registry.destroy: the entity and all its components.                   *)
Destroy(id) ==
  /\ walls' = walls \ {id}
  /\ players' = players \ {id}
  /\ bullets' = {b \in bullets : b.id # id}

(* CloseConnection, which drops what the peer sent and nobody has read.     *)
Close(c) ==
  /\ conn' = [conn EXCEPT ![c] = "closed"]
  /\ inbox' = [inbox EXCEPT ![c] = <<>>]

(* A connection is over: m_ClientMap forgets it, and its handle is closed.  *)
TakeOutUnclosed(c) ==
  /\ clients' = [clients EXCEPT ![c] = NoId]
  /\ UNCHANGED <<conn, inbox>>

TakeOutStillMapped(c) ==
  /\ Close(c)
  /\ UNCHANGED clients

TakeOut(c) ==
  /\ clients' = [clients EXCEPT ![c] = NoId]
  /\ Close(c)

-----------------------------------------------------------------------------
(* Run: the steps of the tick loop.                                         *)

(* A redis call throws.  Nothing up to main catches it (main.cpp:111, and    *)
(* ~GameServer is noexcept), so the process ends then and there; what was   *)
(* done before the call has been done.                                      *)
RedisThrows == phase' = "threw"

CountOrGoOn(n) ==      \* the exception is swallowed
  /\ count' \in {count, n}
  /\ UNCHANGED phase

(* incr or decr.  It may throw before or after redis has counted.           *)
CountInRedis(n) ==
  \/ count' = n /\ UNCHANGED phase
  \/ count' \in {count, n} /\ RedisThrows

(* InitConnection, RegisterSelfInRedis and CreatePollGroup.                 *)
Start ==
  /\ phase = "start"
  /\ \/ listed' = TRUE /\ phase' = "sleep"
     \/ listed' \in BOOLEAN /\ RedisThrows
  /\ count' = 0
  /\ UNCHANGED <<alive, todo, clients, entities, strays, conn, pending, inbox,
                 out, peers>>

BeginTickUnasked ==
  /\ phase = "sleep"
  /\ \A c \in Conns : Len(out[c]) <= MaxBacklog
  /\ phase' = "recv"
  /\ UNCHANGED <<alive, todo, clients, entities, redis, strays, conn, pending,
                 inbox, out, peers>>

(* `while (m_Alive)` finds the server alive: a new tick.  The real server   *)
(* does not wait for its peers; the last conjunct is the bound MaxBacklog.  *)
BeginTick ==
  /\ phase = "sleep"
  /\ alive
  /\ \A c \in Conns : Len(out[c]) <= MaxBacklog
  /\ phase' = "recv"
  /\ UNCHANGED <<alive, todo, clients, entities, redis, strays, conn, pending,
                 inbox, out, peers>>

(* The loop ends and ~GameServer runs: connections are closed and the two   *)
(* redis keys deleted; ~ServerBase closes the listen socket.                *)
Shutdown ==
  /\ phase = "sleep"
  /\ ~alive
  /\ \/ listed' = FALSE /\ phase' = "done"
     \/ listed' \in BOOLEAN /\ RedisThrows
  /\ conn' = [c \in Conns |-> IF conn[c] = "idle" THEN "idle" ELSE "closed"]
  /\ pending' = [c \in Conns |-> {}]
  /\ inbox' = [c \in Conns |-> <<>>]
  /\ out' = [c \in Conns |-> <<>>]
  /\ UNCHANGED <<alive, todo, clients, entities, count, strays, peers>>

(* The handler of SIGINT and SIGTERM: GameServer::Stop.                     *)
Stop ==
  /\ alive
  /\ phase \notin Ended
  /\ alive' = FALSE
  /\ UNCHANGED <<phase, todo, clients, entities, redis, strays, conn, pending,
                 inbox, out, peers>>

(* A failed assertion of the registry ends the process (run*.sh build type  *)
(* Debug); the redis keys stay behind.                                      *)
Crash == phase' = "crashed"

-----------------------------------------------------------------------------
(* PollIncomingMessages and ProcessMessage.                                 *)

(* "coords" patches the CircleCollider of the entity the message names.     *)
ProcessCoords(c) ==
  /\ phase = "recv" /\ alive
  /\ inbox[c] # <<>> /\ Head(inbox[c]).type = "coords"
  /\ inbox' = [inbox EXCEPT ![c] = Tail(@)]
  /\ IF Head(inbox[c]).id \in Circles THEN UNCHANGED phase ELSE Crash
  /\ UNCHANGED <<alive, todo, clients, entities, redis, strays, conn, pending,
                 out, peers>>

(* "shoot" creates the bullet's entity, reads the shooter's collider, tells *)
(* every client and only then adds the BulletTag.                           *)
ProcessShoot(c) ==
  /\ phase = "recv" /\ alive
  /\ inbox[c] # <<>> /\ Head(inbox[c]).type = "shoot"
  /\ inbox' = [inbox EXCEPT ![c] = Tail(@)]
  /\ LET shooter == Head(inbox[c]).id IN
       \E b \in Creatable(Valid, issued) :
         /\ issued' = Issue(issued, b)
         /\ \/ /\ shooter \in Circles
               /\ SendToAll(Message("shoot", b))
               /\ bullets' = bullets \cup {[id |-> b, shooter |-> shooter]}
               /\ UNCHANGED phase
            \/ /\ shooter \notin Circles
               /\ Crash
               /\ UNCHANGED <<out, bullets>>
  /\ UNCHANGED <<alive, todo, clients, walls, players, redis, strays, conn,
                 pending, peers>>

(* No message is left, or m_Alive was cleared while there were some.        *)
EndReceive ==
  /\ phase = "recv"
  /\ alive => \A c \in Conns : inbox[c] = <<>>
  /\ phase' = "callbacks"
  /\ UNCHANGED <<alive, todo, clients, entities, redis, strays, conn, pending,
                 inbox, out, peers>>

-----------------------------------------------------------------------------
(* PollConnectionStateChanges: OnConnectionStatusChanged for each callback. *)
(* Callbacks of one connection come in the order of its state changes.      *)

(* Connecting, accepted: the newcomer is sent the state without itself,     *)
(* then created, then announced to the others, then put in the map, and     *)
(* counted in redis last of all.                                            *)
OnConnecting(c) ==
  /\ phase = "callbacks"
  /\ "connecting" \in pending[c] /\ conn[c] = "connecting"
  /\ pending' = [pending EXCEPT ![c] = @ \ {"connecting"}]
  /\ conn' = [conn EXCEPT ![c] = "connected"]
  /\ \E p \in Creatable(Valid, issued) :
       /\ issued' = Issue(issued, p)
       /\ players' = players \cup {p}
       /\ clients' = [clients EXCEPT ![c] = p]
       /\ GreetAndAnnounce(c, p)
  /\ CountInRedis(count + 1)
  /\ UNCHANGED <<alive, todo, walls, bullets, listed, strays, inbox, peers>>

(* Connecting, but AcceptConnection or SetConnectionPollGroup fails, as the *)
(* former does when the peer is already gone: the connection is closed.     *)
OnRefused(c) ==
  /\ phase = "callbacks"
  /\ "connecting" \in pending[c]
  /\ pending' = [pending EXCEPT ![c] = @ \ {"connecting"}]
  /\ Close(c)
  /\ UNCHANGED <<phase, alive, todo, clients, entities, redis, strays, out,
                 peers>>

(* ClosedByPeer or ProblemDetectedLocally.  For a handle that is not in     *)
(* m_ClientMap, operator[] yields id 0: the first wall.                     *)
OnClosed(c) ==
  LET id == IF InMap(c) THEN clients[c] ELSE ZeroId IN
  /\ phase = "callbacks"
  /\ "closed" \in pending[c] /\ "connecting" \notin pending[c]
  /\ SendToAll(Message("destroy", id))
  /\ strays' = IF InMap(c) THEN strays ELSE strays + 1
  /\ pending' = [pending EXCEPT ![c] = {}]
  /\ \/ /\ id \in Valid
        /\ Destroy(id)
        /\ TakeOut(c)
        /\ CountInRedis(count - 1)
     \/ /\ id \notin Valid
        /\ Crash
        /\ UNCHANGED <<walls, players, bullets, clients, conn, inbox, count>>
  /\ UNCHANGED <<alive, todo, issued, listed, peers>>

EndCallbacksEarly ==
  /\ phase = "callbacks"
  /\ phase' = "bullets"
  /\ todo' = BulletIds
  /\ UNCHANGED <<alive, clients, entities, redis, strays, conn, pending, inbox,
                 out, peers>>

EndCallbacks ==
  /\ phase = "callbacks"
  /\ \A c \in Conns : pending[c] = {}
  /\ phase' = "bullets"
  /\ todo' = BulletIds
  /\ UNCHANGED <<alive, clients, entities, redis, strays, conn, pending, inbox,
                 out, peers>>

-----------------------------------------------------------------------------
(* UpdateGameState: one action per bullet, then one per player.             *)

(* The bullet meets a wall, or a player other than its shooter.             *)
BulletHits(b) ==
  /\ phase = "bullets" /\ b.id \in todo
  /\ walls # {} \/ \E p \in players : p # b.shooter
  /\ todo' = todo \ {b.id}
  /\ SendToAll(Message("destroy", b.id))
  /\ Destroy(b.id)
  /\ UNCHANGED <<phase, alive, clients, issued, redis, strays, conn, pending,
                 inbox, peers>>

BulletFlies(b) ==
  /\ phase = "bullets" /\ b.id \in todo
  /\ todo' = todo \ {b.id}
  /\ SendToAll(Message("coords", b.id))
  /\ UNCHANGED <<phase, alive, clients, entities, redis, strays, conn, pending,
                 inbox, peers>>

EndBullets ==
  /\ phase = "bullets" /\ todo = {}
  /\ phase' = "players"
  /\ todo' = players
  /\ UNCHANGED <<alive, clients, entities, redis, strays, conn, pending, inbox,
                 out, peers>>

PlayerMoves(p) ==
  /\ phase = "players" /\ p \in todo
  /\ todo' = todo \ {p}
  /\ SendToAll(Message("coords", p))
  /\ UNCHANGED <<phase, alive, clients, entities, redis, strays, conn, pending,
                 inbox, peers>>

EndPlayers ==
  /\ phase = "players" /\ todo = {}
  /\ phase' = "sleep"
  /\ UNCHANGED <<alive, todo, clients, entities, redis, strays, conn, pending,
                 inbox, out, peers>>

-----------------------------------------------------------------------------
(* The peers.  A peer that obeys the protocol waits for its greeting and    *)
(* then sends requests in its own name (NetworkClient::SendMovement and     *)
(* SendShoot); the connections are reliable and keep their order.           *)

PeerOpens(c) ==
  /\ Running /\ conn[c] = "idle"
  /\ conn' = [conn EXCEPT ![c] = "connecting"]
  /\ pending' = [pending EXCEPT ![c] = {"connecting"}]
  /\ UNCHANGED <<phase, alive, todo, clients, entities, redis, strays, inbox,
                 out, peers>>

(* The peer closes the connection, or it is lost.                           *)
PeerLeaves(c) ==
  /\ Running /\ conn[c] \in {"connecting", "connected"}
  /\ conn' = [conn EXCEPT ![c] = "left"]
  /\ pending' = [pending EXCEPT ![c] = @ \cup {"closed"}]
  /\ out' = [out EXCEPT ![c] = <<>>]
  /\ view' = [view EXCEPT ![c] = {}]
  /\ me' = [me EXCEPT ![c] = NoId]
  /\ UNCHANGED <<phase, alive, todo, clients, entities, redis, strays, inbox,
                 shots>>

PeerReads(c) ==
  /\ conn[c] = "connected" /\ out[c] # <<>>
  /\ LET m == Head(out[c]) IN
       /\ view' = [view EXCEPT ![c] = (@ \cup Adds(m)) \ Drops(m)]
       /\ me' = [me EXCEPT ![c] = IF m.type = "greeting" THEN m.id ELSE @]
  /\ out' = [out EXCEPT ![c] = Tail(@)]
  /\ UNCHANGED <<phase, alive, todo, clients, entities, redis, strays, conn,
                 pending, inbox, shots>>

PeerSends(c, type) ==
  /\ Running /\ conn[c] = "connected" /\ me[c] # NoId
  /\ Len(inbox[c]) < MaxInbox
  /\ shots' = IF type = "shoot" THEN shots + 1 ELSE shots
  /\ shots' <= MaxShots
  /\ inbox' = [inbox EXCEPT ![c] = Append(@, [type |-> type, id |-> me[c]])]
  /\ UNCHANGED <<phase, alive, todo, clients, entities, redis, strays, conn,
                 pending, out, view, me>>

(* The process has ended and every peer has read what it could.             *)
Terminated ==
  /\ phase \in Ended
  /\ UNCHANGED vars

-----------------------------------------------------------------------------
ServerStep ==
  \/ Start \/ BeginTick \/ Shutdown
  \/ \E c \in Conns : ProcessCoords(c) \/ ProcessShoot(c)
  \/ EndReceive
  \/ \E c \in Conns : OnConnecting(c) \/ OnRefused(c) \/ OnClosed(c)
  \/ EndCallbacks
  \/ \E b \in bullets : BulletHits(b) \/ BulletFlies(b)
  \/ EndBullets
  \/ \E p \in players : PlayerMoves(p)
  \/ EndPlayers

PeerStep ==
  \E c \in Conns :
    \/ PeerOpens(c) \/ PeerLeaves(c) \/ PeerReads(c)
    \/ \E type \in {"coords", "shoot"} : PeerSends(c, type)

Next == ServerStep \/ Stop \/ PeerStep \/ Terminated

Spec == Init /\ [][Next]_vars

(* The server thread keeps running, the network keeps delivering, and the   *)
(* server reads faster than its peers send: PollIncomingMessages, which has *)
(* no limit of its own, finds its queue empty again and again, and stops.   *)
Fairness ==
  /\ WF_vars(ServerStep)
  /\ []<>(phase = "recv" => \A c \in Conns : inbox[c] = <<>>)
  /\ SF_vars(EndReceive)
  /\ \A c \in Conns : WF_vars(PeerReads(c))

FairSpec == Spec /\ Fairness

-----------------------------------------------------------------------------
(* Properties.                                                              *)

(* The map from connections to players is a bijection onto the entities     *)
(* with a PlayerTag: no player without a connection is left in the world    *)
(* and no two connections steer the same one (GameServer.cpp:289-293,       *)
(* 328-349).                                                                *)
PlayersAreClients ==
  /\ \A c \in Conns : InMap(c) => clients[c] \in players
  /\ \A c, d \in Conns : InMap(c) /\ clients[c] = clients[d] => c = d
  /\ \A p \in players : \E c \in Conns : clients[c] = p

(* Every request still to be read names the player its sender steers now,   *)
(* so that ProcessMessage never touches a destroyed entity or somebody      *)
(* else's (GameServer.cpp:109-123): closing a connection discards what its  *)
(* peer had sent.                                                           *)
RequestsNameOwnPlayer ==
  \A c \in Conns : \A i \in DOMAIN inbox[c] :
    InMap(c) /\ inbox[c][i].id = clients[c]

(* The player count the server advertises in redis is the number of its     *)
(* clients, less one for every closure of a connection it never accepted    *)
(* (GameServer.cpp:296, 350), however often redis fails: a server that      *)
(* could not count does not go on.                                          *)
CountAccounting ==
  Running => count = Cardinality({c \in Conns : InMap(c)}) - strays

(* Such a closure costs the first wall, and a later one the server: nothing *)
(* else destroys a wall or ends in a failed assertion (GameServer.cpp:289). *)
StrayDamage ==
  /\ walls = IF strays = 0 THEN WallIds ELSE WallIds \ {ZeroId}
  /\ phase = "crashed" => strays >= 2

(* What a connected peer knows plus what is on its way to it is exactly the *)
(* players and bullets that exist: the greeting's snapshot and the          *)
(* announcements that follow it leave no gap and no ghost                   *)
(* (GameServer.cpp:325-349, 361-392).                                       *)
StreamTellsWorld ==
  \A c \in Conns : conn[c] = "connected" =>
    ToldBy(view[c], out[c], Len(out[c])) \ WallIds = Circles

(* A stream can be replayed message by message: the greeting comes first,   *)
(* an entity is announced into a slot that the reader and the rest of the   *)
(* message leave free, and coordinates and destructions only name what the  *)
(* reader has been told of.  This is the order the comment at               *)
(* GameServer.cpp:145 asks for.  A closure of a connection never accepted   *)
(* spoils one slot and no other: the server recycles the first wall's,      *)
(* while greetings go on announcing that wall from the session options      *)
(* (GameServer.cpp:388), and the closure after it destroys it once more.    *)
StreamIsReplayable ==
  LET Spoilt(s) == strays > 0 /\ s = SlotOf(ZeroId) IN
  \A c \in Conns : \A i \in DOMAIN out[c] :
    LET m == out[c][i]
        told == ToldBy(view[c], out[c], i - 1)
    IN  /\ m.type = "greeting" <=> told = {}
        /\ \A x \in Adds(m) :
             \/ ~Occupied(told \cup (Adds(m) \ {x}), SlotOf(x))
             \/ Spoilt(SlotOf(x))
        /\ m.type \in {"coords", "destroy"} =>
             m.id \in told \/ (m.id = ZeroId /\ strays > 1)

(* Every change of a connection's state is handled while the server runs:   *)
(* a newcomer is greeted or refused, a leaver's player is taken out.        *)
StateChangesAreHandled ==
  \A c \in Conns : pending[c] # {} ~> pending[c] = {} \/ ~Running

(* A server told to stop leaves its loop, and unless it crashes, or redis   *)
(* fails, it takes its keys out of redis (GameServer.cpp:41-56, 393-396).   *)
StopEndsTheServer ==
  ~alive ~> (phase = "done" /\ ~listed) \/ phase \in {"crashed", "threw"}
=============================================================================
