-------------------------- MODULE GameServer_proofs --------------------------
(***************************************************************************)
(* Proofs about GameServer, for every set of connections, every number of  *)
(* walls, slots and versions, and all bounds.                              *)
(***************************************************************************)
EXTENDS GameServer, FiniteSetTheorems, TLAPS

-----------------------------------------------------------------------------
(* The registry.                                                            *)

(* create() returns an id (Registry.tla, for GameServer.cpp:119 and 328).   *)
LEMMA CreatableIsId ==
  ASSUME NEW ids, NEW iss \in [Slots -> Nat], NEW x \in Creatable(ids, iss)
  PROVE  /\ x \in Ids
         /\ SlotOf(x) \in Slots
         /\ VersionOf(x) = iss[SlotOf(x)]
<1>1. PICK s \in FreeSlots(ids, iss) : x = <<s, iss[s]>>
  BY DEF Creatable
<1>2. s \in Slots /\ iss[s] \in 0 .. MaxVersion
  BY <1>1, RegistryAssumption DEF FreeSlots
<1> QED
  BY <1>1, <1>2 DEF Ids, SlotOf, VersionOf

(* Counting an issue keeps the counters counters.                           *)
LEMMA IssueType ==
  ASSUME NEW iss \in [Slots -> Nat], NEW x \in Ids
  PROVE  /\ Issue(iss, x) \in [Slots -> Nat]
         /\ \A s \in Slots : Issue(iss, x)[s] >= iss[s]
         /\ Issue(iss, x)[SlotOf(x)] = iss[SlotOf(x)] + 1
<1>1. SlotOf(x) \in Slots
  BY DEF Ids, SlotOf
<1> QED
  BY <1>1 DEF Issue

-----------------------------------------------------------------------------
(* Type correctness.                                                        *)

(* What the server sends are messages (ServerBase.cpp:34-41).               *)
LEMMA MessageType ==
  ASSUME NEW type \in {"connection", "shoot", "destroy", "coords"},
         NEW x \in Ids
  PROVE  Message(type, x) \in Messages
BY DEF Message, Messages

LEMMA SendToAllType ==
  ASSUME TypeOK, NEW m \in Messages, SendToAll(m)
  PROVE  out' \in [Conns -> Seq(Messages)]
BY DEF TypeOK, SendToAll

(* The ids of the world are ids.                                            *)
LEMMA WorldIds ==
  ASSUME TypeOK
  PROVE  /\ WallIds \subseteq Ids
         /\ BulletIds \subseteq Ids
         /\ Circles \subseteq Ids
         /\ ZeroId \in Ids
<1>1. WallIds \subseteq Ids
  BY ConstantsAssumption, RegistryAssumption DEF WallIds, Ids
<1>2. ZeroId \in Ids
  BY RegistryAssumption DEF ZeroId, Ids
<1> QED
  BY <1>1, <1>2 DEF TypeOK, BulletIds, Circles

(* Empty queues are queues.                                                 *)
LEMMA NoMessages ==
  /\ [c \in Conns |-> <<>>] \in [Conns -> Seq(Requests)]
  /\ [c \in Conns |-> <<>>] \in [Conns -> Seq(Messages)]
  /\ [c \in Conns |-> {}] \in [Conns -> SUBSET {"connecting", "closed"}]
<1>1. <<>> \in Seq(Requests) /\ <<>> \in Seq(Messages)
  OBVIOUS
<1> QED
  BY <1>1

(* Counting, whether it succeeds or throws (GameServer.cpp:296, 350).       *)
LEMMA CountType ==
  ASSUME TypeOK, NEW n \in Int, CountInRedis(n)
  PROVE  count' \in Int /\ phase' \in Phases
BY DEF TypeOK, CountInRedis, RedisThrows, Phases

(* Every step of the server and its peers keeps the types.                  *)
LEMMA TypeStep == TypeOK /\ [Next]_vars => TypeOK'
<1> SUFFICES ASSUME TypeOK, [Next]_vars PROVE TypeOK'
  OBVIOUS
<1> USE DEF TypeOK, entities, redis, peers
<1>1. CASE Start
  <2>1. listed' \in BOOLEAN /\ phase' \in Phases /\ count' = 0
    BY <1>1 DEF Start, RedisThrows, Phases
  <2> QED
    BY <1>1, <2>1 DEF Start
<1>2. CASE BeginTick
  BY <1>2 DEF BeginTick, Phases
<1>3. CASE Shutdown
  <2>1. conn' \in [Conns -> {"idle", "connecting", "connected", "left", "closed"}]
    BY <1>3 DEF Shutdown
  <2>2. /\ pending' \in [Conns -> SUBSET {"connecting", "closed"}]
        /\ inbox' \in [Conns -> Seq(Requests)]
        /\ out' \in [Conns -> Seq(Messages)]
    BY <1>3, NoMessages DEF Shutdown
  <2>3. listed' \in BOOLEAN /\ phase' \in Phases
    BY <1>3 DEF Shutdown, RedisThrows, Phases
  <2> QED
    BY <1>3, <2>1, <2>2, <2>3 DEF Shutdown
<1>4. CASE Stop
  BY <1>4 DEF Stop
<1>5. ASSUME NEW c \in Conns, ProcessCoords(c) PROVE TypeOK'
  BY <1>5 DEF ProcessCoords, Crash, Phases
<1>6. ASSUME NEW c \in Conns, ProcessShoot(c) PROVE TypeOK'
  <2>1. PICK b \in Creatable(Valid, issued) :
          /\ issued' = Issue(issued, b)
          /\ \/ /\ Head(inbox[c]).id \in Circles
                /\ SendToAll(Message("shoot", b))
                /\ bullets' = bullets \cup {[id |-> b, shooter |-> Head(inbox[c]).id]}
                /\ UNCHANGED phase
             \/ /\ Crash
                /\ UNCHANGED <<out, bullets>>
    BY <1>6 DEF ProcessShoot
  <2>2. b \in Ids /\ issued' \in [Slots -> Nat]
    BY <2>1, CreatableIsId, IssueType
  <2>3. out' \in [Conns -> Seq(Messages)]
    BY <2>1, <2>2, MessageType, SendToAllType
  <2>4. bullets' \subseteq [id : Ids, shooter : Ids]
    BY <2>1, <2>2, WorldIds
  <2>5. phase' \in Phases
    BY <2>1 DEF Crash, Phases
  <2>6. inbox' \in [Conns -> Seq(Requests)]
    BY <1>6 DEF ProcessShoot
  <2> QED
    BY <1>6, <2>2, <2>3, <2>4, <2>5, <2>6 DEF ProcessShoot
<1>7. CASE EndReceive
  BY <1>7 DEF EndReceive, Phases
<1>8. ASSUME NEW c \in Conns, OnConnecting(c) PROVE TypeOK'
  <2>1. PICK p \in Creatable(Valid, issued) :
          /\ issued' = Issue(issued, p)
          /\ players' = players \cup {p}
          /\ clients' = [clients EXCEPT ![c] = p]
          /\ GreetAndAnnounce(c, p)
    BY <1>8 DEF OnConnecting
  <2>2. p \in Ids /\ issued' \in [Slots -> Nat]
    BY <2>1, CreatableIsId, IssueType
  <2>3. Greeting(p, CurrentState) \in Messages /\ Message("connection", p) \in Messages
    BY <2>2, WorldIds, MessageType DEF Greeting, Messages, CurrentState
  <2>4. out' \in [Conns -> Seq(Messages)]
    BY <2>1, <2>3 DEF GreetAndAnnounce
  <2>5. /\ conn' = [conn EXCEPT ![c] = "connected"]
        /\ pending' = [pending EXCEPT ![c] = @ \ {"connecting"}]
        /\ UNCHANGED <<alive, todo, walls, bullets, listed, strays, inbox, peers>>
    BY <1>8 DEF OnConnecting
  <2>6. count' \in Int /\ phase' \in Phases
    BY <1>8, CountType DEF OnConnecting
  <2> QED
    BY <2>1, <2>2, <2>4, <2>5, <2>6
<1>9. ASSUME NEW c \in Conns, OnRefused(c) PROVE TypeOK'
  BY <1>9 DEF OnRefused, Close
<1>10. ASSUME NEW c \in Conns, OnClosed(c) PROVE TypeOK'
  <2> DEFINE id == IF InMap(c) THEN clients[c] ELSE ZeroId
  <2>1. id \in Ids
    BY WorldIds DEF InMap
  <2>2. out' \in [Conns -> Seq(Messages)]
    BY <1>10, <2>1, MessageType, SendToAllType DEF OnClosed, TakeOut
  <2>3. /\ strays' \in Nat
        /\ pending' \in [Conns -> SUBSET {"connecting", "closed"}]
        /\ UNCHANGED <<alive, todo, issued, listed, peers>>
    BY <1>10 DEF OnClosed, TakeOut
  <2>4. CASE Crash /\ UNCHANGED <<walls, players, bullets, clients, conn, inbox, count>>
    BY <2>2, <2>3, <2>4 DEF Crash, Phases
  <2>5. CASE /\ Destroy(id)
             /\ clients' = [clients EXCEPT ![c] = NoId]
             /\ Close(c)
             /\ CountInRedis(count - 1)
    BY <2>2, <2>3, <2>5, CountType DEF Destroy, Close
  <2> QED
    BY <1>10, <2>4, <2>5 DEF OnClosed, TakeOut
<1>11. CASE EndCallbacks
  BY <1>11, WorldIds DEF EndCallbacks, Phases
<1>12. ASSUME NEW b \in bullets, BulletHits(b) PROVE TypeOK'
  <2>1. out' \in [Conns -> Seq(Messages)]
    BY <1>12, MessageType, SendToAllType DEF BulletHits
  <2> QED
    BY <1>12, <2>1 DEF BulletHits, Destroy
<1>13. ASSUME NEW b \in bullets, BulletFlies(b) PROVE TypeOK'
  <2>1. out' \in [Conns -> Seq(Messages)]
    BY <1>13, MessageType, SendToAllType DEF BulletFlies
  <2> QED
    BY <1>13, <2>1 DEF BulletFlies
<1>14. CASE EndBullets
  BY <1>14 DEF EndBullets, Phases
<1>15. ASSUME NEW p \in players, PlayerMoves(p) PROVE TypeOK'
  <2>1. out' \in [Conns -> Seq(Messages)]
    BY <1>15, MessageType, SendToAllType DEF PlayerMoves
  <2> QED
    BY <1>15, <2>1 DEF PlayerMoves
<1>16. CASE EndPlayers
  BY <1>16 DEF EndPlayers, Phases
<1>17. ASSUME NEW c \in Conns, PeerOpens(c) PROVE TypeOK'
  BY <1>17 DEF PeerOpens
<1>18. ASSUME NEW c \in Conns, PeerLeaves(c) PROVE TypeOK'
  BY <1>18 DEF PeerLeaves
<1>19. ASSUME NEW c \in Conns, PeerReads(c) PROVE TypeOK'
  <2>1. Head(out[c]) \in Messages /\ Tail(out[c]) \in Seq(Messages)
    BY <1>19 DEF PeerReads
  <2>2. Adds(Head(out[c])) \subseteq Ids /\ Head(out[c]).id \in Ids
    BY <2>1 DEF Adds, Messages
  <2> QED
    BY <1>19, <2>1, <2>2 DEF PeerReads
<1>20. ASSUME NEW c \in Conns, NEW type \in {"coords", "shoot"}, PeerSends(c, type)
       PROVE TypeOK'
  <2>1. [type |-> type, id |-> me[c]] \in Requests
    BY <1>20 DEF PeerSends, Requests
  <2> QED
    BY <1>20, <2>1 DEF PeerSends
<1>21. CASE UNCHANGED vars
  BY <1>21 DEF vars
<1> QED
  BY <1>1, <1>2, <1>3, <1>4, <1>5, <1>6, <1>7, <1>8, <1>9, <1>10, <1>11, <1>12,
     <1>13, <1>14, <1>15, <1>16, <1>17, <1>18, <1>19, <1>20, <1>21
     DEF Next, ServerStep, PeerStep, Terminated

(* The initial state has them.                                              *)
LEMMA InitType == Init => TypeOK
<1> SUFFICES ASSUME Init PROVE TypeOK
  OBVIOUS
<1>1. walls \subseteq Ids
  BY ConstantsAssumption, RegistryAssumption DEF Init, WallIds, Ids
<1>2. issued \in [Slots -> Nat]
  BY DEF Init
<1>3. /\ inbox \in [Conns -> Seq(Requests)]
      /\ out \in [Conns -> Seq(Messages)]
      /\ pending \in [Conns -> SUBSET {"connecting", "closed"}]
  BY NoMessages DEF Init
<1>4. /\ conn \in [Conns -> {"idle", "connecting", "connected", "left", "closed"}]
      /\ view \in [Conns -> SUBSET Ids]
      /\ clients \in [Conns -> Ids \cup {NoId}]
      /\ me \in [Conns -> Ids \cup {NoId}]
  BY DEF Init
<1>5. /\ phase \in Phases
      /\ todo \subseteq Ids /\ players \subseteq Ids
      /\ bullets \subseteq [id : Ids, shooter : Ids]
  BY DEF Init, Phases
<1>6. alive \in BOOLEAN /\ listed \in BOOLEAN
  BY Zenon DEF Init
<1>7. count \in Int /\ strays \in Nat /\ shots \in Nat
  BY DEF Init
<1> QED
  BY <1>1, <1>2, <1>3, <1>4, <1>5, <1>6, <1>7 DEF TypeOK

(* The variables keep their types (GameServer.hpp:49-66).                   *)
THEOREM TypeCorrect == Spec => []TypeOK
BY InitType, TypeStep, PTL DEF Spec

-----------------------------------------------------------------------------
(* The inductive invariant: what ties a connection's state, its pending     *)
(* callbacks, m_ClientMap, the queues of its peer and the registry          *)
(* together.                                                                *)

(* A callback that is still to come names a connection that can have it; a  *)
(* connection in m_ClientMap is the one its peer was greeted on.            *)
Session(c) ==
  /\ "connecting" \in pending[c] =>
       conn[c] \in {"connecting", "left"} /\ ~InMap(c)
  /\ "closed" \in pending[c] => conn[c] \in {"left", "closed"}
  /\ phase \notin {"done", "threw"} =>
       /\ conn[c] = "connected" => InMap(c)
       /\ InMap(c) => conn[c] \in {"connected", "left"}
       /\ conn[c] # "connected" => out[c] = <<>> /\ me[c] = NoId
       /\ me[c] # NoId => me[c] = clients[c]
       /\ \A i \in DOMAIN out[c] :
            out[c][i].type = "greeting" => out[c][i].id = clients[c]

Sessions == \A c \in Conns : Session(c)

(* Walls, players and bullets are different entities.                       *)
Kinds ==
  /\ walls \subseteq WallIds
  /\ players \cap WallIds = {}
  /\ BulletIds \cap WallIds = {}
  /\ BulletIds \cap players = {}

(* Every entity there is or was at the start has been issued, so that the   *)
(* next id create() returns is none of them.                                *)
IssuedBefore ==
  \A x \in Valid \cup WallIds :
    SlotOf(x) \in Slots /\ VersionOf(x) < issued[SlotOf(x)]

(* CountAccounting as it is kept by every step, before the first tick too.  *)
Counted ==
  /\ phase = "start" => count = 0
  /\ phase \notin Ended =>
       count = Cardinality({c \in Conns : InMap(c)}) - strays

IInv ==
  /\ TypeOK
  /\ Sessions
  /\ RequestsNameOwnPlayer
  /\ Kinds
  /\ IssuedBefore
  /\ PlayersAreClients
  /\ StrayDamage
  /\ Counted

-----------------------------------------------------------------------------
(* Sessions is inductive.                                                   *)

(* A broadcast reaches connected peers only, and is never a greeting        *)
(* (GameServer.cpp:149-155).                                                *)
LEMMA Broadcast ==
  ASSUME TypeOK, NEW type \in {"connection", "shoot", "destroy", "coords"},
         NEW x \in Ids, SendToAll(Message(type, x)), NEW c \in Conns
  PROVE  /\ conn[c] # "connected" => out'[c] = out[c]
         /\ \A i \in DOMAIN out'[c] : out'[c][i].type = "greeting" =>
              i \in DOMAIN out[c] /\ out'[c][i] = out[c][i]
<1> DEFINE m == Message(type, x)
<1>1. m.type # "greeting"
  BY DEF Message
<1>2. CASE c \in Reached
  <2>1. out'[c] = Append(out[c], m) /\ conn[c] = "connected"
    BY <1>2 DEF SendToAll, Reached
  <2>2. out[c] \in Seq(Messages)
    BY DEF TypeOK
  <2> HIDE DEF m
  <2>3. DOMAIN Append(out[c], m) = 1 .. Len(out[c]) + 1
    BY <2>2
  <2>4. ASSUME NEW i \in DOMAIN Append(out[c], m),
               Append(out[c], m)[i].type = "greeting"
        PROVE  i \in DOMAIN out[c] /\ Append(out[c], m)[i] = out[c][i]
    BY <1>1, <2>2, <2>3, <2>4
  <2> QED
    BY <2>1, <2>4
<1>3. CASE c \notin Reached
  BY <1>3 DEF SendToAll
<1> QED
  BY <1>2, <1>3

(* What a step does to the connections when it only broadcasts.             *)
LEMMA SessionsBroadcast ==
  ASSUME TypeOK, Sessions,
         NEW type \in {"connection", "shoot", "destroy", "coords"},
         NEW x \in Ids, SendToAll(Message(type, x)),
         phase' = phase,
         UNCHANGED <<conn, pending, clients, me>>
  PROVE  Sessions'
<1> SUFFICES ASSUME NEW c \in Conns PROVE Session(c)'
  BY DEF Sessions
<1>1. Session(c)
  BY DEF Sessions
<1> QED
  BY <1>1, Broadcast DEF Session, InMap

LEMMA SessionsStep == TypeOK /\ Sessions /\ RequestsNameOwnPlayer /\ [Next]_vars
                        => Sessions'
<1> SUFFICES ASSUME TypeOK, Sessions, RequestsNameOwnPlayer, [Next]_vars
             PROVE  Sessions'
  OBVIOUS
<1> USE DEF entities, redis, peers
<1>1. ASSUME UNCHANGED <<conn, pending, clients, me, out>>,
             \/ phase' = phase
             \/ phase \notin {"done", "threw"}
             \/ phase' \in {"done", "threw"}
      PROVE  Sessions'
  BY <1>1 DEF Sessions, Session, InMap
<1>2. CASE BeginTick \/ Stop \/ EndReceive \/ EndCallbacks \/ EndBullets
             \/ EndPlayers \/ UNCHANGED vars
  BY <1>2, <1>1 DEF BeginTick, Stop, EndReceive, EndCallbacks, EndBullets,
                    EndPlayers, vars
<1>15. CASE Start
  BY <1>15, <1>1 DEF Start
<1>3. CASE Shutdown
  <2> SUFFICES ASSUME NEW c \in Conns PROVE Session(c)'
    BY DEF Sessions
  <2>1. pending'[c] = {} /\ phase' \in {"done", "threw"}
    BY <1>3 DEF Shutdown, RedisThrows
  <2> QED
    BY <2>1 DEF Session
<1>4. ASSUME NEW c \in Conns, ProcessCoords(c) PROVE Sessions'
  BY <1>4, <1>1 DEF ProcessCoords, Crash
<1>5. ASSUME NEW c \in Conns, ProcessShoot(c) PROVE Sessions'
  <2>1. PICK b \in Creatable(Valid, issued) :
          \/ SendToAll(Message("shoot", b)) /\ UNCHANGED phase
          \/ Crash /\ UNCHANGED out
    BY <1>5 DEF ProcessShoot
  <2>2. b \in Ids
    BY <2>1, CreatableIsId DEF TypeOK
  <2>3. UNCHANGED <<conn, pending, clients, me>> /\ phase = "recv"
    BY <1>5 DEF ProcessShoot
  <2>4. CASE SendToAll(Message("shoot", b)) /\ UNCHANGED phase
    BY <2>2, <2>3, <2>4, SessionsBroadcast
  <2>5. CASE Crash /\ UNCHANGED out
    BY <2>3, <2>5, <1>1 DEF Crash
  <2> QED
    BY <2>1, <2>4, <2>5
<1>6. ASSUME NEW c \in Conns, OnConnecting(c) PROVE Sessions'
  <2>1. PICK p \in Creatable(Valid, issued) :
          clients' = [clients EXCEPT ![c] = p] /\ GreetAndAnnounce(c, p)
    BY <1>6 DEF OnConnecting
  <2>2. p \in Ids /\ p # NoId
    BY <2>1, CreatableIsId, ConstantsAssumption DEF TypeOK
  <2>3. /\ conn[c] = "connecting" /\ "connecting" \in pending[c]
        /\ phase = "callbacks"
        /\ conn' = [conn EXCEPT ![c] = "connected"]
        /\ pending' = [pending EXCEPT ![c] = @ \ {"connecting"}]
        /\ UNCHANGED me
    BY <1>6 DEF OnConnecting
  <2> SUFFICES ASSUME NEW d \in Conns PROVE Session(d)'
    BY DEF Sessions
  <2>4. Session(c) /\ Session(d)
    BY DEF Sessions
  <2>5. CASE d = c
    <3>1. out[c] = <<>> /\ me[c] = NoId /\ "closed" \notin pending[c]
      BY <2>3, <2>4 DEF Session
    <3> DEFINE g == Greeting(p, CurrentState)
    <3>2. out'[c] = <<g>>
      <4>1. out'[c] = Append(out[c], g)
        BY <2>1, <2>5 DEF GreetAndAnnounce
      <4> HIDE DEF g
      <4> QED
        BY <3>1, <4>1
    <3>5. g.id = p
      BY DEF Greeting
    <3>3. \A i \in DOMAIN out'[c] : out'[c][i].id = p
      <4> HIDE DEF g
      <4> QED
        BY <3>2, <3>5
    <3>4. /\ clients'[c] = p /\ conn'[c] = "connected" /\ me'[c] = NoId
          /\ pending'[c] = pending[c] \ {"connecting"}
      BY <2>1, <2>3, <3>1 DEF TypeOK
    <3> QED
      BY <2>2, <2>3, <2>5, <3>1, <3>3, <3>4 DEF Session, InMap
  <2>6. CASE d # c
    <3>1. /\ clients'[d] = clients[d] /\ conn'[d] = conn[d]
          /\ pending'[d] = pending[d] /\ me'[d] = me[d]
      BY <2>1, <2>3, <2>6 DEF TypeOK
    <3>2. /\ conn[d] # "connected" => out'[d] = out[d]
          /\ \A i \in DOMAIN out'[d] : out'[d][i].type = "greeting" =>
               i \in DOMAIN out[d] /\ out'[d][i] = out[d][i]
      <4>1. SendToAll(Message("connection", p)) =>
              (/\ conn[d] # "connected" => out'[d] = out[d]
               /\ \A i \in DOMAIN out'[d] : out'[d][i].type = "greeting" =>
                    i \in DOMAIN out[d] /\ out'[d][i] = out[d][i])
        BY <2>2, Broadcast
      <4> DEFINE m == Message("connection", p)
      <4>2. m.type # "greeting"
        BY DEF Message
      <4>3. out[d] \in Seq(Messages)
        BY DEF TypeOK
      <4>4. CASE d \in Reached
        <5>1. out'[d] = Append(out[d], m) /\ conn[d] = "connected"
          BY <2>1, <2>6, <4>4 DEF GreetAndAnnounce, Reached
        <5> HIDE DEF m
        <5> QED
          BY <5>1, <4>2, <4>3
      <4>5. CASE d \notin Reached
        BY <2>1, <2>6, <4>5 DEF GreetAndAnnounce
      <4> QED
        BY <4>4, <4>5
    <3> QED
      BY <2>3, <2>4, <3>1, <3>2 DEF Session, InMap
  <2> QED
    BY <2>5, <2>6
<1>7. ASSUME NEW c \in Conns, OnRefused(c) PROVE Sessions'
  <2> SUFFICES ASSUME NEW d \in Conns PROVE Session(d)'
    BY DEF Sessions
  <2>1. Session(c) /\ Session(d)
    BY DEF Sessions
  <2>2. /\ conn' = [conn EXCEPT ![c] = "closed"]
        /\ pending' = [pending EXCEPT ![c] = @ \ {"connecting"}]
        /\ "connecting" \in pending[c]
        /\ phase = "callbacks"
        /\ UNCHANGED <<phase, clients, out, me>>
    BY <1>7 DEF OnRefused, Close
  <2> QED
    BY <2>1, <2>2 DEF Session, InMap, TypeOK
<1>8. ASSUME NEW c \in Conns, OnClosed(c) PROVE Sessions'
  <2> DEFINE id == IF InMap(c) THEN clients[c] ELSE ZeroId
  <2>1. id \in Ids
    BY WorldIds DEF InMap, TypeOK
  <2> SUFFICES ASSUME NEW d \in Conns PROVE Session(d)'
    BY DEF Sessions
  <2>2. Session(c) /\ Session(d)
    BY DEF Sessions
  <2>3. /\ phase = "callbacks" /\ "closed" \in pending[c]
        /\ "connecting" \notin pending[c]
        /\ pending' = [pending EXCEPT ![c] = {}]
        /\ UNCHANGED me
        /\ SendToAll(Message("destroy", id))
    BY <1>8 DEF OnClosed, TakeOut
  <2>4. /\ conn[d] # "connected" => out'[d] = out[d]
        /\ \A i \in DOMAIN out'[d] : out'[d][i].type = "greeting" =>
             i \in DOMAIN out[d] /\ out'[d][i] = out[d][i]
    BY <2>1, <2>3, Broadcast
  <2>5. \/ /\ clients' = [clients EXCEPT ![c] = NoId]
           /\ conn' = [conn EXCEPT ![c] = "closed"]
        \/ /\ phase' = "crashed"
           /\ UNCHANGED <<clients, conn>>
    BY <1>8 DEF OnClosed, TakeOut, Close, Crash
  <2>6. pending'[d] = IF d = c THEN {} ELSE pending[d]
    BY <2>3 DEF TypeOK
  <2>7. CASE d = c
    <3>1. conn[c] # "connected" /\ conn'[c] # "connected" /\ me'[c] = NoId
      BY <2>2, <2>3, <2>5 DEF Session, TypeOK
    <3>2. out'[c] = <<>>
      BY <2>2, <2>3, <2>4, <2>7, <3>1 DEF Session
    <3>3. conn'[c] \in {"left", "closed"}
          /\ (clients'[c] # NoId => clients'[c] = clients[c] /\ conn'[c] = conn[c])
      BY <2>2, <2>3, <2>5 DEF Session, TypeOK
    <3> QED
      BY <2>2, <2>3, <2>6, <2>7, <3>1, <3>2, <3>3 DEF Session, InMap
  <2>8. CASE d # c
    <3>1. clients'[d] = clients[d] /\ conn'[d] = conn[d]
      BY <2>3, <2>5, <2>8 DEF TypeOK
    <3> QED
      BY <2>2, <2>3, <2>4, <2>6, <2>8, <3>1 DEF Session, InMap
  <2> QED
    BY <2>7, <2>8
<1>9. ASSUME NEW b \in bullets, BulletHits(b) \/ BulletFlies(b) PROVE Sessions'
  <2>1. b.id \in Ids
    BY DEF TypeOK
  <2>2. /\ SendToAll(Message("destroy", b.id)) \/ SendToAll(Message("coords", b.id))
        /\ phase = "bullets"
        /\ UNCHANGED <<phase, conn, pending, clients, me>>
    BY <1>9 DEF BulletHits, BulletFlies
  <2> QED
    BY <2>1, <2>2, SessionsBroadcast
<1>10. ASSUME NEW p \in players, PlayerMoves(p) PROVE Sessions'
  <2>1. p \in Ids
    BY DEF TypeOK
  <2>2. /\ SendToAll(Message("coords", p))
        /\ phase = "players"
        /\ UNCHANGED <<phase, conn, pending, clients, me>>
    BY <1>10 DEF PlayerMoves
  <2> QED
    BY <2>1, <2>2, SessionsBroadcast
<1>11. ASSUME NEW c \in Conns, PeerOpens(c) PROVE Sessions'
  <2> SUFFICES ASSUME NEW d \in Conns PROVE Session(d)'
    BY DEF Sessions
  <2>1. Session(c) /\ Session(d)
    BY DEF Sessions
  <2>2. /\ conn[c] = "idle" /\ phase \notin {"done", "threw"}
        /\ conn' = [conn EXCEPT ![c] = "connecting"]
        /\ pending' = [pending EXCEPT ![c] = {"connecting"}]
        /\ UNCHANGED <<phase, clients, out, me>>
    BY <1>11 DEF PeerOpens, Running, Ended
  <2> QED
    BY <2>1, <2>2 DEF Session, InMap, TypeOK
<1>12. ASSUME NEW c \in Conns, PeerLeaves(c) PROVE Sessions'
  <2> SUFFICES ASSUME NEW d \in Conns PROVE Session(d)'
    BY DEF Sessions
  <2>1. Session(c) /\ Session(d)
    BY DEF Sessions
  <2>2. /\ conn[c] \in {"connecting", "connected"}
        /\ conn' = [conn EXCEPT ![c] = "left"]
        /\ pending' = [pending EXCEPT ![c] = @ \cup {"closed"}]
        /\ out' = [out EXCEPT ![c] = <<>>]
        /\ me' = [me EXCEPT ![c] = NoId]
        /\ UNCHANGED <<phase, clients>>
    BY <1>12 DEF PeerLeaves
  <2>3. CASE d = c
    <3>1. /\ conn'[c] = "left" /\ out'[c] = <<>> /\ me'[c] = NoId
          /\ pending'[c] = pending[c] \cup {"closed"}
      BY <2>2 DEF TypeOK
    <3> QED
      BY <2>1, <2>2, <2>3, <3>1 DEF Session, InMap
  <2>4. CASE d # c
    <3>1. /\ conn'[d] = conn[d] /\ out'[d] = out[d] /\ me'[d] = me[d]
          /\ pending'[d] = pending[d]
      BY <2>2, <2>4 DEF TypeOK
    <3> QED
      BY <2>1, <2>2, <3>1 DEF Session, InMap
  <2> QED
    BY <2>3, <2>4
<1>13. ASSUME NEW c \in Conns, PeerReads(c) PROVE Sessions'
  <2> SUFFICES ASSUME NEW d \in Conns PROVE Session(d)'
    BY DEF Sessions
  <2>1. Session(c) /\ Session(d)
    BY DEF Sessions
  <2> DEFINE m == Head(out[c])
  <2>2. /\ conn[c] = "connected" /\ out[c] # <<>>
        /\ out' = [out EXCEPT ![c] = Tail(@)]
        /\ me' = [me EXCEPT ![c] = IF m.type = "greeting" THEN m.id ELSE @]
        /\ UNCHANGED <<phase, conn, pending, clients>>
    BY <1>13 DEF PeerReads
  <2>3. out[c] \in Seq(Messages) /\ m = out[c][1] /\ 1 \in DOMAIN out[c]
    BY <2>2 DEF TypeOK
  <2>4. CASE d = c
    <3>1. out'[c] = Tail(out[c]) /\ me'[c] = IF m.type = "greeting" THEN m.id ELSE me[c]
      BY <2>2 DEF TypeOK
    <3>2. \A i \in DOMAIN Tail(out[c]) :
            i + 1 \in DOMAIN out[c] /\ Tail(out[c])[i] = out[c][i + 1]
      BY <2>2, <2>3
    <3>3. phase \notin {"done", "threw"} => (me'[c] # NoId => me'[c] = clients[c])
      BY <2>1, <2>3, <3>1 DEF Session
    <3>4. phase \notin {"done", "threw"} => \A i \in DOMAIN out'[c] :
            out'[c][i].type = "greeting" => out'[c][i].id = clients[c]
      BY <2>1, <3>1, <3>2 DEF Session
    <3> QED
      BY <2>1, <2>2, <2>4, <3>3, <3>4 DEF Session, InMap
  <2>5. CASE d # c
    <3>1. out'[d] = out[d] /\ me'[d] = me[d]
      BY <2>2, <2>5 DEF TypeOK
    <3> QED
      BY <2>1, <2>2, <3>1 DEF Session, InMap
  <2> QED
    BY <2>4, <2>5
<1>14. ASSUME NEW c \in Conns, NEW type \in {"coords", "shoot"}, PeerSends(c, type)
       PROVE  Sessions'
  BY <1>14, <1>1 DEF PeerSends
<1> QED
  BY <1>2, <1>3, <1>4, <1>5, <1>6, <1>7, <1>8, <1>9, <1>10, <1>11, <1>12, <1>13,
     <1>14, <1>15 DEF Next, ServerStep, PeerStep, Terminated

-----------------------------------------------------------------------------
(* RequestsNameOwnPlayer is inductive, given Sessions.                      *)
LEMMA RequestsStep == TypeOK /\ Sessions /\ RequestsNameOwnPlayer /\ [Next]_vars
                        => RequestsNameOwnPlayer'
<1> SUFFICES ASSUME TypeOK, Sessions, RequestsNameOwnPlayer, [Next]_vars
             PROVE  RequestsNameOwnPlayer'
  OBVIOUS
<1> USE DEF entities, redis, peers
<1> DEFINE Own(c) == \A i \in DOMAIN inbox[c] :
                       InMap(c) /\ inbox[c][i].id = clients[c]
<1>1. \A c \in Conns : Own(c)
  BY DEF RequestsNameOwnPlayer
<1>2. ASSUME UNCHANGED <<inbox, clients>> PROVE RequestsNameOwnPlayer'
  BY <1>2 DEF RequestsNameOwnPlayer, InMap
<1>3. ASSUME NEW c \in Conns, inbox[c] # <<>>,
             inbox' = [inbox EXCEPT ![c] = Tail(@)], UNCHANGED clients
      PROVE  RequestsNameOwnPlayer'
  <2> SUFFICES ASSUME NEW d \in Conns PROVE Own(d)'
    BY DEF RequestsNameOwnPlayer
  <2>1. CASE d = c
    <3>1. inbox[c] \in Seq(Requests) /\ inbox'[c] = Tail(inbox[c])
      BY <1>3 DEF TypeOK
    <3>2. \A i \in DOMAIN Tail(inbox[c]) :
            i + 1 \in DOMAIN inbox[c] /\ Tail(inbox[c])[i] = inbox[c][i + 1]
      BY <1>3, <3>1
    <3> QED
      BY <1>1, <1>3, <2>1, <3>1, <3>2 DEF InMap
  <2>2. CASE d # c
    BY <1>1, <1>3, <2>2 DEF InMap, TypeOK
  <2> QED
    BY <2>1, <2>2
<1>4. CASE Shutdown
  <2> SUFFICES ASSUME NEW c \in Conns PROVE Own(c)'
    BY DEF RequestsNameOwnPlayer
  <2>1. inbox'[c] = <<>>
    BY <1>4 DEF Shutdown
  <2> QED
    BY <2>1
<1>5. ASSUME NEW c \in Conns, ProcessCoords(c) \/ ProcessShoot(c)
      PROVE  RequestsNameOwnPlayer'
  BY <1>5, <1>3 DEF ProcessCoords, ProcessShoot
<1>6. ASSUME NEW c \in Conns, OnConnecting(c) PROVE RequestsNameOwnPlayer'
  <2> SUFFICES ASSUME NEW d \in Conns PROVE Own(d)'
    BY DEF RequestsNameOwnPlayer
  <2>1. ~InMap(c)
    BY <1>6 DEF OnConnecting, Sessions, Session
  <2>2. DOMAIN inbox[c] = {}
    BY <1>1, <2>1
  <2>3. inbox' = inbox
    BY <1>6 DEF OnConnecting
  <2>4. d # c => clients'[d] = clients[d]
    BY <1>6 DEF OnConnecting, TypeOK
  <2> QED
    BY <1>1, <2>2, <2>3, <2>4 DEF InMap
<1>7. ASSUME NEW c \in Conns, inbox' = [inbox EXCEPT ![c] = <<>>],
             \A d \in Conns \ {c} : clients'[d] = clients[d]
      PROVE  RequestsNameOwnPlayer'
  <2> SUFFICES ASSUME NEW d \in Conns PROVE Own(d)'
    BY DEF RequestsNameOwnPlayer
  <2>1. CASE d = c
    <3>1. inbox'[c] = <<>>
      BY <1>7 DEF TypeOK
    <3> QED
      BY <2>1, <3>1
  <2>2. CASE d # c
    BY <1>1, <1>7, <2>2 DEF InMap, TypeOK
  <2> QED
    BY <2>1, <2>2
<1>8. ASSUME NEW c \in Conns, OnRefused(c) PROVE RequestsNameOwnPlayer'
  BY <1>8, <1>7 DEF OnRefused, Close
<1>9. ASSUME NEW c \in Conns, OnClosed(c) PROVE RequestsNameOwnPlayer'
  <2>1. \/ UNCHANGED <<inbox, clients>>
        \/ /\ inbox' = [inbox EXCEPT ![c] = <<>>]
           /\ clients' = [clients EXCEPT ![c] = NoId]
    BY <1>9 DEF OnClosed, TakeOut, Close
  <2> QED
    BY <2>1, <1>2, <1>7 DEF TypeOK
<1>10. ASSUME NEW c \in Conns, NEW type \in {"coords", "shoot"}, PeerSends(c, type)
       PROVE  RequestsNameOwnPlayer'
  <2> SUFFICES ASSUME NEW d \in Conns PROVE Own(d)'
    BY DEF RequestsNameOwnPlayer
  <2> DEFINE r == [type |-> type, id |-> me[c]]
  <2>1. /\ inbox' = [inbox EXCEPT ![c] = Append(@, r)]
        /\ r.id = me[c]
        /\ conn[c] = "connected" /\ me[c] # NoId
        /\ phase \notin {"done", "threw"}
        /\ UNCHANGED clients
    BY <1>10 DEF PeerSends, Running, Ended
  <2>2. InMap(c) /\ r.id = clients[c]
    BY <2>1 DEF Sessions, Session
  <2> HIDE DEF r
  <2>3. CASE d = c
    <3>1. inbox[c] \in Seq(Requests) /\ inbox'[c] = Append(inbox[c], r)
      BY <2>1 DEF TypeOK
    <3>2. \A i \in DOMAIN Append(inbox[c], r) :
            \/ Append(inbox[c], r)[i] = r
            \/ i \in DOMAIN inbox[c] /\ Append(inbox[c], r)[i] = inbox[c][i]
      BY <3>1
    <3> QED
      BY <1>1, <2>1, <2>2, <2>3, <3>1, <3>2 DEF InMap
  <2>4. CASE d # c
    BY <1>1, <2>1, <2>4 DEF InMap, TypeOK
  <2> QED
    BY <2>3, <2>4
<1>11. CASE UNCHANGED vars
  BY <1>11, <1>2 DEF vars
<1>12. CASE Start \/ BeginTick \/ Stop \/ EndReceive \/ EndCallbacks
  BY <1>12, <1>2 DEF Start, BeginTick, Stop, EndReceive, EndCallbacks
<1>13. ASSUME NEW b \in bullets, BulletHits(b) \/ BulletFlies(b)
       PROVE  RequestsNameOwnPlayer'
  BY <1>13, <1>2 DEF BulletHits, BulletFlies
<1>14. ASSUME NEW p \in players, PlayerMoves(p) PROVE RequestsNameOwnPlayer'
  BY <1>14, <1>2 DEF PlayerMoves
<1>15. CASE EndBullets \/ EndPlayers
  BY <1>15, <1>2 DEF EndBullets, EndPlayers
<1>16. ASSUME NEW c \in Conns, PeerOpens(c) \/ PeerLeaves(c) \/ PeerReads(c)
       PROVE  RequestsNameOwnPlayer'
  BY <1>16, <1>2 DEF PeerOpens, PeerLeaves, PeerReads
<1> QED
  BY <1>4, <1>5, <1>6, <1>8, <1>9, <1>10, <1>11, <1>12, <1>13, <1>14, <1>15, <1>16
     DEF Next, ServerStep, PeerStep, Terminated

-----------------------------------------------------------------------------
(* The entities: Kinds, IssuedBefore and PlayersAreClients are inductive    *)
(* together.                                                                *)

(* The id a stray closure destroys is that of the first wall.               *)
LEMMA ZeroIsWall == ZeroId \in WallIds
BY ConstantsAssumption DEF ZeroId, WallIds

(* create() returns no id that exists, nor that of a wall.                  *)
LEMMA NewId ==
  ASSUME TypeOK, IssuedBefore, NEW x \in Creatable(Valid, issued)
  PROVE  /\ x \in Ids
         /\ x \notin Valid \cup WallIds
         /\ \A y \in Valid \cup WallIds \cup {x} :
              SlotOf(y) \in Slots /\ VersionOf(y) < Issue(issued, x)[SlotOf(y)]
<1>1. x \in Ids /\ SlotOf(x) \in Slots /\ VersionOf(x) = issued[SlotOf(x)]
  BY CreatableIsId DEF TypeOK
<1>2. /\ \A s \in Slots : Issue(issued, x)[s] >= issued[s]
      /\ Issue(issued, x)[SlotOf(x)] = issued[SlotOf(x)] + 1
      /\ issued \in [Slots -> Nat]
      /\ Issue(issued, x) \in [Slots -> Nat]
  BY <1>1, IssueType DEF TypeOK
<1>3. x \notin Valid \cup WallIds
  BY <1>1, <1>2 DEF IssuedBefore
<1>4. \A y \in Valid \cup WallIds : VersionOf(y) \in Nat
  BY WorldIds DEF Ids, VersionOf, Valid, TypeOK
<1> QED
  BY <1>1, <1>2, <1>3, <1>4 DEF IssuedBefore

Entities == Kinds /\ IssuedBefore /\ PlayersAreClients

LEMMA EntitiesStep == TypeOK /\ Sessions /\ RequestsNameOwnPlayer /\ Entities
                        /\ [Next]_vars => Entities'
<1> SUFFICES ASSUME TypeOK, Sessions, RequestsNameOwnPlayer, Entities, [Next]_vars
             PROVE  Entities'
  OBVIOUS
<1> USE DEF entities, redis, peers
<1>1. ASSUME UNCHANGED <<entities, clients>> PROVE Entities'
  BY <1>1 DEF Entities, Kinds, IssuedBefore, PlayersAreClients, InMap, Valid,
              Circles, BulletIds
<1>2. ASSUME NEW c \in Conns, ProcessShoot(c) PROVE Entities'
  <2>1. PICK b \in Creatable(Valid, issued) :
          /\ issued' = Issue(issued, b)
          /\ \/ bullets' = bullets \cup {[id |-> b, shooter |-> Head(inbox[c]).id]}
             \/ bullets' = bullets
    BY <1>2 DEF ProcessShoot
  <2>2. UNCHANGED <<walls, players, clients>>
    BY <1>2 DEF ProcessShoot
  <2>3. BulletIds' \subseteq BulletIds \cup {b}
    BY <2>1 DEF BulletIds
  <2>4. b \notin players \cup WallIds
    BY <2>1, NewId DEF Entities, Valid, Circles
  <2>5. Kinds'
    BY <2>2, <2>3, <2>4 DEF Entities, Kinds
  <2>6. IssuedBefore'
    BY <2>1, <2>2, <2>3, NewId DEF Entities, IssuedBefore, Valid, Circles
  <2>7. PlayersAreClients'
    BY <2>2 DEF Entities, PlayersAreClients, InMap
  <2> QED
    BY <2>5, <2>6, <2>7 DEF Entities
<1>3. ASSUME NEW c \in Conns, OnConnecting(c) PROVE Entities'
  <2>1. PICK p \in Creatable(Valid, issued) :
          /\ issued' = Issue(issued, p)
          /\ players' = players \cup {p}
          /\ clients' = [clients EXCEPT ![c] = p]
    BY <1>3 DEF OnConnecting
  <2>2. UNCHANGED <<walls, bullets>> /\ ~InMap(c)
    BY <1>3 DEF OnConnecting, Sessions, Session
  <2>3. BulletIds' = BulletIds
    BY <2>2 DEF BulletIds
  <2>4. p \notin players \cup WallIds \cup BulletIds /\ p # NoId
    BY <2>1, NewId, ConstantsAssumption DEF Entities, Valid, Circles
  <2>5. Kinds'
    BY <2>1, <2>2, <2>3, <2>4 DEF Entities, Kinds
  <2>6. IssuedBefore'
    BY <2>1, <2>2, <2>3, NewId DEF Entities, IssuedBefore, Valid, Circles
  <2>7. PlayersAreClients'
    <3>1. \A d \in Conns : clients'[d] = IF d = c THEN p ELSE clients[d]
      BY <2>1 DEF TypeOK
    <3>2. \A d \in Conns : clients[d] # p
      BY <2>4 DEF Entities, PlayersAreClients, InMap
    <3>3. \A d \in Conns : clients[d] \in players => d # c
      BY <2>2, ConstantsAssumption DEF InMap, TypeOK
    <3> QED
      BY <2>1, <2>4, <3>1, <3>2, <3>3 DEF Entities, PlayersAreClients, InMap
  <2> QED
    BY <2>5, <2>6, <2>7 DEF Entities
<1>4. ASSUME NEW c \in Conns, OnClosed(c) PROVE Entities'
  <2> DEFINE id == IF InMap(c) THEN clients[c] ELSE ZeroId
  <2>1. CASE UNCHANGED <<entities, clients>>
    BY <2>1, <1>1
  <2>2. CASE Destroy(id) /\ clients' = [clients EXCEPT ![c] = NoId] /\ UNCHANGED issued
    <3>1. BulletIds' \subseteq BulletIds
      BY <2>2 DEF Destroy, BulletIds
    <3>2. walls' \subseteq walls /\ players' = players \ {id}
      BY <2>2 DEF Destroy
    <3>3. Kinds' /\ IssuedBefore'
      BY <2>2, <3>1, <3>2 DEF Entities, Kinds, IssuedBefore, Valid, Circles
    <3>4. \A d \in Conns : clients'[d] = IF d = c THEN NoId ELSE clients[d]
      BY <2>2 DEF TypeOK
    <3>7. NoId \notin players
      BY ConstantsAssumption DEF TypeOK
    <3>8. \A d \in Conns : clients'[d] # NoId => d # c /\ clients'[d] = clients[d]
      BY <3>4
    <3>5. ASSUME InMap(c) PROVE PlayersAreClients'
      <4>1. players' = players \ {clients[c]}
        BY <3>2, <3>5
      <4>2. \A d \in Conns : InMap(d)' => clients'[d] \in players'
        BY <3>5, <3>8, <4>1 DEF Entities, PlayersAreClients, InMap
      <4>3. \A d, e \in Conns : InMap(d)' /\ clients'[d] = clients'[e] => d = e
        BY <3>8 DEF Entities, PlayersAreClients, InMap
      <4>4. \A p \in players' : \E d \in Conns : clients'[d] = p
        BY <3>4, <4>1 DEF Entities, PlayersAreClients, InMap
      <4> QED
        BY <4>2, <4>3, <4>4 DEF PlayersAreClients
    <3>6. ASSUME ~InMap(c) PROVE PlayersAreClients'
      <4>1. players' = players /\ clients[c] = NoId
        BY <3>2, <3>6, ZeroIsWall DEF Entities, Kinds, InMap
      <4>2. \A d \in Conns : clients'[d] = clients[d]
        BY <3>4, <4>1
      <4> QED
        BY <4>1, <4>2 DEF Entities, PlayersAreClients, InMap
    <3> QED
      BY <3>3, <3>5, <3>6 DEF Entities
  <2> QED
    BY <1>4, <2>1, <2>2 DEF OnClosed, TakeOut
<1>5. ASSUME NEW b \in bullets, BulletHits(b) PROVE Entities'
  <2>1. Destroy(b.id) /\ UNCHANGED <<issued, clients>>
    BY <1>5 DEF BulletHits
  <2>2. b.id \in BulletIds
    BY DEF BulletIds
  <2>3. walls' = walls /\ players' = players /\ BulletIds' \subseteq BulletIds
    BY <2>1, <2>2 DEF Destroy, Entities, Kinds, BulletIds
  <2> QED
    BY <2>1, <2>3 DEF Entities, Kinds, IssuedBefore, PlayersAreClients, InMap,
                      Valid, Circles
<1>6. CASE UNCHANGED vars
  BY <1>6, <1>1 DEF vars
<1>7. CASE Start \/ BeginTick \/ Stop \/ EndReceive \/ EndCallbacks
  BY <1>7, <1>1 DEF Start, BeginTick, Stop, EndReceive, EndCallbacks
<1>8. CASE Shutdown \/ EndBullets \/ EndPlayers
  BY <1>8, <1>1 DEF Shutdown, EndBullets, EndPlayers
<1>9. ASSUME NEW c \in Conns, ProcessCoords(c) \/ OnRefused(c) PROVE Entities'
  BY <1>9, <1>1 DEF ProcessCoords, OnRefused
<1>10. ASSUME NEW b \in bullets, BulletFlies(b) PROVE Entities'
  BY <1>10, <1>1 DEF BulletFlies
<1>11. ASSUME NEW p \in players, PlayerMoves(p) PROVE Entities'
  BY <1>11, <1>1 DEF PlayerMoves
<1>12. ASSUME NEW c \in Conns,
              PeerOpens(c) \/ PeerLeaves(c) \/ PeerReads(c)
              \/ \E type \in {"coords", "shoot"} : PeerSends(c, type)
       PROVE  Entities'
  BY <1>12, <1>1 DEF PeerOpens, PeerLeaves, PeerReads, PeerSends
<1> QED
  BY <1>2, <1>3, <1>4, <1>5, <1>6, <1>7, <1>8, <1>9, <1>10, <1>11, <1>12
     DEF Next, ServerStep, PeerStep, Terminated

-----------------------------------------------------------------------------
(* StrayDamage is inductive, given what the requests name.                  *)
LEMMA StrayDamageStep == TypeOK /\ RequestsNameOwnPlayer /\ Entities
                           /\ StrayDamage /\ [Next]_vars => StrayDamage'
<1> SUFFICES ASSUME TypeOK, RequestsNameOwnPlayer, Entities, StrayDamage, [Next]_vars
             PROVE  StrayDamage'
  OBVIOUS
<1> USE DEF entities, redis, peers
<1>1. ASSUME UNCHANGED <<walls, strays>>, phase' = phase \/ phase' # "crashed"
      PROVE  StrayDamage'
  BY <1>1 DEF StrayDamage, WallIds
<1>2. ASSUME NEW c \in Conns, inbox[c] # <<>> PROVE Head(inbox[c]).id \in Circles
  <2>1. inbox[c] \in Seq(Requests) /\ 1 \in DOMAIN inbox[c]
        /\ Head(inbox[c]) = inbox[c][1]
    BY <1>2 DEF TypeOK
  <2>2. InMap(c) /\ Head(inbox[c]).id = clients[c]
    BY <2>1 DEF RequestsNameOwnPlayer
  <2> QED
    BY <2>2 DEF Entities, PlayersAreClients, Circles
<1>3. ASSUME NEW c \in Conns, ProcessCoords(c) PROVE StrayDamage'
  BY <1>3, <1>2, <1>1 DEF ProcessCoords
<1>4. ASSUME NEW c \in Conns, ProcessShoot(c) PROVE StrayDamage'
  BY <1>4, <1>2, <1>1 DEF ProcessShoot
<1>5. ASSUME NEW c \in Conns, OnClosed(c) PROVE StrayDamage'
  <2> DEFINE id == IF InMap(c) THEN clients[c] ELSE ZeroId
  <2>1. /\ strays' = IF InMap(c) THEN strays ELSE strays + 1
        /\ phase = "callbacks"
        /\ \/ id \in Valid /\ walls' = walls \ {id} /\ phase' \in {phase, "threw"}
           \/ id \notin Valid /\ walls' = walls /\ phase' = "crashed"
    BY <1>5 DEF OnClosed, Destroy, Crash, CountInRedis, RedisThrows
  <2>2. strays \in Nat /\ ZeroId \in WallIds
    BY ZeroIsWall DEF TypeOK
  <2>3. CASE InMap(c)
    <3>1. id \in players /\ id \in Valid /\ id \notin walls
      BY <2>3 DEF Entities, Kinds, PlayersAreClients, Valid, Circles
    <3> QED
      BY <1>1, <2>1, <2>3, <3>1
  <2>4. CASE ~InMap(c) /\ strays = 0
    <3>1. walls = WallIds /\ id = ZeroId /\ id \in Valid
      BY <2>2, <2>4 DEF StrayDamage, Valid
    <3>2. strays' = 1 /\ walls' = WallIds \ {ZeroId} /\ phase' # "crashed"
      BY <2>1, <2>4, <3>1
    <3> QED
      BY <3>2 DEF StrayDamage, WallIds
  <2>5. CASE ~InMap(c) /\ strays # 0
    <3>1. walls = WallIds \ {ZeroId} /\ walls' = walls
      BY <2>1, <2>5 DEF StrayDamage
    <3>2. strays' = strays + 1 /\ strays' >= 2
      BY <2>1, <2>2, <2>5
    <3> QED
      BY <2>2, <2>5, <3>1, <3>2 DEF StrayDamage, WallIds
  <2> QED
    BY <2>3, <2>4, <2>5
<1>6. ASSUME NEW b \in bullets, BulletHits(b) PROVE StrayDamage'
  <2>1. b.id \notin walls
    BY DEF Entities, Kinds, BulletIds
  <2> QED
    BY <1>6, <1>1, <2>1 DEF BulletHits, Destroy
<1>7. CASE UNCHANGED vars
  BY <1>7, <1>1 DEF vars
<1>8. CASE Start \/ BeginTick \/ Shutdown \/ Stop \/ EndReceive
  BY <1>8, <1>1 DEF Start, BeginTick, Shutdown, Stop, EndReceive, RedisThrows
<1>9. CASE EndCallbacks \/ EndBullets \/ EndPlayers
  BY <1>9, <1>1 DEF EndCallbacks, EndBullets, EndPlayers
<1>10. ASSUME NEW c \in Conns, OnConnecting(c) \/ OnRefused(c) PROVE StrayDamage'
  BY <1>10, <1>1 DEF OnConnecting, OnRefused, CountInRedis, RedisThrows
<1>11. ASSUME NEW b \in bullets, BulletFlies(b) PROVE StrayDamage'
  BY <1>11, <1>1 DEF BulletFlies
<1>12. ASSUME NEW p \in players, PlayerMoves(p) PROVE StrayDamage'
  BY <1>12, <1>1 DEF PlayerMoves
<1>13. ASSUME NEW c \in Conns,
              PeerOpens(c) \/ PeerLeaves(c) \/ PeerReads(c)
              \/ \E type \in {"coords", "shoot"} : PeerSends(c, type)
       PROVE  StrayDamage'
  BY <1>13, <1>1 DEF PeerOpens, PeerLeaves, PeerReads, PeerSends
<1> QED
  BY <1>3, <1>4, <1>5, <1>6, <1>7, <1>8, <1>9, <1>10, <1>11, <1>12, <1>13
     DEF Next, ServerStep, PeerStep, Terminated

-----------------------------------------------------------------------------
(* Counted is inductive.                                                    *)
Mapped == {c \in Conns : InMap(c)}

LEMMA CountedStep == TypeOK /\ Sessions /\ Counted /\ [Next]_vars => Counted'
<1> SUFFICES ASSUME TypeOK, Sessions, Counted, [Next]_vars PROVE Counted'
  OBVIOUS
<1> USE DEF entities, redis, peers
<1>1. IsFiniteSet(Mapped) /\ Cardinality(Mapped) \in Nat
  BY ConstantsAssumption, FS_Subset, FS_CardinalityType DEF Mapped
<1>2. ASSUME UNCHANGED <<clients, count, strays>>,
             phase' # "start" \/ phase' = phase,
             phase \notin Ended \/ phase' = phase
      PROVE  Counted'
  <2>1. Mapped' = Mapped
    BY <1>2 DEF Mapped, InMap
  <2> QED
    BY <1>2, <2>1 DEF Counted, Mapped, Ended
<1>16. ASSUME phase' \in Ended PROVE Counted'
  BY <1>16 DEF Counted, Ended
<1>3. CASE Start
  <2>1. count = 0 /\ phase \notin Ended
    BY <1>3 DEF Start, Counted, Ended
  <2>2. phase' # "start" /\ UNCHANGED <<clients, count, strays>>
    BY <1>3, <2>1 DEF Start, RedisThrows
  <2> QED
    BY <2>1, <2>2, <1>2
<1>4. ASSUME NEW c \in Conns, OnConnecting(c) PROVE Counted'
  <2>1. PICK p \in Creatable(Valid, issued) : clients' = [clients EXCEPT ![c] = p]
    BY <1>4 DEF OnConnecting
  <2>2. p # NoId
    BY <2>1, CreatableIsId, ConstantsAssumption DEF TypeOK
  <2>3. c \notin Mapped
    BY <1>4 DEF OnConnecting, Sessions, Session, Mapped
  <2>4. Mapped' = Mapped \cup {c}
    BY <2>1, <2>2 DEF Mapped, InMap, TypeOK
  <2>5. Cardinality(Mapped') = Cardinality(Mapped) + 1
    BY <1>1, <2>3, <2>4, FS_AddElement
  <2>6. strays' = strays /\ phase = "callbacks"
    BY <1>4 DEF OnConnecting
  <2>7. CASE count' = count + 1 /\ phase' = phase
    <3>1. count' = Cardinality(Mapped') - strays'
      BY <1>1, <2>5, <2>6, <2>7 DEF Counted, Mapped, TypeOK, Ended
    <3> QED
      BY <2>6, <2>7, <3>1 DEF Counted, Mapped
  <2>8. CASE RedisThrows
    BY <1>16, <2>8 DEF RedisThrows, Ended
  <2> QED
    BY <1>4, <2>7, <2>8 DEF OnConnecting, CountInRedis
<1>5. ASSUME NEW c \in Conns, OnClosed(c) PROVE Counted'
  <2>1. CASE phase' \in Ended
    BY <2>1, <1>16
  <2>2. CASE /\ clients' = [clients EXCEPT ![c] = NoId]
             /\ count' = count - 1
             /\ UNCHANGED phase
    <3>1. phase = "callbacks" /\ strays' = IF InMap(c) THEN strays ELSE strays + 1
      BY <1>5 DEF OnClosed
    <3>2. Mapped' = Mapped \ {c}
      BY <2>2 DEF Mapped, InMap, TypeOK
    <3>3. Cardinality(Mapped') = IF c \in Mapped THEN Cardinality(Mapped) - 1
                                 ELSE Cardinality(Mapped)
      BY <1>1, <3>2, FS_RemoveElement
    <3>4. count = Cardinality(Mapped) - strays
      BY <3>1 DEF Counted, Mapped, Ended
    <3>5. count' = Cardinality(Mapped') - strays'
      <4>1. c \in Mapped <=> InMap(c)
        BY DEF Mapped
      <4>2. count \in Int /\ strays \in Nat
        BY DEF TypeOK
      <4> QED
        BY <1>1, <2>2, <3>1, <3>3, <3>4, <4>1, <4>2
    <3> QED
      BY <2>2, <3>1, <3>5 DEF Counted, Mapped
  <2> QED
    BY <1>5, <2>1, <2>2 DEF OnClosed, TakeOut, Crash, CountInRedis, RedisThrows, Ended
<1>6. ASSUME NEW c \in Conns,
             ProcessCoords(c) \/ ProcessShoot(c) \/ OnRefused(c)
      PROVE  Counted'
  BY <1>6, <1>2 DEF ProcessCoords, ProcessShoot, OnRefused, Crash, Ended
<1>7. CASE UNCHANGED vars
  BY <1>7, <1>2 DEF vars
<1>8. CASE BeginTick \/ Shutdown \/ Stop \/ EndReceive
  BY <1>8, <1>2 DEF BeginTick, Shutdown, Stop, EndReceive, RedisThrows, Ended
<1>9. CASE EndCallbacks \/ EndBullets \/ EndPlayers
  BY <1>9, <1>2 DEF EndCallbacks, EndBullets, EndPlayers, Ended
<1>10. ASSUME NEW b \in bullets, BulletHits(b) \/ BulletFlies(b) PROVE Counted'
  BY <1>10, <1>2 DEF BulletHits, BulletFlies
<1>11. ASSUME NEW p \in players, PlayerMoves(p) PROVE Counted'
  BY <1>11, <1>2 DEF PlayerMoves
<1>12. ASSUME NEW c \in Conns,
              PeerOpens(c) \/ PeerLeaves(c) \/ PeerReads(c)
              \/ \E type \in {"coords", "shoot"} : PeerSends(c, type)
       PROVE  Counted'
  BY <1>12, <1>2 DEF PeerOpens, PeerLeaves, PeerReads, PeerSends
<1> QED
  BY <1>3, <1>4, <1>5, <1>6, <1>7, <1>8, <1>9, <1>10, <1>11, <1>12
     DEF Next, ServerStep, PeerStep, Terminated

-----------------------------------------------------------------------------
(* The invariant, and what it implies.                                      *)
LEMMA InitIInv == Init => IInv
<1> SUFFICES ASSUME Init PROVE IInv
  OBVIOUS
<1>1. TypeOK
  BY InitType
<1>2. Sessions
  <2> SUFFICES ASSUME NEW c \in Conns PROVE Session(c)
    BY DEF Sessions
  <2>1. /\ pending[c] = {} /\ conn[c] = "idle" /\ clients[c] = NoId
        /\ out[c] = <<>> /\ me[c] = NoId
    BY DEF Init
  <2> QED
    BY <2>1 DEF Session, InMap
<1>3. RequestsNameOwnPlayer
  <2>1. \A c \in Conns : inbox[c] = <<>>
    BY DEF Init
  <2> QED
    BY <2>1 DEF RequestsNameOwnPlayer
<1>4. walls = WallIds /\ players = {} /\ BulletIds = {}
  BY DEF Init, BulletIds
<1>5. Kinds
  BY <1>4 DEF Kinds
<1>6. IssuedBefore
  <2>1. Valid \cup WallIds = WallIds
    BY <1>4 DEF Valid, Circles
  <2>2. ASSUME NEW x \in WallIds
        PROVE  SlotOf(x) \in Slots /\ VersionOf(x) < issued[SlotOf(x)]
    <3>1. PICK s \in 0 .. WallCount - 1 : x = <<s, 0>>
      BY <2>2 DEF WallIds
    <3>2. s \in Slots /\ s < WallCount
      BY ConstantsAssumption
    <3>3. issued[s] = 1
      BY <3>2 DEF Init
    <3> QED
      BY <3>1, <3>2, <3>3 DEF SlotOf, VersionOf
  <2> QED
    BY <2>1, <2>2 DEF IssuedBefore
<1>7. \A c \in Conns : ~InMap(c)
  BY DEF Init, InMap
<1>8. PlayersAreClients
  BY <1>4, <1>7 DEF PlayersAreClients
<1>9. StrayDamage
  BY DEF Init, StrayDamage
<1>10. Counted
  <2>1. {c \in Conns : InMap(c)} = {}
    BY <1>7
  <2>2. count = 0 /\ strays = 0
    BY DEF Init
  <2> QED
    BY <2>1, <2>2, FS_EmptySet DEF Counted
<1> QED
  BY <1>1, <1>2, <1>3, <1>5, <1>6, <1>8, <1>9, <1>10 DEF IInv

LEMMA IInvStep == IInv /\ [Next]_vars => IInv'
BY TypeStep, SessionsStep, RequestsStep, EntitiesStep, StrayDamageStep, CountedStep
   DEF IInv, Entities

LEMMA Invariance == Spec => []IInv
BY InitIInv, IInvStep, PTL DEF Spec

(* Every player is steered by exactly one connection and every connection   *)
(* in the map steers a player (GameServer.cpp:289-293, 328-349).            *)
THEOREM PlayersAlwaysClients == Spec => []PlayersAreClients
<1>1. IInv => PlayersAreClients
  BY DEF IInv
<1> QED
  BY <1>1, Invariance, PTL

(* No request ever names an entity other than its sender's own player       *)
(* (GameServer.cpp:107-123).                                                *)
THEOREM RequestsAlwaysOwn == Spec => []RequestsNameOwnPlayer
<1>1. IInv => RequestsNameOwnPlayer
  BY DEF IInv
<1> QED
  BY <1>1, Invariance, PTL

(* The first closure of a connection that was never accepted costs a wall,  *)
(* the server fails an assertion only after a second one, and nothing else  *)
(* destroys a wall or fails an assertion (GameServer.cpp:289-293).          *)
THEOREM OnlyStraysDamage == Spec => []StrayDamage
<1>1. IInv => StrayDamage
  BY DEF IInv
<1> QED
  BY <1>1, Invariance, PTL

(* The advertised player count is off by exactly the stray closures         *)
(* (GameServer.cpp:296, 350).                                               *)
THEOREM CountAlwaysAccounted == Spec => []CountAccounting
<1>1. IInv => CountAccounting
  BY DEF IInv, Counted, CountAccounting, Running
<1> QED
  BY <1>1, Invariance, PTL
=============================================================================
