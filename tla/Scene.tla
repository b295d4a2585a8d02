------------------------------- MODULE Scene -------------------------------
(***************************************************************************)
(* One client's scene (client/src/Scene.cpp): the main thread's frames,    *)
(* which work through m_MessageQueue under m_MQMutex and then remove what  *)
(* was marked, next to NetworkClient's polling thread, which fills that    *)
(* queue, and next to a server that goes on announcing and destroying      *)
(* entities.  The server is the one of GameServer as one peer sees it: a   *)
(* stream that announces an entity into a slot it has free and destroys or *)
(* moves only what it has announced.  Of the walls only the first is there,*)
(* which a stray closure destroys (GameServer!StrayDamage): the others keep*)
(* their slots.  Positions and drawing are left out.                       *)
(***************************************************************************)
EXTENDS Protocol, Sequences, FiniteSets, SequencesExt

CONSTANTS
  Main,        \* the id the greeting gave to this client's player
  MaxPast,     \* bound: the versions a slot had before this client connected
  MaxEvents,   \* bound: messages the server sends after the greeting
  MaxFeed      \* bound: messages on their way to the client

ASSUME SceneAssumption ==
  /\ MaxPast \in 0 .. MaxVersion
  /\ Main \in (Slots \ {SlotOf(ZeroId)}) \X (0 .. MaxPast)
  /\ MaxEvents \in Nat /\ MaxFeed \in Nat

VARIABLES
  \* the server, as this client's stream shows it
  world,     \* the entities it has announced and not destroyed
  issued,    \* how often it has issued each slot
  events,    \* messages it has sent
  reachable, \* the connection is up
  \* the polling thread
  feed,      \* messages sent and not yet received
  polling,   \* NetworkClient::m_Alive
  \* the scene
  queue,     \* m_MessageQueue
  pc,        \* where the main thread is
  it,        \* the iterator of ProcessMessages, as an index into queue
  ids,       \* m_Registry: the valid entities
  objects,   \* the keys of m_Objects
  marked,    \* m_MarkedForDeletion, what is left of it
  alive,     \* Scene::m_Alive
  ghosts     \* history: ids the scene has, or will have, and the server has not:
             \* marked before they were created, or a wall that was lost

server == <<world, issued, events, reachable>>
network == <<feed, polling>>
scene == <<ids, objects, marked, alive, ghosts>>
vars == <<server, network, queue, pc, it, scene>>

NetworkError == Message("network_error", Main)
SceneMessages ==
  [type : {"connection", "shoot", "destroy", "coords", "network_error"},
   id : Ids, world : {{}}]

Ended == pc \in {"closing", "exited", "asserted", "crashed"}

TypeOK ==
  /\ world \subseteq Ids
  /\ issued \in [Slots -> Nat]
  /\ events \in 0 .. MaxEvents
  /\ reachable \in BOOLEAN
  /\ feed \in Seq(SceneMessages)
  /\ polling \in BOOLEAN
  /\ queue \in Seq(SceneMessages)
  /\ pc \in {"idle", "processing", "deleting", "closing", "exited",
             "asserted", "crashed"}
  /\ pc = "processing" => it \in 1 .. Len(queue) + 1
  /\ ids \subseteq Ids
  /\ objects \subseteq Ids
  /\ marked \in Seq(Ids)
  /\ alive \in BOOLEAN
  /\ ghosts \subseteq Ids

-----------------------------------------------------------------------------
(* The constructor has built the main player, the wall and whatever else    *)
(* the greeting names, and has started the polling thread.  The server has  *)
(* opened its slots in order, the wall's first; what a slot was last issued *)
(* for may be gone.  A greeting names the wall even when the server has it  *)
(* no more; were its slot taken again, the constructor would fail           *)
(* (Session!BuildScene).                                                    *)
Init ==
  /\ issued \in [Slots -> 0 .. MaxPast + 1]
  /\ \A s, t \in Slots : issued[t] > 0 /\ s < t => issued[s] > 0
  /\ world \in SUBSET {<<s, issued[s] - 1>> : s \in {t \in Slots : issued[t] > 0}}
  /\ \A x \in world : SlotOf(x) = SlotOf(ZeroId) => x = ZeroId
  /\ Main \in world
  /\ events = 0
  /\ reachable = TRUE
  /\ feed = <<>>
  /\ polling = TRUE
  /\ queue = <<>>
  /\ pc = "idle"
  /\ it = 1
  /\ ghosts = {ZeroId} \ world
  /\ ids = world \cup ghosts
  /\ objects = ids
  /\ marked = <<>>
  /\ alive = TRUE

-----------------------------------------------------------------------------
(* The server's stream.                                                     *)
Send(m) ==
  /\ reachable /\ events < MaxEvents /\ Len(feed) < MaxFeed
  /\ events' = events + 1
  /\ feed' = Append(feed, m)
  /\ UNCHANGED <<reachable, polling, queue, pc, it, scene>>

ServerAnnounces(type) ==
  \E x \in Creatable(world, issued) :
    /\ world' = world \cup {x}
    /\ issued' = Issue(issued, x)
    /\ Send(Message(type, x))

(* The first wall too: OnClosed of a connection that was never accepted.    *)
(* What a server still sends when a second such closure makes it fail, a    *)
(* destroy of the wall that is gone already, is left out.                   *)
ServerDestroys(x) ==
  /\ x # Main
  /\ world' = world \ {x}
  /\ UNCHANGED issued
  /\ Send(Message("destroy", x))

ServerMoves(x) ==
  /\ x # ZeroId
  /\ UNCHANGED <<world, issued>>
  /\ Send(Message("coords", x))

ServerGone ==
  /\ reachable
  /\ reachable' = FALSE
  /\ UNCHANGED <<world, issued, events, network, queue, pc, it, scene>>

-----------------------------------------------------------------------------
(* The polling thread: PollIncomingMessages and OnConnectionStatusChanged   *)
(* push through the message callback, which takes m_MQMutex.                *)
MutexFree == pc \in {"idle", "deleting"}

PollMessage ==
  /\ polling /\ MutexFree /\ feed # <<>>
  /\ queue' = Append(queue, Head(feed))
  /\ feed' = Tail(feed)
  /\ UNCHANGED <<server, polling, pc, it, scene>>

ConnectionLost ==
  /\ polling /\ MutexFree /\ ~reachable
  /\ polling' = FALSE
  /\ queue' = Append(queue, NetworkError)
  /\ UNCHANGED <<server, feed, pc, it, scene>>

(* ~Scene destroys the mutex and the queue before the NetworkClient, whose  *)
(* thread may still call back: whatever that does, the queue is gone.       *)
PollWhileClosing ==
  /\ polling /\ pc = "closing" /\ (feed # <<>> \/ ~reachable)
  /\ feed' = IF feed # <<>> THEN Tail(feed) ELSE feed
  /\ polling' = (feed # <<>>)
  /\ pc' \in {"closing", "crashed"}
  /\ UNCHANGED <<server, queue, it, scene>>

-----------------------------------------------------------------------------
(* A frame of the main thread: Scene::Update.                               *)
BeginFrame ==
  /\ pc = "idle" /\ alive
  /\ pc' = "processing"
  /\ it' = 1
  /\ UNCHANGED <<server, network, queue, scene>>

(* ProcessIncomingMessage returned true: `it = m_MessageQueue.erase(it)`.   *)
AdvanceWithoutErase ==
  /\ it' = it + 1
  /\ UNCHANGED queue

EraseAndAdvance ==
  /\ queue' = RemoveAt(queue, it)
  /\ it' = it + 1

Consumed ==
  /\ queue' = RemoveAt(queue, it)
  /\ UNCHANGED it

(* It returned false: the message is left to hang.                          *)
LeftToHang ==
  /\ it' = it + 1
  /\ UNCHANGED queue

Current(type) ==
  pc = "processing" /\ it <= Len(queue) /\ queue[it].type = type

(* Coordinates of an entity that is not valid are skipped.                  *)
ProcessCoords ==
  /\ Current("coords")
  /\ Consumed
  /\ UNCHANGED <<server, network, pc, scene>>

(* AddObject asks the registry for this very id and asserts it got it.      *)
AddObject(id) ==
  /\ ~HintRefused(ids, id)
  /\ ids' = ids \cup {id}
  /\ objects' = objects \cup {id}

ProcessConnection ==
  LET id == queue[it].id IN
  /\ Current("connection")
  /\ \/ AddObject(id) /\ Consumed /\ UNCHANGED pc
     \/ /\ HintRefused(ids, id)
        /\ pc' = "asserted"
        /\ UNCHANGED <<queue, it, ids, objects>>
  /\ UNCHANGED <<server, network, marked, alive, ghosts>>

(* A "shoot" whose slot is taken is not an error but waits.                 *)
ProcessShootOrDrop ==
  LET id == queue[it].id IN
  /\ Current("shoot")
  /\ Consumed
  /\ \/ AddObject(id)
     \/ HintRefused(ids, id) /\ UNCHANGED <<ids, objects>>
  /\ UNCHANGED <<server, network, pc, marked, alive, ghosts>>

ProcessShoot ==
  LET id == queue[it].id IN
  /\ Current("shoot")
  /\ \/ AddObject(id) /\ Consumed
     \/ HintRefused(ids, id) /\ LeftToHang /\ UNCHANGED <<ids, objects>>
  /\ UNCHANGED <<server, network, pc, marked, alive, ghosts>>

(* RemoveObject: the entity stays until the frame's messages are done.      *)
ProcessDestroy ==
  /\ Current("destroy")
  /\ marked' = Append(marked, queue[it].id)
  /\ Consumed
  /\ UNCHANGED <<server, network, pc, ids, objects, alive, ghosts>>

ProcessNetworkErrorByLogging ==
  /\ Current("network_error")
  /\ Consumed
  /\ UNCHANGED <<server, network, pc, scene>>

ProcessNetworkError ==
  /\ Current("network_error")
  /\ alive' = FALSE
  /\ Consumed
  /\ UNCHANGED <<server, network, pc, ids, objects, marked, ghosts>>

(* The lock is released; the player's input is sent.                        *)
EndProcessing ==
  /\ pc = "processing" /\ it > Len(queue)
  /\ pc' = "deleting"
  /\ UNCHANGED <<server, network, queue, it, scene>>

(* "remove queued objects": destroying an id that is not valid is an error  *)
(* the registry may or may not detect.                                      *)
EraseObjectOnly ==
  /\ pc = "deleting" /\ marked # <<>>
  /\ marked' = Tail(marked)
  /\ objects' = objects \ {Head(marked)}
  /\ UNCHANGED <<server, network, queue, pc, it, ids, alive, ghosts>>

DestroyEntityOnly ==
  /\ pc = "deleting" /\ marked # <<>>
  /\ marked' = Tail(marked)
  /\ ids' = ids \ {Head(marked)}
  /\ UNCHANGED <<server, network, queue, pc, it, objects, alive, ghosts>>

DeleteOne ==
  LET id == Head(marked) IN
  /\ pc = "deleting" /\ marked # <<>>
  /\ marked' = Tail(marked)
  /\ ids' = ids \ {id}
  /\ objects' = objects \ {id}
  /\ ghosts' = IF id \in ids THEN ghosts ELSE ghosts \cup {id}
  /\ pc' \in IF id \in ids THEN {pc} ELSE {pc, "crashed"}
  /\ UNCHANGED <<server, network, queue, it, alive>>

EndFrame ==
  /\ pc = "deleting" /\ marked = <<>>
  /\ pc' = "idle"
  /\ UNCHANGED <<server, network, queue, it, scene>>

(* The window is closed, or the scene is no longer alive: ~Scene.           *)
Close ==
  /\ pc = "idle"
  /\ pc' = "closing"
  /\ queue' = <<>>
  /\ UNCHANGED <<server, network, it, scene>>

(* ~NetworkClient: m_Alive is cleared and the polling thread joined.        *)
JoinThread ==
  /\ pc = "closing"
  /\ pc' = "exited"
  /\ polling' = FALSE
  /\ UNCHANGED <<server, feed, queue, it, scene>>

Terminated ==
  /\ pc \in {"exited", "asserted", "crashed"}
  /\ UNCHANGED vars

-----------------------------------------------------------------------------
ServerStep ==
  \/ \E type \in {"connection", "shoot"} : ServerAnnounces(type)
  \/ \E x \in world : ServerDestroys(x) \/ ServerMoves(x)
  \/ ServerGone

PollStep == PollMessage \/ ConnectionLost \/ PollWhileClosing

ProcessOne ==
  \/ ProcessCoords \/ ProcessConnection \/ ProcessShoot
  \/ ProcessDestroy \/ ProcessNetworkError

FrameStep ==
  BeginFrame \/ ProcessOne \/ EndProcessing \/ DeleteOne \/ EndFrame

Next ==
  \/ ~Ended /\ ServerStep
  \/ PollStep \/ FrameStep \/ Close \/ JoinThread \/ Terminated

Spec == Init /\ [][Next]_vars

(* The main thread keeps drawing frames; a scene that is no longer alive is *)
(* closed, and the polling thread is joined.                                *)
FairSpec ==
  /\ Spec
  /\ WF_vars(FrameStep) /\ WF_vars(~alive /\ Close) /\ WF_vars(JoinThread)

-----------------------------------------------------------------------------
(* Properties.                                                              *)

AddedBy(stream) == UNION {Adds(m) : m \in ToSet(stream)}
DroppedBy(stream) == UNION {Drops(m) : m \in ToSet(stream)}

(* What the scene draws, once everything on its way is applied, is the      *)
(* server's world and the ghosts: no message is lost between the socket,    *)
(* the queue, the messages left to hang and the two-phase deletion          *)
(* (Scene.cpp:97-103, 115-131, 163-194).                                    *)
NothingIsLost ==
  ~Ended =>
    (objects \cup AddedBy(queue) \cup AddedBy(feed))
      \ (ToSet(marked) \cup DroppedBy(queue) \cup DroppedBy(feed))
    = world \cup ghosts

(* An entity is marked for deletion once and while it exists, unless it is  *)
(* a shot whose creation still hangs in the queue (Scene.cpp:97-102, 172,   *)
(* 219-222).                                                                *)
OnlyHungShotsAreDeletedUnborn ==
  ~Ended =>
    /\ \A i, j \in DOMAIN marked : marked[i] = marked[j] => i = j
    /\ \A id \in ToSet(marked) \ ids : Message("shoot", id) \in ToSet(queue)

(* A slot that is asked for and taken is taken by an entity the same frame  *)
(* has marked, or by a ghost, never by one that lives on the server         *)
(* (Scene.hpp:43-44, Scene.cpp:167-174).                                    *)
OnlyDoomedOccupantsBlock ==
  pc = "processing" /\ it <= Len(queue) =>
    \A x \in Adds(queue[it]) : \A y \in ids :
      SlotOf(x) = SlotOf(y) => y \in ToSet(marked) \cup ghosts

(* The only coordinates "just skipped" are of an entity whose creation is   *)
(* hanging (Scene.cpp:143-147, 163-174).                                    *)
OnlyHungCoordsAreSkipped ==
  Current("coords") /\ queue[it].id \notin ids =>
    \E i \in 1 .. it - 1 : queue[i] = Message("shoot", queue[it].id)

(* What Scene.hpp:44 asserts: the registry grants the id the server chose - *)
(* even where no ghost is in the way.                                       *)
AddObjectIsGranted ==
  pc = "asserted" => \E g \in ghosts : SlotOf(g) = SlotOf(queue[it].id)

(* A shot left to hang is shown in the end, unless a ghost has its slot: a  *)
(* shot whose destruction overtook it, itself or another, or the wall that  *)
(* the server had lost before this client came (Scene.cpp:126-128, 172;     *)
(* GameServer.cpp:289, 388).                                                *)
HungShotsAppear ==
  \A x \in Ids :
    (\E i \in DOMAIN queue : queue[i] = Message("shoot", x))
      ~> \/ x \in ids
         \/ \E g \in ghosts : SlotOf(g) = SlotOf(x)
         \/ Ended

(* A client whose server is gone closes (Scene.cpp:195-199, main.cpp:77).   *)
LostConnectionEnds == ~polling ~> Ended
=============================================================================
