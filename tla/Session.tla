------------------------------- MODULE Session -------------------------------
(***************************************************************************)
(* The life of one client (client/src/main.cpp, NetworkClient.cpp and the  *)
(* constructor and destructor of Scene): ask the entry server for a room,  *)
(* connect to it, wait for the greeting in a task, build the scene, start  *)
(* the polling thread, draw frames, and take everything down again.        *)
(* The entry server and the room are what the client sees of them: either  *)
(* may answer late or be lost at any moment, also before it has answered.  *)
(***************************************************************************)
EXTENDS Naturals, Sequences

CONSTANTS
  NetworkError,  \* the message OnConnectionStatusChanged makes up
  MaxEvents      \* bound: messages the room sends after the greeting

ASSUME SessionAssumption ==
  /\ MaxEvents \in Nat
  /\ NetworkError \notin Nat

VARIABLES
  \* the main thread
  main,      \* where it is
  sceneAlive,\* Scene::m_Alive
  options,   \* Scene::m_Options: the defaults or those of the session
  speed,     \* the options the main player was built from
  queue,     \* m_MessageQueue
  shown,     \* history: what frames have taken from the queue
  \* the task of ConnectToGameServer and the polling thread
  greeter,   \* where the task is
  thread,    \* where the thread is
  hand,      \* the message it has received and not yet delivered
  alive,     \* NetworkClient::m_Alive
  \* the library
  entry,     \* the connection to the entry server
  reply,     \* the entry server's answer on it
  conn,      \* m_Connection, to the room
  feed,      \* the room's messages that have not been received
  sent,      \* messages the room has sent after the greeting
  greeted,   \* it has sent the greeting
  changes,   \* status changes that RunCallbacks has not dispatched, in any order
  lost       \* history: connections that were lost

scene == <<sceneAlive, options, speed, queue, shown>>
client == <<greeter, thread, hand, alive>>
toEntry == <<entry, reply>>
toRoom == <<conn, feed, sent, greeted>>
library == <<toEntry, toRoom, changes, lost>>
vars == <<main, scene, client, library>>

Greeting == 0                      \* the others are numbered as they are sent
Messages == 0 .. MaxEvents
Changes == [of : {"entry", "room"}, to : {"connected", "lost"}]

Waiting == main \in {"finding", "greeting"}
TakenDown == main \in {"closing", "stopping", "joining"}
Ended == main \in {"exited", "crashed"}

TypeOK ==
  /\ main \in {"start", "finding", "connecting", "greeting", "built", "playing",
               "closing", "stopping", "joining", "exited", "crashed"}
  /\ sceneAlive \in BOOLEAN
  /\ options \in {"default", "session"}
  /\ speed \in {"none", "default", "session"}
  /\ queue \in Seq(Messages \cup {NetworkError})
  /\ shown \in Seq(Messages \cup {NetworkError})
  /\ greeter \in {"none", "waiting", "done"}
  /\ thread \in {"none", "top", "poll", "receive", "deliver", "dispatch", "ended"}
  /\ hand \in Seq(Messages)
  /\ IF thread = "deliver" THEN Len(hand) = 1 ELSE hand = <<>>
  /\ alive \in BOOLEAN
  /\ entry \in {"none", "open", "lost", "closed"}
  /\ reply \in {"none", "room", "incomplete"}
  /\ conn \in {"none", "open", "lost", "closed"}
  /\ feed \in Seq(Messages)
  /\ sent \in 0 .. MaxEvents
  /\ greeted \in BOOLEAN
  /\ changes \subseteq Changes
  /\ lost \subseteq {"entry", "room"}

Init ==
  /\ main = "start"
  /\ sceneAlive = TRUE
  /\ options = "default" /\ speed = "none"
  /\ queue = <<>> /\ shown = <<>>
  /\ greeter = "none" /\ thread = "none" /\ hand = <<>>
  /\ alive = TRUE
  /\ entry = "none" /\ reply = "none"
  /\ conn = "none" /\ feed = <<>> /\ sent = 0 /\ greeted = FALSE
  /\ changes = {} /\ lost = {}

-----------------------------------------------------------------------------
(* The servers and the network.                                             *)
Changed(of, to) == changes' = changes \cup {[of |-> of, to |-> to]}

(* The entry server accepts the client and sends it one room - once it has  *)
(* one - or, from a map that is incomplete, one without an address          *)
(* (Discovery!AnswersAreRooms).                                             *)
EntryAnswers ==
  /\ entry = "open" /\ reply = "none"
  /\ reply' \in {"room", "incomplete"}
  /\ Changed("entry", "connected")
  /\ UNCHANGED <<main, scene, client, entry, toRoom, lost>>

EntryLost ==
  /\ entry = "open"
  /\ entry' = "lost"
  /\ Changed("entry", "lost")
  /\ lost' = lost \cup {"entry"}
  /\ UNCHANGED <<main, scene, client, reply, toRoom>>

(* The room accepts and greets.                                             *)
RoomGreets ==
  /\ conn = "open" /\ ~greeted
  /\ greeted' = TRUE
  /\ feed' = Append(feed, Greeting)
  /\ Changed("room", "connected")
  /\ UNCHANGED <<main, scene, client, toEntry, conn, sent, lost>>

RoomSends ==
  /\ conn = "open" /\ greeted /\ sent < MaxEvents
  /\ sent' = sent + 1
  /\ feed' = Append(feed, sent')
  /\ UNCHANGED <<main, scene, client, toEntry, conn, greeted, changes, lost>>

(* The room ends, is unreachable, or has been dead all along.  What has     *)
(* arrived can still be received.                                           *)
RoomLost ==
  /\ conn = "open"
  /\ conn' = "lost"
  /\ Changed("room", "lost")
  /\ lost' = lost \cup {"room"}
  /\ UNCHANGED <<main, scene, client, toEntry, feed, sent, greeted>>

(* CloseConnection: whether the library still dispatches the changes of a   *)
(* closed handle is left open.                                              *)
Forget(of) ==
  \/ UNCHANGED changes
  \/ changes' = {ch \in changes : ch.of # of}

-----------------------------------------------------------------------------
(* The main thread.                                                         *)

(* main has no handler for what FindFreeRoom and Scene throw.               *)
Crash == main' = "crashed"

(* FindFreeRoom: connect and wait for a message, for ever.                  *)
AskEntry ==
  /\ main = "start"
  /\ main' = "finding"
  /\ entry' = "open"
  /\ UNCHANGED <<scene, client, reply, toRoom, changes, lost>>

(* An answer without "ip" throws.                                           *)
FindFreeRoom ==
  /\ main = "finding" /\ reply # "none"
  /\ IF reply = "room"
     THEN main' = "connecting" /\ entry' = "closed" /\ Forget("entry")
     ELSE Crash /\ UNCHANGED <<entry, changes>>
  /\ UNCHANGED <<scene, client, reply, toRoom, lost>>

(* Nothing has come: sleep, and look again.  The task looks without a sleep.*)
LookAgain ==
  /\ \/ main = "finding" /\ reply = "none"
     \/ greeter = "waiting" /\ feed = <<>>
  /\ UNCHANGED vars

(* ConnectToGameServer and SetMessageCallback; an address that cannot be    *)
(* connected to throws.                                                     *)
ConnectAndRun ==
  /\ main = "connecting"
  /\ main' = "greeting" /\ conn' = "open"
  /\ greeter' = "waiting" /\ thread' = "top"
  /\ UNCHANGED <<scene, hand, alive, toEntry, feed, sent, greeted, changes, lost>>

ConnectToGameServer ==
  /\ main = "connecting"
  /\ \/ main' = "greeting" /\ conn' = "open" /\ greeter' = "waiting"
     \/ Crash /\ UNCHANGED <<conn, greeter>>
  /\ UNCHANGED <<scene, thread, hand, alive, toEntry, feed, sent, greeted,
                 changes, lost>>

(* The task: receive until it is the greeting, and drop what is not.        *)
AwaitAnythingElse ==
  /\ greeter = "waiting" /\ alive /\ feed # <<>>
  /\ greeter' = IF Head(feed) = Greeting THEN "waiting" ELSE "done"
  /\ feed' = Tail(feed)
  /\ UNCHANGED <<main, scene, thread, hand, alive, toEntry, conn, sent, greeted,
                 changes, lost>>

AwaitGreeting ==
  /\ greeter = "waiting" /\ alive /\ feed # <<>>
  /\ greeter' = IF Head(feed) = Greeting THEN "done" ELSE "waiting"
  /\ feed' = Tail(feed)
  /\ UNCHANGED <<main, scene, thread, hand, alive, toEntry, conn, sent, greeted,
                 changes, lost>>

(* gameStateFuture.get() returns; the objects are built with m_Options as   *)
(* it is, and then m_Options becomes the session's.  AddObject's assertion  *)
(* fails when the greeting names two objects in one slot (GameServer.cpp:388*)
(* after GameServer!StrayDamage).                                           *)
BuildScene ==
  /\ main = "greeting" /\ greeter = "done"
  /\ \/ main' = "built" /\ speed' = options /\ options' = "session"
     \/ Crash /\ UNCHANGED <<speed, options>>
  /\ UNCHANGED <<sceneAlive, queue, shown, client, library>>

Run ==
  /\ main = "built"
  /\ main' = "playing"
  /\ thread' = "top"
  /\ UNCHANGED <<scene, greeter, hand, alive, library>>

(* One iteration of main's loop: what Scene::Update does with the queue.    *)
(* What the room has sent may fail in it: AddObject's assertion, or the     *)
(* removal of an id that is not valid (Scene!ProcessConnection, DeleteOne). *)
Frame ==
  /\ main = "playing" /\ sceneAlive
  /\ \/ /\ queue' = <<>>
        /\ shown' = shown \o queue
        /\ sceneAlive' = ~\E i \in DOMAIN queue : queue[i] = NetworkError
        /\ UNCHANGED main
     \/ /\ \E i \in DOMAIN queue : queue[i] \in Messages
        /\ Crash
        /\ UNCHANGED <<queue, shown, sceneAlive>>
  /\ UNCHANGED <<options, speed, client, library>>

(* The window is closed, or the scene is not alive.  ~Scene has destroyed   *)
(* the mutex and the queue when it comes to m_NetworkClient.                *)
Close ==
  /\ main = "playing"
  /\ main' = "closing"
  /\ queue' = <<>>
  /\ UNCHANGED <<sceneAlive, options, speed, shown, client, library>>

(* ~NetworkClient: m_Alive, CloseConnection, join.                          *)
StopThread ==
  /\ main = "closing"
  /\ main' = "stopping"
  /\ alive' = FALSE
  /\ UNCHANGED <<scene, greeter, thread, hand, library>>

CloseConnection ==
  /\ main = "stopping"
  /\ main' = "joining"
  /\ conn' = "closed"
  /\ feed' = <<>>
  /\ Forget("room")
  /\ UNCHANGED <<scene, client, toEntry, sent, greeted, lost>>

Join ==
  /\ main = "joining" /\ thread = "ended"
  /\ main' = "exited"
  /\ UNCHANGED <<scene, client, library>>

-----------------------------------------------------------------------------
(* The polling thread.                                                      *)
Goto(from, to) == thread = from /\ thread' = to

(* while (m_Alive), in Run                                                  *)
CheckAlive ==
  /\ Goto("top", IF alive THEN "poll" ELSE "ended")
  /\ UNCHANGED <<main, scene, greeter, hand, alive, library>>

(* while (m_Alive), in PollIncomingMessages                                 *)
CheckAliveAgain ==
  /\ Goto("poll", IF alive THEN "receive" ELSE "dispatch")
  /\ UNCHANGED <<main, scene, greeter, hand, alive, library>>

(* RecieveMessage: a closed handle makes it throw, and nothing catches it.  *)
RecieveUnchecked ==
  /\ conn # "closed"
  /\ Goto("receive", "deliver")
  /\ \/ feed = <<>> /\ UNCHANGED <<hand, feed>>
     \/ feed # <<>> /\ hand' = <<Head(feed)>> /\ feed' = Tail(feed)
  /\ UNCHANGED <<main, scene, greeter, alive, toEntry, conn, sent, greeted,
                 changes, lost>>

RecieveMessage ==
  /\ conn # "closed"
  /\ \/ feed = <<>> /\ Goto("receive", "dispatch") /\ UNCHANGED <<hand, feed>>
     \/ /\ feed # <<>> /\ Goto("receive", "deliver")
        /\ hand' = <<Head(feed)>> /\ feed' = Tail(feed)
  /\ UNCHANGED <<main, scene, greeter, alive, toEntry, conn, sent, greeted,
                 changes, lost>>

RecieveThrows ==
  /\ conn = "closed" /\ Goto("receive", "ended")
  /\ Crash
  /\ UNCHANGED <<scene, greeter, hand, alive, library>>

(* The message callback locks m_MQMutex and pushes.  Once ~Scene is running *)
(* it uses destroyed objects: anything from nothing to a crash.             *)
Push(m) ==
  IF TakenDown THEN main' \in {main, "crashed"} /\ UNCHANGED queue
  ELSE queue' = Append(queue, m) /\ UNCHANGED main

Deliver ==
  /\ Goto("deliver", "poll")
  /\ Push(hand[1])
  /\ hand' = <<>>
  /\ UNCHANGED <<sceneAlive, options, speed, shown, greeter, alive, library>>

(* RunCallbacks, one callback: a connection that is over, whichever of the  *)
(* two it is, ends the session; other changes are not looked at.            *)
OnLossSilently ==
  /\ thread = "dispatch"
  /\ \E ch \in changes : ch.to = "lost" /\ changes' = changes \ {ch}
  /\ alive' = FALSE
  /\ UNCHANGED <<main, scene, greeter, thread, hand, toEntry, toRoom, lost>>

OnLossByClosing ==
  /\ thread = "dispatch"
  /\ \E ch \in changes : ch.to = "lost" /\ changes' = changes \ {ch}
  /\ conn' = "closed" /\ feed' = <<>>
  /\ UNCHANGED <<main, scene, client, toEntry, sent, greeted, lost>>

OnLoss ==
  /\ thread = "dispatch"
  /\ \E ch \in changes : ch.to = "lost" /\ changes' = changes \ {ch}
  /\ alive' = FALSE
  /\ Push(NetworkError)
  /\ UNCHANGED <<sceneAlive, options, speed, shown, greeter, thread, hand,
                 toEntry, toRoom, lost>>

OnOtherAsLoss ==
  /\ thread = "dispatch"
  /\ \E ch \in changes : ch.to = "connected" /\ changes' = changes \ {ch}
  /\ alive' = FALSE
  /\ Push(NetworkError)
  /\ UNCHANGED <<sceneAlive, options, speed, shown, greeter, thread, hand,
                 toEntry, toRoom, lost>>

OnOther ==
  /\ thread = "dispatch"
  /\ \E ch \in changes : ch.to = "connected" /\ changes' = changes \ {ch}
  /\ UNCHANGED <<main, scene, client, toEntry, toRoom, lost>>

EndCallbacks ==
  /\ changes = {}
  /\ Goto("dispatch", "top")
  /\ UNCHANGED <<main, scene, greeter, hand, alive, library>>

Terminated == Ended /\ UNCHANGED vars

-----------------------------------------------------------------------------
NetworkStep == EntryAnswers \/ EntryLost \/ RoomGreets \/ RoomSends \/ RoomLost

MainStep ==
  \/ AskEntry \/ FindFreeRoom \/ ConnectToGameServer \/ BuildScene \/ Run
  \/ Frame \/ Close \/ StopThread \/ CloseConnection \/ Join

ThreadStep ==
  \/ CheckAlive \/ CheckAliveAgain \/ RecieveMessage \/ RecieveThrows \/ Deliver
  \/ OnLoss \/ OnOther \/ EndCallbacks

Next ==
  \/ ~Ended /\ (NetworkStep \/ MainStep \/ LookAgain \/ AwaitGreeting \/ ThreadStep)
  \/ Terminated

Spec == Init /\ [][Next]_vars

(* Both threads and the task keep running, a scene that is not alive is     *)
(* closed, and a room greets on a connection that is not lost               *)
(* (GameServer!StateChangesAreHandled).  The entry server need not answer:  *)
(* while there is no room it keeps the client waiting on an open connection *)
(* (EntryServer.cpp:131-155).  Nobody need close the window, and nothing    *)
(* need be lost.                                                            *)
MainGoesOn ==
  \/ AskEntry \/ FindFreeRoom \/ ConnectToGameServer \/ BuildScene \/ Run
  \/ Frame \/ (~sceneAlive /\ Close) \/ StopThread \/ CloseConnection \/ Join

FairSpec ==
  /\ Spec
  /\ WF_vars(~Ended /\ MainGoesOn)
  /\ WF_vars(~Ended /\ AwaitGreeting)
  /\ WF_vars(~Ended /\ ThreadStep)
  /\ WF_vars(~Ended /\ RoomGreets)

-----------------------------------------------------------------------------
(* Properties.                                                              *)

Handed == shown \o queue \o hand

Following(n, all) == [i \in 1 .. all - n |-> n + i]
Unread == IF greeted /\ greeter # "done" THEN <<Greeting>> ELSE <<>>

\* Of all messages the first n are handed over, and then errors; the others
\* wait, after the ones before them.
FlowsAt(n, all, handed, before, waiting) ==
  /\ n <= Len(handed)
  /\ \A i \in DOMAIN handed : handed[i] = IF i <= n THEN i ELSE NetworkError
  /\ waiting = before \o Following(n, all)

(* Every message goes where it is meant to: the greeting to the task, never *)
(* to the polling thread, and all that follow it to the scene, once and in  *)
(* order and before any error, although the task and the thread receive     *)
(* from the same connection ("dot't intercept greeting", Scene.cpp:71;      *)
(* NetworkClient.cpp:77-92, 206-213).                                       *)
StreamReachesScene ==
  ~TakenDown /\ ~Ended =>
    /\ greeter # "done" => Handed = <<>>
    /\ \E n \in 0 .. sent : FlowsAt(n, sent, Handed, Unread, feed)

(* What crashes a client: what it throws before it has a room; the room's   *)
(* own messages, in the greeting or in a frame that holds one; and, while   *)
(* it is taken down, a polling thread that is still running and uses the    *)
(* scene's queue or the connection (Scene.hpp:44, 76-89; Scene.cpp:100;     *)
(* NetworkClient.cpp:17-20, 126-129, 189).  Never a loss, the error that    *)
(* tells of it, or the polling thread of a client that plays.               *)
OnlyRoomsCrashPlay ==
  [][main' = "crashed" =>
       \/ main \in {"finding", "connecting"}
       \/ main = "greeting" /\ greeter = "done"
       \/ /\ main = "playing" /\ thread' = thread
          /\ \E i \in DOMAIN queue : queue[i] \in Messages
       \/ TakenDown /\ thread # "ended"]_vars

(* A session is ended from within only after a loss: of the room, or of the *)
(* entry server before the client was done with it, whose change is         *)
(* dispatched to the same callback (NetworkClient.cpp:216-230).             *)
EndsOnlyOfLoss ==
  ~sceneAlive \/ (~alive /\ main = "playing") => lost # {}

(* A client waits for ever only for an entry server that never answers, as  *)
(* it never does when no room comes up, or for a room it has lost before it *)
(* was greeted - which it cannot notice, as RunCallbacks is not called      *)
(* before Run (NetworkClient.cpp:75, 117, 241; EntryServer.cpp:131).        *)
WaitsOnlyForAnswers ==
  <>[]Waiting =>
    <>[](IF main = "finding" THEN reply = "none"
         ELSE conn = "lost" /\ ~greeted)

(* A session whose room is lost, or whose window is closed, ends, and its   *)
(* polling thread with it (NetworkClient.cpp:20, 224-228; main.cpp:77-80).  *)
SessionsEnd ==
  (main = "playing" /\ conn = "lost") \/ TakenDown ~> Ended

(* "Options for current session, recieved from server on connection"        *)
(* (SessionOptions.hpp:17): what a player is built from.                    *)
PlayerHasSessionOptions == main = "playing" => speed = "session"
=============================================================================
