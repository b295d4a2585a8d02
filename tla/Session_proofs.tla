--------------------------- MODULE Session_proofs ---------------------------
(***************************************************************************)
(* What Session promises of a client that plays, for any number of         *)
(* messages.  The theorems rest on one inductive invariant, whose parts    *)
(* say when the connection is closed, what a loss leaves behind, how far   *)
(* the two threads and the task have got with respect to one another, and  *)
(* which messages are in which hands.                                      *)
(***************************************************************************)
EXTENDS Session, SequenceTheorems, TLAPS

Events == Messages \cup {NetworkError}

(* The connection is closed, and m_Alive cleared without a loss, by         *)
(* ~NetworkClient alone.                                                    *)
Closings ==
  /\ conn = "closed" => main \in {"joining", "exited", "crashed"}
  /\ alive \/ lost # {} \/ main \in {"stopping", "joining", "exited", "crashed"}

(* Every trace of a loss is one.                                            *)
Losses ==
  /\ \A ch \in changes : ch.to = "lost" => lost # {}
  /\ \A i \in DOMAIN queue : queue[i] = NetworkError => lost # {}
  /\ sceneAlive \/ lost # {}

(* The thread runs from Run on, only then is there anything in the scene's  *)
(* queue, and it receives nothing more once m_Alive is cleared.             *)
Phases ==
  ~TakenDown /\ ~Ended =>
    /\ thread = "none" <=> main # "playing"
    /\ thread = "none" => shown = <<>> /\ queue = <<>>
    /\ main \in {"start", "finding", "connecting"} => greeter = "none"
    /\ main \in {"built", "playing"} => greeter = "done"
    /\ ~greeted => sent = 0 /\ greeter # "done"
    /\ ~alive => thread \in {"top", "dispatch", "ended"}

(* StreamReachesScene, and no error while the thread still receives.        *)
Flow ==
  \E n \in 0 .. sent :
    /\ FlowsAt(n, sent, Handed, Unread, feed)
    /\ alive => n = Len(Handed)

Streaming ==
  ~TakenDown /\ ~Ended => Flow /\ (greeter # "done" => Handed = <<>>)

IInv == TypeOK /\ Closings /\ Losses /\ Phases /\ Streaming

-----------------------------------------------------------------------------
(* The numbers of messages.                                                 *)
LEMMA MessageFacts ==
  /\ Greeting \in Messages
  /\ NetworkError \notin Messages
  /\ \A n \in 0 .. MaxEvents : n < MaxEvents => n + 1 \in Messages
BY SessionAssumption DEF Greeting, Messages

(* What Push does to the queue.                                             *)
LEMMA PushFacts ==
  ASSUME NEW m \in Events, Push(m), queue \in Seq(Events)
  PROVE  /\ queue' \in Seq(Events)
         /\ \A i \in DOMAIN queue' :
              queue'[i] = m \/ (i \in DOMAIN queue /\ queue'[i] = queue[i])
         /\ main' \in {main, "crashed"}
         /\ main' = "crashed" => main = "crashed" \/ TakenDown
<1>1. CASE TakenDown
  BY <1>1 DEF Push
<1>2. CASE ~TakenDown
  BY <1>2 DEF Push
<1>3. QED
  BY <1>1, <1>2

-----------------------------------------------------------------------------
(* The messages in hand and on their way.                                   *)

LEMMA HandFacts ==
  ASSUME TypeOK, thread = "deliver"
  PROVE  hand \in Seq(Messages) /\ hand[1] \in Messages /\ hand = <<hand[1]>>
<1>1. hand \in Seq(Messages) /\ Len(hand) = 1
  BY DEF TypeOK
<1>2. 1 \in 1 .. Len(hand)
  BY <1>1
<1>3. hand[1] \in Messages
  BY <1>1, <1>2, ElementOfSeq
<1> DEFINE s == <<hand[1]>>
<1>4. s \in Seq(Messages) /\ Len(s) = 1 /\ s[1] = hand[1]
  BY <1>3
<1> HIDE DEF s
<1>5. \A i \in 1 .. Len(hand) : hand[i] = s[i]
  BY <1>1, <1>4
<1>6. hand = s
  BY <1>1, <1>4, <1>5, SeqEqual
<1> QED
  BY <1>1, <1>3, <1>6 DEF s

LEMMA FollowingFacts ==
  ASSUME NEW n \in Nat, NEW all \in Nat, n <= all
  PROVE  /\ Following(n, all) \in Seq(Nat)
         /\ Len(Following(n, all)) = all - n
         /\ \A i \in 1 .. all - n : Following(n, all)[i] = n + i
BY DEF Following

(* The room sends one more.                                                 *)
LEMMA FollowingGrows ==
  ASSUME NEW n \in Nat, NEW all \in Nat, n <= all
  PROVE  Append(Following(n, all), all + 1) = Following(n, all + 1)
<1>1. /\ Following(n, all) \in Seq(Nat)
      /\ Len(Following(n, all)) = all - n
      /\ \A i \in 1 .. all - n : Following(n, all)[i] = n + i
  BY FollowingFacts
<1>2. /\ Following(n, all + 1) \in Seq(Nat)
      /\ Len(Following(n, all + 1)) = all + 1 - n
      /\ \A i \in 1 .. all + 1 - n : Following(n, all + 1)[i] = n + i
  BY FollowingFacts
<1> DEFINE s == Append(Following(n, all), all + 1)
<1>3. /\ s \in Seq(Nat) /\ Len(s) = all - n + 1
      /\ s[all - n + 1] = all + 1
      /\ \A i \in 1 .. all - n : s[i] = n + i
  BY <1>1, AppendProperties
<1> HIDE DEF s
<1>4. \A i \in 1 .. Len(s) : s[i] = Following(n, all + 1)[i]
  <2>1. SUFFICES ASSUME NEW i \in 1 .. Len(s) PROVE s[i] = n + i
    BY <1>2, <1>3
  <2>2. CASE i = all - n + 1
    BY <1>3, <2>2
  <2>3. CASE i # all - n + 1
    BY <1>3, <2>3
  <2> QED
    BY <2>2, <2>3
<1>5. s = Following(n, all + 1)
  BY <1>2, <1>3, <1>4, SeqEqual
<1> QED
  BY <1>5 DEF s

(* Somebody receives the first one.                                         *)
LEMMA FollowingShrinks ==
  ASSUME NEW n \in Nat, NEW all \in Nat, n <= all, Following(n, all) # <<>>
  PROVE  /\ n + 1 <= all
         /\ Head(Following(n, all)) = n + 1
         /\ Tail(Following(n, all)) = Following(n + 1, all)
<1> DEFINE s == Following(n, all)
<1>1. /\ s \in Seq(Nat)
      /\ Len(s) = all - n
      /\ \A i \in 1 .. all - n : s[i] = n + i
  BY FollowingFacts
<1>2. s # <<>>
  OBVIOUS
<1> HIDE DEF s
<1>3. Len(s) # 0
  BY <1>1, <1>2, EmptySeq
<1>4. n + 1 <= all
  BY <1>1, <1>3
<1> DEFINE t == Tail(s)
<1>5. /\ Head(s) = s[1] /\ t \in Seq(Nat) /\ Len(t) = all - (n + 1)
      /\ \A i \in 1 .. all - (n + 1) : t[i] = n + 1 + i
  BY <1>1, <1>2, HeadTailProperties
<1> HIDE DEF t
<1>6. /\ Following(n + 1, all) \in Seq(Nat)
      /\ Len(Following(n + 1, all)) = all - (n + 1)
      /\ \A i \in 1 .. all - (n + 1) : Following(n + 1, all)[i] = n + 1 + i
  <2>1. n + 1 \in Nat
    OBVIOUS
  <2> QED
    BY <1>4, <2>1, FollowingFacts
<1>7. \A i \in 1 .. Len(t) : t[i] = Following(n + 1, all)[i]
  BY <1>5, <1>6
<1>8. t = Following(n + 1, all)
  BY <1>5, <1>6, <1>7, SeqEqual
<1>9. Head(s) = n + 1
  BY <1>1, <1>4, <1>5
<1> QED
  BY <1>4, <1>8, <1>9 DEF s, t

(* The room sends: the message waits behind the others.                     *)
LEMMA FlowSends ==
  ASSUME NEW all \in Nat, NEW n \in 0 .. all, NEW h, NEW w, NEW b \in Seq(Nat),
         FlowsAt(n, all, h, b, w)
  PROVE  FlowsAt(n, all + 1, h, b, Append(w, all + 1))
<1>1. n \in Nat /\ n <= all
  OBVIOUS
<1>2. /\ Following(n, all) \in Seq(Nat)
      /\ Append(Following(n, all), all + 1) = Following(n, all + 1)
  BY <1>1, FollowingFacts, FollowingGrows
<1> DEFINE F == Following(n, all)
           last == <<all + 1>>
<1>3. F \in Seq(Nat) /\ last \in Seq(Nat) /\ b \o F \in Seq(Nat)
  BY <1>2
<1>4. (b \o F) \o last = b \o (F \o last)
  BY <1>3, ConcatAssociative
<1>5. Append(F, all + 1) = F \o last /\ Append(b \o F, all + 1) = (b \o F) \o last
  BY <1>3, all + 1 \in Nat, AppendIsConcat
<1>6. Append(w, all + 1) = b \o Following(n, all + 1)
  BY <1>2, <1>4, <1>5 DEF FlowsAt
<1> QED
  BY <1>6 DEF FlowsAt

(* The task takes the greeting, which is what it finds.                     *)
LEMMA FlowGreets ==
  ASSUME NEW all \in Nat, NEW n \in 0 .. all, NEW h, NEW w,
         FlowsAt(n, all, h, <<Greeting>>, w)
  PROVE  Head(w) = Greeting /\ FlowsAt(n, all, h, <<>>, Tail(w))
<1>1. n \in Nat /\ n <= all
  OBVIOUS
<1>2. Following(n, all) \in Seq(Nat)
  BY <1>1, FollowingFacts
<1>3. w = <<Greeting>> \o Following(n, all)
  BY DEF FlowsAt
<1>4. Greeting \in Nat
  BY DEF Greeting
<1>5. Head(w) = Greeting /\ Tail(w) = <<>> \o Following(n, all)
  BY <1>2, <1>3, <1>4
<1> QED
  BY <1>5 DEF FlowsAt

(* The thread receives the next message.                                    *)
LEMMA FlowHands ==
  ASSUME NEW all \in Nat, NEW n \in 0 .. all, NEW h \in Seq(Events), NEW w,
         FlowsAt(n, all, h, <<>>, w), n = Len(h), w # <<>>
  PROVE  /\ n + 1 \in 0 .. all
         /\ Head(w) = n + 1
         /\ FlowsAt(n + 1, all, Append(h, n + 1), <<>>, Tail(w))
<1>1. n \in Nat /\ n <= all
  OBVIOUS
<1>2. Following(n, all) \in Seq(Nat)
  BY <1>1, FollowingFacts
<1>3. w = Following(n, all)
  <2>1. w = <<>> \o Following(n, all)
    BY DEF FlowsAt
  <2> QED
    BY <1>2, <2>1
<1>4. /\ n + 1 <= all /\ Head(w) = n + 1
      /\ Tail(w) = Following(n + 1, all)
  BY <1>1, <1>3, FollowingShrinks
<1>5. Tail(w) = <<>> \o Following(n + 1, all)
  <2>1. n + 1 \in Nat
    BY <1>1
  <2>2. Following(n + 1, all) \in Seq(Nat)
    BY <1>4, <2>1, FollowingFacts
  <2> QED
    BY <1>4, <2>2
<1> DEFINE t == Append(h, n + 1)
<1>6. /\ Len(t) = n + 1 /\ DOMAIN t = 1 .. n + 1
      /\ DOMAIN h = 1 .. n
      /\ t[n + 1] = n + 1
      /\ \A i \in 1 .. n : t[i] = h[i]
  OBVIOUS
<1>7. \A i \in 1 .. n : h[i] = i
  BY <1>6 DEF FlowsAt
<1> HIDE DEF t
<1>8. n + 1 <= Len(t) /\ \A i \in DOMAIN t : t[i] = IF i <= n + 1 THEN i ELSE NetworkError
  BY <1>1, <1>6, <1>7
<1>9. FlowsAt(n + 1, all, t, <<>>, Tail(w))
  BY <1>5, <1>8 DEF FlowsAt
<1>10. n + 1 \in 0 .. all
  BY <1>1, <1>4
<1> QED
  BY <1>4, <1>9, <1>10 DEF t

(* An error comes after what was handed over.                               *)
LEMMA FlowFails ==
  ASSUME NEW n \in Nat, NEW all, NEW h \in Seq(Events), NEW w, NEW b,
         FlowsAt(n, all, h, b, w)
  PROVE  FlowsAt(n, all, Append(h, NetworkError), b, w)
<1> DEFINE t == Append(h, NetworkError)
           l == Len(h)
<1>1. /\ l \in Nat /\ DOMAIN h = 1 .. l
      /\ Len(t) = l + 1 /\ DOMAIN t = 1 .. l + 1
      /\ t[l + 1] = NetworkError
      /\ \A i \in 1 .. l : t[i] = h[i]
  OBVIOUS
<1> HIDE DEF t
<1>2. n <= l /\ \A i \in 1 .. l : h[i] = IF i <= n THEN i ELSE NetworkError
  BY <1>1 DEF FlowsAt
<1> HIDE DEF l
<1>3. n <= Len(t) /\ \A i \in DOMAIN t : t[i] = IF i <= n THEN i ELSE NetworkError
  BY <1>1, <1>2
<1> QED
  BY <1>3 DEF FlowsAt, t

-----------------------------------------------------------------------------
LEMMA InitIInv == Init => IInv
<1> SUFFICES ASSUME Init PROVE IInv
  OBVIOUS
<1>1. TypeOK
  <2>1. sent \in 0 .. MaxEvents
    BY SessionAssumption DEF Init
  <2>2. \A S : <<>> \in Seq(S) /\ Len(<<>>) = 0
    BY EmptySeq
  <2> QED
    BY <2>1, <2>2 DEF Init, TypeOK
<1>2. Closings /\ Losses /\ Phases
  BY DEF Init, Closings, Losses, Phases
<1>3. Handed = <<>> /\ Unread = <<>> /\ feed = <<>> /\ sent = 0
  BY DEF Init, Handed, Unread
<1>4. Following(0, 0) = <<>>
  <2>1. Following(0, 0) \in Seq(Nat) /\ Len(Following(0, 0)) = 0
    BY FollowingFacts
  <2> QED
    BY <2>1, EmptySeq
<1>5. FlowsAt(0, 0, <<>>, <<>>, <<>>)
  BY <1>4 DEF FlowsAt
<1>6. Flow
  <2>1. 0 \in 0 .. sent /\ FlowsAt(0, sent, Handed, Unread, feed) /\ 0 = Len(Handed)
    BY <1>3, <1>5
  <2> QED
    BY <2>1 DEF Flow
<1> QED
  BY <1>1, <1>2, <1>3, <1>6 DEF IInv, Streaming

(* A frame, and the building of the scene, end or crash.                    *)
FrameEnds ==
  /\ main = "playing"
  /\ queue' = <<>>
  /\ shown' = shown \o queue
  /\ sceneAlive' = ~\E i \in DOMAIN queue : queue[i] = NetworkError
  /\ sceneAlive
  /\ UNCHANGED <<main, options, speed, client, library>>

SceneBuilt ==
  /\ main = "greeting" /\ greeter = "done"
  /\ main' = "built" /\ speed' = options /\ options' = "session"
  /\ UNCHANGED <<sceneAlive, queue, shown, client, library>>

Fails == main' = "crashed" /\ UNCHANGED <<scene, client, library>>

LEMMA Outcomes ==
  /\ Frame => FrameEnds \/ Fails
  /\ BuildScene => SceneBuilt \/ Fails
BY DEF Frame, FrameEnds, BuildScene, SceneBuilt, Fails, Crash, scene

LEMMA TypeStep == IInv /\ [Next]_vars => TypeOK'
<1> SUFFICES ASSUME IInv, TypeOK, [Next]_vars PROVE TypeOK'
  BY DEF IInv
<1> USE MessageFacts DEF TypeOK
<1>1. CASE NetworkStep
  <2>1. CASE RoomGreets \/ RoomSends
    <3>1. sent' \in 0 .. MaxEvents
      BY <2>1, SessionAssumption DEF RoomGreets, RoomSends
    <3>2. \E m \in Messages : feed' = Append(feed, m)
      BY <2>1, <3>1 DEF RoomGreets, RoomSends, Messages
    <3>3. feed' \in Seq(Messages)
      BY <3>2, AppendProperties
    <3>4. changes' \subseteq Changes
      BY <2>1 DEF RoomGreets, RoomSends, Changed, Changes
    <3>5. UNCHANGED <<main, scene, client, toEntry, conn, lost>>
      BY <2>1 DEF RoomGreets, RoomSends
    <3>6. greeted' \in BOOLEAN
      BY <2>1 DEF RoomGreets, RoomSends
    <3> QED
      BY <3>1, <3>3, <3>4, <3>5, <3>6 DEF scene, client, toEntry
  <2>2. CASE EntryAnswers
    BY <2>2 DEF EntryAnswers, Changed, Changes, scene, client, toRoom
  <2>3. CASE EntryLost
    BY <2>3 DEF EntryLost, Changed, Changes, scene, client, toRoom
  <2>4. CASE RoomLost
    BY <2>4 DEF RoomLost, Changed, Changes, scene, client, toEntry
  <2> QED
    BY <1>1, <2>1, <2>2, <2>3, <2>4 DEF NetworkStep
<1>2. CASE MainStep
  <2>1. CASE AskEntry
    BY <2>1 DEF AskEntry, scene, client, toRoom
  <2>10. CASE FindFreeRoom
    BY <2>10 DEF FindFreeRoom, Crash, Forget, scene, client, toRoom
  <2>2. CASE ConnectToGameServer
    BY <2>2 DEF ConnectToGameServer, Crash, scene, toEntry
  <2>3. CASE FrameEnds
    <3>1. queue' = <<>> /\ shown' = shown \o queue /\ sceneAlive' \in BOOLEAN
          /\ UNCHANGED <<main, options, speed, client, library>>
      BY <2>3 DEF FrameEnds
    <3>2. shown' \in Seq(Events)
      BY <3>1, ConcatProperties DEF Events
    <3> QED
      BY <3>1, <3>2 DEF Events, client, library, toRoom, toEntry
  <2>4. CASE SceneBuilt
    BY <2>4 DEF SceneBuilt, client, library, toRoom, toEntry
  <2>11. CASE Fails
    BY <2>11 DEF Fails, scene, client, library, toRoom, toEntry
  <2>8. CASE StopThread
    <3>1. /\ main' = "stopping" /\ alive' \in BOOLEAN
          /\ UNCHANGED <<scene, greeter, thread, hand, library>>
      BY <2>8 DEF StopThread
    <3> QED
      BY <3>1 DEF scene, library, toRoom, toEntry
  <2>9. CASE Join
    BY <2>9 DEF Join, scene, client, library, toRoom, toEntry
  <2>7. CASE Run
    <3>1. thread # "deliver"
      BY <2>7 DEF Run, IInv, Phases, TakenDown, Ended
    <3> QED
      BY <2>7, <3>1 DEF Run, scene, library, toRoom, toEntry
  <2>5. CASE Close
    BY <2>5, EmptySeq DEF Close, client, library, toRoom, toEntry
  <2>6. CASE CloseConnection
    BY <2>6, EmptySeq DEF CloseConnection, Forget, scene, client, toEntry
  <2> QED
    BY <1>2, <2>1, <2>2, <2>3, <2>4, <2>5, <2>6, <2>7, <2>8, <2>9, <2>10, <2>11,
       Outcomes DEF MainStep
<1>3. CASE AwaitGreeting
  <2>1. feed' \in Seq(Messages)
    BY <1>3, HeadTailProperties DEF AwaitGreeting
  <2>2. greeter' \in {"none", "waiting", "done"}
    BY <1>3 DEF AwaitGreeting
  <2> QED
    BY <1>3, <2>1, <2>2 DEF AwaitGreeting, scene, toEntry
<1>4. CASE ThreadStep
  <2>1. CASE RecieveMessage
    <3>1. CASE feed = <<>>
      BY <2>1, <3>1 DEF RecieveMessage, Goto, scene, toEntry
    <3>2. CASE feed # <<>>
      <4>1. Head(feed) \in Messages /\ Tail(feed) \in Seq(Messages)
        BY <3>2, HeadTailProperties
      <4>2. hand' = <<Head(feed)>> /\ feed' = Tail(feed) /\ thread' = "deliver"
        BY <2>1, <3>2 DEF RecieveMessage, Goto
      <4>3. hand' \in Seq(Messages) /\ Len(hand') = 1
        BY <4>1, <4>2
      <4> QED
        BY <2>1, <4>1, <4>2, <4>3 DEF RecieveMessage, scene, toEntry
    <3> QED
      BY <3>1, <3>2
  <2>2. CASE Deliver
    <3>1. hand[1] \in Events
      BY <2>2, HandFacts DEF Deliver, Goto, Events
    <3>2. queue' \in Seq(Events) /\ main' \in {main, "crashed"}
      BY <2>2, <3>1, PushFacts DEF Deliver, Events
    <3>3. hand' \in Seq(Messages) /\ Len(hand') = 0 /\ thread' = "poll"
      BY <2>2, EmptySeq DEF Deliver, Goto
    <3> QED
      BY <2>2, <3>2, <3>3 DEF Deliver, Events, library, toRoom, toEntry
  <2>3. CASE OnLoss
    <3>1. queue' \in Seq(Events) /\ main' \in {main, "crashed"}
      BY <2>3, PushFacts DEF OnLoss, Events
    <3>2. changes' \subseteq Changes /\ alive' \in BOOLEAN
      BY <2>3 DEF OnLoss
    <3>3. UNCHANGED <<sceneAlive, options, speed, shown, greeter, thread, hand,
                      toEntry, toRoom, lost>>
      BY <2>3 DEF OnLoss
    <3> QED
      BY <3>1, <3>2, <3>3 DEF Events, toRoom, toEntry
  <2>4. CASE OnOther
    BY <2>4 DEF OnOther, scene, client, toRoom, toEntry
  <2>5. CASE CheckAlive \/ CheckAliveAgain \/ EndCallbacks
    <3>1. /\ thread # "deliver" /\ thread' # "deliver"
          /\ thread' \in {"top", "poll", "receive", "dispatch", "ended"}
          /\ UNCHANGED <<main, scene, greeter, hand, alive, library>>
      BY <2>5 DEF CheckAlive, CheckAliveAgain, EndCallbacks, Goto
    <3> QED
      BY <3>1 DEF scene, library, toRoom, toEntry
  <2>6. CASE RecieveThrows
    <3>1. /\ thread = "receive" /\ thread' = "ended" /\ main' = "crashed"
          /\ UNCHANGED <<scene, greeter, hand, alive, library>>
      BY <2>6 DEF RecieveThrows, Crash, Goto
    <3> QED
      BY <3>1 DEF scene, library, toRoom, toEntry
  <2> QED
    BY <1>4, <2>1, <2>2, <2>3, <2>4, <2>5, <2>6 DEF ThreadStep
<1>5. CASE UNCHANGED vars
  BY <1>5 DEF vars, scene, client, library, toRoom, toEntry
<1> QED
  BY <1>1, <1>2, <1>3, <1>4, <1>5 DEF Next, LookAgain, Terminated

LEMMA ClosingsStep == IInv /\ [Next]_vars => Closings'
<1> SUFFICES ASSUME IInv, [Next]_vars
    PROVE  Closings'
  OBVIOUS
<1> USE DEF IInv, Closings
<1>1. CASE NetworkStep
  BY <1>1 DEF NetworkStep, EntryAnswers, EntryLost, RoomGreets, RoomSends,
              RoomLost, client, toRoom
<1>2. CASE MainStep
  <2>1. CASE AskEntry \/ FindFreeRoom
    BY <2>1 DEF AskEntry, FindFreeRoom, Crash, client, toRoom
  <2>2. CASE ConnectToGameServer
    BY <2>2 DEF ConnectToGameServer, Crash
  <2>3. CASE BuildScene \/ Run \/ Frame \/ Close \/ StopThread \/ Join
    BY <2>3 DEF BuildScene, Run, Frame, Close, StopThread, Join, client, library,
                toRoom
  <2>4. CASE CloseConnection
    BY <2>4 DEF CloseConnection, client
  <2>5. QED
    BY <1>2, <2>1, <2>2, <2>3, <2>4 DEF MainStep
<1>3. CASE AwaitGreeting
  BY <1>3 DEF AwaitGreeting
<1>4. CASE ThreadStep
  <2>1. CASE Deliver
    <3>1. hand[1] \in Events
      BY <2>1, HandFacts DEF Deliver, Goto, Events
    <3>2. main' \in {main, "crashed"}
      BY <2>1, <3>1, PushFacts DEF Deliver, TypeOK, Events
    <3>3. QED
      BY <2>1, <3>2 DEF Deliver, library, toRoom
  <2>2. CASE OnLoss
    <3>1. lost # {}
      BY <2>2 DEF OnLoss, Losses
    <3>2. main' \in {main, "crashed"}
      BY <2>2, PushFacts DEF OnLoss, Events, TypeOK
    <3>3. QED
      BY <2>2, <3>1, <3>2 DEF OnLoss, toRoom
  <2>3. CASE CheckAlive \/ CheckAliveAgain \/ RecieveMessage \/ RecieveThrows
               \/ OnOther \/ EndCallbacks
    BY <2>3 DEF CheckAlive, CheckAliveAgain, RecieveMessage, RecieveThrows,
                OnOther, EndCallbacks, Crash, client, library, toRoom
  <2>4. QED
    BY <1>4, <2>1, <2>2, <2>3 DEF ThreadStep
<1>5. CASE UNCHANGED vars
  BY <1>5 DEF vars, client, library, toRoom
<1>6. QED
  BY <1>1, <1>2, <1>3, <1>4, <1>5 DEF Next, LookAgain, Terminated

LEMMA LossesStep == IInv /\ [Next]_vars => Losses'
<1> SUFFICES ASSUME IInv, [Next]_vars
    PROVE  Losses'
  OBVIOUS
<1> USE DEF IInv, Losses
<1>1. CASE NetworkStep
  BY <1>1 DEF NetworkStep, EntryAnswers, EntryLost, RoomGreets, RoomSends,
              RoomLost, Changed, scene
<1>2. CASE MainStep
  <2>1. CASE AskEntry \/ FindFreeRoom
    BY <2>1 DEF AskEntry, FindFreeRoom, Forget, scene
  <2>2. CASE ConnectToGameServer
    BY <2>2 DEF ConnectToGameServer, scene
  <2>3. CASE FrameEnds
    <3>1. queue' = <<>> /\ UNCHANGED library
      BY <2>3 DEF FrameEnds
    <3>2. sceneAlive' = ~\E i \in DOMAIN queue : queue[i] = NetworkError
      BY <2>3 DEF FrameEnds
    <3>3. sceneAlive' \/ lost # {}
      BY <3>2
    <3>4. QED
      BY <3>1, <3>3 DEF library
  <2>4. CASE SceneBuilt \/ Fails \/ Run \/ Close \/ StopThread \/ Join
    BY <2>4 DEF SceneBuilt, Fails, Run, Close, StopThread, Join, scene, library
  <2>5. CASE CloseConnection
    BY <2>5 DEF CloseConnection, Forget, scene
  <2>6. QED
    BY <1>2, <2>1, <2>2, <2>3, <2>4, <2>5, Outcomes DEF MainStep
<1>3. CASE AwaitGreeting
  BY <1>3 DEF AwaitGreeting, scene
<1>4. CASE ThreadStep
  <2>1. CASE Deliver
    <3>1. hand[1] \in Messages
      BY <2>1, HandFacts DEF Deliver, Goto
    <3>2. \A i \in DOMAIN queue' :
            queue'[i] = hand[1] \/ (i \in DOMAIN queue /\ queue'[i] = queue[i])
      BY <2>1, <3>1, PushFacts DEF Deliver, Events, TypeOK
    <3>3. QED
      BY <2>1, <3>1, <3>2, MessageFacts DEF Deliver, library
  <2>2. CASE OnLoss
    BY <2>2 DEF OnLoss
  <2>3. CASE CheckAlive \/ CheckAliveAgain \/ RecieveMessage \/ RecieveThrows
               \/ OnOther \/ EndCallbacks
    BY <2>3 DEF CheckAlive, CheckAliveAgain, RecieveMessage, RecieveThrows,
                OnOther, EndCallbacks, scene, library
  <2>4. QED
    BY <1>4, <2>1, <2>2, <2>3 DEF ThreadStep
<1>5. CASE UNCHANGED vars
  BY <1>5 DEF vars, scene, library
<1>6. QED
  BY <1>1, <1>2, <1>3, <1>4, <1>5 DEF Next, LookAgain, Terminated

Playing == ~TakenDown /\ ~Ended

(* Nothing brings a session back.                                           *)
LEMMA PlayingBefore == TypeOK /\ [Next]_vars /\ Playing' => Playing
<1> SUFFICES ASSUME TypeOK, [Next]_vars, ~Playing PROVE ~Playing'
  OBVIOUS
<1> USE DEF Playing, TakenDown, Ended
<1>1. CASE NetworkStep
  BY <1>1 DEF NetworkStep, EntryAnswers, EntryLost, RoomGreets, RoomSends, RoomLost
<1>2. CASE MainStep
  BY <1>2 DEF MainStep, AskEntry, FindFreeRoom, ConnectToGameServer, BuildScene, Run,
              Frame, Close, StopThread, CloseConnection, Join, Crash
<1>3. CASE AwaitGreeting
  BY <1>3 DEF AwaitGreeting
<1>4. CASE Deliver \/ OnLoss
  BY <1>4 DEF Deliver, OnLoss, Push
<1>5. CASE CheckAlive \/ CheckAliveAgain \/ RecieveMessage \/ RecieveThrows \/ OnOther
             \/ EndCallbacks
  BY <1>5 DEF CheckAlive, CheckAliveAgain, RecieveMessage, RecieveThrows, OnOther,
              EndCallbacks, Crash
<1>6. CASE UNCHANGED vars
  BY <1>6 DEF vars
<1> QED
  BY <1>1, <1>2, <1>3, <1>4, <1>5, <1>6 DEF Next, ThreadStep, LookAgain, Terminated

LEMMA PhasesStep == IInv /\ [Next]_vars => Phases'
<1> SUFFICES ASSUME IInv, [Next]_vars, Playing' PROVE Phases'
  BY DEF Phases, Playing
<1>1. Playing /\ TypeOK
  BY PlayingBefore DEF IInv
<1>2. /\ thread = "none" <=> main # "playing"
      /\ thread = "none" => shown = <<>> /\ queue = <<>>
      /\ main \in {"start", "finding", "connecting"} => greeter = "none"
      /\ main \in {"built", "playing"} => greeter = "done"
      /\ ~greeted => sent = 0 /\ greeter # "done"
      /\ ~alive => thread \in {"top", "dispatch", "ended"}
  BY <1>1 DEF IInv, Phases, Playing
<1> USE DEF Phases
<1>3. CASE NetworkStep
  BY <1>2, <1>3 DEF NetworkStep, EntryAnswers, EntryLost, RoomGreets, RoomSends,
                    RoomLost, scene, client, toRoom
<1>4. CASE MainStep
  <2>1. CASE AskEntry \/ FindFreeRoom
    BY <1>1, <1>2, <2>1
       DEF AskEntry, FindFreeRoom, Crash, Playing, Ended, scene, client, toRoom
  <2>2. CASE ConnectToGameServer
    BY <1>2, <2>2 DEF ConnectToGameServer, Crash, scene
  <2>3. CASE SceneBuilt \/ FrameEnds
    BY <1>2, <2>3 DEF SceneBuilt, FrameEnds, client, library, toRoom
  <2>6. CASE Fails
    BY <2>6 DEF Fails, Playing, Ended
  <2>4. CASE Run
    BY <1>2, <2>4 DEF Run, scene, library, toRoom
  <2>5. CASE Close \/ StopThread \/ CloseConnection \/ Join
    BY <2>5 DEF Close, StopThread, CloseConnection, Join, Playing, TakenDown, Ended
  <2> QED
    BY <1>4, <2>1, <2>2, <2>3, <2>4, <2>5, <2>6, Outcomes DEF MainStep
<1>5. CASE AwaitGreeting
  <2>1. greeted
    <3>1. ASSUME ~greeted PROVE feed = <<>>
      <4>1. sent = 0 /\ Unread = <<>> /\ \E n \in 0 .. sent : FlowsAt(n, sent, Handed, Unread, feed)
        BY <1>1, <1>2, <3>1 DEF IInv, Streaming, Flow, Playing, Unread
      <4>2. FlowsAt(0, 0, Handed, <<>>, feed)
        BY <4>1
      <4>3. Following(0, 0) \in Seq(Nat) /\ Len(Following(0, 0)) = 0
        BY FollowingFacts
      <4>4. Following(0, 0) = <<>>
        BY <4>3, EmptySeq
      <4> QED
        BY <4>2, <4>4 DEF FlowsAt
    <3> QED
      BY <1>5, <3>1 DEF AwaitGreeting
  <2> QED
    BY <1>2, <1>5, <2>1 DEF AwaitGreeting, scene
<1>6. CASE ThreadStep
  <2>1. CASE Deliver \/ OnLoss
    <3>1. main = "playing" /\ main' = main
      BY <1>1, <1>2, <2>1 DEF Deliver, OnLoss, Goto, Push, Playing
    <3> QED
      BY <1>2, <2>1, <3>1 DEF Deliver, OnLoss, Goto, library, toRoom
  <2>2. CASE RecieveThrows
    BY <2>2 DEF RecieveThrows, Crash, Playing, Ended
  <2>3. CASE CheckAlive \/ CheckAliveAgain \/ RecieveMessage \/ OnOther \/ EndCallbacks
    BY <1>2, <2>3 DEF CheckAlive, CheckAliveAgain, RecieveMessage, OnOther, EndCallbacks,
                      Goto, scene, client, library, toRoom
  <2> QED
    BY <1>6, <2>1, <2>2, <2>3 DEF ThreadStep
<1>7. CASE UNCHANGED vars
  BY <1>2, <1>7 DEF vars, scene, client, library, toRoom
<1> QED
  BY <1>3, <1>4, <1>5, <1>6, <1>7 DEF Next, LookAgain, Terminated

LEMMA StreamingStep == IInv /\ [Next]_vars => Streaming'
<1> SUFFICES ASSUME IInv, [Next]_vars, Playing'
             PROVE  Flow' /\ (greeter' # "done" => Handed' = <<>>)
  BY DEF Streaming, Playing
<1>1. Playing /\ TypeOK /\ TypeOK'
  BY PlayingBefore, TypeStep DEF IInv
<1>2. /\ thread = "none" <=> main # "playing"
      /\ thread = "none" => shown = <<>> /\ queue = <<>>
      /\ main \in {"start", "finding", "connecting"} => greeter = "none"
      /\ main \in {"built", "playing"} => greeter = "done"
      /\ ~greeted => sent = 0 /\ greeter # "done"
      /\ ~alive => thread \in {"top", "dispatch", "ended"}
  BY <1>1 DEF IInv, Phases, Playing
<1>3. greeter # "done" => Handed = <<>>
  BY <1>1 DEF IInv, Streaming, Playing
<1>4. PICK n \in 0 .. sent : /\ FlowsAt(n, sent, Handed, Unread, feed)
                             /\ alive => n = Len(Handed)
  BY <1>1 DEF IInv, Streaming, Flow, Playing
<1>5. sent \in Nat /\ n \in Nat /\ Unread \in Seq(Nat)
  BY <1>1 DEF TypeOK, Unread, Greeting
<1>6. /\ shown \in Seq(Events) /\ queue \in Seq(Events) /\ hand \in Seq(Events)
      /\ Handed \in Seq(Events)
  <2>1. hand \in Seq(Events)
    BY <1>1 DEF TypeOK, Events
  <2> QED
    BY <1>1, <2>1 DEF TypeOK, Events, Handed
<1>7. ASSUME Handed' = Handed, Unread' = Unread, UNCHANGED <<feed, sent, alive, greeter>>
      PROVE  Flow' /\ (greeter' # "done" => Handed' = <<>>)
  <2>1. FlowsAt(n, sent', Handed', Unread', feed') /\ (alive' => n = Len(Handed'))
    BY <1>4, <1>7
  <2> QED
    BY <1>3, <1>7, <2>1 DEF Flow
<1>8. CASE EntryAnswers \/ EntryLost \/ RoomLost
  BY <1>7, <1>8 DEF EntryAnswers, EntryLost, RoomLost, scene, client, toRoom, Handed, Unread
<1>9. CASE RoomGreets
  <2>1. ~greeted /\ sent = 0 /\ greeter # "done" /\ Handed = <<>> /\ n = 0
    BY <1>2, <1>3, <1>4, <1>9 DEF RoomGreets
  <2>2. feed' = Append(feed, Greeting) /\ Unread' = <<Greeting>> /\ Handed' = Handed
        /\ UNCHANGED <<sent, alive, greeter>>
    BY <1>9, <2>1 DEF RoomGreets, Unread, Handed, scene, client
  <2>3. Following(0, 0) = <<>>
    <3>1. Following(0, 0) \in Seq(Nat) /\ Len(Following(0, 0)) = 0
      BY FollowingFacts
    <3> QED
      BY <3>1, EmptySeq
  <2>4. Unread = <<>>
    BY <2>1 DEF Unread
  <2>5. feed = <<>>
    BY <1>4, <2>1, <2>3, <2>4 DEF FlowsAt
  <2>6. feed' = <<Greeting>> \o Following(0, 0)
    BY <2>2, <2>3, <2>5
  <2>7. FlowsAt(0, sent', Handed', Unread', feed') /\ 0 = Len(Handed') /\ 0 \in 0 .. sent'
    BY <2>1, <2>2, <2>6 DEF FlowsAt
  <2> QED
    BY <2>1, <2>2, <2>7 DEF Flow
<1>10. CASE RoomSends
  <2>1. /\ sent' = sent + 1 /\ feed' = Append(feed, sent + 1)
        /\ Handed' = Handed /\ Unread' = Unread /\ UNCHANGED <<alive, greeter>>
    BY <1>10 DEF RoomSends, Unread, Handed, scene, client
  <2>2. FlowsAt(n, sent', Handed', Unread', feed')
    BY <1>4, <1>5, <2>1, FlowSends
  <2>3. n \in 0 .. sent'
    BY <1>5, <2>1
  <2> QED
    BY <1>3, <1>4, <2>1, <2>2, <2>3 DEF Flow
<1>11. CASE AwaitGreeting
  <2>1. /\ greeter = "waiting" /\ feed # <<>> /\ feed' = Tail(feed)
        /\ greeter' = IF Head(feed) = Greeting THEN "done" ELSE "waiting"
        /\ Handed' = Handed /\ UNCHANGED <<sent, alive, greeted>>
    BY <1>11 DEF AwaitGreeting, Handed, scene
  <2>2. greeted
    <3>1. ASSUME ~greeted PROVE feed = <<>>
      <4>1. sent = 0 /\ Unread = <<>> /\ n = 0
        BY <1>2, <3>1 DEF Unread
      <4>2. Following(0, 0) \in Seq(Nat) /\ Len(Following(0, 0)) = 0
        BY FollowingFacts
      <4>3. Following(0, 0) = <<>>
        BY <4>2, EmptySeq
      <4> QED
        BY <1>4, <4>1, <4>3 DEF FlowsAt
    <3> QED
      BY <2>1, <3>1
  <2>3. FlowsAt(n, sent, Handed, <<Greeting>>, feed)
    BY <1>4, <2>1, <2>2 DEF Unread
  <2>4. Head(feed) = Greeting /\ FlowsAt(n, sent, Handed, <<>>, Tail(feed))
    BY <1>5, <2>3, FlowGreets
  <2>5. greeter' = "done" /\ Unread' = <<>>
    BY <2>1, <2>4 DEF Unread
  <2> QED
    BY <1>4, <2>1, <2>4, <2>5 DEF Flow
<1>12. CASE MainStep
  <2>1. CASE AskEntry \/ FindFreeRoom
    BY <1>7, <2>1 DEF AskEntry, FindFreeRoom, scene, client, toRoom, Handed, Unread
  <2>2. CASE ConnectToGameServer
    <3>1. greeter' # "done" \/ greeter' = greeter
      BY <2>2 DEF ConnectToGameServer
    <3>2. thread = "none"
      BY <1>2, <2>2 DEF ConnectToGameServer
    <3>3. Handed = <<>>
      BY <1>1, <1>2, <3>2, EmptySeq DEF Handed, TypeOK
    <3>4. main' # "crashed"
      BY DEF Playing, Ended
    <3>5. greeter' = "waiting" /\ UNCHANGED <<feed, sent, alive, greeted, shown, queue, hand>>
      BY <2>2, <3>4 DEF ConnectToGameServer, Crash, scene
    <3>6. Unread' = IF greeted THEN <<Greeting>> ELSE <<>>
      BY <3>5 DEF Unread
    <3>7. greeter # "done"
      BY <1>2, <2>2 DEF ConnectToGameServer
    <3>8. Unread' = Unread /\ Handed' = Handed
      BY <3>5, <3>6, <3>7 DEF Unread, Handed
    <3>9. FlowsAt(n, sent', Handed', Unread', feed') /\ (alive' => n = Len(Handed'))
      BY <1>4, <3>5, <3>8
    <3> QED
      BY <3>3, <3>5, <3>8, <3>9 DEF Flow
  <2>3. CASE FrameEnds
    <3>1. Handed' = Handed
      <4>1. queue' = <<>> /\ shown' = shown \o queue /\ hand' = hand
        BY <2>3 DEF FrameEnds, client
      <4>2. ((shown \o queue) \o <<>>) \o hand = (shown \o queue) \o hand
        BY <1>6
      <4> QED
        BY <4>1, <4>2 DEF Handed
    <3> QED
      BY <1>7, <2>3, <3>1 DEF FrameEnds, client, library, toRoom, Unread
  <2>4. CASE SceneBuilt \/ Run
    BY <1>7, <2>4 DEF SceneBuilt, Run, scene, client, library, toRoom, Handed, Unread
  <2>5. CASE Close \/ StopThread \/ CloseConnection \/ Join \/ Fails
    BY <2>5 DEF Close, StopThread, CloseConnection, Join, Fails, Playing, TakenDown,
                Ended
  <2> QED
    BY <1>12, <2>1, <2>2, <2>3, <2>4, <2>5, Outcomes DEF MainStep
<1>13. ASSUME thread # "none"
       PROVE  main = "playing" /\ greeter = "done" /\ Unread = <<>>
  BY <1>2, <1>13 DEF Unread
<1>14. CASE ThreadStep
  <2>1. CASE RecieveMessage
    <3>1. /\ thread = "receive" /\ UNCHANGED <<shown, queue, sent, alive, greeter, greeted>>
      BY <2>1 DEF RecieveMessage, Goto, scene
    <3>2. CASE feed = <<>>
      BY <1>7, <2>1, <3>1, <3>2 DEF RecieveMessage, Handed, Unread
    <3>3. CASE feed # <<>>
      <4>1. alive /\ Unread = <<>> /\ n = Len(Handed)
        BY <1>2, <1>4, <1>13, <3>1
      <4>2. /\ n + 1 \in 0 .. sent /\ Head(feed) = n + 1
            /\ FlowsAt(n + 1, sent, Append(Handed, n + 1), <<>>, Tail(feed))
        BY <1>4, <1>5, <1>6, <3>3, <4>1, FlowHands
      <4>3. hand = <<>> /\ hand' = <<n + 1>> /\ feed' = Tail(feed)
        <5>1. Len(hand) = 0
          BY <1>1, <3>1 DEF TypeOK
        <5> QED
          BY <1>6, <2>1, <3>3, <4>2, <5>1, EmptySeq DEF RecieveMessage
      <4>4. n + 1 \in Events
        <5>1. n + 1 \in 0 .. MaxEvents
          BY <1>1, <1>5, <4>2, SessionAssumption DEF TypeOK
        <5> QED
          BY <5>1 DEF Events, Messages
      <4>5. Handed' = Append(Handed, n + 1) /\ Len(Append(Handed, n + 1)) = n + 1
        <5>1. Handed = shown \o queue
          BY <1>6, <4>3 DEF Handed
        <5>2. Handed' = (shown \o queue) \o <<n + 1>>
          BY <3>1, <4>3 DEF Handed
        <5>3. Append(shown \o queue, n + 1) = (shown \o queue) \o <<n + 1>>
          BY <1>6, <4>4, <5>1, AppendIsConcat
        <5>4. Len(Append(Handed, n + 1)) = n + 1
          BY <1>6, <4>1, <4>4, AppendProperties
        <5> QED
          BY <5>1, <5>2, <5>3, <5>4
      <4>6. Unread' = <<>> /\ greeter' = "done"
        BY <1>13, <3>1, <4>1 DEF Unread
      <4>7. FlowsAt(n + 1, sent', Handed', Unread', feed') /\ n + 1 = Len(Handed')
        BY <3>1, <4>2, <4>3, <4>5, <4>6
      <4> QED
        BY <3>1, <4>2, <4>6, <4>7 DEF Flow
    <3> QED
      BY <3>2, <3>3
  <2>2. CASE Deliver
    <3>1. hand[1] \in Events /\ hand = <<hand[1]>>
      BY <1>1, <2>2, HandFacts DEF Deliver, Goto, Events
    <3>2. queue' = Append(queue, hand[1]) /\ shown' = shown /\ hand' = <<>>
      BY <1>1, <2>2 DEF Deliver, Push, Playing
    <3>3. Handed' = Handed
      <4>1. Append(queue, hand[1]) = queue \o hand
        BY <1>6, <3>1, AppendIsConcat
      <4>2. shown \o (queue \o hand) = (shown \o queue) \o hand
        BY <1>6, ConcatAssociative
      <4>3. queue \o hand \in Seq(Events) /\ shown \o (queue \o hand) \in Seq(Events)
        BY <1>6, ConcatProperties
      <4>4. Handed' = (shown \o (queue \o hand)) \o <<>>
        BY <3>2, <4>1 DEF Handed
      <4> QED
        BY <4>2, <4>3, <4>4, ConcatEmptySeq DEF Handed
    <3> QED
      BY <1>7, <2>2, <3>3 DEF Deliver, library, toRoom, Unread
  <2>3. CASE OnLoss
    <3>1. /\ thread = "dispatch" /\ ~alive'
          /\ queue' = Append(queue, NetworkError)
          /\ UNCHANGED <<shown, hand, greeter, feed, sent, greeted>>
      BY <1>1, <2>3 DEF OnLoss, Push, Playing, toRoom
    <3>2. hand = <<>>
      <4>1. Len(hand) = 0
        BY <1>1, <3>1 DEF TypeOK
      <4> QED
        BY <1>6, <4>1, EmptySeq
    <3>3. Handed' = Append(Handed, NetworkError)
      <4>1. NetworkError \in Events
        BY DEF Events
      <4>2. shown \o queue \in Seq(Events) /\ Append(queue, NetworkError) \in Seq(Events)
        BY <1>6, <4>1, ConcatProperties, AppendProperties
      <4>3. Handed = shown \o queue
        BY <3>2, <4>2, ConcatEmptySeq DEF Handed
      <4>4. Handed' = shown \o Append(queue, NetworkError)
        <5>1. shown \o Append(queue, NetworkError) \in Seq(Events)
          BY <1>6, <4>2, ConcatProperties
        <5> QED
          BY <3>1, <3>2, <5>1, ConcatEmptySeq DEF Handed
      <4>5. <<NetworkError>> \in Seq(Events)
        BY <4>1
      <4>6. shown \o (queue \o <<NetworkError>>) = (shown \o queue) \o <<NetworkError>>
        BY <1>6, <4>5, ConcatAssociative
      <4>7. /\ Append(queue, NetworkError) = queue \o <<NetworkError>>
            /\ Append(shown \o queue, NetworkError) = (shown \o queue) \o <<NetworkError>>
        BY <1>6, <4>1, <4>2, AppendIsConcat
      <4> QED
        BY <4>3, <4>4, <4>6, <4>7
    <3>4. FlowsAt(n, sent, Append(Handed, NetworkError), Unread, feed)
      BY <1>4, <1>5, <1>6, FlowFails
    <3>5. Unread' = Unread /\ greeter' = "done"
      BY <1>13, <3>1 DEF Unread
    <3>6. FlowsAt(n, sent', Handed', Unread', feed')
      BY <3>1, <3>3, <3>4, <3>5
    <3> QED
      BY <3>1, <3>5, <3>6 DEF Flow
  <2>4. CASE CheckAlive \/ CheckAliveAgain \/ OnOther \/ EndCallbacks
    BY <1>7, <2>4 DEF CheckAlive, CheckAliveAgain, OnOther, EndCallbacks, scene, client,
                      library, toRoom, Handed, Unread
  <2>5. CASE RecieveThrows
    BY <2>5 DEF RecieveThrows, Crash, Playing, Ended
  <2> QED
    BY <1>14, <2>1, <2>2, <2>3, <2>4, <2>5 DEF ThreadStep
<1>15. CASE UNCHANGED vars
  BY <1>7, <1>15 DEF vars, scene, client, library, toRoom, Handed, Unread
<1> QED
  BY <1>8, <1>9, <1>10, <1>11, <1>12, <1>14, <1>15
     DEF Next, NetworkStep, LookAgain, Terminated

LEMMA Inductive == Spec => []IInv
<1>1. IInv /\ [Next]_vars => IInv'
  BY TypeStep, ClosingsStep, LossesStep, PhasesStep, StreamingStep DEF IInv
<1>2. QED
  BY <1>1, InitIInv, PTL DEF Spec

-----------------------------------------------------------------------------
(* Every variable of a session keeps its type.                              *)
THEOREM TypeCorrect == Spec => []TypeOK
<1>1. IInv => TypeOK
  BY DEF IInv
<1> QED
  BY <1>1, Inductive, PTL

(* Every message of the room reaches the scene once and in order, and the   *)
(* greeting the task (NetworkClient.cpp:77-92, 206-213; Scene.cpp:71).      *)
THEOREM StreamAlwaysReachesScene == Spec => []StreamReachesScene
<1>1. IInv => StreamReachesScene
  BY DEF IInv, Streaming, Flow, StreamReachesScene
<1> QED
  BY <1>1, Inductive, PTL

(* A session is ended from within only after a loss (NetworkClient.cpp:     *)
(* 216-230): `EndsOnlyOfLoss` in every reachable state.                     *)
THEOREM OnlyLossEnds == Spec => []EndsOnlyOfLoss
<1>1. IInv => EndsOnlyOfLoss
  BY DEF IInv, Closings, Losses, EndsOnlyOfLoss
<1>2. QED
  BY <1>1, Inductive, PTL

(* A client that is waiting for its greeting or playing is crashed by what  *)
(* the room has sent, one that is taken down by its own polling thread, and *)
(* none by a loss (NetworkClient.cpp:17-20, 189; Scene.hpp:44, 76-89;       *)
(* Scene.cpp:100): `OnlyRoomsCrashPlay`.                                    *)
THEOREM RoomsAloneCrashPlay == Spec => OnlyRoomsCrashPlay
<1> DEFINE Cause ==
      \/ main \in {"finding", "connecting"}
      \/ main = "greeting" /\ greeter = "done"
      \/ /\ main = "playing" /\ thread' = thread
         /\ \E i \in DOMAIN queue : queue[i] \in Messages
      \/ TakenDown /\ thread # "ended"
<1>1. IInv /\ [Next]_vars => [main' = "crashed" => Cause]_vars
  <2> SUFFICES ASSUME IInv, [Next]_vars, main' = "crashed", ~UNCHANGED vars
      PROVE  Cause
    OBVIOUS
  <2>1. ~Ended
    BY DEF Next, Terminated
  <2>2. main # "crashed"
    BY <2>1 DEF Ended
  <2>3. CASE NetworkStep
    BY <2>2, <2>3
       DEF NetworkStep, EntryAnswers, EntryLost, RoomGreets, RoomSends, RoomLost
  <2>4. CASE FindFreeRoom \/ ConnectToGameServer \/ BuildScene
    BY <2>4 DEF FindFreeRoom, ConnectToGameServer, BuildScene
  <2>5. CASE Frame
    BY <2>2, <2>5 DEF Frame, client
  <2>6. CASE AskEntry \/ Run \/ Close \/ StopThread \/ CloseConnection \/ Join
    BY <2>6 DEF AskEntry, Run, Close, StopThread, CloseConnection, Join
  <2>7. CASE RecieveThrows
    <3>1. conn = "closed" /\ thread = "receive"
      BY <2>7 DEF RecieveThrows, Goto
    <3>2. main = "joining"
      BY <2>1, <3>1 DEF IInv, Closings, Ended
    <3>3. QED
      BY <3>1, <3>2 DEF TakenDown
  <2>8. CASE Deliver \/ OnLoss
    BY <2>2, <2>8 DEF Deliver, OnLoss, Push, Goto
  <2>9. CASE AwaitGreeting \/ CheckAlive \/ CheckAliveAgain \/ RecieveMessage
               \/ OnOther \/ EndCallbacks
    BY <2>2, <2>9 DEF AwaitGreeting, CheckAlive, CheckAliveAgain, RecieveMessage,
                      OnOther, EndCallbacks
  <2>10. QED
    BY <2>3, <2>4, <2>5, <2>6, <2>7, <2>8, <2>9
       DEF Next, MainStep, ThreadStep, LookAgain, Terminated
<1>2. QED
  BY <1>1, Inductive, PTL DEF Spec, OnlyRoomsCrashPlay

-----------------------------------------------------------------------------
(* A loss on its way to the scene: while a client waits for its greeting or *)
(* plays, the change of a lost room has not been dispatched, or the error   *)
(* is in the scene's queue, or the scene has seen it; and so has it when    *)
(* the polling thread is told to end (NetworkClient.cpp:216-230).           *)
InSession == main \in {"greeting", "built", "playing"}

Failed == ~sceneAlive \/ \E i \in DOMAIN queue : queue[i] = NetworkError

LossIsOnItsWay ==
  InSession =>
    /\ conn = "lost" => [of |-> "room", to |-> "lost"] \in changes \/ Failed
    /\ ~alive => Failed

LEMMA LossStaysOnItsWay ==
  IInv /\ LossIsOnItsWay /\ [Next]_vars => LossIsOnItsWay'
<1> SUFFICES ASSUME IInv, LossIsOnItsWay, [Next]_vars, InSession'
             PROVE  /\ conn' = "lost" =>
                         [of |-> "room", to |-> "lost"] \in changes' \/ Failed'
                    /\ ~alive' => Failed'
  BY DEF LossIsOnItsWay
<1> USE DEF LossIsOnItsWay, InSession, Failed
<1>1. CASE NetworkStep
  BY <1>1 DEF NetworkStep, EntryAnswers, EntryLost, RoomGreets, RoomSends, RoomLost,
              Changed, scene, client, toRoom
<1>2. CASE MainStep
  <2>1. CASE ConnectToGameServer
    <3>1. conn' = "open" /\ alive' = alive /\ queue' = queue /\ sceneAlive' = sceneAlive
      BY <2>1 DEF ConnectToGameServer, Crash, scene
    <3>2. alive
      BY <2>1 DEF ConnectToGameServer, IInv, Phases, TakenDown, Ended
    <3> QED
      BY <3>1, <3>2
  <2>2. CASE SceneBuilt \/ Run
    BY <2>2 DEF SceneBuilt, Run, scene, client, library, toRoom
  <2>3. CASE FrameEnds
    <3>1. sceneAlive' = ~\E i \in DOMAIN queue : queue[i] = NetworkError
      BY <2>3 DEF FrameEnds
    <3>2. main = "playing" /\ sceneAlive /\ UNCHANGED <<alive, conn, changes>>
      BY <2>3 DEF FrameEnds, client, library, toRoom
    <3> QED
      BY <3>1, <3>2
  <2>4. CASE AskEntry \/ FindFreeRoom \/ Close \/ StopThread \/ CloseConnection \/ Join
               \/ Fails
    BY <2>4 DEF AskEntry, FindFreeRoom, Crash, Close, StopThread, CloseConnection, Join,
                Fails
  <2> QED
    BY <1>2, <2>1, <2>2, <2>3, <2>4, Outcomes DEF MainStep
<1>3. CASE AwaitGreeting
  BY <1>3 DEF AwaitGreeting, scene
<1>4. CASE ThreadStep
  <2>1. ASSUME NEW m, queue' = Append(queue, m)
        PROVE  /\ queue'[Len(queue) + 1] = m /\ Len(queue) + 1 \in DOMAIN queue'
               /\ \A i \in DOMAIN queue : i \in DOMAIN queue' /\ queue'[i] = queue[i]
    BY <2>1 DEF IInv, TypeOK
  <2>2. CASE Deliver
    BY <2>1, <2>2 DEF Deliver, Push, TakenDown, library, toRoom
  <2>3. CASE OnLoss
    BY <2>1, <2>3 DEF OnLoss, Push, TakenDown
  <2>4. CASE OnOther
    BY <2>4 DEF OnOther, scene, client, toRoom
  <2>5. CASE CheckAlive \/ CheckAliveAgain \/ EndCallbacks
    BY <2>5 DEF CheckAlive, CheckAliveAgain, EndCallbacks, scene, library, toRoom
  <2>6. CASE RecieveMessage \/ RecieveThrows
    BY <2>6 DEF RecieveMessage, RecieveThrows, Crash, scene
  <2> QED
    BY <1>4, <2>2, <2>3, <2>4, <2>5, <2>6 DEF ThreadStep
<1>5. CASE UNCHANGED vars
  BY <1>5 DEF vars, scene, client, library, toRoom
<1> QED
  BY <1>1, <1>2, <1>3, <1>4, <1>5 DEF Next, LookAgain, Terminated

(* Nothing keeps the loss of the room from the scene, and no client plays   *)
(* on with a polling thread that has ended unless its scene knows           *)
(* (NetworkClient.cpp:17-20, 216-230): `LossIsOnItsWay` always.             *)
THEOREM LossIsNeverForgotten == Spec => []LossIsOnItsWay
<1>1. Init => LossIsOnItsWay
  BY DEF Init, LossIsOnItsWay, InSession
<1> QED
  BY <1>1, LossStaysOnItsWay, Inductive, PTL DEF Spec
=============================================================================
