-------------------------- MODULE Discovery_proofs --------------------------
(***************************************************************************)
(* What Discovery promises for any number of servers, clients, players and *)
(* redis errors: which keys servers leave, what a poll has collected, what *)
(* clients are answered from, and what can kill the entry server.          *)
(***************************************************************************)
EXTENDS Discovery, TLAPS

(* What a server's state says about its keys.  One that was killed may have *)
(* left either of them, also to its next life.                              *)
KeysOfServers ==
  \A s \in Servers :
    /\ server[s] = "down" => Absent(s)
    /\ server[s] = "starting" => s \in endpoint
    /\ server[s] = "up" => Registered(s)
    /\ server[s] = "stopping" => s \notin endpoint /\ counts[s] # None

(* A poll holds the lock, and a key that it has found is there, or its      *)
(* server has torn the poll.                                                *)
Collected ==
  /\ InPoll => mutex = "poller"
  /\ poll = "get" => unvisited = {}
  /\ poll = "sleep" => keys = {}
  /\ Up => \A k \in keys : Exists(k) \/ k[1] \in torn

(* Of a server that has not torn the poll, each key is ahead of the cursor, *)
(* found, or read; or it has none, and has not got into the map.            *)
HasRead(k) ==
  /\ rooms[k[1]] # None
  /\ IF k[2] = "endpoint" THEN rooms[k[1]].endpoint ELSE rooms[k[1]].count # None

Progress ==
  InPoll =>
    \A s \in Servers \ torn :
      IF s \in present
      THEN /\ Registered(s)
           /\ \A k \in Keys :
                k[1] = s => k \in unvisited \/ k \in keys \/ HasRead(k)
      ELSE Absent(s) /\ rooms[s] = None

IInv ==
  TypeOK /\ KeysOfServers /\ Collected /\ Progress /\ SettledServersAreListed
    /\ OnlyPartialPollsKill

-----------------------------------------------------------------------------
(* Entries of the map.                                                      *)
LEMMA Constants ==
  /\ MaxCount \in Nat /\ MaxStrays \in Nat /\ MaxErrors \in Nat
  /\ None \notin Servers /\ None \notin Clients /\ None \notin Int
  /\ None \notin Entries
  /\ 0 \in Counts /\ None \notin Counts
  /\ \A n \in Counts :
       /\ n < MaxCount => n + 1 \in Counts
       /\ n > -MaxStrays => n - 1 \in Counts
BY DiscoveryAssumption DEF Counts

(* A GET yields the entry of the server it names, with what it had and the  *)
(* key that was read.                                                       *)
LEMMA MergedFacts ==
  ASSUME NEW s \in Servers, NEW type \in {"endpoint", "player_count"},
         rooms \in [Servers -> Entries \cup {None}],
         counts \in [Servers -> Counts \cup {None}],
         s \in Listed => rooms[s].name = s
  PROVE  /\ Merged(s, type) \in Entries /\ Merged(s, type).name = s
         /\ type = "endpoint" => Merged(s, type).endpoint
         /\ type = "player_count" => Merged(s, type).count = counts[s]
         /\ type = "endpoint" /\ rooms[s] # None =>
              Merged(s, type).count = rooms[s].count
         /\ type = "player_count" /\ rooms[s] # None =>
              Merged(s, type).endpoint = rooms[s].endpoint
<1> DEFINE old == IF rooms[s] # None THEN rooms[s]
                  ELSE [name |-> s, endpoint |-> FALSE, count |-> None]
<1>1. old \in Entries /\ old.name = s
  BY DEF Entries, Listed
<1>2. rooms[s] # None => old = rooms[s]
  OBVIOUS
<1>3. Merged(s, type) = IF type = "endpoint" THEN [old EXCEPT !.endpoint = TRUE]
                        ELSE [old EXCEPT !.count = counts[s]]
  BY DEF Merged
<1>4. counts[s] \in Counts \cup {None}
  OBVIOUS
<1> HIDE DEF old
<1>5. CASE type = "endpoint"
  BY <1>1, <1>2, <1>3, <1>5 DEF Entries
<1>6. CASE type = "player_count"
  BY <1>1, <1>2, <1>3, <1>4, <1>6 DEF Entries
<1>7. QED
  BY <1>5, <1>6

LEMMA InitIInv == Init => IInv
<1> SUFFICES ASSUME Init PROVE IInv
  OBVIOUS
<1> USE Constants
<1>1. TypeOK
  <2>1. failed \in BOOLEAN /\ counts \in [Servers -> Counts \cup {None}]
    BY DEF Init
  <2>2. QED
    BY <2>1 DEF Init, TypeOK, Listed
<1>2. KeysOfServers
  BY DEF Init, KeysOfServers, Absent
<1>3. Collected /\ Progress /\ OnlyPartialPollsKill
  BY DEF Init, Collected, Progress, OnlyPartialPollsKill, InPoll
<1>4. SettledServersAreListed
  BY DEF Init, SettledServersAreListed, Listed
<1>5. QED
  BY <1>1, <1>2, <1>3, <1>4 DEF IInv

-----------------------------------------------------------------------------
(* A server that counts has a count.                                        *)
LEMMA CountedServers ==
  ASSUME TypeOK, KeysOfServers, NEW s \in Servers, server[s] = "up"
  PROVE  counts[s] \in Counts
BY DEF TypeOK, KeysOfServers, Registered

(* One lemma for each part of the invariant.                                *)
LEMMA TypeStep == TypeOK /\ KeysOfServers /\ [Next]_vars => TypeOK'
<1> SUFFICES ASSUME TypeOK, KeysOfServers, [Next]_vars PROVE TypeOK'
  OBVIOUS
<1> USE Constants
<1>1. ASSUME NEW s \in Servers, SetEndpoint(s) \/ DelEndpoint(s) \/ Crash(s)
      PROVE  TypeOK'
  BY <1>1 DEF SetEndpoint, DelEndpoint, Crash, ComesOrGoes, TypeOK, Listed,
              poller, front, history
<1>2. ASSUME NEW s \in Servers, SetPlayerCount(s) \/ DelPlayerCount(s)
      PROVE  TypeOK'
  BY <1>2 DEF SetPlayerCount, DelPlayerCount, ComesOrGoes, TypeOK, Listed,
              poller, front, history
<1>3. ASSUME NEW s \in Servers, IncrPlayerCount(s) \/ DecrPlayerCount(s)
      PROVE  TypeOK'
  <2>1. counts[s] \in Counts
    BY <1>3, CountedServers DEF IncrPlayerCount, DecrPlayerCount
  <2>2. counts' \in [Servers -> Counts \cup {None}]
    BY <1>3, <2>1 DEF IncrPlayerCount, DecrPlayerCount, TypeOK
  <2>3. QED
    BY <1>3, <2>2
       DEF IncrPlayerCount, DecrPlayerCount, TypeOK, Listed, poller, front, history
<1>4. CASE LockAndClear
  BY <1>4 DEF LockAndClear, BeginPoll, TypeOK, Listed, redis, front
<1>5. CASE Scan \/ EndScan \/ Unlock
  BY <1>5 DEF Scan, EndScan, Unlock, TypeOK, Listed, redis, front, history
<1>13. CASE RedisError
  <2>1. failed' \in BOOLEAN /\ errors' \in 0 .. MaxErrors
    BY <1>13 DEF RedisError, TypeOK
  <2>2. QED
    BY <1>13, <2>1 DEF RedisError, TypeOK, Listed, redis, front
<1>6. ASSUME NEW k \in keys, Get(k) PROVE TypeOK'
  <2>1. k[1] \in Servers /\ k[2] \in {"endpoint", "player_count"}
    BY DEF TypeOK, Keys
  <2>2. Merged(k[1], k[2]) \in Entries /\ Merged(k[1], k[2]).name = k[1]
    BY <2>1, MergedFacts DEF TypeOK
  <2>3. rooms' \in [Servers -> Entries \cup {None}]
        /\ \A s \in Listed' : rooms'[s].name = s
    BY <1>6, <2>1, <2>2 DEF Get, TypeOK, Listed
  <2>4. poll' \in {"sleep", "scan", "get", "asserted", "terminated"}
        /\ keys' \subseteq Keys
    BY <1>6 DEF Get, TypeOK
  <2>5. QED
    BY <1>6, <2>3, <2>4 DEF Get, TypeOK, redis, front, history
<1>7. ASSUME NEW c \in Clients, OnConnecting(c) \/ OnClosed(c) PROVE TypeOK'
  BY <1>7 DEF OnConnecting, OnClosed, TypeOK, Listed, redis, poller, history
<1>8. ASSUME NEW c \in Clients, ClientConnects(c) \/ ClientLeaves(c) PROVE TypeOK'
  BY <1>8 DEF ClientConnects, ClientLeaves, TypeOK, Listed, redis, poller, history
<1>9. CASE FindRoom
  <2>1. PICK s \in Listed : SendRoom(serving, rooms[s])
    BY <1>9 DEF FindRoom
  <2>2. rooms[s] \in Entries /\ AnswerFrom(rooms[s]) \in Answers
    BY DEF TypeOK, Listed, Entries, Answers, AnswerFrom
  <2>3. conn' \in [Clients -> {"idle", "pending", "served", "answered", "left", "closed"}]
        /\ answer' \in [Clients -> Answers \cup {None}] /\ serving' = None
    BY <2>1, <2>2 DEF SendRoom, TypeOK
  <2>4. QED
    BY <2>1, <2>3 DEF SendRoom, TypeOK, Listed, redis, poller, history
<1>10. CASE FindRoomThrows
  BY <1>10 DEF FindRoomThrows, TypeOK, Listed, redis, front, history
<1>11. CASE UNCHANGED vars
  BY <1>11 DEF vars, TypeOK, Listed, redis, poller, front, history
<1>12. QED
  BY <1>1, <1>2, <1>3, <1>4, <1>5, <1>6, <1>7, <1>8, <1>9, <1>10, <1>11, <1>13
     DEF Next, GameServerStep, PollerStep, CallbackStep, ClientStep, Terminated

(* The steps that are not the servers', the poller's or FindRoomThrows.     *)
Elsewhere == UNCHANGED <<redis, poller, history>>

LEMMA FrontSteps ==
  ASSUME CallbackStep \/ ClientStep \/ FindRoom
  PROVE  Elsewhere
BY DEF CallbackStep, ClientStep, OnConnecting, OnClosed, ClientConnects,
       ClientLeaves, FindRoom, SendRoom, Elsewhere

LEMMA KeysStep == TypeOK /\ KeysOfServers /\ [Next]_vars => KeysOfServers'
<1> SUFFICES ASSUME TypeOK, KeysOfServers, [Next]_vars PROVE KeysOfServers'
  OBVIOUS
<1> USE Constants DEF KeysOfServers, Absent, Registered
<1>1. ASSUME NEW s \in Servers, SetEndpoint(s) PROVE KeysOfServers'
  BY <1>1 DEF SetEndpoint, TypeOK
<1>2. ASSUME NEW s \in Servers, SetPlayerCount(s) PROVE KeysOfServers'
  BY <1>2 DEF SetPlayerCount, TypeOK
<1>3. ASSUME NEW s \in Servers, IncrPlayerCount(s) \/ DecrPlayerCount(s)
      PROVE  KeysOfServers'
  <2>1. counts[s] \in Counts
    BY <1>3, CountedServers DEF IncrPlayerCount, DecrPlayerCount
  <2>2. counts'[s] \in Counts
    BY <1>3, <2>1 DEF IncrPlayerCount, DecrPlayerCount, TypeOK
  <2>3. \A t \in Servers : t # s => counts'[t] = counts[t]
    BY <1>3 DEF IncrPlayerCount, DecrPlayerCount, TypeOK
  <2>4. UNCHANGED <<server, endpoint>> /\ server[s] = "up"
    BY <1>3 DEF IncrPlayerCount, DecrPlayerCount
  <2>5. ASSUME NEW t \in Servers PROVE counts'[t] = None <=> counts[t] = None
    BY <2>1, <2>2, <2>3
  <2>6. QED
    BY <2>4, <2>5
<1>4. ASSUME NEW s \in Servers, DelEndpoint(s) PROVE KeysOfServers'
  BY <1>4 DEF DelEndpoint, TypeOK
<1>5. ASSUME NEW s \in Servers, DelPlayerCount(s) PROVE KeysOfServers'
  BY <1>5 DEF DelPlayerCount, TypeOK
<1>6. ASSUME NEW s \in Servers, Crash(s) PROVE KeysOfServers'
  BY <1>6 DEF Crash, TypeOK
<1>7. ASSUME UNCHANGED redis PROVE KeysOfServers'
  BY <1>7 DEF redis
<1>8. CASE PollerStep \/ RedisError \/ FindRoomThrows
  BY <1>7, <1>8 DEF PollerStep, LockAndClear, BeginPoll, Scan, EndScan, Get,
                    Unlock, RedisError, FindRoomThrows
<1>9. QED
  BY <1>1, <1>2, <1>3, <1>4, <1>5, <1>6, <1>7, <1>8, FrontSteps
     DEF Next, GameServerStep, Terminated, vars, Elsewhere

-----------------------------------------------------------------------------
(* What a step of a server leaves alone, and what it does to its own keys   *)
(* and to a poll that is running.                                           *)
LEMMA ServerSteps ==
  ASSUME TypeOK, KeysOfServers, NEW s \in Servers,
         SetEndpoint(s) \/ SetPlayerCount(s)
           \/ IncrPlayerCount(s) \/ DecrPlayerCount(s)
           \/ DelEndpoint(s) \/ DelPlayerCount(s) \/ Crash(s)
  PROVE  /\ UNCHANGED <<poller, front, present, failed>>
         /\ torn \subseteq torn' /\ (~InPoll => torn' = torn)
         /\ InPoll => \A x \in Servers \ torn' :
              /\ x \in endpoint <=> x \in endpoint'
              /\ counts[x] = None <=> counts'[x] = None
<1> USE Constants
<1>1. CASE SetEndpoint(s) \/ DelEndpoint(s)
  BY <1>1 DEF SetEndpoint, DelEndpoint, ComesOrGoes
<1>2. CASE SetPlayerCount(s) \/ DelPlayerCount(s)
  BY <1>2 DEF SetPlayerCount, DelPlayerCount, ComesOrGoes, TypeOK
<1>3. CASE IncrPlayerCount(s) \/ DecrPlayerCount(s)
  <2>1. counts[s] \in Counts
    BY <1>3, CountedServers DEF IncrPlayerCount, DecrPlayerCount
  <2>2. counts'[s] \in Counts /\ \A t \in Servers : counts'[t] # counts[t] => t = s
    BY <1>3, <2>1 DEF IncrPlayerCount, DecrPlayerCount, TypeOK
  <2>3. UNCHANGED <<endpoint, poller, front, history>>
    BY <1>3 DEF IncrPlayerCount, DecrPlayerCount
  <2>4. QED
    BY <2>1, <2>2, <2>3 DEF history
<1>4. CASE Crash(s)
  BY <1>4 DEF Crash, history
<1>5. QED
  BY <1>1, <1>2, <1>3, <1>4

LEMMA CollectedStep ==
  TypeOK /\ KeysOfServers /\ Collected /\ [Next]_vars => Collected'
<1> SUFFICES ASSUME TypeOK, KeysOfServers, Collected, [Next]_vars PROVE Collected'
  OBVIOUS
<1> USE Constants DEF InPoll, Up
<1>1. ASSUME GameServerStep, Up PROVE Collected'
  <2>1. PICK s \in Servers :
          SetEndpoint(s) \/ SetPlayerCount(s)
            \/ IncrPlayerCount(s) \/ DecrPlayerCount(s)
            \/ DelEndpoint(s) \/ DelPlayerCount(s) \/ Crash(s)
    BY <1>1 DEF GameServerStep
  <2>2. UNCHANGED <<poll, mutex, unvisited, keys>> /\ torn \subseteq torn'
    BY <2>1, ServerSteps DEF poller
  <2>3. ASSUME NEW k \in keys PROVE Exists(k)' \/ k[1] \in torn'
    <3>1. k[1] \in Servers /\ (Exists(k) \/ k[1] \in torn)
      BY <1>1 DEF Collected, TypeOK, Keys
    <3>2. InPoll
      BY <1>1 DEF Collected, TypeOK
    <3>3. CASE k[1] \notin torn'
      BY <2>1, <2>2, <3>1, <3>2, <3>3, ServerSteps DEF Exists
    <3>4. QED
      BY <3>3
  <2>4. QED
    BY <2>2, <2>3 DEF Collected
<1>2. CASE LockAndClear
  BY <1>2 DEF LockAndClear, BeginPoll, Collected
<1>3. CASE Scan
  BY <1>3 DEF Scan, Collected, Exists, redis, history
<1>4. CASE EndScan
  BY <1>4 DEF EndScan, Collected, Exists, redis, history
<1>5. ASSUME NEW k \in keys, Get(k) PROVE Collected'
  BY <1>5 DEF Get, Collected, Exists, redis, history
<1>6. CASE Unlock \/ RedisError
  BY <1>6 DEF Unlock, RedisError, Collected
<1>7. CASE FindRoomThrows
  BY <1>7 DEF FindRoomThrows, Collected
<1>8. ASSUME Elsewhere PROVE Collected'
  BY <1>8 DEF Elsewhere, redis, poller, history, Collected, Exists
<1>9. QED
  BY <1>1, <1>2, <1>3, <1>4, <1>5, <1>6, <1>7, <1>8, FrontSteps
     DEF Next, PollerStep, Terminated, vars, Elsewhere

LEMMA ProgressStep ==
  TypeOK /\ KeysOfServers /\ Collected /\ Progress /\ [Next]_vars => Progress'
<1> SUFFICES ASSUME TypeOK, KeysOfServers, Collected, Progress, [Next]_vars
             PROVE  Progress'
  OBVIOUS
<1> USE Constants
<1>1. ASSUME GameServerStep, Up PROVE Progress'
  <2>1. PICK s \in Servers :
          SetEndpoint(s) \/ SetPlayerCount(s)
            \/ IncrPlayerCount(s) \/ DecrPlayerCount(s)
            \/ DelEndpoint(s) \/ DelPlayerCount(s) \/ Crash(s)
    BY <1>1 DEF GameServerStep
  <2>2. UNCHANGED <<poll, unvisited, keys, rooms, present>> /\ torn \subseteq torn'
    BY <2>1, ServerSteps DEF poller
  <2>3. ASSUME InPoll, NEW x \in Servers \ torn'
        PROVE  /\ x \in endpoint <=> x \in endpoint'
               /\ counts[x] = None <=> counts'[x] = None
    BY <2>1, <2>3, ServerSteps
  <2>4. QED
    BY <2>2, <2>3 DEF Progress, InPoll, Registered, Absent, HasRead
<1>2. CASE LockAndClear
  BY <1>2 DEF LockAndClear, BeginPoll, Progress, InPoll, Registered, Absent, redis
<1>3. CASE Scan
  <2>1. PICK batch \in SUBSET unvisited :
          /\ unvisited' = unvisited \ batch
          /\ keys' = keys \cup {k \in batch : Exists(k)}
    BY <1>3 DEF Scan
  <2>2. ASSUME NEW k \in Keys, Registered(k[1]) PROVE Exists(k)
    BY <2>2 DEF Exists, Registered
  <2>3. QED
    BY <1>3, <2>1, <2>2
       DEF Scan, Progress, InPoll, Registered, Absent, HasRead, redis, history
<1>4. CASE EndScan
  BY <1>4 DEF EndScan, Progress, InPoll, Registered, Absent, HasRead, redis, history
<1>5. ASSUME NEW k \in keys, Get(k) PROVE Progress'
  <2> SUFFICES ASSUME InPoll', NEW s \in Servers \ torn'
               PROVE  IF s \in present'
                      THEN /\ Registered(s)'
                           /\ \A j \in Keys :
                                j[1] = s => j \in unvisited' \/ j \in keys' \/ HasRead(j)'
                      ELSE Absent(s)' /\ rooms'[s] = None
    BY DEF Progress
  <2>1. InPoll /\ s \in Servers \ torn /\ Up
    BY <1>5 DEF Get, InPoll, Up, history
  <2>2. UNCHANGED <<redis, unvisited, present>> /\ keys' = keys \ {k}
    BY <1>5 DEF Get, history
  <2>3. k \in Keys /\ k[1] \in Servers /\ k[2] \in {"endpoint", "player_count"}
        /\ k = <<k[1], k[2]>>
    BY DEF TypeOK, Keys
  <2>4. Exists(k) /\ rooms' = [rooms EXCEPT ![k[1]] = Merged(k[1], k[2])]
    BY <1>5, <2>1 DEF Get, InPoll
  <2>5. CASE s \notin present
    <3>1. Absent(s) /\ rooms[s] = None
      BY <2>1, <2>5 DEF Progress
    <3>2. k[1] # s
      BY <2>3, <2>4, <3>1 DEF Exists, Absent
    <3>3. QED
      BY <2>2, <2>3, <2>4, <2>5, <3>1, <3>2 DEF TypeOK, Absent, redis
  <2>6. CASE s \in present
    <3>1. Registered(s) /\ \A j \in Keys :
            j[1] = s => j \in unvisited \/ j \in keys \/ HasRead(j)
      BY <2>1, <2>6 DEF Progress
    <3>2. ASSUME NEW j \in Keys, j[1] = s, HasRead(j) \/ j = k PROVE HasRead(j)'
      <4>1. CASE k[1] # s
        BY <2>3, <2>4, <3>2, <4>1 DEF HasRead, TypeOK
      <4>2. CASE k[1] = s
        <5> DEFINE e == Merged(s, k[2])
        <5>1. rooms'[s] = e
          BY <2>3, <2>4, <4>2 DEF TypeOK
        <5>2. /\ e \in Entries
              /\ k[2] = "endpoint" => e.endpoint
              /\ k[2] = "player_count" => e.count = counts[s]
              /\ k[2] = "endpoint" /\ rooms[s] # None => e.count = rooms[s].count
              /\ k[2] = "player_count" /\ rooms[s] # None =>
                   e.endpoint = rooms[s].endpoint
          BY <2>3, MergedFacts DEF TypeOK
        <5> HIDE DEF e
        <5>3. e # None /\ counts[s] # None
          BY <3>1, <5>2 DEF Registered
        <5>4. j[2] \in {"endpoint", "player_count"}
          BY DEF Keys
        <5>5. CASE j = k
          BY <3>2, <5>1, <5>2, <5>3, <5>4, <5>5 DEF HasRead
        <5>6. CASE j # k /\ HasRead(j)
          <6>1. j[2] # k[2]
            BY <2>3, <3>2, <4>2, <5>6 DEF Keys
          <6>2. rooms[s] # None
            BY <3>2, <5>6 DEF HasRead
          <6>3. QED
            BY <2>3, <3>2, <5>1, <5>2, <5>3, <5>4, <5>6, <6>1, <6>2 DEF HasRead
        <5>7. QED
          BY <3>2, <5>5, <5>6
      <4>3. QED
        BY <4>1, <4>2
    <3>3. QED
      BY <2>2, <2>6, <3>1, <3>2 DEF Registered, redis
  <2>7. QED
    BY <2>2, <2>5, <2>6
<1>6. CASE Unlock \/ RedisError \/ FindRoomThrows
  BY <1>6 DEF Unlock, RedisError, FindRoomThrows, Progress, InPoll
<1>8. ASSUME Elsewhere PROVE Progress'
  BY <1>8 DEF Elsewhere, redis, poller, history, Progress, InPoll, Registered,
              Absent, HasRead
<1>9. QED
  BY <1>1, <1>2, <1>3, <1>4, <1>5, <1>6, <1>8, FrontSteps
     DEF Next, PollerStep, Terminated, vars, Elsewhere

(* A poll that ends has everything in the map; one that an error ends has   *)
(* nothing in it that it should not have.                                   *)
LEMMA SettledStep ==
  TypeOK /\ KeysOfServers /\ Collected /\ Progress /\ SettledServersAreListed
    /\ [Next]_vars => SettledServersAreListed'
<1> SUFFICES ASSUME TypeOK, KeysOfServers, Collected, Progress,
                    SettledServersAreListed, [Next]_vars
             PROVE  SettledServersAreListed'
  OBVIOUS
<1>1. ASSUME UNCHANGED <<poll, rooms, present, failed>>, ~InPoll => torn' = torn
      PROVE  SettledServersAreListed'
  BY <1>1 DEF SettledServersAreListed, InPoll, Listed, Complete
<1>2. CASE GameServerStep
  <2>1. UNCHANGED <<poll, rooms, present, failed>> /\ (~InPoll => torn' = torn)
    BY <1>2, ServerSteps DEF GameServerStep, poller
  <2>2. QED
    BY <1>1, <2>1
<1>3. CASE Unlock
  <2> SUFFICES ASSUME NEW s \in Servers \ torn
               PROVE  /\ s \in Listed => s \in present
                      /\ s \in present => s \in Listed /\ Complete(rooms[s])
    BY <1>3 DEF Unlock, SettledServersAreListed, Listed, Complete, history
  <2>1. InPoll /\ unvisited = {} /\ keys = {}
    BY <1>3 DEF Unlock, InPoll, Collected
  <2>2. CASE s \in present
    <3>1. <<s, "endpoint">> \in Keys /\ <<s, "player_count">> \in Keys
      BY DEF Keys
    <3>2. HasRead(<<s, "endpoint">>) /\ HasRead(<<s, "player_count">>)
      BY <2>1, <2>2, <3>1 DEF Progress
    <3>3. QED
      BY <2>2, <3>2 DEF HasRead, Listed, Complete
  <2>3. CASE s \notin present
    BY <2>1, <2>3 DEF Progress, Listed
  <2>4. QED
    BY <2>2, <2>3
<1>4. CASE RedisError
  <2>1. \A s \in Servers \ torn : s \in Listed => s \in present
    BY <1>4 DEF RedisError, Progress, Listed
  <2>2. UNCHANGED <<rooms, present, torn>> /\ failed'
    BY <1>4 DEF RedisError
  <2>3. QED
    BY <2>1, <2>2 DEF SettledServersAreListed, Listed
<1>5. CASE LockAndClear \/ Scan \/ EndScan \/ (\E k \in keys : Get(k)) \/ FindRoomThrows
  <2>1. poll' # "sleep"
    BY <1>5 DEF LockAndClear, BeginPoll, Scan, EndScan, Get, FindRoomThrows
  <2>2. QED
    BY <2>1 DEF SettledServersAreListed
<1>6. CASE Elsewhere
  BY <1>1, <1>6 DEF Elsewhere, poller, history
<1>7. QED
  BY <1>2, <1>3, <1>4, <1>5, <1>6, FrontSteps
     DEF Next, PollerStep, Terminated, vars, Elsewhere

(* Both ways to die: a key that was found is gone, or a count is missing    *)
(* from a map that nobody is rebuilding.                                    *)
LEMMA KillsStep == IInv /\ [Next]_vars => OnlyPartialPollsKill'
<1> SUFFICES ASSUME IInv, [Next]_vars PROVE OnlyPartialPollsKill'
  OBVIOUS
<1> USE DEF IInv, OnlyPartialPollsKill
<1>1. ASSUME poll' \in {"sleep", "scan", "get"} PROVE OnlyPartialPollsKill'
  BY <1>1
<1>2. ASSUME Up, GameServerStep PROVE OnlyPartialPollsKill'
  <2>1. poll' = poll
    BY <1>2, ServerSteps DEF GameServerStep, poller
  <2>2. QED
    BY <1>1, <1>2, <2>1 DEF Up, TypeOK
<1>3. ASSUME Up, NEW k \in keys, Get(k) PROVE OnlyPartialPollsKill'
  <2>1. torn' = torn /\ (poll' = poll \/ (poll' = "asserted" /\ ~Exists(k)))
    BY <1>3 DEF Get, history
  <2>2. Exists(k) \/ k[1] \in torn
    BY <1>3 DEF Collected
  <2>3. QED
    BY <1>1, <1>3, <2>1, <2>2 DEF Up, TypeOK
<1>4. ASSUME Up, FindRoomThrows PROVE OnlyPartialPollsKill'
  <2>1. PICK s \in Listed : rooms[s].count = None
    BY <1>4 DEF FindRoomThrows
  <2>2. poll = "sleep"
    BY <1>4 DEF FindRoomThrows, Collected, InPoll, Up, TypeOK
  <2>3. s \in torn \/ failed
    BY <2>1, <2>2 DEF SettledServersAreListed, Listed, Complete
  <2>4. poll' = "terminated" /\ UNCHANGED <<rooms, torn, failed>>
    BY <1>4 DEF FindRoomThrows, history
  <2>5. QED
    BY <2>1, <2>3, <2>4 DEF Listed
<1>5. CASE LockAndClear \/ Scan \/ EndScan \/ Unlock \/ RedisError
  <2>1. poll' \in {"sleep", "scan", "get"}
    BY <1>5 DEF LockAndClear, BeginPoll, Scan, EndScan, Unlock, RedisError
  <2>2. QED
    BY <1>1, <2>1
<1>6. CASE Elsewhere
  BY <1>6 DEF Elsewhere, poller, history, Listed
<1>7. QED
  BY <1>2, <1>3, <1>4, <1>5, <1>6, FrontSteps
     DEF Next, PollerStep, Terminated, vars, Elsewhere

LEMMA IInvStep == IInv /\ [Next]_vars => IInv'
BY TypeStep, KeysStep, CollectedStep, ProgressStep, SettledStep, KillsStep DEF IInv

LEMMA Inductive == Spec => []IInv
BY InitIInv, IInvStep, PTL DEF Spec

-----------------------------------------------------------------------------
(* Every reachable state is well typed.                                     *)
THEOREM TypeCorrect == Spec => []TypeOK
<1>1. IInv => TypeOK
  BY DEF IInv
<1>2. QED
  BY Inductive, <1>1, PTL

(* Keys without a server are left by kills alone, and a server that runs    *)
(* has both of its keys (GameServer.cpp:41-63).                             *)
THEOREM KillsAloneLeaveKeys == Spec => []KeysOutliveOnlyKills
<1>1. IInv => KeysOutliveOnlyKills
  BY DEF IInv, KeysOfServers, KeysOutliveOnlyKills
<1>2. QED
  BY Inductive, <1>1, PTL

(* Of the servers that did not come or go while a poll ran, it lists none   *)
(* that was away, and, unless a redis error ended it, all that were there,  *)
(* completely (EntryServer.cpp:19-71).                                      *)
THEOREM PollsSettle == Spec => []SettledServersAreListed
<1>1. IInv => SettledServersAreListed
  BY DEF IInv
<1>2. QED
  BY Inductive, <1>1, PTL

(* The entry server dies only of a server that came or went while the last  *)
(* poll ran, or of an entry that a redis error left without its count       *)
(* (EntryServer.cpp:48, 65, 139).                                           *)
THEOREM PartialPollsAloneKill == Spec => []OnlyPartialPollsKill
<1>1. IInv => OnlyPartialPollsKill
  BY DEF IInv
<1>2. QED
  BY Inductive, <1>1, PTL

(* A client is answered with a server that was registered when the last     *)
(* poll began or that came or went while it ran; the endpoint is missing    *)
(* only of the latter, or after a redis error (EntryServer.cpp:133-147).    *)
THEOREM AnswersAreAlwaysRooms == Spec => AnswersAreRooms
<1> DEFINE Answer ==
      \A c \in Clients :
        conn[c] = "served" /\ conn'[c] = "answered" =>
          LET room == answer'[c] IN
          /\ room.name \in present \cup torn
          /\ ~room.endpoint => room.name \in torn \/ failed
<1>1. IInv /\ [Next]_vars => Answer
  <2> SUFFICES ASSUME IInv, [Next]_vars, NEW c \in Clients,
                      conn[c] = "served", conn'[c] = "answered"
               PROVE  /\ answer'[c].name \in present \cup torn
                      /\ ~answer'[c].endpoint => answer'[c].name \in torn \/ failed
    OBVIOUS
  <2> USE DEF IInv
  <2>1. FindRoom
    <3>1. UNCHANGED conn => FALSE
      OBVIOUS
    <3>2. ~GameServerStep
      BY <3>1, ServerSteps DEF GameServerStep, front
    <3>3. ~(PollerStep \/ RedisError \/ FindRoomThrows)
      BY <3>1 DEF PollerStep, LockAndClear, BeginPoll, Scan, EndScan, Get,
                  Unlock, RedisError, FindRoomThrows, front
    <3>4. ~(CallbackStep \/ ClientStep)
      BY DEF CallbackStep, ClientStep, OnConnecting, OnClosed, ClientConnects,
             ClientLeaves, TypeOK
    <3>5. QED
      BY <3>1, <3>2, <3>3, <3>4 DEF Next, Terminated, vars, front
  <2>2. Up
    BY <2>1 DEF Next, Terminated, vars, front
  <2>3. PICK s \in Listed : SendRoom(serving, rooms[s])
    BY <2>1 DEF FindRoom
  <2>4. poll = "sleep"
    BY <2>1, <2>2 DEF FindRoom, Collected, InPoll, Up, TypeOK
  <2>5. c = serving
    BY <2>3 DEF SendRoom, TypeOK
  <2>6. answer'[c] = AnswerFrom(rooms[s])
    BY <2>3, <2>5 DEF SendRoom, TypeOK
  <2>7. answer'[c].name = s /\ answer'[c].endpoint = rooms[s].endpoint
    BY <2>6 DEF AnswerFrom, TypeOK
  <2>8. /\ s \in present \cup torn
        /\ ~rooms[s].endpoint => s \in torn \/ failed
    BY <2>4 DEF SettledServersAreListed, Listed, Complete
  <2>9. QED
    BY <2>7, <2>8
<1>2. QED
  BY Inductive, <1>1, PTL DEF Spec, AnswersAreRooms
=============================================================================
