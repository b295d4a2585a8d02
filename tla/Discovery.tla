----------------------------- MODULE Discovery -----------------------------
(***************************************************************************)
(* Service discovery: game servers that write two keys each into redis     *)
(* (GameServer.cpp), the entry server's poller thread that copies redis    *)
(* into m_AvailableServersMap, and its main thread that sends every        *)
(* newcomer to the least crowded room of that map (EntryServer.cpp).       *)
(* The poller's redis calls are separate steps, between which servers come *)
(* and go; the two threads share m_ServerMapMutex.                         *)
(***************************************************************************)
EXTENDS Integers, FiniteSets

CONSTANTS
  Servers,     \* the names of game servers
  Clients,     \* connections to the entry server
  None,        \* "no such key", "no such entry", "nobody"
  MaxCount,    \* bound: players that one server counts
  MaxStrays,   \* bound: how far below 0 it counts
  MaxErrors    \* bound: redis calls that fail

VARIABLES
  \* the game servers and redis
  server,     \* state of each game server
  endpoint,   \* the servers whose <name>.endpoint key exists
  counts,     \* the <name>.player_count keys
  errors,     \* redis calls that have failed
  \* the entry server
  poll,       \* where the poller thread is
  mutex,      \* who holds m_ServerMapMutex between two steps
  unvisited,  \* keys the SCAN cursor has not passed
  keys,       \* keys found and not yet read
  rooms,      \* m_AvailableServersMap
  serving,    \* the connection whose callback is looking for a room
  conn,       \* state of each connection
  answer,     \* what the client reads of the entry it was sent
  \* history
  present,    \* servers with both keys when the last poll began
  torn,       \* servers that came or went while it ran
  failed      \* a redis error ended it

redis == <<server, endpoint, counts>>
poller == <<poll, mutex, unvisited, keys, rooms, errors>>
front == <<serving, conn, answer>>
history == <<present, torn, failed>>
vars == <<redis, poller, front, history>>

Keys == Servers \X {"endpoint", "player_count"}
Exists(k) == IF k[2] = "endpoint" THEN k[1] \in endpoint ELSE counts[k[1]] # None
Registered(s) == s \in endpoint /\ counts[s] # None
Absent(s) == s \notin endpoint /\ counts[s] = None

\* GameServer's count of its players; a client that was never accepted is
\* taken off it too (GameServer!StrayDamage).
Counts == -MaxStrays .. MaxCount

Entries == [name : Servers, endpoint : BOOLEAN, count : Counts \cup {None}]
Answers == [name : Servers, endpoint : BOOLEAN]

ASSUME DiscoveryAssumption ==
  /\ IsFiniteSet(Servers) /\ IsFiniteSet(Clients)
  /\ MaxCount \in Nat /\ MaxStrays \in Nat /\ MaxErrors \in Nat
  /\ None \notin Servers \cup Clients \cup Int \cup Entries

AnswerFrom(e) == [name |-> e.name, endpoint |-> e.endpoint]
Complete(e) == e.endpoint /\ e.count # None
Listed == {s \in Servers : rooms[s] # None}

Up == poll \notin {"asserted", "terminated"}
InPoll == poll \in {"scan", "get"}

TypeOK ==
  /\ server \in [Servers -> {"down", "starting", "up", "stopping", "killed"}]
  /\ endpoint \subseteq Servers
  /\ counts \in [Servers -> Counts \cup {None}]
  /\ errors \in 0 .. MaxErrors
  /\ poll \in {"sleep", "scan", "get", "asserted", "terminated"}
  /\ mutex \in {"free", "poller"}
  /\ unvisited \subseteq Keys /\ keys \subseteq Keys
  /\ rooms \in [Servers -> Entries \cup {None}]
  /\ \A s \in Listed : rooms[s].name = s
  /\ serving \in Clients \cup {None}
  /\ conn \in [Clients -> {"idle", "pending", "served", "answered", "left", "closed"}]
  /\ serving # None => conn[serving] \in {"served", "left"}
  /\ answer \in [Clients -> Answers \cup {None}]
  /\ present \subseteq Servers /\ torn \subseteq Servers /\ failed \in BOOLEAN

Init ==
  /\ server = [s \in Servers |-> "down"]
  /\ endpoint = {}
  /\ counts = [s \in Servers |-> None]
  /\ errors = 0
  /\ poll = "sleep"
  /\ mutex = "free"
  /\ unvisited = {} /\ keys = {}
  /\ rooms = [s \in Servers |-> None]
  /\ serving = None
  /\ conn = [c \in Clients |-> "idle"]
  /\ answer = [c \in Clients |-> None]
  /\ present = {} /\ torn = {} /\ failed = FALSE

-----------------------------------------------------------------------------
(* Game servers.  A change of the key set during a poll tears that poll.    *)
ComesOrGoes(s) ==
  /\ torn' = IF InPoll THEN torn \cup {s} ELSE torn
  /\ UNCHANGED <<poller, front, present, failed>>

(* RegisterSelfInRedis sets the endpoint first, then the count; a server    *)
(* that was killed before starts over the keys it left.                     *)
SetEndpoint(s) ==
  /\ server[s] \in {"down", "killed"}
  /\ server' = [server EXCEPT ![s] = "starting"]
  /\ endpoint' = endpoint \cup {s}
  /\ UNCHANGED counts
  /\ ComesOrGoes(s)

SetPlayerCount(s) ==
  /\ server[s] = "starting"
  /\ server' = [server EXCEPT ![s] = "up"]
  /\ counts' = [counts EXCEPT ![s] = 0]
  /\ UNCHANGED endpoint
  /\ ComesOrGoes(s)

(* incr: a client is accepted.                                              *)
IncrPlayerCount(s) ==
  /\ server[s] = "up" /\ counts[s] < MaxCount
  /\ counts' = [counts EXCEPT ![s] = @ + 1]
  /\ UNCHANGED <<server, endpoint, poller, front, history>>

(* decr: a connection is closed, accepted before or not.                    *)
DecrPlayerCount(s) ==
  /\ server[s] = "up" /\ counts[s] > -MaxStrays
  /\ counts' = [counts EXCEPT ![s] = @ - 1]
  /\ UNCHANGED <<server, endpoint, poller, front, history>>

(* ~GameServer deletes the endpoint first, then the count.                  *)
DelEndpoint(s) ==
  /\ server[s] = "up"
  /\ server' = [server EXCEPT ![s] = "stopping"]
  /\ endpoint' = endpoint \ {s}
  /\ UNCHANGED counts
  /\ ComesOrGoes(s)

DelNothingMore(s) ==
  /\ server[s] = "stopping"
  /\ server' = [server EXCEPT ![s] = "down"]
  /\ UNCHANGED <<endpoint, counts>>
  /\ ComesOrGoes(s)

DelPlayerCount(s) ==
  /\ server[s] = "stopping"
  /\ server' = [server EXCEPT ![s] = "down"]
  /\ counts' = [counts EXCEPT ![s] = None]
  /\ UNCHANGED endpoint
  /\ ComesOrGoes(s)

(* A server that is killed leaves its keys behind.                          *)
Crash(s) ==
  /\ server[s] \in {"starting", "up", "stopping"}
  /\ server' = [server EXCEPT ![s] = "killed"]
  /\ UNCHANGED <<endpoint, counts, poller, front, history>>

-----------------------------------------------------------------------------
(* The poller thread.                                                       *)
BeginPoll(left) ==
  /\ poll = "sleep" /\ mutex = "free"
  /\ poll' = "scan"
  /\ mutex' = "poller"
  /\ rooms' = left
  /\ unvisited' = Keys
  /\ keys' = {}
  /\ present' = {s \in Servers : Registered(s)}
  /\ torn' = {s \in Servers : ~Registered(s) /\ ~Absent(s)}
  /\ failed' = FALSE
  /\ UNCHANGED <<redis, front, errors>>

LockWithoutClear == BeginPoll(rooms)

LockAndClear == BeginPoll([s \in Servers |-> None])

(* One SCAN call: some of the keys ahead of the cursor, if they exist.      *)
Scan ==
  /\ poll = "scan" /\ unvisited # {}
  /\ \E batch \in SUBSET unvisited \ {{}} :
       /\ unvisited' = unvisited \ batch
       /\ keys' = keys \cup {k \in batch : Exists(k)}
  /\ UNCHANGED <<redis, poll, mutex, rooms, errors, front, history>>

(* The cursor is back at 0.                                                 *)
EndScanAtOnce ==
  /\ poll = "scan" /\ unvisited # Keys
  /\ poll' = "get"
  /\ UNCHANGED <<redis, mutex, unvisited, keys, rooms, errors, front, history>>

EndScan ==
  /\ poll = "scan" /\ unvisited = {}
  /\ poll' = "get"
  /\ UNCHANGED <<redis, mutex, unvisited, keys, rooms, errors, front, history>>

(* One GET: its value is merged into the entry of the server it names.  The *)
(* code asserts that the key it scanned is still there.                     *)
Merged(s, type) ==
  LET old == IF rooms[s] # None THEN rooms[s]
             ELSE [name |-> s, endpoint |-> FALSE, count |-> None]
  IN  IF type = "endpoint" THEN [old EXCEPT !.endpoint = TRUE]
      ELSE [old EXCEPT !.count = counts[s]]

Get(k) ==
  /\ poll = "get" /\ k \in keys
  /\ keys' = keys \ {k}
  /\ \/ /\ Exists(k)
        /\ rooms' = [rooms EXCEPT ![k[1]] = Merged(k[1], k[2])]
        /\ UNCHANGED poll
     \/ /\ ~Exists(k)
        /\ poll' = "asserted"
        /\ UNCHANGED rooms
  /\ UNCHANGED <<redis, mutex, unvisited, errors, front, history>>

(* The lock_guard ends, and the thread sleeps for 300 ms.                   *)
Unlock ==
  /\ poll = "get" /\ keys = {}
  /\ poll' = "sleep"
  /\ mutex' = "free"
  /\ UNCHANGED <<redis, unvisited, keys, rooms, errors, front, history>>

(* A redis call throws: the lock is released, and the map stays what has    *)
(* been rebuilt of it.                                                      *)
RedisErrorKeepingLock ==
  /\ InPoll /\ errors < MaxErrors
  /\ errors' = errors + 1
  /\ poll' = "sleep"
  /\ unvisited' = {} /\ keys' = {}
  /\ failed' = TRUE
  /\ UNCHANGED <<redis, mutex, rooms, front, present, torn>>

RedisError ==
  /\ InPoll /\ errors < MaxErrors
  /\ errors' = errors + 1
  /\ poll' = "sleep"
  /\ mutex' = "free"
  /\ unvisited' = {} /\ keys' = {}
  /\ failed' = TRUE
  /\ UNCHANGED <<redis, rooms, front, present, torn>>

-----------------------------------------------------------------------------
(* The main thread: OnConnectionStatusChanged, one connection at a time.    *)

(* Connecting, accepted: look for a room before anything else is done.      *)
OnConnecting(c) ==
  /\ serving = None /\ conn[c] = "pending"
  /\ serving' = c
  /\ conn' = [conn EXCEPT ![c] = "served"]
  /\ UNCHANGED <<redis, poller, answer, history>>

(* "find room or die", under the lock; no room: sleep and look again.  The  *)
(* send to a client that has left is an error nobody sees.                  *)
SendRoomAndStay(c, e) ==
  /\ conn' = [conn EXCEPT ![c] = IF @ = "served" THEN "answered" ELSE @]
  /\ answer' = [answer EXCEPT ![c] = IF conn[c] = "served" THEN AnswerFrom(e) ELSE @]
  /\ UNCHANGED <<redis, poller, serving, history>>

SendRoom(c, e) ==
  /\ serving' = None
  /\ conn' = [conn EXCEPT ![c] = IF @ = "served" THEN "answered" ELSE @]
  /\ answer' = [answer EXCEPT ![c] = IF conn[c] = "served" THEN AnswerFrom(e) ELSE @]
  /\ UNCHANGED <<redis, poller, history>>

LeastCrowded(s) ==
  \A t \in Listed \ {s} :
    /\ rooms[s].count # None /\ rooms[t].count # None
    /\ rooms[s].count <= rooms[t].count

FindRoomUnlocked ==
  /\ serving # None
  /\ \E s \in Listed : LeastCrowded(s) /\ SendRoom(serving, rooms[s])

FindRoom ==
  /\ serving # None /\ mutex = "free"
  /\ \E s \in Listed : LeastCrowded(s) /\ SendRoom(serving, rooms[s])

(* min_element compares two entries, one of which has no player_count:      *)
(* get<int32_t>() of a null throws and nothing catches it.                  *)
FindRoomThrows ==
  /\ serving # None /\ mutex = "free"
  /\ Cardinality(Listed) > 1
  /\ \E s \in Listed : rooms[s].count = None
  /\ poll' = "terminated"
  /\ UNCHANGED <<redis, mutex, unvisited, keys, rooms, errors, front, history>>

(* ClosedByPeer, ProblemDetectedLocally, or a Connecting it cannot accept.  *)
OnClosed(c) ==
  /\ serving = None /\ conn[c] = "left"
  /\ conn' = [conn EXCEPT ![c] = "closed"]
  /\ UNCHANGED <<redis, poller, serving, answer, history>>

-----------------------------------------------------------------------------
(* Clients: NetworkClient::FindFreeRoom, which waits for one message and    *)
(* closes the connection (or throws, if the message has no "ip" in it); or  *)
(* a client that gives up.                                                  *)
ClientConnects(c) ==
  /\ conn[c] = "idle"
  /\ conn' = [conn EXCEPT ![c] = "pending"]
  /\ UNCHANGED <<redis, poller, serving, answer, history>>

ClientLeaves(c) ==
  /\ conn[c] \in {"pending", "served", "answered"}
  /\ conn' = [conn EXCEPT ![c] = "left"]
  /\ answer' = [answer EXCEPT ![c] = None]
  /\ UNCHANGED <<redis, poller, serving, history>>

Terminated == ~Up /\ UNCHANGED vars

-----------------------------------------------------------------------------
GameServerStep ==
  \E s \in Servers :
    \/ SetEndpoint(s) \/ SetPlayerCount(s)
    \/ IncrPlayerCount(s) \/ DecrPlayerCount(s)
    \/ DelEndpoint(s) \/ DelPlayerCount(s) \/ Crash(s)

PollerStep ==
  LockAndClear \/ Scan \/ EndScan \/ (\E k \in keys : Get(k)) \/ Unlock

CallbackStep == \E c \in Clients : OnConnecting(c) \/ OnClosed(c)

ClientStep == \E c \in Clients : ClientConnects(c) \/ ClientLeaves(c)

Next ==
  \/ Up /\ (GameServerStep \/ PollerStep \/ RedisError \/ CallbackStep
             \/ FindRoom \/ FindRoomThrows \/ ClientStep)
  \/ Terminated

Spec == Init /\ [][Next]_vars

(* Both threads keep running.  The poller sleeps 300 ms without the lock,   *)
(* so the main thread, which wants it, gets it again and again; RunCallbacks*)
(* hands out every connection's state changes.                              *)
FairSpec ==
  /\ Spec
  /\ WF_vars(Up /\ PollerStep)
  /\ SF_vars(Up /\ FindRoom)
  /\ \A c \in Clients : SF_vars(Up /\ OnConnecting(c)) /\ SF_vars(Up /\ OnClosed(c))

-----------------------------------------------------------------------------
(* Properties.                                                              *)

(* Keys without a server are left by kills alone, and heal: a server that   *)
(* has ended by itself has none, one that runs has both, whatever an        *)
(* earlier kill of it left half set or half deleted (GameServer.cpp:41-63). *)
KeysOutliveOnlyKills ==
  \A s \in Servers :
    /\ server[s] = "down" => Absent(s)
    /\ server[s] = "up" => Registered(s)

(* Of the servers that neither came nor went while it ran and were not half *)
(* registered, a poll lists none that was not registered when it began; and *)
(* a poll that no redis error ended lists all that were, with endpoint and  *)
(* count (EntryServer.cpp:25-63, GameServer.cpp:54-55, 61-62).              *)
SettledServersAreListed ==
  poll = "sleep" =>
    \A s \in Servers \ torn :
      /\ s \in Listed => s \in present
      /\ ~failed /\ s \in present => s \in Listed /\ Complete(rooms[s])

(* A client is sent to a server that was registered when the last poll      *)
(* began or came or went while it ran.  It may miss the endpoint it needs   *)
(* only if that server came or went or a redis error ended the poll, never  *)
(* because the map was being rebuilt (EntryServer.cpp:23, 65, 133-147;      *)
(* NetworkClient.cpp:128-129).                                              *)
AnswersAreRooms ==
  [][\A c \in Clients :
       conn[c] = "served" /\ conn'[c] = "answered" =>
         LET room == answer'[c] IN
         /\ room.name \in present \cup torn
         /\ ~room.endpoint => room.name \in torn \/ failed]_vars

(* The entry server dies only of a poll that was not of one moment: a key   *)
(* was deleted between SCAN and GET; or the count is missing of a server    *)
(* that came or went while the last poll ran, or, of any server, because a  *)
(* redis error ended it between two GETs (EntryServer.cpp:48, 65, 139).     *)
OnlyPartialPollsKill ==
  /\ poll = "asserted" => torn # {}
  /\ poll = "terminated" =>
       \E s \in Listed : rooms[s].count = None /\ (s \in torn \/ failed)

(* What EntryServer.cpp:48 asserts: a scanned key can be read.              *)
ScannedKeysExist == poll # "asserted"

(* Once some server stays registered, every client that waits for a room    *)
(* gets an answer, whoever waits with it (EntryServer.cpp:130-155).         *)
WaitersAreAnswered ==
  (\E s \in Servers : <>[]Registered(s)) =>
    \A c \in Clients :
      conn[c] \in {"pending", "served"} ~>
        conn[c] \notin {"pending", "served"} \/ ~Up

(* The map follows redis: a server that has unregistered for good is        *)
(* forgotten for good, one that stays registered is completely listed again *)
(* and again, whatever redis errors come between (EntryServer.cpp:19-71).   *)
MapFollowsRedis ==
  \A s \in Servers :
    /\ <>[]Absent(s) => <>[](s \notin Listed \/ ~Up)
    /\ <>[]Registered(s) => []<>((s \in Listed /\ Complete(rooms[s])) \/ ~Up)
=============================================================================
