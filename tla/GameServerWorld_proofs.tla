----------------------- MODULE GameServerWorld_proofs -----------------------
(***************************************************************************)
(* Proofs about what GameServer tells its peers, for every set of          *)
(* connections, every number of walls, slots and versions, and all bounds: *)
(* a peer's stream tells it the world, can be replayed, and keeps the      *)
(* promise of World.                                                       *)
(***************************************************************************)
EXTENDS GameServerWorld, GameServer_proofs, SequenceTheorems

-----------------------------------------------------------------------------
(* The inductive invariant.                                                 *)

Told(c, n) == ToldBy(view[c], out[c], n)

(* No two entities that exist share a slot.                                 *)
OnePerSlot == \A x, y \in Valid : SlotOf(x) = SlotOf(y) => x = y

(* Who has never been connected has been told of nothing, and nothing is on *)
(* its way to who is not connected, whether the server still runs or not.   *)
Strangers ==
  \A c \in Conns : /\ conn[c] \in {"idle", "connecting"} => view[c] = {}
                   /\ conn[c] # "connected" => out[c] = <<>>

(* What a connected peer will have been told when it has read everything.   *)
ToldAll(c) ==
  /\ Told(c, Len(out[c])) \ WallIds = Circles
  /\ Told(c, Len(out[c])) # {}
  /\ strays = 0 => ZeroId \in Told(c, Len(out[c]))

(* What has been destroyed in a stream had been issued, and is not          *)
(* announced afterwards.                                                    *)
NoReturn(c) ==
  /\ \A i \in DOMAIN out[c] : \A x \in Drops(out[c][i]) :
       SlotOf(x) \in Slots /\ VersionOf(x) < issued[SlotOf(x)]
  /\ \A i, j \in DOMAIN out[c] : i < j => Drops(out[c][i]) \cap Adds(out[c][j]) = {}

Spoilt(s) == strays > 0 /\ s = SlotOf(ZeroId)

(* Message m fits a reader that has been told of the entities told.         *)
Fits(m, told) ==
  /\ m.type = "greeting" <=> told = {}
  /\ \A x \in Adds(m) : \/ ~Occupied(told \cup (Adds(m) \ {x}), SlotOf(x))
                        \/ Spoilt(SlotOf(x))
  /\ m.type \in {"coords", "destroy"} => m.id \in told \/ (m.id = ZeroId /\ strays > 1)

Replayable(c) == \A i \in DOMAIN out[c] : Fits(out[c][i], Told(c, i - 1))

Stream(c) == ToldAll(c) /\ NoReturn(c) /\ Replayable(c)

Streams == \A c \in Conns : conn[c] = "connected" => Stream(c)

Greeted == OnePerSlot /\ Strangers /\ Streams

-----------------------------------------------------------------------------
(* ToldBy: what a reader has been told by a growing and shrinking stream.   *)

AddsOf(s) == UNION {Adds(s[i]) : i \in 1 .. Len(s)}
DropsOf(s) == UNION {Drops(s[i]) : i \in 1 .. Len(s)}

LEMMA AppendedParts ==
  ASSUME NEW s \in Seq(Messages), NEW m \in Messages
  PROVE  /\ Append(s, m) \in Seq(Messages)
         /\ Len(s) \in Nat /\ Len(Append(s, m)) = Len(s) + 1
         /\ DOMAIN s = 1 .. Len(s) /\ DOMAIN Append(s, m) = 1 .. Len(s) + 1
         /\ Append(s, m)[Len(s) + 1] = m
         /\ \A i \in 1 .. Len(s) : Append(s, m)[i] = s[i]
OBVIOUS

(* A message that is sent changes nothing of what the earlier ones tell.    *)
LEMMA ToldBefore ==
  ASSUME NEW V, NEW s \in Seq(Messages), NEW m \in Messages
  PROVE  \A n \in 0 .. Len(s) : ToldBy(V, Append(s, m), n) = ToldBy(V, s, n)
<1> DEFINE t == Append(s, m)
<1>1. /\ Len(s) \in Nat
      /\ \A i \in 1 .. Len(s) : t[i] = s[i]
  BY AppendedParts
<1> HIDE DEF t
<1>2. ASSUME NEW n \in 0 .. Len(s) PROVE ToldBy(V, t, n) = ToldBy(V, s, n)
  <2>1. \A i \in 1 .. n : t[i] = s[i]
    BY <1>1
  <2>2. /\ {Adds(t[i]) : i \in 1 .. n} = {Adds(s[i]) : i \in 1 .. n}
        /\ {Drops(t[i]) : i \in 1 .. n} = {Drops(s[i]) : i \in 1 .. n}
    BY <2>1
  <2> QED
    BY <2>2 DEF ToldBy
<1> QED
  BY <1>2 DEF t

(* What it tells comes on top of them.                                      *)
LEMMA ToldAppended ==
  ASSUME NEW V, NEW s \in Seq(Messages), NEW m \in Messages
  PROVE  ToldBy(V, Append(s, m), Len(s) + 1) =
           (V \cup AddsOf(s) \cup Adds(m)) \ (DropsOf(s) \cup Drops(m))
<1> DEFINE t == Append(s, m)
<1>1. /\ Len(s) \in Nat
      /\ t[Len(s) + 1] = m
      /\ \A i \in 1 .. Len(s) : t[i] = s[i]
  BY AppendedParts
<1> HIDE DEF t
<1>2. 1 .. Len(s) + 1 = (1 .. Len(s)) \cup {Len(s) + 1}
  BY <1>1
<1>3. /\ UNION {Adds(t[i]) : i \in 1 .. Len(s) + 1} = AddsOf(s) \cup Adds(m)
      /\ UNION {Drops(t[i]) : i \in 1 .. Len(s) + 1} = DropsOf(s) \cup Drops(m)
  BY <1>1, <1>2 DEF AddsOf, DropsOf
<1> QED
  BY <1>3 DEF ToldBy, t

LEMMA ToldByAll ==
  ASSUME NEW V, NEW s
  PROVE  ToldBy(V, s, Len(s)) = (V \cup AddsOf(s)) \ DropsOf(s)
BY DEF ToldBy, AddsOf, DropsOf

LEMMA ToldByNone ==
  ASSUME NEW V, NEW s
  PROVE  ToldBy(V, s, 0) = V
<1>1. 1 .. 0 = {}
  OBVIOUS
<1> QED
  BY <1>1 DEF ToldBy

(* An announcement of what was not destroyed before adds to what is told,   *)
(* a destruction takes from it.                                             *)
LEMMA ToldAdded ==
  ASSUME NEW V, NEW s \in Seq(Messages), NEW m \in Messages,
         Drops(m) = {}, \A i \in DOMAIN s : Drops(s[i]) \cap Adds(m) = {}
  PROVE  ToldBy(V, Append(s, m), Len(s) + 1) = ToldBy(V, s, Len(s)) \cup Adds(m)
<1>1. DropsOf(s) \cap Adds(m) = {}
  <2>1. DOMAIN s = 1 .. Len(s)
    OBVIOUS
  <2> QED
    BY <2>1 DEF DropsOf
<1> QED
  BY <1>1, ToldAppended, ToldByAll

LEMMA ToldDropped ==
  ASSUME NEW V, NEW s \in Seq(Messages), NEW m \in Messages, Adds(m) = {}
  PROVE  ToldBy(V, Append(s, m), Len(s) + 1) = ToldBy(V, s, Len(s)) \ Drops(m)
BY ToldAppended, ToldByAll

(* Reading a message moves what it tells from the stream to the reader.     *)
LEMMA ToldRead ==
  ASSUME NEW V, NEW s \in Seq(Messages), s # <<>>,
         \A i, j \in DOMAIN s : i < j => Drops(s[i]) \cap Adds(s[j]) = {}
  PROVE  /\ Tail(s) \in Seq(Messages) /\ Head(s) = s[1]
         /\ Len(Tail(s)) = Len(s) - 1 /\ Len(s) \in Nat \ {0}
         /\ \A i \in 1 .. Len(s) - 1 : Tail(s)[i] = s[i + 1]
         /\ \A n \in 0 .. Len(s) - 1 :
              ToldBy((V \cup Adds(Head(s))) \ Drops(Head(s)), Tail(s), n)
                = ToldBy(V, s, n + 1)
<1> DEFINE t == Tail(s)
<1>1. /\ t \in Seq(Messages) /\ Head(s) = s[1]
      /\ Len(t) = Len(s) - 1 /\ Len(s) \in Nat \ {0}
      /\ \A i \in 1 .. Len(s) - 1 : t[i] = s[i + 1]
      /\ DOMAIN s = 1 .. Len(s)
  OBVIOUS
<1> HIDE DEF t
<1>2. ASSUME NEW n \in 0 .. Len(s) - 1
      PROVE  ToldBy((V \cup Adds(s[1])) \ Drops(s[1]), t, n) = ToldBy(V, s, n + 1)
  <2>1. \A i \in 1 .. n : t[i] = s[i + 1] /\ i + 1 \in 2 .. n + 1
    BY <1>1
  <2>2. \A j \in 2 .. n + 1 : j - 1 \in 1 .. n /\ t[j - 1] = s[j]
    <3> SUFFICES ASSUME NEW j \in 2 .. n + 1
                 PROVE  j - 1 \in 1 .. n /\ t[j - 1] = s[j]
      OBVIOUS
    <3>1. j - 1 \in 1 .. n /\ (j - 1) + 1 = j
      BY <1>1
    <3> QED
      BY <2>1, <3>1
  <2>3. /\ UNION {Adds(t[i]) : i \in 1 .. n} = UNION {Adds(s[j]) : j \in 2 .. n + 1}
        /\ UNION {Drops(t[i]) : i \in 1 .. n} = UNION {Drops(s[j]) : j \in 2 .. n + 1}
    BY <2>1, <2>2, Zenon
  <2>4. 1 .. n + 1 = {1} \cup 2 .. n + 1
    BY <1>1
  <2>5. \A j \in 2 .. n + 1 : Drops(s[1]) \cap Adds(s[j]) = {}
    <3> SUFFICES ASSUME NEW j \in 2 .. n + 1 PROVE Drops(s[1]) \cap Adds(s[j]) = {}
      OBVIOUS
    <3>1. 1 \in DOMAIN s /\ j \in DOMAIN s /\ 1 < j
      BY <1>1
    <3> QED
      BY <3>1
  <2> DEFINE A == UNION {Adds(s[j]) : j \in 2 .. n + 1}
             D == UNION {Drops(s[j]) : j \in 2 .. n + 1}
  <2>6. Drops(s[1]) \cap A = {}
    BY <2>5
  <2>7. /\ UNION {Adds(s[i]) : i \in 1 .. n + 1} = Adds(s[1]) \cup A
        /\ UNION {Drops(s[i]) : i \in 1 .. n + 1} = Drops(s[1]) \cup D
    BY <2>4
  <2>8. ToldBy(V, s, n + 1) = (V \cup Adds(s[1]) \cup A) \ (Drops(s[1]) \cup D)
    BY <2>7 DEF ToldBy
  <2>9. ToldBy((V \cup Adds(s[1])) \ Drops(s[1]), t, n)
          = (((V \cup Adds(s[1])) \ Drops(s[1])) \cup A) \ D
    BY <2>3 DEF ToldBy
  <2> HIDE DEF A, D
  <2> QED
    BY <2>6, <2>8, <2>9
<1> QED
  BY <1>1, <1>2 DEF t

-----------------------------------------------------------------------------
(* The registry, again.                                                     *)

LEMMA IdParts ==
  ASSUME NEW x \in Ids
  PROVE  SlotOf(x) \in Slots /\ VersionOf(x) \in 0 .. MaxVersion
BY DEF Ids, SlotOf, VersionOf

LEMMA MessageParts ==
  ASSUME NEW m \in Messages
  PROVE  Adds(m) \subseteq Ids /\ Drops(m) \subseteq Ids
BY DEF Adds, Drops, Messages

(* create() takes a slot in which nothing exists.                           *)
LEMMA NewSlot ==
  ASSUME TypeOK, IssuedBefore, NEW x \in Creatable(Valid, issued)
  PROVE  \A y \in Valid : SlotOf(y) # SlotOf(x)
<1>1. PICK s \in FreeSlots(Valid, issued) : x = <<s, issued[s]>>
  BY DEF Creatable
<1>2. SlotOf(x) = s /\ s \in Slots
  BY <1>1 DEF SlotOf, FreeSlots
<1>3. \/ ~Occupied(Valid, s)
      \/ issued[s] = 0
  BY <1>1 DEF FreeSlots
<1>4. \A y \in Valid : VersionOf(y) \in Nat /\ VersionOf(y) < issued[SlotOf(y)]
  BY IdParts, WorldIds, RegistryAssumption DEF IssuedBefore, Valid, TypeOK
<1> QED
  BY <1>2, <1>3, <1>4 DEF Occupied

(* A wall that is gone has gone to a stray closure; it was the first.       *)
LEMMA MissingWall ==
  ASSUME StrayDamage, NEW w \in WallIds, w \notin walls
  PROVE  w = ZeroId /\ strays # 0
BY DEF StrayDamage

(* A new entity's slot is free for every reader of the whole stream.        *)
LEMMA NewSlotFits ==
  ASSUME IInv, NEW x \in Creatable(Valid, issued),
         NEW told, told \ WallIds = Circles
  PROVE  ~Occupied(told, SlotOf(x)) \/ Spoilt(SlotOf(x))
<1> SUFFICES ASSUME NEW y \in told, SlotOf(y) = SlotOf(x) PROVE Spoilt(SlotOf(x))
  BY DEF Occupied
<1>1. y \notin Valid
  BY NewSlot DEF IInv
<1>2. y \in WallIds /\ y \notin walls
  BY <1>1 DEF Valid
<1> QED
  BY <1>2, MissingWall DEF Spoilt, IInv, TypeOK

-----------------------------------------------------------------------------
(* What each kind of step does to one peer's stream.                        *)

(* A step that leaves the peer, the world and the strays alone.             *)
LEMMA StreamKept ==
  ASSUME TypeOK, NEW c \in Conns, Stream(c),
         out'[c] = out[c], view'[c] = view[c], Circles' = Circles, strays' = strays,
         \A s \in Slots : issued'[s] >= issued[s], issued' \in [Slots -> Nat]
  PROVE  Stream(c)'
<1>1. ToldAll(c)'
  BY DEF Stream, ToldAll, Told, WallIds
<1>2. NoReturn(c)'
  <2>1. \A i \in DOMAIN out[c] : \A x \in Drops(out[c][i]) : VersionOf(x) \in Nat
    BY MessageParts, IdParts, RegistryAssumption DEF TypeOK
  <2> QED
    BY <2>1 DEF Stream, NoReturn, TypeOK
<1>3. Replayable(c)'
  BY DEF Stream, Replayable, Fits, Told, Spoilt
<1> QED
  BY <1>1, <1>2, <1>3 DEF Stream

(* A message that fits the reader of all that is sent before it, and        *)
(* announces nothing that was destroyed, can be appended.                   *)
LEMMA StreamAppended ==
  ASSUME TypeOK, NEW c \in Conns, Stream(c), NEW m \in Messages,
         out'[c] = Append(out[c], m), view'[c] = view[c],
         strays' \in Nat, strays' >= strays,
         \A s \in Slots : issued'[s] >= issued[s], issued' \in [Slots -> Nat],
         \A x \in Drops(m) : VersionOf(x) < issued'[SlotOf(x)],
         \A x \in Adds(m) : issued[SlotOf(x)] <= VersionOf(x),
         m.type # "greeting",
         \A x \in Adds(m) :
           \/ ~Occupied(Told(c, Len(out[c])) \cup (Adds(m) \ {x}), SlotOf(x))
           \/ Spoilt(SlotOf(x)),
         m.type \in {"coords", "destroy"} =>
           m.id \in Told(c, Len(out[c])) \/ (m.id = ZeroId /\ strays' > 1)
  PROVE  NoReturn(c)' /\ Replayable(c)'
<1> DEFINE s == out[c]
           n == Len(s)
<1>1. /\ s \in Seq(Messages) /\ n \in Nat /\ DOMAIN s = 1 .. n
      /\ out'[c] \in Seq(Messages) /\ DOMAIN out'[c] = 1 .. n + 1
      /\ out'[c][n + 1] = m
      /\ \A i \in 1 .. n : out'[c][i] = s[i]
      /\ \A k \in 0 .. n : ToldBy(view'[c], out'[c], k) = ToldBy(view[c], s, k)
  <2>1. s \in Seq(Messages)
    BY DEF TypeOK
  <2>2. /\ n \in Nat /\ DOMAIN s = 1 .. n
        /\ Append(s, m) \in Seq(Messages) /\ DOMAIN Append(s, m) = 1 .. n + 1
        /\ Append(s, m)[n + 1] = m
        /\ \A i \in 1 .. n : Append(s, m)[i] = s[i]
    BY <2>1, AppendedParts
  <2>3. \A k \in 0 .. n : ToldBy(view[c], Append(s, m), k) = ToldBy(view[c], s, k)
    BY <2>1, ToldBefore
  <2> QED
    BY <2>1, <2>2, <2>3
<1>2. \A i \in 1 .. n : \A x \in Drops(s[i]) :
        SlotOf(x) \in Slots /\ VersionOf(x) \in Nat /\ VersionOf(x) < issued[SlotOf(x)]
  BY <1>1, MessageParts, IdParts, RegistryAssumption DEF Stream, NoReturn
<1>3. \A i \in 1 .. n : Drops(s[i]) \cap Adds(m) = {}
  <2> SUFFICES ASSUME NEW i \in 1 .. n, NEW x \in Drops(s[i]), x \in Adds(m)
               PROVE  FALSE
    OBVIOUS
  <2> QED
    BY <1>2 DEF TypeOK
<1>4. NoReturn(c)'
  <2>1. ASSUME NEW i \in 1 .. n + 1, NEW x \in Drops(out'[c][i])
        PROVE  SlotOf(x) \in Slots /\ VersionOf(x) < issued'[SlotOf(x)]
    <3>1. CASE i = n + 1
      BY <1>1, <2>1, <3>1, MessageParts, IdParts
    <3>2. CASE i \in 1 .. n
      BY <1>1, <1>2, <2>1, <3>2 DEF TypeOK
    <3> QED
      BY <1>1, <3>1, <3>2
  <2>2. ASSUME NEW i \in 1 .. n + 1, NEW j \in 1 .. n + 1, i < j
        PROVE  Drops(out'[c][i]) \cap Adds(out'[c][j]) = {}
    <3>1. i \in 1 .. n /\ out'[c][i] = s[i]
      BY <1>1, <2>2
    <3>2. CASE j = n + 1
      BY <1>1, <1>3, <3>1, <3>2
    <3>3. CASE j \in 1 .. n
      BY <1>1, <2>2, <3>1, <3>3 DEF Stream, NoReturn
    <3>4. j = n + 1 \/ j \in 1 .. n
      BY <1>1
    <3> QED
      BY <3>2, <3>3, <3>4
  <2> QED
    BY <1>1, <2>1, <2>2 DEF NoReturn
<1>5. Replayable(c)'
  <2> SUFFICES ASSUME NEW i \in 1 .. n + 1
               PROVE  Fits(out[c][i], Told(c, i - 1))'
    BY <1>1 DEF Replayable
  <2>1. Told(c, i - 1)' = Told(c, i - 1)
    BY <1>1 DEF Told
  <2>2. CASE i \in 1 .. n
    <3>1. Fits(s[i], Told(c, i - 1)) /\ out'[c][i] = s[i]
      BY <1>1, <2>2 DEF Stream, Replayable
    <3> QED
      BY <2>1, <3>1 DEF Fits, Spoilt, TypeOK
  <2>3. CASE i = n + 1
    <3>1. out'[c][i] = m /\ Told(c, i - 1)' = Told(c, n) /\ Told(c, n) # {}
      BY <1>1, <2>1, <2>3 DEF Stream, ToldAll
    <3> QED
      BY <3>1 DEF Fits, Spoilt, TypeOK
  <2> QED
    BY <1>1, <2>2, <2>3
<1> QED
  BY <1>4, <1>5

(* What the peer will have been told once a message is appended.            *)
LEMMA ToldAfterDrop ==
  ASSUME NEW c, NEW m \in Messages, Adds(m) = {}, out[c] \in Seq(Messages),
         out'[c] = Append(out[c], m), view'[c] = view[c]
  PROVE  Told(c, Len(out[c]))' = Told(c, Len(out[c])) \ Drops(m)
<1>1. \A V : \A s \in Seq(Messages) :
        ToldBy(V, Append(s, m), Len(s) + 1) = ToldBy(V, s, Len(s)) \ Drops(m)
  BY ToldDropped
<1>2. Len(Append(out[c], m)) = Len(out[c]) + 1
  BY AppendedParts
<1> QED
  BY <1>1, <1>2 DEF Told

LEMMA ToldAfterAdd ==
  ASSUME NEW c, NEW m \in Messages, Drops(m) = {}, out[c] \in Seq(Messages),
         \A i \in DOMAIN out[c] : Drops(out[c][i]) \cap Adds(m) = {},
         out'[c] = Append(out[c], m), view'[c] = view[c]
  PROVE  Told(c, Len(out[c]))' = Told(c, Len(out[c])) \cup Adds(m)
<1>1. ToldBy(view[c], Append(out[c], m), Len(out[c]) + 1)
        = ToldBy(view[c], out[c], Len(out[c])) \cup Adds(m)
  BY ToldAdded
<1>2. Len(Append(out[c], m)) = Len(out[c]) + 1
  BY AppendedParts
<1> QED
  BY <1>1, <1>2 DEF Told

(* A new player or bullet is announced (GameServer.cpp:143, 339-347).       *)
LEMMA StreamAnnounces ==
  ASSUME IInv, NEW c \in Conns, Stream(c),
         NEW type \in {"connection", "shoot"}, NEW x \in Creatable(Valid, issued),
         out'[c] = Append(out[c], Message(type, x)), view'[c] = view[c],
         issued' = Issue(issued, x), strays' = strays, Circles' = Circles \cup {x}
  PROVE  Stream(c)'
<1> DEFINE m == Message(type, x)
<1>1. TypeOK /\ IssuedBefore /\ out[c] \in Seq(Messages)
  BY DEF IInv, TypeOK
<1>2. x \in Ids /\ x \notin WallIds /\ SlotOf(x) \in Slots /\ VersionOf(x) = issued[SlotOf(x)]
  BY <1>1, CreatableIsId, NewId DEF TypeOK
<1>3. m \in Messages /\ Adds(m) = {x} /\ Drops(m) = {} /\ m.type = type
  BY <1>2, MessageType DEF Message, Adds, Drops
<1> HIDE DEF m
<1>4. \A i \in DOMAIN out[c] : Drops(out[c][i]) \cap Adds(m) = {}
  <2> SUFFICES ASSUME NEW i \in DOMAIN out[c], x \in Drops(out[c][i]) PROVE FALSE
    BY <1>3
  <2>1. VersionOf(x) < issued[SlotOf(x)] /\ issued[SlotOf(x)] \in Nat
    BY <1>1, <1>2 DEF Stream, NoReturn, TypeOK
  <2> QED
    BY <1>2, <2>1
<1>5. Told(c, Len(out[c]))' = Told(c, Len(out[c])) \cup {x}
  BY <1>1, <1>3, <1>4, ToldAfterAdd DEF m
<1>6. ToldAll(c)'
  BY <1>2, <1>5 DEF Stream, ToldAll, WallIds
<1>7. NoReturn(c)' /\ Replayable(c)'
  <2>1. issued' \in [Slots -> Nat] /\ \A s \in Slots : issued'[s] >= issued[s]
    BY <1>1, <1>2, IssueType DEF TypeOK
  <2>2. ~Occupied(Told(c, Len(out[c])) \cup (Adds(m) \ {x}), SlotOf(x))
          \/ Spoilt(SlotOf(x))
    BY <1>3, NewSlotFits DEF Stream, ToldAll
  <2>3. \A y \in Adds(m) :
          /\ issued[SlotOf(y)] <= VersionOf(y)
          /\ \/ ~Occupied(Told(c, Len(out[c])) \cup (Adds(m) \ {y}), SlotOf(y))
             \/ Spoilt(SlotOf(y))
    BY <1>1, <1>2, <1>3, <2>2 DEF TypeOK
  <2>4. out'[c] = Append(out[c], m) /\ strays' \in Nat /\ strays' >= strays
    BY <1>1 DEF m, TypeOK
  <2>5. m.type # "greeting" /\ m.type \notin {"coords", "destroy"}
    BY <1>3
  <2> QED
    BY <1>1, <1>3, <2>1, <2>3, <2>4, <2>5, StreamAppended
<1> QED
  BY <1>6, <1>7 DEF Stream

(* An entity is destroyed, or the first wall once more (GameServer.cpp:180, *)
(* 289).                                                                    *)
LEMMA StreamDestroys ==
  ASSUME IInv, NEW c \in Conns, Stream(c), NEW x,
         \/ x \in Circles /\ strays' = strays
         \/ x = ZeroId /\ strays' = strays + 1,
         out'[c] = Append(out[c], Message("destroy", x)), view'[c] = view[c],
         issued' = issued, Circles' = Circles \ {x}, Circles' # {}
  PROVE  Stream(c)'
<1> DEFINE m == Message("destroy", x)
<1>1. TypeOK /\ IssuedBefore /\ out[c] \in Seq(Messages) /\ strays \in Nat
      /\ Circles \cap WallIds = {} /\ ZeroId \in WallIds
  BY ZeroIsWall DEF IInv, TypeOK, Kinds, Circles
<1>2. x \in Ids /\ SlotOf(x) \in Slots /\ VersionOf(x) < issued[SlotOf(x)]
  BY <1>1, WorldIds DEF IssuedBefore, Valid
<1>3. m \in Messages /\ Adds(m) = {} /\ Drops(m) = {x} /\ m.type = "destroy" /\ m.id = x
  BY <1>2, MessageType DEF Message, Adds, Drops
<1> HIDE DEF m
<1>5. Told(c, Len(out[c]))' = Told(c, Len(out[c])) \ {x}
  BY <1>1, <1>3, ToldAfterDrop DEF m
<1>6. ToldAll(c)'
  <2>1. Told(c, Len(out[c]))' \ WallIds = Circles'
    BY <1>5 DEF Stream, ToldAll
  <2>2. strays' = 0 => ZeroId \in Told(c, Len(out[c]))'
    BY <1>1, <1>5 DEF Stream, ToldAll
  <2> QED
    BY <2>1, <2>2 DEF ToldAll, WallIds
<1>7. NoReturn(c)' /\ Replayable(c)'
  <2>1. issued' \in [Slots -> Nat] /\ \A s \in Slots : issued'[s] >= issued[s]
    BY <1>1 DEF TypeOK
  <2>2. strays' \in Nat /\ strays' >= strays
    BY <1>1
  <2>3. x \in Told(c, Len(out[c])) \/ (x = ZeroId /\ strays' > 1)
    BY <1>1 DEF Stream, ToldAll
  <2> QED
    BY <1>1, <1>2, <1>3, <2>1, <2>2, <2>3, StreamAppended DEF m
<1> QED
  BY <1>6, <1>7 DEF Stream

(* Coordinates of a player or a bullet are sent (GameServer.cpp:206-236).   *)
LEMMA StreamMoves ==
  ASSUME IInv, NEW c \in Conns, Stream(c), NEW x \in Circles,
         out'[c] = Append(out[c], Message("coords", x)), view'[c] = view[c],
         issued' = issued, strays' = strays, Circles' = Circles
  PROVE  Stream(c)'
<1> DEFINE m == Message("coords", x)
<1>1. TypeOK /\ out[c] \in Seq(Messages) /\ strays \in Nat
  BY DEF IInv, TypeOK
<1>2. x \in Ids
  BY <1>1, WorldIds
<1>3. m \in Messages /\ Adds(m) = {} /\ Drops(m) = {} /\ m.type = "coords" /\ m.id = x
  BY <1>2, MessageType DEF Message, Adds, Drops
<1> HIDE DEF m
<1>5. Told(c, Len(out[c]))' = Told(c, Len(out[c]))
  <2>1. Told(c, Len(out[c]))' = Told(c, Len(out[c])) \ Drops(m)
    BY <1>1, <1>3, ToldAfterDrop DEF m
  <2> QED
    BY <1>3, <2>1
<1>6. ToldAll(c)'
  BY <1>5 DEF Stream, ToldAll, WallIds
<1>7. NoReturn(c)' /\ Replayable(c)'
  <2>1. issued' \in [Slots -> Nat] /\ \A s \in Slots : issued'[s] >= issued[s]
    BY <1>1 DEF TypeOK
  <2>2. x \in Told(c, Len(out[c]))
    BY DEF Stream, ToldAll
  <2>3. strays' \in Nat /\ strays' >= strays
    BY <1>1
  <2> QED
    BY <1>1, <1>3, <2>1, <2>2, <2>3, StreamAppended DEF m
<1> QED
  BY <1>6, <1>7 DEF Stream

(* A newcomer is greeted (GameServer.cpp:325-327, 361-392).                 *)
LEMMA StreamGreets ==
  ASSUME IInv, OnePerSlot, NEW c \in Conns, out[c] = <<>>, view[c] = {},
         NEW x \in Creatable(Valid, issued),
         out'[c] = Append(out[c], Greeting(x, CurrentState)), view'[c] = view[c],
         strays' = strays, Circles' = Circles \cup {x}
  PROVE  Stream(c)'
<1> DEFINE m == Greeting(x, CurrentState)
           S == WallIds \cup Circles
<1>1. TypeOK /\ IssuedBefore /\ StrayDamage /\ strays \in Nat /\ ZeroId \in WallIds
  BY ZeroIsWall DEF IInv, TypeOK
<1>2. x \in Ids /\ x \notin Valid \cup WallIds
  BY <1>1, NewId
<1>3. Circles \cap WallIds = {}
  BY DEF IInv, Kinds, Circles
<1>4. /\ m \in Messages /\ m.type = "greeting"
      /\ Adds(m) = S \cup {x} /\ Drops(m) = {}
  BY <1>1, <1>2, WorldIds DEF Greeting, Messages, Adds, Drops, CurrentState, Circles
<1>5. out'[c] = <<m>>
  <2> HIDE DEF m
  <2>1. out'[c] = Append(<<>>, m)
    BY DEF m
  <2> QED
    BY <2>1
<1> HIDE DEF m
<1>6. DOMAIN out'[c] = {1} /\ Len(out'[c]) = 1 /\ out'[c][1] = m
  BY <1>5
<1>7. Told(c, 0)' = {} /\ Told(c, 1)' = S \cup {x}
  <2>1. 1 .. 0 = {} /\ 1 .. 1 = {1}
    OBVIOUS
  <2>2. \A V, t : /\ ToldBy(V, t, 0) = V
                  /\ ToldBy(V, t, 1) = (V \cup Adds(t[1])) \ Drops(t[1])
    BY <2>1 DEF ToldBy
  <2> QED
    BY <1>4, <1>6, <2>2 DEF Told
<1>8. ToldAll(c)'
  <2>1. (S \cup {x}) \ WallIds = Circles'
    BY <1>2, <1>3
  <2> QED
    BY <1>1, <1>6, <1>7, <2>1 DEF ToldAll, WallIds
<1>9. NoReturn(c)'
  BY <1>4, <1>6 DEF NoReturn
<1>10. ASSUME NEW y \in S \cup {x}, NEW z \in S \cup {x}, y # z, SlotOf(y) = SlotOf(z)
       PROVE  Spoilt(SlotOf(y))
  <2>1. S \ WallIds = Circles
    BY <1>3
  <2>2. CASE y = x \/ z = x
    BY <1>10, <2>1, <2>2, NewSlotFits DEF Occupied
  <2>3. CASE y \in S /\ z \in S
    <3>1. PICK w \in {y, z} : w \notin Valid
      BY <1>10 DEF OnePerSlot
    <3>2. w \in WallIds /\ w \notin walls
      BY <2>3, <3>1 DEF Valid
    <3> QED
      BY <1>1, <1>10, <3>1, <3>2, MissingWall DEF Spoilt
  <2> QED
    BY <2>2, <2>3
<1>11. Replayable(c)'
  <2>1. \A y \in Adds(m) : \/ ~Occupied({} \cup (Adds(m) \ {y}), SlotOf(y))
                           \/ Spoilt(SlotOf(y))
    BY <1>4, <1>10 DEF Occupied
  <2>2. Fits(out[c][1], {})'
    BY <1>4, <1>6, <2>1 DEF Fits, Spoilt
  <2>3. Told(c, 1 - 1)' = {}
    BY <1>7
  <2> QED
    BY <1>6, <2>2, <2>3 DEF Replayable
<1> QED
  BY <1>8, <1>9, <1>11 DEF Stream

(* The peer reads (NetworkClient.cpp:71-97, Scene.cpp:133-201).             *)
LEMMA StreamReads ==
  ASSUME TypeOK, NEW c \in Conns, Stream(c), out[c] # <<>>,
         out'[c] = Tail(out[c]),
         view'[c] = (view[c] \cup Adds(Head(out[c]))) \ Drops(Head(out[c])),
         issued' = issued, strays' = strays, Circles' = Circles
  PROVE  /\ Stream(c)'
         /\ Len(out[c]) \in Nat \ {0} /\ Len(out'[c]) = Len(out[c]) - 1
         /\ \A n \in 0 .. Len(out[c]) - 1 : Told(c, n)' = Told(c, n + 1)
<1> DEFINE s == out[c]
           t == Tail(s)
<1>1. s \in Seq(Messages)
  BY DEF TypeOK
<1>2. \A i, j \in DOMAIN s : i < j => Drops(s[i]) \cap Adds(s[j]) = {}
  BY DEF Stream, NoReturn
<1>3. /\ Head(s) = s[1] /\ Len(t) = Len(s) - 1 /\ Len(s) \in Nat \ {0}
      /\ DOMAIN s = 1 .. Len(s) /\ DOMAIN t = 1 .. Len(s) - 1
      /\ \A i \in 1 .. Len(s) - 1 : t[i] = s[i + 1]
  BY <1>1
<1>4. \A n \in 0 .. Len(s) - 1 : Told(c, n)' = Told(c, n + 1)
  <2>1. \A V : \A n \in 0 .. Len(s) - 1 :
          ToldBy((V \cup Adds(Head(s))) \ Drops(Head(s)), Tail(s), n) = ToldBy(V, s, n + 1)
    BY <1>1, <1>2, ToldRead
  <2> QED
    BY <2>1 DEF Told
<1>5. ToldAll(c)'
  <2>1. Told(c, Len(out[c]))' = Told(c, Len(s))
    <3>1. Len(s) - 1 \in 0 .. Len(s) - 1 /\ (Len(s) - 1) + 1 = Len(s)
      BY <1>3
    <3> QED
      BY <1>3, <1>4, <3>1
  <2> QED
    BY <2>1 DEF Stream, ToldAll, WallIds
<1>6. NoReturn(c)'
  <2>1. ASSUME NEW i \in 1 .. Len(s) - 1, NEW y \in Drops(t[i])
        PROVE  SlotOf(y) \in Slots /\ VersionOf(y) < issued[SlotOf(y)]
    BY <1>3, <2>1 DEF Stream, NoReturn
  <2>2. ASSUME NEW i \in 1 .. Len(s) - 1, NEW j \in 1 .. Len(s) - 1, i < j
        PROVE  Drops(t[i]) \cap Adds(t[j]) = {}
    <3>1. i + 1 \in DOMAIN s /\ j + 1 \in DOMAIN s /\ i + 1 < j + 1
      BY <1>3, <2>2
    <3> QED
      BY <1>2, <1>3, <3>1
  <2> QED
    BY <1>3, <2>1, <2>2 DEF NoReturn
<1>7. Replayable(c)'
  <2> SUFFICES ASSUME NEW i \in 1 .. Len(s) - 1
               PROVE  Fits(out[c][i], Told(c, i - 1))'
    BY <1>3 DEF Replayable
  <2>1. i + 1 \in DOMAIN s /\ t[i] = s[i + 1] /\ (i + 1) - 1 = i
        /\ i - 1 \in 0 .. Len(s) - 1 /\ (i - 1) + 1 = i
    BY <1>3
  <2>2. Told(c, i - 1)' = Told(c, i)
    BY <1>4, <2>1
  <2>3. Fits(s[i + 1], Told(c, i))
    BY <2>1 DEF Stream, Replayable
  <2> QED
    BY <2>1, <2>2, <2>3 DEF Fits, Spoilt
<1> QED
  BY <1>3, <1>4, <1>5, <1>6, <1>7 DEF Stream

-----------------------------------------------------------------------------
(* The invariant is inductive.                                              *)

(* While the server runs, a broadcast reaches everybody who is connected.   *)
LEMMA ConnectedAreReached ==
  ASSUME IInv, phase \notin {"done", "threw"}, NEW d \in Conns, conn[d] = "connected"
  PROVE  d \in Reached /\ clients[d] \in players /\ clients[d] \in Circles
BY DEF IInv, Sessions, Session, Reached, PlayersAreClients, Circles

LEMMA DestroyedCircles ==
  ASSUME NEW x, Destroy(x)
  PROVE  /\ Circles' = Circles \ {x}
         /\ Valid' = Valid \ {x}
BY DEF Destroy, Circles, BulletIds, Valid

LEMMA SlotsKept ==
  ASSUME IInv, OnePerSlot, NEW x \in Creatable(Valid, issued), Valid' \subseteq Valid \cup {x}
  PROVE  OnePerSlot'
BY NewSlot DEF IInv, OnePerSlot

(* A step that leaves the world, the connected peers and their streams      *)
(* alone.                                                                   *)
LEMMA GreetedKept ==
  ASSUME IInv, Greeted, Circles' = Circles, Valid' \subseteq Valid, strays' = strays,
         issued' = issued,
         \A d \in Conns : conn'[d] = "connected" =>
           conn[d] = "connected" /\ out'[d] = out[d] /\ view'[d] = view[d],
         \A d \in Conns : conn'[d] \in {"idle", "connecting"} =>
           conn[d] \in {"idle", "connecting"} /\ view'[d] = view[d],
         \A d \in Conns : conn'[d] # "connected" =>
           out'[d] = <<>> \/ (conn[d] # "connected" /\ out'[d] = out[d])
  PROVE  Greeted'
<1>1. TypeOK /\ issued' \in [Slots -> Nat] /\ \A s \in Slots : issued'[s] >= issued[s]
  BY DEF IInv, TypeOK
<1>2. Streams'
  BY <1>1, StreamKept DEF Greeted, Streams
<1> QED
  BY <1>2 DEF Greeted, OnePerSlot, Strangers

(* The steps of the server that tell its peers something.                   *)
LEMMA GreetedShoot ==
  ASSUME IInv, Greeted, NEW c \in Conns, ProcessShoot(c)
  PROVE  Greeted'
<1> USE DEF entities, redis, peers
<1>1. Head(inbox[c]).id \in Circles
  <2>1. inbox[c] \in Seq(Requests) /\ inbox[c] # <<>>
    BY DEF ProcessShoot, IInv, TypeOK
  <2>2. 1 \in DOMAIN inbox[c] /\ Head(inbox[c]) = inbox[c][1]
    BY <2>1
  <2> QED
    BY <2>2 DEF IInv, RequestsNameOwnPlayer, PlayersAreClients, Circles
<1>2. PICK b \in Creatable(Valid, issued) :
        /\ issued' = Issue(issued, b)
        /\ SendToAll(Message("shoot", b))
        /\ bullets' = bullets \cup {[id |-> b, shooter |-> Head(inbox[c]).id]}
  BY <1>1 DEF ProcessShoot
<1>3. phase = "recv" /\ UNCHANGED <<walls, players, strays, conn, peers>>
  BY DEF ProcessShoot
<1>4. BulletIds' = BulletIds \cup {b}
  <2> DEFINE new == [id |-> b, shooter |-> Head(inbox[c]).id]
  <2>1. bullets' = bullets \cup {new} /\ new.id = b
    BY <1>2
  <2> HIDE DEF new
  <2> QED
    BY <2>1 DEF BulletIds
<1>5. Circles' = Circles \cup {b} /\ Valid' = Valid \cup {b}
  BY <1>3, <1>4 DEF Circles, Valid
<1>6. ASSUME NEW d \in Conns, conn[d] = "connected" PROVE Stream(d)'
  <2>1. d \in Reached
    BY <1>3, <1>6, ConnectedAreReached
  <2>2. out'[d] = Append(out[d], Message("shoot", b))
    BY <1>2, <2>1 DEF SendToAll
  <2> QED
    BY <1>2, <1>3, <1>5, <1>6, <2>2, StreamAnnounces DEF Greeted, Streams
<1>7. \A d \in Conns : conn[d] # "connected" => out'[d] = out[d]
  BY <1>2 DEF SendToAll, Reached
<1> QED
  BY <1>3, <1>5, <1>6, <1>7, SlotsKept DEF Greeted, Streams, Strangers

LEMMA GreetedConnecting ==
  ASSUME IInv, Greeted, NEW c \in Conns, OnConnecting(c)
  PROVE  Greeted'
<1> USE DEF entities, redis, peers
<1>1. PICK p \in Creatable(Valid, issued) :
        /\ issued' = Issue(issued, p)
        /\ players' = players \cup {p}
        /\ GreetAndAnnounce(c, p)
  BY DEF OnConnecting
<1>2. /\ phase = "callbacks" /\ conn[c] = "connecting"
      /\ conn' = [conn EXCEPT ![c] = "connected"]
      /\ UNCHANGED <<walls, bullets, strays, peers>>
  BY DEF OnConnecting
<1>3. Circles' = Circles \cup {p} /\ Valid' = Valid \cup {p}
  BY <1>1, <1>2 DEF Circles, Valid, BulletIds
<1>4. out[c] = <<>> /\ view[c] = {}
  BY <1>2 DEF IInv, Sessions, Session, Greeted, Strangers
<1>5. Stream(c)'
  <2>1. out'[c] = Append(out[c], Greeting(p, CurrentState))
    BY <1>1 DEF GreetAndAnnounce
  <2> QED
    BY <1>2, <1>3, <1>4, <2>1, StreamGreets DEF Greeted
<1>6. ASSUME NEW d \in Conns \ {c}, conn[d] = "connected" PROVE Stream(d)'
  <2>1. d \in Reached
    BY <1>2, <1>6, ConnectedAreReached
  <2>2. out'[d] = Append(out[d], Message("connection", p))
    BY <1>1, <2>1 DEF GreetAndAnnounce
  <2> QED
    BY <1>1, <1>2, <1>3, <1>6, <2>2, StreamAnnounces DEF Greeted, Streams
<1>7. \A d \in Conns \ {c} : conn'[d] = conn[d]
  BY <1>2 DEF IInv, TypeOK
<1>8. conn'[c] = "connected"
  BY <1>2 DEF IInv, TypeOK
<1>9. \A d \in Conns \ {c} : conn[d] # "connected" => out'[d] = out[d]
  BY <1>1 DEF GreetAndAnnounce, Reached
<1> QED
  BY <1>2, <1>3, <1>5, <1>6, <1>7, <1>8, <1>9, SlotsKept DEF Greeted, Streams, Strangers

LEMMA GreetedClosed ==
  ASSUME IInv, Greeted, NEW c \in Conns, OnClosed(c)
  PROVE  Greeted'
<1> USE DEF entities, redis, peers
<1> DEFINE id == IF InMap(c) THEN clients[c] ELSE ZeroId
<1>1. /\ phase = "callbacks" /\ conn[c] # "connected"
      /\ conn[c] \notin {"idle", "connecting"}
      /\ SendToAll(Message("destroy", id))
      /\ strays' = IF InMap(c) THEN strays ELSE strays + 1
      /\ UNCHANGED <<issued, peers>>
  BY DEF OnClosed, IInv, Sessions, Session
<1>2. \/ Destroy(id) /\ conn' = [conn EXCEPT ![c] = "closed"]
      \/ id \notin Valid /\ UNCHANGED <<walls, players, bullets, conn>>
  BY DEF OnClosed, TakeOut, Close
<1>3. /\ Circles' = Circles \ {id} /\ Valid' = Valid \ {id}
      /\ \A d \in Conns \ {c} : conn'[d] = conn[d]
      /\ conn'[c] \notin {"connected", "idle", "connecting"}
  <2>1. CASE Destroy(id) /\ conn' = [conn EXCEPT ![c] = "closed"]
    BY <2>1, DestroyedCircles DEF IInv, TypeOK
  <2>2. CASE id \notin Valid /\ UNCHANGED <<walls, players, bullets, conn>>
    BY <1>1, <2>2 DEF Circles, Valid, BulletIds
  <2> QED
    BY <1>2, <2>1, <2>2
<1>4. \/ id \in Circles /\ strays' = strays
      \/ id = ZeroId /\ strays' = strays + 1
  <2>1. InMap(c) => clients[c] \in Circles
    BY DEF IInv, PlayersAreClients, Circles
  <2> QED
    BY <1>1, <2>1
<1>5. ASSUME NEW d \in Conns \ {c}, conn[d] = "connected" PROVE Stream(d)'
  <2>1. d \in Reached /\ clients[d] \in Circles
    BY <1>1, <1>5, ConnectedAreReached
  <2>2. out'[d] = Append(out[d], Message("destroy", id))
    BY <1>1, <2>1 DEF SendToAll
  <2>3. clients[d] # id
    <3>1. clients[d] \in players /\ clients[d] # NoId
      BY <1>1, <1>5, ConnectedAreReached DEF Reached, InMap
    <3> QED
      BY <1>5, <3>1, ZeroIsWall DEF IInv, PlayersAreClients, Kinds, InMap
  <2>4. Circles' # {}
    BY <1>3, <2>1, <2>3
  <2> HIDE DEF id
  <2> QED
    BY <1>1, <1>3, <1>4, <1>5, <2>2, <2>4, StreamDestroys DEF Greeted, Streams
<1>6. OnePerSlot'
  BY <1>3 DEF Greeted, OnePerSlot
<1>7. \A d \in Conns : conn[d] # "connected" => out'[d] = out[d]
  BY <1>1 DEF SendToAll, Reached
<1> QED
  BY <1>1, <1>3, <1>5, <1>6, <1>7 DEF Greeted, Streams, Strangers

LEMMA GreetedHits ==
  ASSUME IInv, Greeted, NEW b \in bullets, BulletHits(b)
  PROVE  Greeted'
<1> USE DEF entities, redis, peers
<1>1. /\ phase = "bullets" /\ SendToAll(Message("destroy", b.id)) /\ Destroy(b.id)
      /\ UNCHANGED <<issued, strays, conn, peers>>
  BY DEF BulletHits
<1>2. Circles' = Circles \ {b.id} /\ Valid' = Valid \ {b.id}
  BY <1>1, DestroyedCircles
<1>3. b.id \in BulletIds /\ b.id \in Circles
  BY DEF BulletIds, Circles
<1>4. ASSUME NEW d \in Conns, conn[d] = "connected" PROVE Stream(d)'
  <2>1. d \in Reached /\ clients[d] \in Circles /\ clients[d] \in players
    BY <1>1, <1>4, ConnectedAreReached
  <2>2. out'[d] = Append(out[d], Message("destroy", b.id))
    BY <1>1, <2>1 DEF SendToAll
  <2>3. Circles' # {}
    BY <1>2, <1>3, <2>1 DEF IInv, Kinds
  <2> QED
    BY <1>1, <1>2, <1>3, <1>4, <2>2, <2>3, StreamDestroys DEF Greeted, Streams
<1>5. OnePerSlot'
  BY <1>2 DEF Greeted, OnePerSlot
<1>6. \A d \in Conns : conn[d] # "connected" => out'[d] = out[d]
  BY <1>1 DEF SendToAll, Reached
<1> QED
  BY <1>1, <1>4, <1>5, <1>6 DEF Greeted, Streams, Strangers

LEMMA GreetedMoves ==
  ASSUME IInv, Greeted, NEW x \in Circles, SendToAll(Message("coords", x)),
         phase \in {"bullets", "players"},
         UNCHANGED <<entities, strays, conn, view>>
  PROVE  Greeted'
<1>1. Circles' = Circles /\ Valid' = Valid
  BY DEF entities, Circles, Valid, BulletIds
<1>2. ASSUME NEW d \in Conns, conn[d] = "connected" PROVE Stream(d)'
  <2>1. d \in Reached
    BY <1>2, ConnectedAreReached
  <2>2. out'[d] = Append(out[d], Message("coords", x))
    BY <2>1 DEF SendToAll
  <2> QED
    BY <1>1, <1>2, <2>2, StreamMoves DEF Greeted, Streams, entities
<1>3. \A d \in Conns : conn[d] # "connected" => out'[d] = out[d]
  BY DEF SendToAll, Reached
<1> QED
  BY <1>1, <1>2, <1>3 DEF Greeted, Streams, Strangers, OnePerSlot

LEMMA GreetedReads ==
  ASSUME IInv, Greeted, NEW c \in Conns, PeerReads(c)
  PROVE  Greeted'
<1> USE DEF entities, redis
<1>1. /\ conn[c] = "connected" /\ out[c] # <<>>
      /\ view' = [view EXCEPT ![c] = (@ \cup Adds(Head(out[c]))) \ Drops(Head(out[c]))]
      /\ out' = [out EXCEPT ![c] = Tail(@)]
      /\ UNCHANGED <<entities, strays, conn>>
  BY DEF PeerReads
<1>2. Circles' = Circles /\ Valid' = Valid
  BY <1>1 DEF Circles, Valid, BulletIds
<1>3. TypeOK
  BY DEF IInv
<1>4. Stream(c)'
  <2>1. /\ out'[c] = Tail(out[c])
        /\ view'[c] = (view[c] \cup Adds(Head(out[c]))) \ Drops(Head(out[c]))
    BY <1>1, <1>3 DEF TypeOK
  <2> QED
    BY <1>1, <1>2, <1>3, <2>1, StreamReads DEF Greeted, Streams
<1>5. ASSUME NEW d \in Conns \ {c}, conn[d] = "connected" PROVE Stream(d)'
  <2>1. out'[d] = out[d] /\ view'[d] = view[d]
    BY <1>1, <1>3 DEF TypeOK
  <2>2. issued' \in [Slots -> Nat] /\ \A s \in Slots : issued'[s] >= issued[s]
    BY <1>1, <1>3 DEF TypeOK
  <2> QED
    BY <1>1, <1>2, <1>3, <1>5, <2>1, <2>2, StreamKept DEF Greeted, Streams
<1>6. \A d \in Conns \ {c} : view'[d] = view[d] /\ out'[d] = out[d]
  BY <1>1, <1>3 DEF TypeOK
<1> QED
  BY <1>1, <1>2, <1>4, <1>5, <1>6 DEF Greeted, Streams, Strangers, OnePerSlot

LEMMA GreetedStep == IInv /\ Greeted /\ [Next]_vars => Greeted'
<1> SUFFICES ASSUME IInv, Greeted, [Next]_vars PROVE Greeted'
  OBVIOUS
<1> USE DEF entities, redis, peers
<1>1. TypeOK
  BY DEF IInv
<1>2. ASSUME UNCHANGED <<entities, strays, conn, out, view>> PROVE Greeted'
  <2>1. Circles' = Circles /\ Valid' = Valid
    BY <1>2 DEF Circles, Valid, BulletIds
  <2> QED
    BY <1>2, <2>1, GreetedKept DEF Greeted, Strangers
<1>3. CASE Start \/ BeginTick \/ Stop \/ EndReceive
  BY <1>3, <1>2 DEF Start, BeginTick, Stop, EndReceive
<1>4. CASE EndCallbacks \/ EndBullets \/ EndPlayers
  BY <1>4, <1>2 DEF EndCallbacks, EndBullets, EndPlayers
<1>5. CASE UNCHANGED vars
  BY <1>5, <1>2 DEF vars
<1>6. CASE Shutdown
  <2>1. Circles' = Circles /\ Valid' = Valid /\ UNCHANGED <<issued, strays, view>>
    BY <1>6 DEF Shutdown, Circles, Valid, BulletIds
  <2>2. \A d \in Conns : /\ conn'[d] \in {"idle", "closed"}
                         /\ conn'[d] = "idle" => conn[d] = "idle"
                         /\ out'[d] = <<>>
    BY <1>6 DEF Shutdown
  <2> QED
    BY <2>1, <2>2, GreetedKept
<1>7. ASSUME NEW c \in Conns, ProcessCoords(c) PROVE Greeted'
  BY <1>7, <1>2 DEF ProcessCoords
<1>8. ASSUME NEW c \in Conns, ProcessShoot(c) PROVE Greeted'
  BY <1>8, GreetedShoot
<1>9. ASSUME NEW c \in Conns, OnConnecting(c) PROVE Greeted'
  BY <1>9, GreetedConnecting
<1>10. ASSUME NEW c \in Conns, OnClosed(c) PROVE Greeted'
  BY <1>10, GreetedClosed
<1>11. ASSUME NEW c \in Conns,
              \/ OnRefused(c) \/ PeerOpens(c) \/ PeerLeaves(c)
       PROVE  Greeted'
  <2>1. Circles' = Circles /\ Valid' = Valid /\ UNCHANGED <<issued, strays>>
    BY <1>11 DEF OnRefused, PeerOpens, PeerLeaves, Circles, Valid, BulletIds
  <2>2. \A d \in Conns \ {c} : /\ conn'[d] = conn[d] /\ view'[d] = view[d]
                               /\ out'[d] = out[d]
    BY <1>1, <1>11 DEF OnRefused, Close, PeerOpens, PeerLeaves, TypeOK
  <2>3. \/ /\ conn'[c] = "closed" /\ out'[c] = out[c] /\ conn[c] # "connected"
        \/ /\ conn[c] = "idle" /\ conn'[c] = "connecting"
           /\ out'[c] = out[c] /\ view'[c] = view[c]
        \/ /\ conn'[c] = "left" /\ out'[c] = <<>>
    BY <1>1, <1>11 DEF OnRefused, Close, PeerOpens, PeerLeaves, TypeOK, IInv,
                       Sessions, Session
  <2>4. \A d \in Conns : conn'[d] = "connected" =>
          conn[d] = "connected" /\ out'[d] = out[d] /\ view'[d] = view[d]
    BY <2>2, <2>3
  <2>5. \A d \in Conns : conn'[d] \in {"idle", "connecting"} =>
          conn[d] \in {"idle", "connecting"} /\ view'[d] = view[d]
    BY <2>2, <2>3
  <2>6. \A d \in Conns : conn'[d] # "connected" =>
          out'[d] = <<>> \/ (conn[d] # "connected" /\ out'[d] = out[d])
    BY <2>2, <2>3 DEF Greeted, Strangers
  <2> QED
    BY <2>1, <2>4, <2>5, <2>6, GreetedKept
<1>12. ASSUME NEW b \in bullets, BulletHits(b) PROVE Greeted'
  BY <1>12, GreetedHits
<1>13. ASSUME NEW b \in bullets, BulletFlies(b) PROVE Greeted'
  <2>1. b.id \in Circles
    BY DEF Circles, BulletIds
  <2> QED
    BY <1>13, <2>1, GreetedMoves DEF BulletFlies
<1>14. ASSUME NEW p \in players, PlayerMoves(p) PROVE Greeted'
  <2>1. p \in Circles
    BY DEF Circles
  <2> QED
    BY <1>14, <2>1, GreetedMoves DEF PlayerMoves
<1>15. ASSUME NEW c \in Conns, PeerReads(c) PROVE Greeted'
  BY <1>15, GreetedReads
<1>16. ASSUME NEW c \in Conns, NEW type \in {"coords", "shoot"}, PeerSends(c, type)
       PROVE  Greeted'
  BY <1>16, <1>2 DEF PeerSends
<1> QED
  BY <1>3, <1>4, <1>5, <1>6, <1>7, <1>8, <1>9, <1>10, <1>11, <1>12, <1>13, <1>14,
     <1>15, <1>16 DEF Next, ServerStep, PeerStep, Terminated

LEMMA InitGreeted == Init => Greeted
<1> SUFFICES ASSUME Init PROVE Greeted
  OBVIOUS
<1>1. Valid = WallIds
  BY DEF Init, Valid, Circles, BulletIds
<1>2. OnePerSlot
  BY <1>1 DEF OnePerSlot, WallIds, SlotOf
<1>3. \A c \in Conns : conn[c] = "idle" /\ view[c] = {} /\ out[c] = <<>>
  BY DEF Init
<1> QED
  BY <1>2, <1>3 DEF Greeted, Strangers, Streams

LEMMA GreetedInvariance == Spec => [](IInv /\ Greeted)
<1>1. Init => IInv /\ Greeted
  BY InitIInv, InitGreeted
<1>2. (IInv /\ Greeted) /\ [Next]_vars => (IInv /\ Greeted)'
  BY IInvStep, GreetedStep
<1> QED
  BY <1>1, <1>2, PTL DEF Spec

(* What a connected peer knows, with what is on its way, is what exists:    *)
(* the snapshot of its greeting and the announcements after it leave no gap *)
(* and no ghost (GameServer.cpp:325-349, 361-392).                          *)
THEOREM StreamsTellWorld == Spec => []StreamTellsWorld
<1>1. Greeted => StreamTellsWorld
  BY DEF Greeted, Streams, Stream, ToldAll, Told, StreamTellsWorld
<1> QED
  BY <1>1, GreetedInvariance, PTL

(* A peer that reads its stream message by message is greeted first, finds  *)
(* free slots for what is announced, but for the slot a stray closure has   *)
(* spoilt, and is never told of something it does not know                  *)
(* (GameServer.cpp:138-146, 325-349).                                       *)
THEOREM StreamsReplay == Spec => []StreamIsReplayable
<1>1. Greeted => StreamIsReplayable
  <2> SUFFICES ASSUME Greeted, NEW c \in Conns, NEW i \in DOMAIN out[c]
               PROVE  /\ out[c][i].type = "greeting" <=>
                           ToldBy(view[c], out[c], i - 1) = {}
                      /\ \A x \in Adds(out[c][i]) :
                           \/ ~Occupied(ToldBy(view[c], out[c], i - 1)
                                          \cup (Adds(out[c][i]) \ {x}), SlotOf(x))
                           \/ strays > 0 /\ SlotOf(x) = SlotOf(ZeroId)
                      /\ out[c][i].type \in {"coords", "destroy"} =>
                           \/ out[c][i].id \in ToldBy(view[c], out[c], i - 1)
                           \/ out[c][i].id = ZeroId /\ strays > 1
    BY DEF StreamIsReplayable
  <2>1. conn[c] = "connected"
    BY DEF Greeted, Strangers
  <2>2. Fits(out[c][i], Told(c, i - 1))
    BY <2>1 DEF Greeted, Streams, Stream, Replayable
  <2> QED
    BY <2>2 DEF Fits, Told, Spoilt
<1> QED
  BY <1>1, GreetedInvariance, PTL

-----------------------------------------------------------------------------
(* GameServer implements World.                                             *)

(* The worlds on their way to a peer, connected or not.                     *)
Waiting(c) == [n \in 1 .. Len(out[c]) |-> Known(c, n)]

LEMMA WaitingType ==
  ASSUME TypeOK, NEW c \in Conns
  PROVE  /\ Waiting(c) \in Seq(SUBSET Ids) /\ Len(Waiting(c)) = Len(out[c])
         /\ Len(out[c]) \in Nat
         /\ \A n \in 1 .. Len(out[c]) : Waiting(c)[n] = Known(c, n)
<1>1. out[c] \in Seq(Messages) /\ view[c] \subseteq Ids
  BY DEF TypeOK
<1>2. ASSUME NEW n \in 1 .. Len(out[c]) PROVE Known(c, n) \in SUBSET Ids
  <2>1. \A i \in 1 .. n : out[c][i] \in Messages
    BY <1>1
  <2>2. \A i \in 1 .. n : Adds(out[c][i]) \subseteq Ids
    BY <2>1, MessageParts
  <2> QED
    BY <1>1, <2>2 DEF Known, ToldBy
<1>3. Len(out[c]) \in Nat
  BY <1>1
<1>4. Waiting(c) \in [1 .. Len(out[c]) -> SUBSET Ids]
  BY <1>2 DEF Waiting
<1> QED
  BY <1>3, <1>4 DEF Waiting

LEMMA ComingIsWaiting ==
  ASSUME TypeOK, Strangers
  PROVE  /\ AbstractComing = [c \in Conns |-> Waiting(c)]
         /\ \A c \in Conns : out[c] = <<>> => Waiting(c) = <<>>
<1>1. ASSUME NEW c \in Conns, out[c] = <<>> PROVE Waiting(c) = <<>>
  <2>1. Len(Waiting(c)) = 0
    BY <1>1, WaitingType
  <2> QED
    BY <2>1, WaitingType, EmptySeq
<1>2. \A c \in Conns : c \notin Connected => Waiting(c) = <<>>
  BY <1>1 DEF Strangers, Connected
<1> QED
  BY <1>1, <1>2 DEF AbstractComing, Waiting

IsWaiting(c, w, n) ==
  /\ w \in Seq(SUBSET Ids) /\ Len(w) = n /\ n \in Nat
  /\ \A k \in 1 .. n : w[k] = Known(c, k)

LEMMA WaitingNow == TypeOK => \A c \in Conns : IsWaiting(c, Waiting(c), Len(out[c]))
BY WaitingType DEF IsWaiting

LEMMA WaitingNext ==
  TypeOK' => (\A c \in Conns : IsWaiting(c, Waiting(c), Len(out[c])))'
BY WaitingNow, PTL

(* A message appended to a stream shows its reader the world as it is now.  *)
LEMMA WaitingAppended ==
  ASSUME TypeOK, TypeOK', NEW c \in Conns, Stream(c)', NEW m \in Messages,
         out'[c] = Append(out[c], m), view'[c] = view[c]
  PROVE  Waiting(c)' = Append(Waiting(c), Circles')
<1> SUFFICES ASSUME NEW n, n = Len(out[c])
             PROVE  Waiting(c)' = Append(Waiting(c), Circles')
  OBVIOUS
<1> DEFINE a == Waiting(c)
           b == Waiting(c)'
           w == Circles'
<1>1. out[c] \in Seq(Messages)
  BY DEF TypeOK
<1>2. n \in Nat /\ Len(out'[c]) = n + 1
  BY <1>1, AppendedParts
<1>3. /\ a \in Seq(SUBSET Ids) /\ Len(a) = n
      /\ \A k \in 1 .. n : a[k] = Known(c, k)
  BY WaitingNow DEF IsWaiting
<1>4. /\ b \in Seq(SUBSET Ids) /\ Len(b) = n + 1
      /\ \A k \in 1 .. n + 1 : b[k] = Known(c, k)'
  BY <1>2, WaitingNext DEF IsWaiting
<1>5. \A k \in 1 .. n : Known(c, k)' = Known(c, k)
  <2>1. \A V : \A k \in 0 .. n : ToldBy(V, Append(out[c], m), k) = ToldBy(V, out[c], k)
    BY <1>1, ToldBefore
  <2> QED
    BY <1>2, <2>1 DEF Known, WallIds
<1>6. Known(c, n + 1)' = w /\ w \in SUBSET Ids
  <2>1. Known(c, Len(out[c]))' = Circles'
    BY DEF Stream, ToldAll, Told, Known
  <2>2. Known(c, n + 1)' \in SUBSET Ids
    <3>1. b[n + 1] \in SUBSET Ids
      BY <1>2, <1>4
    <3> QED
      BY <1>2, <1>4, <3>1
  <2> QED
    BY <1>2, <2>1, <2>2
<1> HIDE DEF a, b, w
<1>7. /\ Append(a, w) \in Seq(SUBSET Ids) /\ Len(Append(a, w)) = n + 1
      /\ \A k \in 1 .. n : Append(a, w)[k] = a[k]
      /\ Append(a, w)[n + 1] = w
  BY <1>2, <1>3, <1>6
<1>8. \A k \in 1 .. n + 1 : b[k] = Append(a, w)[k]
  <2> SUFFICES ASSUME NEW k \in 1 .. n + 1 PROVE b[k] = Append(a, w)[k]
    OBVIOUS
  <2>1. k \in 1 .. n \/ k = n + 1
    BY <1>2
  <2>2. k \in 1 .. n => Known(c, k)' = Known(c, k)
    BY <1>5
  <2>3. k = n + 1 => Known(c, k)' = w
    BY <1>6
  <2> QED
    BY <1>3, <1>4, <1>7, <2>1, <2>2, <2>3
<1>9. b = Append(a, w)
  BY <1>4, <1>7, <1>8, SeqEqual
<1> QED
  BY <1>9 DEF a, b, w

(* A message read is the first world on its way, seen.                      *)
LEMMA WaitingRead ==
  ASSUME TypeOK, TypeOK', NEW c \in Conns, Stream(c), out[c] # <<>>,
         out'[c] = Tail(out[c]),
         view'[c] = (view[c] \cup Adds(Head(out[c]))) \ Drops(Head(out[c])),
         issued' = issued, strays' = strays, Circles' = Circles
  PROVE  /\ Waiting(c) # <<>>
         /\ Waiting(c)' = Tail(Waiting(c))
         /\ Known(c, 0)' = Head(Waiting(c))
<1> SUFFICES ASSUME NEW n, n = Len(out[c])
             PROVE  /\ Waiting(c) # <<>>
                    /\ Waiting(c)' = Tail(Waiting(c))
                    /\ Known(c, 0)' = Head(Waiting(c))
  OBVIOUS
<1> DEFINE a == Waiting(c)
           b == Waiting(c)'
<1>1. /\ n \in Nat \ {0} /\ Len(out'[c]) = n - 1
      /\ \A k \in 0 .. n - 1 : Told(c, k)' = Told(c, k + 1)
  BY StreamReads
<1>2. \A k \in 0 .. n - 1 : Known(c, k)' = Known(c, k + 1)
  BY <1>1 DEF Known, Told, WallIds
<1>3. /\ a \in Seq(SUBSET Ids) /\ Len(a) = n
      /\ \A k \in 1 .. n : a[k] = Known(c, k)
  BY WaitingNow DEF IsWaiting
<1>4. /\ b \in Seq(SUBSET Ids) /\ Len(b) = n - 1
      /\ \A k \in 1 .. n - 1 : b[k] = Known(c, k)'
  BY <1>1, WaitingNext DEF IsWaiting
<1>5. Known(c, 0)' = Known(c, 1)
  BY <1>1, <1>2
<1> HIDE DEF a, b
<1>6. /\ a # <<>> /\ Head(a) = a[1] /\ Tail(a) \in Seq(SUBSET Ids)
      /\ Len(Tail(a)) = n - 1
      /\ \A k \in 1 .. n - 1 : Tail(a)[k] = a[k + 1]
  BY <1>1, <1>3
<1>7. \A k \in 1 .. n - 1 : b[k] = Tail(a)[k]
  <2> SUFFICES ASSUME NEW k \in 1 .. n - 1 PROVE b[k] = Tail(a)[k]
    OBVIOUS
  <2>1. k \in 0 .. n - 1 /\ k + 1 \in 1 .. n
    BY <1>1
  <2> QED
    BY <1>2, <1>3, <1>4, <1>6, <2>1
<1>8. b = Tail(a)
  BY <1>4, <1>6, <1>7, SeqEqual
<1>9. Head(a) = Known(c, 1)
  BY <1>1, <1>3, <1>6
<1> QED
  BY <1>5, <1>6, <1>8, <1>9 DEF a, b

(* Which ids have been used, before and after one is issued.                *)
LEMMA UsedAfterIssue ==
  ASSUME TypeOK, IssuedBefore, NEW x \in Creatable(Valid, issued),
         issued' = Issue(issued, x)
  PROVE  /\ x \notin AbstractUsed
         /\ AbstractUsed' = AbstractUsed \cup {x}
         /\ x \in Ids \ WallIds
<1>1. PICK s \in Slots : x = <<s, issued[s]>>
  BY DEF Creatable, FreeSlots
<1>2. issued \in [Slots -> Nat] /\ x \in Ids \ WallIds
  BY <1>1, NewId DEF TypeOK
<1>3. \A t \in Slots : issued'[t] = IF t = s THEN issued[t] + 1 ELSE issued[t]
  BY <1>1, <1>2 DEF Issue, SlotOf
<1>4. x \notin AbstractUsed
  BY <1>1, <1>2 DEF AbstractUsed, SlotOf, VersionOf
<1>5. \A y \in Ids : VersionOf(y) < issued'[SlotOf(y)] <=>
                       VersionOf(y) < issued[SlotOf(y)] \/ y = x
  <2> SUFFICES ASSUME NEW t \in Slots, NEW v \in 0 .. MaxVersion
               PROVE  v < issued'[t] <=> v < issued[t] \/ <<t, v>> = x
    BY DEF Ids, SlotOf, VersionOf
  <2> QED
    BY <1>1, <1>2, <1>3, RegistryAssumption
<1> QED
  BY <1>2, <1>4, <1>5 DEF AbstractUsed, WallIds, Ids

(* A message to everybody who is connected then, newcomers included, is     *)
(* what World calls becoming.                                               *)
LEMMA ToldIsBecoming ==
  ASSUME TypeOK, TypeOK', Strangers, Strangers', Streams',
         \A c \in Conns : conn'[c] = "connected" =>
           \E m \in Messages : out'[c] = Append(out[c], m),
         NEW new \in SUBSET Conns,
         \A c \in Conns : conn'[c] = "connected" <=> conn[c] = "connected" \/ c \in new,
         view' = view, \A c \in new : view[c] = {}
  PROVE  /\ Promise!Become(Circles', Connected')
         /\ Connected' = Connected \cup new
         /\ AbstractSeen' = AbstractSeen
<1>1. Connected' = Connected \cup new
  BY DEF Connected
<1>2. ASSUME NEW c \in Conns
      PROVE  AbstractComing'[c] = IF c \in Connected' THEN Append(AbstractComing[c], Circles')
                                  ELSE AbstractComing[c]
  <2>1. AbstractComing[c] = Waiting(c)
    BY ComingIsWaiting
  <2>2. CASE c \in Connected'
    <3>1. PICK m \in Messages : out'[c] = Append(out[c], m)
      BY <2>2 DEF Connected
    <3>2. Stream(c)'
      BY <2>2 DEF Connected, Streams
    <3>3. Waiting(c)' = Append(Waiting(c), Circles')
      BY <3>1, <3>2, WaitingAppended
    <3>4. AbstractComing'[c] = Waiting(c)'
      BY <2>2 DEF AbstractComing, Waiting
    <3> QED
      BY <2>1, <2>2, <3>3, <3>4
  <2>3. CASE c \notin Connected'
    BY <1>1, <2>3 DEF AbstractComing
  <2> QED
    BY <2>2, <2>3
<1>3. AbstractSeen' = AbstractSeen
  <2>1. \A c \in Conns : Known(c, 0) = view[c] \ WallIds /\ Known(c, 0)' = view'[c] \ WallIds
    BY ToldByNone DEF Known, WallIds
  <2>2. \A c \in new : view[c] \ WallIds = {}
    OBVIOUS
  <2> QED
    BY <1>1, <2>1, <2>2 DEF AbstractSeen
<1>4. AbstractComing' = [c \in Conns |-> IF c \in Connected' THEN Append(AbstractComing[c], Circles')
                                         ELSE AbstractComing[c]]
  BY <1>2 DEF AbstractComing
<1> QED
  BY <1>1, <1>3, <1>4 DEF Promise!Become

PromiseStep == [Promise!Next]_Promise!vars

(* A step that neither the world nor a connected peer's stream shows.       *)
LEMMA Stutters ==
  ASSUME Circles' = Circles, issued' = issued,
         \A c \in Conns : conn'[c] = "connected" <=> conn[c] = "connected",
         \A c \in Conns : conn[c] = "connected" => out'[c] = out[c] /\ view'[c] = view[c]
  PROVE  PromiseStep
<1>1. Connected' = Connected
  BY DEF Connected
<1>2. \A c \in Connected : out'[c] = out[c] /\ view'[c] = view[c]
  BY DEF Connected
<1>3. AbstractUsed' = AbstractUsed
  BY DEF AbstractUsed, WallIds, Ids
<1>4. \A c \in Connected : \A n : Known(c, n)' = Known(c, n)
  BY <1>2 DEF Known, WallIds
<1>5. AbstractSeen' = AbstractSeen
  BY <1>1, <1>4 DEF AbstractSeen
<1>6. AbstractComing' = AbstractComing
  BY <1>1, <1>2, <1>4 DEF AbstractComing
<1> QED
  BY <1>1, <1>3, <1>5, <1>6 DEF PromiseStep, Promise!vars

(* Broadcasts of a server that goes on serving the same peers.              *)
LEMMA BroadcastIsBecoming ==
  ASSUME IInv, IInv', Greeted, Greeted',
         phase \notin {"done", "threw"}, NEW m \in Messages, SendToAll(m),
         \A c \in Conns : conn'[c] = "connected" <=> conn[c] = "connected",
         view' = view
  PROVE  /\ Promise!Become(Circles', Connected)
         /\ Connected' = Connected
         /\ AbstractSeen' = AbstractSeen
<1>1. \A c \in Conns : conn[c] = "connected" => c \in Reached
  BY ConnectedAreReached
<1>2. \A c \in Conns : conn'[c] = "connected" =>
        \E k \in Messages : out'[c] = Append(out[c], k)
  BY <1>1 DEF SendToAll
<1>3. TypeOK /\ TypeOK' /\ Strangers /\ Strangers' /\ Streams'
  BY DEF IInv, Greeted
<1>4. {} \in SUBSET Conns
  OBVIOUS
<1>5. /\ Promise!Become(Circles', Connected')
      /\ Connected' = Connected \cup {}
      /\ AbstractSeen' = AbstractSeen
  BY <1>2, <1>3, <1>4, ToldIsBecoming
<1> QED
  BY <1>5

LEMMA ShootSpawns ==
  ASSUME IInv, IInv', Greeted, Greeted', NEW c \in Conns, ProcessShoot(c)
  PROVE  PromiseStep
<1> USE DEF entities, redis, peers
<1>1. Head(inbox[c]).id \in Circles
  <2>1. inbox[c] \in Seq(Requests) /\ inbox[c] # <<>>
    BY DEF ProcessShoot, IInv, TypeOK
  <2>2. 1 \in DOMAIN inbox[c] /\ Head(inbox[c]) = inbox[c][1]
    BY <2>1
  <2> QED
    BY <2>2 DEF IInv, RequestsNameOwnPlayer, PlayersAreClients, Circles
<1>2. PICK b \in Creatable(Valid, issued) :
        /\ issued' = Issue(issued, b)
        /\ SendToAll(Message("shoot", b))
        /\ bullets' = bullets \cup {[id |-> b, shooter |-> Head(inbox[c]).id]}
  BY <1>1 DEF ProcessShoot
<1>3. phase = "recv" /\ UNCHANGED <<players, conn, view>>
  BY DEF ProcessShoot
<1>4. Circles' = Circles \cup {b}
  <2> DEFINE r == [id |-> b, shooter |-> Head(inbox[c]).id]
  <2>1. bullets' = bullets \cup {r} /\ r.id = b
    BY <1>2
  <2> HIDE DEF r
  <2> QED
    BY <1>3, <2>1 DEF Circles, BulletIds
<1>5. /\ b \notin AbstractUsed /\ AbstractUsed' = AbstractUsed \cup {b}
      /\ b \in Ids \ WallIds
  BY <1>2, UsedAfterIssue DEF IInv
<1>6. Message("shoot", b) \in Messages
  BY <1>5, MessageType
<1>7. /\ Promise!Become(Circles', Connected) /\ Connected' = Connected
      /\ AbstractSeen' = AbstractSeen
  BY <1>2, <1>3, <1>6, BroadcastIsBecoming
<1>8. Promise!Spawn(b)
  BY <1>4, <1>5, <1>7 DEF Promise!Spawn
<1> QED
  BY <1>5, <1>8 DEF PromiseStep, Promise!Next

LEMMA ConnectingJoins ==
  ASSUME IInv, IInv', Greeted, Greeted', NEW c \in Conns, OnConnecting(c)
  PROVE  PromiseStep
<1> USE DEF entities, redis, peers
<1>1. PICK p \in Creatable(Valid, issued) :
        /\ issued' = Issue(issued, p)
        /\ players' = players \cup {p}
        /\ GreetAndAnnounce(c, p)
  BY DEF OnConnecting
<1>2. /\ phase = "callbacks" /\ conn[c] = "connecting"
      /\ conn' = [conn EXCEPT ![c] = "connected"]
      /\ UNCHANGED <<bullets, view>>
  BY DEF OnConnecting
<1>3. Circles' = Circles \cup {p}
  BY <1>1, <1>2 DEF Circles, BulletIds
<1>4. /\ p \notin AbstractUsed /\ AbstractUsed' = AbstractUsed \cup {p}
      /\ p \in Ids \ WallIds
  BY <1>1, UsedAfterIssue DEF IInv
<1>5. TypeOK /\ TypeOK' /\ Strangers /\ Strangers' /\ Streams'
  BY DEF IInv, Greeted
<1>6. Message("connection", p) \in Messages /\ Greeting(p, CurrentState) \in Messages
  BY <1>4, <1>5, MessageType, WorldIds DEF Greeting, Messages, CurrentState, TypeOK
<1>7. \A d \in Conns : conn'[d] = "connected" <=> conn[d] = "connected" \/ d \in {c}
  BY <1>2, <1>5 DEF TypeOK
<1>8. \A d \in Conns : conn'[d] = "connected" =>
        \E m \in Messages : out'[d] = Append(out[d], m)
  <2>1. out'[c] = Append(out[c], Greeting(p, CurrentState))
    BY <1>1 DEF GreetAndAnnounce
  <2>2. ASSUME NEW d \in Conns \ {c}, conn[d] = "connected"
        PROVE  out'[d] = Append(out[d], Message("connection", p))
    <3>1. d \in Reached
      BY <1>2, <2>2, ConnectedAreReached
    <3> QED
      BY <1>1, <3>1 DEF GreetAndAnnounce
  <2> QED
    BY <1>6, <1>7, <2>1, <2>2
<1>9. {c} \in SUBSET Conns /\ view' = view /\ \A d \in {c} : view[d] = {}
  BY <1>2, <1>5 DEF Strangers
<1>10. /\ Promise!Become(Circles', Connected') /\ Connected' = Connected \cup {c}
       /\ AbstractSeen' = AbstractSeen
  BY <1>5, <1>7, <1>8, <1>9, ToldIsBecoming
<1>11. c \notin Connected
  BY <1>2 DEF Connected
<1>12. Promise!Join(c, p)
  BY <1>3, <1>4, <1>10, <1>11 DEF Promise!Join
<1> QED
  BY <1>4, <1>12 DEF PromiseStep, Promise!Next

LEMMA ClosedDespawns ==
  ASSUME IInv, IInv', Greeted, Greeted', NEW c \in Conns, OnClosed(c)
  PROVE  PromiseStep
<1> USE DEF entities, redis, peers
<1> DEFINE id == IF InMap(c) THEN clients[c] ELSE ZeroId
<1>1. /\ phase = "callbacks" /\ conn[c] # "connected"
      /\ SendToAll(Message("destroy", id))
      /\ UNCHANGED <<issued, view>>
  BY DEF OnClosed, IInv, Sessions, Session
<1>2. \/ Destroy(id) /\ conn' = [conn EXCEPT ![c] = "closed"]
      \/ id \notin Valid /\ UNCHANGED <<walls, players, bullets, conn>>
  BY DEF OnClosed, TakeOut, Close
<1>3. /\ Circles' = Circles \ {id}
      /\ \A d \in Conns : conn'[d] = "connected" <=> conn[d] = "connected"
  <2>1. CASE Destroy(id) /\ conn' = [conn EXCEPT ![c] = "closed"]
    BY <1>1, <2>1, DestroyedCircles DEF IInv, TypeOK
  <2>2. CASE id \notin Valid /\ UNCHANGED <<walls, players, bullets, conn>>
    BY <2>2 DEF Circles, Valid, BulletIds
  <2> QED
    BY <1>2, <2>1, <2>2
<1>4. id \in Circles \/ id = ZeroId
  <2>1. InMap(c) => clients[c] \in Circles
    BY DEF IInv, PlayersAreClients, Circles
  <2> QED
    BY <2>1
<1>5. id \in Ids
  BY <1>4, WorldIds DEF IInv
<1> HIDE DEF id
<1>6. Message("destroy", id) \in Messages
  BY <1>5, MessageType
<1>7. /\ Promise!Become(Circles', Connected) /\ Connected' = Connected
      /\ AbstractSeen' = AbstractSeen
  BY <1>1, <1>3, <1>6, BroadcastIsBecoming
<1>8. AbstractUsed' = AbstractUsed
  BY <1>1 DEF AbstractUsed, WallIds, Ids
<1>9. Circles \cap WallIds = {} /\ Circles \subseteq Ids
  BY WorldIds DEF IInv, Kinds, Circles
<1>10. CASE id \in Circles
  <2>1. Promise!Despawn(id)
    BY <1>3, <1>7, <1>8, <1>10 DEF Promise!Despawn
  <2> QED
    BY <1>9, <1>10, <2>1 DEF PromiseStep, Promise!Next
<1>11. CASE id \notin Circles
  <2>1. Circles' = Circles
    BY <1>3, <1>11
  <2>2. Promise!Refresh
    BY <1>7, <1>8, <2>1 DEF Promise!Refresh
  <2> QED
    BY <2>2 DEF PromiseStep, Promise!Next
<1> QED
  BY <1>10, <1>11

LEMMA HitDespawns ==
  ASSUME IInv, IInv', Greeted, Greeted', NEW b \in bullets, BulletHits(b)
  PROVE  PromiseStep
<1> USE DEF entities, redis, peers
<1>1. /\ phase = "bullets" /\ SendToAll(Message("destroy", b.id)) /\ Destroy(b.id)
      /\ UNCHANGED <<issued, conn, view>>
  BY DEF BulletHits
<1>2. Circles' = Circles \ {b.id}
  BY <1>1, DestroyedCircles
<1>3. b.id \in Circles /\ b.id \in Ids \ WallIds
  BY WorldIds DEF BulletIds, Circles, IInv, Kinds
<1>4. Message("destroy", b.id) \in Messages
  BY <1>3, MessageType
<1>5. /\ Promise!Become(Circles', Connected) /\ Connected' = Connected
      /\ AbstractSeen' = AbstractSeen
  BY <1>1, <1>4, BroadcastIsBecoming
<1>6. AbstractUsed' = AbstractUsed
  BY <1>1 DEF AbstractUsed, WallIds, Ids
<1>7. Promise!Despawn(b.id)
  BY <1>2, <1>3, <1>5, <1>6 DEF Promise!Despawn
<1> QED
  BY <1>3, <1>7 DEF PromiseStep, Promise!Next

LEMMA MoveRefreshes ==
  ASSUME IInv, IInv', Greeted, Greeted', NEW x \in Circles,
         SendToAll(Message("coords", x)), phase \in {"bullets", "players"},
         UNCHANGED <<entities, conn, view>>
  PROVE  PromiseStep
<1>1. Message("coords", x) \in Messages
  BY WorldIds, MessageType DEF IInv
<1>2. Circles' = Circles
  BY DEF entities, Circles, BulletIds
<1>3. /\ Promise!Become(Circles', Connected) /\ Connected' = Connected
      /\ AbstractSeen' = AbstractSeen
  BY <1>1, BroadcastIsBecoming
<1>4. AbstractUsed' = AbstractUsed
  BY DEF AbstractUsed, WallIds, Ids, entities
<1>5. Promise!Refresh
  BY <1>2, <1>3, <1>4 DEF Promise!Refresh
<1> QED
  BY <1>5 DEF PromiseStep, Promise!Next

(* Peers that are no longer connected.                                      *)
LEMMA GoneParts ==
  ASSUME Circles' = Circles, issued' = issued,
         NEW gone \in SUBSET Connected, Connected' = Connected \ gone,
         \A c \in Connected \ gone : out'[c] = out[c] /\ view'[c] = view[c]
  PROVE  PromiseStep
<1>1. CASE gone = {}
  BY <1>1, Stutters DEF Connected
<1>2. CASE gone # {}
  <2>1. \A c \in Connected' : \A n : Known(c, n)' = Known(c, n)
    BY DEF Known, WallIds
  <2>2. AbstractUsed' = AbstractUsed
    BY DEF AbstractUsed, WallIds, Ids
  <2>3. AbstractSeen' = [c \in Conns |-> IF c \in gone THEN {} ELSE AbstractSeen[c]]
    BY <2>1 DEF AbstractSeen
  <2>4. AbstractComing' = [c \in Conns |-> IF c \in gone THEN <<>> ELSE AbstractComing[c]]
    BY <2>1 DEF AbstractComing
  <2>5. Promise!Part(gone)
    BY <1>2, <2>2, <2>3, <2>4 DEF Promise!Part
  <2> QED
    BY <2>5 DEF PromiseStep, Promise!Next
<1> QED
  BY <1>1, <1>2

LEMMA ReadSees ==
  ASSUME IInv, IInv', Greeted, NEW c \in Conns, PeerReads(c)
  PROVE  PromiseStep
<1> USE DEF entities, redis
<1>1. /\ conn[c] = "connected" /\ out[c] # <<>>
      /\ view' = [view EXCEPT ![c] = (@ \cup Adds(Head(out[c]))) \ Drops(Head(out[c]))]
      /\ out' = [out EXCEPT ![c] = Tail(@)]
      /\ UNCHANGED <<entities, strays, conn>>
  BY DEF PeerReads
<1>2. Circles' = Circles /\ Connected' = Connected /\ c \in Connected
  BY <1>1 DEF Circles, BulletIds, Connected
<1>3. TypeOK /\ TypeOK' /\ Strangers /\ Stream(c)
  BY <1>1 DEF IInv, Greeted, Streams
<1>4. /\ out'[c] = Tail(out[c])
      /\ view'[c] = (view[c] \cup Adds(Head(out[c]))) \ Drops(Head(out[c]))
  BY <1>1, <1>3 DEF TypeOK
<1>5. /\ Waiting(c) # <<>> /\ Waiting(c)' = Tail(Waiting(c))
      /\ Known(c, 0)' = Head(Waiting(c))
  BY <1>1, <1>2, <1>3, <1>4, WaitingRead
<1>6. AbstractComing[c] = Waiting(c)
  BY <1>3, ComingIsWaiting
<1>7. ASSUME NEW d \in Conns \ {c}, NEW n PROVE Known(d, n)' = Known(d, n) /\ out'[d] = out[d]
  BY <1>1, <1>3 DEF Known, WallIds, TypeOK
<1>8. AbstractUsed' = AbstractUsed
  BY <1>1 DEF AbstractUsed, WallIds, Ids
<1>9. AbstractSeen' = [AbstractSeen EXCEPT ![c] = Head(AbstractComing[c])]
  BY <1>2, <1>5, <1>6, <1>7 DEF AbstractSeen
<1>10. AbstractComing' = [AbstractComing EXCEPT ![c] = Tail(AbstractComing[c])]
  <2>1. AbstractComing'[c] = Waiting(c)'
    BY <1>2 DEF AbstractComing, Waiting
  <2>2. \A d \in Conns \ {c} : AbstractComing'[d] = AbstractComing[d]
    BY <1>2, <1>7 DEF AbstractComing
  <2> QED
    BY <1>5, <1>6, <2>1, <2>2 DEF AbstractComing
<1>11. Promise!See(c)
  BY <1>2, <1>5, <1>6, <1>8, <1>9, <1>10 DEF Promise!See
<1> QED
  BY <1>2, <1>11 DEF PromiseStep, Promise!Next

LEMMA StepKeepsPromise ==
  (IInv /\ Greeted) /\ (IInv /\ Greeted)' /\ [Next]_vars => PromiseStep
<1> SUFFICES ASSUME IInv, IInv', Greeted, Greeted', [Next]_vars PROVE PromiseStep
  OBVIOUS
<1> USE DEF entities, redis, peers
<1>1. TypeOK
  BY DEF IInv
<1>2. ASSUME UNCHANGED <<entities, conn, out, view>> PROVE PromiseStep
  <2>1. Circles' = Circles
    BY <1>2 DEF Circles, BulletIds
  <2> QED
    BY <1>2, <2>1, Stutters
<1>3. CASE Start \/ BeginTick \/ Stop \/ EndReceive
  BY <1>3, <1>2 DEF Start, BeginTick, Stop, EndReceive
<1>4. CASE EndCallbacks \/ EndBullets \/ EndPlayers
  BY <1>4, <1>2 DEF EndCallbacks, EndBullets, EndPlayers
<1>5. CASE UNCHANGED vars
  BY <1>5, <1>2 DEF vars
<1>6. CASE Shutdown
  <2>1. Circles' = Circles /\ issued' = issued
    BY <1>6 DEF Shutdown, Circles, BulletIds
  <2>2. Connected' = Connected \ Connected
    BY <1>6 DEF Shutdown, Connected
  <2> QED
    BY <2>1, <2>2, GoneParts
<1>7. ASSUME NEW c \in Conns, ProcessCoords(c) PROVE PromiseStep
  BY <1>7, <1>2 DEF ProcessCoords
<1>8. ASSUME NEW c \in Conns, ProcessShoot(c) PROVE PromiseStep
  BY <1>8, ShootSpawns
<1>9. ASSUME NEW c \in Conns, OnConnecting(c) PROVE PromiseStep
  BY <1>9, ConnectingJoins
<1>10. ASSUME NEW c \in Conns, OnClosed(c) PROVE PromiseStep
  BY <1>10, ClosedDespawns
<1>11. ASSUME NEW c \in Conns, OnRefused(c) \/ PeerOpens(c) PROVE PromiseStep
  <2>1. Circles' = Circles /\ issued' = issued /\ UNCHANGED <<out, view>>
    BY <1>11 DEF OnRefused, PeerOpens, Circles, BulletIds
  <2>2. \A d \in Conns : conn'[d] = "connected" <=> conn[d] = "connected"
    BY <1>1, <1>11 DEF OnRefused, Close, PeerOpens, TypeOK, IInv, Sessions, Session
  <2> QED
    BY <2>1, <2>2, Stutters
<1>12. ASSUME NEW c \in Conns, PeerLeaves(c) PROVE PromiseStep
  <2> DEFINE gone == {c} \cap Connected
  <2>1. Circles' = Circles /\ issued' = issued
    BY <1>12 DEF PeerLeaves, Circles, BulletIds
  <2>2. Connected' = Connected \ gone
    BY <1>1, <1>12 DEF PeerLeaves, Connected, TypeOK
  <2>3. \A d \in Connected \ gone : out'[d] = out[d] /\ view'[d] = view[d]
    BY <1>1, <1>12 DEF PeerLeaves, Connected, TypeOK
  <2>4. gone \in SUBSET Connected
    OBVIOUS
  <2> HIDE DEF gone
  <2> QED
    BY <2>1, <2>2, <2>3, <2>4, GoneParts
<1>13. ASSUME NEW b \in bullets, BulletHits(b) PROVE PromiseStep
  BY <1>13, HitDespawns
<1>14. ASSUME NEW b \in bullets, BulletFlies(b) PROVE PromiseStep
  <2>1. b.id \in Circles
    BY DEF Circles, BulletIds
  <2> QED
    BY <1>14, <2>1, MoveRefreshes DEF BulletFlies
<1>15. ASSUME NEW p \in players, PlayerMoves(p) PROVE PromiseStep
  <2>1. p \in Circles
    BY DEF Circles
  <2> QED
    BY <1>15, <2>1, MoveRefreshes DEF PlayerMoves
<1>16. ASSUME NEW c \in Conns, PeerReads(c) PROVE PromiseStep
  BY <1>16, ReadSees
<1>17. ASSUME NEW c \in Conns, NEW type \in {"coords", "shoot"}, PeerSends(c, type)
       PROVE  PromiseStep
  BY <1>17, <1>2 DEF PeerSends
<1> QED
  BY <1>3, <1>4, <1>5, <1>6, <1>7, <1>8, <1>9, <1>10, <1>11, <1>12, <1>13, <1>14,
     <1>15, <1>16, <1>17 DEF Next, ServerStep, PeerStep, Terminated

LEMMA InitKeepsPromise == Init => Promise!Init
<1> SUFFICES ASSUME Init PROVE Promise!Init
  OBVIOUS
<1>1. Circles = {} /\ Connected = {}
  BY DEF Init, Circles, BulletIds, Connected
<1>2. AbstractUsed = {}
  <2>1. ASSUME NEW x \in Ids \ WallIds, VersionOf(x) < issued[SlotOf(x)] PROVE FALSE
    <3>1. PICK s \in Slots, v \in 0 .. MaxVersion : x = <<s, v>>
      BY DEF Ids
    <3>2. issued[s] = IF s < WallCount THEN 1 ELSE 0
      BY DEF Init
    <3>3. v < issued[s] /\ v \in Nat
      BY <2>1, <3>1, RegistryAssumption DEF SlotOf, VersionOf
    <3>4. s < WallCount /\ v = 0
      BY <3>2, <3>3
    <3>5. s \in 0 .. WallCount - 1
      BY <3>4, RegistryAssumption, ConstantsAssumption
    <3> QED
      BY <2>1, <3>1, <3>4, <3>5 DEF WallIds
  <2> QED
    BY <2>1 DEF AbstractUsed
<1> QED
  BY <1>1, <1>2 DEF Promise!Init, AbstractSeen, AbstractComing

(* The server and its peers implement World: whoever connects is shown one  *)
(* consistent snapshot and then every later world, in order, and no id      *)
(* returns (GameServer.cpp:138-146, 177-180, 289-293, 325-349).             *)
THEOREM ServerKeepsPromise == Spec => KeepsPromise
<1>1. Init => Promise!Init
  BY InitKeepsPromise
<1>2. (IInv /\ Greeted) /\ (IInv /\ Greeted)' /\ [Next]_vars
        => [Promise!Next]_Promise!vars
  BY StepKeepsPromise DEF PromiseStep
<1> QED
  BY <1>1, <1>2, GreetedInvariance, PTL DEF Spec, KeepsPromise, Promise!Spec

-----------------------------------------------------------------------------
(* What World_proofs proves of World, of the state the server promises.     *)
Proved == INSTANCE World_proofs WITH
  Peers <- Conns, Entities <- Ids \ WallIds,
  world <- Circles, used <- AbstractUsed, members <- Connected,
  seen <- AbstractSeen, coming <- AbstractComing

(* The last thing a connected peer has been told, or has still to read, is  *)
(* the world as it is: so the order of the sends in OnConnecting and in     *)
(* OnClosed promises (GameServer.cpp:325-349, 361-392).                     *)
THEOREM PeersUpToDate == Spec => []Promise!UpToDate
<1>1. Promise!Init <=> Proved!Init
  BY DEF Promise!Init, Proved!Init
<1>2. [Promise!Next]_(Promise!vars) => [Proved!Next]_(Proved!vars)
  <2>1. Promise!Next <=> Proved!Next
    BY DEF Promise!Next, Promise!Spawn, Promise!Despawn, Promise!Join, Promise!Refresh,
           Promise!Part, Promise!See, Promise!Become,
           Proved!Next, Proved!Spawn, Proved!Despawn, Proved!Join, Proved!Refresh,
           Proved!Part, Proved!See, Proved!Become
  <2>2. UNCHANGED Promise!vars => UNCHANGED Proved!vars
    BY DEF Promise!vars, Proved!vars
  <2>3. ASSUME [Promise!Next]_(Promise!vars) PROVE [Proved!Next]_(Proved!vars)
    <3>1. CASE Promise!Next
      BY <2>1, <3>1
    <3>2. CASE UNCHANGED Promise!vars
      BY <2>2, <3>2
    <3> QED
      BY <2>3, <3>1, <3>2
  <2> QED
    BY <2>3
<1>3. Promise!Spec => Proved!Spec
  BY <1>1, <1>2, PTL DEF Promise!Spec, Proved!Spec
<1>4. Proved!Spec => []Proved!UpToDate
  BY Proved!MembersUpToDate
<1>5. Promise!UpToDate <=> Proved!UpToDate
  BY DEF Promise!UpToDate, Proved!UpToDate, Promise!Latest, Proved!Latest
<1>6. Spec => Promise!Spec
  BY ServerKeepsPromise DEF KeepsPromise
<1> QED
  BY <1>3, <1>4, <1>5, <1>6, PTL
=============================================================================
