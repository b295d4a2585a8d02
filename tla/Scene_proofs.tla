---------------------------- MODULE Scene_proofs ----------------------------
(***************************************************************************)
(* Proofs about Scene, for every number of slots and versions, every past  *)
(* of the server and all bounds: nothing is lost on the way to the scene,  *)
(* and what hangs, blocks or is skipped is what the code expects.          *)
(***************************************************************************)
EXTENDS Scene, SequenceTheorems, TLAPS

-----------------------------------------------------------------------------
(* The inductive invariant.                                                 *)

\* What has been sent and not yet processed, in order.
Stream == queue \o feed

\* The entity a message presumes.
Uses(m) == IF m.type \in {"coords", "destroy"} THEN {m.id} ELSE {}

WasIssued(x) == VersionOf(x) < issued[SlotOf(x)]

(* What the scene draws once everything on its way is applied.              *)
Balance ==
  (ids \cup AddedBy(Stream)) \ (ToSet(marked) \cup DroppedBy(Stream)) = world \cup ghosts

(* The server has issued what the client knows or will be told of.          *)
AllIssued == \A x \in ids \cup AddedBy(Stream) : WasIssued(x)

(* A marked id is marked once, and exists or is a shot that hangs.          *)
MarkedOnce == \A i, j \in DOMAIN marked : marked[i] = marked[j] => i = j

MarkedExist == \A x \in ToSet(marked) \ ids : Message("shoot", x) \in ToSet(queue)

(* The entities I are not announced in stream S, and none is twice.         *)
Once(S, I) ==
  \A p \in DOMAIN S : /\ Adds(S[p]) \cap I = {}
                      /\ \A q \in DOMAIN S : p < q => Adds(S[p]) \cap Adds(S[q]) = {}

(* What is marked, or destroyed in the stream, is not spoken of again.      *)
AtLast(S, M) ==
  \A q \in DOMAIN S : /\ Uses(S[q]) \cap M = {}
                      /\ \A p \in DOMAIN S : p < q => Drops(S[p]) \cap Uses(S[q]) = {}

(* What is moved or destroyed exists, or is announced earlier.              *)
Before(S, I) ==
  \A q \in DOMAIN S : \A x \in Uses(S[q]) :
    x \in I \/ \E p \in DOMAIN S : p < q /\ x \in Adds(S[p])

(* Before an entity is announced, the ones that had its slot are destroyed, *)
(* or done with.                                                            *)
InTurn(S, I, D) ==
  \A q \in DOMAIN S : \A z \in Adds(S[q]) : \A x \in Ids :
    /\ SlotOf(x) = SlotOf(z)
    /\ x \in I \/ \E p \in DOMAIN S : p < q /\ x \in Adds(S[p])
    => x \in D \/ \E r \in DOMAIN S : r < q /\ x \in Drops(S[r])

(* What the iterator has passed are shots that hang.                        *)
Hangs(m) == m.type = "shoot" /\ Occupied(ids, SlotOf(m.id))

PassedHang == pc = "processing" => \A p \in 1 .. it - 1 : Hangs(queue[p])

Doomed == ToSet(marked) \cup ghosts

Orderly ==
  /\ Balance
  /\ MarkedOnce
  /\ MarkedExist
  /\ AllIssued
  /\ Once(Stream, ids)
  /\ AtLast(Stream, ToSet(marked))
  /\ Before(Stream, ids)
  /\ InTurn(Stream, ids, Doomed)
  /\ ghosts \cap world = {}
  /\ PassedHang

Inv ==
  /\ TypeOK
  /\ objects = ids
  /\ ~Ended => Orderly

-----------------------------------------------------------------------------
(* Messages and streams.                                                    *)

LEMMA OneMessage ==
  ASSUME NEW type \in {"connection", "shoot", "destroy", "coords", "network_error"},
         NEW x \in Ids
  PROVE  /\ Message(type, x) \in SceneMessages
         /\ Message(type, x).id = x /\ Message(type, x).type = type
BY DEF SceneMessages, Message

LEMMA Meaning ==
  ASSUME NEW m \in SceneMessages
  PROVE  /\ m.id \in Ids
         /\ m = Message(m.type, m.id)
         /\ Adds(m) = IF m.type \in {"connection", "shoot"} THEN {m.id} ELSE {}
         /\ Drops(m) = IF m.type = "destroy" THEN {m.id} ELSE {}
         /\ Drops(m) \subseteq Uses(m)
BY DEF SceneMessages, Message, Adds, Drops, Uses

LEMMA SeqDomain ==
  ASSUME NEW S \in Seq(SceneMessages)
  PROVE  /\ Len(S) \in Nat /\ DOMAIN S = 1 .. Len(S)
         /\ \A p \in DOMAIN S : p \in Nat /\ p > 0 /\ S[p] \in SceneMessages
OBVIOUS

LEMMA AddedAt ==
  ASSUME NEW S, NEW x
  PROVE  /\ x \in AddedBy(S) <=> \E p \in DOMAIN S : x \in Adds(S[p])
         /\ x \in DroppedBy(S) <=> \E p \in DOMAIN S : x \in Drops(S[p])
BY DEF AddedBy, DroppedBy, ToSet

LEMMA JoinParts ==
  ASSUME NEW Q \in Seq(SceneMessages), NEW F \in Seq(SceneMessages)
  PROVE  /\ Q \o F \in Seq(SceneMessages)
         /\ Len(Q \o F) = Len(Q) + Len(F)
         /\ DOMAIN (Q \o F) = 1 .. Len(Q) + Len(F)
         /\ \A p \in 1 .. Len(Q) : (Q \o F)[p] = Q[p]
         /\ \A p \in 1 .. Len(F) : (Q \o F)[Len(Q) + p] = F[p]
         /\ \A p \in 1 .. Len(Q) + Len(F) : p > Len(Q) => (Q \o F)[p] = F[p - Len(Q)]
OBVIOUS

(* What is added and destroyed in a stream of two parts.                    *)
LEMMA AddedByJoin ==
  ASSUME NEW Q \in Seq(SceneMessages), NEW F \in Seq(SceneMessages)
  PROVE  /\ AddedBy(Q \o F) = AddedBy(Q) \cup AddedBy(F)
         /\ DroppedBy(Q \o F) = DroppedBy(Q) \cup DroppedBy(F)
<1> DEFINE S == Q \o F
<1>1. /\ Len(Q) \in Nat /\ Len(F) \in Nat
      /\ DOMAIN Q = 1 .. Len(Q) /\ DOMAIN F = 1 .. Len(F)
      /\ DOMAIN S = 1 .. Len(Q) + Len(F)
      /\ \A p \in 1 .. Len(Q) : S[p] = Q[p]
      /\ \A p \in 1 .. Len(F) : S[Len(Q) + p] = F[p]
      /\ \A p \in 1 .. Len(Q) + Len(F) : p > Len(Q) => S[p] = F[p - Len(Q)]
  BY JoinParts, SeqDomain
<1> HIDE DEF S
<1>2. \A p \in DOMAIN Q : p \in DOMAIN S /\ S[p] = Q[p]
  BY <1>1
<1>3. \A p \in DOMAIN F : Len(Q) + p \in DOMAIN S /\ S[Len(Q) + p] = F[p]
  BY <1>1
<1>4. \A p \in DOMAIN S : \/ p \in DOMAIN Q /\ S[p] = Q[p]
                          \/ p - Len(Q) \in DOMAIN F /\ S[p] = F[p - Len(Q)]
  BY <1>1
<1>5. AddedBy(S) = AddedBy(Q) \cup AddedBy(F)
  <2>1. \A x : x \in AddedBy(S) <=> x \in AddedBy(Q) \/ x \in AddedBy(F)
    BY <1>2, <1>3, <1>4, AddedAt
  <2> QED
    BY <2>1
<1>6. DroppedBy(S) = DroppedBy(Q) \cup DroppedBy(F)
  <2>1. \A x : x \in DroppedBy(S) <=> x \in DroppedBy(Q) \/ x \in DroppedBy(F)
    BY <1>2, <1>3, <1>4, AddedAt
  <2> QED
    BY <2>1
<1> QED
  BY <1>5, <1>6 DEF S

-----------------------------------------------------------------------------
(* A message is sent: the stream grows at its end.                          *)

LEMMA GrownParts ==
  ASSUME NEW S \in Seq(SceneMessages), NEW m \in SceneMessages
  PROVE  /\ Append(S, m) \in Seq(SceneMessages)
         /\ Len(S) + 1 \in DOMAIN Append(S, m) /\ Append(S, m)[Len(S) + 1] = m
         /\ \A p \in DOMAIN S : /\ p \in DOMAIN Append(S, m) /\ p < Len(S) + 1
                                /\ Append(S, m)[p] = S[p]
         /\ \A p \in DOMAIN Append(S, m) : p \in DOMAIN S \/ p = Len(S) + 1
         /\ \A p \in DOMAIN Append(S, m) : p \in Nat /\ ~(Len(S) + 1 < p)
OBVIOUS

LEMMA GrownAdds ==
  ASSUME NEW S \in Seq(SceneMessages), NEW m \in SceneMessages
  PROVE  /\ AddedBy(Append(S, m)) = AddedBy(S) \cup Adds(m)
         /\ DroppedBy(Append(S, m)) = DroppedBy(S) \cup Drops(m)
<1> DEFINE T == Append(S, m)
           n == Len(S) + 1
<1>1. /\ n \in DOMAIN T /\ T[n] = m
      /\ \A p \in DOMAIN S : p \in DOMAIN T /\ T[p] = S[p]
      /\ \A p \in DOMAIN T : p \in DOMAIN S \/ p = n
  BY GrownParts
<1> HIDE DEF T, n
<1>2. \A x : x \in AddedBy(T) <=> x \in AddedBy(S) \/ x \in Adds(m)
  BY <1>1, AddedAt
<1>3. \A x : x \in DroppedBy(T) <=> x \in DroppedBy(S) \/ x \in Drops(m)
  BY <1>1, AddedAt
<1> QED
  BY <1>2, <1>3 DEF T

LEMMA GrownOrder ==
  ASSUME NEW S \in Seq(SceneMessages), NEW m \in SceneMessages,
         NEW I, NEW M, NEW D,
         Once(S, I), AtLast(S, M), Before(S, I), InTurn(S, I, D),
         Adds(m) \cap (I \cup AddedBy(S)) = {},
         Uses(m) \cap (M \cup DroppedBy(S)) = {},
         Uses(m) \subseteq I \cup AddedBy(S),
         \A z \in Adds(m) : \A x \in Ids :
           SlotOf(x) = SlotOf(z) /\ x \in I \cup AddedBy(S) => x \in D \cup DroppedBy(S)
  PROVE  /\ Once(Append(S, m), I)
         /\ AtLast(Append(S, m), M)
         /\ Before(Append(S, m), I)
         /\ InTurn(Append(S, m), I, D)
<1> DEFINE T == Append(S, m)
           n == Len(S) + 1
<1>1. /\ n \in DOMAIN T /\ T[n] = m
      /\ \A p \in DOMAIN S : p \in DOMAIN T /\ p < n /\ T[p] = S[p]
      /\ \A p \in DOMAIN T : p \in DOMAIN S \/ p = n
      /\ \A p \in DOMAIN T : p \in Nat /\ ~(n < p)
  BY GrownParts
<1>2. ~(n < n)
  BY SeqDomain
<1> HIDE DEF T, n
<1>3. Once(T, I)
  <2>1. \A p \in DOMAIN S : Adds(S[p]) \subseteq AddedBy(S)
    BY AddedAt
  <2> QED
    BY <1>1, <1>2, <2>1 DEF Once
<1>4. AtLast(T, M)
  <2>1. \A p \in DOMAIN S : Drops(S[p]) \subseteq DroppedBy(S)
    BY AddedAt
  <2> QED
    BY <1>1, <1>2, <2>1 DEF AtLast
<1>5. Before(T, I)
  <2>1. \A x \in AddedBy(S) : \E p \in DOMAIN T : p < n /\ x \in Adds(T[p])
    BY <1>1, AddedAt
  <2> QED
    BY <1>1, <2>1 DEF Before
<1>6. InTurn(T, I, D)
  <2>1. SUFFICES ASSUME NEW q \in DOMAIN T, NEW z \in Adds(T[q]), NEW x \in Ids,
                        SlotOf(x) = SlotOf(z),
                        x \in I \/ \E p \in DOMAIN T : p < q /\ x \in Adds(T[p])
                 PROVE  x \in D \/ \E r \in DOMAIN T : r < q /\ x \in Drops(T[r])
    BY DEF InTurn
  <2>2. CASE q \in DOMAIN S
    <3>1. x \in I \/ \E p \in DOMAIN S : p < q /\ x \in Adds(S[p])
      BY <1>1, <2>1, <2>2
    <3>2. x \in D \/ \E r \in DOMAIN S : r < q /\ x \in Drops(S[r])
      BY <1>1, <2>1, <2>2, <3>1 DEF InTurn
    <3> QED
      BY <1>1, <3>2
  <2>3. CASE q = n
    <3>1. x \in I \cup AddedBy(S)
      BY <1>1, <1>2, <2>1, <2>3, AddedAt
    <3>2. x \in D \cup DroppedBy(S)
      BY <1>1, <2>1, <2>3, <3>1
    <3> QED
      BY <1>1, <2>3, <3>2, AddedAt
  <2> QED
    BY <1>1, <2>2, <2>3
<1> QED
  BY <1>3, <1>4, <1>5, <1>6 DEF T

-----------------------------------------------------------------------------
(* A message is processed, or one that concerns no entity is pushed in: T   *)
(* is stream S without its k-th message (0 for none), f tells where each    *)
(* message of T was in S, 0 for nowhere.                                    *)

ThinnedBy(T, S, k, f) ==
  /\ \A p \in DOMAIN T : \/ f[p] = 0 /\ Adds(T[p]) = {} /\ Uses(T[p]) = {}
                         \/ f[p] \in DOMAIN S /\ f[p] # k /\ T[p] = S[f[p]]
  /\ \A p, q \in DOMAIN T : f[p] \in DOMAIN S /\ f[q] \in DOMAIN S =>
       (p < q <=> f[p] < f[q])
  /\ \A r \in DOMAIN S : r = k \/ \E p \in DOMAIN T : f[p] = r

LEMMA ThinnedAdds ==
  ASSUME NEW S \in Seq(SceneMessages), NEW T \in Seq(SceneMessages),
         NEW k, NEW f, ThinnedBy(T, S, k, f)
  PROVE  /\ \A x : x \in AddedBy(S) <=>
                     x \in AddedBy(T) \/ (k \in DOMAIN S /\ x \in Adds(S[k]))
         /\ \A x : x \in DroppedBy(S) <=>
                     x \in DroppedBy(T) \/ (k \in DOMAIN S /\ x \in Drops(S[k]))
<1>1. \A p \in DOMAIN T : Drops(T[p]) \subseteq Uses(T[p])
  BY SeqDomain, Meaning
<1>2. ~(0 \in DOMAIN S)
  BY SeqDomain
<1>3. ASSUME NEW p \in DOMAIN T
      PROVE  \/ Adds(T[p]) = {} /\ Drops(T[p]) = {}
             \/ \E r \in DOMAIN S : T[p] = S[r]
  BY <1>1, <1>3 DEF ThinnedBy
<1>4. ASSUME NEW r \in DOMAIN S, r # k
      PROVE  \E p \in DOMAIN T : T[p] = S[r]
  BY <1>2, <1>4 DEF ThinnedBy
<1>5. ASSUME NEW x
      PROVE  x \in AddedBy(S) <=>
               x \in AddedBy(T) \/ (k \in DOMAIN S /\ x \in Adds(S[k]))
  <2>1. x \in AddedBy(T) => x \in AddedBy(S)
    BY <1>3, AddedAt
  <2>2. x \in AddedBy(S) =>
          x \in AddedBy(T) \/ (k \in DOMAIN S /\ x \in Adds(S[k]))
    BY <1>4, AddedAt
  <2>3. k \in DOMAIN S /\ x \in Adds(S[k]) => x \in AddedBy(S)
    BY AddedAt
  <2> QED
    BY <2>1, <2>2, <2>3
<1>6. ASSUME NEW x
      PROVE  x \in DroppedBy(S) <=>
               x \in DroppedBy(T) \/ (k \in DOMAIN S /\ x \in Drops(S[k]))
  <2>1. x \in DroppedBy(T) => x \in DroppedBy(S)
    BY <1>3, AddedAt
  <2>2. x \in DroppedBy(S) =>
          x \in DroppedBy(T) \/ (k \in DOMAIN S /\ x \in Drops(S[k]))
    BY <1>4, AddedAt
  <2>3. k \in DOMAIN S /\ x \in Drops(S[k]) => x \in DroppedBy(S)
    BY AddedAt
  <2> QED
    BY <2>1, <2>2, <2>3
<1> QED
  BY <1>5, <1>6

LEMMA ThinnedOnce ==
  ASSUME NEW S \in Seq(SceneMessages), NEW T \in Seq(SceneMessages),
         NEW k, NEW f, ThinnedBy(T, S, k, f), NEW I, NEW J, Once(S, I),
         \A x \in J : x \in I \/ (k \in DOMAIN S /\ x \in Adds(S[k]))
  PROVE  Once(T, J)
<1>1. ASSUME NEW p \in DOMAIN S, p # k PROVE Adds(S[p]) \cap J = {}
  <2>1. k \in DOMAIN S => p < k \/ k < p
    BY <1>1, SeqDomain
  <2> QED
    BY <1>1, <2>1 DEF Once
<1>2. ASSUME NEW p \in DOMAIN T PROVE Adds(T[p]) \cap J = {}
  BY <1>1 DEF ThinnedBy
<1>3. ASSUME NEW p \in DOMAIN T, NEW q \in DOMAIN T, p < q
      PROVE  Adds(T[p]) \cap Adds(T[q]) = {}
  BY <1>3 DEF ThinnedBy, Once
<1> QED
  BY <1>2, <1>3 DEF Once

LEMMA ThinnedLast ==
  ASSUME NEW S \in Seq(SceneMessages), NEW T \in Seq(SceneMessages),
         NEW k, NEW f, ThinnedBy(T, S, k, f), NEW M, NEW N, AtLast(S, M),
         \A x \in N : x \in M \/ (k \in DOMAIN S /\ x \in Drops(S[k])),
         \A p \in DOMAIN S : p < k => Uses(S[p]) = {}
  PROVE  AtLast(T, N)
<1>1. ASSUME NEW p \in DOMAIN S, p # k PROVE Uses(S[p]) \cap N = {}
  <2>1. k \in DOMAIN S => p < k \/ k < p
    BY <1>1, SeqDomain
  <2> QED
    BY <1>1, <2>1 DEF AtLast
<1>2. ASSUME NEW p \in DOMAIN T PROVE Uses(T[p]) \cap N = {}
  BY <1>1 DEF ThinnedBy
<1>3. \A p \in DOMAIN T : Drops(T[p]) \subseteq Uses(T[p])
  BY SeqDomain, Meaning
<1>4. ASSUME NEW p \in DOMAIN T, NEW q \in DOMAIN T, p < q
      PROVE  Drops(T[p]) \cap Uses(T[q]) = {}
  BY <1>3, <1>4 DEF ThinnedBy, AtLast
<1> QED
  BY <1>2, <1>4 DEF AtLast

LEMMA ThinnedBefore ==
  ASSUME NEW S \in Seq(SceneMessages), NEW T \in Seq(SceneMessages),
         NEW k, NEW f, ThinnedBy(T, S, k, f), NEW I, NEW J, Before(S, I),
         I \subseteq J, k \in DOMAIN S => Adds(S[k]) \subseteq J
  PROVE  Before(T, J)
<1>1. SUFFICES ASSUME NEW q \in DOMAIN T, NEW x \in Uses(T[q]), x \notin J
               PROVE  \E p \in DOMAIN T : p < q /\ x \in Adds(T[p])
  BY DEF Before
<1>2. f[q] \in DOMAIN S /\ T[q] = S[f[q]]
  BY <1>1 DEF ThinnedBy
<1>3. PICK r \in DOMAIN S : r < f[q] /\ x \in Adds(S[r])
  BY <1>1, <1>2 DEF Before
<1>4. r # k
  BY <1>1, <1>3
<1>5. PICK p \in DOMAIN T : f[p] = r
  BY <1>4 DEF ThinnedBy
<1>6. T[p] = S[r]
  <2>1. ~(0 \in DOMAIN S)
    BY SeqDomain
  <2> QED
    BY <1>5, <2>1 DEF ThinnedBy
<1> QED
  BY <1>2, <1>3, <1>5, <1>6 DEF ThinnedBy

LEMMA ThinnedInTurn ==
  ASSUME NEW S \in Seq(SceneMessages), NEW T \in Seq(SceneMessages),
         NEW k, NEW f, ThinnedBy(T, S, k, f),
         NEW I, NEW J, NEW D, NEW E, InTurn(S, I, D),
         D \subseteq E, k \in DOMAIN S => Drops(S[k]) \subseteq E,
         \A x \in J : \/ x \in I
                      \/ /\ k \in DOMAIN S /\ x \in Adds(S[k])
                         /\ \A p \in DOMAIN S : p < k =>
                              \A z \in Adds(S[p]) : SlotOf(x) # SlotOf(z)
  PROVE  InTurn(T, J, E)
<1>1. SUFFICES ASSUME NEW q \in DOMAIN T, NEW z \in Adds(T[q]), NEW x \in Ids,
                      SlotOf(x) = SlotOf(z),
                      x \in J \/ \E p \in DOMAIN T : p < q /\ x \in Adds(T[p]),
                      x \notin E
               PROVE  \E r \in DOMAIN T : r < q /\ x \in Drops(T[r])
  BY DEF InTurn
<1>2. f[q] \in DOMAIN S /\ f[q] # k /\ T[q] = S[f[q]]
  BY <1>1 DEF ThinnedBy
<1>3. x \in I \/ \E p \in DOMAIN S : p < f[q] /\ x \in Adds(S[p])
  <2>1. CASE x \in J
    <3>1. k \in DOMAIN S => k < f[q] \/ f[q] < k
      BY <1>2, SeqDomain
    <3> QED
      BY <1>1, <1>2, <2>1, <3>1
  <2>2. ASSUME NEW p \in DOMAIN T, p < q, x \in Adds(T[p])
        PROVE  f[p] \in DOMAIN S /\ f[p] < f[q] /\ x \in Adds(S[f[p]])
    BY <1>2, <2>2 DEF ThinnedBy
  <2> QED
    BY <1>1, <2>1, <2>2
<1>4. PICK r \in DOMAIN S : r < f[q] /\ x \in Drops(S[r])
  <2>1. x \notin D
    BY <1>1
  <2> QED
    BY <1>1, <1>2, <1>3, <2>1 DEF InTurn
<1>5. r # k
  BY <1>1, <1>4
<1>6. PICK p \in DOMAIN T : f[p] = r
  BY <1>5 DEF ThinnedBy
<1>7. T[p] = S[r]
  <2>1. ~(0 \in DOMAIN S)
    BY SeqDomain
  <2> QED
    BY <1>6, <2>1 DEF ThinnedBy
<1> QED
  BY <1>2, <1>4, <1>6, <1>7 DEF ThinnedBy

(* The two ways a stream is thinned.                                        *)
LEMMA RemovedThins ==
  ASSUME NEW Q \in Seq(SceneMessages), NEW F \in Seq(SceneMessages),
         NEW k \in 1 .. Len(Q)
  PROVE  /\ RemoveAt(Q, k) \in Seq(SceneMessages)
         /\ Len(RemoveAt(Q, k)) = Len(Q) - 1
         /\ \A p \in 1 .. Len(Q) - 1 :
              RemoveAt(Q, k)[p] = IF p < k THEN Q[p] ELSE Q[p + 1]
         /\ \E f : ThinnedBy(RemoveAt(Q, k) \o F, Q \o F, k, f)
<1> DEFINE R == RemoveAt(Q, k)
           S == Q \o F
           T == R \o F
           n == Len(Q)
           f == [p \in 1 .. n - 1 + Len(F) |-> IF p < k THEN p ELSE p + 1]
<1>1. n \in Nat /\ n > 0 /\ Len(F) \in Nat /\ k \in Nat
  BY SeqDomain
<1>2. /\ R \in Seq(SceneMessages)
      /\ Len(R) = n - 1
      /\ \A p \in 1 .. n - 1 : R[p] = IF p < k THEN Q[p] ELSE Q[p + 1]
  <2> DEFINE A == SubSeq(Q, 1, k - 1)
             B == SubSeq(Q, k + 1, n)
  <2>1. /\ A \in Seq(SceneMessages) /\ Len(A) = k - 1
        /\ \A p \in 1 .. k - 1 : A[p] = Q[p]
    OBVIOUS
  <2>2. /\ B \in Seq(SceneMessages) /\ Len(B) = n - k
        /\ \A p \in 1 .. n - k : B[p] = Q[k + p]
    OBVIOUS
  <2>3. R = A \o B
    BY DEF RemoveAt
  <2> HIDE DEF A, B, R
  <2>4. /\ A \o B \in Seq(SceneMessages)
        /\ Len(A \o B) = Len(A) + Len(B)
        /\ \A p \in 1 .. Len(A) : (A \o B)[p] = A[p]
        /\ \A p \in 1 .. Len(A) + Len(B) : p > Len(A) => (A \o B)[p] = B[p - Len(A)]
    BY <2>1, <2>2, JoinParts
  <2>5. Len(A) + Len(B) = n - 1
    BY <1>1, <2>1, <2>2
  <2>6. ASSUME NEW p \in 1 .. n - 1 PROVE R[p] = IF p < k THEN Q[p] ELSE Q[p + 1]
    <3>1. CASE p < k
      BY <1>1, <2>1, <2>3, <2>4, <2>5, <3>1
    <3>2. CASE ~(p < k)
      <4>1. R[p] = B[p - (k - 1)]
        BY <1>1, <2>1, <2>3, <2>4, <2>5, <3>2
      <4>2. p - (k - 1) \in 1 .. n - k /\ k + (p - (k - 1)) = p + 1
        BY <1>1, <3>2
      <4> QED
        BY <2>2, <3>2, <4>1, <4>2
    <3> QED
      BY <3>1, <3>2
  <2> QED
    BY <2>3, <2>4, <2>5, <2>6
<1>3. /\ DOMAIN S = 1 .. n + Len(F)
      /\ \A p \in 1 .. n : S[p] = Q[p]
      /\ \A p \in 1 .. n + Len(F) : p > n => S[p] = F[p - n]
  BY JoinParts
<1> HIDE DEF R
<1>4. /\ DOMAIN T = 1 .. n - 1 + Len(F)
      /\ \A p \in 1 .. n - 1 : T[p] = R[p]
      /\ \A p \in 1 .. n - 1 + Len(F) : p > n - 1 => T[p] = F[p - (n - 1)]
  <2>1. /\ DOMAIN T = 1 .. Len(R) + Len(F)
        /\ \A p \in 1 .. Len(R) : T[p] = R[p]
        /\ \A p \in 1 .. Len(R) + Len(F) : p > Len(R) => T[p] = F[p - Len(R)]
    BY <1>2, JoinParts
  <2> QED
    BY <1>2, <2>1
<1> HIDE DEF S, T
<1>5. \A p \in DOMAIN T : f[p] = IF p < k THEN p ELSE p + 1
  BY <1>4
<1> HIDE DEF f
<1>6. ASSUME NEW p \in DOMAIN T
      PROVE  f[p] \in DOMAIN S /\ f[p] # k /\ T[p] = S[f[p]]
  <2>1. f[p] \in DOMAIN S /\ f[p] # k
    BY <1>1, <1>3, <1>4, <1>5
  <2>2. CASE p < n
    BY <1>1, <1>2, <1>3, <1>4, <1>5, <2>2
  <2>3. CASE ~(p < n)
    <3>1. T[p] = F[p - (n - 1)] /\ f[p] = p + 1
      BY <1>1, <1>4, <1>5, <2>3
    <3>2. S[p + 1] = F[(p + 1) - n] /\ (p + 1) - n = p - (n - 1)
      BY <1>1, <1>3, <1>4, <2>3
    <3> QED
      BY <2>1, <3>1, <3>2
  <2> QED
    BY <2>1, <2>2, <2>3
<1>7. ASSUME NEW p \in DOMAIN T, NEW q \in DOMAIN T PROVE p < q <=> f[p] < f[q]
  BY <1>1, <1>4, <1>5
<1>8. ASSUME NEW r \in DOMAIN S, r # k PROVE \E p \in DOMAIN T : f[p] = r
  <2>1. CASE r < k
    BY <1>1, <1>3, <1>4, <1>5, <2>1
  <2>2. CASE r > k
    <3>1. r - 1 \in DOMAIN T /\ f[r - 1] = r
      BY <1>1, <1>3, <1>4, <1>5, <2>2
    <3> QED
      BY <3>1
  <2> QED
    BY <1>1, <1>3, <1>8, <2>1, <2>2
<1>9. ThinnedBy(T, S, k, f)
  BY <1>6, <1>7, <1>8 DEF ThinnedBy
<1> QED
  BY <1>2, <1>9 DEF R, S, T

LEMMA ErrorThins ==
  ASSUME NEW Q \in Seq(SceneMessages), NEW F \in Seq(SceneMessages)
  PROVE  \E f : ThinnedBy(Append(Q, NetworkError) \o F, Q \o F, 0, f)
<1> DEFINE R == Append(Q, NetworkError)
           S == Q \o F
           T == R \o F
           n == Len(Q)
           f == [p \in 1 .. n + 1 + Len(F) |->
                   IF p <= n THEN p ELSE IF p = n + 1 THEN 0 ELSE p - 1]
<1>1. n \in Nat /\ Len(F) \in Nat
  BY SeqDomain
<1>2. NetworkError \in SceneMessages /\ NetworkError.type = "network_error"
  <2>1. Main \in Ids
    BY SceneAssumption, RegistryAssumption DEF SceneAssumption, RegistryAssumption, Ids
  <2> QED
    BY <2>1, OneMessage DEF NetworkError
<1>3. Adds(NetworkError) = {} /\ Uses(NetworkError) = {}
  BY <1>2, Meaning DEF Uses
<1>4. /\ R \in Seq(SceneMessages) /\ Len(R) = n + 1 /\ R[n + 1] = NetworkError
      /\ \A p \in 1 .. n : R[p] = Q[p]
  BY <1>2
<1> HIDE DEF R
<1>5. /\ DOMAIN S = 1 .. n + Len(F)
      /\ \A p \in 1 .. n : S[p] = Q[p]
      /\ \A p \in 1 .. n + Len(F) : p > n => S[p] = F[p - n]
  BY JoinParts
<1>6. /\ DOMAIN T = 1 .. n + 1 + Len(F)
      /\ \A p \in 1 .. n + 1 : T[p] = R[p]
      /\ \A p \in 1 .. n + 1 + Len(F) : p > n + 1 => T[p] = F[p - (n + 1)]
  <2>1. /\ DOMAIN T = 1 .. Len(R) + Len(F)
        /\ \A p \in 1 .. Len(R) : T[p] = R[p]
        /\ \A p \in 1 .. Len(R) + Len(F) : p > Len(R) => T[p] = F[p - Len(R)]
    BY <1>4, JoinParts
  <2> QED
    BY <1>4, <2>1
<1> HIDE DEF S, T
<1>7. \A p \in DOMAIN T :
        f[p] = IF p <= n THEN p ELSE IF p = n + 1 THEN 0 ELSE p - 1
  BY <1>6
<1> HIDE DEF f
<1>8. ASSUME NEW p \in DOMAIN T
      PROVE  \/ f[p] = 0 /\ Adds(T[p]) = {} /\ Uses(T[p]) = {}
             \/ f[p] \in DOMAIN S /\ f[p] # 0 /\ T[p] = S[f[p]]
  <2>1. CASE p <= n
    BY <1>1, <1>4, <1>5, <1>6, <1>7, <2>1
  <2>2. CASE p = n + 1
    <3>1. f[p] = 0 /\ T[p] = NetworkError
      BY <1>1, <1>4, <1>6, <1>7, <2>2
    <3> QED
      BY <1>3, <3>1
  <2>3. CASE p > n + 1
    <3>1. f[p] = p - 1 /\ p - 1 \in DOMAIN S /\ p - 1 # 0 /\ p - 1 > n
      BY <1>1, <1>5, <1>6, <1>7, <2>3
    <3>2. T[p] = F[p - (n + 1)] /\ S[p - 1] = F[(p - 1) - n]
      BY <1>1, <1>5, <1>6, <2>3, <3>1
    <3>3. (p - 1) - n = p - (n + 1)
      BY <1>1, <1>6
    <3> QED
      BY <3>1, <3>2, <3>3
  <2> QED
    BY <1>1, <1>6, <2>1, <2>2, <2>3
<1>9. ASSUME NEW p \in DOMAIN T, NEW q \in DOMAIN T,
             f[p] \in DOMAIN S, f[q] \in DOMAIN S
      PROVE  p < q <=> f[p] < f[q]
  BY <1>1, <1>5, <1>6, <1>7, <1>9
<1>10. ASSUME NEW r \in DOMAIN S PROVE \E p \in DOMAIN T : f[p] = r
  <2>1. CASE r <= n
    BY <1>1, <1>5, <1>6, <1>7, <2>1
  <2>2. CASE r > n
    <3>1. r + 1 \in DOMAIN T /\ f[r + 1] = r
      BY <1>1, <1>5, <1>6, <1>7, <2>2
    <3> QED
      BY <3>1
  <2> QED
    BY <1>1, <1>5, <2>1, <2>2
<1>11. ThinnedBy(T, S, 0, f)
  BY <1>8, <1>9, <1>10 DEF ThinnedBy
<1> QED
  BY <1>11 DEF R, S, T

-----------------------------------------------------------------------------
(* Other data.                                                              *)

LEMMA MarkedGrows ==
  ASSUME NEW s \in Seq(Ids), NEW x \in Ids
  PROVE  /\ Append(s, x) \in Seq(Ids)
         /\ ToSet(Append(s, x)) = ToSet(s) \cup {x}
         /\ (\A i, j \in DOMAIN s : s[i] = s[j] => i = j) /\ x \notin ToSet(s) =>
              \A i, j \in DOMAIN Append(s, x) : Append(s, x)[i] = Append(s, x)[j] => i = j
<1> DEFINE t == Append(s, x)
           n == Len(s) + 1
<1>1. /\ t \in Seq(Ids) /\ n \in DOMAIN t /\ t[n] = x
      /\ \A i \in DOMAIN s : i \in DOMAIN t /\ t[i] = s[i]
      /\ \A i \in DOMAIN t : i \in DOMAIN s \/ i = n
  OBVIOUS
<1> HIDE DEF t, n
<1>2. ToSet(t) = ToSet(s) \cup {x}
  BY <1>1 DEF ToSet
<1>3. ASSUME \A i, j \in DOMAIN s : s[i] = s[j] => i = j, x \notin ToSet(s),
             NEW i \in DOMAIN t, NEW j \in DOMAIN t, t[i] = t[j]
      PROVE  i = j
  <2>1. \A l \in DOMAIN s : s[l] # x
    BY <1>3 DEF ToSet
  <2> QED
    BY <1>1, <1>3, <2>1
<1> QED
  BY <1>1, <1>2, <1>3 DEF t

LEMMA MarkedShrinks ==
  ASSUME NEW s \in Seq(Ids), s # <<>>,
         \A i, j \in DOMAIN s : s[i] = s[j] => i = j
  PROVE  /\ Head(s) \in Ids /\ Head(s) \in ToSet(s)
         /\ Tail(s) \in Seq(Ids)
         /\ ToSet(Tail(s)) = ToSet(s) \ {Head(s)}
         /\ \A i, j \in DOMAIN Tail(s) : Tail(s)[i] = Tail(s)[j] => i = j
<1> DEFINE t == Tail(s)
           n == Len(s)
<1>1. n \in Nat /\ n > 0 /\ DOMAIN s = 1 .. n
  BY EmptySeq, LenProperties
<1>2. /\ Head(s) = s[1] /\ t \in Seq(Ids) /\ DOMAIN t = 1 .. n - 1
      /\ \A i \in 1 .. n - 1 : t[i] = s[i + 1]
  BY HeadTailProperties, LenProperties
<1> HIDE DEF t, n
<1>3. 1 \in DOMAIN s /\ Head(s) \in Ids
  <2>1. 1 \in DOMAIN s
    BY <1>1
  <2> QED
    BY <1>2, <2>1, ElementOfSeq, <1>1 DEF n
<1>4. ToSet(t) = ToSet(s) \ {Head(s)}
  <2>1. ASSUME NEW x \in ToSet(t) PROVE x \in ToSet(s) \ {Head(s)}
    <3>1. PICK i \in DOMAIN t : x = t[i]
      BY DEF ToSet
    <3>2. i + 1 \in DOMAIN s /\ i + 1 # 1 /\ x = s[i + 1]
      BY <1>1, <1>2, <3>1
    <3>3. s[i + 1] # s[1]
      BY <1>3, <3>2
    <3> QED
      BY <1>2, <3>2, <3>3 DEF ToSet
  <2>2. ASSUME NEW x \in ToSet(s), x # Head(s) PROVE x \in ToSet(t)
    <3>1. PICK i \in DOMAIN s : x = s[i]
      BY DEF ToSet
    <3>2. i # 1
      BY <1>2, <2>2, <3>1
    <3>3. i - 1 \in DOMAIN t /\ t[i - 1] = s[(i - 1) + 1] /\ (i - 1) + 1 = i
      BY <1>1, <1>2, <3>1, <3>2
    <3> QED
      BY <3>1, <3>3 DEF ToSet
  <2> QED
    BY <2>1, <2>2
<1>5. ASSUME NEW i \in DOMAIN t, NEW j \in DOMAIN t, t[i] = t[j] PROVE i = j
  <2>1. /\ i \in Nat /\ j \in Nat
        /\ i + 1 \in DOMAIN s /\ j + 1 \in DOMAIN s /\ s[i + 1] = s[j + 1]
    BY <1>1, <1>2, <1>5
  <2>2. i + 1 = j + 1
    BY <2>1
  <2> QED
    BY <2>1, <2>2
<1> QED
  BY <1>2, <1>3, <1>4, <1>5 DEF t, ToSet

LEMMA CreatableFacts ==
  ASSUME NEW W \in SUBSET Ids, NEW V \in [Slots -> Nat], NEW x \in Creatable(W, V)
  PROVE  /\ x \in Ids /\ SlotOf(x) \in Slots
         /\ VersionOf(x) = V[SlotOf(x)]
         /\ \A y \in W : SlotOf(y) = SlotOf(x) => ~(VersionOf(y) < V[SlotOf(x)])
         /\ Issue(V, x) \in [Slots -> Nat]
         /\ Issue(V, x)[SlotOf(x)] = V[SlotOf(x)] + 1
         /\ \A s \in Slots : s # SlotOf(x) => Issue(V, x)[s] = V[s]
<1>1. PICK s \in FreeSlots(W, V) : x = <<s, V[s]>>
  BY DEF Creatable
<1>2. s \in Slots /\ (V[s] = 0 \/ (V[s] \in 1 .. MaxVersion /\ ~Occupied(W, s)))
  BY DEF FreeSlots
<1>3. SlotOf(x) = s /\ VersionOf(x) = V[s]
  BY <1>1 DEF SlotOf, VersionOf
<1>4. V[s] \in 0 .. MaxVersion
  BY <1>2, RegistryAssumption DEF RegistryAssumption
<1>5. x \in Ids
  BY <1>1, <1>2, <1>4 DEF Ids
<1>6. ASSUME NEW y \in W, SlotOf(y) = SlotOf(x) PROVE ~(VersionOf(y) < V[s])
  <2>1. VersionOf(y) \in Nat
    BY RegistryAssumption DEF Ids, VersionOf, RegistryAssumption
  <2> QED
    BY <1>2, <1>3, <1>6, <2>1 DEF Occupied
<1> QED
  BY <1>2, <1>3, <1>5, <1>6 DEF Issue

-----------------------------------------------------------------------------
(* What Inv says of a state.                                                *)

LEMMA StreamIsSeq ==
  ASSUME TypeOK
  PROVE  /\ queue \in Seq(SceneMessages) /\ feed \in Seq(SceneMessages)
         /\ Stream \in Seq(SceneMessages)
         /\ AddedBy(Stream) = AddedBy(queue) \cup AddedBy(feed)
         /\ DroppedBy(Stream) = DroppedBy(queue) \cup DroppedBy(feed)
BY JoinParts, AddedByJoin DEF TypeOK, Stream

LEMMA QueueInStream ==
  ASSUME TypeOK
  PROVE  \A p \in 1 .. Len(queue) : /\ p \in DOMAIN Stream /\ Stream[p] = queue[p]
                                    /\ queue[p] \in SceneMessages
<1>1. queue \in Seq(SceneMessages) /\ feed \in Seq(SceneMessages)
  BY DEF TypeOK
<1>2. Len(queue) \in Nat /\ Len(feed) \in Nat
  BY <1>1, SeqDomain
<1> QED
  BY <1>1, <1>2, JoinParts, SeqDomain DEF Stream

(* What is destroyed or marked, what lives on the server and what is a      *)
(* ghost, is all known or being announced.                                  *)
LEMMA AllKnown ==
  ASSUME Inv, ~Ended
  PROVE  /\ world \cup ghosts \subseteq ids \cup AddedBy(Stream)
         /\ ToSet(marked) \cup DroppedBy(Stream) \subseteq ids \cup AddedBy(Stream)
<1>1. TypeOK /\ Orderly
  BY DEF Inv
<1>2. Stream \in Seq(SceneMessages)
  BY <1>1, StreamIsSeq
<1>3. \A p \in DOMAIN Stream : Drops(Stream[p]) \subseteq Uses(Stream[p])
  BY <1>2, SeqDomain, Meaning
<1>4. DroppedBy(Stream) \subseteq ids \cup AddedBy(Stream)
  BY <1>1, <1>3, AddedAt DEF Orderly, Before
<1>5. ASSUME NEW x \in ToSet(marked), x \notin ids PROVE x \in AddedBy(Stream)
  <2>1. Message("shoot", x) \in ToSet(queue)
    BY <1>1, <1>5 DEF Orderly, MarkedExist
  <2>2. x \in Ids
    BY <1>1, <1>5 DEF TypeOK, ToSet
  <2>3. Adds(Message("shoot", x)) = {x}
    BY <2>2, OneMessage, Meaning
  <2>4. x \in AddedBy(queue)
    BY <2>1, <2>3 DEF AddedBy
  <2> QED
    BY <1>1, <2>4, StreamIsSeq
<1>6. world \cup ghosts \subseteq ids \cup AddedBy(Stream)
  BY <1>1 DEF Orderly, Balance
<1> QED
  BY <1>4, <1>5, <1>6

-----------------------------------------------------------------------------
(* The server's messages.                                                   *)

LEMMA Sent ==
  ASSUME TypeOK, NEW m \in SceneMessages, feed' = Append(feed, m), queue' = queue
  PROVE  Stream' = Append(Stream, m)
BY DEF TypeOK, Stream

(* A message that fits keeps the stream in order.                           *)
LEMMA SendKeeps ==
  ASSUME Inv, ~Ended, NEW m \in SceneMessages,
         feed' = Append(feed, m), UNCHANGED <<queue, pc, it, scene>>,
         Adds(m) \cap (ids \cup AddedBy(Stream)) = {},
         Uses(m) \cap (ToSet(marked) \cup DroppedBy(Stream)) = {},
         Uses(m) \subseteq ids \cup AddedBy(Stream),
         \A z \in Adds(m) : \A x \in Ids :
           SlotOf(x) = SlotOf(z) /\ x \in ids \cup AddedBy(Stream) =>
             x \in Doomed \cup DroppedBy(Stream),
         world' \cup ghosts =
           ((world \cup ghosts) \cup Adds(m)) \ Drops(m),
         ghosts \cap world' = {},
         \A x \in Ids : WasIssued(x) \/ x \in Adds(m) => WasIssued(x)'
  PROVE  Orderly'
<1>1. TypeOK /\ Orderly
  BY DEF Inv
<1>2. Stream \in Seq(SceneMessages) /\ Stream' = Append(Stream, m)
  BY <1>1, StreamIsSeq, Sent
<1>3. /\ AddedBy(Stream)' = AddedBy(Stream) \cup Adds(m)
      /\ DroppedBy(Stream)' = DroppedBy(Stream) \cup Drops(m)
  BY <1>2, GrownAdds
<1>4. UNCHANGED <<queue, pc, it, ids, objects, marked, ghosts>>
  BY DEF scene
<1>5. Doomed' = Doomed /\ ToSet(marked)' = ToSet(marked)
  BY <1>4 DEF Doomed
<1>6. /\ Once(Append(Stream, m), ids)
      /\ AtLast(Append(Stream, m), ToSet(marked))
      /\ Before(Append(Stream, m), ids)
      /\ InTurn(Append(Stream, m), ids, Doomed)
  <2>1. /\ Once(Stream, ids) /\ AtLast(Stream, ToSet(marked))
        /\ Before(Stream, ids) /\ InTurn(Stream, ids, Doomed)
    BY <1>1 DEF Orderly
  <2> QED
    BY <1>2, <2>1, GrownOrder
<1>7. /\ Once(Stream, ids)' /\ AtLast(Stream, ToSet(marked))'
      /\ Before(Stream, ids)' /\ InTurn(Stream, ids, Doomed)'
  BY <1>2, <1>4, <1>5, <1>6
<1>8. Balance'
  <2>1. Drops(m) \subseteq Uses(m)
    BY Meaning
  <2>2. /\ (ids \cup AddedBy(Stream)) \ (ToSet(marked) \cup DroppedBy(Stream))
             = world \cup ghosts
        /\ ToSet(marked) \cup DroppedBy(Stream) \subseteq ids \cup AddedBy(Stream)
    BY <1>1, AllKnown DEF Orderly, Balance
  <2> QED
    BY <1>3, <1>4, <1>5, <2>1, <2>2 DEF Balance
<1>9. AllIssued'
  <2>1. AddedBy(Stream) \cup ids \subseteq Ids
    <3>1. \A p \in DOMAIN Stream : Adds(Stream[p]) \subseteq Ids
      BY <1>2, SeqDomain, Meaning
    <3> QED
      BY <1>1, <3>1, AddedAt DEF TypeOK
  <2>2. Adds(m) \subseteq Ids
    BY Meaning
  <2>3. \A x \in ids \cup AddedBy(Stream) : WasIssued(x)'
    BY <1>1, <2>1 DEF Orderly, AllIssued
  <2> QED
    BY <1>3, <1>4, <2>2, <2>3 DEF AllIssued
<1>10. MarkedOnce' /\ MarkedExist' /\ PassedHang' /\ (ghosts \cap world = {})'
  BY <1>1, <1>4 DEF Orderly, MarkedOnce, MarkedExist, PassedHang, Hangs
<1> QED
  BY <1>7, <1>8, <1>9, <1>10 DEF Orderly

LEMMA AnnounceKeeps ==
  ASSUME Inv, ~Ended, NEW type \in {"connection", "shoot"}, ServerAnnounces(type)
  PROVE  Orderly'
<1>1. TypeOK /\ Orderly
  BY DEF Inv
<1>2. PICK x \in Creatable(world, issued) :
        /\ world' = world \cup {x} /\ issued' = Issue(issued, x)
        /\ Send(Message(type, x))
  BY DEF ServerAnnounces
<1> DEFINE m == Message(type, x)
<1>3. /\ x \in Ids /\ SlotOf(x) \in Slots /\ VersionOf(x) = issued[SlotOf(x)]
      /\ \A y \in world : SlotOf(y) = SlotOf(x) => ~(VersionOf(y) < issued[SlotOf(x)])
      /\ issued'[SlotOf(x)] = issued[SlotOf(x)] + 1
      /\ \A s \in Slots : s # SlotOf(x) => issued'[s] = issued[s]
  BY <1>1, <1>2, CreatableFacts DEF TypeOK
<1>4. /\ m \in SceneMessages /\ Adds(m) = {x} /\ Drops(m) = {} /\ Uses(m) = {}
  BY <1>3, OneMessage, Meaning DEF Uses
<1>5. feed' = Append(feed, m) /\ UNCHANGED <<queue, pc, it, scene>>
  BY <1>2 DEF Send
<1>6. issued \in [Slots -> Nat]
  BY <1>1 DEF TypeOK
<1>7. x \notin ids \cup AddedBy(Stream)
  BY <1>1, <1>3, <1>6 DEF Orderly, AllIssued, WasIssued
<1>8. x \notin ToSet(marked) \cup DroppedBy(Stream) /\ x \notin world \cup ghosts
  BY <1>7, AllKnown
<1>9. ASSUME NEW y \in Ids, SlotOf(y) = SlotOf(x), y \in ids \cup AddedBy(Stream)
      PROVE  y \in Doomed \cup DroppedBy(Stream)
  <2>1. y \notin world
    BY <1>1, <1>3, <1>9 DEF Orderly, AllIssued, WasIssued
  <2> QED
    BY <1>1, <1>9, <2>1 DEF Orderly, Balance, Doomed
<1>10. ASSUME NEW y \in Ids, WasIssued(y) \/ y = x PROVE WasIssued(y)'
  <2>1. SlotOf(y) \in Slots /\ VersionOf(y) \in Nat
    BY RegistryAssumption DEF Ids, SlotOf, VersionOf, RegistryAssumption
  <2>2. issued[SlotOf(y)] \in Nat /\ issued[SlotOf(x)] \in Nat
    BY <1>3, <1>6, <2>1
  <2>3. CASE SlotOf(y) = SlotOf(x)
    <3>1. VersionOf(y) < issued[SlotOf(x)] + 1
      BY <1>3, <1>10, <2>1, <2>2, <2>3 DEF WasIssued
    <3> QED
      BY <1>3, <2>3, <3>1 DEF WasIssued
  <2>4. CASE SlotOf(y) # SlotOf(x)
    <3>1. issued'[SlotOf(y)] = issued[SlotOf(y)] /\ y # x
      BY <1>3, <2>1, <2>4
    <3> QED
      BY <1>10, <3>1 DEF WasIssued
  <2> QED
    BY <2>3, <2>4
<1>11. ghosts \cap world = {}
  BY <1>1 DEF Orderly
<1> HIDE DEF m
<1>12. /\ world' \cup ghosts = ((world \cup ghosts) \cup Adds(m)) \ Drops(m)
       /\ ghosts \cap world' = {}
  BY <1>2, <1>4, <1>8, <1>11
<1> QED
  BY <1>4, <1>5, <1>7, <1>9, <1>10, <1>12, SendKeeps

(* What lives on the server is not marked, and its end is not announced.    *)
LEMMA MoveOrDestroyKeeps ==
  ASSUME Inv, ~Ended, NEW x \in world, ServerDestroys(x) \/ ServerMoves(x)
  PROVE  Orderly'
<1>1. TypeOK /\ Orderly
  BY DEF Inv
<1>2. x \in Ids
  BY <1>1 DEF TypeOK
<1>3. /\ x \in ids \cup AddedBy(Stream)
      /\ x \notin ToSet(marked) \cup DroppedBy(Stream)
      /\ x \notin ghosts
      /\ ghosts \cap world = {}
  BY <1>1 DEF Orderly, Balance
<1>4. issued' = issued
  BY DEF ServerDestroys, ServerMoves
<1>5. CASE ServerDestroys(x)
  <2> DEFINE m == Message("destroy", x)
  <2>1. m \in SceneMessages /\ Adds(m) = {} /\ Drops(m) = {x} /\ Uses(m) = {x}
    BY <1>2, OneMessage, Meaning DEF Uses
  <2>2. /\ feed' = Append(feed, m) /\ UNCHANGED <<queue, pc, it, scene>>
        /\ world' = world \ {x}
    BY <1>5 DEF ServerDestroys, Send
  <2> HIDE DEF m
  <2>3. world' \cup ghosts = ((world \cup ghosts) \cup Adds(m)) \ Drops(m)
    BY <1>3, <2>1, <2>2
  <2>4. \A y \in Ids : WasIssued(y) \/ y \in Adds(m) => WasIssued(y)'
    BY <1>4, <2>1 DEF WasIssued
  <2>5. ghosts \cap world' = {}
    BY <1>3, <2>2
  <2> QED
    BY <1>3, <2>1, <2>2, <2>3, <2>4, <2>5, SendKeeps
<1>6. CASE ServerMoves(x)
  <2> DEFINE m == Message("coords", x)
  <2>1. m \in SceneMessages /\ Adds(m) = {} /\ Drops(m) = {} /\ Uses(m) = {x}
    BY <1>2, OneMessage, Meaning DEF Uses
  <2>2. /\ feed' = Append(feed, m) /\ UNCHANGED <<queue, pc, it, scene>>
        /\ world' = world
    BY <1>6 DEF ServerMoves, Send
  <2> HIDE DEF m
  <2>3. world' \cup ghosts = ((world \cup ghosts) \cup Adds(m)) \ Drops(m)
    BY <1>3, <2>1, <2>2
  <2>4. \A y \in Ids : WasIssued(y) \/ y \in Adds(m) => WasIssued(y)'
    BY <1>4, <2>1 DEF WasIssued
  <2>5. ghosts \cap world' = {}
    BY <1>3, <2>2
  <2> QED
    BY <1>3, <2>1, <2>2, <2>3, <2>4, <2>5, SendKeeps
<1> QED
  BY <1>5, <1>6

-----------------------------------------------------------------------------
(* The polling thread.                                                      *)

(* A message that is received moves from one part of the stream to the      *)
(* other.                                                                   *)
LEMMA PollKeeps ==
  ASSUME Inv, ~Ended, PollMessage
  PROVE  Orderly'
<1>1. TypeOK /\ Orderly
  BY DEF Inv
<1>2. /\ feed # <<>> /\ pc # "processing"
      /\ queue' = Append(queue, Head(feed)) /\ feed' = Tail(feed)
      /\ UNCHANGED <<world, issued, pc, ids, marked, ghosts>>
  BY DEF PollMessage, MutexFree, server, scene
<1>3. queue \in Seq(SceneMessages) /\ feed \in Seq(SceneMessages)
  BY <1>1 DEF TypeOK
<1>4. Stream' = Stream
  <2>1. Append(queue, Head(feed)) \o Tail(feed) = queue \o feed
    BY <1>2, <1>3
  <2> QED
    BY <1>2, <2>1 DEF Stream
<1>5. ToSet(queue) \subseteq ToSet(queue')
  <2>1. Head(feed) \in SceneMessages
    BY <1>2, <1>3
  <2>2. \A p \in DOMAIN queue : p \in DOMAIN queue' /\ queue'[p] = queue[p]
    BY <1>2, <1>3, <2>1, GrownParts
  <2> QED
    BY <2>2 DEF ToSet
<1>6. Balance' /\ AllIssued' /\ MarkedOnce' /\ PassedHang' /\ (ghosts \cap world = {})'
  BY <1>1, <1>2, <1>4
     DEF Orderly, Balance, AllIssued, WasIssued, MarkedOnce, PassedHang
<1>7. MarkedExist'
  BY <1>1, <1>2, <1>5 DEF Orderly, MarkedExist
<1>8. /\ Once(Stream, ids)' /\ AtLast(Stream, ToSet(marked))'
      /\ Before(Stream, ids)' /\ InTurn(Stream, ids, Doomed)'
  BY <1>1, <1>2, <1>4 DEF Orderly, Doomed
<1> QED
  BY <1>6, <1>7, <1>8 DEF Orderly

(* The error that is pushed concerns no entity.                             *)
LEMMA LossKeeps ==
  ASSUME Inv, ~Ended, ConnectionLost
  PROVE  Orderly'
<1>1. TypeOK /\ Orderly
  BY DEF Inv
<1>2. /\ pc # "processing"
      /\ queue' = Append(queue, NetworkError) /\ feed' = feed
      /\ UNCHANGED <<world, issued, pc, ids, marked, ghosts>>
  BY DEF ConnectionLost, MutexFree, server, scene
<1>3. queue \in Seq(SceneMessages) /\ feed \in Seq(SceneMessages)
  BY <1>1 DEF TypeOK
<1>4. NetworkError \in SceneMessages
  <2>1. Main \in Ids
    BY SceneAssumption, RegistryAssumption DEF SceneAssumption, RegistryAssumption, Ids
  <2> QED
    BY <2>1, OneMessage DEF NetworkError
<1>5. Stream \in Seq(SceneMessages) /\ Stream' \in Seq(SceneMessages)
  <2>1. queue' \in Seq(SceneMessages) /\ feed' \in Seq(SceneMessages)
    BY <1>2, <1>3, <1>4, GrownParts
  <2> QED
    BY <1>3, <2>1, JoinParts DEF Stream
<1>6. PICK f : ThinnedBy(Stream', Stream, 0, f)
  BY <1>2, <1>3, ErrorThins DEF Stream
<1>7. ~(0 \in DOMAIN Stream) /\ \A p \in DOMAIN Stream : ~(p < 0)
  BY <1>5, SeqDomain
<1>8. AddedBy(Stream)' = AddedBy(Stream) /\ DroppedBy(Stream)' = DroppedBy(Stream)
  <2>1. \A x : x \in AddedBy(Stream') <=> x \in AddedBy(Stream)
    BY <1>5, <1>6, <1>7, ThinnedAdds
  <2>2. \A x : x \in DroppedBy(Stream') <=> x \in DroppedBy(Stream)
    BY <1>5, <1>6, <1>7, ThinnedAdds
  <2> QED
    BY <2>1, <2>2
<1>9. ToSet(queue) \subseteq ToSet(queue')
  <2>1. \A p \in DOMAIN queue : p \in DOMAIN queue' /\ queue'[p] = queue[p]
    BY <1>2, <1>3, <1>4, GrownParts
  <2> QED
    BY <2>1 DEF ToSet
<1>10. Balance' /\ AllIssued' /\ MarkedOnce' /\ PassedHang' /\ (ghosts \cap world = {})'
  BY <1>1, <1>2, <1>8
     DEF Orderly, Balance, AllIssued, WasIssued, MarkedOnce, PassedHang
<1>11. MarkedExist'
  BY <1>1, <1>2, <1>9 DEF Orderly, MarkedExist
<1>12. /\ Once(Stream, ids) /\ AtLast(Stream, ToSet(marked))
       /\ Before(Stream, ids) /\ InTurn(Stream, ids, Doomed)
  BY <1>1 DEF Orderly
<1>13. Once(Stream', ids)
  BY <1>5, <1>6, <1>12, ThinnedOnce
<1>14. AtLast(Stream', ToSet(marked))
  BY <1>5, <1>6, <1>7, <1>12, ThinnedLast
<1>15. Before(Stream', ids)
  BY <1>5, <1>6, <1>7, <1>12, ThinnedBefore
<1>16. InTurn(Stream', ids, Doomed)
  BY <1>5, <1>6, <1>7, <1>12, ThinnedInTurn
<1>17. /\ Once(Stream, ids)' /\ AtLast(Stream, ToSet(marked))'
       /\ Before(Stream, ids)' /\ InTurn(Stream, ids, Doomed)'
  BY <1>2, <1>13, <1>14, <1>15, <1>16 DEF Doomed
<1> QED
  BY <1>10, <1>11, <1>17 DEF Orderly

-----------------------------------------------------------------------------
(* The main thread.                                                         *)

(* A message that is processed and erased does to the scene what it says.   *)
LEMMA ConsumeKeeps ==
  ASSUME Inv, ~Ended, pc = "processing", it \in 1 .. Len(queue), Consumed,
         UNCHANGED <<server, network, pc, ghosts>>,
         ids' = ids \cup Adds(queue[it]),
         \A x \in Adds(queue[it]) : ~HintRefused(ids, x),
         ToSet(marked)' = ToSet(marked) \cup Drops(queue[it]),
         MarkedOnce'
  PROVE  Orderly'
<1>1. TypeOK /\ Orderly
  BY DEF Inv
<1>2. /\ queue' = RemoveAt(queue, it) /\ it' = it
      /\ UNCHANGED <<world, issued, feed, pc, ghosts>>
  BY DEF Consumed, server, network
<1>3. queue \in Seq(SceneMessages) /\ feed \in Seq(SceneMessages)
  BY <1>1 DEF TypeOK
<1> DEFINE m == queue[it]
<1>4. it \in Nat /\ m \in SceneMessages /\ it \in DOMAIN Stream /\ Stream[it] = m
  BY <1>1, QueueInStream
<1>5. /\ queue' \in Seq(SceneMessages) /\ Len(queue') = Len(queue) - 1
      /\ \A p \in 1 .. Len(queue) - 1 :
           queue'[p] = IF p < it THEN queue[p] ELSE queue[p + 1]
      /\ \E f : ThinnedBy(queue' \o feed, queue \o feed, it, f)
  BY <1>2, <1>3, RemovedThins
<1>6. PICK f : ThinnedBy(Stream', Stream, it, f)
  BY <1>2, <1>5 DEF Stream
<1>7. Stream \in Seq(SceneMessages) /\ Stream' \in Seq(SceneMessages)
  BY <1>2, <1>3, <1>5, JoinParts DEF Stream
<1>8. \A p \in DOMAIN Stream : p < it =>
        /\ Uses(Stream[p]) = {}
        /\ \A z \in Adds(Stream[p]) : Occupied(ids, SlotOf(z))
  <2>1. SUFFICES ASSUME NEW p \in DOMAIN Stream, p < it
                 PROVE  /\ Uses(Stream[p]) = {}
                        /\ \A z \in Adds(Stream[p]) : Occupied(ids, SlotOf(z))
    OBVIOUS
  <2>2. p \in 1 .. it - 1 /\ p \in 1 .. Len(queue)
    BY <1>3, <1>4, <1>7, <2>1, SeqDomain
  <2>3. Stream[p] = queue[p] /\ queue[p] \in SceneMessages /\ Hangs(queue[p])
    BY <1>1, <2>2, QueueInStream DEF Orderly, PassedHang
  <2> QED
    BY <2>3, Meaning DEF Hangs, Uses
<1> HIDE DEF m
<1>9. /\ \A x : x \in AddedBy(Stream) <=> x \in AddedBy(Stream') \/ x \in Adds(m)
      /\ \A x : x \in DroppedBy(Stream) <=> x \in DroppedBy(Stream') \/ x \in Drops(m)
  BY <1>4, <1>6, <1>7, ThinnedAdds
<1>10. ids' = ids \cup Adds(m) /\ ToSet(marked)' = ToSet(marked) \cup Drops(m)
  BY DEF m
<1>11. Balance'
  <2>1. (ids \cup AddedBy(Stream)) \ (ToSet(marked) \cup DroppedBy(Stream))
          = world \cup ghosts
    BY <1>1 DEF Orderly, Balance
  <2>2. /\ AddedBy(Stream) = AddedBy(Stream') \cup Adds(m)
        /\ DroppedBy(Stream) = DroppedBy(Stream') \cup Drops(m)
    BY <1>9
  <2>3. (ids' \cup AddedBy(Stream')) \ (ToSet(marked)' \cup DroppedBy(Stream'))
          = world \cup ghosts
    BY <1>10, <2>1, <2>2
  <2> QED
    BY <1>2, <2>3 DEF Balance
<1>12. AllIssued'
  <2>1. ids' \cup AddedBy(Stream)' \subseteq ids \cup AddedBy(Stream)
    BY <1>9, <1>10
  <2> QED
    BY <1>1, <1>2, <2>1 DEF Orderly, AllIssued, WasIssued
<1>13. MarkedExist'
  <2>1. SUFFICES ASSUME NEW x \in ToSet(marked)', x \notin ids'
                 PROVE  Message("shoot", x) \in ToSet(queue')
    BY DEF MarkedExist
  <2>2. PICK p \in 1 .. Len(queue) : queue[p] = Message("shoot", x) /\ p # it
    <3>1. CASE x \in ToSet(marked)
      <4>1. Message("shoot", x) \in ToSet(queue) /\ x \in Ids
        BY <1>1, <1>10, <2>1, <3>1 DEF Orderly, MarkedExist, TypeOK, ToSet
      <4>2. Adds(Message("shoot", x)) = {x}
        BY <4>1, OneMessage, Meaning
      <4>3. PICK p \in DOMAIN queue : queue[p] = Message("shoot", x)
        BY <4>1 DEF ToSet
      <4>4. p # it
        BY <1>10, <2>1, <4>2, <4>3 DEF m
      <4> QED
        BY <1>3, <4>3, <4>4, SeqDomain
    <3>2. CASE x \in Drops(m)
      <4>1. x \in Uses(m) /\ x \notin ids
        BY <1>4, <1>10, <2>1, <3>2, Meaning
      <4>2. PICK p \in DOMAIN Stream : p < it /\ x \in Adds(Stream[p])
        BY <1>1, <1>4, <4>1 DEF Orderly, Before
      <4>3. p \in 1 .. it - 1 /\ p \in 1 .. Len(queue) /\ p # it
        BY <1>3, <1>4, <1>7, <4>2, SeqDomain
      <4>4. Stream[p] = queue[p] /\ queue[p] \in SceneMessages /\ Hangs(queue[p])
        BY <1>1, <4>3, QueueInStream DEF Orderly, PassedHang
      <4>5. queue[p] = Message("shoot", x)
        BY <4>2, <4>4, Meaning DEF Hangs
      <4> QED
        BY <4>3, <4>5
    <3> QED
      BY <1>10, <2>1, <3>1, <3>2
  <2>3. \E r \in DOMAIN queue' : queue'[r] = queue[p]
    <3>1. DOMAIN queue' = 1 .. Len(queue) - 1 /\ Len(queue) \in Nat
      BY <1>3, <1>5, SeqDomain
    <3>2. CASE p < it
      <4>1. p \in 1 .. Len(queue) - 1
        BY <1>4, <3>1, <3>2
      <4> QED
        BY <1>5, <3>1, <3>2, <4>1
    <3>3. CASE p > it
      <4>1. p - 1 \in 1 .. Len(queue) - 1 /\ ~(p - 1 < it) /\ (p - 1) + 1 = p
        BY <1>4, <3>1, <3>3
      <4> QED
        BY <1>5, <3>1, <4>1
    <3> QED
      BY <1>4, <2>2, <3>2, <3>3
  <2> QED
    BY <2>2, <2>3 DEF ToSet
<1>14. PassedHang'
  <2>1. \A p \in 1 .. it - 1 : queue'[p] = queue[p]
    BY <1>3, <1>4, <1>5, SeqDomain
  <2>2. \A p \in 1 .. it - 1 : Hangs(queue[p])
    BY <1>1 DEF Orderly, PassedHang
  <2>3. ids \subseteq ids'
    BY <1>10
  <2> QED
    BY <1>2, <2>1, <2>2, <2>3 DEF PassedHang, Hangs, Occupied
<1>15. /\ Once(Stream, ids) /\ AtLast(Stream, ToSet(marked))
       /\ Before(Stream, ids) /\ InTurn(Stream, ids, Doomed)
  BY <1>1 DEF Orderly
<1>16. Once(Stream', ids')
  BY <1>4, <1>6, <1>7, <1>10, <1>15, ThinnedOnce
<1>17. AtLast(Stream', ToSet(marked)')
  BY <1>4, <1>6, <1>7, <1>8, <1>10, <1>15, ThinnedLast
<1>18. Before(Stream', ids')
  BY <1>4, <1>6, <1>7, <1>10, <1>15, ThinnedBefore
<1>19. InTurn(Stream', ids', Doomed')
  <2>1. Doomed \subseteq Doomed' /\ Drops(Stream[it]) \subseteq Doomed'
    BY <1>2, <1>4, <1>10 DEF Doomed
  <2>2. ASSUME NEW x \in ids'
        PROVE  \/ x \in ids
               \/ /\ it \in DOMAIN Stream /\ x \in Adds(Stream[it])
                  /\ \A p \in DOMAIN Stream : p < it =>
                       \A z \in Adds(Stream[p]) : SlotOf(x) # SlotOf(z)
    <3>1. CASE x \in Adds(m)
      <4>1. ~Occupied(ids, SlotOf(x))
        BY <3>1 DEF HintRefused, m
      <4> QED
        BY <1>4, <1>8, <3>1, <4>1
    <3> QED
      BY <1>10, <3>1
  <2> QED
    BY <1>6, <1>7, <1>15, <2>1, <2>2, ThinnedInTurn
<1>20. (ghosts \cap world = {})'
  BY <1>1, <1>2 DEF Orderly
<1>21. /\ Once(Stream, ids)' /\ AtLast(Stream, ToSet(marked))'
       /\ Before(Stream, ids)' /\ InTurn(Stream, ids, Doomed)'
  BY <1>16, <1>17, <1>18, <1>19
<1> QED
  BY <1>11, <1>12, <1>13, <1>14, <1>20, <1>21 DEF Orderly

LEMMA ProcessKeeps ==
  ASSUME Inv, ~Ended, ProcessOne, ~Ended'
  PROVE  Orderly' /\ objects' = ids'
<1>1. TypeOK /\ Orderly /\ objects = ids
  BY DEF Inv
<1> DEFINE m == queue[it]
<1>2. pc = "processing" /\ it \in 1 .. Len(queue)
  <2>1. pc = "processing" /\ it <= Len(queue)
    BY DEF ProcessOne, ProcessCoords, ProcessConnection, ProcessShoot,
           ProcessDestroy, ProcessNetworkError, Current
  <2>2. it \in 1 .. Len(queue) + 1 /\ Len(queue) \in Nat
    BY <1>1, <2>1, StreamIsSeq, SeqDomain DEF TypeOK
  <2> QED
    BY <2>1, <2>2
<1>3. /\ m \in SceneMessages /\ m.id \in Ids
      /\ Adds(m) = IF m.type \in {"connection", "shoot"} THEN {m.id} ELSE {}
      /\ Drops(m) = IF m.type = "destroy" THEN {m.id} ELSE {}
  BY <1>1, <1>2, QueueInStream, Meaning
<1>4. MarkedOnce
  BY <1>1 DEF Orderly
<1>5. ASSUME Consumed, UNCHANGED <<server, network, pc, marked, ghosts>>,
             Drops(m) = {},
             \/ Adds(m) = {} /\ UNCHANGED <<ids, objects>>
             \/ Adds(m) = {m.id} /\ AddObject(m.id)
      PROVE  Orderly' /\ objects' = ids'
  <2>1. /\ ids' = ids \cup Adds(m) /\ objects' = ids'
        /\ \A x \in Adds(m) : ~HintRefused(ids, x)
    BY <1>1, <1>5 DEF AddObject
  <2>2. ToSet(marked)' = ToSet(marked) \cup Drops(m) /\ MarkedOnce'
    BY <1>4, <1>5 DEF MarkedOnce
  <2>3. UNCHANGED <<server, network, pc, ghosts>>
    BY <1>5
  <2> QED
    BY <1>2, <1>5, <2>1, <2>2, <2>3, ConsumeKeeps
<1>6. CASE ProcessCoords
  BY <1>3, <1>5, <1>6 DEF ProcessCoords, Current, scene
<1>7. CASE ProcessConnection
  <2>1. pc' # "asserted"
    BY DEF Ended
  <2> QED
    BY <1>3, <1>5, <1>7, <2>1 DEF ProcessConnection, Current
<1>8. CASE ProcessShoot
  <2>1. m.type = "shoot" /\ UNCHANGED <<server, network, pc, marked, ghosts>>
    BY <1>8 DEF ProcessShoot, Current
  <2>2. CASE AddObject(m.id) /\ Consumed
    BY <1>3, <1>5, <2>1, <2>2
  <2>3. CASE HintRefused(ids, m.id) /\ LeftToHang /\ UNCHANGED <<ids, objects>>
    <3>1. /\ it' = it + 1
          /\ UNCHANGED <<world, issued, feed, queue, pc, ids, objects, marked, ghosts>>
      BY <2>1, <2>3 DEF LeftToHang, server, network
    <3>2. PassedHang'
      <4>1. Hangs(queue[it])
        BY <2>1, <2>3 DEF Hangs, HintRefused
      <4>2. \A p \in 1 .. (it + 1) - 1 : p \in 1 .. it - 1 \/ p = it
        BY <1>2
      <4> QED
        BY <1>1, <1>2, <3>1, <4>1, <4>2 DEF Orderly, PassedHang, Hangs
    <3>3. /\ Balance' /\ AllIssued' /\ MarkedOnce' /\ MarkedExist'
          /\ (ghosts \cap world = {})'
      BY <1>1, <3>1 DEF Orderly, Balance, AllIssued, WasIssued, MarkedOnce,
                        MarkedExist, Stream
    <3>4. /\ Once(Stream, ids)' /\ AtLast(Stream, ToSet(marked))'
          /\ Before(Stream, ids)' /\ InTurn(Stream, ids, Doomed)'
      BY <1>1, <3>1 DEF Orderly, Stream, Doomed
    <3> QED
      BY <1>1, <3>1, <3>2, <3>3, <3>4 DEF Orderly
  <2> QED
    BY <1>8, <2>2, <2>3 DEF ProcessShoot
<1>9. CASE ProcessDestroy
  <2>1. /\ m.type = "destroy" /\ Consumed
        /\ marked' = Append(marked, m.id)
        /\ UNCHANGED <<server, network, pc, ids, objects, ghosts>>
    BY <1>9 DEF ProcessDestroy, Current
  <2>2. Adds(m) = {} /\ Drops(m) = {m.id}
    BY <1>3, <2>1
  <2>3. m.id \notin ToSet(marked)
    <3>1. it \in DOMAIN Stream /\ Stream[it] = m
      BY <1>1, <1>2, QueueInStream
    <3>2. Uses(m) = {m.id}
      BY <2>1 DEF Uses
    <3> QED
      BY <1>1, <3>1, <3>2 DEF Orderly, AtLast
  <2>4. ToSet(marked)' = ToSet(marked) \cup Drops(m) /\ MarkedOnce'
    BY <1>1, <1>3, <1>4, <2>1, <2>2, <2>3, MarkedGrows DEF TypeOK, MarkedOnce
  <2>5. /\ ids' = ids \cup Adds(m) /\ objects' = ids'
        /\ \A x \in Adds(m) : ~HintRefused(ids, x)
    BY <1>1, <2>1, <2>2
  <2>6. UNCHANGED <<server, network, pc, ghosts>>
    BY <2>1
  <2> QED
    BY <1>2, <2>1, <2>4, <2>5, <2>6, ConsumeKeeps
<1>10. CASE ProcessNetworkError
  BY <1>3, <1>5, <1>10 DEF ProcessNetworkError, Current
<1> QED
  BY <1>6, <1>7, <1>8, <1>9, <1>10 DEF ProcessOne

(* A marked entity is deleted; what was not there to be deleted is a ghost. *)
LEMMA DeleteKeeps ==
  ASSUME Inv, ~Ended, DeleteOne
  PROVE  Orderly' /\ objects' = ids'
<1>1. TypeOK /\ Orderly /\ objects = ids
  BY DEF Inv
<1> DEFINE id == Head(marked)
<1>2. /\ pc = "deleting" /\ marked # <<>> /\ pc' \in {"deleting", "crashed"}
      /\ marked' = Tail(marked) /\ ids' = ids \ {id} /\ objects' = ids'
      /\ ghosts' = IF id \in ids THEN ghosts ELSE ghosts \cup {id}
      /\ UNCHANGED <<world, issued, feed, queue>>
  BY <1>1 DEF DeleteOne, server, network
<1>3. /\ id \in Ids /\ id \in ToSet(marked)
      /\ ToSet(marked)' = ToSet(marked) \ {id}
      /\ MarkedOnce'
  BY <1>1, <1>2, MarkedShrinks DEF TypeOK, Orderly, MarkedOnce
<1> HIDE DEF id
<1>4. Stream' = Stream
  BY <1>2 DEF Stream
<1>5. /\ Once(Stream, ids) /\ AtLast(Stream, ToSet(marked))
      /\ Before(Stream, ids) /\ InTurn(Stream, ids, Doomed)
  BY <1>1 DEF Orderly
<1>6. Stream \in Seq(SceneMessages)
  BY <1>1, StreamIsSeq
<1>7. \A q \in DOMAIN Stream : id \notin Uses(Stream[q]) /\ id \notin Drops(Stream[q])
  BY <1>3, <1>5, <1>6, SeqDomain, Meaning DEF AtLast
<1>8. id \notin DroppedBy(Stream)
  BY <1>7, AddedAt
<1>9. id \in ids => id \notin AddedBy(Stream)
  BY <1>5, AddedAt DEF Once
<1>10. id \in ids \cup AddedBy(Stream) /\ id \notin world \cup ghosts
  BY <1>1, <1>3, AllKnown DEF Orderly, Balance
<1>11. Balance'
  <2>1. (ids \cup AddedBy(Stream)) \ (ToSet(marked) \cup DroppedBy(Stream))
          = world \cup ghosts
    BY <1>1 DEF Orderly, Balance
  <2>2. (ids' \cup AddedBy(Stream)) \ (ToSet(marked)' \cup DroppedBy(Stream))
          = world \cup ghosts'
    BY <1>2, <1>3, <1>8, <1>9, <1>10, <2>1
  <2> QED
    BY <1>2, <1>4, <2>2 DEF Balance
<1>12. AllIssued' /\ PassedHang' /\ (ghosts \cap world = {})'
  <2>1. (ghosts \cap world = {})'
    BY <1>1, <1>2, <1>10 DEF Orderly
  <2>2. AllIssued'
    BY <1>1, <1>2, <1>4 DEF Orderly, AllIssued, WasIssued
  <2> QED
    BY <1>2, <2>1, <2>2 DEF PassedHang
<1>13. MarkedExist'
  BY <1>1, <1>2, <1>3 DEF Orderly, MarkedExist
<1>14. Once(Stream, ids')
  BY <1>2, <1>5 DEF Once
<1>15. AtLast(Stream, ToSet(marked)')
  BY <1>3, <1>5 DEF AtLast
<1>16. Before(Stream, ids')
  BY <1>2, <1>5, <1>7 DEF Before
<1>17. InTurn(Stream, ids', Doomed')
  <2>1. SUFFICES ASSUME NEW q \in DOMAIN Stream, NEW z \in Adds(Stream[q]), NEW x \in Ids,
                        SlotOf(x) = SlotOf(z),
                        x \in ids' \/ \E p \in DOMAIN Stream : p < q /\ x \in Adds(Stream[p])
                 PROVE  \/ x \in Doomed'
                        \/ \E r \in DOMAIN Stream : r < q /\ x \in Drops(Stream[r])
    BY DEF InTurn
  <2>2. x \in Doomed \/ \E r \in DOMAIN Stream : r < q /\ x \in Drops(Stream[r])
    BY <1>2, <1>5, <2>1 DEF InTurn
  <2>3. x = id => id \notin ids
    BY <1>2, <1>9, <2>1, AddedAt
  <2> QED
    BY <1>2, <1>3, <2>2, <2>3 DEF Doomed
<1>18. /\ Once(Stream, ids)' /\ AtLast(Stream, ToSet(marked))'
       /\ Before(Stream, ids)' /\ InTurn(Stream, ids, Doomed)'
  BY <1>4, <1>14, <1>15, <1>16, <1>17
<1> QED
  BY <1>2, <1>3, <1>11, <1>12, <1>13, <1>18 DEF Orderly

(* Steps that touch neither the stream nor the scene.                       *)
LEMMA QuietKeeps ==
  ASSUME Inv, ~Ended,
         UNCHANGED <<world, issued, feed, queue, ids, objects, marked, ghosts>>,
         pc' = "processing" => it' = 1 \/ (pc = "processing" /\ it' = it)
  PROVE  Orderly' /\ objects' = ids'
<1>1. Orderly /\ objects = ids
  BY DEF Inv
<1>2. /\ Balance' /\ AllIssued' /\ MarkedOnce' /\ MarkedExist'
      /\ (ghosts \cap world = {})'
  BY <1>1 DEF Orderly, Balance, AllIssued, WasIssued, MarkedOnce, MarkedExist, Stream
<1>3. /\ Once(Stream, ids)' /\ AtLast(Stream, ToSet(marked))'
      /\ Before(Stream, ids)' /\ InTurn(Stream, ids, Doomed)'
  BY <1>1 DEF Orderly, Stream, Doomed
<1>4. PassedHang'
  BY <1>1 DEF Orderly, PassedHang, Hangs
<1> QED
  BY <1>1, <1>2, <1>3, <1>4 DEF Orderly

-----------------------------------------------------------------------------
(* The invariant.                                                           *)

LEMMA TypeStep ==
  ASSUME TypeOK, [Next]_vars
  PROVE  TypeOK'
<1>1. queue \in Seq(SceneMessages) /\ feed \in Seq(SceneMessages)
  BY DEF TypeOK
<1>2. CASE UNCHANGED vars
  BY <1>2 DEF TypeOK, vars, server, network, scene
<1>3. ASSUME NEW m \in SceneMessages, Send(m),
             world' \in SUBSET Ids, issued' \in [Slots -> Nat]
      PROVE  TypeOK'
  <2>1. feed' \in Seq(SceneMessages)
    BY <1>1, <1>3, GrownParts DEF Send
  <2>2. events' \in 0 .. MaxEvents
    BY <1>3, SceneAssumption DEF TypeOK, Send, SceneAssumption
  <2> QED
    BY <1>3, <2>1, <2>2 DEF TypeOK, Send, scene
<1>4. ASSUME ServerStep PROVE TypeOK'
  <2>1. ASSUME NEW type \in {"connection", "shoot"}, ServerAnnounces(type) PROVE TypeOK'
    <3>1. PICK x \in Creatable(world, issued) :
            /\ world' = world \cup {x} /\ issued' = Issue(issued, x)
            /\ Send(Message(type, x))
      BY <2>1 DEF ServerAnnounces
    <3>2. x \in Ids /\ issued' \in [Slots -> Nat] /\ Message(type, x) \in SceneMessages
      BY <3>1, CreatableFacts, OneMessage DEF TypeOK
    <3> QED
      BY <1>3, <3>1, <3>2 DEF TypeOK
  <2>2. ASSUME NEW x \in world, ServerDestroys(x) PROVE TypeOK'
    <3>1. Message("destroy", x) \in SceneMessages
      BY OneMessage DEF TypeOK
    <3> QED
      BY <1>3, <2>2, <3>1 DEF TypeOK, ServerDestroys
  <2>3. ASSUME NEW x \in world, ServerMoves(x) PROVE TypeOK'
    <3>1. Message("coords", x) \in SceneMessages
      BY OneMessage DEF TypeOK
    <3> QED
      BY <1>3, <2>3, <3>1 DEF TypeOK, ServerMoves
  <2>4. CASE ServerGone
    BY <2>4 DEF TypeOK, ServerGone, network, scene
  <2> QED
    BY <1>4, <2>1, <2>2, <2>3, <2>4 DEF ServerStep
<1>5. ASSUME PollStep PROVE TypeOK'
  <2>1. CASE PollMessage
    <3>1. queue' \in Seq(SceneMessages) /\ feed' \in Seq(SceneMessages)
      BY <1>1, <2>1 DEF PollMessage
    <3> QED
      BY <2>1, <3>1 DEF TypeOK, PollMessage, MutexFree, server, scene
  <2>2. CASE ConnectionLost
    <3>1. NetworkError \in SceneMessages
      <4>1. Main \in Ids
        BY SceneAssumption, RegistryAssumption
           DEF SceneAssumption, RegistryAssumption, Ids
      <4> QED
        BY <4>1, OneMessage DEF NetworkError
    <3>2. queue' \in Seq(SceneMessages)
      BY <1>1, <2>2, <3>1, GrownParts DEF ConnectionLost
    <3> QED
      BY <2>2, <3>2 DEF TypeOK, ConnectionLost, MutexFree, server, scene
  <2>3. CASE PollWhileClosing
    <3>1. feed' \in Seq(SceneMessages)
      BY <1>1, <2>3 DEF PollWhileClosing
    <3>2. polling' \in BOOLEAN /\ pc' \in {"closing", "crashed"}
      BY <2>3 DEF PollWhileClosing
    <3>3. UNCHANGED <<server, queue, it, scene>>
      BY <2>3 DEF PollWhileClosing
    <3> QED
      BY <3>1, <3>2, <3>3 DEF TypeOK, server, scene
  <2> QED
    BY <1>5, <2>1, <2>2, <2>3 DEF PollStep
<1>6. ASSUME FrameStep PROVE TypeOK'
  <2>1. CASE BeginFrame
    <3>1. Len(queue) \in Nat
      BY <1>1, SeqDomain
    <3> QED
      BY <2>1, <3>1 DEF TypeOK, BeginFrame, server, network, scene
  <2>2. CASE ProcessOne
    <3>1. /\ pc = "processing" /\ it \in 1 .. Len(queue)
          /\ Len(queue) \in Nat /\ queue[it] \in SceneMessages
      <4>1. pc = "processing" /\ it <= Len(queue)
        BY <2>2 DEF ProcessOne, ProcessCoords, ProcessConnection, ProcessShoot,
                    ProcessDestroy, ProcessNetworkError, Current
      <4>2. it \in 1 .. Len(queue) + 1 /\ Len(queue) \in Nat
        BY <1>1, <4>1, SeqDomain DEF TypeOK
      <4>3. it \in 1 .. Len(queue)
        BY <4>1, <4>2
      <4> QED
        BY <4>1, <4>2, <4>3, QueueInStream
    <3>2. queue[it].id \in Ids
      BY <3>1, Meaning
    <3>3. Consumed => /\ queue' \in Seq(SceneMessages)
                      /\ it' \in 1 .. Len(queue') + 1
      <4>1. ASSUME Consumed
            PROVE  queue' \in Seq(SceneMessages) /\ Len(queue') = Len(queue) - 1
        BY <1>1, <3>1, <4>1, RemovedThins DEF Consumed
      <4> QED
        BY <3>1, <4>1 DEF Consumed
    <3>4. LeftToHang => queue' \in Seq(SceneMessages) /\ it' \in 1 .. Len(queue') + 1
      BY <1>1, <3>1 DEF LeftToHang
    <3>5. AddObject(queue[it].id) => ids' \subseteq Ids /\ objects' \subseteq Ids
      BY <3>2 DEF TypeOK, AddObject
    <3>6. CASE ProcessCoords
      BY <3>3, <3>6 DEF TypeOK, ProcessCoords, server, network, scene
    <3>7. CASE ProcessConnection
      BY <3>3, <3>5, <3>7 DEF TypeOK, ProcessConnection, server, network
    <3>8. CASE ProcessShoot
      BY <3>3, <3>4, <3>5, <3>8 DEF TypeOK, ProcessShoot, server, network
    <3>9. CASE ProcessDestroy
      <4>1. marked' \in Seq(Ids)
        BY <3>2, <3>9, MarkedGrows DEF TypeOK, ProcessDestroy
      <4> QED
        BY <3>3, <3>9, <4>1 DEF TypeOK, ProcessDestroy, server, network
    <3>10. CASE ProcessNetworkError
      BY <3>3, <3>10 DEF TypeOK, ProcessNetworkError, server, network
    <3> QED
      BY <2>2, <3>6, <3>7, <3>8, <3>9, <3>10 DEF ProcessOne
  <2>3. CASE EndProcessing
    BY <2>3 DEF TypeOK, EndProcessing, server, network, scene
  <2>4. CASE DeleteOne
    <3>1. Head(marked) \in Ids /\ marked' \in Seq(Ids)
      BY <2>4 DEF TypeOK, DeleteOne
    <3>2. ghosts' \subseteq Ids /\ pc' \in {"deleting", "crashed"}
      BY <2>4, <3>1 DEF TypeOK, DeleteOne
    <3> QED
      BY <2>4, <3>1, <3>2 DEF TypeOK, DeleteOne, server, network
  <2>5. CASE EndFrame
    BY <2>5 DEF TypeOK, EndFrame, server, network, scene
  <2> QED
    BY <1>6, <2>1, <2>2, <2>3, <2>4, <2>5 DEF FrameStep
<1>7. CASE Close
  BY <1>7 DEF TypeOK, Close, server, network, scene
<1>8. CASE JoinThread
  BY <1>8 DEF TypeOK, JoinThread, server, scene
<1> QED
  BY <1>2, <1>4, <1>5, <1>6, <1>7, <1>8 DEF Next, Terminated

LEMMA InvInit == Init => Inv
<1> SUFFICES ASSUME Init PROVE Inv
  OBVIOUS
<1>1. /\ world \subseteq Ids /\ issued \in [Slots -> Nat]
      /\ \A x \in world : WasIssued(x)
  <2>1. MaxPast \in Nat /\ MaxVersion \in Nat /\ MaxPast <= MaxVersion
    BY SceneAssumption, RegistryAssumption DEF SceneAssumption, RegistryAssumption
  <2>2. issued \in [Slots -> Nat] /\ \A s \in Slots : issued[s] <= MaxPast + 1
    BY <2>1 DEF Init
  <2>3. ASSUME NEW x \in world PROVE x \in Ids /\ WasIssued(x)
    <3>1. PICK s \in Slots : issued[s] > 0 /\ x = <<s, issued[s] - 1>>
      BY DEF Init
    <3>2. issued[s] - 1 \in 0 .. MaxVersion /\ issued[s] - 1 < issued[s]
      BY <2>1, <2>2, <3>1
    <3> QED
      BY <3>1, <3>2 DEF Ids, WasIssued, SlotOf, VersionOf
  <2> QED
    BY <2>2, <2>3
<1>2. /\ queue = <<>> /\ feed = <<>> /\ marked = <<>> /\ ghosts = {ZeroId} \ world
      /\ ids = world \cup ghosts /\ objects = ids /\ pc = "idle"
  BY DEF Init
<1>9. ZeroId \in Ids /\ WasIssued(ZeroId)
  <2>1. Slots \subseteq Nat /\ 0 \in Slots /\ MaxVersion \in Nat
    BY RegistryAssumption DEF RegistryAssumption
  <2>2. SlotOf(ZeroId) = 0 /\ VersionOf(ZeroId) = 0 /\ ZeroId \in Ids
    BY <2>1 DEF SlotOf, VersionOf, ZeroId, Ids
  <2>3. SlotOf(Main) \in Slots /\ SlotOf(Main) > 0
    <3>1. Main \in (Slots \ {SlotOf(ZeroId)}) \X (0 .. MaxPast)
      BY SceneAssumption DEF SceneAssumption
    <3>2. PICK s \in Slots \ {SlotOf(ZeroId)} : s = Main[1]
      BY <3>1
    <3>3. s \in Nat /\ s # 0
      BY <2>1, <2>2
    <3>4. s > 0
      BY <3>3
    <3> QED
      BY <3>2, <3>4 DEF SlotOf
  <2>7. Main \in world
    BY DEF Init
  <2>4. PICK s \in Slots : issued[s] > 0 /\ Main = <<s, issued[s] - 1>>
    BY <2>7 DEF Init
  <2>5. issued[SlotOf(Main)] > 0
    BY <2>4 DEF SlotOf
  <2>6. issued[0] > 0
    BY <2>1, <2>3, <2>5 DEF Init
  <2> QED
    BY <2>2, <2>6 DEF WasIssued
<1>10. ghosts \subseteq {ZeroId} /\ ids \subseteq Ids /\ \A x \in ids : WasIssued(x)
  BY <1>1, <1>2, <1>9
<1>3. Stream = <<>>
  BY <1>2 DEF Stream
<1>4. DOMAIN Stream = {} /\ DOMAIN marked = {}
  BY <1>2, <1>3
<1>5. AddedBy(Stream) = {} /\ DroppedBy(Stream) = {} /\ ToSet(marked) = {}
  BY <1>4, AddedAt DEF ToSet
<1>6. TypeOK
  <2>1. <<>> \in Seq(SceneMessages) /\ <<>> \in Seq(Ids)
    OBVIOUS
  <2>2. 0 \in 0 .. MaxEvents
    BY SceneAssumption DEF SceneAssumption
  <2> QED
    BY <1>1, <1>2, <1>9, <1>10, <2>1, <2>2 DEF Init, TypeOK
<1>7. Balance /\ MarkedOnce /\ MarkedExist /\ AllIssued /\ PassedHang
  BY <1>2, <1>4, <1>5, <1>10
     DEF Balance, MarkedOnce, MarkedExist, AllIssued, PassedHang
<1>8. /\ Once(Stream, ids) /\ AtLast(Stream, ToSet(marked))
      /\ Before(Stream, ids) /\ InTurn(Stream, ids, Doomed)
  BY <1>4 DEF Once, AtLast, Before, InTurn
<1> QED
  BY <1>2, <1>6, <1>7, <1>8 DEF Inv, Orderly

LEMMA InvStep == Inv /\ [Next]_vars => Inv'
<1> SUFFICES ASSUME Inv, [Next]_vars PROVE Inv'
  OBVIOUS
<1>1. TypeOK /\ TypeOK'
  BY TypeStep DEF Inv
<1>2. CASE Ended
  <2>1. objects' = ids' /\ Ended'
    BY <1>2 DEF Inv, Ended, Next, PollStep, FrameStep, ProcessOne, PollMessage,
       ConnectionLost, PollWhileClosing, MutexFree, BeginFrame, ProcessCoords,
       ProcessConnection, ProcessShoot, ProcessDestroy, ProcessNetworkError, Current,
       EndProcessing, DeleteOne, EndFrame, Close, JoinThread, Terminated, vars, scene
  <2> QED
    BY <1>1, <2>1 DEF Inv
<1>3. CASE ~Ended /\ Ended'
  <2>1. objects = ids
    BY DEF Inv
  <2>2. ASSUME ProcessConnection PROVE objects' = ids'
    BY <2>1, <2>2 DEF ProcessConnection, AddObject
  <2>3. ASSUME DeleteOne PROVE objects' = ids'
    BY <2>1, <2>3 DEF DeleteOne
  <2>4. ASSUME Close PROVE objects' = ids'
    BY <2>1, <2>4 DEF Close, scene
  <2>5. ASSUME ~ProcessConnection, ~DeleteOne, ~Close PROVE FALSE
    <3>1. CASE pc' = pc
      BY <1>3, <3>1 DEF Ended
    <3>2. CASE ~(pc' = pc)
      BY <1>3, <2>5, <3>2
         DEF Ended, Next, ServerStep, ServerAnnounces, ServerDestroys, ServerMoves, Send,
             ServerGone, PollStep, PollMessage, ConnectionLost, PollWhileClosing,
             FrameStep, ProcessOne, BeginFrame, ProcessCoords, ProcessShoot,
             ProcessDestroy, ProcessNetworkError, EndProcessing, EndFrame, JoinThread,
             Terminated, vars
    <3> QED
      BY <3>1, <3>2
  <2>6. objects' = ids'
    BY <2>2, <2>3, <2>4, <2>5
  <2> QED
    BY <1>1, <1>3, <2>6 DEF Inv
<1>4. CASE ~Ended /\ ~Ended'
  <2>1. ASSUME UNCHANGED scene PROVE objects' = ids'
    BY <2>1 DEF Inv, scene
  <2>2. ASSUME ServerStep PROVE Orderly' /\ objects' = ids'
    <3>1. ASSUME NEW type \in {"connection", "shoot"}, ServerAnnounces(type)
          PROVE  Orderly' /\ objects' = ids'
      BY <1>4, <2>1, <3>1, AnnounceKeeps DEF ServerAnnounces, Send
    <3>2. ASSUME NEW x \in world, ServerDestroys(x) \/ ServerMoves(x)
          PROVE  Orderly' /\ objects' = ids'
      <4>1. UNCHANGED scene
        BY <3>2 DEF ServerDestroys, ServerMoves, Send
      <4> QED
        BY <1>4, <2>1, <3>2, <4>1, MoveOrDestroyKeeps
    <3>3. CASE ServerGone
      BY <1>4, <3>3, QuietKeeps DEF ServerGone, network, scene
    <3> QED
      BY <2>2, <3>1, <3>2, <3>3 DEF ServerStep
  <2>3. ASSUME PollStep PROVE Orderly' /\ objects' = ids'
    <3>1. CASE PollMessage
      BY <1>4, <2>1, <3>1, PollKeeps DEF PollMessage
    <3>2. CASE ConnectionLost
      BY <1>4, <2>1, <3>2, LossKeeps DEF ConnectionLost
    <3>3. CASE PollWhileClosing
      BY <1>4, <3>3 DEF PollWhileClosing, Ended
    <3> QED
      BY <2>3, <3>1, <3>2, <3>3 DEF PollStep
  <2>4. ASSUME FrameStep PROVE Orderly' /\ objects' = ids'
    <3>1. CASE BeginFrame
      BY <1>4, <3>1, QuietKeeps DEF BeginFrame, server, network, scene
    <3>2. CASE ProcessOne
      BY <1>4, <3>2, ProcessKeeps
    <3>3. CASE EndProcessing
      BY <1>4, <3>3, QuietKeeps DEF EndProcessing, server, network, scene
    <3>4. CASE DeleteOne
      BY <1>4, <3>4, DeleteKeeps
    <3>5. CASE EndFrame
      BY <1>4, <3>5, QuietKeeps DEF EndFrame, server, network, scene
    <3> QED
      BY <2>4, <3>1, <3>2, <3>3, <3>4, <3>5 DEF FrameStep
  <2>5. ~Close /\ ~JoinThread /\ ~Terminated
    BY <1>4 DEF Close, JoinThread, Terminated, Ended
  <2>6. ASSUME UNCHANGED vars PROVE Orderly' /\ objects' = ids'
    BY <1>4, <2>6, QuietKeeps DEF vars, server, network, scene
  <2> QED
    BY <1>1, <2>2, <2>3, <2>4, <2>5, <2>6 DEF Inv, Next
<1> QED
  BY <1>2, <1>3, <1>4

LEMMA AlwaysInv == Spec => []Inv
BY InvInit, InvStep, PTL DEF Spec

-----------------------------------------------------------------------------
(* The theorems.                                                            *)

(* Every variable of the scene keeps its type; in particular the iterator   *)
(* of ProcessMessages never leaves the queue (Scene.cpp:115-131).           *)
THEOREM TypeCorrect == Spec => []TypeOK
<1>1. Inv => TypeOK
  BY DEF Inv
<1> QED
  BY <1>1, AlwaysInv, PTL

(* For every server and every pace of the two threads, what the scene draws *)
(* once everything on its way is applied is the server's world and the      *)
(* ghosts (Scene.cpp:97-103, 115-131, 163-194).                             *)
THEOREM NothingIsEverLost == Spec => []NothingIsLost
<1>1. Inv => NothingIsLost
  <2> SUFFICES ASSUME Inv, ~Ended PROVE NothingIsLost
    BY DEF NothingIsLost
  <2>1. TypeOK /\ Balance /\ objects = ids
    BY DEF Inv, Orderly
  <2>2. /\ AddedBy(Stream) = AddedBy(queue) \cup AddedBy(feed)
        /\ DroppedBy(Stream) = DroppedBy(queue) \cup DroppedBy(feed)
    BY <2>1, StreamIsSeq
  <2>3. /\ objects \cup AddedBy(queue) \cup AddedBy(feed) = ids \cup AddedBy(Stream)
        /\ ToSet(marked) \cup DroppedBy(queue) \cup DroppedBy(feed)
             = ToSet(marked) \cup DroppedBy(Stream)
    BY <2>1, <2>2
  <2> QED
    BY <2>1, <2>3 DEF NothingIsLost, Balance
<1> QED
  BY <1>1, AlwaysInv, PTL

(* An entity is marked for deletion once and while it exists, unless it is  *)
(* a shot that hangs (Scene.cpp:97-102, 172, 219-222).                      *)
THEOREM OnlyHungShotsDieUnborn == Spec => []OnlyHungShotsAreDeletedUnborn
<1>1. Inv => OnlyHungShotsAreDeletedUnborn
  BY DEF Inv, Orderly, MarkedOnce, MarkedExist, OnlyHungShotsAreDeletedUnborn
<1> QED
  BY <1>1, AlwaysInv, PTL

(* Whatever holds a slot that a message asks for is marked already or a     *)
(* ghost (Scene.hpp:43-44, Scene.cpp:167-174).                              *)
THEOREM OnlyTheDoomedBlock == Spec => []OnlyDoomedOccupantsBlock
<1>1. Inv => OnlyDoomedOccupantsBlock
  <2> SUFFICES ASSUME Inv, pc = "processing", it <= Len(queue),
                      NEW x \in Adds(queue[it]), NEW y \in ids, SlotOf(x) = SlotOf(y)
               PROVE  y \in ToSet(marked) \cup ghosts
    BY DEF OnlyDoomedOccupantsBlock
  <2>1. TypeOK /\ Orderly
    BY DEF Inv, Ended
  <2>2. queue \in Seq(SceneMessages) /\ it \in 1 .. Len(queue) + 1 /\ Len(queue) \in Nat
    BY <2>1, SeqDomain DEF TypeOK
  <2>3. it \in 1 .. Len(queue)
    BY <2>2
  <2>4. it \in DOMAIN Stream /\ Stream[it] = queue[it] /\ y \in Ids
    BY <2>1, <2>3, QueueInStream DEF TypeOK
  <2>5. y \in Doomed \/ \E r \in DOMAIN Stream : r < it /\ y \in Drops(Stream[r])
    BY <2>1, <2>4 DEF Orderly, InTurn
  <2>6. ASSUME NEW r \in DOMAIN Stream, r < it PROVE Drops(Stream[r]) = {}
    <3>1. r \in 1 .. it - 1 /\ r \in 1 .. Len(queue)
      BY <2>1, <2>3, <2>6, StreamIsSeq, SeqDomain
    <3>2. Stream[r] = queue[r] /\ queue[r] \in SceneMessages /\ queue[r].type = "shoot"
      BY <2>1, <3>1, QueueInStream DEF Orderly, PassedHang, Hangs
    <3> QED
      BY <3>2, Meaning
  <2> QED
    BY <2>5, <2>6 DEF Doomed
<1> QED
  BY <1>1, AlwaysInv, PTL

(* Coordinates are skipped only of a shot that hangs (Scene.cpp:143-147,    *)
(* 163-174).                                                                *)
THEOREM OnlyTheHungAreSkipped == Spec => []OnlyHungCoordsAreSkipped
<1>1. Inv => OnlyHungCoordsAreSkipped
  <2> SUFFICES ASSUME Inv, Current("coords"), queue[it].id \notin ids
               PROVE  \E i \in 1 .. it - 1 : queue[i] = Message("shoot", queue[it].id)
    BY DEF OnlyHungCoordsAreSkipped
  <2>1. TypeOK /\ Orderly /\ pc = "processing" /\ it <= Len(queue)
    BY DEF Inv, Ended, Current
  <2>2. queue \in Seq(SceneMessages) /\ it \in 1 .. Len(queue) + 1 /\ Len(queue) \in Nat
    BY <2>1, SeqDomain DEF TypeOK
  <2>3. it \in 1 .. Len(queue)
    BY <2>1, <2>2
  <2>4. it \in DOMAIN Stream /\ Stream[it] = queue[it]
    BY <2>1, <2>3, QueueInStream
  <2>5. queue[it].id \in Uses(Stream[it])
    BY <2>4 DEF Current, Uses
  <2>6. PICK p \in DOMAIN Stream : p < it /\ queue[it].id \in Adds(Stream[p])
    BY <2>1, <2>4, <2>5 DEF Orderly, Before
  <2>7. p \in 1 .. it - 1 /\ p \in 1 .. Len(queue)
    BY <2>1, <2>3, <2>6, StreamIsSeq, SeqDomain
  <2>8. Stream[p] = queue[p] /\ queue[p] \in SceneMessages /\ queue[p].type = "shoot"
    BY <2>1, <2>7, QueueInStream DEF Orderly, PassedHang, Hangs
  <2>9. queue[p] = Message("shoot", queue[it].id)
    BY <2>6, <2>8, Meaning
  <2> QED
    BY <2>7, <2>9
<1> QED
  BY <1>1, AlwaysInv, PTL

-----------------------------------------------------------------------------
(* Whatever holds the slot of an entity that is still to be announced, or   *)
(* hangs, goes: it is marked, or a ghost, or its destruction comes first    *)
(* (Scene.cpp:97-103, 126-128, 172).                                        *)
SlotsComeFree ==
  ~Ended =>
    \A q \in DOMAIN Stream : \A x \in Adds(Stream[q]) : \A y \in ids :
      SlotOf(x) = SlotOf(y) =>
        y \in Doomed \/ \E r \in DOMAIN Stream : r < q /\ y \in Drops(Stream[r])

(* No announcement waits for a slot that stays taken, but for a ghost's:    *)
(* `SlotsComeFree` in every reachable state (Scene.cpp:126-128, 172).       *)
THEOREM SlotsAlwaysComeFree == Spec => []SlotsComeFree
<1>1. Inv => SlotsComeFree
  BY DEF Inv, TypeOK, Orderly, InTurn, SlotsComeFree
<1> QED
  BY <1>1, AlwaysInv, PTL

(* When the polling thread has told of a loss, the error waits for a frame, *)
(* or a frame has seen it (Scene.cpp:195-199, NetworkClient.cpp:224-228).   *)
LossIsTold == ~polling /\ ~Ended => ~alive \/ NetworkError \in ToSet(queue)

(* What leaves the queue is the message a frame has processed.              *)
LEMMA OthersStay ==
  ASSUME NEW Q \in Seq(SceneMessages), NEW k \in 1 .. Len(Q)
  PROVE  \A m \in ToSet(Q) : m \in ToSet(RemoveAt(Q, k)) \/ m = Q[k]
<1> DEFINE R == RemoveAt(Q, k)
<1>1. /\ R \in Seq(SceneMessages) /\ Len(R) = Len(Q) - 1
      /\ \A p \in 1 .. Len(Q) - 1 : R[p] = IF p < k THEN Q[p] ELSE Q[p + 1]
  <2>1. <<>> \in Seq(SceneMessages)
    OBVIOUS
  <2> QED
    BY <2>1, RemovedThins
<1>2. /\ Len(Q) \in Nat /\ DOMAIN Q = 1 .. Len(Q) /\ DOMAIN R = 1 .. Len(Q) - 1
  BY <1>1, SeqDomain
<1> HIDE DEF R
<1>3. ASSUME NEW i \in DOMAIN Q, i # k PROVE \E p \in DOMAIN R : R[p] = Q[i]
  <2>1. CASE i < k
    BY <1>1, <1>2, <2>1
  <2>2. CASE i > k
    <3>1. i - 1 \in DOMAIN R /\ R[i - 1] = Q[i]
      BY <1>1, <1>2, <2>2
    <3> QED
      BY <3>1
  <2> QED
    BY <1>2, <1>3, <2>1, <2>2
<1>4. QED
  BY <1>3 DEF ToSet, R

LEMMA LossStaysTold == Inv /\ LossIsTold /\ [Next]_vars => LossIsTold'
<1> SUFFICES ASSUME Inv, LossIsTold, [Next]_vars, ~polling', ~Ended'
             PROVE  ~alive' \/ NetworkError \in ToSet(queue')
  BY DEF LossIsTold
<1>1. /\ queue \in Seq(SceneMessages) /\ NetworkError \in SceneMessages
      /\ NetworkError.type = "network_error"
  <2>1. Main \in Ids
    BY SceneAssumption, RegistryAssumption DEF SceneAssumption, RegistryAssumption, Ids
  <2> QED
    BY <2>1, OneMessage DEF Inv, TypeOK, NetworkError
<1>2. \A m \in SceneMessages :
        m \in ToSet(Append(queue, m)) /\ ToSet(queue) \subseteq ToSet(Append(queue, m))
  <2> SUFFICES ASSUME NEW m \in SceneMessages
               PROVE  m \in ToSet(Append(queue, m))
                      /\ ToSet(queue) \subseteq ToSet(Append(queue, m))
    OBVIOUS
  <2> DEFINE s == Append(queue, m)
  <2>1. /\ Len(queue) \in Nat
        /\ Len(queue) + 1 \in DOMAIN s /\ s[Len(queue) + 1] = m
        /\ \A i \in DOMAIN queue : i \in DOMAIN s /\ s[i] = queue[i]
    BY <1>1
  <2> HIDE DEF s
  <2>2. m \in ToSet(s) /\ ToSet(queue) \subseteq ToSet(s)
    BY <2>1 DEF ToSet
  <2> QED
    BY <2>2 DEF s
<1>3. CASE ConnectionLost
  BY <1>1, <1>2, <1>3 DEF ConnectionLost
<1>4. ASSUME UNCHANGED <<polling, alive, queue>>, ~Ended
      PROVE  ~alive' \/ NetworkError \in ToSet(queue')
  BY <1>4 DEF LossIsTold
<1>5. CASE ServerStep
  <2>1. ASSUME NEW m, Send(m) PROVE UNCHANGED <<polling, alive, queue, pc>>
    BY <2>1 DEF Send, scene
  <2>2. UNCHANGED <<polling, alive, queue, pc>>
    BY <1>5, <2>1 DEF ServerStep, ServerAnnounces, ServerDestroys, ServerMoves,
                      ServerGone, network, scene
  <2> QED
    BY <1>4, <2>2 DEF Ended
<1>6. CASE ProcessOne
  <2>1. pc = "processing" /\ it \in 1 .. Len(queue) /\ ~Ended
    <3>1. pc = "processing" /\ it <= Len(queue)
      BY <1>6 DEF ProcessOne, ProcessCoords, ProcessConnection, ProcessShoot,
                  ProcessDestroy, ProcessNetworkError, Current
    <3>2. it \in 1 .. Len(queue) + 1 /\ Len(queue) \in Nat
      BY <1>1, <3>1, SeqDomain DEF Inv, TypeOK
    <3> QED
      BY <3>1, <3>2 DEF Ended
  <2>2. CASE ProcessNetworkError
    BY <2>2 DEF ProcessNetworkError
  <2>3. CASE ~ProcessNetworkError
    <3>1. queue[it].type # "network_error" /\ UNCHANGED <<polling, alive>>
      BY <1>6, <2>3 DEF ProcessOne, ProcessCoords, ProcessConnection, ProcessShoot,
                        ProcessDestroy, Current, network, scene
    <3>2. queue' = RemoveAt(queue, it) \/ queue' = queue
      BY <1>6, <2>3 DEF ProcessOne, ProcessCoords, ProcessConnection, ProcessShoot,
                        ProcessDestroy, Consumed, LeftToHang
    <3>3. CASE queue' = RemoveAt(queue, it)
      <4>1. NetworkError # queue[it]
        BY <1>1, <3>1
      <4> QED
        BY <1>1, <2>1, <3>1, <3>3, <4>1, OthersStay DEF LossIsTold
    <3>4. CASE queue' = queue
      BY <1>4, <2>1, <3>1, <3>4
    <3> QED
      BY <3>2, <3>3, <3>4
  <2> QED
    BY <2>2, <2>3
<1>7. CASE BeginFrame \/ EndProcessing \/ DeleteOne \/ EndFrame
  <2>1. UNCHANGED <<polling, alive, queue>> /\ ~Ended
    BY <1>7 DEF BeginFrame, EndProcessing, DeleteOne, EndFrame, Ended, network, scene
  <2> QED
    BY <1>4, <2>1
<1>8. ~PollMessage
  BY DEF PollMessage
<1>9. ~PollWhileClosing /\ ~Close /\ ~JoinThread
  BY DEF PollWhileClosing, Close, JoinThread, Ended
<1>10. CASE UNCHANGED vars
  BY <1>4, <1>10 DEF vars, network, scene, Ended
<1> QED
  BY <1>3, <1>5, <1>6, <1>7, <1>8, <1>9, <1>10
     DEF Next, PollStep, FrameStep, Terminated

(* A client whose server is gone always has the error still to see, or is   *)
(* no longer alive (Scene.cpp:195-199, main.cpp:77).                        *)
THEOREM LossIsAlwaysTold == Spec => []LossIsTold
<1>1. Init => LossIsTold
  BY DEF Init, LossIsTold
<1>2. Inv /\ LossIsTold /\ [Next]_vars => LossIsTold'
  BY LossStaysTold
<1> QED
  BY <1>1, <1>2, AlwaysInv, PTL DEF Spec
=============================================================================
