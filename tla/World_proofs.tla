---------------------------- MODULE World_proofs ----------------------------
(***************************************************************************)
(* Proofs about World, for any peers and entities.                         *)
(***************************************************************************)
EXTENDS World, SequenceTheorems, TLAPS

Inv == TypeOK /\ UpToDate

(* The last element of a queue of worlds is what its reader ends up with.   *)
LEMMA LatestAppended ==
  ASSUME NEW S, NEW s \in Seq(S), NEW w \in S
  PROVE  /\ Append(s, w) \in Seq(S)
         /\ Append(s, w) # <<>>
         /\ Append(s, w)[Len(Append(s, w))] = w
OBVIOUS

(* Reading the first of several waiting worlds leaves the last one where it *)
(* is; reading the only one leaves nothing.                                 *)
LEMMA LatestRead ==
  ASSUME NEW S, NEW s \in Seq(S), s # <<>>
  PROVE  \/ Tail(s) = <<>> /\ Head(s) = s[Len(s)]
         \/ Tail(s) # <<>> /\ Tail(s)[Len(Tail(s))] = s[Len(s)]
<1>1. Len(s) \in Nat /\ Len(s) # 0
  BY EmptySeq, LenProperties
<1>2. /\ Head(s) = s[1] /\ Tail(s) \in Seq(S)
      /\ Len(Tail(s)) = Len(s) - 1
      /\ \A i \in 1 .. Len(s) - 1 : Tail(s)[i] = s[i + 1]
  BY HeadTailProperties
<1>3. CASE Len(s) = 1
  <2>1. Len(Tail(s)) = 0
    BY <1>2, <1>3
  <2>2. Tail(s) = <<>>
    BY <1>2, <2>1, EmptySeq
  <2> QED
    BY <1>2, <1>3, <2>2
<1>4. CASE Len(s) > 1
  <2>1. Len(s) - 1 \in 1 .. Len(s) - 1 /\ (Len(s) - 1) + 1 = Len(s)
    BY <1>1, <1>4
  <2>2. Tail(s)[Len(s) - 1] = s[Len(s)]
    BY <1>2, <2>1
  <2>3. Len(Tail(s)) # 0
    BY <1>1, <1>2, <1>4
  <2>4. Tail(s) # <<>>
    BY <2>3, Len(<<>>) = 0
  <2> QED
    BY <1>2, <2>2, <2>4
<1> QED
  BY <1>1, <1>3, <1>4

(* A change of the world that reaches every member keeps them up to date.   *)
LEMMA BecomeUpToDate ==
  ASSUME TypeOK, UpToDate, NEW w \in SUBSET Entities, NEW to \in SUBSET Peers,
         Become(w, to), UNCHANGED seen, members' = to
  PROVE  UpToDate' /\ coming' \in [Peers -> Seq(SUBSET Entities)]
<1>1. ASSUME NEW c \in to PROVE Latest(c)' = w
  <2>1. coming[c] \in Seq(SUBSET Entities) /\ coming'[c] = Append(coming[c], w)
    BY DEF TypeOK, Become
  <2> QED
    BY <2>1, LatestAppended DEF Latest
<1>2. coming' \in [Peers -> Seq(SUBSET Entities)]
  <2>1. \A c \in Peers : Append(coming[c], w) \in Seq(SUBSET Entities)
    BY LatestAppended DEF TypeOK
  <2> QED
    BY <2>1 DEF Become, TypeOK
<1> QED
  BY <1>1, <1>2 DEF UpToDate, Become

(* Whoever is served will see, in the end, the world as it is.              *)
THEOREM MembersUpToDate == Spec => []UpToDate
<1>1. Init => Inv
  <2>1. <<>> \in Seq(SUBSET Entities)
    OBVIOUS
  <2> QED
    BY <2>1 DEF Init, Inv, TypeOK, UpToDate
<1>2. Inv /\ [Next]_vars => Inv'
  <2> SUFFICES ASSUME Inv, [Next]_vars PROVE Inv'
    OBVIOUS
  <2> USE DEF Inv
  <2>1. ASSUME NEW x \in Entities, Spawn(x) PROVE Inv'
    <3>1. world \cup {x} \in SUBSET Entities /\ members \in SUBSET Peers
      BY DEF TypeOK
    <3>2. UpToDate' /\ coming' \in [Peers -> Seq(SUBSET Entities)]
      BY <2>1, <3>1, BecomeUpToDate DEF Spawn
    <3> QED
      BY <2>1, <3>2 DEF Spawn, Become, TypeOK
  <2>2. ASSUME NEW x \in Entities, Despawn(x) PROVE Inv'
    <3>1. world \ {x} \in SUBSET Entities /\ members \in SUBSET Peers
      BY DEF TypeOK
    <3>2. UpToDate' /\ coming' \in [Peers -> Seq(SUBSET Entities)]
      BY <2>2, <3>1, BecomeUpToDate DEF Despawn
    <3> QED
      BY <2>2, <3>2 DEF Despawn, Become, TypeOK
  <2>3. ASSUME NEW c \in Peers, NEW x \in Entities, Join(c, x) PROVE Inv'
    <3>1. world \cup {x} \in SUBSET Entities /\ members \cup {c} \in SUBSET Peers
      BY DEF TypeOK
    <3>2. UpToDate' /\ coming' \in [Peers -> Seq(SUBSET Entities)]
      BY <2>3, <3>1, BecomeUpToDate DEF Join
    <3> QED
      BY <2>3, <3>2 DEF Join, Become, TypeOK
  <2>4. ASSUME NEW gone \in SUBSET members, Part(gone) PROVE Inv'
    <3>1. <<>> \in Seq(SUBSET Entities)
      OBVIOUS
    <3>2. TypeOK'
      BY <2>4, <3>1 DEF Part, TypeOK
    <3>3. \A c \in members' : seen'[c] = seen[c] /\ coming'[c] = coming[c] /\ c \in members
      BY <2>4 DEF Part, TypeOK
    <3> QED
      BY <2>4, <3>2, <3>3 DEF Part, UpToDate, Latest
  <2>5. ASSUME NEW c \in members, See(c) PROVE Inv'
    <3>1. coming[c] \in Seq(SUBSET Entities) /\ coming[c] # <<>> /\ c \in Peers
      BY <2>5 DEF See, TypeOK
    <3>2. Head(coming[c]) \in SUBSET Entities /\ Tail(coming[c]) \in Seq(SUBSET Entities)
      BY <3>1
    <3>3. TypeOK'
      BY <2>5, <3>2 DEF See, TypeOK
    <3>4. seen'[c] = Head(coming[c]) /\ coming'[c] = Tail(coming[c])
      BY <2>5, <3>1 DEF See, TypeOK
    <3>5. Latest(c)' = Latest(c)
      <4> DEFINE q == coming[c]
      <4>1. \/ Tail(q) = <<>> /\ Head(q) = q[Len(q)]
            \/ Tail(q) # <<>> /\ Tail(q)[Len(Tail(q))] = q[Len(q)]
        BY <3>1, LatestRead
      <4> QED
        BY <3>1, <3>4, <4>1 DEF Latest
    <3>6. \A d \in members : d # c => Latest(d)' = Latest(d)
      BY <2>5 DEF See, Latest, TypeOK
    <3> QED
      BY <2>5, <3>3, <3>5, <3>6 DEF See, UpToDate
  <2>7. CASE Refresh
    <3>1. world \in SUBSET Entities /\ members \in SUBSET Peers
      BY DEF TypeOK
    <3>2. UpToDate' /\ coming' \in [Peers -> Seq(SUBSET Entities)]
      BY <2>7, <3>1, BecomeUpToDate DEF Refresh
    <3> QED
      BY <2>7, <3>2 DEF Refresh, Become, TypeOK
  <2>6. CASE UNCHANGED vars
    BY <2>6 DEF vars, TypeOK, UpToDate, Latest
  <2> QED
    BY <2>1, <2>2, <2>3, <2>4, <2>5, <2>6, <2>7 DEF Next
<1>3. Inv => UpToDate
  BY DEF Inv
<1> QED
  BY <1>1, <1>2, <1>3, PTL DEF Spec
=============================================================================
