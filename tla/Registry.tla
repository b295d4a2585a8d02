------------------------------ MODULE Registry ------------------------------
(***************************************************************************)
(* The part of entt::basic_registry<IdType> that the server and the        *)
(* clients rely on.  An entity id is a slot and a version: destroying an   *)
(* entity frees its slot, and the next entity created in that slot has the *)
(* next version, so the two ids differ.  EnTT is a submodule outside this  *)
(* repository; these operators say what GameServer.cpp and Scene.cpp use.  *)
(***************************************************************************)
EXTENDS Naturals

CONSTANTS
  Slots,        \* the slots an id may name (2^20 of them in IdType)
  MaxVersion    \* bound: versions a slot goes through (IdType wraps at 2^12)

ASSUME RegistryAssumption ==
  /\ Slots \subseteq Nat /\ 0 \in Slots
  /\ MaxVersion \in Nat

Ids == Slots \X (0 .. MaxVersion)     \* <<slot, version>>

SlotOf(id) == id[1]
VersionOf(id) == id[2]

\* IdType's zero value, which `m_ClientMap[conn]` yields for an unknown conn.
ZeroId == <<0, 0>>

Occupied(ids, s) == \E x \in ids : SlotOf(x) = s

\* A slot that was issued before is recycled before a new one is opened.
FreeSlots(ids, issued) ==
  LET recyclable == {s \in Slots : issued[s] \in 1 .. MaxVersion /\ ~Occupied(ids, s)}
      unopened   == {s \in Slots : issued[s] = 0}
  IN  IF recyclable # {} THEN recyclable
      ELSE {s \in unopened : \A t \in unopened : s <= t}

\* The ids `create()` may return when `ids` are valid and slot s has been
\* issued issued[s] times.  Which freed slot is recycled is left open.
Creatable(ids, issued) ==
  {<<s, issued[s]>> : s \in FreeSlots(ids, issued)}

\* The effect of create() on the versions.
Issue(issued, id) == [issued EXCEPT ![SlotOf(id)] = @ + 1]

\* `create(hint)` returns another id than hint exactly when hint's slot is
\* occupied, whatever the version of the entity in it.
HintRefused(ids, hint) == Occupied(ids, SlotOf(hint))
=============================================================================
