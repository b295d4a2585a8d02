------------------------------- MODULE World -------------------------------
(***************************************************************************)
(* What a game server promises the peers it serves.  The world is a set of *)
(* entities (players and bullets).  A member is shown every world there    *)
(* has been since it joined, in order, starting with the one its own       *)
(* arrival made, and may be shown the current one again; it may see them   *)
(* arbitrarily late.  An id that has left the world never returns, so a    *)
(* late message names nobody else.                                         *)
(***************************************************************************)
EXTENDS Naturals, Sequences

CONSTANTS Peers, Entities

VARIABLES
  world,     \* the entities that exist
  used,      \* the entities that exist or have existed
  members,   \* the peers that are served
  seen,      \* per peer, the world it has seen last
  coming     \* per peer, the later worlds, in order, it has still to see

vars == <<world, used, members, seen, coming>>

TypeOK ==
  /\ world \subseteq used /\ used \subseteq Entities
  /\ members \subseteq Peers
  /\ seen \in [Peers -> SUBSET Entities]
  /\ coming \in [Peers -> Seq(SUBSET Entities)]

Init ==
  /\ world = {} /\ used = {} /\ members = {}
  /\ seen = [c \in Peers |-> {}]
  /\ coming = [c \in Peers |-> <<>>]

(* The world becomes w, which everybody in `to` will see.                   *)
Become(w, to) ==
  /\ world' = w
  /\ coming' = [c \in Peers |-> IF c \in to THEN Append(coming[c], w)
                                ELSE coming[c]]

(* An entity appears: a bullet.                                             *)
Spawn(x) ==
  /\ x \notin used
  /\ Become(world \cup {x}, members)
  /\ used' = used \cup {x}
  /\ UNCHANGED <<members, seen>>

(* A peer joins, and its player x appears.                                  *)
Join(c, x) ==
  /\ c \notin members
  /\ members' = members \cup {c}
  /\ x \notin used
  /\ Become(world \cup {x}, members')
  /\ used' = used \cup {x}
  /\ UNCHANGED seen

(* An entity disappears: a bullet that hit, or the player of a peer that is *)
(* no longer a member.                                                      *)
Despawn(x) ==
  /\ x \in world
  /\ Become(world \ {x}, members)
  /\ UNCHANGED <<used, members, seen>>

(* Nobody comes or goes: something has moved.                               *)
Refresh ==
  /\ Become(world, members)
  /\ UNCHANGED <<used, members, seen>>

(* Members stop being served: one that leaves, or all when the server ends. *)
Part(gone) ==
  /\ gone # {} /\ gone \subseteq members
  /\ members' = members \ gone
  /\ seen' = [c \in Peers |-> IF c \in gone THEN {} ELSE seen[c]]
  /\ coming' = [c \in Peers |-> IF c \in gone THEN <<>> ELSE coming[c]]
  /\ UNCHANGED <<world, used>>

(* A member sees the next world.                                            *)
See(c) ==
  /\ coming[c] # <<>>
  /\ seen' = [seen EXCEPT ![c] = Head(coming[c])]
  /\ coming' = [coming EXCEPT ![c] = Tail(@)]
  /\ UNCHANGED <<world, used, members>>

Next ==
  \/ \E x \in Entities : Spawn(x) \/ Despawn(x)
  \/ \E c \in Peers, x \in Entities : Join(c, x)
  \/ Refresh
  \/ \E gone \in SUBSET members : Part(gone)
  \/ \E c \in members : See(c)

Spec == Init /\ [][Next]_vars
-----------------------------------------------------------------------------
(* What a member will see in the end is the world as it is: nothing that    *)
(* happened is missing from what is still coming (the order of the sends in *)
(* GameServer.cpp:325-349 is what the server keeps this with).              *)
Latest(c) == IF coming[c] = <<>> THEN seen[c]
             ELSE coming[c][Len(coming[c])]

UpToDate == \A c \in members : Latest(c) = world
=============================================================================
