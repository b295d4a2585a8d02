------------------------------ MODULE Protocol ------------------------------
(***************************************************************************)
(* The messages a game server sends to its clients, abstracted to the      *)
(* entities they speak of: coordinates, radii and speeds are left out.     *)
(***************************************************************************)
EXTENDS Registry

\* "connection", "shoot", "destroy" and "coords" name one entity.
Message(type, id) == [type |-> type, id |-> id, world |-> {}]

\* The greeting names the client's own player and everything that exists.
Greeting(id, world) == [type |-> "greeting", id |-> id, world |-> world]

Messages ==
  [type : {"greeting", "connection", "shoot", "destroy", "coords"},
   id : Ids, world : SUBSET Ids]

\* The entities a message makes its reader create, and destroy.
Adds(m) ==
  CASE m.type = "greeting" -> m.world \cup {m.id}
    [] m.type \in {"connection", "shoot"} -> {m.id}
    [] OTHER -> {}

Drops(m) == IF m.type = "destroy" THEN {m.id} ELSE {}

\* What a reader that already knows `known` has been told once it has read
\* the first n messages of a stream that never names a destroyed id again.
ToldBy(known, stream, n) ==
  (known \cup UNION {Adds(stream[i]) : i \in 1 .. n})
    \ UNION {Drops(stream[i]) : i \in 1 .. n}
=============================================================================
