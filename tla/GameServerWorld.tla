--------------------------- MODULE GameServerWorld ---------------------------
(***************************************************************************)
(* GameServer keeps the promise of World, for its players and bullets.     *)
(* (Walls are told of once, in the greeting.)                              *)
(***************************************************************************)
EXTENDS GameServer

Connected == {c \in Conns : conn[c] = "connected"}

\* The players and bullets the peer of c knows of after n unread messages.
Known(c, n) == ToldBy(view[c], out[c], n) \ WallIds

AbstractUsed == {x \in Ids \ WallIds : VersionOf(x) < issued[SlotOf(x)]}
AbstractSeen == [c \in Conns |-> IF c \in Connected THEN Known(c, 0) ELSE {}]
AbstractComing ==
  [c \in Conns |->
     IF c \in Connected THEN [n \in 1 .. Len(out[c]) |-> Known(c, n)] ELSE <<>>]

Promise == INSTANCE World WITH
  Peers <- Conns, Entities <- Ids \ WallIds,
  world <- Circles, used <- AbstractUsed, members <- Connected,
  seen <- AbstractSeen, coming <- AbstractComing

(* Every step of the server and its peers is a step of World or leaves the  *)
(* promised state alone: joining peers get one consistent snapshot, each    *)
(* message shows its reader the world as it was when it was sent, none is   *)
(* skipped or out of order, and ids never return (GameServer.cpp:138-146,   *)
(* 177-180, 289-293, 325-349).                                              *)
KeepsPromise == Promise!Spec
=============================================================================
