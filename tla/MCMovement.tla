----------------------------- MODULE MCMovement -----------------------------
(* Small worlds for Movement.                                               *)
EXTENDS Movement

CONSTANTS p1, p2

MCSpawn == [x |-> 4, y |-> 4]
MCInnerWalls == {[x1 |-> 8, y1 |-> 0, x2 |-> 8, y2 |-> 2]}
MCKeysOf == [p \in Players |-> IF p = p1 THEN {"D", "S"} ELSE {}]
MCAims == {[x |-> 1, y |-> 0], [x |-> -1, y |-> 0], Zero}

(* The proportions of config1.json, one unit being 5/3 points and one unit  *)
(* of time a tick of 16667 microseconds; a smaller world.                   *)
MCRealSpawn == [x |-> 30, y |-> 20]
MCRealKeysOf == [p \in Players |-> {"D"}]
=============================================================================
