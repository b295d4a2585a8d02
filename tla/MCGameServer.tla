---------------------------- MODULE MCGameServer ----------------------------
(***************************************************************************)
(* Model-checking instance of GameServer: connections are interchangeable. *)
(***************************************************************************)
EXTENDS GameServerWorld, TLC

ConnSymmetry == Permutations(Conns)
=============================================================================
