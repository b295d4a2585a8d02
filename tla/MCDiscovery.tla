---------------------------- MODULE MCDiscovery ----------------------------
(***************************************************************************)
(* Model-checking instance of Discovery: servers and clients are           *)
(* interchangeable.                                                        *)
(***************************************************************************)
EXTENDS Discovery, TLC

Symmetry == Permutations(Servers) \cup Permutations(Clients)
=============================================================================
