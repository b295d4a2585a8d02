------------------------------ MODULE MCScene ------------------------------
(***************************************************************************)
(* Model-checking instance of Scene: the player of this client has the     *)
(* slot after the wall's.                                                  *)
(***************************************************************************)
EXTENDS Scene

MCMain == <<1, 0>>
=============================================================================
