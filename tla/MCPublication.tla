--------------------------- MODULE MCPublication ---------------------------
(***************************************************************************)
(* Publication with the builders and goroutines of the configurations.     *)
(***************************************************************************)
EXTENDS Publication
=============================================================================
