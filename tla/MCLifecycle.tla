---------------------------- MODULE MCLifecycle ----------------------------
(***************************************************************************)
(* Lifecycle on small sets of host threads, given by the configurations.   *)
(***************************************************************************)
EXTENDS Lifecycle
=============================================================================
