--------------------------- MODULE MCMessagePath ---------------------------
(***************************************************************************)
(* MessagePath on a short log, given by the configuration.                 *)
(***************************************************************************)
EXTENDS MessagePath
=============================================================================
