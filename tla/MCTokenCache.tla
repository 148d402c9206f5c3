---------------------------- MODULE MCTokenCache ----------------------------
(***************************************************************************)
(* TokenCache with a leeway of three ticks, a fetch timeout of two, and    *)
(* lifetimes that are absent, shorter and longer than the leeway, and past *)
(* the overflow of a duration.                                             *)
(***************************************************************************)
EXTENDS TokenCache

MCLifetimes == {-1, 2, 5, 9, 21}
=============================================================================
