--------------------------- MODULE MCEngineBuild ---------------------------
(***************************************************************************)
(* EngineBuild with the first contract and one that differs in a parameter *)
(* name and a comment, one in a type, and one in a struct's field.         *)
(***************************************************************************)
EXTENDS EngineBuild

C(types, names, fields, prose) ==
  [types |-> types, names |-> names, fields |-> fields, prose |-> prose]
MCFirstContract == C(1, 1, 1, 1)
MCContracts     == {C(1, 1, 1, 1), C(1, 2, 1, 2), C(2, 1, 1, 1), C(1, 1, 2, 1)}

Env(docs, link, dir, cc, target, go) ==
  [DOCS_RS |-> docs, LLINGR_LINK |-> link, LLINGR_LIB_DIR |-> dir, CC |-> cc,
   target |-> target, go126 |-> go]

\* One for each branch of build.rs and each of its refusals.
MCEnvs ==
  {Env(FALSE, "unset", "unset", FALSE, "native", TRUE),
   Env(FALSE, "unset", "unset", FALSE, "native", FALSE),
   Env(TRUE,  "unset", "unset", FALSE, "native", TRUE),
   Env(FALSE, "unset", "dir1",  FALSE, "native", FALSE),
   Env(FALSE, "unset", "dir2",  FALSE, "native", FALSE),
   Env(FALSE, "shared", "dir1", FALSE, "native", FALSE),
   Env(FALSE, "shared", "unset", FALSE, "native", TRUE),
   Env(FALSE, "other", "dir1", FALSE, "native", TRUE),
   Env(FALSE, "unset", "unset", FALSE, "cross", TRUE),
   Env(FALSE, "unset", "unset", TRUE,  "cross", TRUE),
   Env(FALSE, "unset", "unset", FALSE, "darwin_cross", TRUE),
   Env(FALSE, "unset", "unset", FALSE, "musl", TRUE)}

\* Bounds of the search.  A host sees nothing of a tree but its releases, which
\* stay, so it comes after them; and what follows a lapse of the developer's is
\* left out, since nothing is claimed of it.
HostComesLast ==
  IF Cardinality(releases) < MaxReleases THEN UNCHANGED hostVars ELSE UNCHANGED devVars
Guarded == ~unguarded
=============================================================================
