---------------------------- MODULE EngineBuild ----------------------------
(***************************************************************************)
(* From an edit of the C contract to a running process: which engine does  *)
(* a host program end up calling, and do the two agree?                    *)
(*                                                                         *)
(*  - the working tree: two copies of the contract (the C preamble of      *)
(*    bridge/main.go, src/ffi.rs), two version constants, the header cgo   *)
(*    emits into dist/, and the drift guard abi-check with its abi.lock;   *)
(*  - build.rs, which decides what a host's build links, run by cargo,     *)
(*    which reuses its output while what the script declared is unchanged; *)
(*  - the handshake at the head of Builder::build.                         *)
(*                                                                         *)
(* A contract is [types, names, fields, prose]: the types of the function  *)
(* prototypes; their parameter names, which tell a same-typed reorder      *)
(* apart; the fields of the structs; and comments, spacing and cgo's own   *)
(* declarations.  dist/ holds one target triple.                           *)
(***************************************************************************)
EXTENDS Naturals, FiniteSets

CONSTANTS
  Null,
  Contracts,    \* the contracts a developer may write
  FirstContract,
  Dirs,         \* the directories LLINGR_LIB_DIR may name
  Envs,         \* the environments a host may build in
  MaxVersion,   \* bound: the version constants
  MaxReleases,  \* bound: releases
  MaxBuilds     \* bound: builds of the host

ASSUME ContractAssumption == FirstContract \in Contracts
ASSUME DirAssumption == "unset" \notin Dirs
ASSUME EnvAssumption ==
  Envs \subseteq [DOCS_RS : BOOLEAN, CC : BOOLEAN, go126 : BOOLEAN,
                  LLINGR_LIB_DIR : Dirs \cup {"unset"},
                  LLINGR_LINK : {"unset", "shared", "other"},
                  target : {"native", "cross", "darwin_cross", "musl", "unsupported"}]

VARIABLES
  bridge, ffi,            \* the two copies of the contract
  goVersion, rustVersion, \* abiVersion and LLINGR_ABI_VERSION
  header,                 \* dist/<triple>/libllingr.h: a contract, or Null
  lock,                   \* abi.lock: [version, signature], or Null
  tested,                 \* make test passed on the tree as it is
  unguarded,              \* history: a lock was made that compares with nothing,
                          \* or a tree was released that had not passed
  releases,               \* what was released: [bridge, ffi, version]
  dirs,                   \* the engine in each directory, or Null
  overwritten,            \* history: the directories that got another engine
  cached,                 \* cargo's record of the last script run, or Null
  app,                    \* the host's binary, or Null
  builds,                 \* builds of the host so far
  running                 \* the host is past the handshake

treeVars == <<bridge, ffi, goVersion, rustVersion>>
devVars  == <<treeVars, header, lock, tested, unguarded, releases>>
hostVars == <<dirs, overwritten, cached, app, builds, running>>
vars     == <<devVars, hostVars>>

Init ==
  /\ bridge = FirstContract /\ ffi = FirstContract
  /\ goVersion = 1 /\ rustVersion = 1
  /\ header = Null
  /\ lock = Null
  /\ tested = FALSE
  /\ unguarded = FALSE
  /\ releases = {}
  /\ dirs = [d \in Dirs |-> Null]
  /\ overwritten = {}
  /\ cached = Null
  /\ app = Null
  /\ builds = 0
  /\ running = FALSE

-----------------------------------------------------------------------------
(* The developer *)

\* An edit of one copy or of both, forgotten in the other.
EditContract(c) ==
  /\ \/ bridge' = c /\ ffi' = c
     \/ bridge' = c /\ UNCHANGED ffi
     \/ ffi' = c /\ UNCHANGED bridge
  /\ tested' = FALSE
  /\ UNCHANGED <<goVersion, rustVersion, header, lock, unguarded, releases, hostVars>>

\* A constant is incremented, never set back.
IncrementVersion ==
  /\ \/ goVersion < MaxVersion /\ goVersion' = goVersion + 1 /\ UNCHANGED rustVersion
     \/ rustVersion < MaxVersion /\ rustVersion' = rustVersion + 1 /\ UNCHANGED goVersion
  /\ tested' = FALSE
  /\ UNCHANGED <<bridge, ffi, header, lock, unguarded, releases, hostVars>>

\* abi-check/src/lib.rs: the typedefs coerce, the layouts are equal field by
\* field, and the functions have one type.  Parameter names do not matter to a
\* compiler.
DeclarationsMatch(ours, theirs) == ours.types = theirs.types /\ ours.fields = theirs.fields

\* Mutant: parameter names are left out.
AbiSignatureTypes(h) == <<h.types>>

\* abi_signature and its hash: the header without comments, cut at every
\* semicolon, and the pieces that mention llingr_.  A prototype is one piece,
\* names included; a struct is cut up at its fields, of which none mentions
\* llingr_.
AbiSignature(h) == <<h.types, h.names>>

\* The match of main on (signature, version): only one arm does not panic.
LockMatches(h) ==
  /\ lock # Null
  /\ lock.signature = AbiSignature(h)
  /\ lock.version = goVersion

\* What abi-check verifies beside the lock.
ContractChecked(h) == goVersion = rustVersion /\ DeclarationsMatch(ffi, h)

\* make engine builds the bridge, and cgo writes its header beside it.
MakeEngine ==
  /\ header' = bridge
  /\ UNCHANGED <<treeVars, lock, tested, unguarded, releases, hostVars>>

\* The lock is not in the repository: another clone starts without one.
FreshClone ==
  /\ header' = Null
  /\ lock' = Null
  /\ tested' = FALSE
  /\ UNCHANGED <<treeVars, unguarded, releases, hostVars>>

\* UPDATE_ABI_LOCK=1 cargo build.  The script writes what it finds: over no
\* lock, though there were releases, or over a lock of the same version and
\* another contract, too; and before the declarations are compiled.
RegenerateLock ==
  LET signature == AbiSignature(header)
      blind     == \/ lock = Null /\ releases # {}
                   \/ lock # Null /\ lock.version = goVersion /\ lock.signature # signature
  IN
  /\ header # Null
  /\ goVersion = rustVersion
  /\ lock' = [version |-> goVersion, signature |-> signature]
  /\ unguarded' = (unguarded \/ blind)
  /\ UNCHANGED <<treeVars, header, tested, releases, hostVars>>

\* make test builds the engine first, so that its header is the tree's.
MakeTest ==
  /\ header' = bridge
  /\ tested' = (ContractChecked(bridge) /\ LockMatches(bridge))
  /\ UNCHANGED <<treeVars, lock, unguarded, releases, hostVars>>

\* A tag is pushed: the release workflows package the crate and build the
\* engines.  No workflow runs make test or abi-check.
Release ==
  /\ Cardinality(releases) < MaxReleases
  /\ releases' = releases \cup {[bridge |-> bridge, ffi |-> ffi, version |-> goVersion]}
  /\ unguarded' = (unguarded \/ ~tested)
  /\ UNCHANGED <<treeVars, header, lock, tested, hostVars>>

-----------------------------------------------------------------------------
(* build.rs *)

\* The Go build: the target, then the toolchain, then a cross build's CC, which
\* is derived where both ends are Apple's.
CompileEngine(env) ==
  IF \/ env.target = "musl"
     \/ env.target = "unsupported"
     \/ ~env.go126
     \/ env.target = "cross" /\ ~env.CC
  THEN "panics" ELSE "source"

\* main: the four branches in their order.
Decide(env) ==
  CASE env.DOCS_RS                -> "nothing"
    [] env.LLINGR_LINK = "shared" /\ ~env.DOCS_RS ->
         IF env.LLINGR_LIB_DIR # "unset" THEN "shared" ELSE "panics"
    [] env.LLINGR_LINK = "other" /\ ~env.DOCS_RS -> "panics"
    [] OTHER -> IF env.LLINGR_LIB_DIR # "unset" THEN "prebuilt" ELSE CompileEngine(env)

\* Mutant: one of the variables is not declared.
TrackedNoLibDir == {"LLINGR_LINK", "DOCS_RS", "CC"}

\* rerun-if-env-changed, of the variables modelled.  The target is part of
\* cargo's own key; the Go toolchain on PATH is not tracked at all.
Tracked == {"LLINGR_LIB_DIR", "LLINGR_LINK", "DOCS_RS", "CC"}

\* External: cargo runs the script when something it declared has changed.
Reused(crate, env) ==
  /\ cached # Null
  /\ cached.crate = crate
  /\ cached.env.target = env.target
  /\ \A v \in Tracked : cached.env[v] = env[v]

\* The engine a decision links: the crate's own, or what the directory holds,
\* unless it was bundled before.
EngineLinked(decision, crate, dir, bundled) ==
  CASE decision = "source"   -> crate
    [] decision = "prebuilt" -> IF bundled # Null THEN bundled ELSE dirs[dir]
    [] decision = "shared"   -> dirs[dir]
    [] decision = "nothing"  -> Null

\* A released engine is unpacked into a directory.
InstallEngine(d, engine) ==
  /\ ~running
  /\ dirs[d] # engine
  /\ dirs' = [dirs EXCEPT ![d] = engine]
  /\ overwritten' = IF dirs[d] = Null THEN overwritten ELSE overwritten \cup {d}
  /\ UNCHANGED <<devVars, cached, app, builds, running>>

\* cargo build of the host against a released crate.  A reused script keeps the
\* archive that was bundled, whatever LLINGR_LIB_DIR holds by now.  Where it
\* holds nothing the script only warns, and the link fails.
CargoBuild(crate, env) ==
  LET reused   == Reused(crate, env)
      ranIn    == IF reused THEN cached.env ELSE env
      decision == IF reused THEN cached.out ELSE Decide(env)
      bundled  == IF reused THEN cached.engine ELSE Null
      engine   == EngineLinked(decision, crate, ranIn.LLINGR_LIB_DIR, bundled)
  IN
  /\ builds < MaxBuilds
  /\ ~running
  /\ builds' = builds + 1
  /\ \/ /\ decision = "panics"
        /\ cached' = Null
        /\ UNCHANGED app
     \/ /\ decision # "panics"
        /\ cached' = [crate |-> crate, env |-> ranIn, out |-> decision, engine |-> engine]
        /\ \/ /\ decision # "nothing" /\ engine = Null
              /\ UNCHANGED app
           \/ /\ decision = "nothing" \/ engine # Null
              /\ app' = [crate |-> crate, env |-> env, link |-> decision, engine |-> engine]
  /\ UNCHANGED <<devVars, dirs, overwritten, running>>

\* A shared engine is put beside the binary, where the loader looks first, or
\* replaced.
SwapEngine(engine) ==
  /\ app # Null /\ app.link = "shared" /\ ~running
  /\ app' = [app EXCEPT !.engine = engine]
  /\ UNCHANGED <<devVars, dirs, overwritten, cached, builds, running>>

\* Builder::build: an engine that reports another version is refused.
Start ==
  /\ app # Null /\ app.engine # Null
  /\ ~running
  /\ app.engine.version = app.crate.version
  /\ running' = TRUE
  /\ UNCHANGED <<devVars, dirs, overwritten, cached, app, builds>>

-----------------------------------------------------------------------------
Next ==
  \/ \E c \in Contracts : EditContract(c)
  \/ IncrementVersion \/ MakeEngine \/ FreshClone \/ RegenerateLock \/ MakeTest \/ Release
  \/ \E d \in Dirs, engine \in releases : InstallEngine(d, engine)
  \/ \E crate \in releases, env \in Envs : CargoBuild(crate, env)
  \/ \E engine \in releases : SwapEngine(engine)
  \/ Start

Spec == Init /\ [][Next]_vars

-----------------------------------------------------------------------------
(* Properties *)

(***************************************************************************)
(* What makes a swappable engine safe: a host that is past the handshake   *)
(* calls an engine with the prototypes its crate was compiled for,         *)
(* parameter names included, however releases, prebuilt engines and swaps  *)
(* combine.  The handshake compares a number; it is abi-check that makes   *)
(* it mean this, provided every release had passed make test and           *)
(* UPDATE_ABI_LOCK was never used without a lock or a moved version, which *)
(* nothing enforces.  Of the structs' fields it says nothing (see          *)
(* VersionMovesWithDeclarations).                                          *)
(***************************************************************************)
RunningEngineAgrees ==
  running /\ ~unguarded =>
    /\ app.crate.ffi.types = app.engine.bridge.types
    /\ app.engine.bridge.names = app.crate.bridge.names

(***************************************************************************)
(* What the comments of abi-check/build.rs say of the lock: "this proves   *)
(* the version constants moved whenever the declarations did".  It does    *)
(* not: a struct whose fields change in both copies passes under one       *)
(* version (abi_signature keeps no field).                                 *)
(***************************************************************************)
VersionMovesWithDeclarations ==
  ~unguarded =>
    \A r, s \in releases : r.version = s.version => DeclarationsMatch(r.bridge, s.bridge)

(***************************************************************************)
(* A host links what build.rs decides for the environment it is built in,  *)
(* and the engine it names: the crate's own, or the one in LLINGR_LIB_DIR. *)
(* No earlier build, of docs or with the engine of another directory, is   *)
(* reused in its place (the rerun-if-env-changed lines of build.rs).  Two  *)
(* things are not noticed: an engine that was overwritten in its           *)
(* directory, and the Go toolchain, without which one compiled before      *)
(* remains.                                                                *)
(***************************************************************************)
NothingStaleLinked ==
  app # Null =>
    LET dir == app.env.LLINGR_LIB_DIR IN
    /\ app.link = Decide([app.env EXCEPT !.go126 = TRUE])
    /\ app.link = "source" => app.engine = app.crate
    /\ app.link = "prebuilt" /\ dir \notin overwritten => app.engine = dirs[dir]
=============================================================================
