------------------------- MODULE EngineBuildProofs -------------------------
(***************************************************************************)
(* RunningEngineAgrees and NothingStaleLinked for any contracts,           *)
(* environments, releases and builds.                                      *)
(*                                                                         *)
(* The handshake compares two numbers.  That they stand for a contract     *)
(* rests on what abi-check guarantees of every release (ReleasesInv,       *)
(* TestedInv) and on the lock never being behind a release (GuardedInv).   *)
(***************************************************************************)
EXTENDS EngineBuild, TLAPS

VersionsInv ==
  /\ goVersion \in Nat /\ rustVersion \in Nat
  /\ lock # Null => /\ lock = [version |-> lock.version, signature |-> lock.signature]
                    /\ lock.version \in Nat
                    /\ lock.version <= goVersion

ReleasesInv == \A r \in releases : r.version \in Nat /\ r.version <= goVersion

TestedInv ==
  tested => header = bridge /\ ContractChecked(bridge) /\ LockMatches(bridge)

\* Without a lapse, what was released was tested, one version is one
\* signature, and the lock knows the latest.
GuardedInv ==
  ~unguarded =>
    /\ \A r \in releases : r.ffi.types = r.bridge.types
    /\ \A r, s \in releases : r.version = s.version => AbiSignature(r.bridge) = AbiSignature(s.bridge)
    /\ lock # Null =>
         \A r \in releases :
           r.version <= lock.version /\
           (r.version = lock.version => AbiSignature(r.bridge) = lock.signature)

Links == {"source", "prebuilt", "shared", "nothing"}

\* The host's binary, and cargo's record, are made of releases.
HostInv ==
  /\ dirs \in [Dirs -> releases \cup {Null}]
  /\ app # Null =>
       app \in [crate : releases, env : Envs, link : Links, engine : releases \cup {Null}]
  /\ cached # Null =>
       /\ cached \in [crate : releases, env : Envs, out : Links, engine : releases \cup {Null}]
       /\ cached.out = Decide(cached.env)

RunningInv ==
  running = TRUE => app # Null /\ app.engine # Null /\ app.engine.version = app.crate.version

IInv == VersionsInv /\ ReleasesInv /\ TestedInv /\ GuardedInv /\ HostInv /\ RunningInv

-----------------------------------------------------------------------------
\* build.rs panics or links in one of four ways.
LEMMA DecideType == ASSUME NEW env \in Envs PROVE Decide(env) \in Links \cup {"panics"}
  BY EnvAssumption DEF Decide, CompileEngine, Links

\* What is linked is a release, or nothing.
LEMMA EngineLinkedType ==
  ASSUME NEW S, NEW decision \in Links, NEW crate \in S, NEW dir, NEW bundled \in S \cup {Null},
         decision \in {"prebuilt", "shared"} => dirs[dir] \in S \cup {Null}
  PROVE  EngineLinked(decision, crate, dir, bundled) \in S \cup {Null}
  BY DEF EngineLinked, Links

\* An engine is looked for in a directory only if one is named.
LEMMA DirNamed ==
  ASSUME NEW env \in Envs, Decide(env) \in {"prebuilt", "shared"}
  PROVE  env.LLINGR_LIB_DIR \in Dirs
  BY EnvAssumption DEF Decide, CompileEngine

\* The tree before its first release.
LEMMA InitIInv == Init => IInv
  BY DEF Init, IInv, VersionsInv, ReleasesInv, TestedInv, GuardedInv, HostInv, RunningInv

\* Edits and increments void the test, and move no version back.
LEMMA EditsKeep ==
  ASSUME IInv, (\E c \in Contracts : EditContract(c)) \/ IncrementVersion
  PROVE  IInv'
<1> USE DEF IInv
<1>1. tested' = FALSE /\ UNCHANGED <<header, lock, unguarded, releases, hostVars>>
  BY DEF EditContract, IncrementVersion
<1>2. goVersion' \in Nat /\ rustVersion' \in Nat /\ goVersion <= goVersion'
  BY DEF VersionsInv, EditContract, IncrementVersion
<1>3. VersionsInv' /\ ReleasesInv'
  BY <1>1, <1>2 DEF VersionsInv, ReleasesInv
<1>4. TestedInv' /\ GuardedInv'
  BY <1>1 DEF TestedInv, GuardedInv
<1>5. HostInv' /\ RunningInv'
  BY <1>1 DEF hostVars, HostInv, RunningInv
<1> QED  BY <1>3, <1>4, <1>5

\* Engine, test and clone: a lock is lost, never changed.
LEMMA TreeKeeps ==
  ASSUME IInv, MakeEngine \/ MakeTest \/ FreshClone
  PROVE  IInv'
<1> USE DEF IInv
<1>1. UNCHANGED <<treeVars, unguarded, releases, hostVars>> /\ (lock' = lock \/ lock' = Null)
  BY DEF MakeEngine, MakeTest, FreshClone
<1>2. VersionsInv' /\ ReleasesInv' /\ GuardedInv'
  BY <1>1 DEF treeVars, VersionsInv, ReleasesInv, GuardedInv
<1>3. TestedInv'
  BY <1>1 DEF treeVars, MakeEngine, MakeTest, FreshClone, TestedInv, ContractChecked, LockMatches
<1>4. HostInv' /\ RunningInv'
  BY <1>1 DEF hostVars, HostInv, RunningInv
<1> QED  BY <1>2, <1>3, <1>4

\* A lock made over one that compares has the same contract or a later
\* version.
LEMMA RegenerateKeeps == ASSUME IInv, RegenerateLock PROVE IInv'
<1> USE DEF IInv
<1>1. UNCHANGED <<treeVars, header, tested, releases, hostVars>>
  BY DEF RegenerateLock
<1>2. lock' = [version |-> goVersion, signature |-> AbiSignature(header)]
  BY DEF RegenerateLock
<1>3. VersionsInv' /\ ReleasesInv'
  BY <1>1, <1>2 DEF treeVars, VersionsInv, ReleasesInv
<1>4. TestedInv'
  BY <1>1, <1>2 DEF treeVars, VersionsInv, TestedInv, ContractChecked, LockMatches
<1>5. GuardedInv'
  <2> SUFFICES ASSUME ~unguarded'
               PROVE  /\ \A r \in releases : r.ffi.types = r.bridge.types
                      /\ \A r, s \in releases : r.version = s.version => AbiSignature(r.bridge) = AbiSignature(s.bridge)
                      /\ \A r \in releases :
                           /\ r.version <= goVersion
                           /\ r.version = goVersion => AbiSignature(r.bridge) = AbiSignature(header)
    BY <1>1, <1>2 DEF GuardedInv
  <2>1. /\ ~unguarded
        /\ lock = Null => releases = {}
        /\ lock # Null /\ lock.version = goVersion => lock.signature = AbiSignature(header)
    BY DEF RegenerateLock
  <2> QED  BY <2>1 DEF GuardedInv, VersionsInv, ReleasesInv
<1>6. HostInv' /\ RunningInv'
  BY <1>1 DEF hostVars, HostInv, RunningInv
<1> QED  BY <1>3, <1>4, <1>5, <1>6

\* A release is of the lock's version and contract.
LEMMA ReleaseKeeps == ASSUME IInv, Release PROVE IInv'
<1> USE DEF IInv
<1>1. UNCHANGED <<treeVars, header, lock, tested, hostVars>>
  BY DEF Release
<1> DEFINE new == [bridge |-> bridge, ffi |-> ffi, version |-> goVersion]
<1>2. releases' = releases \cup {new}
  BY DEF Release
<1>3. ~unguarded' => ~unguarded /\ ContractChecked(bridge) /\ LockMatches(bridge)
  BY DEF Release, TestedInv
<1>4. VersionsInv'
  BY <1>1 DEF treeVars, VersionsInv
<1>5. ReleasesInv'
  BY <1>1, <1>2 DEF treeVars, VersionsInv, ReleasesInv
<1>6. TestedInv'
  BY <1>1 DEF treeVars, TestedInv, ContractChecked, LockMatches
<1>7. GuardedInv'
  <2> SUFFICES ASSUME ~unguarded'
               PROVE  /\ \A r \in releases' : r.ffi.types = r.bridge.types
                      /\ \A r, s \in releases' :
                           r.version = s.version => AbiSignature(r.bridge) = AbiSignature(s.bridge)
                      /\ \A r \in releases' :
                           r.version <= lock.version /\
                           (r.version = lock.version => AbiSignature(r.bridge) = lock.signature)
    BY <1>1 DEF GuardedInv
  <2>1. lock # Null /\ new.version = lock.version /\ AbiSignature(new.bridge) = lock.signature
    BY <1>3 DEF LockMatches
  <2>2. ~unguarded /\ lock.version \in Nat
    BY <1>3, <2>1 DEF VersionsInv
  <2>3. new.ffi.types = new.bridge.types
    BY <1>3 DEF ContractChecked, DeclarationsMatch
  <2> QED  BY <1>2, <2>1, <2>2, <2>3 DEF GuardedInv
<1>8. HostInv' /\ RunningInv'
  BY <1>1, <1>2 DEF hostVars, HostInv, RunningInv
<1> QED  BY <1>4, <1>5, <1>6, <1>7, <1>8

\* What a host does leaves the releases alone and links one of them.
LEMMA HostKeeps ==
  ASSUME IInv,
         \/ \E d \in Dirs, engine \in releases : InstallEngine(d, engine)
         \/ \E crate \in releases, env \in Envs : CargoBuild(crate, env)
         \/ \E engine \in releases : SwapEngine(engine)
         \/ Start
  PROVE  IInv'
<1> USE DEF IInv
<1>1. UNCHANGED devVars
  BY DEF InstallEngine, CargoBuild, SwapEngine, Start
<1>2. VersionsInv' /\ ReleasesInv' /\ TestedInv' /\ GuardedInv'
  BY <1>1 DEF devVars, treeVars, VersionsInv, ReleasesInv, TestedInv, GuardedInv,
              ContractChecked, LockMatches
<1>3. HostInv' /\ RunningInv'
  <2>1. ASSUME NEW crate \in releases, NEW env \in Envs, CargoBuild(crate, env)
        PROVE  HostInv' /\ RunningInv'
    <3> DEFINE reused   == Reused(crate, env)
               ranIn    == IF reused THEN cached.env ELSE env
               decision == IF reused THEN cached.out ELSE Decide(env)
               bundled  == IF reused THEN cached.engine ELSE Null
               engine   == EngineLinked(decision, crate, ranIn.LLINGR_LIB_DIR, bundled)
    <3>1. /\ running' = running /\ ~running /\ releases' = releases /\ dirs' = dirs
          /\ \/ cached' = Null /\ app' = app
             \/ /\ decision # "panics"
                /\ cached' = [crate |-> crate, env |-> ranIn, out |-> decision, engine |-> engine]
                /\ \/ app' = app
                   \/ app' = [crate |-> crate, env |-> env, link |-> decision, engine |-> engine]
      BY <2>1, <1>1 DEF CargoBuild, devVars
    <3>2. reused => cached # Null
      BY DEF Reused
    <3>3. decision # "panics" => decision \in Links
      BY <3>2, DecideType DEF HostInv
    <3>4. ranIn \in Envs /\ bundled \in releases \cup {Null}
      BY <3>2 DEF HostInv
    <3>5. decision \in {"prebuilt", "shared"} => ranIn.LLINGR_LIB_DIR \in Dirs
      BY <3>2, DirNamed DEF HostInv
    <3>6. decision # "panics" => engine \in releases \cup {Null}
      <4> HIDE DEF decision, ranIn, bundled
      <4>1. \A d \in Dirs : dirs[d] \in releases \cup {Null}
        BY DEF HostInv
      <4> QED  BY <3>3, <3>4, <3>5, <4>1, EngineLinkedType
    <3>7. decision = Decide(ranIn)
      BY <3>2 DEF HostInv
    <3> HIDE DEF decision, engine, reused, ranIn, bundled
    <3>8. dirs' \in [Dirs -> releases' \cup {Null}]
      BY <3>1 DEF HostInv
    <3>9. cached' # Null => /\ cached' \in [crate : releases, env : Envs, out : Links,
                                           engine : releases \cup {Null}]
                            /\ cached'.out = Decide(cached'.env)
      BY <3>1, <3>3, <3>4, <3>6, <3>7
    <3>10. app' # Null => app' \in [crate : releases, env : Envs, link : Links,
                                    engine : releases \cup {Null}]
      BY <3>1, <3>3, <3>4, <3>6 DEF HostInv
    <3> QED  BY <3>1, <3>8, <3>9, <3>10 DEF HostInv, RunningInv
  <2>2. CASE \E engine \in releases : SwapEngine(engine)
    BY <2>2, <1>1 DEF SwapEngine, HostInv, RunningInv, devVars
  <2>3. CASE Start
    BY <2>3, <1>1 DEF Start, HostInv, RunningInv, devVars
  <2>4. CASE \E d \in Dirs, engine \in releases : InstallEngine(d, engine)
    BY <2>4, <1>1 DEF InstallEngine, HostInv, RunningInv, devVars
  <2> QED  BY <2>1, <2>2, <2>3, <2>4
<1> QED  BY <1>2, <1>3

\* The inductive invariant of the way from an edit to a running host.
THEOREM Invariant == Spec => []IInv
<1>1. IInv /\ [Next]_vars => IInv'
  <2> SUFFICES ASSUME IInv, [Next]_vars PROVE IInv'
    OBVIOUS
  <2>1. CASE UNCHANGED vars
    BY <2>1 DEF vars, devVars, treeVars, hostVars, IInv, VersionsInv, ReleasesInv, TestedInv,
                GuardedInv, HostInv, RunningInv, ContractChecked, LockMatches
  <2> QED  BY <2>1, EditsKeep, TreeKeeps, RegenerateKeeps, ReleaseKeeps, HostKeeps DEF Next
<1> QED  BY <1>1, InitIInv, PTL DEF Spec

\* A host that is past the handshake calls an engine with the prototypes of its
\* own contract, for any contracts and any number of releases, builds and
\* swaps, as long as every release had passed abi-check and no lock was made
\* over another contract of its version.
THEOREM EngineAgrees == Spec => []RunningEngineAgrees
<1>1. IInv => RunningEngineAgrees
  <2> SUFFICES ASSUME IInv, running, ~unguarded
               PROVE  /\ app.crate.ffi.types = app.engine.bridge.types
                      /\ app.engine.bridge.names = app.crate.bridge.names
    BY DEF RunningEngineAgrees
  <2>1. /\ app.crate \in releases /\ app.engine \in releases
        /\ app.engine.version = app.crate.version
    BY DEF IInv, HostInv, RunningInv
  <2>2. AbiSignature(app.engine.bridge) = AbiSignature(app.crate.bridge)
    BY <2>1 DEF IInv, GuardedInv
  <2>3. app.crate.ffi.types = app.crate.bridge.types
    BY <2>1 DEF IInv, GuardedInv
  <2> QED  BY <2>2, <2>3 DEF AbiSignature
<1> QED  BY <1>1, Invariant, PTL

-----------------------------------------------------------------------------
(* Nothing stale *)

Go(env) == [env EXCEPT !.go126 = TRUE]

\* The engine that belongs to what was decided: the crate's own, or the one in
\* the directory.
Belongs(engine, decision, crate, dir) ==
  /\ decision = "source" => engine = crate
  /\ decision = "prebuilt" /\ dir \notin overwritten => engine = dirs[dir]

\* What cargo keeps, and what it made of it, is what the script decides.
StaleInv ==
  /\ cached # Null =>
       /\ cached.out = Decide(Go(cached.env))
       /\ cached.engine # Null =>
            Belongs(cached.engine, cached.out, cached.crate, cached.env.LLINGR_LIB_DIR)
  /\ app # Null =>
       /\ app.link = Decide(Go(app.env))
       /\ app.link = "prebuilt" => app.engine # Null
       /\ Belongs(app.engine, app.link, app.crate, app.env.LLINGR_LIB_DIR)

\* Without a panic the toolchain made no difference.
LEMMA GoOnlyPanics ==
  ASSUME NEW env \in Envs, Decide(env) # "panics"
  PROVE  Decide(env) = Decide(Go(env))
<1>1. env \in [DOCS_RS : BOOLEAN, CC : BOOLEAN, go126 : BOOLEAN,
              LLINGR_LIB_DIR : Dirs \cup {"unset"},
              LLINGR_LINK : {"unset", "shared", "other"},
              target : {"native", "cross", "darwin_cross", "musl", "unsupported"}]
  BY EnvAssumption
<1>2. /\ Go(env).DOCS_RS = env.DOCS_RS /\ Go(env).LLINGR_LIB_DIR = env.LLINGR_LIB_DIR
      /\ Go(env).CC = env.CC /\ Go(env).LLINGR_LINK = env.LLINGR_LINK
      /\ Go(env).target = env.target /\ Go(env).go126 = TRUE
  BY <1>1 DEF Go
<1> HIDE DEF Go
<1> QED  BY <1>1, <1>2 DEF Decide, CompileEngine

\* The variables the script declares, and the target, are all it looks at.
LEMMA TrackedDecide ==
  ASSUME NEW e \in Envs, NEW f \in Envs, e.target = f.target, \A v \in Tracked : e[v] = f[v]
  PROVE  Decide(Go(e)) = Decide(Go(f)) /\ e.LLINGR_LIB_DIR = f.LLINGR_LIB_DIR
<1>1. /\ e.DOCS_RS = f.DOCS_RS /\ e.LLINGR_LIB_DIR = f.LLINGR_LIB_DIR
      /\ e.CC = f.CC /\ e.LLINGR_LINK = f.LLINGR_LINK
  BY DEF Tracked
<1>2. Go(e) = Go(f)
  BY <1>1, EnvAssumption DEF Go
<1> QED  BY <1>1, <1>2

\* What is linked afresh belongs to the decision, and so does what was bundled.
LEMMA LinkedBelongs ==
  ASSUME NEW decision, NEW crate, NEW dir, NEW bundled,
         bundled # Null => Belongs(bundled, decision, crate, dir)
  PROVE  Belongs(EngineLinked(decision, crate, dir, bundled), decision, crate, dir)
<1>1. CASE decision = "source"
  BY <1>1 DEF EngineLinked, Belongs
<1>2. CASE decision = "prebuilt"
  BY <1>2 DEF EngineLinked, Belongs
<1> QED  BY <1>1, <1>2 DEF Belongs

\* A build records what it decided, or reuses a record that says the same.
LEMMA CargoBuildStale ==
  ASSUME HostInv, StaleInv, NEW crate \in releases, NEW env \in Envs, CargoBuild(crate, env)
  PROVE  StaleInv'
<1> DEFINE reused   == Reused(crate, env)
           ranIn    == IF reused THEN cached.env ELSE env
           decision == IF reused THEN cached.out ELSE Decide(env)
           bundled  == IF reused THEN cached.engine ELSE Null
           dir      == ranIn.LLINGR_LIB_DIR
           engine   == EngineLinked(decision, crate, dir, bundled)
<1>1. /\ dirs' = dirs /\ overwritten' = overwritten
      /\ \/ cached' = Null /\ app' = app
         \/ /\ decision # "panics"
            /\ cached' = [crate |-> crate, env |-> ranIn, out |-> decision, engine |-> engine]
            /\ \/ app' = app
               \/ /\ app' = [crate |-> crate, env |-> env, link |-> decision, engine |-> engine]
                  /\ decision = "nothing" \/ engine # Null
  BY DEF CargoBuild
<1>2. reused => cached # Null /\ cached.env \in Envs /\ cached.crate = crate
  BY DEF Reused, HostInv
<1>3. decision # "panics" =>
        /\ decision = Decide(Go(ranIn)) /\ decision = Decide(Go(env))
        /\ env.LLINGR_LIB_DIR = dir
  <2>1. CASE reused
    <3>1. Decide(Go(cached.env)) = Decide(Go(env)) /\ cached.env.LLINGR_LIB_DIR = env.LLINGR_LIB_DIR
      BY <1>2, <2>1, TrackedDecide DEF Reused
    <3> QED  BY <1>2, <2>1, <3>1 DEF StaleInv
  <2>2. CASE ~reused
    BY <2>2, GoOnlyPanics
  <2> QED  BY <2>1, <2>2
<1>4. bundled # Null => Belongs(bundled, decision, crate, dir)
  BY <1>2 DEF StaleInv
<1> HIDE DEF reused, ranIn, decision, bundled, dir
<1>5. Belongs(engine, decision, crate, dir)
  BY <1>4, LinkedBelongs
<1>6. dir = ranIn.LLINGR_LIB_DIR
  BY DEF dir
<1> HIDE DEF engine
<1>7. \A e, d, c, x : Belongs(e, d, c, x) => Belongs(e, d, c, x)'
  BY <1>1 DEF Belongs
<1>8. cached' # Null =>
        /\ cached'.out = Decide(Go(cached'.env))
        /\ Belongs(cached'.engine, cached'.out, cached'.crate, cached'.env.LLINGR_LIB_DIR)
  BY <1>1, <1>3, <1>5, <1>6
<1>9. app' # Null =>
        /\ app'.link = Decide(Go(app'.env))
        /\ app'.link = "prebuilt" => app'.engine # Null
        /\ Belongs(app'.engine, app'.link, app'.crate, app'.env.LLINGR_LIB_DIR)
  BY <1>1, <1>3, <1>5 DEF StaleInv
<1> QED  BY <1>1, <1>8, <1>9 DEF StaleInv, Belongs

\* An engine put where there was none is no engine anyone has linked.
LEMMA InstallStale ==
  ASSUME IInv, StaleInv, NEW d \in Dirs, NEW engine \in releases, InstallEngine(d, engine)
  PROVE  StaleInv'
<1>1. /\ cached' = cached /\ app' = app
      /\ dirs' = [dirs EXCEPT ![d] = engine]
      /\ overwritten' = IF dirs[d] = Null THEN overwritten ELSE overwritten \cup {d}
  BY DEF InstallEngine
<1>2. ASSUME NEW e, NEW decision, NEW crate, NEW x, e # Null, Belongs(e, decision, crate, x),
             decision = "prebuilt" => x \in Dirs
      PROVE  Belongs(e, decision, crate, x)'
  <2>1. CASE decision = "prebuilt"
    <3>1. x \in Dirs /\ dirs \in [Dirs -> releases \cup {Null}]
      BY <1>2, <2>1 DEF IInv, HostInv
    <3>2. CASE x = d
      BY <1>1, <1>2, <2>1, <3>1, <3>2 DEF Belongs
    <3>3. CASE x # d
      BY <1>1, <1>2, <2>1, <3>1, <3>3 DEF Belongs
    <3> QED  BY <3>2, <3>3
  <2>2. CASE decision # "prebuilt"
    BY <1>2, <2>2 DEF Belongs
  <2> QED  BY <2>1, <2>2
<1>3. ASSUME cached # Null, cached.engine # Null
      PROVE  Belongs(cached.engine, cached.out, cached.crate, cached.env.LLINGR_LIB_DIR)'
  <2>1. cached.out = "prebuilt" => cached.env.LLINGR_LIB_DIR \in Dirs
    BY <1>3, DirNamed DEF IInv, HostInv
  <2>2. Belongs(cached.engine, cached.out, cached.crate, cached.env.LLINGR_LIB_DIR)
    BY <1>3 DEF StaleInv
  <2> QED  BY <1>1, <1>2, <1>3, <2>1, <2>2 DEF Belongs
<1>4. ASSUME app # Null
      PROVE  Belongs(app.engine, app.link, app.crate, app.env.LLINGR_LIB_DIR)'
  <2>1. app.link = "prebuilt" => app.env.LLINGR_LIB_DIR \in Dirs
    BY <1>4, EnvAssumption DEF IInv, HostInv, StaleInv, Go, Decide, CompileEngine
  <2>2. Belongs(app.engine, app.link, app.crate, app.env.LLINGR_LIB_DIR)
    BY <1>4 DEF StaleInv
  <2>3. CASE app.link # "prebuilt"
    BY <1>1, <2>2, <2>3 DEF Belongs
  <2>4. CASE app.engine # Null
    BY <1>1, <1>2, <2>1, <2>2, <2>4 DEF Belongs
  <2> QED  BY <1>4, <2>3, <2>4 DEF StaleInv
<1> QED  BY <1>1, <1>3, <1>4 DEF StaleInv

\* No earlier build, and no engine of another directory, is linked in the place
\* of the one build.rs decides on, for any environments and directories and any
\* number of builds.
THEOREM NothingStale == Spec => []NothingStaleLinked
<1>1. Init => StaleInv
  BY DEF Init, StaleInv
<1>2. IInv /\ StaleInv /\ [Next]_vars => StaleInv'
  <2> SUFFICES ASSUME IInv, StaleInv, [Next]_vars PROVE StaleInv'
    OBVIOUS
  <2>1. CASE UNCHANGED <<cached, app, dirs, overwritten>>
    BY <2>1 DEF StaleInv, Belongs
  <2>2. CASE \E crate \in releases, env \in Envs : CargoBuild(crate, env)
    BY <2>2, CargoBuildStale DEF IInv
  <2>3. CASE \E d \in Dirs, engine \in releases : InstallEngine(d, engine)
    BY <2>3, InstallStale
  <2>4. ASSUME NEW engine \in releases, SwapEngine(engine) PROVE StaleInv'
    <3>1. /\ app # Null /\ app.link = "shared" /\ app' = [app EXCEPT !.engine = engine]
          /\ UNCHANGED <<cached, dirs, overwritten>>
      BY <2>4 DEF SwapEngine
    <3>2. /\ app'.link = "shared" /\ app'.env = app.env /\ app'.crate = app.crate
          /\ app'.engine = engine
      BY <3>1 DEF IInv, HostInv
    <3> QED  BY <3>1, <3>2 DEF StaleInv, Belongs
  <2> QED  BY <2>1, <2>2, <2>3, <2>4 DEF Next, vars, hostVars, EditContract, IncrementVersion,
             MakeEngine, FreshClone, RegenerateLock, MakeTest, Release, Start
<1>3. StaleInv => NothingStaleLinked
  BY DEF StaleInv, Belongs, NothingStaleLinked, Go
<1> QED  BY <1>1, <1>2, <1>3, Invariant, PTL DEF Spec
=============================================================================
