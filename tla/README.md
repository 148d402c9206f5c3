# Verification of llingr-rs-kafka

TLA+ models, TLC runs and TLAPS proofs for the Rust crate `llingr-kafka`
(`src/src/`), the Go bridge it links (`src/bridge/`) and the scripts that put
the two together (`src/build.rs`, `src/abi-check/`). `PROJECT.json` lists the
components, runs, mutants, source map, findings, hazards and theorems this file
explains.

## The system

A host program describes a Kafka consumer with the Rust builder. `build()`
serialises a configuration to JSON, registers C function pointers (the
*trampolines*) and calls into a Go shared library. The bridge translates the
configuration, wires the external engine (`llingr-demux`) to the external
franz-go client, and from then on calls the host back from engine goroutines:
process, dead letter, metrics, bandwidth, log and shutdown. The host controls
the engine through `run`, `stop` and `emergency_stop` and looks into it through
`snapshot` and the metrics endpoint, from any thread.

### Components

| Component | State it keeps | Operations | What makes it correct |
|---|---|---|---|
| Bridge lifecycle (`bridge/main.go`) | `consumer`, `stopGateOpen`, `runDone`, the context | `llingr_run`, `llingr_stop`, `llingr_emergency_stop`, the shutdown callback | one drive of Shutdown per run, no drain cut short, a parked run returns, last |
| Build and publication (`src/engine.rs`, `bridge/main.go`) | `HANDLERS`, `INIT_LOCK`, registered callbacks, `inited` | `build`, rollback, registration, sealing, trampoline entry | no use after free, clean retries, build logs delivered, metrics exactly when configured |
| Message path (`bridge/main.go`, `src/trampolines.rs`) | per record: outcome, reason, traits; the group's offset | process and dead-letter callbacks, commit, drain, restart | no offset passes a record neither handled nor recorded; all are in the end committed |
| C ABI encoding (`bridge/main.go`, `adapter_franz.go`, `src/trampolines.rs`, `src/ffi.rs`) | C blocks for the length of a call | marshal and borrow values, headers, times, error texts; metrics, bandwidth packets, log lines, reasons, snapshots | the handler sees the record that arrived and is told what was reported; texts are cut between characters; every block is freed |
| OIDC token cache (`bridge/oauth_oidc.go`) | mutex, token, expiry | `accessToken`, `fetch` | never serves a dead token; every handshake is answered |
| Client options (`src/options.rs`, `src/config.rs`) | entries, TLS flag, SASL choice, layers, deferred error | setters, `validate`, `entries`, layering, deduplication | last write wins; typed setters make acceptable configurations |
| Franz security (`bridge/franz_security.go`, `aws_iam.go`, `gcp_iam.go`) | none | collect, validate, assemble, eager fetch | no unused credential, no lost TLS, nothing fetched for what the bridge refuses |
| Bridge configuration (`src/engine.rs`, `src/config.rs`, `src/options.rs`, `bridge/config.go`) | the builder's fields, the demux settings | setters, `config_json`, `parseBridgeConfig` | any text gets through; every Duration given is in effect, rounded up |
| Franz options (`bridge/config.go`, `adapters.go`, `adapter_franz.go`) | the `kafka_config` map, consumed step by step | parse, rebalance check, pop functions, option table | drain fits the rebalance timeout, no key silently without effect, values keep their meaning |
| Metrics (`src/metrics.rs`) | registry, slot of the host's handle, endpoint with stop flag, server and thread | `realise`, the two sinks, scrape, serve loop, shutdown | totals add up, counters never fall, scrapes are consistent from one to the next; nothing of ours is open when the endpoint's drop returns, and it returns |
| Bandwidth, snapshot, logging (`bridge/main.go`, `src/snapshot.rs`, `src/logging.rs`) | none | conversions across the C ABI | part of the C ABI encoding |
| Build scripts and ABI check (`src/build.rs`, `src/abi-check/`, `src/Makefile`, the release workflow) | header, `abi.lock`, cargo's record of script runs | `make engine`, `make test`, lock regeneration, release, the link decision, the handshake | a running host calls an engine it was compiled for; nothing stale is linked |

### How the components interact

* The builder writes the document that the franz options consume, so
  `Document` extends `FranzOptions`: one behaviour leads from a setter to the
  value in effect. The client options' security keys and the franz options both
  drive the security assembly; `ClientOptions` and `FranzOptions` extend
  `FranzSecurity`.
* `build()` publishes the handler set before `llingr_init`, because the engine
  logs while it is being built, and undoes it when `llingr_init` fails. The
  endpoint is opened and closed on the same path: `Publication` has it as
  one variable, `Exporter` has the threads behind it, and `Metrics`, which extends
  `Exporter`, has the build that opens it, the sinks that feed its registry and
  the scrapes that read it.
* A stop, an emergency stop, an engine fault and the shutdown callback share
  the stop gate, `runDone` and the context (`Lifecycle`).
* A record goes through the process callback and, if that fails, through the
  dead-letter callback with the reason (`MessagePath` for the outcomes,
  `Boundary` for the bytes). What the engine reports beside records crosses the
  same way (`Notices`, which extends `Boundary`).
* Everything above supposes that the two halves agree on the C contract.
  `EngineBuild` is about that: edits, lock, releases, builds and swaps.

### What is hard here

Calls from several threads that meet in the gate and the context; a shutdown
callback that may call `stop()` itself; rollback of a half-finished build while
goroutines hold what it frees; panics, failures and crashes between a handler's
success and the commit; a mutex held across a network call; a configuration
checked in one step and consumed in another; integer overflow of durations; two
loops that must agree on a size; a registry read while it is written; arguments
of one type that cross by position; a version number that stands for a contract
only as long as a chain of scripts was followed. The `hazards` of `PROJECT.json` name each place.

## Modules

| Module | Models | State and actions |
|---|---|---|
| `Lifecycle` | `bridge/main.go` lifecycle | the fields of `bridgeState`; each exported call runs on a thread of its own, one action per access to shared state; engine and broker are external actions |
| `Publication` | `Builder::build`, registration, trampolines | one action per step of `build()` under `INIT_LOCK`, `llingr_init`'s log calls on the same thread among them; a box per build with its allocation state; goroutines enter and leave trampolines at any time, and those that enter before a consumer exists are remembered (`early`) |
| `MessagePath` | process and dead-letter callbacks | per offset: where the record is, its outcome, reason and traits; the engine's commit, breaker, drain, exit and restart are external |
| `AtLeastOnce` | the promise of the message path | settled records and a committed offset that only moves over them |
| `Boundary` | C ABI encoding | byte strings as sequences, pointers as positions in a block, arguments by position; process call, then dead-letter call, with the error text through the buffer |
| `TokenCache` | `oauthTokenSource` | mutex, token, expiry and a clock; the issuer is external and answers at any moment of the timeout with any lifetime |
| `FranzSecurity` | `franzSecurity.collect`, `build` | operators over a configuration, whose values are trimmed and folded as each key's collector does; identity sources external (`Environments`) |
| `ClientOptions` | the options builder through to the bridge | one action per kind of setter, `Builder::options`, `build()` |
| `FranzOptions` | `llingr_init`'s reading of the document | one action per step of `buildFranzConsumer`; `kafka_config` loses keys as the code deletes them |
| `Notices` | the calls without a record: metrics, bandwidth, log, shutdown reason, emergency reason, snapshot | the C blocks of a call and those its deferred function frees, its arguments by position, what the handler is given; extends `Boundary` |
| `Document` | `Builder`, `DemuxConfig`, the plain setters of `Options`, `config_json` | one action per kind of setter, `kafka_option` included; `build()` escapes the texts character by character and writes the document; extends `FranzOptions`, whose steps read it |
| `Metrics` | `Metrics::realise`, `MessageSink`, `BandwidthSink`, scrapes | a sink call is the list of its atomic updates; a scrape reads one family per step, several threads of the host at once in registry mode; extends `Exporter` |
| `EngineBuild` | `src/ffi.rs`, `abi-check`, `Makefile`, the release workflow, `build.rs`, the handshake | two copies of the contract, two versions, header and lock; the engine in each directory; cargo's record; the host's binary |
| `Exporter` | `serve_exposition`, `ExporterHandle` | owner and serve thread step by step, who holds an `Arc<Server>`; tiny_http's queue and its accept thread, which owns the listener, external |

`MC*` modules instantiate these for TLC; `*Proofs` modules hold the theorems.
Operators whose comment begins with "Mutant:" are deliberate errors: replacing
the named definition by one must make TLC report the property in question.

## Abstractions

* Messages, credentials and file contents are model values or short sequences.
  Texts matter in `Boundary`, where a UTF-8 text is the sequence of its bytes,
  each knowing its character's width, in `Notices`, where some bytes are not
  UTF-8, and in `Document`, where a text is a sequence of code points that are
  escaped and decoded one by one.
* Durations in `FranzOptions`, `Document` and `TokenCache` keep their width:
  products wrap at a constant that stands for 2^63. So do the counters of
  `Metrics` and the trait bits of `Notices`, at one that stands for 2^64.
* In `Metrics` the labels that all series of a consumer share are left out, a
  histogram is its count, and the three topology gauges, which one goroutine
  sets, are one. Go's zero time becomes a constant below zero, as `UnixNano` has it.
* In `EngineBuild` a contract has the types and the parameter names of its
  prototypes, the fields of its structs, and prose; hashes do not collide;
  `dist/` holds one target. LLINGR_LIB_DIR names one of several directories,
  into which any released engine may be unpacked, over another too.
* A snapshot document is a set of fields; what is in them is opaque.
* A configuration value that fails to parse is one value (`NotANumber`, "bad",
  "other"). Trimming and folding of case are functions on the values that occur
  (`TrimSpace`, `ToLower`, `ToUpper`), with spellings that differ in them.
* Log lines have a level and a text; which lines there are is left out.
* Handlers unwind when they panic. With `panic = "abort"`, which `build.rs` only
  warns about, a handler's panic is a crash.
* In `MessagePath` a disruption is an emergency stop or a process exit.

## Runs

Eight runs pass and four show a disagreement with a documented statement.

| Run | Instance | What it shows |
|---|---|---|
| `lifecycle` | one run, two stops, a handler that may stop, one emergency request | `FinalCommitNotCut`, `ShutdownsBoundedByRuns`, `ReentrantStopSkipsShutdown`, `RunReturnIsLast`; live: `StopDuringRunNotLost`, `ParkedRunReturns`, `ContextReleased` |
| `publication` | two builders, two goroutines, three builds | `NoUseAfterFree`, `EngineHasItsHandlers`, `RetryStartsClean`, `BuildLogsReachOwnHandlers`, `ConfiguredMetricsAreCollected` |
| `message_path` | two records, two disruptions | `NothingSkipped`, `ReasonTellsWhy`, `TraitsMarkSuccess`; live: `AllCommitted`; refinement: `ImplementsAtLeastOnce` |
| `boundary` | up to two headers, texts of up to three characters, a buffer of four bytes; up to two brokers and partitions, figures that all differ, documents with fields missing and added | `HandlerSeesRecord`, `ArenaHoldsHeaders`, `TextCutAtRune`, `HostIsTold` |
| `token_cache` | two handshakes, lifetimes absent, short, long and overflowing | `ServedTokenIsLive`; live: `HandshakeReturns`; no deadlock |
| `configuration` | three security setters, two layers; a builder with up to two optional settings, texts that are empty or need every kind of escape, Durations of none, part of, one and many milliseconds; any document of another host with up to two options | `LastWriteWins`, `CredentialsAllUsed`, `TlsNotDowngraded`, `TypedSettersAccepted`, `HostIsUnderstood`, `DrainFitsRebalance`, `NothingIgnored`, `BridgeRefusesUnfetched` |
| `metrics` | one worker, the aggregator, two packets, two scrapes that may overlap, two requests, two starts, both modes | `EndpointClosedAfterDrop`, `AtMostOneLateAnswer`, `TotalsAddUp`, `CountersNeverFall`, `NextScrapeHasTheMessages`; live: `DropReturns` |
| `engine_build` | four contracts, two versions, two releases, two directories, two host builds, twelve environments | `RunningEngineAgrees`, `NothingStaleLinked` |
| `late_stop` | one run, one stop, one emergency request | `StopAfterNoticeIsNoOp` is violated |
| `build_retry` | one builder, two builds | `CollectedOnlyWhenConfigured` is violated |
| `wrap` | the documents of another host in `configuration` | `ValueKeepsMeaning` is violated |
| `abi_lock` | the developer's half of `engine_build` | `VersionMovesWithDeclarations` is violated |

### Why the bounds are enough

* Lifecycle: a race at the gate needs two stops and the handler's own; the
  theorems cover any number of callers. A second `llingr_run` is allowed by the
  module and by the theorems, which say what it can spoil (`opens > 1`); the
  documentation has one.
* Publication: three builds are a failure, a retry and a build against an
  existing engine.
* Message path: two records show a commit that could jump over an unsettled
  one; two disruptions, a crash during the recovery from a crash.
* Boundary: two headers show one field running into the next; a buffer of four
  bytes and characters of one to three bytes give every place to cut. Two
  brokers and two partitions, one in every combination of empty, plain and
  invalid strings, show a string taken from a neighbour's block. The theorems
  cover any length.
* Token cache: time for a token to be fetched, served, outlived and replaced.
* Configuration, security: every cross-check of the code reads at most three keys or
  families; the property files bring in the combinations that need more calls.
* Configuration, documents: the steps interact through pairs of options at most, the drain
  timeout being varied beside them.
* Configuration, builder: a setting can hide, replace or contradict one other
  (drain and rebalance timeout, an option and its alias, the two bandwidth
  intervals, two demux configurations). The theorems cover any number. The
  security half and the document half share no state, so a behaviour of the run
  takes steps of one of them only.
* Metrics: one call in progress while a scrape is, and one scrape after another
  or beside it;
  requests waiting behind one being answered; a restart. The theorems cover any
  number.
* Engine build: an engine of one release meets a crate of the other; a second
  build may reuse the first. Two restrictions keep the search small. A host sees
  nothing of a tree but its releases, which stay, so it builds after them
  (`HostComesLast`); and states after a lapse, of which the property claims
  nothing, are not explored further (`Guarded`). The theorems need neither and
  cover any number.

Deadlock checking is off where the system may stop: all calls returned, a build
that was the last, a process that committed everything, a document read, a call
across the ABI that is over, packets and scrapes spent, a host that runs.

### Fairness

Only what the code's scheduling gives:

* `Lifecycle`: a call that has begun goes on. Subscribe ends by its assignment
  timeout, Shutdown by its drain timeout, the host's handler returns. Nothing
  obliges the host to call or the engine to fail.
* `MessagePath`: handlers return, the committer runs, a drain ends by its timeout
  and an ended process is started again; crashes are bounded and not fair.
* `TokenCache`: a fetch ends (the HTTP client has a timeout), and Go's mutex does
  not starve a waiter, hence strong fairness of the acquisition.
* `Exporter` and `Metrics`: a rendering runs to its end, `recv_timeout` returns within `POLL_INTERVAL` and a scraper reads
  its answer. A scraper that never does would hold the drop up; the code has no
  write timeout against it. tiny_http's accept thread ends once it is told to
  (external: the server that goes connects to its own port to wake it).

## Proofs

TLAPS checks, for every value of the constants:

* `LifecycleProofs`: type correctness, `FinalCommitNotCut`,
  `ShutdownsBoundedByRuns`, `ReentrantStopSkipsShutdown`, `RunReturnIsLast`. A
  promise is about what a call finds many steps after it crossed the gate, so the
  invariant says who may be inside Shutdown, and what the context, the client,
  the callback and the gate look like meanwhile. On an emergency exit nobody has
  crossed the gate, and it is the close at the head of the callback that keeps
  the handler's own stop out; a `llingr_run` that opens the gate behind the
  callback is counted (`reopens`) and excepted. Assumption: the sets of threads
  are disjoint.
* `PublicationProofs`: type correctness and the five safety properties of the
  run. The invariant ties what is published, allocated, registered and open to
  the phase of the one builder that holds the lock. Freeing and using a box are
  steps of different threads; the argument is that the thread inside
  `llingr_init` has left the log trampoline when `llingr_init` returns, that
  the lock keeps other builds away, and that a set is freed only while no engine
  exists. A goroutine that called a trampoline before its build had succeeded
  is not covered: the SAFETY note at `src/engine.rs:119` supposes there is none,
  while `bridge/main.go:354` speaks of goroutines a partial build started.
* `MessagePathProofs`: type correctness, `NothingSkipped`, `ReasonTellsWhy`,
  `TraitsMarkSuccess`, and that the message path implements the safety part of
  `AtLeastOnce`. A finished record is accounted for (`DoneInv`), so every record
  below the committed offset is (`CommittedInv`), across restarts.
* `TokenCacheProofs`: type correctness and `ServedTokenIsLive`. The cache
  overstates a token's life by at most the fetch timeout (`OverstatedInv`), since
  the fetch ran under the mutex no longer than that (`FetchInv`), and wrapping
  only shortens it (`DurationShortens`). The margin is the leeway less the fetch timeout.
* `ConfigurationProofs`: `DrainFitsRebalance`, `NothingIgnored` and
  `BridgeRefusesUnfetched`, of `FranzOptions` and of `Document`; `HostIsUnderstood`
  of `Document`; the four properties of `ClientOptions`. The check of the drain
  timeout reads the map before later steps change it; the invariant carries it
  forward (`DrainChecked`) and accounts for removed and translated keys
  (`KeysAccounted`, `OptionsTranslated`). `BuildRefusesUnfetched` is a lemma on
  the security assembly. Assumptions: positive bounds, the default drain
  below the default rebalance timeout and within the engine's cap, and a drain
  timeout that is an integer. `AssembledDocuments` carries the invariant through
  the builder (`DocInv`: before `build()` nothing has been read or fetched) and
  shows that what `config_json` writes is a document the bridge's steps are
  proved for. For `HostIsUnderstood` each setting is followed from the setter
  through rounding to the value in effect, and each text through the escape of
  every character and its decoding (any code points, any length). For the options builder
  the invariant (`ClientInv`) says what the setters leave in the entries of a
  layer; that deduplication keeps the last write of each key, in layers of any
  length, is an induction over the entries (`DedupedHoldsLast`).
* `BoundaryProofs`: `HandlerSeesRecord`, `ArenaHoldsHeaders`, `TextCutAtRune`,
  `HostIsTold`, for records, headers, texts, brokers and partitions of any number
  and length. `CrossingInv` and `NoticeInv` say what the C blocks hold at each
  step of a call. The two loops over the headers, one that sizes the arena and
  one that fills it, agree by induction, as do the loops that lay out and read
  back brokers and partitions (`FlattenLays`); a text is cut where a character
  starts since the three steps back from the limit cannot all be continuation bytes. Assumptions
  on the data, all from its types: a Go string is a sequence of bytes, valid
  UTF-8 where the code takes it from a Rust `String` or a topic; the error buffer
  has room for a character.
* `MetricsProofs`, on the endpoint: type correctness, `EndpointClosedAfterDrop`,
  `AtMostOneLateAnswer`. `HoldersInv` says who holds the server in each state of
  the owner; `LateInv`, that a late answer sends the thread back to the flag.
  `Metrics` implements `Exporter` (`ImplementsEndpoint`), so the
  two promises hold with builds, rollbacks, sinks and scrapes around the
  endpoint (`EndpointPromises`). The step that needs an invariant is a build in
  registry mode, which opens nothing (`RegistryInv`): to the endpoint it is a
  start that failed.
* `MetricsProofs`, on what is counted: `TotalsAddUp`, `CountersNeverFall` and
  `NextScrapeHasTheMessages`, for any number of goroutines, packets, partitions
  and scrapes. What one sink call adds is shown to be what its packet is worth
  (`MessageAmounts`, `BandwidthAmounts`). Between the calls stands a ledger
  (`LedgerInv`): how many updates of each packet are made, which goroutine is at
  which packet, and each counter the sum of what was made, modulo 2^64; the
  witnesses (`Places`, `Sums`) move with each report and each update. A counter
  that wraps does fall, so the two properties of scrapes are proved while no
  total reaches 2^64 (`NoWrap`, of every reachable state of the run). Then
  the registry only grows (`RegistryGrows`), a call has counted its message before
  its conditions (`CountedFirst`), and `ScrapeInv` ties what the last and the
  current exposition show to the registry. Assumptions: a message
  was read after 1970, and a bandwidth figure is an int64, hence below 2^64.
* `EngineBuildProofs`: `RunningEngineAgrees` and `NothingStaleLinked`. The
  handshake compares two numbers, and that these stand for the prototypes is shown
  of the whole chain: a tested tree has matching copies and a matching lock
  (`TestedInv`), so has every release (`ReleasesInv`); one version is one
  signature among the releases, and the lock is never behind them (`GuardedInv`).
  That is lost exactly when a tree is released that had not passed `make test`,
  or a lock is made where there is nothing to compare with. For the linked
  engine, `HostInv` says what cargo's record and the binary hold of the
  directory they were made from. Assumptions: the environments are those
  `build.rs` tells apart, and no directory is called "unset".

The theorem library's induction scheme takes an operator, which these provers
cannot instantiate. Where a proof needs induction it uses a lemma on sets: a set
of naturals with 0 and the successor of each element is `Nat` (`Induction`, from
the well-foundedness of `<`). That a recursively defined function exists
is shown the same way before its equation is used (`SumSteps`, `FlattenExists`).

Every safety property a passing run checks is thus stated by a theorem. Only
model-checked: liveness (the prover has none under fairness), and with it the
liveness half of the refinement of `AtLeastOnce`.

## Findings

1. `late_stop` (`bridge/main.go:453`): `llingr_run` opens the gate
   unconditionally, so after an emergency exit that came first a later `stop()`
   drives Shutdown. A comment of the bridge's tests says a late stop adds nothing.
2. `build_retry` (`src/engine.rs:412`): the rollback of a failed build leaves the
   callbacks registered, so a retry without metrics collects bandwidth
   telemetry. The code says it is collected only when metrics are configured.
3. `wrap` (`bridge/adapters.go:129`): milliseconds are multiplied before they are
   range-checked; the product may wrap into the permitted range. The comment in
   `adapter_franz.go:178` says a value never silently changes meaning.
4. `abi_lock` (`abi-check/build.rs:78`): the signature in `abi.lock` has no field
   of a struct, so a struct that changes in both copies passes under the version
   it had, and the handshake accepts an engine with another layout. The comment
   at line 197 says the lock proves the version moved whenever the declarations did.

Seen while modelling, without a run of their own:

* `docs/processing.md:80` and `:118` say a keyless record's `key()` is `None`; both
  trampolines always build the message with `Some(key)`, and the adapter gives a
  keyless record its partition number. `HandlerSeesRecord` states the key as it
  is.
* A `stop()` that crossed the gate before an emergency exit was elected returns
  from Shutdown and releases `run()` with its backstop (`bridge/main.go:543`), while
  the emergency's handler may still be running. The comment at
  `bridge/main.go:948` and `docs/operations.md:170` say `run()` returns last.
  `RunReturnIsLast` excepts just this.
* The SAFETY note of `handlers()` (`src/engine.rs:119`) rests on no goroutine
  calling back before its build has succeeded; `bridge/main.go:354` allows for
  goroutines of a partial build. Such a goroutine may hold a set the rollback
  frees (`early` in `Publication`).
* Of two spellings of one setting the same one always wins, since keys are taken
  in sorted order: `fetch.wait.max.ms` over `fetch.max.wait.ms`, and
  `sasl.mechanisms` over `sasl.mechanism`. So a typed fetch wait gives way to a
  string pair under the other name, whichever was given last, though
  `kafka_option` says the last write wins.
* With certificate verification off, the value of
  `ssl.endpoint.identification.algorithm` is neither validated nor used
  (`franz_security.go:275`).
* A setting the engine refuses is reported as a bad option after the credential
  was fetched and the adapter has dialled: the engine checks it in `Build`, and
  `llingr_init` recovers its panic (`bridge/main.go:351`).
* When the endpoint's drop returns the address may still be bound for a moment:
  tiny_http's accept thread owns the listener and is not joined. A retry of the
  build that is quicker fails to bind.
* An error of the HTTP server ends the scrape endpoint's thread for good and
  silently (`src/metrics.rs:897`).
* `TextCutAtRune` is about UTF-8 texts. For `llingr_init`'s the comment at
  `src/engine.rs:443` says there is no such guarantee; it is then decoded lossily.
* The sinks take a time of 0 for one that is not set (`src/metrics.rs:507`,
  `:746`). Go's zero time does not arrive as 0: its `UnixNano` is far below. For
  the queue wait the sign check that follows makes up for it; the collection
  timestamp of such a packet would be set to it.
* `UPDATE_ABI_LOCK=1` writes the lock unconditionally, over one of the same version
  and another contract too, and `abi.lock` is not in the repository, so that a
  fresh clone begins without one. No workflow runs `make test` or `abi-check`
  before a release. `RunningEngineAgrees` excludes just these three (`unguarded`).
* cargo is not told of a `libllingr.a` that was overwritten in LLINGR_LIB_DIR
  (`overwritten` in `EngineBuild`), of `go.mod` or of
  another Go toolchain on the PATH; `abi-check` takes the first header it finds
  under `dist/`.
* `json_escape_into` escapes NUL, so the refusal of "an interior NUL byte"
  (`src/engine.rs:314`) cannot be reached.
* A zero Duration is the default for a demux setting, is refused for the bandwidth
  intervals and most client options, and turns the poll-error bail and backoff
  off. A second `.demux()` replaces the first whole; a second `.options()` is
  layered over it.

## Not modelled

* The engine and franz-go: not in this repository. Their actions are marked
  external and allow what the bridge and its tests allow.
* JSON syntax beyond the escaping of strings; the document is a record whose
  parts are well formed or not.
* The text of log lines, help texts and error messages, histogram buckets, the
  `Debug` output of configurations, linker flags.
* The syntax of `sasl.oauthbearer.extensions`: its pairs are well formed or not,
  and a typed extension's text is one without a comma.
* The fields of a snapshot one by one: serde derives their reading.
* Tests, examples, Dockerfiles and documentation.

## Plan

Done: lifecycle, publication, message path with its abstract specification,
boundary and notices, token cache, client options, security, document and franz
options, exporter and metrics, engine build; proofs of the safety properties of all
of them.

What could follow:

1. Eager fetch (`bridge/gcp_iam.go`, `aws_iam.go`): the timeout racing the fetch
   goroutine's late answer, now one external step of `FranzSecurity`.
2. Composition of `Publication` with `Lifecycle` (callbacks of an engine whose
   build just ended).
3. An abstract specification of the lifecycle (a run that is stopped once) and
   the proof that `Lifecycle` implements it.
