# A TLA+ verification project for tldr's resident daemon

tldr is a code-analysis engine. Its CLI and MCP server are thin clients of one
resident daemon per project (`src/crates/tldr-cli/src/commands/daemon/`), which
keeps a transactional artifact database (`src/crates/tldr-core/src/artifact_store/`)
and the indexes derived from it up to date while editors change the files. The
analyses themselves are deterministic functions of source text; what is hard to get
right and hard to test is the machinery that ingests, publishes, resumes, caches and
refreshes, and that is what most of these modules specify. Of the analyses, the SSA
and data-flow algorithms, which are easy to get wrong on the graphs nobody drew a test
for, are specified and compared with what paths say.

1. [The system](#1-the-system)
2. [The modules](#2-the-modules)
3. [The runs](#3-the-runs)
4. [Where the code departs from what it says](#4-where-the-code-departs-from-what-it-says)
5. [The proofs](#5-the-proofs)
6. [Fairness, bounds and abstractions](#6-fairness-bounds-and-abstractions)
7. [Not modelled, and the plan](#7-not-modelled-and-the-plan)

Paths below are relative to `src/crates/`; `daemon/` stands for
`tldr-cli/src/commands/daemon/` and `artifact_store/` for
`tldr-core/src/artifact_store/`.

## 1. The system

### Components

| Component | Source | State | Operations | What must be right |
|---|---|---|---|---|
| Artifact store | `artifact_store/redb.rs`, `types.rs` | redb tables: metadata, generations, artifacts, generation-artifact links, jobs | `commit_batch`, `publish`, `commit_optional`, `set_vector_generation`, each one durable transaction | a generation appears whole and is immutable; checkpoints move one step at a time |
| Ingestion engine | `artifact_store/ingestion.rs` | locals of one ingestion; checkpoints in the store | plan, parse, commit a batch, compose the call graph, publish, mark | a full, incremental, resumed or repeated ingestion publishes what a build from nothing would |
| Resident snapshot | `artifact_store/projections.rs` | decoded generation | `load`, `refresh_files`, read-only queries | what is resident is one published generation |
| Artifact manager | `daemon/artifact_manager.rs` | state (`Cold`, `Building`, `Ready`, `Failed`), hot snapshot, writer mutex | `open`, `warm`, `apply_delta`, `cfg`, `dfg`, `attach_vector_generation` | ready means resident and complete |
| Function artifacts | `artifact_store/function_artifacts.rs` | map of flights (one mutex a key) | `materialize` | one builder a key, nothing built twice, no waiter left behind, the record is of its revision |
| Lexical search index | `daemon/search_index_manager.rs` | BM25 index per language, tagged with a generation | `refresh`, `refresh_paths`, `invalidate`, `index` | the index under generation g is g's; it settles at the newest one |
| Batches, warm builds, rebuilds | `daemon/daemon.rs` | `WarmBuildState`, dirty set | `process_dirty_files`, `start_warm_build`, `WarmJob::run`, `schedule_full_rebuild` | no change is lost; one warm build; a requested rebuild happens |
| Filesystem watcher | `daemon/watcher.rs` | bounded channel, debouncer, overflow flag | debounce, cap bursts, hand flushes over one after the other | every change reaches a batch or a rebuild |
| Hot response cache | `daemon/hot_cache.rs` | responses, reverse index by input | get, insert, invalidate by input | no response outlives the input it was computed from |
| Presence and idle shutdown | `daemon/activity.rs`, `poke.rs`, the loop of `daemon.rs` | busy count, a clock for each source of presence | `touch`, `begin`, the drop of a guard, `is_idle` | no shutdown during or right after work; a dormant daemon does leave |
| Single instance | `daemon/pid.rs`, `daemon_registry.rs`, `stop.rs`, `start.rs`, `ipc.rs` | PID file and its lock, socket, registry file | start, stop, prune, exit | one daemon a project; a dead one never blocks the next; a living one stays reachable |
| Semantic index manager | `daemon/index_manager.rs` | resident vector store | warm, `apply_delta`, invalidate | the vectors that answer are those of the artifact generation |
| Semantic generations | `tldr-core/src/semantic/generation.rs`, `redb_store.rs`, `vector_store.rs` | ledger in redb, artifact files, CURRENT mirror | stage, put, write, activate, load, adopt | crashes leave a complete active generation and one to roll back to |
| Bulk embedding worker | `daemon/bulk_worker.rs`, `bin/tldr_embed_worker.rs` | child process, job rows | spawn, reap, check, publish, retry | a completed job was published; retries end |
| Graph snapshot | `artifact_store/graph_snapshot.rs` | none: pure | `build`, `reverse_bfs`, `strongly_connected_components`, `impact_report` | agree with their definitions |
| SSA and data flow | `tldr-core/src/ssa/`, `dfg/reaching.rs` | none: pure | dominator tree, frontiers, live variables, reaching definitions, phi placement, renaming | agree with the paths of the graph; the SSA form reads what the source reads |
| Hybrid search | `tldr-core/src/search/` | none: pure | BM25, rank fusion | outside this project |
| Session context, managed service, the other language analyses, CLI, MCP | see `PROJECT.json` | prompts, launchd, none | | outside this project |

`PROJECT.json` lists each of them with its status and, under `hazards`, every place
that is hard to test with the line where it bites and the properties that cover it.

### How they interact

    editor --save--> files --notify--> watcher --flush--> process_dirty_files
                       |                                      |  per file
    client --Notify----|-------------------------------> apply_delta ---+
    client --Warm------|---> start_warm_build ---> warm -> scan --------+
    watcher --burst----|---> schedule_full_rebuild --^                  | writer mutex
                       v                                                v
                  hash, parse --------------------------------> ingestion engine
                                                                        | transactions
       SearchIndexManager, IndexManager <--- snapshot --- manager <-- ArtifactStore
                              ^   |                           ^  ^
                  embed worker|   +--attach_vector_generation-+  |
                  (process) --+ vector generations               |
    client --query--> HotResponseCache (flushes invalidate)      |
    client --cfg/dfg--> coordinator (flights) --commit_optional--+

* The writer mutex of the artifact manager serialises ingestions. Nothing serialises
  what follows one: each task pins the resident snapshot and refreshes the search
  index on its own.
* `schedule_full_rebuild` and a running warm build meet in `WarmBuildState` (two
  flags under one mutex).
* A batch and a warm build each end with a join: the vectors they made are attached to
  the artifact generation they pinned, unless another one is active by then.
* The watcher's callback, collector and executor are three threads with two bounded
  channels and a flag between them. A flush invalidates hot responses while queries
  compute and insert theirs.
* The run loop reads the count of busy guards and the ages of presence, which every
  other task changes.
* Processes of one project meet in three files: the PID file, the socket, the registry.
* The store is shared with demand-driven function records, which join the generation
  that is active when they are committed.

### What makes it hard

A file is read twice, once to be hashed and once to be parsed. A daemon can be killed
between any two transactions, and a job resumed. A call can fail before or after the
publication. Batches, warm builds, rebuilds and notifications overlap, and state is
read under one lock and written under another. Flights are shared through an `Arc`
whose strong count decides who removes them. Requests for a rebuild meet a build that
is about to finish. Vectors are built for minutes by another process and may be of a
project that has moved on. Starts, stops and kills of several daemons interleave on
paths that are unlinked and created again.

## 2. The modules

    ArtifactStore                 VectorGenerations          HotCache    WatchPipeline
      ^            ^                    ^                        ^           ^
    ArtifactIngestion  FunctionArtifacts  SemanticIndex          HotResponses
      | implements
    GenerationPublication (abstract)    GenerationRefresh    SingleInstance
    Dominators <- DataFlow <- SsaConstruction    IdleShutdown    GraphSnapshot

An arrow, up or to the left, is EXTENDS: the module at its foot is built from the
operators of the other.
`HotResponses` composes two: each of its steps is a step of the watcher with the
responses unchanged, or of the responses, or both where the code does both.

| Module | Models | Checked through | Proofs |
|---|---|---|---|
| `ArtifactStore` | the tables; `commit_batch`, `publish`, `commit_optional` as guarded transactions | the two modules below | |
| `ArtifactIngestion` | the engine, the resident snapshot and the manager that runs one ingestion at a time, with edits, failures and crashes | `MCArtifactIngestion` | `ArtifactIngestion_proofs` |
| `GenerationPublication` | what readers are promised: immutable generations published whole, the resident one is one of them | as a property of `ArtifactIngestion` | |
| `FunctionArtifacts` | single-flight construction of function records by request threads | `MCFunctionArtifacts` | `FunctionArtifacts_proofs` |
| `GenerationRefresh` | the daemon's tasks over the manager and the search index | `MCGenerationRefresh` | `GenerationRefresh_proofs` |
| `VectorGenerations` | the durable steps of a vector publication on two media, and what loading answers (operators) | the next module | |
| `SemanticIndex` | batches, warm builds, the embedding worker and the joins to artifact generations | `MCSemanticIndex` | `SemanticIndex_proofs` |
| `WatchPipeline` | callback, channel, collector, flush queue, executor | `MCHotResponses` | `HotResponses_proofs` |
| `HotCache` | the two maps of the response cache, one access each (operators) | the next module | |
| `HotResponses` | queries, evictions and invalidations over the watcher | `MCHotResponses` | `HotResponses_proofs` |
| `SingleInstance` | start, stop, exit, kill and the pruning reads of several processes | `MCSingleInstance` | `SingleInstance_proofs` |
| `IdleShutdown` | presence, busy guards and the run loop's decision to leave | `MCIdleShutdown` | `IdleShutdown_proofs` |
| `GraphSnapshot` | the resident call graph and its queries, as they work, against what they mean | `MCGraphSnapshot` | `GraphSnapshot_proofs` |
| `Dominators` | the Lengauer-Tarjan forest, the tree, the frontiers and their closure (operators) | `SsaConstruction` | |
| `DataFlow` | live variables and reaching definitions (operators) | `SsaConstruction` | |
| `SsaConstruction` | phi placement, renaming, phi sources; the source and its SSA form run side by side | `MCSsaConstruction` | |

`PROJECT.json` maps every definition to its lines.

### ArtifactStore and ArtifactIngestion

A redb transaction is one action, because the store opens each write with immediate
durability. `active`, `previous`, `generations`, `artifacts`, `links` and `jobs` are
the tables; `graphs` holds the call-graph records, which share a table with the others
in the code and have a key of another kind. `CheckpointAccepted`, `PublishAccepted`
and `OptionalAccepted` are the conditions under which the code does not return an
error.

`LoadFails` is a late failure, as `CallFails` after the publication is: `LateFailures`
switches both. A failure of any kind is only logged by the warm build that meets it
(`daemon.rs:305`); whoever submits the next warm or delta begins again.

`pc` and `run` are the position and the locals of the ingestion that holds the writer
mutex:

| Action | Code |
|---|---|
| `Open` | `ArtifactManager::open`, loads the active generation if there is one |
| `Begin(scope)` | `ingest` takes the mutex; `ingest_with_batch_limit` hashes the scope, selects, finds removed files, looks for a checkpoint |
| `Parse` | reads and parses the files the checkpoint does not skip; recovers committed records |
| `CommitBatch` | one batch with its checkpoint |
| `CommitGraph` | composes the call graph from every facts key and commits it, stage validation |
| `PublishGeneration` | the publish transaction |
| `MarkPublished` | the last checkpoint of the job |
| `Adopt`, `RefuseRefresh`, `LoadFails` | back in the manager: `load` or `refresh_files`, swap, `Ready`; the mismatch error; or another error of the two, which leaves the manager building |
| `ParseFails`, `CallFails` | the engine returns an error, the manager says `Failed` |
| `Crash` | the process is gone; memory is lost, transactions stay |
| `Edit` | an editor |

`run.keys` is the manifest's list and `run.facts` the map a reader makes of it. They
differ when two facts keys of one file stand in a manifest, which the code allows and
some findings need.

### FunctionArtifacts

Each thread goes through `lookup`, `join`, `wait`, `recheck`, `build`, `generation`,
`commit`, `cleanup`, `drop`: one label between any two points where `materialize`
holds no lock or enters another critical section. A flight is a number; `FreshFlight`
is `Arc::new`; `StrongCount` counts the threads that hold it and the map. `Cleanup`
and `Drop` are two steps because the clone is dropped after the map is unlocked.
`PublishDelta` is a whole ingestion of `ArtifactIngestion`, seen as its publication.
`Init` is a warmed project, since requests need pinned facts.

### GenerationRefresh

Tasks: the executor that drains watcher flushes one after the other, one task for each
`Notify`, the detached warm builds. `Delta` and `Scan` are ingestions, one step each
(the writer mutex makes them so for the other tasks); `Pin`, `ReadBase`, `WritePaths`
and `WriteIndex` are the separate lock acquisitions of the refreshes;
`RequestRebuild`, `InvalidateSearch` and `StartRebuild` are the three calls of
`schedule_full_rebuild`; `Finish` and `Panic` are `finish_iteration` and the drop
guard, which `MaxPanics` counts apart from failed ingestions. `stale` is a history
variable, the files whose last ingestion failed or was lost with a panic. The first
index is that of the resident snapshot, as `TLDRDaemon::new` makes it before the
startup warm. `AnswersExact` and `SettlesFresh` are only checked with `Overlap = FALSE`,
which the code does not enforce: they say that the carry-over of the languages that no
changed file has is right, and nothing of what overlapping tasks do to it.

### VectorGenerations and SemanticIndex

A vector generation is a row of the ledger with its vectors, and artifact files that
end with a manifest. `Stage`, `PutVectors`, `WriteArtifact`, `Activate` and `Mirror`
are the steps of `GenerationManager::publish` in its order; a crash may fall between
any two. `Load` adopts or rebuilds artifact files as the code does.

`SemanticIndex` has three kinds of actor: batches (`StartBatch`, `Delta`, `PinBatch`,
`Plan`, `Apply`, `JoinBatch`, `Drop`), the warm build (`Scan`, `PinBuild`, `Reap`,
`LoadResident`, `JoinBuild`, `DropBuild`, `Finish`) and the worker process
(`WorkerOpen`, `WorkerStart`, `WorkerCheck`, `Publish`, `WorkerComplete`). `jobs` is
`worker-jobs.redb`; its `starts` is a history variable. `Plan` and `Apply` are two
steps because the chunks are planned before the store is locked. `worker.taken` is the
digest that the worker takes once, before it looks at the ledger, and compares again
after an adoption (`store_search.rs:178`). `Attached` is
`attach_vector_generation`, which refuses when the pinned generation is not active any
more; every ingestion resets the attachment. `Kill` ends the daemon with its worker at
any point, `LoseArtifact` takes the files of a generation away.

Four constants name things the code allows and that break `ResidentFresh` or
`AttemptsFinite`: `Reverts` (an edit brings back contents that vectors were asked for
before), `Restamps` (a digest of the files as they are is stamped on chunks of other
contents: a save falls between the reading of the chunks and the digest, or the chunks
are of the one-file generation that a delta publishes on an empty store, or of an older
one because the scan failed), `OpensCollide` (two batches open the ledger at once and one
is refused), `RowsTear` (a worker ends between removing its row and writing it anew).

### WatchPipeline, HotCache and HotResponses

The collector is at `check` (reads the flag), `drain`, `wait` or `send`. `Report` is
the callback's `try_send`; a refusal and the store of the flag are two steps
(`callback = "full"` and `MarkOverflow`), since the collector runs in another thread.
`Accept` counts files and events against the caps, `FlushDue` is the end of the
window, `Send` waits for room in the queue, `Execute` and `Executed` are the two ends
of `dispatch_flush`. `owed` is a history variable: what was saved and no flush that
began later has covered.

A query in `HotResponses` goes from `Miss` through `Compute` and `MakeRoom`,
`DropVictim`, `UnlinkVictim`, `Link` and `Put`, one map access each; an invalidation
through `TakeInput`, `DropTaken` and `UnlinkTaken`. `Link`, `UnlinkVictim` and
`UnlinkTaken` are taken once for each input of the entry, in any order. An entry's value
is the set of sources saved since it was computed, so that a fresh one is the empty set.

`SlowCallback = FALSE` says that no debounce window ends while a callback is between
its refused `try_send` and the store of the flag, two adjacent instructions.

### SingleInstance

PID files are numbered as they are created, since a lock is on a file and not on its
path. A start is `Start`, `Check`, `Open`, `Lock`, `Write`, `Look`, `Probe`, `Reap`,
`Bind`, `Register`; an end is `Leave` or `Fail`, `Clean`, `Unregister`, `Unlink`, `End`;
a stop is `Snapshot`, `ProbeDaemon`, `Send`, `Wait` and the clean-up it planned
(`CheckPid`, `UnlinkStale`, `CleanSocket`, `RemoveEntry`). `Kill` is possible anywhere
and leaves the files. `Client` is any command that reads, and so prunes, the registry. A
pruning read writes the whole registry back as it read it when it drops anybody's entry,
another project's too: `Pruned` is what that leaves of this project's entry, without it
if its daemon is dead, and else what the file has or what was read. `StopsOverlap` and
`EndsOverlap` say whether a start may overlap a stop command or the end of another
daemon.

### IdleShutdown

A time stamp is its age in ticks. `End` and `Touch` are the two halves of the drop of a
guard, `count` and `ages` the two reads of `is_idle`. Work that somebody asked for is
`due` until it begins, at most `Delay` ticks after the presence (or the end of the work
it queues behind): the debounce window and the queue, against a timeout of half an hour.
An event (`EventKind`) is one of the daemon's own files or a mere read (`own`), a change
of a file outside the corpus, of a corpus file or of an ignore policy, or a read of an
ignore policy. An accepted path is always a presence (`watch_decision` calls
`presence_decision`); an event of any kind that names a policy file is a presence and
asks for a rebuild before either decision is asked (`ReloadForPaths`,
`watcher.rs:218-222`). `DormantLeaves` names reads of policy files as the one exception
to what the comment of `presence_decision` promises; section 4 has the property without
it. `PreemptedDrops = FALSE` says that neither the clock nor the loop runs between the
two stores of a drop; that the two reads fall within one tick is built into `Tick`. A
query in flight holds no guard in the code, so the model gives it none.

### GraphSnapshot

`Csr`, `ReverseBfs`, `Components` (Tarjan) and `CallerTree` follow the code's control:
rows appended to one list, a queue with marks set on entry, low links and one stack,
recursion that stops at the depth or at a caller on its own path. The properties
compare them with definitions that do none of this: relations, distances, mutual
reachability, simple paths. Loops and recursion are recursive functions: of the rows or
callers passed, of the rounds of the queue, of the depth that remains, of the state of
Tarjan's visit. `ReverseBfs` takes as many rounds as there are nodes, and a round of an
empty queue does nothing; the proof shows that the queue is empty by then, so that this
is the code's `while let`. A tree is the set of its branches, which are the paths of its
nodes with their notes; the order of siblings is that of the row.

### Dominators, DataFlow and SsaConstruction

The algorithms are operators in the order of the code: `Dfs` numbers, `Semidominate`,
`Settle` and `Finalize` are the three phases of Lengauer and Tarjan over a forest that
`Shorten` compresses as it is asked; `WalkUp` and `JoinPoint` are the frontier walks
with the step limit they share; `LiveRounds` and `ReachRounds` go round the blocks in
the code's order until nothing changes or the limit of rounds is met;
`RenameVariables` goes down the tree with the stacks of versions.

A program is a graph, the lines of its blocks and the references to variables, which is
what the functions of the code take. `LineToBlock` and `DefToBlock` are two: where the
blocks overlap in lines, live variables and renaming give a line to the last block that
covers it, reaching definitions to the largest.

Once `Analyse` has run them all, `DominatorsExact`, `FrontierExact`, `LiveExact` and
`ReachingExact` compare the results with statements about paths. `Start` and `Follow`
then walk the program's control flow in any direction it can take, and execute the
source and the SSA form side by side: `value` says which definition each variable
holds, `named` which one each SSA name holds, phi functions being taken along the edge.
`SsaFaithful` says that every instruction reads the same through both.

## 3. The runs

### Runs that pass

| Run | Question | Bounds |
|---|---|---|
| `ingest_quiet` | Do full and delta ingestions, interrupted anywhere and resumed, publish exactly the scanned contents (`SourceExact`), with the graph of those contents (`GraphsMatchGenerations`), and implement `GenerationPublication`? Does a killed daemon come back to a ready generation, by the one warm that it queues as it starts, unless a further fault hits that (`RecoversFromKill`)? | 2 files in batches of 1, 2 contents, 3 generations, 2 edits, 1 fault; edits only between ingestions, no failure after publication; fair |
| `ingest_hostile` | Does the store ever refuse what the engine asks for (`NeverRefused`)? Is `Ready` only said of the active generation (`HotIsActive`)? Do edits alone make an ingestion lose a file (`EditsLoseNothing`)? | 3 files in batches of 2, so that the last batch can be partial; 3 generations, 1 edit at any moment, 1 fault, late failures included |
| `functions_flight` | Is there one builder a key (`SingleFlight`), nothing built twice (`BuiltOnce`), and does every request end (`EveryRequestReturns`)? | 2 threads, 1 file, 2 contents, 1 save, 3 generations; fair |
| `refresh_serial` | When refreshes do not overlap, is the index exactly its generation's (`AnswersExact`) and does it settle (`SettlesFresh`)? | 3 files of 2 languages, 2 edits, 1 call, 1 failed ingestion |
| `refresh_overlap` | With everything overlapping, does the resident generation converge to the disk (`HotConverges`), with one warm build at a time (`WarmSingleFlight`), and is a requested rebuild followed by a scan, unless a build panics after the request (`RebuildServed`)? | 1 file, 2 edits, 1 call, 1 failed ingestion, 1 panic; fair |
| `semantic_serving` | After any overlap of a save, a batch, a notification, a warm build and its worker, with one of them failing or the daemon killed, are the resident vectors the artifact generation's (`ResidentFresh`)? Is everything active, attached or kept for a rollback complete (`ActiveComplete`), does the ledger accept every publication (`PublicationAccepted`), was a completed job published (`CompletedIsPublished`), are attempts counted (`AttemptsFinite`)? | 1 file, 2 contents, 1 edit, 1 request, 1 fault, 2 retries; the four conditions of `SemanticIndex` off; symmetry of the contents; 827,971 states |
| `hot_delivery` | Is every save applied once the saves end (`ChangesApplied`), none lost on the way (`NoChangeLost`), and no linked response from before a delta (`ResponsesFresh`)? | 2 files and a policy, 3 events, channel of 2, caps, queue and cache of 1, 2 keys, one with two inputs, 1 query at a time, 2 misses; fair; 1,499,783 states |
| `instance_serial` | Does one daemon serve (`OneServing`) whose socket leads to it (`Reachable`), and is a start refused only for a living one (`RefusedByTheLiving`)? | 3 daemons, 1 stop, 1 client, kills anywhere; no start overlaps a stop or an end; 403,879 states |
| `idle_shutdown` | Does the loop leave no work (`NeverAbandonsWork`), leave only after a quiet timeout (`CountdownRestarts`), and leave at all when nobody comes and no policy file is read (`DormantLeaves`)? | 2 units of work, a timeout of 2 ticks, a delay of 1, presences and events of all kinds without bound; fair; 142,414 states |
| `graph_queries` | Are rows, caller closures, cycles and impact trees what their definitions say (`RowsAreEdges`, `NearestCallers`, `CyclesExact`, `ImpactIsEveryPath`)? | all 512 sets of calls between 3 ends in 2 files; no definition, one end undefined, or one defined twice; depths 0 to 3; 47,092 states |
| `ssa_programs` | Are dominators, the frontiers of other blocks, live variables and reaching definitions what the paths say (`DominatorsExact`, `FrontierExact`, `LiveExact`, `ReachingExact`), and does each SSA form read, on every path, what the source reads (`SsaFaithful`)? | all graphs of 4 blocks with at most 2 exits each; a branch, three loops and a loop with two entries, lines filled in 4 ways, without headers that define and one-block variables that are read first; 2 variables, a parameter; 3 forms; 73,615 states |

`instance_serial` and `ssa_programs` switch deadlock checking off: the processes of the
first run once and the system then stops, and the analysed functions of the second
return. The others check it.

`TypeOK` is a property of `ingest_hostile` and `refresh_serial`, and proved for these
modules, for `FunctionArtifacts`, `SemanticIndex`, `SingleInstance`, `HotResponses` with
the watcher, and `IdleShutdown`. The runs of the others spend their time on other
properties. Each property of these runs has a mutant in
`PROJECT.json`: a plausible bug in the code, written next to the definition it changes,
under which the property fails.

`SourceExact`, `GraphsMatchGenerations` and `ImplementsPublication` are promises under
two stated conditions, the constants `EditsDuringIngest = FALSE` and `LateFailures =
FALSE`. `AnswersExact` and `SettlesFresh` hold under `Overlap = FALSE` and `MaxPanics =
0`. `ResidentFresh`, `CompletedIsPublished`, `AttemptsFinite`, `OneServing`,
`Reachable`, `NoChangeLost` and `CountdownRestarts` hold under the conditions named with
their modules in section 2, and section 5 says which of these each theorem needs.
`RefusedByTheLiving` is checked under those of `instance_serial` and proved without any.
`FrontierExact` leaves open whether a block is in its own frontier, of which the code
and its comment say different things (section 4), and `SsaFaithful` is checked on
programs whose loop headers define nothing and whose one-block variables are not read
before their definition there (`HeaderQuiet` and `LocalsAreLocal` of
`MCSsaConstruction`). The code enforces none of these conditions. The configurations of
the next section drop one condition each and show what happens.

### Why the bounds are enough

Two batches give a job two checkpoints, one before and one after a crash; a third
generation is needed for a delta on top of a delta, for a generation number that is
tried again after an abandoned job, and for a delta over a resident snapshot that a
late failure left behind. Two edits change a file and change it back, which is how a
source revision comes round again. One fault is one interruption, and a kill is one.
That the store refuses nothing after any number of them is a theorem. Two threads are
an owner of a flight and a waiter; the owner, back with another request, is the
newcomer that finds the map changed (`SingleFlight` fails on this instance when the
clean-up does not look at the strong count); any number of threads is a theorem. Two
languages are what `refresh_paths` tells apart, and the second file of one of them is
rebuilt along with its neighbour. Two warm tasks are enough since only one runs, and a
panicked one is replaced. The startup warm is running in the first state, so one call
suffices for a rebuild request to meet a build.

One edit makes the resident vectors, the chunks of a running build and the artifact
generation three different things; one request, beside the startup warm, makes two
builds; one fault and two retries are a failure and the attempt after it. Two files and
caps of one reach every branch of the collector: a burst by files, by events, an
overflow, a policy edit, a full queue. With `Queries = {q1, q2}` and without the
liveness property `hot_delivery` has 13.8 million states and no error either. Three
daemons are one that leaves files behind, one that reads them and one that comes in
between; for any number there are the theorems of section 5. Two units of work are one
that ends while another begins between the two reads of the loop; any number is a
theorem. Three ends give cycles of one, two and three functions, diamonds, chains longer
than a depth, and rows that are empty first, last and in between.

Four blocks give cross and back edges, loops with two entries, self loops, blocks
nothing reaches, and paths long enough to be compressed: a version of `Shorten` that
forgets the labels fails on them. The entry has no predecessors and a block no more than
two exits, as the extractor makes them but for `match`. The fillings of the five shapes
have two definitions that meet at a join, at a header, at a join inside a loop whose phi
function then meets the header's, and one that does not meet at all.

## 4. Where the code departs from what it says

One run expects a violation and is a finding of `PROJECT.json`, with the lines it
contradicts:

| Run | Violates | What TLC finds |
|---|---|---|
| `ingest_resume_loses_file` | `SourceCovered` | A file is saved between its hash and its parse: the committed record has the second revision. The daemon is killed, the file changes back, and the job is resumed: its batch is skipped, and the recovery filter drops the record because its revision is not the hashed one. The published generation lacks the file. |

The others are further configurations, each for the same models and each ending in the
violation of one property (run `tlc -config <name>.cfg MC<module>`):

| Configuration | Violates | What TLC finds |
|---|---|---|
| `ingest_graph_overwritten` | `GraphsMatchGenerations` | The call graph's key is the hashed source revision alone. With a file saved between hash and parse, two generations of one source revision differ, and the second's graph replaces the record the first points to. |
| `ingest_stale_hot` | `ImplementsPublication` | The job's last transaction, or `units.finish()`, fails after the publication: the store is one generation ahead of the resident snapshot. The next delta decodes only its own path over that snapshot, and what is resident is a mixture. |
| `functions_revision` | `BuiltFromItsRevision` | The key comes from pinned facts, the analysis reads the file on the disk: a record of the old revision holds the new contents. |
| `refresh_stale_answers` | `AnswersExact` | `refresh_paths` copies the indexes under one lock and writes under another. A copy taken before the startup warm wrote its index replaces it, under the current generation's number, without the other languages. |
| `refresh_stale_index` | `SettlesFresh` | A warm build that pinned its snapshot before a delta writes its index last: queries get a generation mismatch until the next save. |
| `refresh_late_invalidate` | `SettlesFresh` | `schedule_full_rebuild` requests, then invalidates, then starts. A running build may serve the request in between, the invalidation discards its index, and the start finds a build that is still finishing. |
| `semantic_revert` | `ResidentFresh` | A project goes from contents A to B and back. The job row of A says completed, so the worker answers with the active generation, which is B's, and the join attaches it to A's artifact generation: searches answer from B. |
| `semantic_restamp` | `ResidentFresh` | The digest is taken of the files as they are, the chunks are of the pinned generation. A save in between stamps old vectors with the new digest, and the next build takes them for fresh. With two files no save is needed, and `CompletedIsPublished` fails too: the first scan fails on an empty store, a batch's delta publishes a generation of one file, the build pins that one and stamps its vectors with the whole project's digest; a later build of all files finds the digest equal, adopts those vectors and completes a job that nothing was published for. |
| `semantic_collide` | `ResidentFresh` | Two batches open the vector ledger at once; the one that is refused logs and keeps its vectors, which are old. |
| `semantic_torn` | `AttemptsFinite` | A worker dies between removing its job's row and writing it anew: the count of attempts starts over. |
| `hot_rebuild` | `AnySaveInvalidates` | A burst, an overflow or an edited ignore policy becomes a full rebuild, which invalidates no response. `daemon.rs:2514` says that any save does. |
| `hot_bound` | `StaysBounded` | The size is checked, an entry evicted and the new one put in separate steps. Queries that overlap and choose the same victim leave one entry more than before, each time, and nothing brings the size down again. |
| `instance_stop` | `OneServing` | A stop that cleans up while a daemon starts reads a PID file that is locked and still empty, takes it for stale and removes it, and then the socket. The next daemon locks a new file and both serve. `pid.rs:222` says an empty file is not stale, and `pid.rs:244` that the clean-up is safe while the daemon runs. |

The rest need no file of their own: take the configuration of a run, change it as said
and ask for the one property.

| Run | Change | Violates | What TLC finds |
|---|---|---|---|
| `refresh_serial` | `MaxPanics = 1` | `AnswersExact` | The startup warm of an empty store panics before it has written an index. The next notification's refresh starts from the empty one, fills in its own language and numbers it as the new generation, which has files of the other language as well. |
| `hot_delivery` | `SlowCallback = TRUE` | `NoChangeLost` | The flag is stored after the collector went to sleep, and stays unseen until the next event. |
| `hot_delivery` | none | `StaysLinked` | An invalidation between `Link` and `Put` takes the link; the entry then has none, and no later save drops it. |
| `instance_serial` | `EndsOverlap = TRUE` | `OneServing` | The PID file is unlinked before its lock is released: one daemon has opened the old file, another creates a new one, and both hold a lock. |
| `instance_serial` | `StopsOverlap = TRUE` | `Reachable` | A stop reads the PID file of a daemon that has not bound its socket yet, finds nobody to ask, and cleans up: it removes the socket, which by then is that daemon's. |
| `instance_serial` | none | `Registered` | A pruning read, of this project or another, rewrites the registry from what it read before an entry was added. |
| `graph_queries` | none | `ImpactKeepsAmbiguity` | Two functions of one file and name are two candidates but one key `file:name`: the later definition replaces the earlier one in the report, and it is the earlier one that all calls lead to. `graph_snapshot.rs` says of the lookup that "Ambiguity is preserved". |
| `idle_shutdown` | `PreemptedDrops = TRUE` | `CountdownRestarts` | The loop reads a count of zero and the stale ages between the two stores of a drop, and the daemon leaves right after a long build, which is what `Source::Internal` is there to prevent. |
| `idle_shutdown` | none | `ReadsKeepNobodyAlive` | An event of any kind that names `.gitignore`, `.ignore` or `.tldrignore` is presence and queues a rebuild (`watcher.rs:218-222`), before `presence_decision` is asked, which `watcher.rs:313-322` says keeps the daemon's own reads from making it immortal. The rebuild reads the policies again. Where the platform reports reads, the daemon of a project nobody works in stays. |
| `ssa_programs` | none | `FrontierAsDocumented` | `dominators.rs:482` defines the frontier of b as the blocks y of which b dominates a predecessor without strictly dominating y. A loop header is such a block for itself; the walk stops at `runner == join_point` before it adds it. |
| `ssa_programs` | `Programs <- LocalLoops` | `SsaFaithful` | What follows from it: a loop whose header updates a variable gets no phi function there, in any form, and the header reads the value from before the loop on every round. |
| `ssa_programs` | `Programs <- QuietLoops` | `SsaFaithful` | A variable that one block of a loop alone refers to counts as local (`construct.rs:418`), although its value comes round the loop: the semi-pruned form has no phi function for it. |

Most of these need an edit, a failure or a task in a small window. In
`refresh_late_invalidate` the published generations are right throughout:
`refresh_overlap` shows that they converge whatever the order, and only the lexical
index is left behind. `hot_rebuild`, the ambiguity of the graph and those of the SSA
forms need no race at all.

The models also allow `apply_delta` on a store that has no generation: it publishes a
generation of one file, after which the manager says `Ready`, though `ArtifactState`
describes `Ready` as a complete generation. The startup warm, or the next one, repairs
it. It is listed as a hazard.

## 5. The proofs

TLAPS checks these for every value of the constants that satisfies the named
assumptions (`FilesAssumption`, `BoundsAssumption`, `SentinelsAssumption`,
`ThreadsAssumption`, `RefreshAssumption`, `SemanticAssumption`, `PipelineAssumption`,
`ResponsesAssumption`, `InputsAssumption`, `InstanceAssumption`, `IdleAssumption`; TLC
evaluates all of them in the runs, and `GraphAssumption` too). They say that sets are
finite where they are counted, that bounds are numbers, and that a sentinel is none of
the values it stands apart from. `InputsAssumption` is about the code: a response that
reads a file registers it, or the whole project, as the handlers of `daemon.rs` do. A
condition in the table is the value of one of the constants of section 2; the runs of
the same properties have it too, and section 4 shows what happens without it.

| Theorem | Says | Condition |
|---|---|---|
| `ArtifactIngestion_proofs!TypeCorrect` | `Spec => []TypeOK` | |
| `ArtifactIngestion_proofs!ReadyIsResident` | `Spec => []HotIsActive` | |
| `ArtifactIngestion_proofs!StoreNeverRefuses` | `Spec => []NeverRefused` | |
| `ArtifactIngestion_proofs!GenerationsAreExact` | `Spec => []SourceExact` | `EditsDuringIngest = FALSE` |
| `ArtifactIngestion_proofs!GraphsAreOfTheirFacts` | `Spec => []GraphsMatchGenerations` | `EditsDuringIngest = FALSE` |
| `ArtifactIngestion_proofs!EditsLoseNoFile` | `Spec => []EditsLoseNothing` | |
| `ArtifactIngestion_proofs!PublicationImplemented` | `Spec => ImplementsPublication` | `EditsDuringIngest = FALSE`, `LateFailures = FALSE` |
| `FunctionArtifacts_proofs!TypeCorrect` | `Spec => []TypeOK` | |
| `FunctionArtifacts_proofs!OneFlightAKey` | `Spec => []SingleFlight` | |
| `FunctionArtifacts_proofs!NothingBuiltTwice` | `Spec => []BuiltOnce` | |
| `GenerationRefresh_proofs!TypeCorrect` | `Spec => []TypeOK` | |
| `GenerationRefresh_proofs!OneWarmBuild` | `Spec => []WarmSingleFlight` | |
| `GenerationRefresh_proofs!NoChangeLost` | `Spec => []HotConverges` | |
| `GenerationRefresh_proofs!RequestIsKept` | `Spec => []RequestKept`, the safety of `RebuildServed` | |
| `SemanticIndex_proofs!TypesAreKept` | `Spec => []TypeOK` | |
| `SemanticIndex_proofs!PointersAreComplete` | `Spec => []ActiveComplete` | |
| `SemanticIndex_proofs!PublicationsAreAccepted` | `Spec => []PublicationAccepted` | |
| `SemanticIndex_proofs!AttemptsAreFinite` | `Spec => []AttemptsFinite` | `RowsTear = FALSE` |
| `SemanticIndex_proofs!CompletedJobsArePublished` | `Spec => []CompletedIsPublished` | `Restamps = FALSE` |
| `HotResponses_proofs!PipelineTypes` | `PipelineSpec => []PipelineTypeOK` | |
| `HotResponses_proofs!PipelineLosesNothing` | `PipelineSpec => []NoChangeLost` | `SlowCallback = FALSE` |
| `HotResponses_proofs!ResponsesKeepPipeline` | `Spec => Init /\ [][PipelineNext]_pipelineVars`: the composition implements the watcher's safety | |
| `HotResponses_proofs!ResponsesLoseNothing` | `Spec => []NoChangeLost` | `SlowCallback = FALSE` |
| `HotResponses_proofs!LinkedResponsesAreFresh` | `Spec => []ResponsesFresh` | |
| `HotResponses_proofs!ResponseTypes` | `Spec => []TypeOK` | |
| `SingleInstance_proofs!InstanceTypes` | `Spec => []TypeOK` | |
| `SingleInstance_proofs!OneServesAtThePath` | `Spec => []OneAtThePath`: of the daemons that serve, one at most has the PID file at the path | |
| `SingleInstance_proofs!OnlyTheLivingRefuse` | `Spec => RefusedByTheLiving` | |
| `IdleShutdown_proofs!WorkIsNotAbandoned` | `Spec => NeverAbandonsWork` | `PreemptedDrops = FALSE` |
| `IdleShutdown_proofs!WholeTimeoutPasses` | `Spec => CountdownRestarts` | `PreemptedDrops = FALSE` |
| `GraphSnapshot_proofs!RowsHoldTheEdges` | `Spec => []RowsAreEdges` | |
| `GraphSnapshot_proofs!CallersAreNearest` | `Spec => []NearestCallers` | |
| `GraphSnapshot_proofs!TreesAreEveryPath` | `Spec => []ImpactIsEveryPath` | |

**ArtifactIngestion.** `Ingesting` is `TypeOK`, `HotIsActive`, `Control` (the target
is the next generation until the publication and the active one after it; an
ingestion that runs says building, and ready is only said at rest), `Records` (the
keys of every manifest, of every link and of the run have records, and every
manifest has its graph), `Checkpoints` (no job is more than one generation ahead, a
published one is of a published generation, and a job of the next generation has no
more batches behind it than the plan for its revisions has) and `Progress` (the run
selected what that plan selects, has parsed what it has yet to commit, and stands
where its checkpoint stands). `NeverRefused`
is not inductive: that a manifest's keys all have records depends on where every key
of it came from, the predecessor, the recovery or a batch, and that a checkpoint is
accepted depends on the counter never having left the stored one behind. Neither
edits nor failures are restricted in these theorems.

What the published generations hold needs `Exact`, which follows the map that a run
assembles. `Scheduled` says that the plan is still the one for the active manifest and,
without edits during an ingestion, for the disk. `Resumable` says what an interrupted
run leaves: every file behind its checkpoint has the record of its hashed revision
linked to the job's generation, and after no failure there is nothing at all.
`Assembled` says which files the map has at `commit` and `publish`, and `AssembledExact`
that their revisions are the hashed ones: those kept from the predecessor, those behind
the checkpoint, which a resumed run takes from the links, and those it has committed
itself. `History` repeats the properties for all generations; its `Determined` (equal
source revisions are of equal facts) is why a graph record that a later run writes under
the same key is the same record. `EditsLoseNoFile` comes out of the same invariant, in
which every part that files in motion break says so, and with no failure so far a run
has nothing to resume. For the refinement, `Swapped` says that the resident snapshot is
whole and of the active generation, or of the one before between `PublishGeneration`
and `Adopt`; the two are the abstract publication and the abstract swap, `Crash` and
`Open` lose and reload the snapshot, and the other actions are stutters.

**FunctionArtifacts.** `Coordinated` is `Shape`, `Mapped` (a thread that waits for a
flight, or owns it, has the one in the map, which is why the strong count means what
the code takes it to mean), `SingleFlight` and `BuiltOnce`. The step that matters is
`Cleanup`: a count of two says that this thread and the map are the only holders
(lemma `LastHolder`), so removing the entry leaves no thread waiting for a flight that
a newcomer would not find. `Typed` adds to the types that a thread at work has the key of a
function, and that the active manifest has facts of every file; a number for a new
flight exists because there are more numbers than threads (lemma `FreshFlightIsFresh`),
so that `FreshFlight` is never an arbitrary choice.

**GenerationRefresh.** `Refreshing` is `TypeOK`, `OneBuild` (a build is running iff
the flag says so, and there is one) and `Accounted`: for every file outside `stale`
the resident generation has its contents, or its event is still queued, or a batch
has yet to ingest it, or a scan is due. `NoChangeLost` follows because at rest only the
first is left.

`RequestIsKept` is what `RebuildServed` rests on: while no build has panicked, a pending
request has the executor on its way to `try_start`, or a running build whose
`finish_iteration` will see it (lemma `NextKept`). A panic clears the running flag
and leaves the request to the next start, which is why it needs `panics = 0`.

Of the lexical index nothing is proved: what `AnswersExact` and `SettlesFresh` say is
true of tasks that do not overlap, and `refresh_serial` checks that much.

**SemanticIndex.** `Whole` is `Types`, `Batches` and `Builds` (what the locals are at each
label: a build that is at its worker or its load has a cold store), `Generations` (the
numbers of the ledger are those given so far; active, previous and attached are whole;
without a previous one the active is the only complete one) and `Publication` (the
generation being published is not complete before it is activated, and has its records
when it must). Its worker can end and the daemon be killed after every step, and the
adoption of artifact files that lost their row is one of the ways to the ledger. From it
follow, with no condition, that pointers are complete and publications accepted.

`Attempts` compares the starts of a job, which are counted nowhere in the code, with the
retries of its row, by the state of the row; a removed one is the worker's, between
`worker-jobs` transactions, and a worker that dies there takes the count along.

`Certain` is the argument about digests; `Takes` says that a worker at its check or past it has
one. `Stamped` says that a digest that is the one of the files as they are was put on
their contents; with `Asked` (the chunks of a build that has yet to take the digest are
of the disk, and what a worker publishes is what its job is for) an adopted generation
is of the corpus that the job asks for.

`ResidentFresh` is only model-checked. It needs that no contents come back, that no save
falls between chunks and digest, and that no two batches open the ledger at once, and
the code ensures none of these; what is proved above holds whatever the resident store
has become.

**WatchPipeline and HotResponses.** The types need `HasFlush`: a collector that sends
has something to send. `NoChangeLost` is inductive over them when a window does not end
inside a refused callback; the step that matters is the collector's way to sleep, which
the order of `check` and `wait` makes safe. The composition adds queries and
invalidations, none of which touches the watcher's variables, so that its theorems
carry over through `ResponsesKeepPipeline`.

`ResponsesFresh` speaks of rest. Before it, `Fresh` holds of every linked entry and of
every answer that a query has computed and not put yet: what it is too old for was
covered by a full rebuild, is owed by the watcher, or is an input of the flush that is
being applied. An answer that an invalidation passed by is `late`, which the property
leaves out, as `StaysLinked` of section 4 does not. An entry whose key another query
links again while the old value is still there is the one exception, and `AboutToPut`
names it: the put replaces the value. `ResponseTypes` adds `Bounded`: what the flushes
and the queries bring together stays within files, keys and bounds, and the executor has
at most one dropped entry that it has yet to unlink.

**SingleInstance.** No theorem has a condition: starts, ends, stops, kills and pruning
reads overlap in any way, and paths are removed under those who have the file open.
`Instance` is `Types`, `Held`, `Reads`, `Names`, `Meetings` and `Binding`. `Held` is what
no removal of a path can break: whoever is past the lock holds the file it has open, and
a lock that is taken belongs to a daemon that is alive and has that file open. Two
daemons that serve therefore have two files, and the path leads to one at most: that is
`OneServesAtThePath`, and `OneServing` is more than the code ensures (section 4).
`Names` says that the registry, and what anybody read from it, names nobody who has yet
to register; `Meetings` that of two daemons alive the later met the other; and `Binding`
that a daemon that binds finds no socket, or one of a daemon that it met. A start is
refused by a lock (`Held`), by a socket that answers (`Reads`: who listens is alive) or
as it binds, and in each case by a daemon it met. The numbers of PID files suffice
because a new one is needed only when no other daemon has that number open (lemma
`FreshFile`). TLC agrees on two daemons with `StopsOverlap` and `EndsOverlap` both `TRUE`
(`OneAtThePath`, 304,362 states), and on `RequestKept` under `refresh_overlap`.

**IdleShutdown.** `IdleInv` adds to the types that the count is the number of busy
units (`Counted`), that nothing is quiet while work is in flight and not for longer
than `Delay` while some is due (`QuietIsQuiet`), that with nothing in flight some age
is no older than `quiet` (`AgesKnow`), and `AgesProtect`: between the two reads, work in
flight is work whose presence the second read will see. The last one is why the
decision is right although the count was read earlier, and it is lost when the reads
are swapped or a drop is preempted.

**GraphSnapshot.** The state is simple: `Built` says that the facts do not change and
that the graph is theirs. The work is in the operators, which are loops: each is first
shown to exist as a recursive function (lemma `LoopDefined`; a `CHOOSE` of a function
that does not exist could be anything), and then its invariant is carried from one
value of the counter to the next (lemma `UpTo`, which rests on the well-foundedness of
the numbers and so needs no induction over an operator). `Ascending` and `Numbered`
choose a sorted enumeration, which exists for a finite set and an order that compares
its elements (`SortedExists`, by the cardinality of the set).

For the rows, `IsStored` says after k of them that the offsets are the lengths so far and
that what lies between two neighbours is the row (`RowOfCsr`).

For `reverse_bfs`, `InOrder` says of the answer followed by the queue that each node
seen is there once, at a depth that is its distance, in the order of depth, and that no
depth is more than one above that of the last node answered; `Closed` says that the
callers of what was answered above the limit are seen. A caller that is discovered is
not nearer than its depth says, because by `Closed` and the order whatever is nearer is
seen already (`BallSeen`): that is the step that a mark set late, or a stack in place of
the queue, would break. The queue is empty after as many rounds as there are nodes, or
more would have been found than there are (`FoundBounded`, by the pigeonhole principle).

For the caller trees, `Extending` are the ways without a cycle that begin like a given
one. It splits into the way itself and what extends it by one further caller
(`WaysBranch`), as `caller_tree` does, and `TreeHasBranches` follows the depth that
remains. The path that the code pushes to and pops from is the argument of the function.

Only model-checked: the liveness properties (`RecoversFromKill`,
`EveryRequestReturns`, `RebuildServed`, `ChangesApplied`, `DormantLeaves`), which rest
on fairness and are outside the prover's reach; `CyclesExact` of `GraphSnapshot`, whose
recursion is over the state of Tarjan's visit, an induction over data; and the
properties of `SsaConstruction` (`DominatorsExact`, `FrontierExact`, `LiveExact`,
`ReachingExact`, `SsaFaithful`), whose algorithms are recursive operators: the prover
cannot be used on a module that reaches one. So are those that hold only while tasks,
starts or saves do not overlap as the code lets them: `AnswersExact`, `SettlesFresh`,
`ResidentFresh`, `OneServing` and `Reachable`. Every other invariant and action property
that a passing run checks is stated by a theorem.

## 6. Fairness, bounds and abstractions

**Fairness.** `ArtifactIngestion`: the engine is one blocking thread that runs until it
returns, and a started daemon opens the store and queues one warm build
(`daemon.rs:619-627`), hence weak fairness of `Open`, of the engine's steps together and
of `StartupWarm`: the first ingestion of a daemon that found the store empty. No later
one is owed, since a warm that fails is only logged; `RecoversFromKill` therefore says
nothing of a daemon that a further fault hits. `FunctionArtifacts`: weak fairness of
each request's steps, and strong fairness of `Enter`: requests are blocking tasks that
the runtime schedules, and a mutex that is released again and again is assumed to let a
waiter in sometimes. The number of generations, and so of keys, is bounded, but a thread
may take the same flight any number of times. `GenerationRefresh`: weak fairness of
every started task, not of requests, edits or watcher flushes. `WatchPipeline` and
`HotResponses`: weak fairness of the callback's store, of the collector and of the
executor with its invalidations, each one a thread or task that waits only for the
others. `IdleShutdown`: weak fairness of work that is due and of the second half of a
drop, strong fairness of the clock, which the loop's quick steps disable again and again
and which passes all the same, and of the loop, which waits for no drop; work that has
begun may take for ever. `SemanticIndex`, `SingleInstance`, `GraphSnapshot` and
`SsaConstruction` state no fairness: their properties are safety.

**Bounds.** `MaxGeneration`, `MaxEdits`, `MaxFaults`, `MaxPanics`, `MaxCalls`,
`MaxEvents` and `MaxQueries` are guards of the actions that use them up; `IdleShutdown`
needs none, since ages stop one tick past the timeout. `Finished` lets a state in which
every bound is used up stutter, so that deadlock checking stays on.

**Abstractions.**

* A revision is a file's contents: the hash is taken to be injective.
* The five records derived from one parse are committed together and are one key.
* Source revisions, which the code hashes, are the sequences of what was hashed.
* A scope is the project or one file, since that is what the daemon submits
  (`apply_delta` is called file by file).
* A batch's files are ingested in any order in `GenerationRefresh`; the code sorts
  them. The properties hold for every order.
* The `vector_generation` of a manifest is `attached` of `SemanticIndex`, and left out
  of `ArtifactStore`; so are build timings, project identity and the
  reverse-dependency table.
* An ingestion is one step in `GenerationRefresh` and in `SemanticIndex`;
  `ArtifactIngestion` has its steps.
* A corpus, the contents of all files, stands for its chunks and for their vectors; a
  digest is the edit that last wrote each file, for its modification time and size.
* An accepted path is a file; which paths are accepted is a predicate on names. A
  response reads a set of files, and registers inputs as the handlers do.
* Pids are not reused, and a daemon stands for its process, its pid and its socket.
* Files, names and lines of the call graph are numbers for their order; languages are
  left out of its keys; a filter is the set of files whose path ends with it; identifiers
  count from 1.
* The lexical index is, for each file, the revision its documents were made from.
* Blocks are numbered from 1 in the order of the list, the entry first; a value of a
  variable is the definition that gave it. A line has one definition at most: of two on
  one line (`a, b = b, a`) the code resolves the second after it named the first, and a
  `Definition` and a `Use` of one name on one line (`x = x + 1` in Python) count as a
  definition alone for live variables (`analysis.rs:105`) and for the uses on a line
  (`construct.rs:375`).
* `Init` of `GenerationRefresh` is the state in which the startup warm was just
  started, over an empty store or one left by an earlier daemon, whose snapshot the
  lexical index was made of (`daemon.rs:496-499`).

## 7. Not modelled, and the plan

Parts of modelled components that are left out:

* vector generations: choosing an older one by the environment, rollback on request and
  rebuilds forced by metrics are operators' commands over the same ledger; the
  embedding cache only saves time; ONNX inference is data;
* the single instance: `stop --all` is the same stop over several projects; the parent
  of a background start, the legacy active file, daemons with different temporary
  directories and reused pids are outside what one project's three files show;
* the daemon: read-only query handlers, session bookkeeping, statistics and the count of
  dirty files, which none of the modelled state depends on;
* presence: the labels and ages of tokens that only `status` shows; races of two touches
  within one millisecond.

* SSA: value numbering, constant propagation, the language-specific helpers of
  `construct.rs`, which nothing of its three forms calls, and what is reported from
  reaching definitions.

Components that are left out: the other language analyses (tree-sitter extraction, call
graphs, control flow, clones, metrics, security and patterns), which are functions of
source text and appear here as the map from a revision to its facts, and which are most
of the repository; BM25 and rank fusion, which are floating-point scores; session
context, best-effort bookkeeping for prompts; the managed service, which drives
launchd; argument parsing, routing, formatting and MCP.

Next proofs, in this order:

1. `CyclesExact` of `GraphSnapshot`: an invariant of Tarjan's visit over the set of
   nodes not yet visited, by `UpTo` on their number.
2. The frontier walk and one round of the data-flow analyses, once they are recursive
   functions, as those of `GraphSnapshot` are.
3. `ResidentFresh` and the settling of the lexical index, for a version of the code that
   ties both to the generation they were made of.
