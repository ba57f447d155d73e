-------------------------- MODULE GenerationRefresh --------------------------
(***************************************************************************)
(* How the daemon keeps the artifact generation and the resident lexical   *)
(* index up to date (tldr-cli daemon/daemon.rs, search_index_manager.rs,   *)
(* and watcher.rs, drain_batches_serially).                                *)
(*                                                                         *)
(* Three kinds of task refresh them.  The watcher's executor drains one    *)
(* flush after the other: a batch of changed files, or a full rebuild.     *)
(* Every IPC Notify runs a batch of one file in a task of its own.  The    *)
(* warm build is a detached task, kept to one at a time by WarmBuildState. *)
(* They share the ArtifactManager, whose writer mutex serialises the       *)
(* ingestions, and the SearchIndexManager, which has no such mutex.        *)
(*                                                                         *)
(* An ingestion (ArtifactIngestion) is one step here, its publication, and *)
(* the newest generation is the resident one.  A lexical index is, per     *)
(* file, the revision its documents were made from.                        *)
(***************************************************************************)
EXTENDS Naturals, FiniteSets, Sequences

CONSTANTS Files,      \* root-relative paths
          Language,   \* the language of each path
          Revs,       \* the contents a file can have
          Absent,
          Executor,   \* the task that drains the watcher's flushes
          Notifiers,  \* tasks of IPC Notify requests
          Builds,     \* warm build tasks
          Overlap,    \* may a refresh start before another has ended?
          MaxEdits,   \* bound: edits of the disk
          MaxCalls,   \* bound: Notify and Warm requests and full rebuilds
          MaxFaults,  \* bound: failed ingestions
          MaxPanics   \* bound: warm builds that panic

ASSUME RefreshAssumption ==
  /\ IsFiniteSet(Files)
  /\ IsFiniteSet(Builds)
  /\ Overlap \in BOOLEAN
  /\ {MaxEdits, MaxCalls, MaxFaults, MaxPanics} \subseteq Nat
  /\ Executor \notin Notifiers \cup Builds
  /\ Notifiers \cap Builds = {}

VARIABLES disk,       \* the files' contents
          events,     \* files with a change the watcher has not handed over
          published,  \* the facts of each generation; the last one is resident
          search,     \* SearchIndexManager.state; generation 0: None
          warm,       \* WarmBuildState
          pc, task,   \* per task: program counter and locals
          stale,      \* files whose last ingestion failed, or was lost to a panic
          edits, calls, faults, panics

vars == <<disk, events, published, search, warm, pc, task, stale, edits, calls, faults, panics>>

Batchers == {Executor} \cup Notifiers
Tasks == Batchers \cup Builds

Nothing == [f \in Files |-> Absent]
NoIndex == [generation |-> 0, docs |-> Nothing, files |-> {}]
NoTask == [todo |-> {}, changed |-> {}, snapshot |-> 0, base |-> NoIndex]

\* ArtifactManager::snapshot: the newest generation, 0 when there is none.
Resident == Len(published)
FactsOf(g) == IF g = 0 THEN Nothing ELSE published[g]
Present(facts) == {f \in Files : facts[f] # Absent}

Working == {t \in Tasks : pc[t] # "idle"}
MayStart == Overlap \/ Working = {}

Goto(t, label) == pc' = [pc EXCEPT ![t] = label]

-----------------------------------------------------------------------------
(***************************************************************************)
(* The lexical index of a generation, built whole or from a base.          *)
(***************************************************************************)
\* SearchIndexManager::refresh.
Refreshed(g) == [generation |-> g, docs |-> FactsOf(g), files |-> Present(FactsOf(g))]

\* Mutation: the previous generation's path map is not looked at.
RefreshedPathsNewMapOnly(base, g, changed) ==
  LET affected == {Language[f] : f \in changed \cap Present(FactsOf(g))}
  IN  [Refreshed(g) EXCEPT !.docs =
        [f \in Files |-> IF Language[f] \in affected THEN FactsOf(g)[f] ELSE base.docs[f]]]

\* SearchIndexManager::refresh_paths: the languages of the changed paths, which
\* the old map knows when they were deleted and the new one when created.
RefreshedPaths(base, g, changed) ==
  LET known    == base.files \cup Present(FactsOf(g))
      affected == {Language[f] : f \in changed \cap known}
  IN  [Refreshed(g) EXCEPT !.docs =
        [f \in Files |-> IF Language[f] \in affected THEN FactsOf(g)[f] ELSE base.docs[f]]]

-----------------------------------------------------------------------------
(***************************************************************************)
(* The store may hold a generation from before the daemon was stopped, and *)
(* TLDRDaemon::new indexes it; the startup warm is the first task.         *)
(***************************************************************************)
Init ==
  /\ disk \in [Files -> Revs \cup {Absent}]
  /\ events = {}
  /\ published \in {<<>>} \cup {<<facts>> : facts \in [Files -> Revs \cup {Absent}]}
  /\ search = Refreshed(Resident)
  /\ warm = [running |-> TRUE, pending |-> FALSE]
  /\ \E b \in Builds : pc = [t \in Tasks |-> IF t = b THEN "ingest" ELSE "idle"]
  /\ task = [t \in Tasks |-> NoTask]
  /\ stale = {}
  /\ edits = 0
  /\ calls = 0
  /\ faults = 0
  /\ panics = 0

\* An editor saves, creates or deletes a file; the watcher will report it.
Edit(f, r) ==
  /\ edits < MaxEdits
  /\ disk[f] # r
  /\ disk' = [disk EXCEPT ![f] = r]
  /\ events' = events \cup {f}
  /\ edits' = edits + 1
  /\ UNCHANGED <<published, search, warm, pc, task, stale, calls, faults, panics>>

-----------------------------------------------------------------------------
(***************************************************************************)
(* process_dirty_files, by the executor and by Notify handlers.            *)
(***************************************************************************)
StartBatch(t, S) ==
  /\ pc[t] = "idle"
  /\ MayStart
  /\ Goto(t, "delta")
  /\ task' = [task EXCEPT ![t] = [NoTask EXCEPT !.todo = S, !.changed = S]]

\* A debounced flush of the watcher.
Flush(S) ==
  /\ S # {}
  /\ S \subseteq events
  /\ StartBatch(Executor, S)
  /\ events' = events \ S
  /\ UNCHANGED <<disk, published, search, warm, stale, edits, calls, faults, panics>>

Notify(t, f) ==
  /\ calls < MaxCalls
  /\ calls' = calls + 1
  /\ StartBatch(t, {f})
  /\ UNCHANGED <<disk, events, published, search, warm, stale, edits, faults, panics>>

\* Mutation: a deleted file stays in the generation.
DeltaKeepsDeleted(t, f) ==
  /\ pc[t] = "delta"
  /\ f \in task[t].todo
  /\ published' = Append(published, [FactsOf(Resident) EXCEPT
                                       ![f] = IF disk[f] = Absent THEN @ ELSE disk[f]])
  /\ stale' = stale \ {f}
  /\ task' = [task EXCEPT ![t].todo = @ \ {f}]
  /\ UNCHANGED <<disk, events, search, warm, pc, edits, calls, faults, panics>>

\* ArtifactManager::apply_delta of one file, under the writer mutex.
Delta(t, f) ==
  /\ pc[t] = "delta"
  /\ f \in task[t].todo
  /\ published' = Append(published, [FactsOf(Resident) EXCEPT ![f] = disk[f]])
  /\ stale' = stale \ {f}
  /\ task' = [task EXCEPT ![t].todo = @ \ {f}]
  /\ UNCHANGED <<disk, events, search, warm, pc, edits, calls, faults, panics>>

\* It fails: the file is reported and dropped, the batch goes on.
DeltaFails(t, f) ==
  /\ pc[t] = "delta"
  /\ f \in task[t].todo
  /\ faults < MaxFaults
  /\ faults' = faults + 1
  /\ stale' = stale \cup {f}
  /\ task' = [task EXCEPT ![t].todo = @ \ {f}]
  /\ UNCHANGED <<disk, events, published, search, warm, pc, edits, calls, panics>>

\* artifacts.snapshot() after the batch; without one the index is invalidated.
Pin(t) ==
  /\ pc[t] = "delta"
  /\ task[t].todo = {}
  /\ task' = [task EXCEPT ![t].snapshot = Resident]
  /\ Goto(t, IF Resident = 0 THEN "none" ELSE "base")
  /\ UNCHANGED <<disk, events, published, search, warm, stale, edits, calls, faults, panics>>

\* refresh_paths copies the current indexes under the read lock, ...
ReadBase(t) ==
  /\ pc[t] = "base"
  /\ task' = [task EXCEPT ![t].base = search]
  /\ Goto(t, "paths")
  /\ UNCHANGED <<disk, events, published, search, warm, stale, edits, calls, faults, panics>>

\* ... and replaces them under the write lock.
WritePaths(t) ==
  /\ pc[t] = "paths"
  /\ search' = RefreshedPaths(task[t].base, task[t].snapshot, task[t].changed)
  /\ task' = [task EXCEPT ![t] = NoTask]
  /\ Goto(t, "idle")
  /\ UNCHANGED <<disk, events, published, warm, stale, edits, calls, faults, panics>>

InvalidateBatch(t) ==
  /\ pc[t] = "none"
  /\ t \in Batchers
  /\ search' = NoIndex
  /\ task' = [task EXCEPT ![t] = NoTask]
  /\ Goto(t, "idle")
  /\ UNCHANGED <<disk, events, published, warm, stale, edits, calls, faults, panics>>

-----------------------------------------------------------------------------
(***************************************************************************)
(* The warm build: start_warm_build, WarmJob::run, WarmBuildState.         *)
(***************************************************************************)
TryStart ==
  /\ ~ warm.running
  /\ warm' = [running |-> TRUE, pending |-> FALSE]

\* start_warm_build: at most one; a second request is told so.
StartWarm ==
  \/ /\ TryStart
     /\ \E b \in Builds : pc[b] = "idle" /\ Goto(b, "ingest")
  \/ /\ warm.running
     /\ UNCHANGED <<warm, pc>>

\* The Warm request of a client.
WarmRequest ==
  /\ calls < MaxCalls
  /\ calls' = calls + 1
  /\ MayStart
  /\ StartWarm
  /\ UNCHANGED <<disk, events, published, search, task, stale, edits, faults, panics>>

\* Mutation: the snapshot is pinned before the scan.
ScanPinsFirst(b) ==
  /\ pc[b] = "ingest"
  /\ published' = Append(published, disk)
  /\ stale' = {}
  /\ task' = [task EXCEPT ![b].snapshot = Resident]
  /\ Goto(b, IF Resident = 0 THEN "none" ELSE "write")
  /\ UNCHANGED <<disk, events, search, warm, edits, calls, faults, panics>>

\* ArtifactManager::warm: scan the project.
Scan(b) ==
  /\ pc[b] = "ingest"
  /\ published' = Append(published, disk)
  /\ stale' = {}
  /\ Goto(b, "pin")
  /\ UNCHANGED <<disk, events, search, warm, task, edits, calls, faults, panics>>

\* It fails: the warm build goes on with what is resident.
ScanFails(b) ==
  /\ pc[b] = "ingest"
  /\ faults < MaxFaults
  /\ faults' = faults + 1
  /\ stale' = Files
  /\ Goto(b, "pin")
  /\ UNCHANGED <<disk, events, published, search, warm, task, edits, calls, panics>>

PinWarm(b) ==
  /\ pc[b] = "pin"
  /\ task' = [task EXCEPT ![b].snapshot = Resident]
  /\ Goto(b, IF Resident = 0 THEN "none" ELSE "write")
  /\ UNCHANGED <<disk, events, published, search, warm, stale, edits, calls, faults, panics>>

WriteIndex(b) ==
  /\ pc[b] \in {"write", "none"}
  /\ b \in Builds
  /\ search' = IF pc[b] = "none" THEN NoIndex ELSE Refreshed(task[b].snapshot)
  /\ Goto(b, "finish")
  /\ UNCHANGED <<disk, events, published, warm, task, stale, edits, calls, faults, panics>>

\* Mutation: a rebuild requested during the build is forgotten.
FinishForgetsPending(b) ==
  /\ pc[b] = "finish"
  /\ warm' = [warm EXCEPT !.running = FALSE]
  /\ Goto(b, "idle")
  /\ task' = [task EXCEPT ![b] = NoTask]
  /\ UNCHANGED <<disk, events, published, search, stale, edits, calls, faults, panics>>

\* Mutation: the pinned snapshot outlives the build.
FinishKeepsPin(b) ==
  /\ pc[b] = "finish"
  /\ warm' = [running |-> warm.pending, pending |-> FALSE]
  /\ Goto(b, IF warm.pending THEN "ingest" ELSE "idle")
  /\ UNCHANGED <<disk, events, published, search, task, stale, edits, calls, faults, panics>>

\* finish_iteration: start over when a rebuild was requested meanwhile.
Finish(b) ==
  /\ pc[b] = "finish"
  /\ warm' = [running |-> warm.pending, pending |-> FALSE]
  /\ Goto(b, IF warm.pending THEN "ingest" ELSE "idle")
  /\ task' = [task EXCEPT ![b] = NoTask]
  /\ UNCHANGED <<disk, events, published, search, stale, edits, calls, faults, panics>>

\* Mutation: nothing clears the single-flight state of a build that panics.
PanicKeepsRunning(b) ==
  /\ b \in Working
  /\ panics < MaxPanics
  /\ panics' = panics + 1
  /\ Goto(b, "idle")
  /\ task' = [task EXCEPT ![b] = NoTask]
  /\ UNCHANGED <<disk, events, published, search, warm, stale, edits, calls, faults>>

\* The build task panics: ClearWarmStateOnDrop.  A scan it had yet to do, now or
\* for a requested rebuild, is lost.
Panic(b) ==
  /\ b \in Working
  /\ panics < MaxPanics
  /\ panics' = panics + 1
  /\ warm' = [warm EXCEPT !.running = FALSE]
  /\ stale' = IF pc[b] = "ingest" \/ warm.pending THEN Files ELSE stale
  /\ Goto(b, "idle")
  /\ task' = [task EXCEPT ![b] = NoTask]
  /\ UNCHANGED <<disk, events, published, search, edits, calls, faults>>

-----------------------------------------------------------------------------
(***************************************************************************)
(* schedule_full_rebuild: a burst, an overflow or a new ignore policy      *)
(* supersedes the queued changes.                                          *)
(***************************************************************************)
RequestRebuild ==
  /\ calls < MaxCalls
  /\ calls' = calls + 1
  /\ pc[Executor] = "idle"
  /\ MayStart
  /\ events' = {}
  /\ warm' = [warm EXCEPT !.pending = TRUE]
  /\ Goto(Executor, "invalidate")
  /\ UNCHANGED <<disk, published, search, task, stale, edits, faults, panics>>

InvalidateSearch ==
  /\ pc[Executor] = "invalidate"
  /\ search' = NoIndex
  /\ Goto(Executor, "start")
  /\ UNCHANGED <<disk, events, published, warm, task, stale, edits, calls, faults, panics>>

StartRebuild ==
  /\ pc[Executor] = "start"
  /\ IF warm.running
     THEN UNCHANGED warm /\ Goto(Executor, "idle")
     ELSE /\ TryStart
          /\ \E b \in Builds :
               /\ pc[b] = "idle"
               /\ pc' = [pc EXCEPT ![Executor] = "idle", ![b] = "ingest"]
  /\ UNCHANGED <<disk, events, published, search, task, stale, edits, calls, faults, panics>>

-----------------------------------------------------------------------------
BatchStep(t) == \/ \E f \in Files : Delta(t, f)
                \/ Pin(t)
                \/ ReadBase(t)
                \/ WritePaths(t)
                \/ InvalidateBatch(t)

WarmStep(b) == Scan(b) \/ PinWarm(b) \/ WriteIndex(b) \/ Finish(b)

RebuildStep == InvalidateSearch \/ StartRebuild

\* Every task is done and every bound is used up.
Finished ==
  /\ Working = {}
  /\ UNCHANGED vars

Next ==
  \/ \E f \in Files, r \in Revs \cup {Absent} : Edit(f, r)
  \/ \E S \in SUBSET Files : Flush(S)
  \/ \E t \in Notifiers, f \in Files : Notify(t, f)
  \/ \E t \in Batchers : BatchStep(t)
  \/ \E t \in Batchers, f \in Files : DeltaFails(t, f)
  \/ WarmRequest
  \/ RequestRebuild
  \/ RebuildStep
  \/ \E b \in Builds : WarmStep(b)
  \/ \E b \in Builds : ScanFails(b) \/ Panic(b)
  \/ Finished

Spec == Init /\ [][Next]_vars

\* Every started task runs on: the runtime schedules them and no lock is kept.
FairSpec == /\ Spec
            /\ \A t \in Batchers : WF_vars(BatchStep(t))
            /\ \A b \in Builds : WF_vars(WarmStep(b))
            /\ WF_vars(RebuildStep)

-----------------------------------------------------------------------------
Contents == [Files -> Revs \cup {Absent}]
Index == [generation : Nat, docs : Contents, files : SUBSET Files]
Locals == [todo : SUBSET Files, changed : SUBSET Files, snapshot : Nat, base : Index]

\* Every variable has its type, and a task without a batch or a build holds nothing.
TypeOK ==
  /\ disk \in Contents
  /\ events \subseteq Files
  /\ published \in Seq(Contents)
  /\ search \in Index
  /\ search.generation <= Resident
  /\ warm \in [running : BOOLEAN, pending : BOOLEAN]
  /\ pc \in [Tasks -> {"idle", "delta", "base", "paths", "none", "invalidate", "start",
                       "ingest", "pin", "write", "finish"}]
  /\ task \in [Tasks -> Locals]
  /\ \A t \in Tasks : task[t].snapshot <= Resident
  /\ \A t \in Tasks : pc[t] \in {"idle", "invalidate", "start"} => task[t] = NoTask
  /\ stale \subseteq Files
  /\ edits \in 0..MaxEdits
  /\ calls \in 0..MaxCalls
  /\ faults \in 0..MaxFaults
  /\ panics \in 0..MaxPanics

(***************************************************************************)
(* A request that pinned generation g and is given an index for g searches *)
(* the documents of g: the generation check of SearchIndexManager::index   *)
(* is enough, for the languages a delta did not touch too.                 *)
(***************************************************************************)
AnswersExact == search.generation # 0 => search.docs = published[search.generation]

Quiet == Working = {} /\ events = {}

(***************************************************************************)
(* When every change was handled and no task is left, lexical search       *)
(* answers for the resident generation, and is not left failing until the  *)
(* next save.                                                              *)
(***************************************************************************)
SettlesFresh == Quiet => search.generation = Resident

(***************************************************************************)
(* When every change was handled, the resident generation is the project   *)
(* on the disk, but for files whose ingestion failed or panicked: no       *)
(* order of warm builds, batches and notifications loses a change.         *)
(***************************************************************************)
HotConverges == Quiet /\ Resident # 0 =>
                  \A f \in Files \ stale : published[Resident][f] = disk[f]

(***************************************************************************)
(* One warm build at a time, and "already_building" is only answered while *)
(* there is one: "a crashed build never wedges Warm".                      *)
(***************************************************************************)
WarmSingleFlight ==
  LET building == Builds \cap Working
  IN  /\ Cardinality(building) <= 1
      /\ warm.running <=> building # {}

(***************************************************************************)
(* A requested full rebuild is followed by a scan that starts after the    *)
(* request, whatever else fails, and also when the request meets a build   *)
(* that is about to finish; only a build that panics after the request may *)
(* leave it pending until the next start.                                  *)
(***************************************************************************)
RebuildServed ==
  \A n \in 0..MaxPanics :
    (pc[Executor] = "invalidate" /\ warm.pending /\ panics = n)
      ~> ((\E b \in Builds : pc[b] = "ingest") \/ panics > n)

(***************************************************************************)
(* The same as an invariant: while no build has panicked, a request that   *)
(* is pending is with the task that will start a build for it or with the  *)
(* build that will start over.                                             *)
(***************************************************************************)
RequestKept ==
  warm.pending /\ panics = 0 => warm.running \/ pc[Executor] \in {"invalidate", "start"}
=============================================================================
