---------------------------- MODULE SemanticIndex ----------------------------
(***************************************************************************)
(* The semantic index: the resident vectors of the daemon, the worker that *)
(* builds them and the generations they come from (tldr-cli daemon.rs,     *)
(* index_manager.rs and bulk_worker.rs; tldr-core bin/tldr_embed_worker.rs *)
(* and semantic/).                                                         *)
(*                                                                         *)
(* Batches of changed files are ingested and then applied to the resident  *)
(* vectors, which alone change.  A warm build scans the project, pins its  *)
(* generation, has a worker process publish vectors for it, and makes the  *)
(* active ones resident.  Both end by joining the vectors to the artifact  *)
(* generation they pinned, which is refused when it is no longer active.   *)
(*                                                                         *)
(* An ingestion is one step, as in GenerationRefresh, and a corpus is the  *)
(* contents of all files: the chunks of a generation, or their vectors.    *)
(***************************************************************************)
EXTENDS Naturals, FiniteSets, VectorGenerations

CONSTANTS Files,        \* root-relative paths
          Revs,         \* the contents a file can have
          Absent,       \* a file that does not exist
          Cold,         \* no resident vectors
          Executor,     \* the task that drains the watcher's flushes
          Notifiers,    \* tasks of IPC Notify requests
          MaxRetries,   \* attempts of a job, and of a build
          Reverts,      \* may an edit bring back a corpus that vectors were asked for?
          Restamps,     \* may a digest be of other contents than the chunks it is put on?
          OpensCollide, \* may two batches open the ledger at once?
          RowsTear,     \* may a worker end between removing its job and writing it anew?
          MaxEdits,     \* bound: edits of the disk
          MaxCalls,     \* bound: Notify and Warm requests and full rebuilds
          MaxFaults     \* bound: failures of workers, deltas and the daemon

ASSUME SemanticAssumption ==
  /\ IsFiniteSet(Files)
  /\ Absent \notin Revs
  /\ Executor \notin Notifiers
  /\ Cold \notin [Files -> Revs \cup {Absent}] \cup [Files -> Nat]
  /\ {Reverts, Restamps, OpensCollide, RowsTear} \subseteq BOOLEAN
  /\ MaxRetries \in Nat \ {0}
  /\ {MaxEdits, MaxCalls, MaxFaults} \subseteq Nat

VARIABLES disk, touched,     \* contents, and the edit that last wrote each file
          events,            \* files with a change the watcher has not handed over
          facts, generation, \* the active artifact generation; 0: none
          attached,          \* its vector_generation; 0: None
          vectors,           \* the vector generations on the disk
          jobs,              \* worker-jobs.redb, by corpus; starts is kept for AttemptsFinite
          resident,          \* IndexManager.store
          behind,            \* files whose last delta failed, until the vectors have them
          pc, batch,         \* per batch: program counter and locals
          warm, build,       \* WarmBuildState; program counter and locals of the build
          worker,            \* the worker process
          edits, calls, faults

diskVars == <<disk, touched, events, edits>>
storeVars == <<facts, generation, attached>>
batchVars == <<pc, batch>>
buildVars == <<warm, build>>
vars == <<diskVars, storeVars, vectors, jobs, resident, behind, batchVars, buildVars,
          worker, calls, faults>>

Batchers == {Executor} \cup Notifiers
Corpora == [Files -> Revs \cup {Absent}]
Nothing == [f \in Files |-> Absent]

NoBatch == [todo |-> {}, applied |-> {}, snapshot |-> 0, file |-> Absent,
            chunks |-> Cold, signal |-> 0, prior |-> Absent]
NoBuild == [pc |-> "idle", snapshot |-> 0, chunks |-> Cold, attempt |-> 0]
NoWorker == [pc |-> "off", job |-> Cold, corpus |-> Cold, digest |-> Cold, gen |-> 0,
             retries |-> 0, adopts |-> FALSE, taken |-> Cold]

Goto(t, label) == pc' = [pc EXCEPT ![t] = label]

\* The row of a first attempt that was cut off with an earlier daemon.
Interrupted == [state |-> "running", retries |-> 0, starts |-> 1]

Init ==
  /\ disk \in Corpora
  /\ touched = [f \in Files |-> 0]
  /\ events = {}
  /\ facts = Cold
  /\ generation = 0
  /\ attached = 0
  /\ vectors = NoVectors
  /\ jobs \in {[c \in {} |-> c], [c \in {disk} |-> Interrupted]}
  /\ resident = Cold
  /\ behind = {}
  /\ pc = [t \in Batchers |-> "idle"]
  /\ batch = [t \in Batchers |-> NoBatch]
  /\ warm = [running |-> TRUE, pending |-> FALSE]
  /\ build = [NoBuild EXCEPT !.pc = "scan"]
  /\ worker = NoWorker
  /\ edits = 0
  /\ calls = 0
  /\ faults = 0

\* The build has scanned the files whose digest a worker has yet to take.
Exposed == \/ build.pc = "pin"
           \/ build.pc = "worker" /\ worker.pc \in {"open", "start", "dead"}

\* An editor saves, creates or deletes a file; the watcher will report it.
Edit(f, r) ==
  /\ edits < MaxEdits
  /\ disk[f] # r
  /\ Reverts \/ [disk EXCEPT ![f] = r] \notin DOMAIN jobs
  /\ Restamps \/ ~ Exposed
  /\ edits' = edits + 1
  /\ disk' = [disk EXCEPT ![f] = r]
  /\ touched' = [touched EXCEPT ![f] = edits']
  /\ events' = events \cup {f}
  /\ UNCHANGED <<storeVars, vectors, jobs, resident, behind, batchVars, buildVars,
                 worker, calls, faults>>

Ingested(corpus) ==
  /\ facts' = corpus
  /\ generation' = generation + 1
  /\ attached' = 0

-----------------------------------------------------------------------------
(***************************************************************************)
(* Batches: apply_artifact_delta_batch and apply_semantic_delta_batch.     *)
(***************************************************************************)
StartBatch(t, S) ==
  /\ pc[t] = "idle"
  /\ Goto(t, "ingest")
  /\ batch' = [batch EXCEPT ![t].todo = S]

Flush(S) ==
  /\ S # {}
  /\ S \subseteq events
  /\ StartBatch(Executor, S)
  /\ events' = events \ S
  /\ UNCHANGED <<disk, touched, edits, storeVars, vectors, jobs, resident, behind,
                 buildVars, worker, calls, faults>>

Notify(t, f) ==
  /\ calls < MaxCalls
  /\ calls' = calls + 1
  /\ StartBatch(t, {f})
  /\ UNCHANGED <<diskVars, storeVars, vectors, jobs, resident, behind, buildVars,
                 worker, faults>>

\* ArtifactManager::apply_delta of one file.  Without a generation it publishes one of
\* that file alone, which a build that is about to pin takes for the project.
Delta(t, f) ==
  /\ pc[t] = "ingest"
  /\ f \in batch[t].todo
  /\ Ingested([IF generation = 0 THEN Nothing ELSE facts EXCEPT ![f] = disk[f]])
  /\ Restamps \/ build.pc # "pin" \/ facts' = disk
  /\ behind' = behind \ {f}
  /\ batch' = [batch EXCEPT ![t].todo = @ \ {f}, ![t].applied = @ \cup {f}]
  /\ UNCHANGED <<diskVars, vectors, jobs, resident, pc, buildVars, worker, calls, faults>>

\* It fails: the file is dropped from the batch.
DeltaFails(t, f) ==
  /\ pc[t] = "ingest"
  /\ f \in batch[t].todo
  /\ faults < MaxFaults
  /\ faults' = faults + 1
  /\ behind' = behind \cup {f}
  /\ batch' = [batch EXCEPT ![t].todo = @ \ {f}]
  /\ UNCHANGED <<diskVars, storeVars, vectors, jobs, resident, pc, buildVars, worker, calls>>

EndBatch(t) ==
  /\ Goto(t, "idle")
  /\ batch' = [batch EXCEPT ![t] = NoBatch]

\* apply_semantic_delta_batch pins the generation and takes its source chunks.
PinBatch(t) ==
  /\ pc[t] = "ingest"
  /\ batch[t].todo = {}
  /\ IF batch[t].applied = {}
     THEN EndBatch(t)
     ELSE /\ Goto(t, "plan")
          /\ batch' = [batch EXCEPT ![t].snapshot = generation, ![t].chunks = facts]
  /\ UNCHANGED <<diskVars, storeVars, vectors, jobs, resident, behind, buildVars, worker,
                 calls, faults>>

Next1(t, f) == batch' = [batch EXCEPT ![t].applied = @ \ {f}]

\* IndexManager::apply_delta up to the embedding: a cold store skips, a deleted
\* file is taken out at once, a file without a source chunk is an error.
Plan(t, f) ==
  /\ pc[t] = "plan"
  /\ f \in batch[t].applied
  /\ \/ /\ resident = Cold
        /\ Next1(t, f)
        /\ UNCHANGED <<pc, resident>>
     \/ /\ resident # Cold
        /\ disk[f] = Absent
        /\ resident' = [resident EXCEPT ![f] = Absent]
        /\ Next1(t, f)
        /\ UNCHANGED pc
     \/ /\ resident # Cold
        /\ disk[f] # Absent
        /\ batch[t].chunks[f] = Absent
        /\ Goto(t, "drop")
        /\ UNCHANGED <<batch, resident>>
     \/ /\ resident # Cold
        /\ disk[f] # Absent
        /\ batch[t].chunks[f] # Absent
        /\ Goto(t, "apply")
        /\ batch' = [batch EXCEPT ![t].applied = @ \ {f}, ![t].file = f,
                                  ![t].signal = touched[f], ![t].prior = resident[f]]
        /\ UNCHANGED resident
  /\ UNCHANGED <<diskVars, storeVars, vectors, jobs, behind, buildVars, worker, calls, faults>>

\* After the embedding: the file's stat signal and the store's keys must be those
\* that were planned with.  Two revisions may have the same keys.
Apply(t) ==
  LET plan == batch[t]
  IN  /\ pc[t] = "apply"
      /\ \/ /\ resident = Cold
            /\ touched[plan.file] = plan.signal
            /\ Goto(t, "plan")
            /\ UNCHANGED resident
         \/ /\ \/ touched[plan.file] # plan.signal
               \/ resident # Cold /\ resident[plan.file] # plan.prior
            /\ Goto(t, "drop")
            /\ UNCHANGED resident
         \/ /\ resident # Cold
            /\ touched[plan.file] = plan.signal
            /\ resident[plan.file] = plan.prior \/ Absent \notin {resident[plan.file], plan.prior}
            /\ resident' = [resident EXCEPT ![plan.file] = plan.chunks[plan.file]]
            /\ Goto(t, "plan")
      /\ batch' = [batch EXCEPT ![t].file = Absent, ![t].signal = 0, ![t].prior = Absent]
      /\ UNCHANGED <<diskVars, storeVars, vectors, jobs, behind, buildVars, worker, calls, faults>>

\* The worker holds the vector ledger from its check to its last publication step.
Publishing == worker.pc \in {"check", "stage", "records", "artifact", "activate", "mirror"}

\* Mutation: the pinned generation is not compared with the active one.
AttachedUnchecked(snapshot) ==
  /\ snapshot <= generation
  /\ attached' = vectors.active

\* ArtifactManager::attach_vector_generation succeeds.
Attached(snapshot) ==
  /\ snapshot = generation
  /\ attached' = vectors.active

\* The join at the end of a batch; an active generation that cannot be read is
\* only logged.
JoinBatch(t) ==
  /\ pc[t] = "plan"
  /\ batch[t].applied = {}
  /\ \/ /\ ~ Publishing
        /\ vectors.active # 0
        /\ Attached(batch[t].snapshot)
        /\ EndBatch(t)
     \/ /\ ~ Publishing
        /\ vectors.active # 0
        /\ batch[t].snapshot # generation
        /\ Goto(t, "drop")
        /\ UNCHANGED <<batch, attached>>
     \/ /\ \/ Publishing
           \/ vectors.active = 0
           \/ OpensCollide /\ \E u \in Batchers \ {t} : pc[u] = "plan" /\ batch[u].applied = {}
        /\ EndBatch(t)
        /\ UNCHANGED attached
  /\ UNCHANGED <<diskVars, facts, generation, vectors, jobs, resident, behind, buildVars,
                 worker, calls, faults>>

\* IndexManager::invalidate by a batch, which returns.
Drop(t) ==
  /\ pc[t] = "drop"
  /\ resident' = Cold
  /\ EndBatch(t)
  /\ UNCHANGED <<diskVars, storeVars, vectors, jobs, behind, buildVars, worker, calls, faults>>

BatchStep(t) == \/ \E f \in Files : Delta(t, f) \/ Plan(t, f)
                \/ PinBatch(t)
                \/ Apply(t)
                \/ JoinBatch(t)
                \/ Drop(t)

-----------------------------------------------------------------------------
(***************************************************************************)
(* The warm build: WarmJob::run and IndexManager::warm_with_metrics.       *)
(***************************************************************************)
TryStart ==
  /\ ~ warm.running
  /\ warm' = [running |-> TRUE, pending |-> FALSE]
  /\ build' = [NoBuild EXCEPT !.pc = "scan"]

StartWarm == TryStart \/ (warm.running /\ UNCHANGED buildVars)

WarmRequest ==
  /\ calls < MaxCalls
  /\ calls' = calls + 1
  /\ StartWarm
  /\ UNCHANGED <<diskVars, storeVars, vectors, jobs, resident, behind, batchVars, worker, faults>>

\* ArtifactManager::warm.
Scan ==
  /\ build.pc = "scan"
  /\ Ingested(disk)
  /\ build' = [build EXCEPT !.pc = "pin"]
  /\ UNCHANGED <<diskVars, vectors, jobs, resident, behind, batchVars, warm, worker, calls, faults>>

\* It fails: the build goes on with the generation there is.
ScanFails ==
  /\ build.pc = "scan"
  /\ Restamps \/ facts \in {Cold, disk}
  /\ faults < MaxFaults
  /\ faults' = faults + 1
  /\ build' = [build EXCEPT !.pc = "pin"]
  /\ UNCHANGED <<diskVars, storeVars, vectors, jobs, resident, behind, batchVars, warm, worker,
                 calls>>

Spawned(corpus) == [NoWorker EXCEPT !.pc = "open", !.job = corpus]

\* Resident vectors count as warm; a cold store asks a worker for the pinned corpus.
PinBuild ==
  /\ build.pc = "pin"
  /\ \/ /\ generation = 0
        /\ build' = [NoBuild EXCEPT !.pc = "finish"]
        /\ UNCHANGED worker
     \/ /\ generation > 0
        /\ resident # Cold
        /\ build' = [build EXCEPT !.pc = "join", !.snapshot = generation]
        /\ UNCHANGED worker
     \/ /\ generation > 0
        /\ resident = Cold
        /\ build' = [pc |-> "worker", snapshot |-> generation, chunks |-> facts, attempt |-> 1]
        /\ worker' = Spawned(facts)
  /\ UNCHANGED <<diskVars, storeVars, vectors, jobs, resident, behind, batchVars, warm,
                 calls, faults>>

\* BulkWorker::build: the worker ended; one that did not complete is replaced.
Reap ==
  /\ build.pc = "worker"
  /\ \/ /\ worker.pc = "done"
        /\ build' = [build EXCEPT !.pc = "load"]
        /\ worker' = NoWorker
     \/ /\ worker.pc = "dead"
        /\ build.attempt < MaxRetries
        /\ build' = [build EXCEPT !.attempt = @ + 1]
        /\ worker' = Spawned(build.chunks)
     \/ /\ worker.pc = "dead"
        /\ build.attempt = MaxRetries
        /\ build' = [NoBuild EXCEPT !.pc = "finish"]
        /\ worker' = NoWorker
  /\ UNCHANGED <<diskVars, storeVars, vectors, jobs, resident, behind, batchVars, warm,
                 calls, faults>>

\* The active generation becomes resident.
LoadResident ==
  /\ build.pc = "load"
  /\ Loads(vectors)
  /\ vectors' = Load(vectors)
  /\ resident' = ActiveCorpus(vectors)
  /\ behind' = {f \in behind : facts[f] # disk[f]}
  /\ build' = [build EXCEPT !.pc = "join", !.chunks = Cold]
  /\ UNCHANGED <<diskVars, storeVars, jobs, batchVars, warm, worker, calls, faults>>

\* The join at the end of the build; again a failed read is only logged.
JoinBuild ==
  /\ build.pc = "join"
  /\ \/ /\ Attached(build.snapshot)
        /\ build' = [NoBuild EXCEPT !.pc = "finish"]
     \/ /\ build.snapshot # generation
        /\ build' = [NoBuild EXCEPT !.pc = "drop"]
        /\ UNCHANGED attached
     \/ /\ OpensCollide
        /\ \E t \in Batchers : pc[t] = "plan" /\ batch[t].applied = {}
        /\ build' = [NoBuild EXCEPT !.pc = "finish"]
        /\ UNCHANGED attached
  /\ UNCHANGED <<diskVars, facts, generation, vectors, jobs, resident, behind, batchVars,
                 warm, worker, calls, faults>>

DropBuild ==
  /\ build.pc \in {"drop", "again"}
  /\ resident' = Cold
  /\ build' = [build EXCEPT !.pc = IF build.pc = "drop" THEN "finish" ELSE "scan"]
  /\ UNCHANGED <<diskVars, storeVars, vectors, jobs, behind, batchVars, warm, worker, calls, faults>>

\* finish_iteration: a rebuild requested meanwhile drops the vectors and starts over.
Finish ==
  /\ build.pc = "finish"
  /\ warm' = [running |-> warm.pending, pending |-> FALSE]
  /\ build' = [NoBuild EXCEPT !.pc = IF warm.pending THEN "again" ELSE "idle"]
  /\ UNCHANGED <<diskVars, storeVars, vectors, jobs, resident, behind, batchVars, worker,
                 calls, faults>>

BuildStep == Scan \/ PinBuild \/ Reap \/ LoadResident \/ JoinBuild \/ DropBuild \/ Finish

\* schedule_full_rebuild, run by the watcher's executor.
RequestRebuild ==
  /\ calls < MaxCalls
  /\ calls' = calls + 1
  /\ pc[Executor] = "idle"
  /\ events' = {}
  /\ warm' = [warm EXCEPT !.pending = TRUE]
  /\ Goto(Executor, "invalidate")
  /\ UNCHANGED <<disk, touched, edits, storeVars, vectors, jobs, resident, behind, batch, build,
                 worker, faults>>

RebuildStep ==
  /\ \/ /\ pc[Executor] = "invalidate"
        /\ resident' = Cold
        /\ Goto(Executor, "start")
        /\ UNCHANGED buildVars
     \/ /\ pc[Executor] = "start"
        /\ StartWarm
        /\ Goto(Executor, "idle")
        /\ UNCHANGED resident
  /\ UNCHANGED <<diskVars, storeVars, vectors, jobs, behind, batch, worker, calls, faults>>

-----------------------------------------------------------------------------
(***************************************************************************)
(* The worker process: main, then                                          *)
(* load_or_build_store_from_artifacts_with_progress.                       *)
(***************************************************************************)
Known(c) == c \in DOMAIN jobs /\ jobs[c].state # "removed"
Starts(c) == IF c \in DOMAIN jobs THEN jobs[c].starts ELSE 0
SetJob(c, state, retries, starts) ==
  jobs' = [d \in DOMAIN jobs \cup {c} |->
             IF d = c THEN [state |-> state, retries |-> retries, starts |-> starts] ELSE jobs[d]]

\* Mutation: an interrupted run is not counted as an attempt.
RetriesOfReported(c) == IF Known(c) THEN jobs[c].retries ELSE 0

\* A row that is still running was interrupted: it counts as an attempt.
Retries(c) ==
  IF ~ Known(c) THEN 0
  ELSE jobs[c].retries + (IF jobs[c].state = "running" THEN 1 ELSE 0)

\* A completed job loads the active generation; an exhausted one fails; any other
\* is removed, to be written anew.
WorkerOpen ==
  LET c == worker.job
  IN  /\ worker.pc = "open"
      /\ \/ /\ Known(c)
            /\ jobs[c].state = "completed"
            /\ vectors' = Load(vectors)
            /\ worker' = [worker EXCEPT !.pc = "done"]
            /\ UNCHANGED jobs
         \/ /\ Known(c) => jobs[c].state # "completed"
            /\ Retries(c) >= MaxRetries
            /\ worker' = [worker EXCEPT !.pc = "dead"]
            /\ UNCHANGED <<vectors, jobs>>
         \/ /\ Known(c) => jobs[c].state # "completed"
            /\ Retries(c) < MaxRetries
            /\ IF Known(c) THEN SetJob(c, "removed", 0, Starts(c)) ELSE UNCHANGED jobs
            /\ worker' = [worker EXCEPT !.pc = "start", !.retries = Retries(c)]
            /\ UNCHANGED vectors
      /\ UNCHANGED <<diskVars, storeVars, resident, behind, batchVars, buildVars, calls, faults>>

\* The row, and the digest of the files as they are now, once for the whole attempt.
WorkerStart ==
  /\ worker.pc = "start"
  /\ SetJob(worker.job, "running", worker.retries, Starts(worker.job) + 1)
  /\ worker' = [worker EXCEPT !.pc = "check", !.taken = touched]
  /\ UNCHANGED <<diskVars, storeVars, vectors, resident, behind, batchVars, buildVars, calls, faults>>

Newest(S) == CHOOSE g \in S : \A h \in S : h <= g

\* Mutation: an active generation is used whatever files it is of.
WorkerCheckAnyDigest ==
  /\ worker.pc = "check"
  /\ \/ /\ vectors.active # 0
        /\ vectors' = Load(vectors)
        /\ worker' = [worker EXCEPT !.pc = "complete", !.digest = worker.taken]
     \/ /\ vectors.active = 0
        /\ UNCHANGED vectors
        /\ worker' = [worker EXCEPT !.pc = "stage", !.corpus = worker.job, !.digest = worker.taken]
  /\ UNCHANGED <<diskVars, storeVars, jobs, resident, behind, batchVars, buildVars, calls, faults>>

\* The vectors on the disk are of the files as they were, or are built anew.  Without
\* an active generation the newest artifact is adopted first, as one of an older store.
WorkerCheck ==
  /\ worker.pc = "check"
  /\ \/ /\ vectors.active = 0
        /\ vectors.manifests # {}
        /\ LET old == vectors.gens[Newest(vectors.manifests)]
           IN  worker' = [worker EXCEPT !.pc = "stage", !.corpus = old.corpus,
                                        !.digest = old.digest, !.adopts = TRUE]
        /\ UNCHANGED vectors
     \/ /\ vectors.active # 0
        /\ vectors.gens[vectors.active].digest = worker.taken
        /\ vectors' = Load(vectors)
        /\ worker' = [worker EXCEPT !.pc = "complete", !.digest = worker.taken]
     \/ /\ IF vectors.active = 0
           THEN vectors.manifests = {} /\ UNCHANGED vectors
           ELSE vectors.gens[vectors.active].digest # worker.taken /\ vectors' = Load(vectors)
        /\ worker' = [worker EXCEPT !.pc = "stage", !.corpus = worker.job, !.digest = worker.taken]
  /\ UNCHANGED <<diskVars, storeVars, jobs, resident, behind, batchVars, buildVars, calls, faults>>

\* Mutation: the generation is activated when it is staged.
PublishActivatesFirst ==
  \/ /\ worker.pc = "stage"
     /\ LET g == NextGeneration(vectors)
        IN  /\ vectors' = Activate(Stage(vectors, g, worker.corpus, worker.digest), g)
            /\ worker' = [worker EXCEPT !.pc = "records", !.gen = g]
  \/ /\ worker.pc = "records"
     /\ vectors' = PutVectors(vectors, worker.gen)
     /\ worker' = [worker EXCEPT !.pc = "artifact"]
  \/ /\ worker.pc = "artifact"
     /\ vectors' = WriteArtifact(vectors, worker.gen)
     /\ worker' = [worker EXCEPT !.pc = "mirror"]
  \/ /\ worker.pc = "mirror"
     /\ vectors' = Mirror(vectors, worker.gen)
     /\ worker' = [worker EXCEPT !.pc = IF worker.adopts THEN "check" ELSE "complete",
                                  !.adopts = FALSE]

\* GenerationManager::publish.  stage_generation would refuse a number of the ledger,
\* and complete_and_activate_generation one whose vectors are not all there.
Publish ==
  \/ /\ worker.pc = "stage"
     /\ LET g == NextGeneration(vectors)
        IN  /\ vectors' = Stage(vectors, g, worker.corpus, worker.digest)
            /\ worker' = [worker EXCEPT !.pc = "records", !.gen = g]
  \/ /\ worker.pc = "records"
     /\ vectors' = PutVectors(vectors, worker.gen)
     /\ worker' = [worker EXCEPT !.pc = "artifact"]
  \/ /\ worker.pc = "artifact"
     /\ vectors' = WriteArtifact(vectors, worker.gen)
     /\ worker' = [worker EXCEPT !.pc = "activate"]
  \/ /\ worker.pc = "activate"
     /\ vectors' = Activate(vectors, worker.gen)
     /\ worker' = [worker EXCEPT !.pc = "mirror"]
  \/ /\ worker.pc = "mirror"
     /\ vectors' = Mirror(vectors, worker.gen)
     /\ worker' = [worker EXCEPT !.pc = IF worker.adopts THEN "check" ELSE "complete",
                                  !.adopts = FALSE]

WorkerPublish ==
  /\ Publish
  /\ UNCHANGED <<diskVars, storeVars, jobs, resident, behind, batchVars, buildVars, calls, faults>>

\* The generation is durable: the job is marked, and the daemon told.
WorkerComplete ==
  /\ worker.pc = "complete"
  /\ SetJob(worker.job, "completed", worker.retries, Starts(worker.job))
  /\ worker' = [worker EXCEPT !.pc = "done"]
  /\ UNCHANGED <<diskVars, storeVars, vectors, resident, behind, batchVars, buildVars, calls, faults>>

WorkerStep == WorkerOpen \/ WorkerStart \/ WorkerCheck \/ WorkerPublish \/ WorkerComplete

\* The files are still those whose digest the worker took.
Undisturbed == Restamps \/ worker.taken \in {Cold, touched}

\* The worker reports an error, as when the model fails or the disk is full, ...
WorkerFails ==
  LET attempt == worker.retries + 1
  IN  /\ worker.pc \in {"check", "stage", "records", "artifact", "activate", "mirror"}
      /\ Undisturbed
      /\ faults < MaxFaults
      /\ faults' = faults + 1
      /\ SetJob(worker.job, IF attempt >= MaxRetries THEN "failed" ELSE "pending", attempt,
                Starts(worker.job))
      /\ worker' = [NoWorker EXCEPT !.pc = "dead"]
      /\ UNCHANGED <<diskVars, storeVars, vectors, resident, behind, batchVars, buildVars, calls>>

\* ... or it dies, or is killed for the memory it uses.
WorkerDies ==
  /\ worker.pc \notin {"off", "done", "dead"}
  /\ RowsTear \/ worker.pc # "start"
  /\ Undisturbed
  /\ faults < MaxFaults
  /\ faults' = faults + 1
  /\ worker' = [NoWorker EXCEPT !.pc = "dead"]
  /\ UNCHANGED <<diskVars, storeVars, vectors, jobs, resident, behind, batchVars, buildVars, calls>>

-----------------------------------------------------------------------------
\* The daemon is killed, its worker with it, and started again: the startup warm
\* scans the project.
Kill ==
  /\ faults < MaxFaults
  /\ RowsTear \/ worker.pc # "start"
  /\ faults' = faults + 1
  /\ events' = {}
  /\ resident' = Cold
  /\ behind' = {}
  /\ pc' = [t \in Batchers |-> "idle"]
  /\ batch' = [t \in Batchers |-> NoBatch]
  /\ warm' = [running |-> TRUE, pending |-> FALSE]
  /\ build' = [NoBuild EXCEPT !.pc = "scan"]
  /\ worker' = NoWorker
  /\ UNCHANGED <<disk, touched, edits, storeVars, vectors, jobs, calls>>

\* The files of an artifact are deleted or damaged.
LoseArtifact(g) ==
  /\ faults < MaxFaults
  /\ faults' = faults + 1
  /\ g \in vectors.manifests
  /\ vectors' = [vectors EXCEPT !.manifests = @ \ {g}]
  /\ UNCHANGED <<diskVars, storeVars, jobs, resident, behind, batchVars, buildVars, worker, calls>>

Working == {t \in Batchers : pc[t] # "idle"}
Quiet == Working = {} /\ build.pc = "idle" /\ events = {}

\* Every task is done and every bound is used up.
Finished == Quiet /\ UNCHANGED vars

Next ==
  \/ \E f \in Files, r \in Revs \cup {Absent} : Edit(f, r)
  \/ \E S \in SUBSET Files : Flush(S)
  \/ \E t \in Notifiers, f \in Files : Notify(t, f)
  \/ \E t \in Batchers : BatchStep(t)
  \/ \E t \in Batchers, f \in Files : DeltaFails(t, f)
  \/ WarmRequest
  \/ RequestRebuild
  \/ RebuildStep
  \/ BuildStep
  \/ WorkerStep
  \/ ScanFails \/ WorkerFails \/ WorkerDies \/ Kill
  \/ \E g \in vectors.manifests : LoseArtifact(g)
  \/ Finished

Spec == Init /\ [][Next]_vars

-----------------------------------------------------------------------------
Digests == [Files -> 0..MaxEdits]
Generation == [state : {"staged", "complete"}, corpus : Corpora, digest : Digests, stored : BOOLEAN]

\* Every variable has its type; a worker works for the build, on the corpus it pinned.
TypeOK ==
  /\ disk \in Corpora
  /\ touched \in Digests
  /\ events \subseteq Files
  /\ facts \in Corpora \cup {Cold}
  /\ generation \in Nat
  /\ facts = Cold <=> generation = 0
  /\ attached \in Ledger(vectors) \cup {0}
  /\ \A g \in Ledger(vectors) : vectors.gens[g] \in Generation
  /\ {vectors.active, vectors.previous, vectors.current} \subseteq Ledger(vectors) \cup {0}
  /\ vectors.manifests \subseteq Ledger(vectors)
  /\ \A c \in DOMAIN jobs :
       jobs[c] \in [state : {"running", "pending", "failed", "completed", "removed"},
                    retries : 0..MaxRetries, starts : Nat]
  /\ resident \in Corpora \cup {Cold}
  /\ behind \subseteq Files
  /\ pc \in [Batchers -> {"idle", "ingest", "plan", "apply", "drop", "invalidate", "start"}]
  /\ \A t \in Batchers : pc[t] \in {"idle", "invalidate", "start"} => batch[t] = NoBatch
  /\ warm \in [running : BOOLEAN, pending : BOOLEAN]
  /\ warm.running <=> build.pc # "idle"
  /\ build.pc \in {"idle", "scan", "pin", "worker", "load", "join", "drop", "finish", "again"}
  /\ build.pc = "worker" <=> worker.pc # "off"
  /\ worker.pc \in {"open", "start", "check", "stage", "complete"} => worker.job = build.chunks
  /\ edits \in 0..MaxEdits
  /\ calls \in 0..MaxCalls
  /\ faults \in 0..MaxFaults

(***************************************************************************)
(* When every change was handled and no task is left, the vectors that     *)
(* answer queries are those of the active artifact generation, but for     *)
(* files whose delta failed: whatever batch applied old chunks, or build   *)
(* loaded old vectors, was turned away at its join and dropped them.       *)
(***************************************************************************)
ResidentFresh ==
  Quiet /\ resident # Cold => \A f \in Files \ behind : resident[f] = facts[f]

(***************************************************************************)
(* The active generation, the one kept for a rollback and the one that an  *)
(* artifact manifest names are complete, with all their vectors in the     *)
(* ledger: also after a crash between two steps of a publication, and      *)
(* with artifact files lost.  A publication keeps the generation before it *)
(* for a rollback.                                                         *)
(***************************************************************************)
ActiveComplete ==
  /\ \A g \in {vectors.active, vectors.previous, attached} \ {0} :
       Complete(vectors, g) /\ vectors.gens[g].stored
  /\ vectors.active # vectors.previous \/ vectors.active = 0
  /\ Cardinality({g \in Ledger(vectors) : Complete(vectors, g)}) > 1 => vectors.previous # 0

(***************************************************************************)
(* The ledger never refuses what a publication asks of it: the number is   *)
(* free, whatever crashes left on one medium and not on the other, and     *)
(* the vectors of a generation that is activated are all there.            *)
(***************************************************************************)
PublicationAccepted ==
  /\ worker.pc = "stage" => NextGeneration(vectors) \notin Ledger(vectors)
  /\ worker.pc = "activate" => vectors.gens[worker.gen].stored

(***************************************************************************)
(* A job is marked completed only when vectors of its corpus were          *)
(* published: "acknowledgements emitted only after their represented state *)
(* is durable".                                                            *)
(***************************************************************************)
CompletedIsPublished ==
  \A c \in DOMAIN jobs : jobs[c].state = "completed" =>
    \E g \in Ledger(vectors) : Complete(vectors, g) /\ vectors.gens[g].corpus = c

(***************************************************************************)
(* "Retry exhaustion is finite and durable": a corpus is attempted a fixed *)
(* number of times in all, whether an attempt reported its failure, died,  *)
(* or was cut off with the daemon.                                         *)
(***************************************************************************)
AttemptsFinite == \A c \in DOMAIN jobs : jobs[c].starts <= MaxRetries
=============================================================================
