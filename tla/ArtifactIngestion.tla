-------------------------- MODULE ArtifactIngestion --------------------------
(***************************************************************************)
(* One resumable engine for full-project and file-delta ingestion, and the *)
(* ArtifactManager that runs it under its writer mutex and swaps in the    *)
(* resident snapshot (artifact_store/ingestion.rs, projections.rs,         *)
(* tldr-cli daemon/artifact_manager.rs).                                   *)
(*                                                                         *)
(* An ingestion reads the revision of every file in its scope, parses the  *)
(* files whose facts are not in the previous manifest, commits them in     *)
(* batches with a checkpoint, composes the call graph, publishes the       *)
(* generation, marks the job and returns to the manager, which decodes the *)
(* generation and swaps it in.  Editors change the disk, the daemon can be *)
(* killed between any two transactions, and any fallible call can fail.    *)
(***************************************************************************)
EXTENDS ArtifactStore

CONSTANTS BatchFiles,         \* BATCH_FILES
          MaxGeneration,      \* bound: generations published
          MaxEdits,           \* bound: edits of the disk
          MaxFaults,          \* bound: crashes and failed calls, together
          EditsDuringIngest,  \* may a file change between its hash and its parse?
          LateFailures,       \* may a call fail after the publish transaction?
          Absent, NoSnapshot, NoRun

ASSUME BoundsAssumption ==
  /\ BatchFiles \in Nat \ {0}
  /\ {MaxGeneration, MaxEdits, MaxFaults} \subseteq Nat
  /\ {EditsDuringIngest, LateFailures} \subseteq BOOLEAN
  /\ Absent \notin Revs

VARIABLES disk,    \* the files' contents
          pc,      \* where the ingestion that holds the writer mutex is
          run,     \* the locals of that ingestion
          state,   \* ArtifactManager.state
          hot,     \* ArtifactManager.hot
          edits, faults

vars == <<active, previous, generations, artifacts, graphs, links, jobs,
          disk, pc, run, state, hot, edits, faults>>

-----------------------------------------------------------------------------
(***************************************************************************)
(* Planning (ingest_with_batch_limit up to the parse).                     *)
(***************************************************************************)
\* source_manifest / file_scope_manifest: the revisions of the files present.
RevisionsOf(scope) ==
  LET present == {f \in scope.files : disk[f] # Absent}
  IN  [f \in present |-> disk[f]]

\* Mutation: a file scope does not hash its predecessor's revision.
SourceRevisionUnchained(prev, scope, revs) == <<[scope |-> scope, revs |-> revs]>>

SourceRevision(prev, scope, revs) ==
  LET hashed == [scope |-> scope, revs |-> revs]
  IN  IF scope = Project THEN <<hashed>> ELSE Append(prev.source_revision, hashed)

\* The files whose current revision has no facts in the previous manifest.
Selected(prev, revs) == {f \in DOMAIN revs : Facts(f, revs[f]) \notin prev.keys}

\* The files of the scope that the previous manifest has and the disk has not.
Removed(prev, scope, revs) ==
  IF scope = Project
  THEN {k.file : k \in {k \in prev.keys : k.kind = "facts"}} \ DOMAIN revs
  ELSE scope.files \ DOMAIN revs

\* Mutation: an interrupted job starts over.
NextBatchFromStart(id) == 0

\* A checkpoint of the same generation, scope and source revision is resumed.
NextBatch(id) ==
  IF id \in DOMAIN jobs /\ jobs[id].stage # "published" THEN jobs[id].next ELSE 0

(***************************************************************************)
(* The i-th batch of the selected files, in path order, and their number.  *)
(***************************************************************************)
Rank(S, f) == Cardinality({g \in S : g < f})
BatchOf(S, i) == {f \in S : Rank(S, f) \div BatchFiles = i}
\* Mutation: the division drops the last, partial batch.
TotalBatchesRoundedDown(S) == Cardinality(S) \div BatchFiles

TotalBatches(S) == (Cardinality(S) + BatchFiles - 1) \div BatchFiles
FromBatch(S, i) == {f \in S : Rank(S, f) \div BatchFiles >= i}

\* Mutation: a resumed ingestion forgets the batches committed before.
RecoveredNothing(g, regenerated, revs) == {}

\* Committed records of an unpublished generation that this ingestion can reuse.
Recovered(g, regenerated, revs) ==
  {k \in {l[2] : l \in {l \in links : l[1] = g}} :
      k.file \in regenerated \cap DOMAIN revs /\ k.rev = revs[k.file]}

-----------------------------------------------------------------------------
(***************************************************************************)
(* Reading a generation back (GenerationSnapshot).                         *)
(***************************************************************************)
Snapshot(g, facts, m) == [gen |-> g, facts |-> facts, graph |-> graphs[m.source_revision]]

\* load: decode the manifest.
LoadSnapshot(g) == Snapshot(g, generations[g].facts, generations[g])

\* Mutation: the resident facts win over the decoded ones.
RefreshedFactsResidentWins(g, prev, changed) ==
  Overlay([f \in changed \cap DOMAIN generations[g].facts |-> generations[g].facts[f]],
          prev.facts)

\* refresh_files: only the changed paths are decoded, the rest is the
\* predecessor's; an error when the paths are not those of the manifest.
RefreshedFacts(g, prev, changed) ==
  LET kept  == Without(prev.facts, changed)
      fresh == [f \in changed \cap DOMAIN generations[g].facts |-> generations[g].facts[f]]
  IN  Overlay(kept, fresh)

RefreshMatches(g, prev, changed) ==
  DOMAIN RefreshedFacts(g, prev, changed) = DOMAIN generations[g].facts

-----------------------------------------------------------------------------
Init ==
  /\ StoreInit
  /\ disk \in [Files -> Revs \cup {Absent}]
  /\ pc = "down"
  /\ run = NoRun
  /\ state = "cold"
  /\ hot = NoSnapshot
  /\ edits = 0
  /\ faults = 0

\* An editor saves, creates or deletes a file.
Edit(f, r) ==
  /\ edits < MaxEdits
  /\ EditsDuringIngest \/ pc \in {"idle", "down"}
  /\ disk[f] # r
  /\ disk' = [disk EXCEPT ![f] = r]
  /\ edits' = edits + 1
  /\ UNCHANGED <<storeVars, pc, run, state, hot, faults>>

\* ArtifactManager::open.
Open ==
  /\ pc = "down"
  /\ pc' = "idle"
  /\ hot' = IF active = 0 THEN NoSnapshot ELSE LoadSnapshot(active)
  /\ state' = IF active = 0 THEN "cold" ELSE "ready"
  /\ UNCHANGED <<storeVars, disk, run, edits, faults>>

\* ArtifactManager::ingest takes the writer mutex; the engine plans the work.
Begin(scope) ==
  LET g    == active + 1
      prev == generation(active)
      revs == RevisionsOf(scope)
      src  == SourceRevision(prev, scope, revs)
      sel  == Selected(prev, revs)
      id   == [target |-> g, scope |-> scope, revs |-> revs]
  IN  /\ pc = "idle"
      /\ active < MaxGeneration
      /\ pc' = "parse"
      /\ state' = "building"
      /\ run' = [id |-> id, source_revision |-> src, selected |-> sel,
                 removed |-> Removed(prev, scope, revs), next |-> NextBatch(id),
                 parsed |-> <<>>, keys |-> {}, facts |-> <<>>]
      /\ UNCHANGED <<storeVars, disk, hot, edits, faults>>

\* Parse the remaining files, then assemble the manifest's starting keys: the
\* previous manifest without what is regenerated, and what is recovered.
Parse ==
  LET remaining   == FromBatch(run.selected, run.next)
      prev        == generation(active)
      regenerated == run.selected \cup run.removed
      recovered   == Recovered(run.id.target, regenerated, run.id.revs)
  IN  /\ pc = "parse"
      /\ \A f \in remaining : disk[f] # Absent
      /\ pc' = "commit"
      /\ run' = [run EXCEPT
           !.parsed = [f \in remaining |-> disk[f]],
           !.keys   = {k \in prev.keys : k.file \notin regenerated} \cup recovered,
           !.facts  = Overlay(Without(prev.facts, regenerated),
                              [f \in {k.file : k \in recovered} |-> run.id.revs[f]])]
      /\ UNCHANGED <<storeVars, disk, state, hot, edits, faults>>

\* One bounded batch and its checkpoint.
CommitBatch ==
  LET batch == BatchOf(run.selected, run.next)
      recs  == {Facts(f, run.parsed[f]) : f \in batch}
  IN  /\ pc = "commit"
      /\ run.next < TotalBatches(run.selected)
      /\ CheckpointAccepted(run.id, run.next + 1)
      /\ WriteBatch(run.id, recs, "commit", run.next + 1)
      /\ run' = [run EXCEPT !.keys = @ \cup recs,
                            !.facts = Overlay(@, [f \in batch |-> run.parsed[f]]),
                            !.next = @ + 1]
      /\ UNCHANGED <<active, previous, generations, graphs, disk, pc, state, hot, edits, faults>>

\* Compose the call graph from every facts key and commit it, validated.
CommitGraph ==
  /\ pc = "commit"
  /\ run.next = TotalBatches(run.selected)
  /\ CheckpointAccepted(run.id, run.next)
  /\ WriteBatch(run.id, {}, "validation", run.next)
  /\ graphs' = Insert(graphs, run.source_revision, {k \in run.keys : k.kind = "facts"})
  /\ pc' = "publish"
  /\ UNCHANGED <<active, previous, generations, disk, run, state, hot, edits, faults>>

RunManifest == [source_revision |-> run.source_revision, keys |-> run.keys,
                facts |-> run.facts]

\* Mutation: ready is announced before the snapshot is swapped in.
PublishGenerationReadyEarly ==
  /\ pc = "publish"
  /\ PublishAccepted(run.id.target, RunManifest)
  /\ Publish(run.id.target, RunManifest)
  /\ pc' = "mark"
  /\ state' = "ready"
  /\ UNCHANGED <<artifacts, graphs, jobs, disk, run, hot, edits, faults>>

PublishGeneration ==
  /\ pc = "publish"
  /\ PublishAccepted(run.id.target, RunManifest)
  /\ Publish(run.id.target, RunManifest)
  /\ pc' = "mark"
  /\ UNCHANGED <<artifacts, graphs, jobs, disk, run, state, hot, edits, faults>>

MarkPublished ==
  /\ pc = "mark"
  /\ CheckpointAccepted(run.id, run.next)
  /\ WriteBatch(run.id, {}, "published", run.next)
  /\ pc' = "load"
  /\ UNCHANGED <<active, previous, generations, graphs, disk, run, state, hot, edits, faults>>

\* Back in the manager: decode the generation and swap it in.
Adopt ==
  LET g       == run.id.target
      changed == run.id.scope.files
  IN  /\ pc = "load"
      /\ IF run.id.scope = Project \/ hot = NoSnapshot
         THEN hot' = LoadSnapshot(g)
         ELSE /\ RefreshMatches(g, hot, changed)
              /\ hot' = Snapshot(g, RefreshedFacts(g, hot, changed), generations[g])
      /\ state' = "ready"
      /\ pc' = "idle"
      /\ run' = NoRun
      /\ UNCHANGED <<storeVars, disk, edits, faults>>

\* The refreshed paths are not the manifest's: `?' leaves the state building.
RefuseRefresh ==
  /\ pc = "load"
  /\ run.id.scope # Project
  /\ hot # NoSnapshot
  /\ ~ RefreshMatches(run.id.target, hot, run.id.scope.files)
  /\ pc' = "idle"
  /\ run' = NoRun
  /\ UNCHANGED <<storeVars, disk, state, hot, edits, faults>>

\* Mutation: a failed ingestion keeps its locals for the next one.
EngineFailsKeepsRun ==
  /\ pc' = "idle"
  /\ state' = "failed"
  /\ UNCHANGED <<storeVars, disk, hot, edits, run>>

\* The decoding of the new generation itself fails: `?' as above, with the old
\* snapshot, if any, still resident.
LoadFails ==
  /\ LateFailures
  /\ pc = "load"
  /\ faults < MaxFaults
  /\ faults' = faults + 1
  /\ pc' = "idle"
  /\ run' = NoRun
  /\ UNCHANGED <<storeVars, disk, state, hot, edits>>

\* The engine returns Err: the manager keeps the old snapshot.
EngineFails ==
  /\ pc' = "idle"
  /\ run' = NoRun
  /\ state' = "failed"
  /\ UNCHANGED <<storeVars, disk, hot, edits>>

\* A file of the scope vanished before its parse.
ParseFails ==
  /\ pc = "parse"
  /\ \E f \in FromBatch(run.selected, run.next) : disk[f] = Absent
  /\ EngineFails
  /\ UNCHANGED faults

\* Any other fallible call: parse, derivation, transaction, composition; after
\* the publication, the job's last transaction or units.finish().
CallFails ==
  /\ pc \in {"parse", "commit", "publish"} \cup (IF LateFailures THEN {"mark"} ELSE {})
  /\ faults < MaxFaults
  /\ faults' = faults + 1
  /\ EngineFails

\* The daemon is killed: committed transactions stay, memory is lost.
Crash ==
  /\ pc # "down"
  /\ faults < MaxFaults
  /\ faults' = faults + 1
  /\ pc' = "down"
  /\ run' = NoRun
  /\ state' = "cold"
  /\ hot' = NoSnapshot
  /\ UNCHANGED <<storeVars, disk, edits>>

Ingest == \E scope \in Scopes : Begin(scope)

\* The bounds are reached: nothing is left to explore.
Finished == pc = "idle" /\ active = MaxGeneration /\ UNCHANGED vars

Next ==
  \/ \E f \in Files, r \in Revs \cup {Absent} : Edit(f, r)
  \/ Open
  \/ Ingest
  \/ Parse
  \/ CommitBatch
  \/ CommitGraph
  \/ PublishGeneration
  \/ MarkPublished
  \/ Adopt
  \/ RefuseRefresh
  \/ LoadFails
  \/ ParseFails
  \/ CallFails
  \/ Crash
  \/ Finished

(***************************************************************************)
(* The warm that daemon.rs run queues once, when the daemon starts: a      *)
(* manager is cold after it opened an empty store and until its first      *)
(* ingestion begins, so this is never a second attempt.                    *)
(***************************************************************************)
StartupWarm == state = "cold" /\ Begin(Project)

(***************************************************************************)
(* The engine is one thread that runs until it returns, and a started      *)
(* daemon opens the store and gets round to its startup warm.  An          *)
(* ingestion that failed is not tried again by anybody.                    *)
(***************************************************************************)
Spec == Init /\ [][Next]_vars

FairSpec ==
  /\ Spec
  /\ WF_vars(Open)
  /\ WF_vars(Parse \/ CommitBatch \/ CommitGraph \/ PublishGeneration \/ MarkPublished
             \/ Adopt \/ RefuseRefresh \/ ParseFails)
  /\ WF_vars(StartupWarm)

-----------------------------------------------------------------------------
Optional(S, none) == S \cup {none}

Source == [scope : Scopes, revs : RevisionMaps]
Manifest == [source_revision : Seq(Source), keys : SUBSET Key, facts : RevisionMaps]
JobId == [target : 1..MaxGeneration, scope : Scopes, revs : RevisionMaps]
Checkpoint == [stage : {"commit", "validation", "published"}, next : Nat]
Resident == [gen : 1..MaxGeneration, facts : RevisionMaps, graph : SUBSET Key]
Locals == [id : JobId, source_revision : Seq(Source), selected : SUBSET Files,
           removed : SUBSET Files, next : Nat, parsed : RevisionMaps, keys : SUBSET Key,
           facts : RevisionMaps]

ASSUME SentinelsAssumption == NoSnapshot \notin Resident /\ NoRun \notin Locals

\* Every variable has its type.
TypeOK ==
  /\ active \in 0..MaxGeneration
  /\ previous \in 0..MaxGeneration
  /\ generations \in [1..active -> Manifest]
  /\ artifacts \subseteq Key
  /\ DOMAIN graphs \subseteq Seq(Source)
  /\ \A s \in DOMAIN graphs : graphs[s] \subseteq Key
  /\ links \subseteq (1..MaxGeneration) \X Key
  /\ DOMAIN jobs \subseteq JobId
  /\ \A id \in DOMAIN jobs : jobs[id] \in Checkpoint
  /\ disk \in [Files -> Optional(Revs, Absent)]
  /\ pc \in {"down", "idle", "parse", "commit", "publish", "mark", "load"}
  /\ run \in Optional(Locals, NoRun)
  /\ run = NoRun <=> pc \in {"down", "idle"}
  /\ state \in {"cold", "building", "ready", "failed"}
  /\ hot \in Optional(Resident, NoSnapshot)
  /\ edits \in 0..MaxEdits
  /\ faults \in 0..MaxFaults

(***************************************************************************)
(* A published generation is of one piece: the call graph its readers will *)
(* decode is the one composed from exactly its own facts, whatever was     *)
(* ingested, interrupted or repeated since under the same source revision. *)
(***************************************************************************)
GraphOfItsFacts(g) ==
  LET m == generations[g]
  IN  /\ m.source_revision \in DOMAIN graphs
      /\ graphs[m.source_revision] = {k \in m.keys : k.kind = "facts"}

GraphsMatchGenerations == \A g \in DOMAIN generations : GraphOfItsFacts(g)

(***************************************************************************)
(* What a generation must hold, by the source it was published for: the    *)
(* scanned project exactly, or its predecessor with the files of the scope *)
(* replaced or gone.                                                       *)
(***************************************************************************)
SourceOf(g) == generations[g].source_revision[Len(generations[g].source_revision)]

Expected(g) ==
  LET src == SourceOf(g)
  IN  IF src.scope = Project THEN src.revs
      ELSE Overlay(Without(generation(g - 1).facts, src.scope.files), src.revs)

(***************************************************************************)
(* An incremental, resumed or repeated ingestion publishes what a build    *)
(* from nothing would, when no file changes between its hash and its       *)
(* parse: checkpoints, abandoned jobs of the same generation, deltas and   *)
(* deletions lose no file, keep no stale revision and revive no deleted    *)
(* file.                                                                   *)
(***************************************************************************)
SourceExact == \A g \in DOMAIN generations : generations[g].facts = Expected(g)

(***************************************************************************)
(* Whatever is edited while an ingestion runs, every file it discovered is *)
(* in the generation it publishes, and no other: "Discover and process the *)
(* canonical project corpus" (types.rs).                                   *)
(***************************************************************************)
SourceCovered ==
  \A g \in DOMAIN generations : DOMAIN generations[g].facts = DOMAIN Expected(g)

(***************************************************************************)
(* Edits alone, without a crash or a failed call, make no ingestion lose a *)
(* file or publish one that its scan did not find.                         *)
(***************************************************************************)
EditsLoseNothing == faults = 0 => SourceCovered

(***************************************************************************)
(* A manager that says ready has the active generation resident.           *)
(***************************************************************************)
HotIsActive == state = "ready" => hot # NoSnapshot /\ hot.gen = active

(***************************************************************************)
(* A checkpoint or a publication the store would refuse is never asked     *)
(* for: after any history of crashes, failures and edits the next          *)
(* ingestion of the same source gets through, instead of failing the same  *)
(* way for ever.                                                           *)
(***************************************************************************)
NeverRefused ==
  /\ pc = "commit" =>
       /\ run.next <= TotalBatches(run.selected)
       /\ IF run.next = TotalBatches(run.selected)
          THEN CheckpointAccepted(run.id, run.next)
          ELSE CheckpointAccepted(run.id, run.next + 1)
  /\ pc = "publish" => PublishAccepted(run.id.target, RunManifest)
  /\ pc = "mark" => CheckpointAccepted(run.id, run.next)

(***************************************************************************)
(* With files left alone during an ingestion and no failure after the      *)
(* publication, the store and its manager implement GenerationPublication: *)
(* contents are the facts and the call graph a reader decodes.             *)
(***************************************************************************)
Contents(g) ==
  [facts |-> generations[g].facts, graph |-> graphs[generations[g].source_revision]]

Publication == INSTANCE GenerationPublication WITH
  Nothing <- NoSnapshot,
  published <- [g \in 1..active |-> Contents(g)],
  resident <- IF hot = NoSnapshot THEN NoSnapshot
              ELSE [gen |-> hot.gen, contents |-> [facts |-> hot.facts, graph |-> hot.graph]]

ImplementsPublication == Publication!PubSpec

(***************************************************************************)
(* A daemon that is killed at any point of an ingestion, the first one     *)
(* included, and started again, is brought to a ready, resident generation *)
(* by its store or by its one startup warm (daemon.rs run), whatever the   *)
(* interrupted ingestion left behind; only one more kill or failed call    *)
(* since, and so a larger count of faults, may prevent that.               *)
(***************************************************************************)
RecoversFromKill ==
  \A n \in 1..MaxFaults :
    (pc = "down" /\ faults = n) ~> ((state = "ready" /\ hot # NoSnapshot) \/ faults > n)
=============================================================================
