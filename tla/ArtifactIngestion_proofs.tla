----------------------- MODULE ArtifactIngestion_proofs -----------------------
(***************************************************************************)
(* What holds of the ingestion engine for every set of files and           *)
(* revisions, batch size and bound: its types, that a ready manager has    *)
(* the active generation resident, that the store never refuses a          *)
(* checkpoint or a publication, what a published generation and its graph  *)
(* are of, and that the engine with its manager implements                 *)
(* GenerationPublication.                                                  *)
(*                                                                         *)
(* The first three hold without condition. Ingesting adds to them what the *)
(* run knows of the store while it works: which generation it is for, that *)
(* the keys it collected have records, and that its progress is the one of *)
(* the checkpoint it resumed.                                              *)
(*                                                                         *)
(* What a generation holds is a matter of what the run has assembled, from *)
(* the predecessor, from the records that an interrupted run left and from *)
(* its own batches. Exact says at each label which files have come from    *)
(* where (Assembled), and what a job of the next generation leaves behind  *)
(* for whoever resumes it (Resumable). Where its parts depend on files     *)
(* being left alone between hash and parse, or on nothing having failed,   *)
(* they say so themselves. Determined is there for the graphs: a record    *)
(* that is written again under its source revision is the same record.     *)
(*                                                                         *)
(* Swapped relates the resident snapshot to the generation it is of, which *)
(* lags by one between a publication and its adoption; with Exact it makes *)
(* each step of the engine one of GenerationPublication, or none.          *)
(***************************************************************************)
EXTENDS ArtifactIngestion, FiniteSetTheorems, SequenceTheorems, TLAPS

\* The run is for the generation after the active one, until it publishes it.
Control ==
  /\ pc \in {"parse", "commit", "publish"} => run.id.target = active + 1
  /\ pc \in {"mark", "load"} => run.id.target = active
  /\ pc \in {"parse", "commit", "publish", "mark", "load"} => state = "building"
  /\ state = "ready" => pc = "idle"

\* Manifests, links and the run name records that the store has.
Records ==
  /\ \A g \in DOMAIN generations :
        /\ generations[g].keys \subseteq artifacts
        /\ generations[g].source_revision \in DOMAIN graphs
  /\ \A l \in links : l[2] \in artifacts
  /\ pc \in {"commit", "publish"} => run.keys \subseteq artifacts
  /\ pc = "publish" => run.source_revision \in DOMAIN graphs

\* A checkpoint of the next generation is of the batches of its selected files.
Planned(revs) == TotalBatches(Selected(generation(active), revs))

Checkpoints ==
  \A id \in DOMAIN jobs :
    /\ id.target <= active + 1
    /\ jobs[id].stage = "published" => id.target <= active
    /\ id.target = active + 1 => jobs[id].next <= Planned(id.revs)

\* The run is where its checkpoint says.
Progress ==
  /\ pc \in {"parse", "commit", "publish"} =>
        /\ run.selected = Selected(generation(active), run.id.revs)
        /\ run.next <= TotalBatches(run.selected)
  /\ pc = "commit" => FromBatch(run.selected, run.next) \subseteq DOMAIN run.parsed
  /\ pc \in {"parse", "commit", "publish", "mark"} =>
        (run.id \in DOMAIN jobs => jobs[run.id].next = run.next)

Ingesting == TypeOK /\ HotIsActive /\ Control /\ Records /\ Checkpoints /\ Progress

-----------------------------------------------------------------------------
(***************************************************************************)
(* What a published generation holds.  Exactness is about every step that  *)
(* a record takes on its way to a manifest, so the invariant follows it:   *)
(* from the plan, through the links that an interrupted run leaves, to the *)
(* map that is assembled.                                                  *)
(***************************************************************************)
\* No file changes between its hash and its parse, or nothing has failed yet.
Calm == ~ EditsDuringIngest \/ faults = 0

FactKeys(facts) == {Facts(f, facts[f]) : f \in DOMAIN facts}

\* The run was planned for the manifest that is still active, and for the disk.
Scheduled ==
  pc \in {"parse", "commit", "publish"} =>
    /\ run.removed = Removed(generation(active), run.id.scope, run.id.revs)
    /\ run.source_revision = SourceRevision(generation(active), run.id.scope, run.id.revs)
    /\ DOMAIN run.id.revs \subseteq run.id.scope.files
    /\ run.id \notin DOMAIN jobs /\ pc # "publish" => run.next = 0
    /\ ~ EditsDuringIngest => \A f \in DOMAIN run.id.revs : disk[f] = run.id.revs[f]

\* What a job of the next generation has behind it is linked, for the run that
\* resumes it; with no failure there is nothing to resume.
Resumable ==
  /\ \A l \in links : l[1] <= active + 1
  /\ Calm => \A l \in links : l[2].kind = "facts"
  /\ ~ EditsDuringIngest =>
       \A id \in DOMAIN jobs : id.target = active + 1 =>
         LET S == Selected(generation(active), id.revs)
         IN  \A f \in S \ FromBatch(S, jobs[id].next) :
               <<id.target, Facts(f, id.revs[f])>> \in links
  /\ faults = 0 /\ pc \notin {"commit", "publish"} =>
       /\ \A id \in DOMAIN jobs : id.target <= active
       /\ \A l \in links : l[1] <= active

\* The map assembled so far: what is kept of the predecessor, and of the selected
\* files at least the batches before the next one.
Kept == DOMAIN generation(active).facts \ (run.selected \cup run.removed)

Assembled ==
  Calm /\ pc \in {"commit", "publish"} =>
    /\ run.keys = FactKeys(run.facts)
    /\ Kept \cup (run.selected \ FromBatch(run.selected, run.next)) \subseteq DOMAIN run.facts
    /\ DOMAIN run.facts \subseteq Kept \cup run.selected
    /\ \A f \in Kept : run.facts[f] = generation(active).facts[f]
    /\ pc = "commit" => \A f \in DOMAIN run.facts \cap FromBatch(run.selected, run.next) :
                          run.facts[f] = run.parsed[f]
    /\ pc = "publish" => run.next = TotalBatches(run.selected)

AssembledExact ==
  ~ EditsDuringIngest /\ pc \in {"commit", "publish"} =>
    /\ \A f \in DOMAIN run.facts \cap run.selected : run.facts[f] = run.id.revs[f]
    /\ pc = "commit" => \A f \in DOMAIN run.parsed : run.parsed[f] = run.id.revs[f]

\* A manifest lists the keys of its facts, and its source revision extends its
\* predecessor's.
Chained ==
  \A g \in DOMAIN generations :
    /\ Calm => generations[g].keys = FactKeys(generations[g].facts)
    /\ \E scope \in Scopes, revs \in RevisionMaps :
         /\ generations[g].source_revision = SourceRevision(generation(g - 1), scope, revs)
         /\ DOMAIN revs \subseteq scope.files

\* Equal source revisions are of equal facts, so a graph that is composed again
\* under one is the same graph.
Determined ==
  \A g, h \in 0..active :
    generation(g).source_revision = generation(h).source_revision =>
      generation(g).facts = generation(h).facts

History ==
  /\ Chained
  /\ Calm => SourceCovered
  /\ ~ EditsDuringIngest => SourceExact /\ GraphsMatchGenerations /\ Determined

\* The graph that the run has committed is the one of its keys.
Composed ==
  ~ EditsDuringIngest /\ pc = "publish" => graphs[run.source_revision] = run.keys

Exact ==
  Scheduled /\ Resumable /\ Assembled /\ AssembledExact /\ Composed /\ History

(***************************************************************************)
(* With nothing that fails after a publication, the resident snapshot is   *)
(* of the active generation, or of the one before until it is swapped.     *)
(***************************************************************************)
Swapped ==
  ~ EditsDuringIngest /\ ~ LateFailures =>
    /\ pc = "down" => hot = NoSnapshot
    /\ hot # NoSnapshot =>
         /\ hot.gen = IF pc \in {"mark", "load"} THEN active - 1 ELSE active
         /\ hot.facts = generations[hot.gen].facts
         /\ hot.graph = graphs[generations[hot.gen].source_revision]
    /\ pc \in {"mark", "load"} => SourceOf(active).scope = run.id.scope

-----------------------------------------------------------------------------
(***************************************************************************)
(* Helpers of the model.                                                   *)
(***************************************************************************)
\* A revision map is a function from some of the files to revisions.
LEMMA RevisionMap ==
  ASSUME NEW m
  PROVE  m \in RevisionMaps <=> DOMAIN m \subseteq Files /\ m \in [DOMAIN m -> Revs]
<1>1. ASSUME m \in RevisionMaps
      PROVE  DOMAIN m \subseteq Files /\ m \in [DOMAIN m -> Revs]
  <2>1. PICK S \in SUBSET Files : m \in [S -> Revs]
    BY <1>1 DEF RevisionMaps
  <2>. QED BY <2>1
<1>2. ASSUME DOMAIN m \subseteq Files, m \in [DOMAIN m -> Revs]
      PROVE  m \in RevisionMaps
  BY <1>2 DEF RevisionMaps
<1>. QED BY <1>1, <1>2

\* Laying one map over another gives a map.
LEMMA OverlayType ==
  ASSUME NEW m \in RevisionMaps, NEW n \in RevisionMaps
  PROVE  Overlay(m, n) \in RevisionMaps
<1>1. /\ DOMAIN Overlay(m, n) \subseteq Files
      /\ Overlay(m, n) \in [DOMAIN Overlay(m, n) -> Revs]
  BY RevisionMap DEF Overlay
<1>. QED BY <1>1, RevisionMap

\* Taking files out of a map gives a map.
LEMMA WithoutType ==
  ASSUME NEW m \in RevisionMaps, NEW S
  PROVE  Without(m, S) \in RevisionMaps
<1>1. /\ DOMAIN Without(m, S) \subseteq Files
      /\ Without(m, S) \in [DOMAIN Without(m, S) -> Revs]
  BY RevisionMap DEF Without
<1>. QED BY <1>1, RevisionMap

\* No file at all is a map.
LEMMA EmptyMap == <<>> \in RevisionMaps
<1>1. <<>> \in [{} -> Revs]
  BY SMT
<1>. QED BY <1>1 DEF RevisionMaps

\* The scopes are of files of the project.
LEMMA ScopeFiles ==
  ASSUME NEW scope \in Scopes
  PROVE  scope.files \subseteq Files
BY DEF Scopes, Project, FileScope

\* The number of batches is a natural number.
LEMMA TotalBatchesType ==
  ASSUME NEW S \in SUBSET Files
  PROVE  TotalBatches(S) \in Nat
<1>1. IsFiniteSet(S)
  BY FS_Subset, FilesAssumption
<1>2. Cardinality(S) \in Nat
  BY <1>1, FS_CardinalityType
<1>3. Cardinality(S) + BatchFiles - 1 \in Nat
  BY <1>2, BoundsAssumption
<1>. QED BY <1>3, BoundsAssumption DEF TotalBatches

\* A batch is what the rest from it on has over the rest from the next one on.
LEMMA BatchesSplit ==
  ASSUME NEW S \in SUBSET Files, NEW i \in Nat
  PROVE  /\ BatchOf(S, i) \subseteq FromBatch(S, i)
         /\ FromBatch(S, i + 1) \subseteq FromBatch(S, i)
         /\ FromBatch(S, i + 1) = FromBatch(S, i) \ BatchOf(S, i)
         /\ FromBatch(S, 0) = S
<1>1. \A f \in S : Rank(S, f) \div BatchFiles \in Nat
  <2>. SUFFICES ASSUME NEW f \in S PROVE Rank(S, f) \div BatchFiles \in Nat
    OBVIOUS
  <2>1. IsFiniteSet({g \in S : g < f})
    BY FS_Subset, FilesAssumption
  <2>2. Rank(S, f) \in Nat
    BY <2>1, FS_CardinalityType DEF Rank
  <2>3. \A x \in Nat, b \in Nat \ {0} : x \div b \in Nat
    OBVIOUS
  <2>. QED BY <2>2, <2>3, BoundsAssumption
<1>. QED BY <1>1 DEF BatchOf, FromBatch

\* After the last batch no selected file is left.
LEMMA LastBatch ==
  ASSUME NEW S \in SUBSET Files
  PROVE  FromBatch(S, TotalBatches(S)) = {}
<1>. SUFFICES ASSUME NEW f \in S
              PROVE  ~ (Rank(S, f) \div BatchFiles >= TotalBatches(S))
  BY DEF FromBatch
<1> DEFINE c == Cardinality(S)
           r == Rank(S, f)
<1>1. IsFiniteSet(S)
  BY FS_Subset, FilesAssumption
<1>2. c \in Nat /\ IsFiniteSet(S \ {f}) /\ Cardinality(S \ {f}) = c - 1
  BY <1>1, FS_CardinalityType, FS_RemoveElement
<1>3. {g \in S : g < f} \subseteq S \ {f}
  BY FilesAssumption
<1>4. r \in Nat /\ r <= c - 1
  BY <1>2, <1>3, FS_Subset, FS_CardinalityType DEF Rank
<1>5. r + BatchFiles <= c + BatchFiles - 1 /\ c + BatchFiles - 1 \in Nat
  BY <1>2, <1>4, BoundsAssumption
<1>. HIDE DEF r, c
<1>6. ASSUME NEW b \in Nat \ {0}, NEW x \in Nat, NEW y \in Nat, x + b <= y
      PROVE  ~ (x \div b >= y \div b)
  BY <1>6, SMT
<1>7. ~ (r \div BatchFiles >= (c + BatchFiles - 1) \div BatchFiles)
  BY <1>4, <1>5, <1>6, BoundsAssumption
<1>. QED BY <1>7 DEF TotalBatches, r, c

\* The plan of a generation does not change before it is published.
LEMMA PlannedKept ==
  ASSUME UNCHANGED <<active, generations>>, NEW revs
  PROVE  /\ Selected(generation(active), revs)' = Selected(generation(active), revs)
         /\ Planned(revs)' = Planned(revs)
BY DEF Planned, TotalBatches, Selected, generation, Facts, EmptyManifest

\* The manifest of the active generation, or of none, has the manifests' type.
LEMMA GenerationType ==
  ASSUME TypeOK
  PROVE  generation(active) \in Manifest
<1>1. EmptyManifest \in Manifest
  BY EmptyMap DEF EmptyManifest, Manifest
<1>. QED BY <1>1 DEF generation, TypeOK

\* Checkpoints only depends on the store.
LEMMA CheckpointsKept ==
  ASSUME Checkpoints, UNCHANGED <<active, generations, jobs>>
  PROVE  Checkpoints'
<1>. SUFFICES ASSUME NEW id \in DOMAIN jobs
              PROVE  /\ id.target <= active + 1
                     /\ jobs[id].stage = "published" => id.target <= active
                     /\ id.target = active + 1 => jobs[id].next <= Planned(id.revs)'
  BY DEF Checkpoints
<1>. QED BY PlannedKept DEF Checkpoints

-----------------------------------------------------------------------------
(***************************************************************************)
(* Every action preserves Ingesting.                                       *)
(***************************************************************************)
LEMMA InitIngesting == Init => Ingesting
<1>. SUFFICES ASSUME Init PROVE Ingesting
  OBVIOUS
<1>. USE DEF Init, StoreInit
<1>1. TypeOK
  BY BoundsAssumption DEF TypeOK, Optional
<1>2. HotIsActive /\ Control /\ Records /\ Checkpoints /\ Progress
  BY DEF HotIsActive, Control, Records, Checkpoints, Progress
<1>. QED BY <1>1, <1>2 DEF Ingesting

\* The editor touches nothing of the daemon's.
LEMMA EditIngesting ==
  ASSUME Ingesting, NEW f \in Files, NEW r \in Revs \cup {Absent}, Edit(f, r)
  PROVE  Ingesting'
<1>. USE DEF Edit, storeVars
<1>1. TypeOK'
  BY BoundsAssumption DEF Ingesting, TypeOK, Optional
<1>2. HotIsActive' /\ Control' /\ Records'
  BY DEF Ingesting, HotIsActive, Control, Records
<1>3. Checkpoints'
  BY CheckpointsKept DEF Ingesting
<1>4. Progress'
  BY PlannedKept DEF Ingesting, Progress, TotalBatches, FromBatch, Rank
<1>. QED BY <1>1, <1>2, <1>3, <1>4 DEF Ingesting

\* What is decoded of a published generation is a snapshot.
LEMMA SnapshotType ==
  ASSUME TypeOK, Records, NEW g \in 1..active, NEW facts \in RevisionMaps
  PROVE  Snapshot(g, facts, generations[g]) \in Resident
<1>1. g \in 1..MaxGeneration
  BY BoundsAssumption DEF TypeOK
<1>2. generations[g].source_revision \in DOMAIN graphs
  BY DEF TypeOK, Records
<1>3. graphs[generations[g].source_revision] \subseteq Key
  BY <1>2 DEF TypeOK
<1>. QED BY <1>1, <1>3 DEF Snapshot, Resident

\* The snapshot decoded from a whole manifest.
LEMMA LoadSnapshotType ==
  ASSUME TypeOK, Records, NEW g \in 1..active
  PROVE  LoadSnapshot(g) \in Resident
<1>1. generations[g].facts \in RevisionMaps
  BY DEF TypeOK, Manifest
<1>. QED BY <1>1, SnapshotType DEF LoadSnapshot

\* Opening decodes the active generation, if there is one.
LEMMA OpenIngesting ==
  ASSUME Ingesting, Open
  PROVE  Ingesting'
<1>. USE DEF Open, storeVars
<1>1. active # 0 => LoadSnapshot(active) \in Resident
  BY LoadSnapshotType, BoundsAssumption DEF Ingesting, TypeOK
<1>2. TypeOK'
  BY <1>1 DEF Ingesting, TypeOK, Optional
<1>3. HotIsActive'
  BY <1>1, SentinelsAssumption DEF HotIsActive, LoadSnapshot, Snapshot
<1>4. Control' /\ Records' /\ Progress'
  BY DEF Ingesting, Control, Records, Progress
<1>5. Checkpoints'
  BY CheckpointsKept DEF Ingesting
<1>. QED BY <1>2, <1>3, <1>4, <1>5 DEF Ingesting

\* The revisions of a scope's files, and the source revision hashed from them.
LEMMA PlanTypes ==
  ASSUME TypeOK, NEW scope \in Scopes
  PROVE  /\ RevisionsOf(scope) \in RevisionMaps
         /\ SourceRevision(generation(active), scope, RevisionsOf(scope)) \in Seq(Source)
<1> DEFINE revs == RevisionsOf(scope)
<1>1. revs \in RevisionMaps
  <2>1. DOMAIN revs \subseteq Files /\ revs \in [DOMAIN revs -> Revs]
    BY ScopeFiles DEF RevisionsOf, TypeOK, Optional
  <2>. QED BY <2>1, RevisionMap
<1>2. [scope |-> scope, revs |-> revs] \in Source
  BY <1>1 DEF Source
<1>3. generation(active).source_revision \in Seq(Source)
  BY GenerationType DEF Manifest
<1>. HIDE DEF revs
<1>4. SourceRevision(generation(active), scope, revs) \in Seq(Source)
  BY <1>2, <1>3 DEF SourceRevision
<1>. QED BY <1>1, <1>4 DEF revs

\* A run starts at the checkpoint of its job, or at the first batch.
LEMMA BeginIngesting ==
  ASSUME Ingesting, NEW scope \in Scopes, Begin(scope)
  PROVE  Ingesting'
<1> DEFINE revs == RevisionsOf(scope)
           prev == generation(active)
           src  == SourceRevision(prev, scope, revs)
           sel  == Selected(prev, revs)
           id   == [target |-> active + 1, scope |-> scope, revs |-> revs]
           new  == [id |-> id, source_revision |-> src, selected |-> sel,
                    removed |-> Removed(prev, scope, revs), next |-> NextBatch(id),
                    parsed |-> <<>>, keys |-> {}, facts |-> <<>>]
<1>1. revs \in RevisionMaps /\ src \in Seq(Source)
  BY PlanTypes DEF Ingesting
<1>2. sel \in SUBSET Files
  BY <1>1, RevisionMap DEF Selected
<1>3. Removed(prev, scope, revs) \in SUBSET Files
  <2>1. \A k \in prev.keys : k.file \in Files
    BY GenerationType DEF Ingesting, Manifest, Key
  <2>. QED BY <2>1, ScopeFiles DEF Removed
<1>4. id \in JobId
  BY <1>1, BoundsAssumption DEF Begin, JobId, Ingesting, TypeOK
<1>5. /\ NextBatch(id) \in Nat
      /\ NextBatch(id) <= TotalBatches(sel)
      /\ id \in DOMAIN jobs => jobs[id].next = NextBatch(id)
  <2>1. CASE id \in DOMAIN jobs
    <3>1. jobs[id] \in Checkpoint
      BY <2>1 DEF Ingesting, TypeOK
    <3>2. id.target = active + 1 /\ id.revs = revs /\ active \in Nat
      BY BoundsAssumption DEF Ingesting, TypeOK
    <3>3. jobs[id].stage # "published"
      BY <2>1, <3>2 DEF Ingesting, Checkpoints
    <3>4. jobs[id].next <= TotalBatches(sel)
      BY <2>1, <3>2 DEF Ingesting, Checkpoints, Planned
    <3>. QED BY <2>1, <3>1, <3>3, <3>4 DEF NextBatch, Checkpoint
  <2>2. CASE id \notin DOMAIN jobs
    BY <2>2, <1>2, TotalBatchesType DEF NextBatch
  <2>. QED BY <2>1, <2>2
<1>. HIDE DEF revs, prev, src, sel, id
<1>7. new \in Locals
  BY <1>1, <1>2, <1>3, <1>4, <1>5, EmptyMap DEF Locals
<1>8. /\ run' = new
      /\ pc = "idle" /\ pc' = "parse" /\ state' = "building"
      /\ UNCHANGED <<storeVars, disk, hot, edits, faults>>
  BY DEF Begin, revs, prev, src, sel, id
<1>9. TypeOK'
  BY <1>7, <1>8, SentinelsAssumption DEF Ingesting, TypeOK, Optional, storeVars
<1>10. Control' /\ HotIsActive' /\ Records'
  BY <1>8 DEF Ingesting, Control, HotIsActive, Records, storeVars, id
<1>11. Checkpoints'
  BY <1>8, CheckpointsKept DEF Ingesting, storeVars
<1>12. Progress'
  <2>1. generation(active)' = generation(active)
    BY <1>8 DEF storeVars, generation, EmptyManifest
  <2>2. run'.selected = sel /\ run'.id = id /\ run'.id.revs = revs /\ run'.next = NextBatch(id)
    BY <1>8 DEF id
  <2>3. sel = Selected(generation(active), run.id.revs)'
    BY <2>1, <2>2 DEF Selected, Facts, sel, prev
  <2>4. (run.next <= TotalBatches(run.selected))'
    BY <2>2, <1>5 DEF TotalBatches
  <2>5. (run.id \in DOMAIN jobs => jobs[run.id].next = run.next)'
    BY <2>2, <1>5, <1>8 DEF storeVars
  <2>. QED BY <2>2, <2>3, <2>4, <2>5, <1>8 DEF Progress
<1>. QED BY <1>9, <1>10, <1>11, <1>12 DEF Ingesting

\* While an ingestion works, its locals have their type.
LEMMA RunType ==
  ASSUME TypeOK, pc \notin {"down", "idle"}
  PROVE  run \in Locals /\ run # NoRun
BY DEF TypeOK, Optional

\* What a resumed run recovers has records, of the revisions it was planned for.
LEMMA RecoveredType ==
  ASSUME TypeOK, Records, NEW g, NEW S, NEW revs \in RevisionMaps
  PROVE  /\ Recovered(g, S, revs) \subseteq Key \cap artifacts
         /\ \A k \in Recovered(g, S, revs) : k.file \in DOMAIN revs
<1>1. \A l \in links : l[2] \in Key /\ l[2] \in artifacts
  BY DEF TypeOK, Records
<1>. QED BY <1>1 DEF Recovered

\* Parsing reads the remaining files and assembles the starting keys.
LEMMA ParseIngesting ==
  ASSUME Ingesting, Parse
  PROVE  Ingesting'
<1> DEFINE remaining   == FromBatch(run.selected, run.next)
           prev        == generation(active)
           regenerated == run.selected \cup run.removed
           recovered   == Recovered(run.id.target, regenerated, run.id.revs)
           parsed      == [f \in remaining |-> disk[f]]
           keys        == {k \in prev.keys : k.file \notin regenerated} \cup recovered
           reused      == [f \in {k.file : k \in recovered} |-> run.id.revs[f]]
           facts       == Overlay(Without(prev.facts, regenerated), reused)
<1>1. run \in Locals /\ run.id.revs \in RevisionMaps
  BY RunType DEF Ingesting, Parse, Locals, JobId
<1>2. parsed \in RevisionMaps
  <2>1. \A f \in remaining : f \in Files /\ disk[f] \in Revs
    BY <1>1 DEF Parse, FromBatch, Locals, Ingesting, TypeOK, Optional
  <2>. QED BY <2>1, RevisionMap
<1>3. /\ recovered \subseteq Key \cap artifacts
      /\ \A k \in recovered : k.file \in DOMAIN run.id.revs
  BY <1>1, RecoveredType DEF Ingesting
<1>4. prev \in Manifest /\ prev.keys \subseteq artifacts
  BY GenerationType DEF Ingesting, Records, generation, EmptyManifest
<1>5. keys \subseteq Key \cap artifacts
  BY <1>3, <1>4 DEF Manifest
<1>6. reused \in RevisionMaps
  BY <1>1, <1>3, RevisionMap
<1>7. facts \in RevisionMaps
  BY <1>4, <1>6, OverlayType, WithoutType DEF Manifest
<1>. HIDE DEF parsed, keys, facts
<1>8. /\ run' = [run EXCEPT !.parsed = parsed, !.keys = keys, !.facts = facts]
      /\ pc = "parse" /\ pc' = "commit"
      /\ UNCHANGED <<storeVars, disk, state, hot, edits, faults>>
  BY DEF Parse, parsed, keys, facts
<1>9. run' \in Locals
  BY <1>1, <1>2, <1>5, <1>7, <1>8 DEF Locals
<1>10. TypeOK'
  BY <1>8, <1>9, SentinelsAssumption DEF Ingesting, TypeOK, Optional, storeVars
<1>11. /\ run'.id = run.id /\ run'.selected = run.selected /\ run'.next = run.next
       /\ run'.keys = keys /\ run'.parsed = parsed
  BY <1>1, <1>8 DEF Locals
<1>12. HotIsActive' /\ Control'
  BY <1>8, <1>11 DEF Ingesting, HotIsActive, Control, storeVars
<1>13. Records'
  BY <1>5, <1>8, <1>11 DEF Ingesting, Records, storeVars
<1>14. Checkpoints'
  BY <1>8, CheckpointsKept DEF Ingesting, storeVars
<1>15. Progress'
  <2>1. UNCHANGED <<active, generations, jobs>>
    BY <1>8 DEF storeVars
  <2>2. FromBatch(run.selected, run.next)' = DOMAIN parsed
    BY <1>11 DEF FromBatch, Rank, parsed
  <2>. QED BY <2>1, <2>2, <1>8, <1>11, PlannedKept DEF Ingesting, Progress, TotalBatches
<1>. QED BY <1>10, <1>12, <1>13, <1>14, <1>15 DEF Ingesting

\* What a transaction of the run (WriteBatch, spelled out) does to the tables.
LEMMA WriteBatchTables ==
  ASSUME TypeOK, run.id \in JobId, NEW recs \in SUBSET Key,
         NEW stage \in {"commit", "validation", "published"}, NEW next \in Nat,
         jobs' = Insert(jobs, run.id, [stage |-> stage, next |-> next]),
         artifacts' = artifacts \cup recs,
         links' = links \cup ({run.id.target} \X recs)
  PROVE  /\ DOMAIN jobs' = DOMAIN jobs \cup {run.id}
         /\ jobs'[run.id].stage = stage /\ jobs'[run.id].next = next
         /\ \A x \in DOMAIN jobs : x # run.id => jobs'[x] = jobs[x]
         /\ \A x \in DOMAIN jobs' : jobs'[x] \in Checkpoint
         /\ artifacts' \subseteq Key
         /\ links' \subseteq (1..MaxGeneration) \X Key
         /\ \A l \in links' : l \in links \/ l[2] \in recs
<1> DEFINE row == [stage |-> stage, next |-> next]
<1>1. row \in Checkpoint /\ row.stage = stage /\ row.next = next
  BY DEF Checkpoint
<1>2. jobs' = Insert(jobs, run.id, row)
  OBVIOUS
<1>. HIDE DEF row
<1>3. /\ DOMAIN jobs' = DOMAIN jobs \cup {run.id}
      /\ jobs'[run.id] = row
      /\ \A x \in DOMAIN jobs : x # run.id => jobs'[x] = jobs[x]
  BY <1>2 DEF Insert
<1>4. \A x \in DOMAIN jobs' : jobs'[x] \in Checkpoint
  BY <1>1, <1>3 DEF TypeOK
<1>5. links' \subseteq (1..MaxGeneration) \X Key
  BY DEF TypeOK, JobId
<1>. QED BY <1>1, <1>3, <1>4, <1>5 DEF TypeOK

\* The checkpoint of a run before its publication: no other job changes, and
\* its own is of the batches of the plan.
LEMMA CheckpointsWritten ==
  ASSUME Ingesting, UNCHANGED <<active, generations>>,
         DOMAIN jobs' = DOMAIN jobs \cup {run.id},
         \A x \in DOMAIN jobs : x # run.id => jobs'[x] = jobs[x],
         run.id.target = active + 1,
         jobs'[run.id].stage # "published",
         jobs'[run.id].next <= Planned(run.id.revs)
  PROVE  Checkpoints'
<1>. SUFFICES ASSUME NEW id \in DOMAIN jobs'
              PROVE  /\ id.target <= active + 1
                     /\ jobs'[id].stage = "published" => id.target <= active
                     /\ id.target = active + 1 => jobs'[id].next <= Planned(id.revs)'
  BY DEF Checkpoints
<1>1. active \in Nat
  BY BoundsAssumption DEF Ingesting, TypeOK
<1>2. Planned(id.revs)' = Planned(id.revs)
  BY PlannedKept
<1>3. CASE id = run.id
  BY <1>1, <1>2, <1>3
<1>4. CASE id # run.id
  BY <1>2, <1>4 DEF Ingesting, Checkpoints
<1>. QED BY <1>3, <1>4

\* A batch and its checkpoint move on together.
LEMMA CommitBatchIngesting ==
  ASSUME Ingesting, CommitBatch
  PROVE  Ingesting'
<1> DEFINE batch == BatchOf(run.selected, run.next)
           recs  == {Facts(f, run.parsed[f]) : f \in batch}
           added == [f \in batch |-> run.parsed[f]]
<1>1. run \in Locals /\ run.id \in JobId /\ active \in Nat
  BY RunType, BoundsAssumption DEF Ingesting, CommitBatch, Locals, TypeOK

<1>2. batch \subseteq Files /\ batch \subseteq DOMAIN run.parsed /\ run.parsed \in RevisionMaps
  BY <1>1, BatchesSplit DEF Ingesting, Progress, CommitBatch, Locals, BatchOf
<1>3. added \in RevisionMaps /\ recs \in SUBSET Key
  BY <1>2, RevisionMap DEF Facts, Key
<1> DEFINE facts == Overlay(run.facts, added)
<1>4. facts \in RevisionMaps
  BY <1>1, <1>3, OverlayType DEF Locals
<1>. HIDE DEF recs, facts
<1>5. /\ run' = [run EXCEPT !.keys = @ \cup recs, !.facts = facts, !.next = @ + 1]
      /\ WriteBatch(run.id, recs, "commit", run.next + 1)
      /\ pc = "commit" /\ pc' = "commit"
      /\ UNCHANGED <<active, previous, generations, graphs, disk, state, hot, edits, faults>>
  BY DEF CommitBatch, recs, facts
<1>6. run' \in Locals
  <2>1. run.next + 1 \in Nat /\ run.keys \cup recs \in SUBSET Key
    BY <1>1, <1>3 DEF Locals
  <2>. QED BY <1>1, <1>4, <1>5, <2>1 DEF Locals
<1>7. /\ run'.id = run.id /\ run'.selected = run.selected /\ run'.next = run.next + 1
      /\ run'.keys = run.keys \cup recs /\ run'.parsed = run.parsed
  BY <1>1, <1>5 DEF Locals
<1>8. /\ DOMAIN jobs' = DOMAIN jobs \cup {run.id}
      /\ jobs'[run.id].stage = "commit" /\ jobs'[run.id].next = run.next + 1
      /\ \A x \in DOMAIN jobs : x # run.id => jobs'[x] = jobs[x]
      /\ \A x \in DOMAIN jobs' : jobs'[x] \in Checkpoint
      /\ artifacts' = artifacts \cup recs
      /\ artifacts' \subseteq Key
      /\ links' \subseteq (1..MaxGeneration) \X Key
      /\ \A l \in links' : l \in links \/ l[2] \in recs
  <2>1. /\ jobs' = Insert(jobs, run.id, [stage |-> "commit", next |-> run.next + 1])
        /\ artifacts' = artifacts \cup recs
        /\ links' = links \cup ({run.id.target} \X recs)
    BY <1>5 DEF WriteBatch
  <2>2. run.next + 1 \in Nat
    BY <1>1 DEF Locals
  <2>. QED BY <2>1, <2>2, <1>1, <1>3, WriteBatchTables DEF Ingesting
<1>9. run.next + 1 \in Nat /\ run.next + 1 <= TotalBatches(run.selected)
  BY <1>1, TotalBatchesType DEF CommitBatch, Locals
<1>10. TypeOK'
  BY <1>1, <1>5, <1>6, <1>8, SentinelsAssumption DEF Ingesting, TypeOK, Optional
<1>11. HotIsActive' /\ Control'
  BY <1>5, <1>7 DEF Ingesting, HotIsActive, Control
<1>12. Records'
  BY <1>5, <1>7, <1>8 DEF Ingesting, Records
<1>13. Checkpoints'
  <2>1. run.id.target = active + 1 /\ run.next + 1 <= Planned(run.id.revs)
    BY <1>5, <1>9 DEF Ingesting, Control, Progress, Planned
  <2>. QED BY <2>1, <1>5, <1>8, CheckpointsWritten
<1>14. Progress'
  <2>1. FromBatch(run.selected, run.next)' \subseteq DOMAIN run'.parsed
    <3>1. FromBatch(run.selected, run.next + 1) \subseteq DOMAIN run.parsed
      BY <1>1, <1>5, BatchesSplit DEF Ingesting, Progress, Locals
    <3>. QED BY <3>1, <1>7 DEF FromBatch, Rank
  <2>2. (run.selected = Selected(generation(active), run.id.revs))'
    BY <1>5, <1>7, PlannedKept DEF Ingesting, Progress
  <2>3. (run.next <= TotalBatches(run.selected))'
    BY <1>7, <1>9 DEF TotalBatches
  <2>4. (run.id \in DOMAIN jobs => jobs[run.id].next = run.next)'
    BY <1>7, <1>8
  <2>. QED BY <2>1, <2>2, <2>3, <2>4, <1>5 DEF Progress
<1>. QED BY <1>10, <1>11, <1>12, <1>13, <1>14 DEF Ingesting

\* The graph is committed after the last batch, for the source published next.
LEMMA CommitGraphIngesting ==
  ASSUME Ingesting, CommitGraph
  PROVE  Ingesting'
<1> DEFINE composed == {k \in run.keys : k.kind = "facts"}
<1>1. run \in Locals /\ run.id \in JobId /\ run.next \in Nat
  BY RunType DEF Ingesting, CommitGraph, Locals
<1>2. composed \subseteq Key /\ run.source_revision \in Seq(Source)
  BY <1>1 DEF Locals
<1>. HIDE DEF composed
<1>3. /\ graphs' = Insert(graphs, run.source_revision, composed)
      /\ jobs' = Insert(jobs, run.id, [stage |-> "validation", next |-> run.next])
      /\ artifacts' = artifacts \cup {}
      /\ links' = links \cup ({run.id.target} \X {})
      /\ pc = "commit" /\ pc' = "publish"
      /\ UNCHANGED <<active, previous, generations, disk, run, state, hot, edits, faults>>
  BY DEF CommitGraph, WriteBatch, composed
<1>4. /\ DOMAIN jobs' = DOMAIN jobs \cup {run.id}
      /\ jobs'[run.id].stage = "validation" /\ jobs'[run.id].next = run.next
      /\ \A x \in DOMAIN jobs : x # run.id => jobs'[x] = jobs[x]
      /\ \A x \in DOMAIN jobs' : jobs'[x] \in Checkpoint
      /\ artifacts' \subseteq Key
      /\ links' \subseteq (1..MaxGeneration) \X Key
      /\ \A l \in links' : l \in links \/ l[2] \in {}
  BY <1>1, <1>3, WriteBatchTables DEF Ingesting
<1>5. /\ DOMAIN graphs' = DOMAIN graphs \cup {run.source_revision}
      /\ \A s \in DOMAIN graphs' :
           graphs'[s] = composed \/ (s \in DOMAIN graphs /\ graphs'[s] = graphs[s])
  BY <1>3 DEF Insert
<1>6. DOMAIN graphs' \subseteq Seq(Source) /\ \A s \in DOMAIN graphs' : graphs'[s] \subseteq Key
  BY <1>2, <1>5 DEF Ingesting, TypeOK
<1>7. TypeOK'
  BY <1>1, <1>3, <1>4, <1>6 DEF Ingesting, TypeOK, Optional
<1>8. HotIsActive' /\ Control'
  BY <1>3 DEF Ingesting, HotIsActive, Control
<1>9. Records'
  BY <1>3, <1>4, <1>5 DEF Ingesting, Records
<1>10. Checkpoints'
  <2>1. run.id.target = active + 1 /\ run.next <= Planned(run.id.revs)
    BY <1>3 DEF Ingesting, Control, Progress, Planned
  <2>. QED BY <2>1, <1>3, <1>4, CheckpointsWritten
<1>11. Progress'
  BY <1>3, <1>4, PlannedKept DEF Ingesting, Progress, TotalBatches
<1>. QED BY <1>7, <1>8, <1>9, <1>10, <1>11 DEF Ingesting

\* The publication moves active: no job of the next generation exists yet.
LEMMA PublishIngesting ==
  ASSUME Ingesting, PublishGeneration
  PROVE  Ingesting'
<1> DEFINE g == active + 1
<1>1. run \in Locals /\ active \in Nat /\ run.id.target = g /\ g \in 1..MaxGeneration
  BY RunType, BoundsAssumption DEF Ingesting, PublishGeneration, Control, Locals, JobId, TypeOK
<1>2. RunManifest \in Manifest
  BY <1>1 DEF RunManifest, Locals, Manifest
<1>3. /\ generations' = Insert(generations, g, RunManifest)
      /\ links' = links \cup ({g} \X run.keys)
      /\ previous' = active /\ active' = g
      /\ pc = "publish" /\ pc' = "mark"
      /\ UNCHANGED <<artifacts, graphs, jobs, disk, run, state, hot, edits, faults>>
  BY <1>1 DEF PublishGeneration, Publish, RunManifest
<1>4. /\ generations' \in [1..g -> Manifest]
      /\ \A h \in 1..g :
           generations'[h] = RunManifest \/ (h \in 1..active /\ generations'[h] = generations[h])
  BY <1>1, <1>2, <1>3 DEF Insert, Ingesting, TypeOK
<1>5. links' \subseteq (1..MaxGeneration) \X Key
  BY <1>1, <1>3 DEF Ingesting, TypeOK, Locals
<1>6. TypeOK'
  BY <1>1, <1>3, <1>4, <1>5 DEF Ingesting, TypeOK, Optional
<1>7. HotIsActive' /\ Control'
  BY <1>1, <1>3 DEF Ingesting, HotIsActive, Control
<1>8. Records'
  <2>1. run.keys \subseteq artifacts /\ run.source_revision \in DOMAIN graphs
    BY <1>3 DEF Ingesting, Records
  <2>2. \A h \in DOMAIN generations' : /\ generations'[h].keys \subseteq artifacts
                                     /\ generations'[h].source_revision \in DOMAIN graphs
    BY <1>4, <2>1 DEF Ingesting, TypeOK, Records, RunManifest
  <2>3. \A l \in links' : l[2] \in artifacts
    BY <1>3, <2>1 DEF Ingesting, Records
  <2>. QED BY <1>3, <2>2, <2>3 DEF Records
<1>9. Checkpoints'
  <2>1. \A id \in DOMAIN jobs : id.target \in Nat /\ id.target <= active + 1
    BY DEF Ingesting, TypeOK, JobId, Checkpoints
  <2>. QED BY <1>1, <1>3, <2>1 DEF Ingesting, Checkpoints
<1>10. Progress'
  BY <1>3 DEF Ingesting, Progress
<1>. QED BY <1>6, <1>7, <1>8, <1>9, <1>10 DEF Ingesting

\* The job of a published generation is marked so.
LEMMA MarkIngesting ==
  ASSUME Ingesting, MarkPublished
  PROVE  Ingesting'
<1>1. run \in Locals /\ run.id \in JobId /\ run.next \in Nat /\ active \in Nat /\ run.id.target = active
  BY RunType, BoundsAssumption DEF Ingesting, MarkPublished, Locals, Control, TypeOK
<1>2. /\ jobs' = Insert(jobs, run.id, [stage |-> "published", next |-> run.next])
      /\ artifacts' = artifacts \cup {}
      /\ links' = links \cup ({run.id.target} \X {})
      /\ pc = "mark" /\ pc' = "load"
      /\ UNCHANGED <<active, previous, generations, graphs, disk, run, state, hot, edits, faults>>
  BY DEF MarkPublished, WriteBatch
<1>3. /\ DOMAIN jobs' = DOMAIN jobs \cup {run.id}
      /\ \A x \in DOMAIN jobs : x # run.id => jobs'[x] = jobs[x]
      /\ \A x \in DOMAIN jobs' : jobs'[x] \in Checkpoint
      /\ artifacts' \subseteq Key
      /\ links' \subseteq (1..MaxGeneration) \X Key
      /\ \A l \in links' : l \in links \/ l[2] \in {}
  BY <1>1, <1>2, WriteBatchTables DEF Ingesting
<1>4. TypeOK'
  BY <1>1, <1>2, <1>3 DEF Ingesting, TypeOK, Optional
<1>5. HotIsActive' /\ Control' /\ Records' /\ Progress'
  BY <1>2, <1>3 DEF Ingesting, HotIsActive, Control, Records, Progress
<1>6. Checkpoints'
  <2>. SUFFICES ASSUME NEW id \in DOMAIN jobs'
                PROVE  /\ id.target <= active + 1
                       /\ jobs'[id].stage = "published" => id.target <= active
                       /\ id.target = active + 1 => jobs'[id].next <= Planned(id.revs)'
    BY <1>2 DEF Checkpoints
  <2>1. Planned(id.revs)' = Planned(id.revs)
    BY <1>2, PlannedKept
  <2>2. CASE id = run.id
    BY <1>1, <2>2
  <2>3. CASE id # run.id
    BY <1>3, <2>1, <2>3 DEF Ingesting, Checkpoints
  <2>. QED BY <2>2, <2>3
<1>. QED BY <1>4, <1>5, <1>6 DEF Ingesting

\* The manager swaps in the generation that was published: the active one.
LEMMA AdoptIngesting ==
  ASSUME Ingesting, Adopt
  PROVE  Ingesting'
<1> DEFINE g == run.id.target
<1>1. run \in Locals /\ g = active /\ g \in 1..active
  BY RunType, BoundsAssumption DEF Ingesting, Adopt, Locals, JobId, Control, TypeOK
<1>2. /\ pc = "load" /\ pc' = "idle" /\ state' = "ready" /\ run' = NoRun
      /\ UNCHANGED <<storeVars, disk, edits, faults>>
  BY DEF Adopt
<1>3. hot' \in Resident /\ hot'.gen = active
  <2>1. CASE run.id.scope = Project \/ hot = NoSnapshot
    <3>1. hot' = LoadSnapshot(g)
      BY <2>1 DEF Adopt
    <3>2. LoadSnapshot(g) \in Resident
      BY <1>1, LoadSnapshotType DEF Ingesting
    <3>. QED BY <1>1, <3>1, <3>2 DEF LoadSnapshot, Snapshot
  <2>2. CASE ~ (run.id.scope = Project \/ hot = NoSnapshot)
    <3> DEFINE changed == run.id.scope.files
               fresh   == [f \in changed \cap DOMAIN generations[g].facts |-> generations[g].facts[f]]
    <3>1. hot' = Snapshot(g, RefreshedFacts(g, hot, changed), generations[g])
      BY <2>2 DEF Adopt
    <3>2. hot.facts \in RevisionMaps
      BY <2>2 DEF Ingesting, TypeOK, Optional, Resident
    <3>3. generations[g].facts \in RevisionMaps
      BY <1>1 DEF Ingesting, TypeOK, Manifest
    <3>4. fresh \in RevisionMaps
      BY <3>3, RevisionMap
    <3>5. RefreshedFacts(g, hot, changed) \in RevisionMaps
      BY <3>2, <3>4, OverlayType, WithoutType DEF RefreshedFacts
    <3>6. hot' \in Resident
      BY <1>1, <3>1, <3>5, SnapshotType DEF Ingesting
    <3>. QED BY <1>1, <3>1, <3>6 DEF Snapshot
  <2>. QED BY <2>1, <2>2
<1>4. TypeOK'
  BY <1>2, <1>3 DEF Ingesting, TypeOK, Optional, storeVars
<1>5. HotIsActive' /\ Control' /\ Records' /\ Progress'
  BY <1>2, <1>3, SentinelsAssumption DEF Ingesting, HotIsActive, Control, Records, Progress, storeVars
<1>6. Checkpoints'
  BY <1>2, CheckpointsKept DEF Ingesting, storeVars
<1>. QED BY <1>4, <1>5, <1>6 DEF Ingesting

\* An ingestion that ends without a snapshot, and a daemon that is killed, lose
\* what is in memory only.
LEMMA AbandonIngesting ==
  ASSUME Ingesting, UNCHANGED <<storeVars, disk, edits>>,
         pc' \in {"down", "idle"}, run' = NoRun,
         state' \in {"cold", "building", "ready", "failed"},
         state' # "ready",
         hot' = hot \/ hot' = NoSnapshot,
         faults' \in 0..MaxFaults
  PROVE  Ingesting'
<1>1. TypeOK'
  BY DEF Ingesting, TypeOK, Optional, storeVars
<1>2. HotIsActive' /\ Control' /\ Records' /\ Progress'
  BY DEF Ingesting, HotIsActive, Control, Records, Progress, storeVars
<1>3. Checkpoints'
  BY CheckpointsKept DEF Ingesting, storeVars
<1>. QED BY <1>1, <1>2, <1>3 DEF Ingesting

\* A failed parse, call or decoding, a refused refresh and a crash.
LEMMA FailuresIngesting ==
  ASSUME Ingesting, RefuseRefresh \/ LoadFails \/ ParseFails \/ CallFails \/ Crash
  PROVE  Ingesting'
<1>0. faults \in 0..MaxFaults
  BY DEF Ingesting, TypeOK
<1>1. CASE RefuseRefresh
  <2>1. state # "ready"
    BY <1>1 DEF RefuseRefresh, Ingesting, Control
  <2>. QED BY <1>0, <1>1, <2>1, AbandonIngesting DEF RefuseRefresh, Ingesting, TypeOK
<1>2. CASE ParseFails
  BY <1>0, <1>2, AbandonIngesting DEF ParseFails, EngineFails
<1>3. CASE CallFails
  BY <1>0, <1>3, AbandonIngesting, BoundsAssumption DEF CallFails, EngineFails
<1>4. CASE Crash
  BY <1>0, <1>4, AbandonIngesting, BoundsAssumption DEF Crash
<1>5. CASE LoadFails
  <2>1. state # "ready"
    BY <1>5 DEF LoadFails, Ingesting, Control
  <2>. QED BY <1>0, <1>5, <2>1, AbandonIngesting, BoundsAssumption
           DEF LoadFails, Ingesting, TypeOK
<1>. QED BY <1>1, <1>2, <1>3, <1>4, <1>5

\* Every part of Ingesting is about the variables only.
LEMMA StutterIngesting ==
  ASSUME Ingesting, UNCHANGED vars
  PROVE  Ingesting'
<1>1. Checkpoints'
  BY CheckpointsKept DEF Ingesting, vars
<1>2. Progress'
  BY PlannedKept DEF Ingesting, Progress, vars, TotalBatches, FromBatch, Rank
<1>. QED
  BY <1>1, <1>2 DEF Ingesting, TypeOK, HotIsActive, Control, Records, vars

\* Ingesting is inductive: one step per action of the specification.
LEMMA NextIngesting == Ingesting /\ [Next]_vars => Ingesting'
<1>. SUFFICES ASSUME Ingesting, [Next]_vars PROVE Ingesting'
  OBVIOUS
<1>1. ASSUME NEW f \in Files, NEW r \in Revs \cup {Absent}, Edit(f, r) PROVE Ingesting'
  BY <1>1, EditIngesting
<1>2. CASE Open
  BY <1>2, OpenIngesting
<1>3. CASE Ingest
  BY <1>3, BeginIngesting DEF Ingest
<1>4. CASE Parse
  BY <1>4, ParseIngesting
<1>5. CASE CommitBatch
  BY <1>5, CommitBatchIngesting
<1>6. CASE CommitGraph
  BY <1>6, CommitGraphIngesting
<1>7. CASE PublishGeneration
  BY <1>7, PublishIngesting
<1>8. CASE MarkPublished
  BY <1>8, MarkIngesting
<1>9. CASE Adopt
  BY <1>9, AdoptIngesting
<1>10. CASE RefuseRefresh \/ LoadFails \/ ParseFails \/ CallFails \/ Crash
  BY <1>10, FailuresIngesting
<1>11. CASE Finished \/ UNCHANGED vars
  BY <1>11, StutterIngesting DEF Finished
<1>. QED
  BY <1>1, <1>2, <1>3, <1>4, <1>5, <1>6, <1>7, <1>8, <1>9, <1>10, <1>11 DEF Next

\* Ingesting holds in every reachable state.
LEMMA AlwaysIngesting == Spec => []Ingesting
BY InitIngesting, NextIngesting, PTL DEF Spec

-----------------------------------------------------------------------------
(***************************************************************************)
(* Every action preserves Exact, in a state that Ingesting describes.      *)
(***************************************************************************)
\* What a scope's revisions make of a predecessor's facts.
Result(prev, scope, revs) ==
  IF scope = Project THEN revs ELSE Overlay(Without(prev.facts, scope.files), revs)

\* A source revision ends with what was hashed last, and tells its predecessor's.
LEMMA SourceRevisionLast ==
  ASSUME NEW prev \in Manifest, NEW scope \in Scopes, NEW revs \in RevisionMaps
  PROVE  LET s == SourceRevision(prev, scope, revs)
         IN  s # <<>> /\ s[Len(s)] = [scope |-> scope, revs |-> revs]
<1> DEFINE x == [scope |-> scope, revs |-> revs]
<1>1. x \in Source /\ prev.source_revision \in Seq(Source)
  BY DEF Source, Manifest
<1>. HIDE DEF x
<1>2. CASE scope = Project
  BY <1>2 DEF SourceRevision, x
<1>3. CASE scope # Project
  <2>1. SourceRevision(prev, scope, revs) = Append(prev.source_revision, x)
    BY <1>3 DEF SourceRevision, x
  <2>. QED BY <1>1, <2>1, AppendProperties DEF x
<1>. QED BY <1>2, <1>3

LEMMA SourceRevisionInjective ==
  ASSUME NEW p \in Manifest, NEW q \in Manifest, NEW s \in Scopes, NEW t \in Scopes,
         NEW m \in RevisionMaps, NEW n \in RevisionMaps,
         SourceRevision(p, s, m) = SourceRevision(q, t, n)
  PROVE  s = t /\ m = n /\ (s # Project => p.source_revision = q.source_revision)
<1> DEFINE x == [scope |-> s, revs |-> m]
           y == [scope |-> t, revs |-> n]
<1>1. /\ x \in Source /\ y \in Source
      /\ p.source_revision \in Seq(Source) /\ q.source_revision \in Seq(Source)
  BY DEF Source, Manifest
<1>2. x = y
  BY SourceRevisionLast
<1>3. s = t /\ m = n
  BY <1>2
<1>4. ASSUME s # Project PROVE p.source_revision = q.source_revision
  <2>. HIDE DEF x, y
  <2>1. Append(p.source_revision, x) = Append(q.source_revision, y)
    BY <1>3, <1>4 DEF SourceRevision, x, y
  <2>2. ASSUME NEW u \in Seq(Source), NEW v \in Seq(Source), NEW a \in Source, NEW b \in Source,
               Append(u, a) = Append(v, b)
        PROVE  u = v
    BY <2>2, AppendInjective
  <2>. QED BY <1>1, <2>1, <2>2
<1>. QED BY <1>3, <1>4

\* The empty manifest and every published one have the manifests' type.
LEMMA ManifestTypes ==
  ASSUME TypeOK, NEW g
  PROVE  generation(g) \in Manifest
<1>1. EmptyManifest \in Manifest
  BY EmptyMap DEF EmptyManifest, Manifest
<1>. QED BY <1>1 DEF generation, TypeOK

\* Reading the store is reading active and generations.
LEMMA GenerationKept ==
  ASSUME UNCHANGED generations, NEW g
  PROVE  generation(g)' = generation(g)
BY DEF generation, EmptyManifest

\* Once something has failed, something has failed.
LEMMA CalmBefore ==
  ASSUME Ingesting, [Next]_vars
  PROVE  faults \in Nat /\ faults' \in Nat /\ faults <= faults' /\ (Calm' => Calm)
<1>1. faults \in Nat
  BY BoundsAssumption DEF Ingesting, TypeOK
<1>2. faults' \in {faults, faults + 1}
  BY DEF Next, vars, Edit, Open, Ingest, Begin, Parse, CommitBatch, CommitGraph,
         PublishGeneration, MarkPublished, Adopt, RefuseRefresh, LoadFails, ParseFails, CallFails,
         Crash, Finished
<1>. QED BY <1>1, <1>2 DEF Calm

\* What is said of the published generations does not depend on the rest, as long
\* as their graphs keep their rows.
LEMMA HistoryKept ==
  ASSUME History, UNCHANGED <<active, generations>>, Calm' => Calm,
         ~ EditsDuringIngest =>
           \A g \in DOMAIN generations :
             /\ generations[g].source_revision \in DOMAIN graphs'
             /\ graphs'[generations[g].source_revision] = graphs[generations[g].source_revision]
  PROVE  History'
<1>1. \A g : generation(g)' = generation(g)
  BY GenerationKept
<1>2. Chained'
  BY <1>1 DEF History, Chained
<1>3. \A g : Expected(g)' = Expected(g)
  BY <1>1 DEF Expected, SourceOf
<1>4. Calm' => SourceCovered'
  BY <1>3 DEF History, SourceCovered
<1>5. ASSUME ~ EditsDuringIngest
      PROVE  SourceExact' /\ GraphsMatchGenerations' /\ Determined'
  BY <1>1, <1>3, <1>5 DEF History, SourceExact, GraphsMatchGenerations, GraphOfItsFacts, Determined
<1>. QED BY <1>2, <1>4, <1>5 DEF History

\* The active manifest, or the empty one, lists the keys of its facts.
LEMMA ActiveKeys ==
  ASSUME Ingesting, Exact, Calm
  PROVE  generation(active).keys = FactKeys(generation(active).facts)
<1>1. EmptyManifest.keys = FactKeys(EmptyManifest.facts)
  BY DEF EmptyManifest, FactKeys
<1>2. \A g \in DOMAIN generations : generations[g].keys = FactKeys(generations[g].facts)
  BY DEF Exact, History, Chained
<1>. QED BY <1>1, <1>2 DEF generation

\* A file that is not selected has the facts of its revision already.
LEMMA NotSelected ==
  ASSUME Ingesting, Exact, Calm, NEW revs, NEW f \in DOMAIN revs,
         f \notin Selected(generation(active), revs)
  PROVE  /\ f \in DOMAIN generation(active).facts
         /\ generation(active).facts[f] = revs[f]
<1>1. Facts(f, revs[f]) \in FactKeys(generation(active).facts)
  BY ActiveKeys DEF Selected
<1>2. PICK h \in DOMAIN generation(active).facts :
        Facts(f, revs[f]) = Facts(h, generation(active).facts[h])
  BY <1>1 DEF FactKeys
<1>3. f = h /\ revs[f] = generation(active).facts[h]
  BY <1>2 DEF Facts
<1>. QED BY <1>3

\* When every batch is in, the assembled map is what the scope makes of the
\* predecessor: of the same files at least, and the same if nothing was edited.
LEMMA RunResult ==
  ASSUME Ingesting, Exact, Calm, pc \in {"commit", "publish"},
         run.next = TotalBatches(run.selected)
  PROVE  LET result == Result(generation(active), run.id.scope, run.id.revs)
         IN  /\ DOMAIN run.facts = DOMAIN result
             /\ ~ EditsDuringIngest => run.facts = result
<1> DEFINE prev == generation(active)
           revs == run.id.revs
           scope == run.id.scope
           result == Result(prev, scope, revs)
<1>1. /\ run \in Locals /\ scope \in Scopes /\ revs \in RevisionMaps
      /\ run.facts \in RevisionMaps /\ run.selected \in SUBSET Files
      /\ prev \in Manifest
  BY RunType, ManifestTypes DEF Ingesting, Locals, JobId
<1>2. /\ run.selected = Selected(prev, revs)
      /\ run.removed = Removed(prev, scope, revs)
      /\ DOMAIN revs \subseteq scope.files
      /\ run.selected \subseteq DOMAIN revs
  BY DEF Ingesting, Exact, Progress, Scheduled, Selected
<1>3. DOMAIN run.facts = Kept \cup run.selected
  BY <1>1, LastBatch DEF Exact, Assembled
<1>4. \A f \in DOMAIN revs \ run.selected : f \in DOMAIN prev.facts /\ prev.facts[f] = revs[f]
  BY <1>2, NotSelected
<1>5. \A f \in Kept : run.facts[f] = prev.facts[f]
  BY DEF Exact, Assembled
<1>6. ~ EditsDuringIngest => \A f \in run.selected : run.facts[f] = revs[f]
  BY <1>3 DEF Exact, AssembledExact
<1>7. run.facts = [f \in DOMAIN run.facts |-> run.facts[f]]
  BY <1>1, RevisionMap
<1>8. CASE scope = Project
  <2>1. {k.file : k \in {k \in prev.keys : k.kind = "facts"}} = DOMAIN prev.facts
    <3>1. \A k \in prev.keys : k.file \in DOMAIN prev.facts
      BY ActiveKeys DEF FactKeys, Facts
    <3>2. \A f \in DOMAIN prev.facts : Facts(f, prev.facts[f]) \in prev.keys
      BY ActiveKeys DEF FactKeys
    <3>3. \A f, r : Facts(f, r).file = f /\ Facts(f, r).kind = "facts"
      BY DEF Facts
    <3>. HIDE DEF prev
    <3>. QED BY <3>1, <3>2, <3>3
  <2>2. run.removed = DOMAIN prev.facts \ DOMAIN revs
    BY <1>2, <1>8, <2>1 DEF Removed
  <2>3. Kept = DOMAIN revs \ run.selected
    BY <1>4, <2>2 DEF Kept
  <2>4. result = revs /\ revs = [f \in DOMAIN revs |-> revs[f]]
    BY <1>1, <1>8, RevisionMap DEF Result
  <2>. QED BY <1>2, <1>3, <1>4, <1>5, <1>6, <1>7, <2>3, <2>4
<1>9. CASE scope # Project
  <2>1. Kept = DOMAIN prev.facts \ (run.selected \cup (scope.files \ DOMAIN revs))
    BY <1>2, <1>9 DEF Kept, Removed
  <2>2. result = Overlay(Without(prev.facts, scope.files), revs)
    BY <1>9 DEF Result
  <2>3. DOMAIN result = (DOMAIN prev.facts \ scope.files) \cup DOMAIN revs
    BY <2>2 DEF Overlay, Without
  <2>4. DOMAIN run.facts = DOMAIN result
    BY <1>2, <1>3, <1>4, <2>1, <2>3
  <2>5. \A f \in DOMAIN result :
          result[f] = IF f \in DOMAIN revs THEN revs[f] ELSE prev.facts[f]
    BY <2>2 DEF Overlay, Without
  <2>6. result = [f \in DOMAIN result |-> result[f]]
    BY <2>2 DEF Overlay
  <2>. QED
    <3>. HIDE DEF result
    <3>1. ASSUME ~ EditsDuringIngest, NEW f \in DOMAIN result
          PROVE  run.facts[f] = result[f]
      BY <1>2, <1>3, <1>4, <1>5, <1>6, <2>1, <2>3, <2>4, <2>5, <3>1
    <3>. QED BY <1>7, <2>4, <2>6, <3>1 DEF result
<1>. QED BY <1>8, <1>9

\* A generation that has the source revision of the run has its facts.
LEMMA RunDetermined ==
  ASSUME Ingesting, Exact, ~ EditsDuringIngest, pc \in {"commit", "publish"},
         run.next = TotalBatches(run.selected),
         NEW h \in 0..active, generation(h).source_revision = run.source_revision
  PROVE  h \in DOMAIN generations /\ generation(h).facts = run.facts
<1> DEFINE prev == generation(active)
           revs == run.id.revs
           scope == run.id.scope
<1>1. /\ run \in Locals /\ scope \in Scopes /\ revs \in RevisionMaps /\ active \in Nat
      /\ \A g : generation(g) \in Manifest
  <2>1. \A g : generation(g) \in Manifest
    BY ManifestTypes DEF Ingesting
  <2>2. run \in Locals /\ active \in Nat
    BY RunType, BoundsAssumption DEF Ingesting, TypeOK
  <2>. QED BY <2>1, <2>2 DEF Locals, JobId
<1>2. run.source_revision = SourceRevision(prev, scope, revs) /\ run.source_revision # <<>>
  <2>1. run.source_revision = SourceRevision(prev, scope, revs)
    BY DEF Exact, Scheduled
  <2>2. prev \in Manifest /\ scope \in Scopes /\ revs \in RevisionMaps
    BY <1>1
  <2>. HIDE DEF prev, scope, revs
  <2>3. SourceRevision(prev, scope, revs) # <<>>
    BY <2>2, SourceRevisionLast
  <2>. QED BY <2>1, <2>3
<1>3. h \in DOMAIN generations
  BY <1>2 DEF generation, EmptyManifest
<1>4. PICK s \in Scopes, m \in RevisionMaps :
        generation(h).source_revision = SourceRevision(generation(h - 1), s, m)
  BY <1>3 DEF Exact, History, Chained, generation
<1>5. /\ s = scope /\ m = revs
      /\ scope # Project => generation(h - 1).source_revision = prev.source_revision
  BY <1>1, <1>2, <1>4, SourceRevisionInjective
<1>6. SourceOf(h) = [scope |-> s, revs |-> m]
  BY <1>1, <1>3, <1>4, SourceRevisionLast DEF SourceOf, generation
<1>7. generation(h).facts = Result(generation(h - 1), scope, revs)
  BY <1>3, <1>5, <1>6 DEF Exact, History, SourceExact, Expected, Result, generation
<1>8. Result(generation(h - 1), scope, revs) = Result(prev, scope, revs)
  <2>1. h - 1 \in 0..active
    BY <1>1, <1>3 DEF Ingesting, TypeOK
  <2>2. scope # Project => generation(h - 1).facts = prev.facts
    BY <1>1, <1>5, <2>1 DEF Exact, History, Determined
  <2>. QED BY <2>2 DEF Result, Without
<1>9. run.facts = Result(prev, scope, revs)
  BY RunResult DEF Calm
<1>. QED BY <1>3, <1>7, <1>8, <1>9

\* What a resumed run finds does not depend on the run, the manager or the disk.
LEMMA ResumableKept ==
  ASSUME Resumable, UNCHANGED <<active, generations, links, jobs>>, Calm' => Calm,
         faults' = 0 /\ pc' \notin {"commit", "publish"} =>
           faults = 0 /\ pc \notin {"commit", "publish"}
  PROVE  Resumable'
<1>1. \A revs : Selected(generation(active), revs)' = Selected(generation(active), revs)
  BY PlannedKept
<1>2. ASSUME ~ EditsDuringIngest, NEW id \in DOMAIN jobs, id.target = active + 1
      PROVE  LET S == Selected(generation(active), id.revs)'
             IN  \A f \in S \ FromBatch(S, jobs[id].next) :
                   <<id.target, Facts(f, id.revs[f])>> \in links
  BY <1>1, <1>2 DEF Resumable
<1>. QED BY <1>2 DEF Resumable, FromBatch, Rank, Facts

\* A step that touches no table and leaves the run at rest.
LEMMA RestExact ==
  ASSUME Ingesting, Exact, [Next]_vars, UNCHANGED storeVars,
         pc' \notin {"parse", "commit", "publish"},
         faults' = 0 => pc \notin {"commit", "publish"}
  PROVE  Exact'
<1>1. /\ faults \in Nat /\ faults' \in Nat /\ faults <= faults' /\ (Calm' => Calm)
      /\ UNCHANGED <<active, generations, graphs, links, jobs>>
  BY CalmBefore DEF storeVars
<1>2. Resumable'
  BY <1>1, ResumableKept DEF Exact
<1>3. History'
  BY <1>1, HistoryKept DEF Exact, Ingesting, Records
<1>. QED BY <1>2, <1>3 DEF Exact, Scheduled, Assembled, AssembledExact, Composed

\* An editor is kept out of the ingestion, or what he does is not counted on.
LEMMA EditExact ==
  ASSUME Ingesting, Exact, [Next]_vars, NEW f \in Files, NEW r \in Revs \cup {Absent}, Edit(f, r)
  PROVE  Exact'
<1>1. /\ UNCHANGED <<active, generations, graphs, links, jobs, pc, run, faults>>
      /\ EditsDuringIngest \/ pc \in {"idle", "down"}
  BY DEF Edit, storeVars
<1>2. Calm' => Calm
  BY <1>1 DEF Calm
<1>3. Resumable'
  BY <1>1, <1>2, ResumableKept DEF Exact
<1>4. History'
  BY <1>1, <1>2, HistoryKept DEF Exact, Ingesting, Records
<1>5. generation(active)' = generation(active)
  BY <1>1, GenerationKept
<1>6. Scheduled'
  BY <1>1, <1>5 DEF Exact, Scheduled, Removed, SourceRevision
<1>7. Assembled' /\ AssembledExact' /\ Composed'
  BY <1>1, <1>2, <1>5 DEF Exact, Assembled, AssembledExact, Composed, Kept, FactKeys, Facts,
                      FromBatch, Rank, TotalBatches
<1>. QED BY <1>3, <1>4, <1>6, <1>7 DEF Exact

\* A run is planned from what is on the disk.
LEMMA BeginExact ==
  ASSUME Ingesting, Exact, [Next]_vars, NEW scope \in Scopes, Begin(scope)
  PROVE  Exact'
<1> DEFINE revs == RevisionsOf(scope)
           prev == generation(active)
           id   == [target |-> active + 1, scope |-> scope, revs |-> revs]
<1>1. /\ run'.id = id /\ run'.source_revision = SourceRevision(prev, scope, revs)
      /\ run'.removed = Removed(prev, scope, revs) /\ run'.next = NextBatch(id)
      /\ pc = "idle" /\ pc' = "parse"
      /\ UNCHANGED <<active, generations, graphs, links, jobs, disk, faults>>
  BY DEF Begin, storeVars
<1>2. Calm' => Calm
  BY <1>1 DEF Calm
<1>3. Resumable'
  BY <1>1, <1>2, ResumableKept DEF Exact
<1>4. History'
  BY <1>1, <1>2, HistoryKept DEF Exact, Ingesting, Records
<1>5. generation(active)' = prev
  BY <1>1, GenerationKept
<1>6. DOMAIN revs \subseteq scope.files /\ \A f \in DOMAIN revs : disk[f] = revs[f]
  BY DEF RevisionsOf
<1>7. id \notin DOMAIN jobs => NextBatch(id) = 0
  BY DEF NextBatch
<1>8. Scheduled'
  <2>. HIDE DEF revs, prev
  <2>1. run'.id.scope = scope /\ run'.id.revs = revs
    BY <1>1
  <2>2. (run.removed = Removed(generation(active), run.id.scope, run.id.revs))'
    BY <1>1, <1>5, <2>1 DEF Removed
  <2>3. (run.source_revision = SourceRevision(generation(active), run.id.scope, run.id.revs))'
    BY <1>1, <1>5, <2>1 DEF SourceRevision
  <2>. QED BY <1>1, <1>6, <1>7, <2>1, <2>2, <2>3 DEF Scheduled
<1>9. Assembled' /\ AssembledExact' /\ Composed'
  BY <1>1 DEF Assembled, AssembledExact, Composed
<1>. QED BY <1>3, <1>4, <1>8, <1>9 DEF Exact

\* What is recovered is of the revisions the run was planned for, and of every
\* file of the batches that are behind it.
LEMMA RecoveredFacts ==
  ASSUME Ingesting, Exact, Calm, pc = "parse",
         NEW R, R = Recovered(run.id.target, run.selected \cup run.removed, run.id.revs)
  PROVE  /\ \A k \in R : k.file \in run.selected /\ k = Facts(k.file, run.id.revs[k.file])
         /\ \A f \in run.selected \ FromBatch(run.selected, run.next) :
              Facts(f, run.id.revs[f]) \in R
         /\ faults = 0 => R = {}
<1> DEFINE revs == run.id.revs
           sel  == run.selected
<1>1. /\ run \in Locals /\ run.id \in JobId /\ active \in Nat /\ run.id.target = active + 1
      /\ run.selected = Selected(generation(active), revs)
      /\ run.next <= TotalBatches(run.selected)
  BY RunType, BoundsAssumption DEF Ingesting, TypeOK, Locals, Control, Progress
<1>2. \A f \in run.removed : f \notin DOMAIN revs
  BY DEF Exact, Scheduled, Removed
<1>3. \A l \in links : l[2] \in Key /\ l[2].kind = "facts"
  BY DEF Ingesting, TypeOK, Exact, Resumable
<1>4. \A k \in R : k \in Key /\ k.kind = "facts" /\ k.file \in sel /\ k.rev = revs[k.file]
  BY <1>2, <1>3 DEF Recovered
<1>5. \A k \in R : k.file \in sel /\ k = Facts(k.file, revs[k.file])
  BY <1>4 DEF Key, Facts
<1>6. ASSUME faults = 0 PROVE R = {} /\ run.id \notin DOMAIN jobs
  <2>1. \A l \in links : l[1] <= active /\ l[1] \in Nat
    BY <1>6 DEF Exact, Resumable, Ingesting, TypeOK
  <2>2. \A id \in DOMAIN jobs : id.target <= active
    BY <1>6 DEF Exact, Resumable
  <2>. QED BY <1>1, <2>1, <2>2 DEF Recovered
<1>7. ASSUME NEW f \in sel \ FromBatch(sel, run.next)
      PROVE  Facts(f, revs[f]) \in R
  <2>1. run.id \in DOMAIN jobs
    <3>1. CASE run.id \notin DOMAIN jobs
      <4>1. run.next = 0
        BY <3>1 DEF Exact, Scheduled
      <4>. QED BY <1>1, <1>7, <4>1, BatchesSplit DEF Locals
    <3>. QED BY <3>1
  <2>2. jobs[run.id].next = run.next
    BY <2>1 DEF Ingesting, Progress
  <2>3. ~ EditsDuringIngest
    BY <1>6, <2>1 DEF Calm
  <2>4. <<run.id.target, Facts(f, revs[f])>> \in links
    BY <1>1, <1>7, <2>1, <2>2, <2>3 DEF Exact, Resumable
  <2>5. f \in DOMAIN revs
    BY <1>1 DEF Selected
  <2>6. Facts(f, revs[f]).file = f /\ Facts(f, revs[f]).rev = revs[f]
    BY DEF Facts
  <2>. QED BY <1>7, <2>4, <2>5, <2>6 DEF Recovered
<1>. QED BY <1>5, <1>6, <1>7

\* The starting map is the predecessor's without what is regenerated, and what was
\* recovered of it.
LEMMA ParseExact ==
  ASSUME Ingesting, Exact, [Next]_vars, Parse
  PROVE  Exact'
<1> DEFINE prev == generation(active)
           sel  == run.selected
           revs == run.id.revs
           regenerated == sel \cup run.removed
           R == Recovered(run.id.target, regenerated, revs)
           reused == [f \in {k.file : k \in R} |-> revs[f]]
           remaining == FromBatch(sel, run.next)
           keys  == {k \in prev.keys : k.file \notin regenerated} \cup R
           facts == Overlay(Without(prev.facts, regenerated), reused)
           parsed == [f \in remaining |-> disk[f]]
<1>1. run \in Locals
  BY RunType DEF Ingesting, Parse
<1>2. /\ run' = [run EXCEPT !.parsed = parsed, !.keys = keys, !.facts = facts]
      /\ pc = "parse" /\ pc' = "commit"
      /\ UNCHANGED <<active, generations, graphs, links, jobs, disk, faults>>
  BY DEF Parse, storeVars
<1>3. /\ run'.id = run.id /\ run'.selected = sel /\ run'.next = run.next
      /\ run'.removed = run.removed /\ run'.source_revision = run.source_revision
      /\ run'.parsed = parsed /\ run'.keys = keys /\ run'.facts = facts
  <2>. HIDE DEF parsed, keys, facts
  <2>. QED BY <1>1, <1>2 DEF Locals
<1>4. Calm' => Calm
  BY <1>2 DEF Calm
<1>5. Resumable'
  BY <1>2, <1>4, ResumableKept DEF Exact
<1>6. History'
  BY <1>2, <1>4, HistoryKept DEF Exact, Ingesting, Records
<1>7. generation(active)' = prev
  BY <1>2, GenerationKept
<1>8. Scheduled'
  BY <1>2, <1>3, <1>7 DEF Exact, Scheduled, Removed, SourceRevision
<1>9. Kept' = Kept /\ DOMAIN facts = Kept \cup {k.file : k \in R}
  BY <1>3, <1>7 DEF Kept, Overlay, Without
<1>10. ASSUME Calm
       PROVE  /\ \A k \in R : k.file \in sel /\ k = Facts(k.file, revs[k.file])
              /\ \A f \in sel \ remaining : Facts(f, revs[f]) \in R
              /\ faults = 0 => R = {}
  BY <1>2, <1>10, RecoveredFacts
<1>11. \A f \in sel : f \notin Kept
  BY DEF Kept
<1>12. /\ \A f \in {k.file : k \in R} : facts[f] = revs[f]
       /\ \A f \in Kept : f \notin {k.file : k \in R} => facts[f] = prev.facts[f]
  BY DEF Overlay, Without, Kept
<1>13. ASSUME Calm PROVE keys = FactKeys(facts)
  <2>1. prev.keys = FactKeys(prev.facts)
    BY <1>13, ActiveKeys
  <2>2. \A f, r : Facts(f, r).file = f
    BY DEF Facts
  <2>3. {k \in prev.keys : k.file \notin regenerated} = {Facts(f, prev.facts[f]) : f \in Kept}
    <3>. HIDE DEF prev
    <3>. QED BY <2>1, <2>2 DEF FactKeys, Kept, prev
  <2>4. R = {Facts(f, revs[f]) : f \in {k.file : k \in R}}
    <3>. HIDE DEF R
    <3>. QED BY <1>10, <1>13 DEF R
  <2>5. \A f \in Kept : facts[f] = prev.facts[f]
    BY <1>10, <1>11, <1>12, <1>13
  <2>. HIDE DEF facts, R, prev
  <2>6. FactKeys(facts) = {Facts(f, prev.facts[f]) : f \in Kept}
                          \cup {Facts(f, revs[f]) : f \in {k.file : k \in R}}
    BY <1>9, <1>12, <2>5 DEF FactKeys
  <2>. QED BY <2>3, <2>4, <2>6
<1>14. Assembled'
  <2>. SUFFICES ASSUME Calm
                PROVE  /\ keys = FactKeys(facts)
                       /\ Kept \cup (sel \ remaining) \subseteq DOMAIN facts
                       /\ DOMAIN facts \subseteq Kept \cup sel
                       /\ \A f \in Kept : facts[f] = prev.facts[f]
                       /\ \A f \in DOMAIN facts \cap remaining : facts[f] = parsed[f]
    <3>. HIDE DEF keys, facts, parsed, prev
    <3>1. FromBatch(run.selected, run.next)' = remaining
      BY <1>3 DEF FromBatch, Rank
    <3>2. FactKeys(run.facts)' = FactKeys(facts)
      BY <1>3 DEF FactKeys, Facts
    <3>. QED BY <1>2, <1>3, <1>4, <1>7, <1>9, <3>1, <3>2 DEF Assembled
  <2>1. \A f \in sel \ remaining : f \in {k.file : k \in R}
    <3>1. \A f, r : Facts(f, r).file = f
      BY DEF Facts
    <3>. HIDE DEF R
    <3>. QED BY <1>10, <3>1
  <2>2. \A f \in DOMAIN facts \cap remaining : facts[f] = parsed[f]
    <3>. SUFFICES ASSUME NEW f \in DOMAIN facts, f \in remaining PROVE facts[f] = disk[f]
      OBVIOUS
    <3>1. f \in sel /\ f \in {k.file : k \in R} /\ facts[f] = revs[f]
      BY <1>9, <1>11, <1>12 DEF FromBatch
    <3>2. ~ EditsDuringIngest
      BY <1>10, <3>1 DEF Calm
    <3>3. f \in DOMAIN revs
      BY <1>2, <3>1 DEF Ingesting, Progress, Selected
    <3>. QED BY <1>2, <3>1, <3>2, <3>3 DEF Exact, Scheduled
  <2>3. \A k \in R : k.file \in sel
    BY <1>10
  <2>4. \A f \in Kept : facts[f] = prev.facts[f]
    BY <1>11, <1>12, <2>3
  <2>. HIDE DEF facts, keys, R, prev, parsed, remaining
  <2>5. Kept \cup (sel \ remaining) \subseteq DOMAIN facts /\ DOMAIN facts \subseteq Kept \cup sel
    BY <1>9, <2>1, <2>3
  <2>. QED BY <1>13, <2>2, <2>4, <2>5
<1>15. AssembledExact'
  <2>. SUFFICES ASSUME ~ EditsDuringIngest
                PROVE  /\ \A f \in DOMAIN facts \cap sel : facts[f] = revs[f]
                       /\ \A f \in remaining : disk[f] = revs[f]
    <3>. HIDE DEF facts
    <3>. QED BY <1>2, <1>3 DEF AssembledExact
  <2>1. \A f \in remaining : f \in DOMAIN revs
    BY <1>2 DEF FromBatch, Ingesting, Progress, Selected
  <2>2. \A f \in DOMAIN revs : disk[f] = revs[f]
    BY <1>2 DEF Exact, Scheduled
  <2>. QED BY <1>9, <1>11, <1>12, <2>1, <2>2
<1>16. Composed'
  BY <1>2 DEF Composed
<1>. QED BY <1>5, <1>6, <1>8, <1>14, <1>15, <1>16 DEF Exact

\* The job that a run writes is linked to the batches behind its new checkpoint.
LEMMA ResumableWritten ==
  ASSUME Ingesting, Resumable, UNCHANGED <<active, generations>>, Calm' => Calm,
         pc' \in {"commit", "publish"}, run.id.target = active + 1,
         DOMAIN jobs' = DOMAIN jobs \cup {run.id},
         \A x \in DOMAIN jobs : x # run.id => jobs'[x] = jobs[x],
         NEW recs \in SUBSET {k \in Key : k.kind = "facts"},
         links' = links \cup ({run.id.target} \X recs),
         run.selected = Selected(generation(active), run.id.revs),
         ~ EditsDuringIngest =>
           \A f \in run.selected \ FromBatch(run.selected, jobs'[run.id].next) :
             <<run.id.target, Facts(f, run.id.revs[f])>> \in links'
  PROVE  Resumable'
<1>1. \A revs : Selected(generation(active), revs)' = Selected(generation(active), revs)
  BY PlannedKept
<1>2. /\ \A l \in links' : l[1] <= active + 1
      /\ Calm' => \A l \in links' : l[2].kind = "facts"
  <2>1. active + 1 <= active + 1
    BY BoundsAssumption DEF Ingesting, TypeOK
  <2>2. \A l \in {run.id.target} \X recs : l[1] = active + 1 /\ l[2].kind = "facts"
    OBVIOUS
  <2>. QED BY <2>1, <2>2 DEF Resumable
<1>3. ASSUME ~ EditsDuringIngest, NEW id \in DOMAIN jobs', id.target = active + 1
      PROVE  LET S == Selected(generation(active), id.revs)'
             IN  \A f \in S \ FromBatch(S, jobs'[id].next) :
                   <<id.target, Facts(f, id.revs[f])>> \in links'
  <2>1. CASE id = run.id
    BY <1>1, <1>3, <2>1
  <2>2. CASE id # run.id
    <3>1. id \in DOMAIN jobs /\ jobs'[id] = jobs[id]
      BY <2>2
    <3>. QED BY <1>1, <1>3, <3>1 DEF Resumable
  <2>. QED BY <2>1, <2>2
<1>. QED BY <1>2, <1>3 DEF Resumable, FromBatch, Rank, Facts

\* What a committed batch adds to the manifest is what was parsed, and what was
\* hashed if nothing was edited since.
LEMMA CommitBatchExact ==
  ASSUME Ingesting, Exact, [Next]_vars, CommitBatch
  PROVE  Exact'
<1> DEFINE sel   == run.selected
           revs  == run.id.revs
           batch == BatchOf(sel, run.next)
           rest  == FromBatch(sel, run.next)
           recs  == {Facts(f, run.parsed[f]) : f \in batch}
           facts == Overlay(run.facts, [f \in batch |-> run.parsed[f]])
<1>1. /\ run \in Locals /\ run.id \in JobId /\ active \in Nat /\ run.next \in Nat
      /\ run.parsed \in RevisionMaps /\ sel \in SUBSET Files
  BY RunType, BoundsAssumption DEF Ingesting, CommitBatch, Locals, TypeOK
<1>2. /\ run' = [run EXCEPT !.keys = @ \cup recs, !.facts = facts, !.next = @ + 1]
      /\ WriteBatch(run.id, recs, "commit", run.next + 1)
      /\ pc = "commit" /\ pc' = "commit"
      /\ UNCHANGED <<active, generations, graphs, disk, faults>>
  BY DEF CommitBatch
<1>3. /\ run'.id = run.id /\ run'.selected = sel /\ run'.next = run.next + 1
      /\ run'.removed = run.removed /\ run'.source_revision = run.source_revision
      /\ run'.parsed = run.parsed /\ run'.keys = run.keys \cup recs /\ run'.facts = facts
  <2>. HIDE DEF recs, facts
  <2>. QED BY <1>1, <1>2 DEF Locals
<1>4. /\ batch \subseteq rest /\ rest \subseteq sel /\ rest \subseteq DOMAIN run.parsed
      /\ FromBatch(sel, run.next + 1) = rest \ batch
  BY <1>1, <1>2, BatchesSplit DEF Ingesting, Progress, FromBatch
<1>5. recs \subseteq {k \in Key : k.kind = "facts"}
  <2>1. \A f \in batch : f \in Files /\ run.parsed[f] \in Revs
    BY <1>1, <1>4, RevisionMap
  <2>. QED BY <2>1 DEF Facts, Key
<1>6. /\ jobs' = Insert(jobs, run.id, [stage |-> "commit", next |-> run.next + 1])
      /\ links' = links \cup ({run.id.target} \X recs)
  BY <1>2 DEF WriteBatch
<1>7. /\ DOMAIN jobs' = DOMAIN jobs \cup {run.id}
      /\ jobs'[run.id].next = run.next + 1
      /\ \A x \in DOMAIN jobs : x # run.id => jobs'[x] = jobs[x]
  <2> DEFINE row == [stage |-> "commit", next |-> run.next + 1]
  <2>1. row.next = run.next + 1 /\ jobs' = Insert(jobs, run.id, row)
    BY <1>6
  <2>. HIDE DEF row
  <2>. QED BY <2>1 DEF Insert
<1>8. Calm' => Calm
  BY <1>2 DEF Calm
<1>9. History'
  BY <1>2, <1>8, HistoryKept DEF Exact, Ingesting, Records
<1>10. generation(active)' = generation(active)
  BY <1>2, GenerationKept
<1>11. Scheduled'
  BY <1>2, <1>3, <1>7, <1>10 DEF Exact, Scheduled, Removed, SourceRevision
<1>12. run.id.target = active + 1 /\ sel = Selected(generation(active), revs)
  BY <1>2 DEF Ingesting, Control, Progress
<1>13. Resumable'
  <2>1. ASSUME ~ EditsDuringIngest, NEW f \in sel \ (rest \ batch)
        PROVE  <<run.id.target, Facts(f, revs[f])>> \in links'
    <3>1. CASE f \in batch
      <4>1. run.parsed[f] = revs[f]
        BY <1>2, <1>4, <2>1, <3>1 DEF Exact, AssembledExact
      <4>. QED BY <1>6, <3>1, <4>1
    <3>2. CASE f \notin batch
      <4>1. run.id \in DOMAIN jobs
        BY <1>1, <1>2, <2>1, <3>2, BatchesSplit DEF Exact, Scheduled
      <4>2. jobs[run.id].next = run.next
        BY <1>2, <4>1 DEF Ingesting, Progress
      <4>. QED BY <1>6, <1>12, <2>1, <3>2, <4>1, <4>2 DEF Exact, Resumable
    <3>. QED BY <3>1, <3>2
  <2>. HIDE DEF recs, rest, batch
  <2>. QED BY <1>2, <1>4, <1>5, <1>6, <1>7, <1>8, <1>12, <2>1, ResumableWritten DEF Exact
<1>14. /\ DOMAIN facts = DOMAIN run.facts \cup batch
       /\ \A f \in batch : facts[f] = run.parsed[f]
       /\ \A f \in DOMAIN run.facts \ batch : facts[f] = run.facts[f]
  BY DEF Overlay
<1>15. Assembled'
  <2>. SUFFICES ASSUME Calm
                PROVE  /\ run.keys \cup recs = FactKeys(facts)
                       /\ Kept \cup (sel \ (rest \ batch)) \subseteq DOMAIN facts
                       /\ DOMAIN facts \subseteq Kept \cup sel
                       /\ \A f \in Kept : facts[f] = generation(active).facts[f]
                       /\ \A f \in DOMAIN facts \cap (rest \ batch) : facts[f] = run.parsed[f]
    <3>. HIDE DEF recs, facts, batch, rest
    <3>1. FromBatch(run.selected, run.next)' = rest \ batch
      BY <1>3, <1>4 DEF FromBatch, Rank
    <3>2. FactKeys(run.facts)' = FactKeys(facts)
      BY <1>3 DEF FactKeys, Facts
    <3>3. Kept' = Kept
      BY <1>3, <1>10 DEF Kept
    <3>. QED BY <1>2, <1>3, <1>8, <1>10, <3>1, <3>2, <3>3 DEF Assembled
  <2>1. /\ run.keys = FactKeys(run.facts)
        /\ Kept \cup (sel \ rest) \subseteq DOMAIN run.facts
        /\ DOMAIN run.facts \subseteq Kept \cup sel
        /\ \A f \in Kept : run.facts[f] = generation(active).facts[f]
        /\ \A f \in DOMAIN run.facts \cap rest : run.facts[f] = run.parsed[f]
    BY <1>2 DEF Exact, Assembled
  <2>. HIDE DEF facts, batch, rest
  <2>2. \A f \in DOMAIN run.facts : facts[f] = run.facts[f]
    BY <1>4, <1>14, <2>1
  <2>3. run.keys \cup recs = FactKeys(facts)
    <3>1. FactKeys(facts) = {Facts(f, facts[f]) : f \in DOMAIN run.facts}
                            \cup {Facts(f, facts[f]) : f \in batch}
      BY <1>14 DEF FactKeys
    <3>2. {Facts(f, facts[f]) : f \in DOMAIN run.facts} = run.keys
      BY <2>1, <2>2 DEF FactKeys
    <3>3. {Facts(f, facts[f]) : f \in batch} = recs
      BY <1>14
    <3>. QED BY <3>1, <3>2, <3>3
  <2>4. \A f \in sel : f \notin Kept
    BY DEF Kept
  <2>. QED BY <1>4, <1>14, <2>1, <2>2, <2>3, <2>4
<1>16. AssembledExact'
  <2>. SUFFICES ASSUME ~ EditsDuringIngest
                PROVE  /\ \A f \in DOMAIN facts \cap sel : facts[f] = revs[f]
                       /\ \A f \in DOMAIN run.parsed : run.parsed[f] = revs[f]
    <3>. HIDE DEF facts
    <3>. QED BY <1>2, <1>3 DEF AssembledExact
  <2>1. /\ \A f \in DOMAIN run.facts \cap sel : run.facts[f] = revs[f]
        /\ \A f \in DOMAIN run.parsed : run.parsed[f] = revs[f]
    BY <1>2 DEF Exact, AssembledExact
  <2>. HIDE DEF facts, batch
  <2>. QED BY <1>4, <1>14, <2>1
<1>17. Composed'
  BY <1>2 DEF Composed
<1>. QED BY <1>9, <1>11, <1>13, <1>15, <1>16, <1>17 DEF Exact

\* Keys of facts are all of that kind.
LEMMA FactKeysKind ==
  ASSUME NEW facts
  PROVE  {k \in FactKeys(facts) : k.kind = "facts"} = FactKeys(facts)
<1>1. \A f, r : Facts(f, r).kind = "facts"
  BY DEF Facts
<1>. QED BY <1>1 DEF FactKeys

\* The run composes a graph again under a source that has one: it is the same.
LEMMA CommitGraphKeeps ==
  ASSUME Ingesting, Exact, CommitGraph, ~ EditsDuringIngest
  PROVE  \A g \in DOMAIN generations :
           /\ generations[g].source_revision \in DOMAIN graphs'
           /\ graphs'[generations[g].source_revision] = graphs[generations[g].source_revision]
<1>. SUFFICES ASSUME NEW g \in DOMAIN generations
              PROVE  /\ generations[g].source_revision \in DOMAIN graphs'
                     /\ graphs'[generations[g].source_revision]
                          = graphs[generations[g].source_revision]
  OBVIOUS
<1> DEFINE src      == run.source_revision
           composed == {k \in run.keys : k.kind = "facts"}
<1>1. /\ graphs' = Insert(graphs, src, composed)
      /\ pc = "commit" /\ run.next = TotalBatches(run.selected)
  BY DEF CommitGraph
<1>2. run.keys = FactKeys(run.facts) /\ composed = FactKeys(run.facts)
  BY <1>1, FactKeysKind DEF Exact, Assembled, Calm
<1>. HIDE DEF composed
<1>3. /\ graphs'[src] = composed /\ src \in DOMAIN graphs'
      /\ \A s \in DOMAIN graphs \ {src} : s \in DOMAIN graphs' /\ graphs'[s] = graphs[s]
  BY <1>1 DEF Insert
<1>4. /\ g \in 0..active /\ generation(g) = generations[g]
      /\ generations[g].source_revision \in DOMAIN graphs
      /\ graphs[generations[g].source_revision] = {k \in generations[g].keys : k.kind = "facts"}
      /\ generations[g].keys = FactKeys(generations[g].facts)
  BY BoundsAssumption DEF Ingesting, TypeOK, generation, Exact, History, GraphsMatchGenerations,
                          GraphOfItsFacts, Chained, Calm
<1>5. CASE generations[g].source_revision = src
  <2>1. generations[g].facts = run.facts
    BY <1>1, <1>4, <1>5, RunDetermined
  <2>. QED BY <1>2, <1>3, <1>4, <1>5, <2>1, FactKeysKind
<1>6. CASE generations[g].source_revision # src
  BY <1>3, <1>4, <1>6
<1>. QED BY <1>5, <1>6

\* The graph that is committed is the one of the run's keys.
LEMMA CommitGraphExact ==
  ASSUME Ingesting, Exact, [Next]_vars, CommitGraph
  PROVE  Exact'
<1> DEFINE composed == {k \in run.keys : k.kind = "facts"}
           sel == run.selected
           src == run.source_revision
           row == [stage |-> "validation", next |-> run.next]
<1>1. /\ run \in Locals /\ run.id \in JobId /\ active \in Nat /\ run.next \in Nat
      /\ sel \in SUBSET Files
  BY RunType, BoundsAssumption DEF Ingesting, CommitGraph, Locals, TypeOK
<1>2. /\ graphs' = Insert(graphs, src, composed)
      /\ jobs' = Insert(jobs, run.id, row)
      /\ links' = links \cup ({run.id.target} \X {})
      /\ pc = "commit" /\ pc' = "publish" /\ run.next = TotalBatches(sel)
      /\ UNCHANGED <<active, generations, disk, run, faults>>
  BY DEF CommitGraph, WriteBatch
<1>3. row.next = run.next
  OBVIOUS
<1>. HIDE DEF composed, row
<1>4. /\ DOMAIN jobs' = DOMAIN jobs \cup {run.id} /\ jobs'[run.id].next = run.next
      /\ \A x \in DOMAIN jobs : x # run.id => jobs'[x] = jobs[x]
  BY <1>2, <1>3 DEF Insert
<1>5. /\ src \in DOMAIN graphs' /\ graphs'[src] = composed
      /\ \A s \in DOMAIN graphs \ {src} : s \in DOMAIN graphs' /\ graphs'[s] = graphs[s]
  BY <1>2 DEF Insert
<1>6. Calm' => Calm
  BY <1>2 DEF Calm
<1>7. Calm => run.keys = FactKeys(run.facts) /\ composed = run.keys
  BY <1>2, FactKeysKind DEF Exact, Assembled, composed
<1>8. History'
  BY <1>2, <1>6, CommitGraphKeeps, HistoryKept DEF Exact
<1>9. generation(active)' = generation(active)
  BY <1>2, GenerationKept
<1>10. Scheduled'
  BY <1>2, <1>9 DEF Exact, Scheduled, Removed, SourceRevision
<1>11. run.id.target = active + 1 /\ sel = Selected(generation(active), run.id.revs)
  BY <1>2 DEF Ingesting, Control, Progress
<1>12. Resumable'
  <2>1. ASSUME ~ EditsDuringIngest, NEW f \in sel \ FromBatch(sel, run.next)
        PROVE  <<run.id.target, Facts(f, run.id.revs[f])>> \in links'
    <3>1. run.id \in DOMAIN jobs
      BY <1>1, <1>2, <2>1, BatchesSplit DEF Exact, Scheduled
    <3>2. jobs[run.id].next = run.next
      BY <1>2, <3>1 DEF Ingesting, Progress
    <3>. QED BY <1>2, <1>11, <2>1, <3>1, <3>2 DEF Exact, Resumable
  <2> DEFINE recs == {}
  <2>2. recs \in SUBSET {k \in Key : k.kind = "facts"} /\ links' = links \cup ({run.id.target} \X recs)
    BY <1>2
  <2>. HIDE DEF recs
  <2>. QED BY <1>2, <1>4, <1>6, <1>11, <2>1, <2>2, ResumableWritten DEF Exact
<1>13. Assembled'
  BY <1>2, <1>6, <1>9 DEF Exact, Assembled, Kept, FactKeys, Facts, FromBatch, Rank, TotalBatches
<1>14. AssembledExact'
  BY <1>2 DEF Exact, AssembledExact
<1>15. Composed'
  BY <1>2, <1>5, <1>7 DEF Composed, Calm
<1>. QED BY <1>8, <1>10, <1>12, <1>13, <1>14, <1>15 DEF Exact

\* The published generation is what its source expects, and tells the same as every
\* other of its source.
LEMMA PublishExact ==
  ASSUME Ingesting, Exact, [Next]_vars, PublishGeneration
  PROVE  Exact'
<1> DEFINE prev  == generation(active)
           scope == run.id.scope
           revs  == run.id.revs
           src   == run.source_revision
<1>0. PICK g : g = active + 1
  OBVIOUS
<1>1. /\ active \in Nat /\ g = active + 1 /\ run.id.target = g
      /\ scope \in Scopes /\ revs \in RevisionMaps /\ prev \in Manifest
      /\ DOMAIN generations = 1..active
  <2>1. run \in Locals
    BY RunType DEF Ingesting, PublishGeneration
  <2>2. prev \in Manifest
    BY ManifestTypes DEF Ingesting
  <2>3. active \in Nat /\ run.id.target = active + 1 /\ DOMAIN generations = 1..active
    BY BoundsAssumption DEF Ingesting, TypeOK, Control, PublishGeneration
  <2>. QED BY <1>0, <2>1, <2>2, <2>3 DEF Locals, JobId
<1>2. /\ generations' = Insert(generations, g, RunManifest)
      /\ links' = links \cup ({g} \X run.keys)
      /\ active' = g /\ pc = "publish" /\ pc' = "mark"
      /\ UNCHANGED <<graphs, jobs, faults>>
  BY <1>1 DEF PublishGeneration, Publish, RunManifest
<1>3. /\ RunManifest.source_revision = src /\ RunManifest.keys = run.keys
      /\ RunManifest.facts = run.facts
  BY DEF RunManifest
<1>4. /\ DOMAIN generations' = 1..g
      /\ generations'[g] = RunManifest
      /\ \A h \in 1..active : generations'[h] = generations[h]
  BY <1>1, <1>2 DEF Insert
<1>5. /\ generation(g)' = RunManifest
      /\ \A h \in 0..active : generation(h)' = generation(h)
  BY <1>1, <1>4 DEF generation, EmptyManifest
<1>6. Calm' => Calm
  BY <1>2 DEF Calm
<1>7. Calm => run.keys = FactKeys(run.facts)
  BY <1>2 DEF Exact, Assembled
<1>8. /\ src = SourceRevision(prev, scope, revs) /\ DOMAIN revs \subseteq scope.files
      /\ src[Len(src)] = [scope |-> scope, revs |-> revs]
  <2>1. src = SourceRevision(prev, scope, revs) /\ DOMAIN revs \subseteq scope.files
    BY <1>2 DEF Exact, Scheduled
  <2>. HIDE DEF prev, scope, revs, src
  <2>. QED BY <1>1, <2>1, SourceRevisionLast
<1>9. Calm => /\ DOMAIN run.facts = DOMAIN Result(prev, scope, revs)
              /\ ~ EditsDuringIngest => run.facts = Result(prev, scope, revs)
  BY <1>2, RunResult DEF Exact, Assembled
<1>10. Resumable'
  <2>1. \A id \in DOMAIN jobs : id.target \in Nat /\ id.target <= g
    BY <1>1 DEF Ingesting, TypeOK, JobId, Checkpoints
  <2>2. \A l \in links : l[1] \in Nat /\ l[1] <= g
    BY <1>1 DEF Ingesting, TypeOK, Exact, Resumable
  <2>3. \A l \in {g} \X run.keys : l[1] = g /\ l[2] \in run.keys
    OBVIOUS
  <2>4. Calm => \A k \in run.keys : k.kind = "facts"
    BY <1>7, FactKeysKind
  <2>5. Calm => \A l \in links' : l[2].kind = "facts"
    BY <1>2, <2>3, <2>4 DEF Exact, Resumable
  <2>6. \A l \in links' : l[1] \in Nat /\ l[1] <= g
    BY <1>1, <1>2, <2>2, <2>3
  <2>. QED BY <1>1, <1>2, <1>6, <2>1, <2>5, <2>6 DEF Resumable
<1>11. Chained'
  <2>. SUFFICES ASSUME NEW h \in 1..g
                PROVE  /\ Calm => generations'[h].keys = FactKeys(generations'[h].facts)
                       /\ \E s \in Scopes, m \in RevisionMaps :
                            /\ generations'[h].source_revision = SourceRevision(generation(h - 1)', s, m)
                            /\ DOMAIN m \subseteq s.files
    BY <1>4, <1>6 DEF Chained, FactKeys, Facts, SourceRevision
  <2>1. CASE h = g
    <3>1. generation(h - 1)' = prev
      BY <1>1, <1>5, <2>1
    <3>. QED BY <1>1, <1>3, <1>4, <1>7, <1>8, <2>1, <3>1
  <2>2. CASE h # g
    <3>1. h \in DOMAIN generations /\ generations'[h] = generations[h]
          /\ generation(h - 1)' = generation(h - 1)
      BY <1>1, <1>4, <1>5, <2>2
    <3>. QED BY <3>1 DEF Exact, History, Chained
  <2>. QED BY <2>1, <2>2
<1>12. /\ Expected(g)' = Result(prev, scope, revs)
       /\ \A h \in 1..active : Expected(h)' = Expected(h)
  <2>1. SourceOf(g)' = [scope |-> scope, revs |-> revs]
    BY <1>3, <1>4, <1>8 DEF SourceOf
  <2>2. generation(g - 1)' = prev
    BY <1>1, <1>5
  <2>3. \A h \in 1..active : SourceOf(h)' = SourceOf(h) /\ generation(h - 1)' = generation(h - 1)
    BY <1>1, <1>4, <1>5 DEF SourceOf
  <2>. QED BY <2>1, <2>2, <2>3 DEF Expected, Result
<1>13. Calm' => SourceCovered'
  <2>1. \A h \in 1..g : h = g \/ h \in 1..active
    BY <1>1
  <2>. QED BY <1>1, <1>3, <1>4, <1>6, <1>9, <1>12, <2>1 DEF Exact, History, SourceCovered
<1>14. ASSUME ~ EditsDuringIngest
       PROVE  SourceExact' /\ GraphsMatchGenerations' /\ Determined'
  <2>. /\ Calm
       /\ \A h \in 1..g : h = g \/ h \in 1..active
    BY <1>1, <1>14 DEF Calm
  <2>1. SourceExact'
    BY <1>1, <1>3, <1>4, <1>9, <1>12, <1>14 DEF Exact, History, SourceExact
  <2>2. GraphsMatchGenerations'
    <3>1. src \in DOMAIN graphs /\ graphs[src] = {k \in run.keys : k.kind = "facts"}
      BY <1>2, <1>7, <1>14, FactKeysKind DEF Ingesting, Records, Exact, Composed
    <3>. QED BY <1>1, <1>2, <1>3, <1>4, <1>14, <3>1
             DEF Exact, History, GraphsMatchGenerations, GraphOfItsFacts
  <2>3. Determined'
    <3>1. \A h \in 0..active : generation(h).source_revision = src => generation(h).facts = run.facts
      BY <1>2, <1>14, RunDetermined DEF Exact, Assembled
    <3>2. \A h \in 0..g : h = g \/ h \in 0..active
      BY <1>1
    <3>. SUFFICES ASSUME NEW h \in 0..g, NEW k \in 0..g,
                         generation(h)'.source_revision = generation(k)'.source_revision
                  PROVE  generation(h)'.facts = generation(k)'.facts
      BY <1>2 DEF Determined
    <3>. QED BY <1>3, <1>5, <1>14, <3>1, <3>2 DEF Exact, History, Determined
  <2>. QED BY <2>1, <2>2, <2>3
<1>15. Scheduled' /\ Assembled' /\ AssembledExact' /\ Composed'
  BY <1>2 DEF Scheduled, Assembled, AssembledExact, Composed
<1>. QED BY <1>10, <1>11, <1>13, <1>14, <1>15 DEF Exact, History

\* Marking the job of a published generation changes no row of the next one.
LEMMA MarkExact ==
  ASSUME Ingesting, Exact, [Next]_vars, MarkPublished
  PROVE  Exact'
<1> DEFINE row == [stage |-> "published", next |-> run.next]
<1>1. /\ links' = links \cup ({run.id.target} \X {})
      /\ jobs' = Insert(jobs, run.id, row)
      /\ pc = "mark" /\ pc' = "load"
      /\ UNCHANGED <<active, generations, graphs, faults>>
  BY DEF MarkPublished, WriteBatch
<1>. HIDE DEF row
<1>2. /\ links' = links
      /\ DOMAIN jobs' = DOMAIN jobs \cup {run.id}
      /\ \A x \in DOMAIN jobs : x # run.id => jobs'[x] = jobs[x]
  BY <1>1 DEF Insert
<1>3. active \in Nat /\ run.id.target = active
  BY <1>1, BoundsAssumption DEF Ingesting, TypeOK, Control
<1>4. Calm' => Calm
  BY <1>1 DEF Calm
<1>5. \A revs : Selected(generation(active), revs)' = Selected(generation(active), revs)
  BY <1>1, PlannedKept
<1>6. Resumable'
  <2>1. ASSUME ~ EditsDuringIngest, NEW id \in DOMAIN jobs', id.target = active + 1
        PROVE  LET S == Selected(generation(active), id.revs)'
               IN  \A f \in S \ FromBatch(S, jobs'[id].next) :
                     <<id.target, Facts(f, id.revs[f])>> \in links
    <3>1. id \in DOMAIN jobs /\ jobs'[id] = jobs[id]
      BY <1>2, <1>3, <2>1
    <3>. QED BY <1>5, <2>1, <3>1 DEF Exact, Resumable
  <2>2. faults' = 0 => \A id \in DOMAIN jobs' : id.target <= active
    BY <1>1, <1>2, <1>3 DEF Exact, Resumable
  <2>. QED BY <1>1, <1>2, <1>4, <2>1, <2>2 DEF Exact, Resumable, FromBatch, Rank, Facts
<1>7. History'
  BY <1>1, <1>4, HistoryKept DEF Exact, Ingesting, Records
<1>. QED BY <1>1, <1>6, <1>7 DEF Exact, Scheduled, Assembled, AssembledExact, Composed

\* Every part of Exact is about the variables only.
LEMMA StutterExact ==
  ASSUME Ingesting, Exact, [Next]_vars, UNCHANGED vars
  PROVE  Exact'
<1>1. /\ UNCHANGED <<active, generations, graphs, links, jobs, disk, pc, run, faults>>
      /\ (Calm' => Calm)
  BY DEF vars, Calm
<1>2. Resumable' /\ History'
  BY <1>1, ResumableKept, HistoryKept DEF Exact, Ingesting, Records
<1>3. generation(active)' = generation(active)
  BY <1>1, GenerationKept
<1>4. Scheduled'
  BY <1>1, <1>3 DEF Exact, Scheduled, Removed, SourceRevision
<1>5. Assembled' /\ AssembledExact' /\ Composed'
  BY <1>1, <1>3 DEF Exact, Assembled, AssembledExact, Composed, Kept, FactKeys, Facts,
                    FromBatch, Rank, TotalBatches
<1>. QED BY <1>2, <1>4, <1>5 DEF Exact

\* Exact is inductive, relative to Ingesting.
LEMMA NextExact == Ingesting /\ Exact /\ [Next]_vars => Exact'
<1>. SUFFICES ASSUME Ingesting, Exact, [Next]_vars PROVE Exact'
  OBVIOUS
<1>1. ASSUME NEW f \in Files, NEW r \in Revs \cup {Absent}, Edit(f, r) PROVE Exact'
  BY <1>1, EditExact
<1>2. CASE Ingest
  BY <1>2, BeginExact DEF Ingest
<1>3. CASE Parse
  BY <1>3, ParseExact
<1>4. CASE CommitBatch
  BY <1>4, CommitBatchExact
<1>5. CASE CommitGraph
  BY <1>5, CommitGraphExact
<1>6. CASE PublishGeneration
  BY <1>6, PublishExact
<1>7. CASE MarkPublished
  BY <1>7, MarkExact
<1>8. CASE Open \/ Adopt \/ RefuseRefresh \/ ParseFails
  BY <1>8, RestExact DEF Open, Adopt, RefuseRefresh, ParseFails, EngineFails, storeVars
<1>9. CASE CallFails \/ LoadFails \/ Crash
  <2>1. faults' # 0
    BY <1>9 DEF CallFails, LoadFails, Crash, Ingesting, TypeOK
  <2>. QED BY <1>9, <2>1, RestExact DEF CallFails, EngineFails, LoadFails, Crash, storeVars
<1>10. CASE Finished \/ UNCHANGED vars
  BY <1>10, StutterExact DEF Finished
<1>. QED BY <1>1, <1>2, <1>3, <1>4, <1>5, <1>6, <1>7, <1>8, <1>9, <1>10 DEF Next

\* Nothing is published yet.
LEMMA InitExact == Init => Exact
<1>. SUFFICES ASSUME Init PROVE Exact
  OBVIOUS
<1>1. /\ active = 0 /\ generations = <<>> /\ links = {} /\ jobs = <<>> /\ pc = "down" /\ faults = 0
      /\ DOMAIN generations = {} /\ DOMAIN jobs = {}
  BY DEF Init, StoreInit
<1>2. Scheduled /\ Assembled /\ AssembledExact /\ Composed /\ Resumable
  BY <1>1 DEF Scheduled, Assembled, AssembledExact, Composed, Resumable
<1>3. Chained /\ SourceCovered /\ SourceExact /\ GraphsMatchGenerations /\ Determined
  BY <1>1 DEF Chained, SourceCovered, SourceExact, GraphsMatchGenerations, Determined
<1>. QED BY <1>2, <1>3 DEF Exact, History

\* Exact holds in every reachable state.
LEMMA AlwaysExact == Spec => []Exact
<1>1. Ingesting /\ Exact /\ [Next]_vars => Exact'
  BY NextExact
<1>. QED BY <1>1, InitExact, AlwaysIngesting, PTL DEF Spec

-----------------------------------------------------------------------------
(***************************************************************************)
(* Every action preserves Swapped, in a state that Exact describes.        *)
(***************************************************************************)
\* A published manifest was published for the scope and the revisions that its
\* source revision ends with.
LEMMA PublishedSource ==
  ASSUME Ingesting, Exact, NEW g \in DOMAIN generations
  PROVE  DOMAIN SourceOf(g).revs \subseteq SourceOf(g).scope.files
<1>1. PICK s \in Scopes, m \in RevisionMaps :
        /\ generations[g].source_revision = SourceRevision(generation(g - 1), s, m)
        /\ DOMAIN m \subseteq s.files
  BY DEF Exact, History, Chained
<1>2. generation(g - 1) \in Manifest
  BY ManifestTypes DEF Ingesting
<1>3. SourceOf(g) = [scope |-> s, revs |-> m]
  BY <1>1, <1>2, SourceRevisionLast DEF SourceOf
<1>. QED BY <1>1, <1>3

\* Decoding the changed files only gives the manifest that was published.
LEMMA RefreshIsExact ==
  ASSUME Ingesting, Exact, Swapped, ~ EditsDuringIngest, ~ LateFailures,
         pc = "load", run.id.scope # Project, hot # NoSnapshot
  PROVE  /\ RefreshedFacts(run.id.target, hot, run.id.scope.files)
              = generations[run.id.target].facts
         /\ RefreshMatches(run.id.target, hot, run.id.scope.files)
<1> DEFINE g       == run.id.target
           changed == run.id.scope.files
           facts   == generations[g].facts
           src     == SourceOf(g)
<1>1. /\ active \in Nat /\ g = active /\ DOMAIN generations = 1..active
      /\ hot \in Resident /\ hot.gen \in 1..MaxGeneration /\ hot.gen = g - 1
      /\ hot.facts = generations[g - 1].facts
      /\ src.scope = run.id.scope
  BY BoundsAssumption DEF Ingesting, TypeOK, Control, Optional, Resident, Swapped
<1>2. g \in DOMAIN generations /\ generation(g - 1).facts = hot.facts
  BY <1>1, BoundsAssumption DEF generation
<1>3. DOMAIN src.revs \subseteq changed
  BY <1>1, <1>2, PublishedSource
<1>4. facts = Overlay(Without(hot.facts, changed), src.revs)
  BY <1>1, <1>2 DEF Exact, History, SourceExact, Expected
<1>. HIDE DEF g, changed, src
<1>5. /\ DOMAIN facts = (DOMAIN hot.facts \ changed) \cup DOMAIN src.revs
      /\ \A f \in DOMAIN facts :
           facts[f] = IF f \in DOMAIN src.revs THEN src.revs[f] ELSE hot.facts[f]
      /\ facts = [f \in DOMAIN facts |-> facts[f]]
  BY <1>4 DEF Overlay, Without
<1>. HIDE DEF facts
<1>6. RefreshedFacts(g, hot, changed)
        = Overlay(Without(hot.facts, changed), [f \in changed \cap DOMAIN facts |-> facts[f]])
  BY DEF RefreshedFacts, facts
<1>7. RefreshedFacts(g, hot, changed) = facts
  BY <1>3, <1>5, <1>6 DEF Overlay, Without
<1>. QED BY <1>7 DEF RefreshMatches, g, changed, facts

\* What is said of the resident snapshot does not depend on the rest of the run.
LEMMA SwappedKept ==
  ASSUME Ingesting, Swapped, UNCHANGED <<active, generations, hot>>,
         ~ EditsDuringIngest =>
           \A g \in DOMAIN generations :
             /\ generations[g].source_revision \in DOMAIN graphs'
             /\ graphs'[generations[g].source_revision] = graphs[generations[g].source_revision],
         pc # "down", pc' # "down",
         pc' \in {"mark", "load"} <=> pc \in {"mark", "load"},
         pc' \in {"mark", "load"} => run' = run
  PROVE  Swapped'
<1>. SUFFICES ASSUME ~ EditsDuringIngest, ~ LateFailures PROVE Swapped'
  BY DEF Swapped
<1>1. hot # NoSnapshot => hot.gen \in DOMAIN generations
  BY BoundsAssumption DEF Ingesting, TypeOK, Optional, Resident, Swapped
<1>. QED BY <1>1 DEF Swapped, SourceOf

\* Opening the store loads the active generation.
LEMMA OpenSwapped ==
  ASSUME Ingesting, Open
  PROVE  Swapped'
<1>1. UNCHANGED <<active, generations, graphs>> /\ pc' = "idle"
  BY DEF Open, storeVars
<1>2. CASE active = 0
  BY <1>1, <1>2 DEF Open, Swapped
<1>3. CASE active # 0
  <2>1. hot' = [gen |-> active, facts |-> generations[active].facts,
                graph |-> graphs[generations[active].source_revision]]
    BY <1>3 DEF Open, LoadSnapshot, Snapshot
  <2>. QED BY <1>1, <2>1 DEF Swapped
<1>. QED BY <1>2, <1>3

\* The snapshot becomes the one before the active generation.
LEMMA PublishSwapped ==
  ASSUME Ingesting, Exact, Swapped, PublishGeneration
  PROVE  Swapped'
<1>. SUFFICES ASSUME ~ EditsDuringIngest, ~ LateFailures PROVE Swapped'
  BY DEF Swapped
<1> DEFINE src == run.source_revision
<1>0. PICK g : g = active + 1
  OBVIOUS
<1>1. /\ run \in Locals /\ active \in Nat /\ g = active + 1 /\ run.id.target = g
      /\ DOMAIN generations = 1..active
  BY <1>0, RunType, BoundsAssumption DEF Ingesting, PublishGeneration, Control, TypeOK
<1>2. /\ generations' = Insert(generations, g, RunManifest)
      /\ active' = g /\ pc = "publish" /\ pc' = "mark"
      /\ UNCHANGED <<graphs, hot, run>>
  BY <1>1 DEF PublishGeneration, Publish, RunManifest
<1>3. /\ generations'[g].source_revision = src
      /\ \A h \in 1..active : generations'[h] = generations[h]
  BY <1>1, <1>2 DEF Insert, RunManifest
<1>4. src[Len(src)] = [scope |-> run.id.scope, revs |-> run.id.revs]
  <2>1. src = SourceRevision(generation(active), run.id.scope, run.id.revs)
    BY <1>2 DEF Exact, Scheduled
  <2>2. generation(active) \in Manifest /\ run.id.scope \in Scopes /\ run.id.revs \in RevisionMaps
    BY <1>1, ManifestTypes DEF Ingesting, Locals, JobId
  <2>. HIDE DEF src
  <2>. QED BY <2>1, <2>2, SourceRevisionLast
<1>5. SourceOf(active)'.scope = run.id.scope
  BY <1>2, <1>3, <1>4 DEF SourceOf
<1>6. ASSUME hot # NoSnapshot
      PROVE  /\ hot.gen = g - 1 /\ generations'[hot.gen] = generations[hot.gen]
             /\ hot.facts = generations[hot.gen].facts
             /\ hot.graph = graphs[generations[hot.gen].source_revision]
  <2>1. hot.gen \in 1..MaxGeneration /\ hot.gen = active
    BY <1>2, <1>6 DEF Ingesting, TypeOK, Optional, Resident, Swapped
  <2>. QED BY <1>1, <1>2, <1>3, <1>6, <2>1, BoundsAssumption DEF Swapped
<1>. QED BY <1>1, <1>2, <1>5, <1>6 DEF Swapped

\* The active generation is swapped in as it was published.
LEMMA AdoptSwapped ==
  ASSUME Ingesting, Exact, Swapped, Adopt
  PROVE  Swapped'
<1>. SUFFICES ASSUME ~ EditsDuringIngest, ~ LateFailures PROVE Swapped'
  BY DEF Swapped
<1>1. /\ pc = "load" /\ pc' = "idle" /\ UNCHANGED <<active, generations, graphs>>
      /\ run.id.target = active
  BY DEF Adopt, Ingesting, Control, storeVars
<1>2. hot' = Snapshot(active, generations[active].facts, generations[active])
  <2>1. CASE run.id.scope = Project \/ hot = NoSnapshot
    BY <1>1, <2>1 DEF Adopt, LoadSnapshot
  <2>2. CASE ~ (run.id.scope = Project \/ hot = NoSnapshot)
    BY <1>1, <2>2, RefreshIsExact DEF Adopt
  <2>. QED BY <2>1, <2>2
<1>. QED BY <1>1, <1>2 DEF Swapped, Snapshot

\* Swapped is inductive, relative to Exact.
LEMMA NextSwapped == Ingesting /\ Exact /\ Swapped /\ [Next]_vars => Swapped'
<1>. SUFFICES ASSUME Ingesting, Exact, Swapped, [Next]_vars PROVE Swapped'
  OBVIOUS
<1>1. CASE UNCHANGED <<active, generations, graphs, pc, run, hot>>
  BY <1>1 DEF Swapped, SourceOf
<1>2. \A g \in DOMAIN generations : generations[g].source_revision \in DOMAIN graphs
  BY DEF Ingesting, Records
<1>3. CASE (\E f \in Files, r \in Revs \cup {Absent} : Edit(f, r)) \/ Finished \/ UNCHANGED vars
  BY <1>1, <1>3 DEF Edit, Finished, vars, storeVars
<1>4. CASE Ingest \/ Parse \/ CommitBatch \/ ParseFails
  <2>1. /\ UNCHANGED <<active, generations, graphs, hot>>
        /\ pc \in {"idle", "parse", "commit"} /\ pc' \in {"idle", "parse", "commit"}
    BY <1>4 DEF Ingest, Begin, Parse, CommitBatch, ParseFails, EngineFails, storeVars
  <2>. QED BY <1>2, <2>1, SwappedKept
<1>5. CASE CommitGraph
  BY <1>5, CommitGraphKeeps, SwappedKept DEF CommitGraph
<1>6. CASE MarkPublished
  BY <1>2, <1>6, SwappedKept DEF MarkPublished
<1>7. CASE CallFails
  <2>. SUFFICES ASSUME ~ EditsDuringIngest, ~ LateFailures PROVE Swapped'
    BY DEF Swapped
  <2>. QED BY <1>2, <1>7, SwappedKept DEF CallFails, EngineFails, storeVars
<1>8. CASE Crash
  BY <1>8 DEF Crash, Swapped
<1>9. CASE RefuseRefresh
  <2>. SUFFICES ASSUME ~ EditsDuringIngest, ~ LateFailures PROVE Swapped'
    BY DEF Swapped
  <2>. QED BY <1>9, RefreshIsExact DEF RefuseRefresh
<1>10. CASE LoadFails
  BY <1>10 DEF LoadFails, Swapped
<1>. QED BY <1>3, <1>4, <1>5, <1>6, <1>7, <1>8, <1>9, <1>10, OpenSwapped, PublishSwapped, AdoptSwapped
         DEF Next

\* Nothing is resident yet.
LEMMA InitSwapped == Init => Swapped
BY DEF Init, Swapped

\* Swapped holds in every reachable state.
LEMMA AlwaysSwapped == Spec => []Swapped
<1>1. Ingesting /\ Exact /\ Swapped /\ [Next]_vars => Swapped'
  BY NextSwapped
<1>. QED BY <1>1, InitSwapped, AlwaysIngesting, AlwaysExact, PTL DEF Spec

-----------------------------------------------------------------------------
(***************************************************************************)
(* The refinement: every step of the engine and its manager is one of      *)
(* GenerationPublication, or none.                                         *)
(***************************************************************************)
\* A sequence that goes on after another one.
LEMMA SequenceExtended ==
  ASSUME NEW n \in Nat, NEW p, NEW q,
         p = [i \in 1..n |-> p[i]], q = [i \in 1..n + 1 |-> q[i]],
         \A i \in 1..n : q[i] = p[i]
  PROVE  Len(q) = Len(p) + 1 /\ SubSeq(q, 1, Len(p)) = p
<1> DEFINE S == {p[i] : i \in 1..n} \cup {q[i] : i \in 1..n + 1}
<1>1. p \in [1..n -> S] /\ q \in [1..n + 1 -> S]
  OBVIOUS
<1>. HIDE DEF S
<1>2. p \in Seq(S) /\ Len(p) = n /\ q \in Seq(S) /\ Len(q) = n + 1
  BY <1>1, n + 1 \in Nat, SeqDef, LenProperties
<1>3. /\ SubSeq(q, 1, n) \in Seq(S) /\ Len(SubSeq(q, 1, n)) = n
      /\ \A i \in 1..n : SubSeq(q, 1, n)[i] = q[i]
  BY <1>2, SubSeqProperties
<1>4. SubSeq(q, 1, n) = p
  BY <1>2, <1>3, SeqEqual
<1>. QED BY <1>2, <1>4

\* The abstract variables, from the tables and the resident snapshot.
Published == [g \in 1..active |-> Contents(g)]
ResidentOf ==
  IF hot = NoSnapshot THEN NoSnapshot
  ELSE [gen |-> hot.gen, contents |-> [facts |-> hot.facts, graph |-> hot.graph]]

\* A step that leaves the published generations and the snapshot is a stutter.
LEMMA PublishedKept ==
  ASSUME Ingesting, UNCHANGED <<active, generations>>,
         \A g \in DOMAIN generations :
           graphs'[generations[g].source_revision] = graphs[generations[g].source_revision]
  PROVE  UNCHANGED Published
<1>1. DOMAIN generations = 1..active
  BY DEF Ingesting, TypeOK
<1>2. \A g \in 1..active : Contents(g)' = Contents(g)
  BY <1>1 DEF Contents
<1>. QED BY <1>2 DEF Published

\* Loading the active generation makes the newest published one resident.
LEMMA LoadsNewest ==
  ASSUME Ingesting, active # 0, hot' # NoSnapshot, UNCHANGED <<active, generations, graphs>>,
         hot' = Snapshot(active, generations[active].facts, generations[active])
  PROVE  Publication!MakeResident
<1>1. active \in Nat /\ active \in 1..active
  BY BoundsAssumption DEF Ingesting, TypeOK
<1>2. Len(Published) = active /\ Published # <<>> /\ Published[active] = Contents(active)
  BY <1>1 DEF Published
<1>3. UNCHANGED Published
  BY PublishedKept
<1>4. ResidentOf' = [gen |-> active, contents |-> Contents(active)]
  BY DEF ResidentOf, Snapshot, Contents
<1>. QED BY <1>2, <1>3, <1>4 DEF Publication!MakeResident, Published, ResidentOf

\* Every step maps to a step of the abstract specification.
LEMMA NextPublication ==
  ASSUME ~ EditsDuringIngest, ~ LateFailures, Ingesting, Exact, Swapped, [Next]_vars, TypeOK'
  PROVE  [Publication!PubNext]_(Publication!pubVars)
<1>. SUFFICES Publication!PubNext \/ UNCHANGED <<Published, ResidentOf>>
  BY DEF Publication!pubVars, Published, ResidentOf
<1>1. CASE UNCHANGED <<active, generations, graphs, hot>>
  BY <1>1, PublishedKept DEF ResidentOf
<1>2. CASE \/ \E f \in Files, r \in Revs \cup {Absent} : Edit(f, r)
           \/ Ingest \/ Parse \/ CommitBatch \/ MarkPublished \/ RefuseRefresh \/ ParseFails
           \/ LoadFails \/ CallFails \/ Finished \/ UNCHANGED vars
  BY <1>1, <1>2 DEF Edit, Ingest, Begin, Parse, CommitBatch, MarkPublished, RefuseRefresh,
                    LoadFails, ParseFails, CallFails, EngineFails, Finished, vars, storeVars
<1>3. CASE CommitGraph
  <2>1. UNCHANGED <<active, generations, hot>>
    BY <1>3 DEF CommitGraph
  <2>. QED BY <1>3, <2>1, CommitGraphKeeps, PublishedKept DEF ResidentOf
<1>4. CASE PublishGeneration
  <2>1. /\ active \in Nat /\ active' = active + 1 /\ run.id.target = active + 1
        /\ DOMAIN generations = 1..active
    BY <1>4, BoundsAssumption DEF PublishGeneration, Publish, Ingesting, TypeOK, Control
  <2>2. /\ generations' = Insert(generations, active + 1, RunManifest)
        /\ UNCHANGED <<graphs, hot>>
    BY <1>4, <2>1 DEF PublishGeneration, Publish
  <2>3. \A g \in 1..active : Contents(g)' = Contents(g)
    BY <2>1, <2>2 DEF Contents, Insert
  <2>4. /\ Published = [g \in 1..active |-> Published[g]]
        /\ Published' = [g \in 1..active + 1 |-> Published'[g]]
        /\ \A g \in 1..active : Published'[g] = Published[g]
    BY <2>1, <2>3 DEF Published
  <2>5. /\ Len(Published') = Len(Published) + 1
        /\ SubSeq(Published', 1, Len(Published)) = Published
    BY <2>1, <2>4, SequenceExtended
  <2>6. UNCHANGED ResidentOf
    BY <2>2 DEF ResidentOf
  <2>. QED BY <2>5, <2>6 DEF Publication!PubNext, Publication!PublishNext, Published, ResidentOf
<1>5. CASE Open
  <2>1. UNCHANGED <<active, generations, graphs>>
    BY <1>5 DEF Open, storeVars
  <2>2. CASE active = 0
    <3>1. hot = NoSnapshot /\ hot' = NoSnapshot
      BY <1>5, <2>2 DEF Open, Swapped
    <3>. QED BY <1>1, <2>1, <3>1
  <2>3. CASE active # 0
    <3>1. hot' = Snapshot(active, generations[active].facts, generations[active])
      BY <1>5, <2>3 DEF Open, LoadSnapshot
    <3>2. hot' # NoSnapshot
      BY <2>1, <2>3, <3>1, LoadSnapshotType, SentinelsAssumption, BoundsAssumption
         DEF LoadSnapshot, Ingesting, TypeOK
    <3>. QED BY <2>1, <2>3, <3>1, <3>2, LoadsNewest DEF Publication!PubNext
  <2>. QED BY <2>2, <2>3
<1>6. CASE Adopt
  <2>1. /\ UNCHANGED <<active, generations, graphs>> /\ pc = "load" /\ run.id.target = active
        /\ active # 0
    <3>1. run.id.target \in 1..MaxGeneration
      BY <1>6, RunType DEF Adopt, Ingesting, Locals, JobId
    <3>. QED BY <1>6, <3>1, BoundsAssumption DEF Adopt, Ingesting, Control, storeVars
  <2>2. hot' = Snapshot(active, generations[active].facts, generations[active])
    <3>1. CASE run.id.scope = Project \/ hot = NoSnapshot
      BY <1>6, <2>1, <3>1 DEF Adopt, LoadSnapshot
    <3>2. CASE ~ (run.id.scope = Project \/ hot = NoSnapshot)
      BY <1>6, <2>1, <3>2, RefreshIsExact DEF Adopt
    <3>. QED BY <3>1, <3>2
  <2>3. hot' # NoSnapshot
    BY <2>1, <2>2, LoadSnapshotType, SentinelsAssumption, BoundsAssumption
       DEF LoadSnapshot, Ingesting, TypeOK
  <2>. QED BY <2>1, <2>2, <2>3, LoadsNewest DEF Publication!PubNext
<1>7. CASE Crash
  <2>1. UNCHANGED Published /\ ResidentOf' = NoSnapshot
    BY <1>7, PublishedKept DEF Crash, storeVars, ResidentOf
  <2>. QED BY <2>1 DEF Publication!PubNext, Publication!Forget, Published, ResidentOf
<1>. QED BY <1>2, <1>3, <1>4, <1>5, <1>6, <1>7 DEF Next

-----------------------------------------------------------------------------
(***************************************************************************)
(* Type correctness, of the store's tables, the run and the manager, for   *)
(* every number of files, batch size and history of failures.              *)
(***************************************************************************)
THEOREM TypeCorrect == Spec => []TypeOK
<1>1. Ingesting => TypeOK
  BY DEF Ingesting
<1>. QED BY <1>1, AlwaysIngesting, PTL

(***************************************************************************)
(* A manager that says ready (ArtifactState::Ready) has a snapshot of the  *)
(* active generation resident.                                             *)
(***************************************************************************)
THEOREM ReadyIsResident == Spec => []HotIsActive
<1>1. Ingesting => HotIsActive
  BY DEF Ingesting
<1>. QED BY <1>1, AlwaysIngesting, PTL

(***************************************************************************)
(* commit_batch and publish (redb.rs) never refuse what the engine submits:*)
(* a resumed or repeated ingestion is not stopped for ever by what an      *)
(* interrupted one left in the jobs table.                                 *)
(***************************************************************************)
THEOREM StoreNeverRefuses == Spec => []NeverRefused
<1>1. Ingesting => NeverRefused
  <2>. SUFFICES ASSUME Ingesting PROVE NeverRefused
    OBVIOUS
  <2>1. CASE pc \in {"commit", "mark"}
    <3>1. run \in Locals /\ run.id.target > 0 /\ run.next \in Nat
      BY <2>1, RunType DEF Ingesting, Locals, JobId
    <3>2. run.id \in DOMAIN jobs => jobs[run.id].next = run.next
      BY <2>1 DEF Ingesting, Progress
    <3>3. CheckpointAccepted(run.id, run.next) /\ CheckpointAccepted(run.id, run.next + 1)
      BY <3>1, <3>2 DEF CheckpointAccepted
    <3>. QED BY <2>1, <3>3 DEF NeverRefused, Ingesting, Progress
  <2>2. CASE pc = "publish"
    <3>1. active \in Nat /\ run.id.target = active + 1 /\ DOMAIN generations = 1..active
      BY <2>2, BoundsAssumption DEF Ingesting, TypeOK, Control
    <3>2. PublishAccepted(run.id.target, RunManifest)
      BY <2>2, <3>1 DEF Ingesting, Records, PublishAccepted, RunManifest
    <3>. QED BY <2>2, <3>2 DEF NeverRefused
  <2>. QED BY <2>1, <2>2 DEF NeverRefused
<1>. QED BY <1>1, AlwaysIngesting, PTL
(***************************************************************************)
(* Where no file changes between its hash and its parse, every generation  *)
(* is exactly its predecessor with the scope replaced by what the scan     *)
(* found: whatever batches an interrupted ingestion left behind, resumed,  *)
(* repeated or abandoned (ingest_with_batch_limit, ingestion.rs).          *)
(***************************************************************************)
THEOREM GenerationsAreExact ==
  ASSUME ~ EditsDuringIngest
  PROVE  Spec => []SourceExact
<1>1. Exact => SourceExact
  BY DEF Exact, History
<1>. QED BY <1>1, AlwaysExact, PTL

(***************************************************************************)
(* The call graph record of every published generation is the one composed *)
(* from its own facts, although a later run of the same source revision    *)
(* writes that record again (commit_projections, projections.rs).          *)
(***************************************************************************)
THEOREM GraphsAreOfTheirFacts ==
  ASSUME ~ EditsDuringIngest
  PROVE  Spec => []GraphsMatchGenerations
<1>1. Exact => GraphsMatchGenerations
  BY DEF Exact, History
<1>. QED BY <1>1, AlwaysExact, PTL

(***************************************************************************)
(* With files edited at any time, and no crash or failed call, a           *)
(* generation has the files that its scan discovered, and no other.        *)
(***************************************************************************)
THEOREM EditsLoseNoFile == Spec => []EditsLoseNothing
<1>1. Exact => EditsLoseNothing
  BY DEF Exact, History, EditsLoseNothing, Calm
<1>. QED BY <1>1, AlwaysExact, PTL

(***************************************************************************)
(* "Each successful bulk or delta ingestion publishes one immutable        *)
(* generation", and the snapshot a request pins is one of them whole, the  *)
(* partially decoded ones included, when files are left alone during an    *)
(* ingestion and no call fails after its publication.                      *)
(***************************************************************************)
THEOREM PublicationImplemented ==
  ASSUME ~ EditsDuringIngest, ~ LateFailures
  PROVE  Spec => ImplementsPublication
<1>1. Init => Publication!PubInit
  BY DEF Init, StoreInit, Publication!PubInit
<1>2. Ingesting /\ Ingesting' /\ Exact /\ Swapped /\ [Next]_vars
        => [Publication!PubNext]_(Publication!pubVars)
  BY NextPublication DEF Ingesting
<1>. QED BY <1>1, <1>2, AlwaysIngesting, AlwaysExact, AlwaysSwapped, PTL
         DEF Spec, ImplementsPublication, Publication!PubSpec
=============================================================================
