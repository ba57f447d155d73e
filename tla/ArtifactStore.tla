---------------------------- MODULE ArtifactStore ----------------------------
(***************************************************************************)
(* The redb artifact database of one project                               *)
(* (crates/tldr-core/src/artifact_store/redb.rs, types.rs).                *)
(*                                                                         *)
(* Every write of the store is one redb transaction with                   *)
(* Durability::Immediate, so a transaction is one step here: it happens    *)
(* entirely, and survives a crash, or does not happen.  The transactions   *)
(* are operators over the tables; their guards are the conditions under    *)
(* which the code returns Err and leaves every table alone.                *)
(*                                                                         *)
(* Data.  A file revision is the hash of the file's bytes: a member of     *)
(* Revs.  The five records derived from one parse share subject, revision  *)
(* and producer, and are committed in one batch: they are one "facts" key. *)
(* A CFG/DFG/PDG of a function of the file is a "function" key.            *)
(* The project call graph is keyed by the source revision of its           *)
(* generation and has a table of its own here.                             *)
(***************************************************************************)
EXTENDS Naturals, FiniteSets, Sequences

CONSTANTS Files,   \* root-relative paths; naturals, in the order the walker sorts them
          Revs     \* the contents a file can have

ASSUME FilesAssumption == Files \subseteq Nat /\ IsFiniteSet(Files)

VARIABLES active,       \* METADATA[ACTIVE_GENERATION_KEY], 0 when unset
          previous,     \* METADATA[PREVIOUS_GENERATION_KEY], 0 when unset
          generations,  \* GENERATIONS: generation -> manifest
          artifacts,    \* ARTIFACTS: the keys that have a record
          graphs,       \* ARTIFACTS of kind CallGraph: source revision -> the facts composed
          links,        \* GENERATION_ARTIFACTS: pairs <<generation, key>>
          jobs          \* JOBS: job id -> checkpoint

storeVars == <<active, previous, generations, artifacts, graphs, links, jobs>>

Key == [kind : {"facts", "function"}, file : Files, rev : Revs]

Facts(f, r) == [kind |-> "facts", file |-> f, rev |-> r]

(***************************************************************************)
(* IngestionScope: the discovered corpus, or an explicit set of files.     *)
(* The daemon's writer submits a scan or one changed file.                 *)
(***************************************************************************)
Project == [kind |-> "project", files |-> Files]
FileScope(f) == [kind |-> "files", files |-> {f}]
Scopes == {Project} \cup {FileScope(f) : f \in Files}

\* The revisions of the files that were present, of any subset of the files.
RevisionMaps == UNION {[S -> Revs] : S \in SUBSET Files}

(***************************************************************************)
(* A manifest lists the artifact keys of a generation in a stable order.   *)
(* Two facts keys of one file can stand in it; a reader that collects them *)
(* into a map keeps the last: `facts' is that map, `keys' the whole list.  *)
(* The semantic join's vector_generation is not modelled.                  *)
(* source_revision is a hash chain: a project scan starts a chain, a file  *)
(* scope extends its predecessor's.  It is the sequence of what was hashed.*)
(***************************************************************************)
EmptyManifest == [source_revision |-> <<>>, keys |-> {}, facts |-> <<>>]

generation(g) == IF g \in DOMAIN generations THEN generations[g] ELSE EmptyManifest

\* Table insert: one row added or replaced.
Insert(table, k, row) == [x \in DOMAIN table \cup {k} |-> IF x = k THEN row ELSE table[x]]

\* The facts table of a manifest without some files, and with others laid over it.
Without(facts, S) == [f \in DOMAIN facts \ S |-> facts[f]]
Overlay(facts, new) ==
  [f \in DOMAIN facts \cup DOMAIN new |-> IF f \in DOMAIN new THEN new[f] ELSE facts[f]]

StoreInit ==
  /\ active = 0
  /\ previous = 0
  /\ generations = <<>>
  /\ artifacts = {}
  /\ graphs = <<>>
  /\ links = {}
  /\ jobs = <<>>

-----------------------------------------------------------------------------
(***************************************************************************)
(* commit_batch: records and checkpoint in one transaction.  The id names  *)
(* target generation, scope and source revision, so the comparison with    *)
(* an existing row is the one on next_batch.                               *)
(***************************************************************************)
CheckpointAccepted(id, next) ==
  /\ id.target > 0
  /\ id \in DOMAIN jobs => next \in jobs[id].next .. jobs[id].next + 1

WriteBatch(id, recs, stage, next) ==
  /\ artifacts' = artifacts \cup recs
  /\ links' = links \cup ({id.target} \X recs)
  /\ jobs' = Insert(jobs, id, [stage |-> stage, next |-> next])

(***************************************************************************)
(* publish: select a complete generation.  Nothing but this moves active.  *)
(***************************************************************************)
PublishAccepted(g, manifest) ==
  /\ g > active
  /\ manifest.keys \subseteq artifacts
  /\ manifest.source_revision \in DOMAIN graphs
  /\ g \notin DOMAIN generations

Publish(g, manifest) ==
  /\ generations' = Insert(generations, g, manifest)
  /\ links' = links \cup ({g} \X manifest.keys)
  /\ previous' = active
  /\ active' = g

(***************************************************************************)
(* commit_optional: a demand-driven artifact joins the active manifest,    *)
(* when the generation it was built for is still the active one and its    *)
(* dependencies have records.                                              *)
(***************************************************************************)
OptionalAccepted(g, deps) == active # 0 /\ g = active /\ deps \subseteq artifacts

CommitOptional(g, key) ==
  /\ artifacts' = artifacts \cup {key}
  /\ links' = links \cup {<<g, key>>}
  /\ generations' = [generations EXCEPT ![g].keys = @ \cup {key}]
  /\ UNCHANGED <<active, previous, graphs, jobs>>
=============================================================================
