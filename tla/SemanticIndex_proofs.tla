------------------------ MODULE SemanticIndex_proofs ------------------------
(***************************************************************************)
(* What holds of vector generations, job rows and resident vectors for any *)
(* files, contents, batches and bounds.                                    *)
(*                                                                         *)
(* Whole is what publications need of the ledger, with no condition: its   *)
(* numbers are those given so far, its pointers name generations that are  *)
(* complete (Generations), and the worker is at a generation that its next *)
(* step may touch (Publication). Attempts counts the starts of a job       *)
(* against the retries its row has, which a torn row forgets.              *)
(*                                                                         *)
(* Certain says that digest and chunks go together: what has the digest of *)
(* the files as they are is of them (Stamped), and what has the digest     *)
(* that a worker took, or is published by it, is of the corpus its job was *)
(* asked for (Asked), also when files are saved while it adopts an older   *)
(* artifact. Published and completed are then the same.                    *)
(***************************************************************************)
EXTENDS SemanticIndex, FiniteSetTheorems, WellFoundedInduction, TLAPS

\* The types of the rows and of the locals.
JobStates == {"running", "pending", "failed", "completed", "removed"}
JobRecords == [state : JobStates, retries : 0..MaxRetries, starts : Nat]

BatchRecords ==
  [todo : SUBSET Files, applied : SUBSET Files, snapshot : Nat, file : Files \cup {Absent},
   chunks : Corpora \cup {Cold}, signal : Nat, prior : Revs \cup {Absent}]

BuildRecords ==
  [pc : {"idle", "scan", "pin", "worker", "load", "join", "drop", "finish", "again"},
   snapshot : Nat, chunks : Corpora \cup {Cold}, attempt : 0..MaxRetries]

WorkerLabels == {"off", "open", "start", "check", "stage", "records", "artifact", "activate",
                 "mirror", "complete", "done", "dead"}

WorkerRecords ==
  [pc : WorkerLabels,
   job : Corpora \cup {Cold}, corpus : Corpora \cup {Cold}, digest : Digests \cup {Cold},
   gen : Nat, retries : 0..MaxRetries, adopts : BOOLEAN, taken : Digests \cup {Cold}]

\* The numbers of a ledger are those given so far.
IsLedger(v) ==
  /\ v \in [gens : {v.gens}, active : Nat, previous : Nat, current : Nat, manifests : SUBSET Nat]
  /\ v.gens \in [Ledger(v) -> Generation]
  /\ \E n \in Nat : Ledger(v) = 1..n

Types ==
  /\ disk \in Corpora /\ touched \in Digests /\ events \subseteq Files
  /\ facts \in Corpora \cup {Cold} /\ generation \in Nat
  /\ facts = Cold <=> generation = 0
  /\ attached \in Nat
  /\ IsLedger(vectors)
  /\ DOMAIN jobs \subseteq Corpora /\ jobs \in [DOMAIN jobs -> JobRecords]
  /\ resident \in Corpora \cup {Cold}
  /\ behind \subseteq Files
  /\ pc \in [Batchers -> {"idle", "ingest", "plan", "apply", "drop", "invalidate", "start"}]
  /\ batch \in [Batchers -> BatchRecords]
  /\ warm \in [running : BOOLEAN, pending : BOOLEAN]
  /\ build \in BuildRecords
  /\ worker \in WorkerRecords
  /\ edits \in 0..MaxEdits /\ calls \in 0..MaxCalls /\ faults \in 0..MaxFaults

\* What each batch holds where it is: a batch past its deltas has none left.
Batches ==
  \A t \in Batchers :
    /\ pc[t] \in {"idle", "invalidate", "start"} => batch[t] = NoBatch
    /\ pc[t] \in {"plan", "apply", "drop"} => batch[t].todo = {}
    /\ pc[t] \in {"plan", "apply"} => batch[t].chunks # Cold
    /\ pc[t] = "apply" => batch[t].file \in Files
    /\ pc[t] = "ingest" /\ batch[t].applied # {} => generation > 0
    /\ batch[t].snapshot <= generation

\* The build has a worker at one place, and a cold store from there to the load.
Builds ==
  /\ warm.running <=> build.pc # "idle"
  /\ build.pc = "worker" <=> worker.pc # "off"
  /\ build.pc \in {"worker", "load"} => /\ build.chunks # Cold
                                       /\ resident = Cold
                                       /\ generation > 0
  /\ worker.pc \notin {"off", "dead"} => worker.job = build.chunks
  /\ build.snapshot <= generation
  /\ resident # Cold => generation > 0 /\ vectors.active # 0

\* The ledger: its numbers are those given so far, and what its pointers name is whole.
Generations ==
  /\ {vectors.active, vectors.previous, vectors.current, attached} \subseteq Ledger(vectors) \cup {0}
  /\ vectors.manifests \subseteq Ledger(vectors)
  /\ \A g \in {vectors.active, vectors.previous, attached} \ {0} :
       Complete(vectors, g) /\ vectors.gens[g].stored
  /\ vectors.active # vectors.previous \/ vectors.active = 0
  /\ vectors.previous = 0 => \A g \in Ledger(vectors) : Complete(vectors, g) => g = vectors.active
  /\ \A c \in DOMAIN jobs : jobs[c].state = "completed" => vectors.active # 0

\* The steps of a worker that has taken its digest.
Taking == {"check", "stage", "records", "artifact", "activate", "mirror", "complete"}
Takes == worker.pc \in Taking => worker.taken # Cold

\* The generation being published, by the step that is next.
Publication ==
  /\ worker.pc = "stage" => worker.corpus # Cold /\ worker.digest # Cold
  /\ worker.pc \in {"records", "artifact", "activate", "mirror"} => worker.gen \in Ledger(vectors)
  /\ worker.pc \in {"records", "artifact", "activate"} => ~ Complete(vectors, worker.gen)
  /\ worker.pc \in {"artifact", "activate"} => vectors.gens[worker.gen].stored
  /\ worker.pc = "mirror" => worker.gen = vectors.active
  /\ worker.pc = "complete" => vectors.active # 0
  /\ worker.adopts => worker.pc \in {"stage", "records", "artifact", "activate", "mirror"}
  /\ worker.pc \in {"start", "check", "stage", "records", "artifact", "activate", "mirror", "complete"}
       => worker.retries < MaxRetries

Whole == Types /\ Batches /\ Builds /\ Generations /\ Publication /\ Takes

\* A job was started no more often than its row accounts for.
Attempts ==
  /\ \A c \in DOMAIN jobs :
       LET j == jobs[c]
       IN  /\ j.state = "running" => j.starts <= j.retries + 1 /\ j.retries < MaxRetries
           /\ j.state \in {"pending", "failed"} => j.starts <= j.retries
           /\ j.state = "completed" => j.starts <= MaxRetries
           /\ j.state = "removed" => /\ worker.pc = "start"
                                     /\ worker.job = c
                                     /\ j.starts <= worker.retries
  /\ worker.pc = "start" => ~ Known(worker.job)
  /\ worker.pc \in {"check", "stage", "records", "artifact", "activate", "mirror", "complete"}
       => /\ worker.job \in DOMAIN jobs
          /\ jobs[worker.job].state = "running"
          /\ jobs[worker.job].retries = worker.retries

\* A digest of the files as they are is of their contents.
Stamped ==
  /\ \A f \in Files : touched[f] <= edits
  /\ \A g \in Ledger(vectors) :
       /\ \A f \in Files : vectors.gens[g].digest[f] <= edits
       /\ vectors.gens[g].digest = touched => vectors.gens[g].corpus = disk
  /\ worker.digest # Cold => \A f \in Files : worker.digest[f] <= edits
  /\ worker.taken # Cold => \A f \in Files : worker.taken[f] <= edits
  /\ worker.pc = "stage" /\ worker.digest = touched => worker.corpus = disk

\* What a worker publishes is of the corpus it was asked for.
Asked ==
  /\ build.pc = "pin" => facts \in {Cold, disk}
  /\ Exposed => build.pc = "pin" \/ build.chunks = disk
  /\ worker.pc \in Taking =>
       /\ worker.taken = touched => worker.job = disk
       /\ \A g \in Ledger(vectors) :
            vectors.gens[g].digest = worker.taken => vectors.gens[g].corpus = worker.job
       /\ worker.pc = "stage" /\ worker.digest = worker.taken => worker.corpus = worker.job
  /\ worker.pc \in {"stage", "records", "artifact", "activate", "mirror", "complete"}
       => worker.digest # Cold
  /\ worker.pc = "stage" /\ ~ worker.adopts => worker.corpus = worker.job
  /\ worker.pc \in {"records", "artifact", "activate", "mirror"} /\ ~ worker.adopts
       => vectors.gens[worker.gen].corpus = worker.job
  /\ worker.pc = "complete" => vectors.gens[vectors.active].corpus = worker.job

Certain == Stamped /\ Asked

-----------------------------------------------------------------------------
(***************************************************************************)
(* The steps of a publication, on any ledger.                              *)
(***************************************************************************)
\* The next number is one more than the ledger's last, if every medium's is its.
LEMMA NextIsFree ==
  ASSUME NEW v, NEW n \in Nat, Ledger(v) = 1..n,
         v.current \in Ledger(v) \cup {0}, v.manifests \subseteq Ledger(v)
  PROVE  NextGeneration(v) = n + 1
<1> DEFINE used == v.manifests \cup {v.current} \cup Ledger(v)
           Last(k) == k \in {g + 1 : g \in used} /\ \A g \in used : g < k
<1>1. n = 0 => used = {0}
  OBVIOUS
<1>2. n > 0 => n \in used
  OBVIOUS
<1>3. used \subseteq 0..n
  OBVIOUS
<1>4. n \in used
  BY <1>1, <1>2
<1>5. Last(n + 1)
  BY <1>3, <1>4
<1>6. ASSUME NEW k, Last(k) PROVE k = n + 1
  <2>1. PICK g \in used : k = g + 1
    BY <1>6
  <2>2. n < k
    BY <1>4, <1>6
  <2> QED
    BY <2>1, <2>2, <1>3
<1>7. NextGeneration(v) = CHOOSE k \in {g + 1 : g \in used} : \A g \in used : g < k
  BY DEF NextGeneration
<1> HIDE DEF used
<1> QED
  BY <1>5, <1>6, <1>7

LEMMA StageIsLedger ==
  ASSUME NEW v, IsLedger(v), v.current \in Ledger(v) \cup {0}, v.manifests \subseteq Ledger(v),
         NEW corpus \in Corpora, NEW digest \in Digests
  PROVE  LET g == NextGeneration(v)
             w == Stage(v, g, corpus, digest)
         IN  /\ g \notin Ledger(v) /\ g \in Nat \ {0}
             /\ IsLedger(w)
             /\ Ledger(w) = Ledger(v) \cup {g}
             /\ w.active = v.active /\ w.previous = v.previous
             /\ w.current = v.current /\ w.manifests = v.manifests
             /\ w.gens[g] = [state |-> "staged", corpus |-> corpus, digest |-> digest,
                             stored |-> FALSE]
             /\ \A h \in Ledger(v) : w.gens[h] = v.gens[h]
<1> DEFINE g == NextGeneration(v)
           w == Stage(v, g, corpus, digest)
<1>1. PICK n \in Nat : Ledger(v) = 1..n
  BY DEF IsLedger
<1>2. g = n + 1
  BY <1>1, NextIsFree
<1>3. g \notin Ledger(v) /\ g \in Nat \ {0} /\ Ledger(v) \cup {g} = 1..(n + 1)
  BY <1>1, <1>2
<1> HIDE DEF g
<1>4. /\ w.gens = [h \in Ledger(v) \cup {g} |->
             IF h = g THEN [state |-> "staged", corpus |-> corpus, digest |-> digest,
                            stored |-> FALSE]
                      ELSE v.gens[h]]
      /\ w.active = v.active /\ w.previous = v.previous
      /\ w.current = v.current /\ w.manifests = v.manifests
      /\ w \in [gens : {w.gens}, active : Nat, previous : Nat, current : Nat,
                manifests : SUBSET Nat]
  BY DEF IsLedger, Stage
<1> HIDE DEF w
<1>5. [state |-> "staged", corpus |-> corpus, digest |-> digest, stored |-> FALSE] \in Generation
  BY DEF Generation
<1>6. w.gens \in [Ledger(v) \cup {g} -> Generation] /\ Ledger(w) = Ledger(v) \cup {g}
  BY <1>4, <1>5 DEF IsLedger, Ledger
<1>7. IsLedger(w)
  <2>1. \E m \in Nat : Ledger(w) = 1..m
    BY <1>3, <1>6
  <2>2. w.gens \in [Ledger(w) -> Generation]
    BY <1>6
  <2> QED
    BY <1>4, <2>1, <2>2 DEF IsLedger
<1>8. \A h \in Ledger(v) : w.gens[h] = v.gens[h]
  BY <1>3, <1>4
<1> QED
  BY <1>3, <1>4, <1>6, <1>7, <1>8 DEF g, w

LEMMA PutIsLedger ==
  ASSUME NEW v, IsLedger(v), NEW g \in Ledger(v)
  PROVE  LET w == PutVectors(v, g)
         IN  /\ IsLedger(w)
             /\ Ledger(w) = Ledger(v)
             /\ w.active = v.active /\ w.previous = v.previous
             /\ w.current = v.current /\ w.manifests = v.manifests
             /\ \A h \in Ledger(v) : /\ w.gens[h].state = v.gens[h].state
                                     /\ w.gens[h].corpus = v.gens[h].corpus
                                     /\ w.gens[h].digest = v.gens[h].digest
                                     /\ w.gens[h].stored <=> (h = g \/ v.gens[h].stored)
<1> DEFINE w == PutVectors(v, g)
<1>1. /\ w.gens = [v.gens EXCEPT ![g].stored = TRUE]
      /\ w.active = v.active /\ w.previous = v.previous
      /\ w.current = v.current /\ w.manifests = v.manifests
      /\ w \in [gens : {w.gens}, active : Nat, previous : Nat, current : Nat,
                manifests : SUBSET Nat]
  BY DEF IsLedger, PutVectors
<1> HIDE DEF w
<1>2. v.gens \in [Ledger(v) -> Generation]
  BY DEF IsLedger
<1>3. ASSUME NEW h \in Ledger(v)
      PROVE  /\ w.gens[h] \in Generation
             /\ w.gens[h].state = v.gens[h].state
             /\ w.gens[h].corpus = v.gens[h].corpus
             /\ w.gens[h].digest = v.gens[h].digest
             /\ w.gens[h].stored <=> (h = g \/ v.gens[h].stored)
  <2>1. v.gens[h] \in Generation /\ v.gens[g] \in Generation
    BY <1>2
  <2>2. w.gens[h] = IF h = g THEN [v.gens[g] EXCEPT !.stored = TRUE] ELSE v.gens[h]
    BY <1>1, <1>2
  <2>3. CASE h = g
    BY <2>1, <2>2, <2>3 DEF Generation
  <2>4. CASE h # g
    <3>1. v.gens[h].stored \in BOOLEAN
      BY <2>1 DEF Generation
    <3> QED
      BY <2>1, <2>2, <2>4, <3>1
  <2> QED
    BY <2>3, <2>4
<1>4. w.gens \in [Ledger(v) -> Generation] /\ Ledger(w) = Ledger(v)
  BY <1>1, <1>2, <1>3 DEF Ledger
<1>5. IsLedger(w)
  BY <1>1, <1>4 DEF IsLedger
<1> QED
  BY <1>1, <1>3, <1>4, <1>5 DEF w

LEMMA ActivateIsLedger ==
  ASSUME NEW v, IsLedger(v), NEW g \in Ledger(v)
  PROVE  LET w == Activate(v, g)
         IN  /\ IsLedger(w)
             /\ Ledger(w) = Ledger(v)
             /\ w.active = g
             /\ w.previous = IF v.active = 0 THEN v.previous ELSE v.active
             /\ w.current = v.current /\ w.manifests = v.manifests
             /\ \A h \in Ledger(v) : /\ w.gens[h].state = IF h = g THEN "complete"
                                                                   ELSE v.gens[h].state
                                     /\ w.gens[h].corpus = v.gens[h].corpus
                                     /\ w.gens[h].digest = v.gens[h].digest
                                     /\ w.gens[h].stored = v.gens[h].stored
<1> DEFINE w == Activate(v, g)
<1>1. /\ w.gens = [v.gens EXCEPT ![g].state = "complete"]
      /\ w.active = g
      /\ w.previous = IF v.active = 0 THEN v.previous ELSE v.active
      /\ w.current = v.current /\ w.manifests = v.manifests
  BY DEF IsLedger, Activate
<1>2. g \in Nat
  BY DEF IsLedger
<1>3. w \in [gens : {w.gens}, active : Nat, previous : Nat, current : Nat,
             manifests : SUBSET Nat]
  BY <1>2 DEF IsLedger, Activate
<1> HIDE DEF w
<1>4. v.gens \in [Ledger(v) -> Generation]
  BY DEF IsLedger
<1>5. w.gens \in [Ledger(v) -> Generation] /\ Ledger(w) = Ledger(v)
  BY <1>1, <1>4 DEF Ledger, Generation
<1>6. IsLedger(w)
  BY <1>3, <1>5 DEF IsLedger
<1>7. ASSUME NEW h \in Ledger(v)
      PROVE  /\ w.gens[h].state = IF h = g THEN "complete" ELSE v.gens[h].state
             /\ w.gens[h].corpus = v.gens[h].corpus
             /\ w.gens[h].digest = v.gens[h].digest
             /\ w.gens[h].stored = v.gens[h].stored
  <2>1. v.gens[h] \in Generation /\ v.gens[g] \in Generation
    BY <1>4
  <2>2. w.gens[h] = IF h = g THEN [v.gens[g] EXCEPT !.state = "complete"] ELSE v.gens[h]
    BY <1>1, <1>4
  <2> QED
    BY <2>1, <2>2 DEF Generation
<1> QED
  BY <1>1, <1>5, <1>6, <1>7 DEF w

\* The newest of the artifacts on the disk is one of them.
LEMMA NewestIsIn ==
  ASSUME NEW n \in Nat, NEW S \in SUBSET (1..n), S # {}
  PROVE  Newest(S) \in S
<1> DEFINE R == {p \in Nat \X Nat : p[1] < p[2]}
           T == {n - k : k \in S}
<1>1. IsWellFoundedOn(R, Nat)
  BY NatLessThanWellFounded DEF OpToRel
<1>2. T \subseteq Nat /\ T # {}
  <2>1. \A k \in S : n - k \in Nat
    OBVIOUS
  <2>2. PICK k \in S : TRUE
    OBVIOUS
  <2>3. n - k \in T
    BY <2>2
  <2> QED
    BY <2>1, <2>3
<1>3. PICK x \in T : \A y \in T : ~ (<<y, x>> \in R)
  <2> HIDE DEF R, T
  <2> QED
    BY <1>1, <1>2, WFMin
<1>4. PICK g \in S : x = n - g
  BY <1>3
<1>5. \A h \in S : h <= g
  <2> TAKE h \in S
  <2>1. ~ (<<n - h, n - g>> \in R)
    BY <1>3, <1>4
  <2> QED
    BY <2>1, <1>2
<1> QED
  BY <1>4, <1>5 DEF Newest

\* The steps that touch the files alone leave the ledger as it is.
LEMMA FilesAlone ==
  ASSUME NEW v, IsLedger(v), NEW g \in Nat,
         NEW w, \/ w = WriteArtifact(v, g)
                \/ w = Mirror(v, g)
                \/ w = [v EXCEPT !.manifests = @ \ {g}]
  PROVE  /\ IsLedger(w)
         /\ Ledger(w) = Ledger(v)
         /\ w.gens = v.gens /\ w.active = v.active /\ w.previous = v.previous
         /\ w.current \in {v.current, g} /\ w.manifests \subseteq v.manifests \cup {g}
         /\ w.current = g \/ w.current = v.current
<1>1. /\ w.gens = v.gens /\ w.active = v.active /\ w.previous = v.previous
      /\ w.current \in {v.current, g} /\ w.manifests \subseteq v.manifests \cup {g}
      /\ w \in [gens : {w.gens}, active : Nat, previous : Nat, current : Nat,
                manifests : SUBSET Nat]
  BY DEF IsLedger, WriteArtifact, Mirror
<1>2. Ledger(w) = Ledger(v)
  BY <1>1 DEF Ledger
<1> QED
  BY <1>1, <1>2 DEF IsLedger

-----------------------------------------------------------------------------
\* A step of the system, one action at a time.
LEMMA Steps ==
  ASSUME [Next]_vars
  PROVE  \/ \E f \in Files, r \in Revs \cup {Absent} : Edit(f, r)
         \/ \E S \in SUBSET Files : Flush(S)
         \/ \E t \in Notifiers, f \in Files : Notify(t, f)
         \/ \E t \in Batchers, f \in Files : Delta(t, f)
         \/ \E t \in Batchers, f \in Files : DeltaFails(t, f)
         \/ \E t \in Batchers : PinBatch(t)
         \/ \E t \in Batchers, f \in Files : Plan(t, f)
         \/ \E t \in Batchers : Apply(t)
         \/ \E t \in Batchers : JoinBatch(t)
         \/ \E t \in Batchers : Drop(t)
         \/ WarmRequest \/ RequestRebuild \/ RebuildStep
         \/ Scan \/ ScanFails \/ PinBuild \/ Reap \/ LoadResident \/ JoinBuild \/ DropBuild \/ Finish
         \/ WorkerOpen \/ WorkerStart \/ WorkerCheck \/ WorkerPublish \/ WorkerComplete
         \/ WorkerFails \/ WorkerDies \/ Kill
         \/ \E g \in vectors.manifests : LoseArtifact(g)
         \/ UNCHANGED vars
BY DEF Next, BatchStep, BuildStep, WorkerStep, Finished

LEMMA Corpus ==
  /\ Nothing \in Corpora
  /\ \A c \in Corpora, f \in Files, r \in Revs \cup {Absent} : [c EXCEPT ![f] = r] \in Corpora
  /\ Cold \notin Corpora
  /\ Cold \notin Digests
<1>1. Digests \subseteq [Files -> Nat]
  BY DEF Digests
<1> QED
  BY <1>1, SemanticAssumption DEF Corpora, Nothing

LEMMA Blank ==
  /\ NoBatch \in BatchRecords
  /\ NoBuild \in BuildRecords /\ [NoBuild EXCEPT !.pc = "scan"] \in BuildRecords
  /\ NoWorker \in WorkerRecords
  /\ \A c \in Corpora : Spawned(c) \in WorkerRecords
<1>1. 0 \in 0..MaxRetries
  BY SemanticAssumption
<1>2. NoBatch \in BatchRecords
  BY DEF NoBatch, BatchRecords
<1>3. NoBuild \in BuildRecords /\ [NoBuild EXCEPT !.pc = "scan"] \in BuildRecords
  BY <1>1 DEF NoBuild, BuildRecords
<1>4. NoWorker \in WorkerRecords
  BY <1>1 DEF NoWorker, WorkerRecords, WorkerLabels
<1>5. \A c \in Corpora : Spawned(c) \in WorkerRecords
  BY <1>4 DEF NoWorker, WorkerRecords, WorkerLabels, Spawned
<1> QED
  BY <1>2, <1>3, <1>4, <1>5

LEMMA SetJobTyped ==
  ASSUME Types, NEW c \in Corpora, NEW s \in JobStates, NEW r \in 0..MaxRetries, NEW n \in Nat,
         SetJob(c, s, r, n)
  PROVE  /\ DOMAIN jobs' = DOMAIN jobs \cup {c}
         /\ DOMAIN jobs' \subseteq Corpora /\ jobs' \in [DOMAIN jobs' -> JobRecords]
         /\ jobs'[c] = [state |-> s, retries |-> r, starts |-> n]
         /\ \A d \in DOMAIN jobs \ {c} : jobs'[d] = jobs[d]
<1>1. jobs' = [d \in DOMAIN jobs \cup {c} |->
                 IF d = c THEN [state |-> s, retries |-> r, starts |-> n] ELSE jobs[d]]
  BY DEF SetJob
<1>2. [state |-> s, retries |-> r, starts |-> n] \in JobRecords
  BY DEF JobRecords
<1>3. \A d \in DOMAIN jobs : jobs[d] \in JobRecords
  BY DEF Types
<1> QED
  BY <1>1, <1>2, <1>3 DEF Types


-----------------------------------------------------------------------------
\* Types are kept by every step.
LEMMA TypesNext ==
  ASSUME Whole, [Next]_vars
  PROVE  Types'
<1> USE DEF Whole
<1> USE Corpus, Blank
<1>0. \A t \in Batchers : batch[t] \in BatchRecords
  BY DEF Types
<1>1. ASSUME NEW f \in Files, NEW r \in Revs \cup {Absent}, Edit(f, r) PROVE Types'
  <2>1. disk' \in Corpora
    BY <1>1 DEF Edit, Types
  <2>2. edits' \in 0..MaxEdits
    BY <1>1, SemanticAssumption DEF Edit, Types
  <2>3. touched' \in Digests
    BY <1>1, <2>2 DEF Edit, Types, Digests
  <2> QED
    BY <1>1, <2>1, <2>2, <2>3 DEF Types, Edit, storeVars, batchVars, buildVars
<1>2. ASSUME NEW S \in SUBSET Files, Flush(S) PROVE Types'
  BY <1>2 DEF Types, Flush, StartBatch, Goto, Batchers, BatchRecords, storeVars, buildVars
<1>3. ASSUME NEW t \in Notifiers, NEW f \in Files, Notify(t, f) PROVE Types'
  BY <1>3, SemanticAssumption
  DEF Types, Notify, StartBatch, Goto, Batchers, BatchRecords, diskVars, storeVars, buildVars
<1>4. ASSUME NEW t \in Batchers, NEW f \in Files, Delta(t, f) PROVE Types'
  <2>1. disk[f] \in Revs \cup {Absent}
    BY DEF Types, Corpora
  <2>2. facts' \in Corpora /\ generation' \in Nat \ {0} /\ attached' \in Nat
    <3> DEFINE base == IF generation = 0 THEN Nothing ELSE facts
    <3>1. base \in Corpora
      BY DEF Types
    <3>2. [base EXCEPT ![f] = disk[f]] \in Corpora
      BY <2>1, <3>1
    <3>3. facts' = [base EXCEPT ![f] = disk[f]] /\ generation' = generation + 1 /\ attached' = 0
      BY <1>4 DEF Delta, Ingested
    <3> HIDE DEF base
    <3> QED
      BY <3>2, <3>3 DEF Types
  <2>3. batch' \in [Batchers -> BatchRecords]
    <3>1. [batch[t] EXCEPT !.todo = @ \ {f}, !.applied = @ \cup {f}] \in BatchRecords
      BY <1>0 DEF BatchRecords
    <3> QED
      BY <1>4, <3>1 DEF Types, Delta
  <2> QED
    BY <1>4, <2>2, <2>3 DEF Types, Delta, diskVars, buildVars
<1>5. ASSUME NEW t \in Batchers, NEW f \in Files, DeltaFails(t, f) PROVE Types'
  <2>1. [batch[t] EXCEPT !.todo = @ \ {f}] \in BatchRecords
    BY <1>0 DEF BatchRecords
  <2>2. batch' \in [Batchers -> BatchRecords]
    BY <1>5, <2>1 DEF Types, DeltaFails
  <2>3. faults' \in 0..MaxFaults /\ behind' \subseteq Files
    BY <1>5, SemanticAssumption DEF Types, DeltaFails
  <2> QED
    BY <1>5, <2>2, <2>3 DEF Types, DeltaFails, diskVars, storeVars, buildVars
<1>6. ASSUME NEW t \in Batchers, PinBatch(t) PROVE Types'
  <2>1. batch' \in [Batchers -> BatchRecords]
    <3>1. [batch[t] EXCEPT !.snapshot = generation, !.chunks = facts] \in BatchRecords
      BY <1>0 DEF BatchRecords, Types
    <3> QED
      BY <1>6, <3>1 DEF Types, PinBatch, EndBatch
  <2> QED
    BY <1>6, <2>1 DEF Types, PinBatch, EndBatch, Goto, diskVars, storeVars, buildVars
<1>7. ASSUME NEW t \in Batchers, NEW f \in Files, Plan(t, f) PROVE Types'
  <2>1. resident' \in Corpora \cup {Cold}
    <3>1. resident # Cold => [resident EXCEPT ![f] = Absent] \in Corpora
      BY DEF Types
    <3>2. resident' = resident \/ (resident # Cold /\ resident' = [resident EXCEPT ![f] = Absent])
      BY <1>7 DEF Plan
    <3> QED
      BY <3>1, <3>2 DEF Types
  <2>2. touched[f] \in Nat
    BY DEF Types, Digests
  <2>3. resident # Cold => resident[f] \in Revs \cup {Absent}
    BY DEF Types, Corpora
  <2>4. batch' \in [Batchers -> BatchRecords]
    <3>1. [batch[t] EXCEPT !.applied = @ \ {f}] \in BatchRecords
      BY <1>0 DEF BatchRecords
    <3>2. resident # Cold =>
            [batch[t] EXCEPT !.applied = @ \ {f}, !.file = f, !.signal = touched[f],
                             !.prior = resident[f]] \in BatchRecords
      BY <1>0, <2>2, <2>3 DEF BatchRecords
    <3> QED
      BY <1>7, <3>1, <3>2 DEF Types, Plan, Next1
  <2>5. pc' \in [Batchers -> {"idle", "ingest", "plan", "apply", "drop", "invalidate", "start"}]
    BY <1>7 DEF Types, Plan, Goto
  <2> QED
    BY <1>7, <2>1, <2>4, <2>5 DEF Types, Plan, diskVars, storeVars, buildVars
<1>8. ASSUME NEW t \in Batchers, Apply(t) PROVE Types'
  <2>1. batch[t].file \in Files /\ batch[t].chunks \in Corpora
    BY <1>8 DEF Types, Batches, Apply, BatchRecords
  <2>2. batch[t].chunks[batch[t].file] \in Revs \cup {Absent}
    BY <2>1 DEF Corpora
  <2>3. resident' \in Corpora \cup {Cold}
    <3>1. resident # Cold => [resident EXCEPT ![batch[t].file] = batch[t].chunks[batch[t].file]] \in Corpora
      BY <2>1, <2>2 DEF Types
    <3>2. \/ resident' = resident
          \/ resident # Cold
             /\ resident' = [resident EXCEPT ![batch[t].file] = batch[t].chunks[batch[t].file]]
      BY <1>8 DEF Apply
    <3> QED
      BY <3>1, <3>2 DEF Types
  <2>4. batch' \in [Batchers -> BatchRecords]
    <3>1. [batch[t] EXCEPT !.file = Absent, !.signal = 0, !.prior = Absent] \in BatchRecords
      BY <1>0 DEF BatchRecords
    <3> QED
      BY <1>8, <3>1 DEF Types, Apply
  <2>5. pc' \in [Batchers -> {"idle", "ingest", "plan", "apply", "drop", "invalidate", "start"}]
    BY <1>8 DEF Types, Apply, Goto
  <2> QED
    BY <1>8, <2>3, <2>4, <2>5 DEF Types, Apply, diskVars, storeVars, buildVars
<1>9. ASSUME NEW t \in Batchers, JoinBatch(t) PROVE Types'
  <2>1. vectors.active \in Nat
    BY DEF Types, IsLedger
  <2>2. batch' \in [Batchers -> BatchRecords]
    BY <1>9 DEF Types, JoinBatch, EndBatch
  <2>3. pc' \in [Batchers -> {"idle", "ingest", "plan", "apply", "drop", "invalidate", "start"}]
    BY <1>9 DEF Types, JoinBatch, EndBatch, Goto
  <2> QED
    BY <1>9, <2>1, <2>2, <2>3 DEF Types, JoinBatch, Attached, diskVars, buildVars
<1>10. ASSUME NEW t \in Batchers, Drop(t) PROVE Types'
  BY <1>10 DEF Types, Drop, EndBatch, Goto, diskVars, storeVars, buildVars
<1>11. CASE WarmRequest \/ RequestRebuild \/ RebuildStep
  <2>1. warm' \in [running : BOOLEAN, pending : BOOLEAN] /\ build' \in BuildRecords
    <3>1. \/ TryStart
          \/ UNCHANGED buildVars
          \/ warm' = [warm EXCEPT !.pending = TRUE] /\ UNCHANGED build
      BY <1>11 DEF WarmRequest, RequestRebuild, RebuildStep, StartWarm
    <3>2. warm \in [running : BOOLEAN, pending : BOOLEAN] /\ build \in BuildRecords
      BY DEF Types
    <3>3. [warm EXCEPT !.pending = TRUE] \in [running : BOOLEAN, pending : BOOLEAN]
      BY <3>2
    <3>4. [running |-> TRUE, pending |-> FALSE] \in [running : BOOLEAN, pending : BOOLEAN]
      OBVIOUS
    <3> QED
      BY <3>1, <3>2, <3>3, <3>4 DEF TryStart, buildVars
  <2>2. calls' \in 0..MaxCalls
    BY <1>11, SemanticAssumption DEF Types, WarmRequest, RequestRebuild, RebuildStep
  <2>3. pc' \in [Batchers -> {"idle", "ingest", "plan", "apply", "drop", "invalidate", "start"}]
    BY <1>11 DEF Types, WarmRequest, RequestRebuild, RebuildStep, Goto, batchVars
  <2> QED
    BY <1>11, <2>1, <2>2, <2>3
    DEF Types, WarmRequest, RequestRebuild, RebuildStep, diskVars, storeVars, batchVars
<1>12. CASE Scan
  BY <1>12 DEF Types, Scan, Ingested, BuildRecords, diskVars, batchVars
<1>13. CASE ScanFails
  BY <1>13, SemanticAssumption DEF Types, ScanFails, BuildRecords, diskVars, storeVars, batchVars
<1>14. CASE PinBuild
  <2>1. build' \in BuildRecords
    <3>1. 1 \in 0..MaxRetries
      BY SemanticAssumption
    <3>2. build \in BuildRecords /\ generation \in Nat /\ (generation > 0 => facts \in Corpora)
      BY DEF Types
    <3>3. [NoBuild EXCEPT !.pc = "finish"] \in BuildRecords
      BY DEF NoBuild, BuildRecords
    <3>4. [build EXCEPT !.pc = "join", !.snapshot = generation] \in BuildRecords
      BY <3>2 DEF BuildRecords
    <3>5. generation > 0 => [pc |-> "worker", snapshot |-> generation, chunks |-> facts, attempt |-> 1]
                              \in BuildRecords
      BY <3>1, <3>2 DEF BuildRecords
    <3> QED
      BY <1>14, <3>3, <3>4, <3>5 DEF PinBuild
  <2>2. worker' \in WorkerRecords
    BY <1>14 DEF Types, PinBuild
  <2> QED
    BY <1>14, <2>1, <2>2 DEF Types, PinBuild, diskVars, storeVars, batchVars
<1>15. CASE Reap
  <2>1. build' \in BuildRecords
    BY <1>15, SemanticAssumption DEF Types, Reap, BuildRecords
  <2>2. build.chunks \in Corpora
    BY <1>15 DEF Types, Builds, Reap, BuildRecords
  <2>3. worker' \in WorkerRecords
    BY <1>15, <2>2 DEF Types, Reap
  <2> QED
    BY <1>15, <2>1, <2>3 DEF Types, Reap, diskVars, storeVars, batchVars
<1>16. CASE LoadResident
  <2>1. IsLedger(vectors')
    <3>1. vectors' = WriteArtifact(vectors, vectors.active)
      BY <1>16 DEF LoadResident, Load
    <3>2. IsLedger(vectors) /\ vectors.active \in Nat
      BY DEF Types, IsLedger
    <3> QED
      BY <3>1, <3>2, FilesAlone
  <2>2. vectors.gens[vectors.active] \in Generation
    BY <1>16 DEF Types, IsLedger, LoadResident, Loads, Complete
  <2>3. resident' \in Corpora
    BY <1>16, <2>2 DEF LoadResident, ActiveCorpus, Generation
  <2>4. build' \in BuildRecords
    BY <1>16 DEF Types, LoadResident, BuildRecords
  <2> QED
    BY <1>16, <2>1, <2>3, <2>4 DEF Types, LoadResident, diskVars, storeVars, batchVars
<1>17. CASE JoinBuild
  BY <1>17 DEF Types, JoinBuild, Attached, IsLedger, BuildRecords, NoBuild, diskVars, batchVars
<1>18. CASE DropBuild
  BY <1>18 DEF Types, DropBuild, BuildRecords, diskVars, storeVars, batchVars
<1>19. CASE Finish
  BY <1>19 DEF Types, Finish, BuildRecords, NoBuild, diskVars, storeVars, batchVars
<1>20. ASSUME worker.pc \in {"open", "start", "check", "stage", "records", "artifact", "activate",
                            "mirror", "complete"}
       PROVE  worker.job \in Corpora
  BY <1>20 DEF Types, Builds, BuildRecords, WorkerRecords
<1>21. \A c \in DOMAIN jobs : jobs[c] \in JobRecords
  BY DEF Types
<1>22. \A c \in Corpora : Starts(c) \in Nat /\ Retries(c) \in Nat
  BY <1>21 DEF Starts, Retries, Known, JobRecords
<1>23. CASE WorkerOpen
  <2>1. IsLedger(vectors')
    <3>1. vectors' = vectors \/ vectors' = WriteArtifact(vectors, vectors.active)
      BY <1>23 DEF WorkerOpen, Load
    <3>2. IsLedger(vectors) /\ vectors.active \in Nat
      BY DEF Types, IsLedger
    <3> QED
      BY <3>1, <3>2, FilesAlone
  <2>2. DOMAIN jobs' \subseteq Corpora /\ jobs' \in [DOMAIN jobs' -> JobRecords]
    <3>1. CASE SetJob(worker.job, "removed", 0, Starts(worker.job))
      <4>1. worker.job \in Corpora /\ Starts(worker.job) \in Nat
        BY <1>20, <1>22, <1>23 DEF WorkerOpen
      <4>2. "removed" \in JobStates /\ 0 \in 0..MaxRetries
        BY SemanticAssumption DEF JobStates
      <4> QED
        BY <3>1, <4>1, <4>2, SetJobTyped
    <3> QED
      BY <1>23, <3>1 DEF WorkerOpen, Types
  <2>3. worker' \in WorkerRecords
    <3>1. Retries(worker.job) < MaxRetries => Retries(worker.job) \in 0..MaxRetries
      BY <1>20, <1>22, <1>23, SemanticAssumption DEF WorkerOpen
    <3>2. \/ worker' = [worker EXCEPT !.pc = "done"]
          \/ worker' = [worker EXCEPT !.pc = "dead"]
          \/ /\ Retries(worker.job) < MaxRetries
             /\ worker' = [worker EXCEPT !.pc = "start", !.retries = Retries(worker.job)]
      BY <1>23 DEF WorkerOpen
    <3> QED
      <4> USE DEF WorkerRecords, WorkerLabels
      <4>1. worker \in WorkerRecords
        BY DEF Types
      <4>2. CASE worker' = [worker EXCEPT !.pc = "done"]
        BY <4>1, <4>2
      <4>3. CASE worker' = [worker EXCEPT !.pc = "dead"]
        BY <4>1, <4>3
      <4>4. ASSUME Retries(worker.job) < MaxRetries,
                   worker' = [worker EXCEPT !.pc = "start", !.retries = Retries(worker.job)]
            PROVE  worker' \in WorkerRecords
        BY <3>1, <4>1, <4>4
      <4> HIDE DEF WorkerRecords
      <4> QED
        BY <3>2, <4>2, <4>3, <4>4
  <2> QED
    BY <1>23, <2>1, <2>2, <2>3 DEF Types, WorkerOpen, diskVars, storeVars, batchVars, buildVars
<1>24. CASE WorkerStart
  <2>1. worker.retries \in 0..MaxRetries /\ worker.job \in Corpora
    BY <1>20, <1>24 DEF WorkerStart, Types, WorkerRecords
  <2>2. DOMAIN jobs' \subseteq Corpora /\ jobs' \in [DOMAIN jobs' -> JobRecords]
    <3>1. Starts(worker.job) + 1 \in Nat /\ "running" \in JobStates
      BY <1>22, <2>1 DEF JobStates
    <3>2. SetJob(worker.job, "running", worker.retries, Starts(worker.job) + 1)
      BY <1>24 DEF WorkerStart
    <3> QED
      BY <2>1, <3>1, <3>2, SetJobTyped
  <2>3. worker' \in WorkerRecords
    BY <1>24 DEF Types, WorkerStart, WorkerRecords, WorkerLabels
  <2> QED
    BY <1>24, <2>2, <2>3
    DEF Types, WorkerStart, diskVars, storeVars, batchVars, buildVars
<1>25. CASE WorkerCheck
  <2>1. IsLedger(vectors')
    <3>1. vectors' = vectors \/ vectors' = WriteArtifact(vectors, vectors.active)
      BY <1>25 DEF WorkerCheck, Load
    <3>2. IsLedger(vectors) /\ vectors.active \in Nat
      BY DEF Types, IsLedger
    <3> QED
      BY <3>1, <3>2, FilesAlone
  <2>2. ASSUME vectors.manifests # {}
        PROVE  vectors.gens[Newest(vectors.manifests)] \in Generation
    <3>1. PICK n \in Nat : Ledger(vectors) = 1..n
      BY DEF Types, IsLedger
    <3>2. Newest(vectors.manifests) \in vectors.manifests
      BY <2>2, <3>1, NewestIsIn DEF Generations
    <3> QED
      BY <3>2 DEF Types, IsLedger, Generations
  <2>3. worker' \in WorkerRecords
    <3>1. worker \in WorkerRecords /\ touched \in Digests /\ worker.job \in Corpora
      BY <1>20, <1>25 DEF Types, WorkerCheck
    <3>2. CASE vectors.active = 0 /\ vectors.manifests # {}
      <4> DEFINE old == vectors.gens[Newest(vectors.manifests)]
      <4>1. old.corpus \in Corpora /\ old.digest \in Digests
        BY <2>2, <3>2 DEF Generation
      <4>2. worker' = [worker EXCEPT !.pc = "stage", !.corpus = old.corpus, !.digest = old.digest,
                                    !.adopts = TRUE]
        BY <1>25, <3>2 DEF WorkerCheck
      <4> HIDE DEF old
      <4> QED
        BY <3>1, <4>1, <4>2 DEF WorkerRecords, WorkerLabels
    <3>3. CASE ~ (vectors.active = 0 /\ vectors.manifests # {})
      <4>1. \/ worker' = [worker EXCEPT !.pc = "complete", !.digest = worker.taken]
            \/ worker' = [worker EXCEPT !.pc = "stage", !.corpus = worker.job, !.digest = worker.taken]
        BY <1>25, <3>3 DEF WorkerCheck
      <4> QED
        <5>1. CASE worker' = [worker EXCEPT !.pc = "complete", !.digest = worker.taken]
          BY <3>1, <5>1 DEF WorkerRecords, WorkerLabels
        <5>2. CASE worker' = [worker EXCEPT !.pc = "stage", !.corpus = worker.job,
                                            !.digest = worker.taken]
          BY <3>1, <5>2 DEF WorkerRecords, WorkerLabels
        <5> QED
          BY <4>1, <5>1, <5>2
    <3> QED
      BY <3>2, <3>3
  <2> QED
    BY <1>25, <2>1, <2>3 DEF Types, WorkerCheck, diskVars, storeVars, batchVars, buildVars
<1>26. CASE WorkerPublish
  <2>1. CASE worker.pc = "stage"
    <3>1. worker.corpus \in Corpora /\ worker.digest \in Digests
      BY <2>1 DEF Publication, Types, WorkerRecords
    <3>2. vectors' = Stage(vectors, NextGeneration(vectors), worker.corpus, worker.digest)
          /\ worker' = [worker EXCEPT !.pc = "records", !.gen = NextGeneration(vectors)]
      BY <1>26, <2>1 DEF WorkerPublish, Publish
    <3>3. IsLedger(vectors') /\ NextGeneration(vectors) \in Nat
      BY <3>1, <3>2, StageIsLedger DEF Types, Generations
    <3>4. worker' \in WorkerRecords
      BY <3>2, <3>3 DEF Types, WorkerRecords, WorkerLabels
    <3> QED
      BY <1>26, <3>3, <3>4
      DEF Types, WorkerPublish, diskVars, storeVars, batchVars, buildVars
  <2>2. CASE worker.pc # "stage"
    <3>1. worker.gen \in Ledger(vectors) /\ worker.gen \in Nat
      BY <1>26, <2>2 DEF WorkerPublish, Publish, Publication, Types, WorkerRecords
    <3>2. IsLedger(vectors')
      BY <1>26, <2>2, <3>1, PutIsLedger, ActivateIsLedger, FilesAlone DEF WorkerPublish, Publish, Types
    <3>3. worker' \in WorkerRecords
      <4>1. worker \in WorkerRecords
        BY DEF Types
      <4>2. \/ worker' = [worker EXCEPT !.pc = "artifact"]
            \/ worker' = [worker EXCEPT !.pc = "activate"]
            \/ worker' = [worker EXCEPT !.pc = "mirror"]
            \/ worker' = [worker EXCEPT !.pc = "check", !.adopts = FALSE]
            \/ worker' = [worker EXCEPT !.pc = "complete", !.adopts = FALSE]
        BY <1>26, <2>2 DEF WorkerPublish, Publish
      <4> QED
        <5> USE DEF WorkerRecords, WorkerLabels
        <5>1. CASE worker' = [worker EXCEPT !.pc = "artifact"]
          BY <4>1, <5>1
        <5>2. CASE worker' = [worker EXCEPT !.pc = "activate"]
          BY <4>1, <5>2
        <5>3. CASE worker' = [worker EXCEPT !.pc = "mirror"]
          BY <4>1, <5>3
        <5>4. CASE worker' = [worker EXCEPT !.pc = "check", !.adopts = FALSE]
          BY <4>1, <5>4
        <5>5. CASE worker' = [worker EXCEPT !.pc = "complete", !.adopts = FALSE]
          BY <4>1, <5>5
        <5> QED
          BY <4>2, <5>1, <5>2, <5>3, <5>4, <5>5
    <3> QED
      BY <1>26, <3>2, <3>3 DEF Types, WorkerPublish, diskVars, storeVars, batchVars, buildVars
  <2> QED
    BY <2>1, <2>2
<1>27. CASE WorkerComplete
  <2>1. worker.retries \in 0..MaxRetries /\ worker.job \in Corpora
    BY <1>20, <1>27 DEF WorkerComplete, Types, WorkerRecords
  <2>2. DOMAIN jobs' \subseteq Corpora /\ jobs' \in [DOMAIN jobs' -> JobRecords]
    BY <1>22, <1>27, <2>1, SetJobTyped DEF WorkerComplete, JobStates
  <2>3. worker' \in WorkerRecords
    BY <1>27 DEF Types, WorkerComplete, WorkerRecords, WorkerLabels
  <2> QED
    BY <1>27, <2>2, <2>3
    DEF Types, WorkerComplete, diskVars, storeVars, batchVars, buildVars
<1>28. CASE WorkerFails
  <2>1. worker.retries + 1 \in 0..MaxRetries /\ worker.job \in Corpora
    BY <1>20, <1>28, SemanticAssumption DEF WorkerFails, Types, WorkerRecords, Publication
  <2>2. DOMAIN jobs' \subseteq Corpora /\ jobs' \in [DOMAIN jobs' -> JobRecords]
    BY <1>22, <1>28, <2>1, SetJobTyped DEF WorkerFails, JobStates
  <2>3. worker' \in WorkerRecords
    BY <1>28 DEF WorkerFails, WorkerRecords, WorkerLabels
  <2>4. faults' \in 0..MaxFaults
    BY <1>28, SemanticAssumption DEF WorkerFails, Types
  <2> QED
    BY <1>28, <2>2, <2>3, <2>4
    DEF Types, WorkerFails, diskVars, storeVars, batchVars, buildVars
<1>29. CASE WorkerDies
  BY <1>29, SemanticAssumption
  DEF Types, WorkerDies, WorkerRecords, WorkerLabels, diskVars, storeVars, batchVars, buildVars
<1>30. CASE Kill
  BY <1>30, SemanticAssumption DEF Types, Kill, storeVars
<1>31. ASSUME NEW g \in vectors.manifests, LoseArtifact(g) PROVE Types'
  <2>1. g \in Nat
    BY DEF Types, IsLedger
  <2>2. IsLedger(vectors')
    BY <1>31, <2>1, FilesAlone DEF LoseArtifact, Types
  <2> QED
    BY <1>31, <2>2, SemanticAssumption
    DEF Types, LoseArtifact, diskVars, storeVars, batchVars, buildVars
<1>32. CASE UNCHANGED vars
  BY <1>32 DEF Types, vars, diskVars, storeVars, batchVars, buildVars
<1> QED
  BY Steps, <1>1, <1>2, <1>3, <1>4, <1>5, <1>6, <1>7, <1>8, <1>9, <1>10, <1>11, <1>12, <1>13,
     <1>14, <1>15, <1>16, <1>17, <1>18, <1>19, <1>23, <1>24, <1>25, <1>26, <1>27, <1>28, <1>29,
     <1>30, <1>31, <1>32

LEMMA BatchesNext ==
  ASSUME Whole, [Next]_vars
  PROVE  Batches'
<1> USE DEF Whole
<1>0. /\ pc \in [Batchers -> {"idle", "ingest", "plan", "apply", "drop", "invalidate", "start"}]
      /\ batch \in [Batchers -> BatchRecords]
      /\ \A t \in Batchers : batch[t] \in BatchRecords
      /\ generation \in Nat
      /\ (generation > 0 => facts \in Corpora)
  BY DEF Types
<1>1. CASE UNCHANGED <<pc, batch>> /\ generation' \in {generation, generation + 1}
  BY <1>0, <1>1 DEF Batches, BatchRecords
<1>2. ASSUME NEW t \in Batchers, NEW S \in SUBSET Files, StartBatch(t, S), UNCHANGED generation
      PROVE  Batches'
  <2>1. /\ \A u \in Batchers \ {t} : pc'[u] = pc[u] /\ batch'[u] = batch[u]
        /\ pc'[t] = "ingest"
        /\ batch[t] = NoBatch
        /\ generation' = generation
    BY <1>0, <1>2 DEF StartBatch, Goto, Batches
  <2>2. batch'[t].applied = {} /\ batch'[t].snapshot = 0
    BY <1>0, <1>2, <2>1 DEF StartBatch, NoBatch
  <2> QED
    BY <1>0, <2>1, <2>2 DEF Batches
<1>3. ASSUME NEW t \in Batchers, NEW f \in Files, Delta(t, f) PROVE Batches'
  <2>1. /\ \A u \in Batchers \ {t} : pc'[u] = pc[u] /\ batch'[u] = batch[u]
        /\ pc'[t] = "ingest"
        /\ batch'[t].snapshot = batch[t].snapshot
        /\ generation' = generation + 1
    BY <1>0, <1>3 DEF Delta, Ingested, BatchRecords
  <2> QED
    BY <1>0, <2>1 DEF Batches, BatchRecords
<1>4. ASSUME NEW t \in Batchers, NEW f \in Files, DeltaFails(t, f) PROVE Batches'
  <2>1. /\ \A u \in Batchers \ {t} : pc'[u] = pc[u] /\ batch'[u] = batch[u]
        /\ pc'[t] = "ingest"
        /\ batch'[t].snapshot = batch[t].snapshot /\ batch'[t].applied = batch[t].applied
        /\ pc[t] = "ingest"
        /\ generation' = generation
    BY <1>0, <1>4 DEF DeltaFails, BatchRecords, storeVars
  <2> QED
    BY <1>0, <2>1 DEF Batches, BatchRecords
<1>5. ASSUME NEW t \in Batchers, EndBatch(t), UNCHANGED generation PROVE Batches'
  <2>1. /\ \A u \in Batchers \ {t} : pc'[u] = pc[u] /\ batch'[u] = batch[u]
        /\ pc'[t] = "idle"
        /\ batch'[t] = NoBatch
        /\ generation' = generation
    BY <1>0, <1>5 DEF EndBatch, Goto
  <2>2. NoBatch.snapshot = 0
    BY DEF NoBatch
  <2> QED
    BY <1>0, <2>1, <2>2 DEF Batches
<1>6. ASSUME NEW t \in Batchers, PinBatch(t) PROVE Batches'
  <2>1. CASE batch[t].applied = {}
    BY <1>5, <1>6, <2>1 DEF PinBatch, storeVars
  <2>2. CASE batch[t].applied # {}
    <3>1. /\ \A u \in Batchers \ {t} : pc'[u] = pc[u] /\ batch'[u] = batch[u]
          /\ pc'[t] = "plan"
          /\ batch'[t].todo = {} /\ batch'[t].snapshot = generation /\ batch'[t].chunks = facts
          /\ generation' = generation
      BY <1>0, <1>6, <2>2 DEF PinBatch, Goto, BatchRecords, storeVars
    <3>2. facts # Cold
      BY <1>0, <1>6, <2>2, Corpus DEF Batches, PinBatch
    <3> QED
      BY <1>0, <3>1, <3>2 DEF Batches
  <2> QED
    BY <2>1, <2>2
<1>7. ASSUME NEW t \in Batchers, NEW f \in Files, Plan(t, f) PROVE Batches'
  <2>1. /\ \A u \in Batchers \ {t} : pc'[u] = pc[u] /\ batch'[u] = batch[u]
        /\ pc[t] = "plan" /\ pc'[t] \in {"plan", "apply", "drop"}
        /\ generation' = generation
    BY <1>0, <1>7 DEF Plan, Next1, Goto, storeVars
  <2>2. /\ batch'[t].todo = batch[t].todo /\ batch'[t].snapshot = batch[t].snapshot
        /\ batch'[t].chunks = batch[t].chunks
    BY <1>0, <1>7 DEF Plan, Next1, BatchRecords
  <2>3. pc'[t] = "apply" => batch'[t].file = f
    BY <1>0, <1>7 DEF Plan, Next1, Goto, BatchRecords
  <2> QED
    BY <1>0, <2>1, <2>2, <2>3 DEF Batches
<1>8. ASSUME NEW t \in Batchers, Apply(t) PROVE Batches'
  <2>1. /\ \A u \in Batchers \ {t} : pc'[u] = pc[u] /\ batch'[u] = batch[u]
        /\ pc[t] = "apply" /\ pc'[t] \in {"plan", "drop"}
        /\ generation' = generation
    BY <1>0, <1>8 DEF Apply, Goto, storeVars
  <2>2. /\ batch'[t].todo = batch[t].todo /\ batch'[t].snapshot = batch[t].snapshot
        /\ batch'[t].chunks = batch[t].chunks
    BY <1>0, <1>8 DEF Apply, BatchRecords
  <2> QED
    BY <1>0, <2>1, <2>2 DEF Batches
<1>9. ASSUME NEW t \in Batchers, JoinBatch(t) PROVE Batches'
  <2>1. CASE EndBatch(t)
    BY <1>5, <1>9, <2>1 DEF JoinBatch
  <2>2. CASE Goto(t, "drop") /\ UNCHANGED batch
    <3>1. /\ \A u \in Batchers \ {t} : pc'[u] = pc[u]
          /\ pc[t] = "plan" /\ pc'[t] = "drop"
          /\ generation' = generation
      BY <1>0, <1>9, <2>2 DEF JoinBatch, Goto
    <3> QED
      BY <1>0, <2>2, <3>1 DEF Batches
  <2> QED
    BY <1>9, <2>1, <2>2 DEF JoinBatch
<1>10. ASSUME NEW t \in Batchers, Drop(t) PROVE Batches'
  BY <1>5, <1>10 DEF Drop, storeVars
<1>11. CASE RequestRebuild \/ RebuildStep
  <2>0. Executor \in Batchers
    BY DEF Batchers
  <2>1. /\ \A u \in Batchers \ {Executor} : pc'[u] = pc[u]
        /\ pc[Executor] \in {"idle", "invalidate", "start"}
        /\ pc'[Executor] \in {"idle", "invalidate", "start"}
        /\ batch' = batch
        /\ generation' = generation
    BY <1>0, <2>0, <1>11 DEF RequestRebuild, RebuildStep, Goto, storeVars
  <2> QED
    BY <1>0, <2>0, <2>1 DEF Batches
<1>12. CASE Kill
  <2>1. /\ \A u \in Batchers : pc'[u] = "idle" /\ batch'[u] = NoBatch
        /\ generation' = generation
    BY <1>12 DEF Kill, storeVars
  <2>2. NoBatch.snapshot = 0
    BY DEF NoBatch
  <2> QED
    BY <1>0, <2>1, <2>2 DEF Batches
<1>13. ASSUME NEW f \in Files, NEW r \in Revs \cup {Absent}, Edit(f, r) PROVE Batches'
  BY <1>1, <1>13, <1>0 DEF Edit, batchVars, storeVars
<1>14. ASSUME NEW S \in SUBSET Files, Flush(S) PROVE Batches'
  BY <1>2, <1>14 DEF Flush, storeVars, Batchers
<1>15. ASSUME NEW t \in Notifiers, NEW f \in Files, Notify(t, f) PROVE Batches'
  BY <1>2, <1>15 DEF Notify, storeVars, Batchers
<1>16. CASE WarmRequest \/ Scan \/ ScanFails \/ PinBuild \/ Reap \/ LoadResident \/ JoinBuild
            \/ DropBuild \/ Finish
  BY <1>1, <1>16
  DEF WarmRequest, Scan, Ingested, ScanFails, PinBuild, Reap, LoadResident, JoinBuild, DropBuild,
      Finish, batchVars, storeVars
<1>17. CASE WorkerOpen \/ WorkerStart \/ WorkerCheck \/ WorkerPublish \/ WorkerComplete
            \/ WorkerFails \/ WorkerDies
  BY <1>1, <1>17
  DEF WorkerOpen, WorkerStart, WorkerCheck, WorkerPublish, WorkerComplete, WorkerFails, WorkerDies,
      batchVars, storeVars
<1>18. ASSUME NEW g \in vectors.manifests, LoseArtifact(g) PROVE Batches'
  BY <1>1, <1>18 DEF LoseArtifact, batchVars, storeVars
<1>19. CASE UNCHANGED vars
  BY <1>1, <1>19 DEF vars, batchVars, storeVars
<1> QED
  BY Steps, <1>3, <1>4, <1>6, <1>7, <1>8, <1>9, <1>10, <1>11, <1>12, <1>13, <1>14, <1>15, <1>16,
     <1>17, <1>18, <1>19

LEMMA BuildsNext ==
  ASSUME Whole, [Next]_vars
  PROVE  Builds'
<1> USE DEF Whole
<1>0. /\ warm \in [running : BOOLEAN, pending : BOOLEAN]
      /\ build \in BuildRecords
      /\ worker \in WorkerRecords
      /\ generation \in Nat /\ resident \in Corpora \cup {Cold}
      /\ (generation > 0 => facts \in Corpora)
      /\ 0 \notin Ledger(vectors)
  BY DEF Types, IsLedger
<1>1. CASE /\ UNCHANGED <<warm, build, worker>>
           /\ generation' \in {generation, generation + 1}
           /\ resident' = Cold \/ resident # Cold
           /\ vectors'.active = vectors.active
  BY <1>0, <1>1 DEF Builds, BuildRecords
<1>2. ASSUME NEW f \in Files, NEW r \in Revs \cup {Absent}, Edit(f, r) PROVE Builds'
  BY <1>1, <1>2 DEF Edit, storeVars, buildVars
<1>3. ASSUME NEW S \in SUBSET Files, Flush(S) PROVE Builds'
  BY <1>1, <1>3 DEF Flush, storeVars, buildVars
<1>4. ASSUME NEW t \in Notifiers, NEW f \in Files, Notify(t, f) PROVE Builds'
  BY <1>1, <1>4 DEF Notify, storeVars, buildVars
<1>5. ASSUME NEW t \in Batchers, NEW f \in Files, Delta(t, f) PROVE Builds'
  BY <1>1, <1>5 DEF Delta, Ingested, buildVars
<1>6. ASSUME NEW t \in Batchers, NEW f \in Files, DeltaFails(t, f) PROVE Builds'
  BY <1>1, <1>6 DEF DeltaFails, storeVars, buildVars
<1>7. ASSUME NEW t \in Batchers, PinBatch(t) PROVE Builds'
  BY <1>1, <1>7 DEF PinBatch, storeVars, buildVars
<1>8. ASSUME NEW t \in Batchers, NEW f \in Files, Plan(t, f) PROVE Builds'
  BY <1>1, <1>8 DEF Plan, storeVars, buildVars
<1>9. ASSUME NEW t \in Batchers, Apply(t) PROVE Builds'
  BY <1>1, <1>9 DEF Apply, storeVars, buildVars
<1>10. ASSUME NEW t \in Batchers, JoinBatch(t) PROVE Builds'
  BY <1>1, <1>10 DEF JoinBatch, buildVars
<1>11. ASSUME NEW t \in Batchers, Drop(t) PROVE Builds'
  BY <1>1, <1>11 DEF Drop, storeVars, buildVars
<1>12. ASSUME TryStart, UNCHANGED <<worker, generation, resident, vectors>>
       PROVE  Builds'
  <2>1. /\ build.pc = "idle" /\ build'.pc = "scan" /\ build'.snapshot = 0 /\ warm'.running
        /\ worker' = worker /\ generation' = generation /\ resident' = resident
        /\ vectors' = vectors
    BY <1>12 DEF TryStart, Builds, NoBuild
  <2> QED
    BY <1>0, <2>1 DEF Builds
<1>13. CASE WarmRequest
  BY <1>1, <1>12, <1>13 DEF WarmRequest, StartWarm, storeVars, buildVars
<1>14. CASE RequestRebuild
  <2>1. /\ warm'.running = warm.running
        /\ UNCHANGED <<build, worker, generation, resident, vectors>>
    BY <1>0, <1>14 DEF RequestRebuild, storeVars
  <2> QED
    BY <1>0, <2>1 DEF Builds
<1>15. CASE RebuildStep
  BY <1>1, <1>12, <1>15 DEF RebuildStep, StartWarm, storeVars, buildVars
<1>16. CASE Scan
  <2>1. /\ build.pc = "scan" /\ build'.pc = "pin" /\ build'.snapshot = build.snapshot
        /\ generation' = generation + 1
        /\ UNCHANGED <<warm, worker, resident, vectors>>
    BY <1>0, <1>16 DEF Scan, Ingested, BuildRecords
  <2> QED
    BY <1>0, <2>1 DEF Builds, BuildRecords
<1>17. CASE ScanFails
  <2>1. /\ build.pc = "scan" /\ build'.pc = "pin" /\ build'.snapshot = build.snapshot
        /\ UNCHANGED <<warm, worker, resident, vectors, generation>>
    BY <1>0, <1>17 DEF ScanFails, BuildRecords, storeVars
  <2> QED
    BY <1>0, <2>1 DEF Builds
<1>18. CASE PinBuild
  <2>1. UNCHANGED <<warm, resident, vectors, generation>> /\ build.pc = "pin"
    BY <1>18 DEF PinBuild, storeVars
  <2>2. CASE generation > 0 /\ resident = Cold
    <3>1. /\ build'.pc = "worker" /\ build'.snapshot = generation /\ build'.chunks = facts
          /\ worker'.pc = "open" /\ worker'.job = facts
      <4>1. /\ build' = [pc |-> "worker", snapshot |-> generation, chunks |-> facts,
                        attempt |-> 1]
            /\ worker' = Spawned(facts)
        BY <1>0, <1>18, <2>2 DEF PinBuild
      <4> QED
        BY <4>1 DEF Spawned, NoWorker
    <3> QED
      BY <1>0, <2>1, <2>2, <3>1, Corpus DEF Builds
  <2>3. CASE ~ (generation > 0 /\ resident = Cold)
    <3>1. /\ build'.pc \in {"finish", "join"} /\ build'.snapshot \in {0, generation}
          /\ worker' = worker
      BY <1>0, <1>18, <2>3 DEF PinBuild, NoBuild, BuildRecords
    <3> QED
      BY <1>0, <2>1, <3>1 DEF Builds
  <2> QED
    BY <2>2, <2>3
<1>19. CASE Reap
  <2>1. UNCHANGED <<warm, resident, vectors, generation>> /\ build.pc = "worker"
    BY <1>19 DEF Reap, storeVars
  <2>2. \/ /\ build'.pc = "load" /\ build'.snapshot = build.snapshot
           /\ build'.chunks = build.chunks /\ worker'.pc = "off"
        \/ /\ build'.pc = "worker" /\ build'.snapshot = build.snapshot
           /\ build'.chunks = build.chunks
           /\ worker'.pc = "open" /\ worker'.job = build.chunks
        \/ build'.pc = "finish" /\ build'.snapshot = 0 /\ worker'.pc = "off"
    <3>1. CASE worker.pc = "done"
      BY <1>0, <1>19, <3>1 DEF Reap, NoWorker, BuildRecords
    <3>2. CASE worker.pc = "dead" /\ build' = [build EXCEPT !.attempt = @ + 1]
      BY <1>0, <1>19, <3>2 DEF Reap, NoBuild, NoWorker, Spawned, BuildRecords
    <3>3. CASE worker.pc = "dead" /\ build' = [NoBuild EXCEPT !.pc = "finish"]
      BY <1>0, <1>19, <3>3 DEF Reap, NoBuild, NoWorker, BuildRecords
    <3> QED
      BY <1>19, <3>1, <3>2, <3>3 DEF Reap
  <2> QED
    BY <1>0, <2>1, <2>2 DEF Builds
<1>20. CASE LoadResident
  <2>1. /\ build.pc = "load" /\ build'.pc = "join" /\ build'.snapshot = build.snapshot
        /\ UNCHANGED <<warm, worker, generation>>
    BY <1>0, <1>20 DEF LoadResident, BuildRecords, storeVars
  <2>2. vectors'.active = vectors.active /\ vectors.active # 0
    <3>1. vectors' = WriteArtifact(vectors, vectors.active)
      BY <1>20 DEF LoadResident, Load
    <3>2. vectors.active # 0
      <4>1. vectors.active \in Ledger(vectors)
        BY <1>20 DEF LoadResident, Loads, Complete
      <4>2. 0 \notin Ledger(vectors)
        BY DEF Types, IsLedger
      <4> QED
        BY <4>1, <4>2
    <3>3. IsLedger(vectors) /\ vectors.active \in Nat
      BY DEF Types, IsLedger
    <3> QED
      BY <3>1, <3>2, <3>3, FilesAlone
  <2> QED
    BY <1>0, <2>1, <2>2 DEF Builds
<1>21. CASE JoinBuild \/ DropBuild \/ Finish
  <2>1. /\ UNCHANGED <<worker, generation, vectors>>
        /\ resident' \in {resident, Cold}
        /\ build.pc \notin {"idle", "worker", "load"}
    BY <1>21 DEF JoinBuild, DropBuild, Finish, storeVars
  <2>2. /\ build'.pc \in {"idle", "scan", "finish", "drop", "again"}
        /\ build'.snapshot \in {0, build.snapshot}
        /\ warm'.running <=> build'.pc # "idle"
    BY <1>0, <1>21 DEF JoinBuild, DropBuild, Finish, NoBuild, BuildRecords, Builds
  <2> QED
    BY <1>0, <2>1, <2>2 DEF Builds
<1>22. ASSUME /\ UNCHANGED <<warm, build, generation, resident>>
              /\ vectors'.active = vectors.active \/ vectors'.active \in Ledger(vectors)
              /\ worker.pc # "off" /\ worker'.pc # "off"
              /\ worker'.pc = "dead" \/ (worker'.job = worker.job /\ worker.pc # "dead")
       PROVE  Builds'
  BY <1>0, <1>22 DEF Builds
<1>23. CASE WorkerOpen
  <2>1. UNCHANGED <<warm, build, generation, resident>> /\ worker.pc = "open"
    BY <1>23 DEF WorkerOpen, storeVars, buildVars
  <2>2. worker'.pc \in {"done", "dead", "start"} /\ worker'.job = worker.job
    BY <1>0, <1>23 DEF WorkerOpen, WorkerRecords
  <2>3. vectors'.active = vectors.active
    BY <1>23 DEF WorkerOpen, Load, WriteArtifact, Types, IsLedger
  <2> QED
    BY <1>22, <2>1, <2>2, <2>3
<1>24. CASE WorkerStart \/ WorkerComplete \/ WorkerFails \/ WorkerDies
  <2>1. /\ UNCHANGED <<warm, build, generation, resident, vectors>>
        /\ worker.pc # "off"
    BY <1>24 DEF WorkerStart, WorkerComplete, WorkerFails, WorkerDies, storeVars, buildVars
  <2>2. /\ worker'.pc # "off"
        /\ worker'.pc = "dead" \/ (worker'.job = worker.job /\ worker.pc # "dead")
    BY <1>0, <1>24
    DEF WorkerStart, WorkerComplete, WorkerFails, WorkerDies, NoWorker, WorkerRecords
  <2> QED
    BY <1>22, <2>1, <2>2
<1>25. CASE WorkerCheck
  <2>1. /\ UNCHANGED <<warm, build, generation, resident>>
        /\ worker.pc = "check"
    BY <1>25 DEF WorkerCheck, storeVars, buildVars
  <2>2. worker'.pc \in {"stage", "complete"} /\ worker'.job = worker.job
    BY <1>0, <1>25 DEF WorkerCheck, WorkerRecords
  <2>3. vectors'.active = vectors.active
    BY <1>25, FilesAlone DEF WorkerCheck, Load, WriteArtifact, Types, IsLedger
  <2> QED
    BY <1>22, <2>1, <2>2, <2>3
<1>26. CASE WorkerPublish
  <2>1. /\ UNCHANGED <<warm, build, generation, resident>>
        /\ worker.pc \in {"stage", "records", "artifact", "activate", "mirror"}
    BY <1>26 DEF WorkerPublish, Publish, storeVars, buildVars
  <2>2. worker'.pc \notin {"off", "dead"} /\ worker'.job = worker.job
    BY <1>0, <1>26 DEF WorkerPublish, Publish, WorkerRecords
  <2>3. vectors'.active = vectors.active \/ vectors'.active \in Ledger(vectors)
    BY <1>26
    DEF WorkerPublish, Publish, Publication, Stage, PutVectors, WriteArtifact, Activate, Mirror,
        Types, IsLedger
  <2> QED
    BY <1>22, <2>1, <2>2, <2>3
<1>27. CASE Kill
  <2>1. /\ warm'.running /\ build'.pc = "scan" /\ build'.snapshot = 0 /\ worker'.pc = "off"
        /\ resident' = Cold
        /\ UNCHANGED generation
    BY <1>27 DEF Kill, NoBuild, NoWorker, storeVars
  <2> QED
    BY <1>0, <2>1 DEF Builds
<1>28. ASSUME NEW g \in vectors.manifests, LoseArtifact(g) PROVE Builds'
  BY <1>1, <1>28 DEF LoseArtifact, Types, IsLedger, storeVars, buildVars
<1>29. CASE UNCHANGED vars
  BY <1>1, <1>29 DEF vars, storeVars, buildVars
<1> QED
  BY Steps, <1>2, <1>3, <1>4, <1>5, <1>6, <1>7, <1>8, <1>9, <1>10, <1>11, <1>13, <1>14, <1>15,
     <1>16, <1>17, <1>18, <1>19, <1>20, <1>21, <1>23, <1>24, <1>25, <1>26, <1>27, <1>28, <1>29

\* The ledger after a step that changes none of its records.
LEMMA GenerationsKept ==
  ASSUME Generations, vectors'.gens = vectors.gens,
         vectors'.active = vectors.active, vectors'.previous = vectors.previous,
         vectors'.current \in {vectors.current} \cup Ledger(vectors),
         vectors'.manifests \subseteq Ledger(vectors),
         attached' \in {attached, 0, vectors.active},
         \A c \in DOMAIN jobs' : jobs'[c].state = "completed" => vectors.active # 0
  PROVE  Generations'
BY DEF Generations, Ledger, Complete

LEMMA GenerationsNext ==
  ASSUME Whole, [Next]_vars
  PROVE  Generations'
<1> USE DEF Whole
<1>0. /\ worker \in WorkerRecords /\ IsLedger(vectors)
      /\ vectors.active \in Nat
      /\ 0 \notin Ledger(vectors)
      /\ Generations
  BY DEF Types, IsLedger
<1>1. CASE UNCHANGED <<vectors, jobs>> /\ attached' \in {attached, 0, vectors.active}
  BY <1>0, <1>1, GenerationsKept DEF Generations
<1>2. ASSUME NEW f \in Files, NEW r \in Revs \cup {Absent}, Edit(f, r) PROVE Generations'
  BY <1>1, <1>2 DEF Edit, storeVars
<1>3. ASSUME NEW S \in SUBSET Files, Flush(S) PROVE Generations'
  BY <1>1, <1>3 DEF Flush, storeVars
<1>4. ASSUME NEW t \in Notifiers, NEW f \in Files, Notify(t, f) PROVE Generations'
  BY <1>1, <1>4 DEF Notify, storeVars
<1>5. ASSUME NEW t \in Batchers, NEW f \in Files, Delta(t, f) PROVE Generations'
  BY <1>1, <1>5 DEF Delta, Ingested
<1>6. ASSUME NEW t \in Batchers, NEW f \in Files, DeltaFails(t, f) PROVE Generations'
  BY <1>1, <1>6 DEF DeltaFails, storeVars
<1>7. ASSUME NEW t \in Batchers, PinBatch(t) PROVE Generations'
  BY <1>1, <1>7 DEF PinBatch, storeVars
<1>8. ASSUME NEW t \in Batchers, NEW f \in Files, Plan(t, f) PROVE Generations'
  BY <1>1, <1>8 DEF Plan, storeVars
<1>9. ASSUME NEW t \in Batchers, Apply(t) \/ JoinBatch(t) \/ Drop(t) PROVE Generations'
  BY <1>1, <1>9 DEF Apply, JoinBatch, Attached, Drop, storeVars
<1>10. CASE WarmRequest \/ RequestRebuild \/ RebuildStep
  BY <1>1, <1>10 DEF WarmRequest, RequestRebuild, RebuildStep, storeVars
<1>11. CASE Scan \/ ScanFails \/ PinBuild \/ Reap \/ JoinBuild \/ DropBuild \/ Finish \/ Kill
  BY <1>1, <1>11
  DEF Scan, Ingested, ScanFails, PinBuild, Reap, JoinBuild, Attached, DropBuild, Finish, Kill,
      storeVars
<1>12. ASSUME vectors.active # 0, vectors' = Load(vectors), UNCHANGED <<attached, jobs>>
       PROVE  Generations'
  <2>1. /\ vectors'.gens = vectors.gens /\ vectors'.active = vectors.active
        /\ vectors'.previous = vectors.previous /\ vectors'.current = vectors.current
        /\ vectors'.manifests = vectors.manifests \cup {vectors.active}
    BY <1>0, <1>12 DEF Load, WriteArtifact, IsLedger
  <2>2. vectors'.manifests \subseteq Ledger(vectors)
    BY <1>12, <2>1 DEF Generations
  <2> QED
    BY <1>12, <2>1, <2>2, GenerationsKept DEF Generations
<1>13. CASE LoadResident
  BY <1>0, <1>12, <1>13 DEF LoadResident, Loads, Complete, storeVars
<1>14. ASSUME UNCHANGED <<attached, vectors>>, NEW c \in Corpora, NEW s \in JobStates,
              NEW r \in 0..MaxRetries, NEW n \in Nat, SetJob(c, s, r, n),
              s = "completed" => vectors.active # 0
       PROVE  Generations'
  <2>1. ASSUME NEW d \in DOMAIN jobs', jobs'[d].state = "completed" PROVE vectors.active # 0
    <3>1. /\ d \in DOMAIN jobs \cup {c}
          /\ jobs'[c].state = s
          /\ d # c => jobs'[d] = jobs[d]
      <4>1. /\ DOMAIN jobs' = DOMAIN jobs \cup {c}
            /\ jobs'[c] = [state |-> s, retries |-> r, starts |-> n]
            /\ \A e \in DOMAIN jobs \ {c} : jobs'[e] = jobs[e]
        BY <1>14, SetJobTyped
      <4> QED
        BY <2>1, <4>1
    <3> QED
      BY <1>14, <2>1, <3>1 DEF Generations
  <2> QED
    BY <1>0, <1>14, <2>1, GenerationsKept DEF Generations
<1>15. ASSUME worker.pc \in {"open", "start", "check", "stage", "records", "artifact", "activate",
                            "mirror", "complete"}
       PROVE  worker.job \in Corpora
  BY <1>15 DEF Types, Builds, BuildRecords, WorkerRecords
<1>16. \A c \in Corpora : Starts(c) \in Nat /\ Starts(c) + 1 \in Nat
  BY DEF Types, Starts, JobRecords
<1>17. {"running", "pending", "failed", "completed", "removed"} \subseteq JobStates
       /\ 0 \in 0..MaxRetries /\ worker.retries \in 0..MaxRetries
  BY <1>0, SemanticAssumption DEF JobStates, WorkerRecords
<1>18. CASE WorkerOpen
  <2>1. CASE UNCHANGED <<vectors, jobs>>
    BY <1>1, <1>18, <2>1 DEF WorkerOpen, storeVars
  <2>2. CASE SetJob(worker.job, "removed", 0, Starts(worker.job)) /\ UNCHANGED vectors
    BY <1>14, <1>15, <1>16, <1>17, <1>18, <2>2 DEF WorkerOpen, storeVars
  <2>3. CASE Known(worker.job) /\ jobs[worker.job].state = "completed" /\ vectors' = Load(vectors)
             /\ UNCHANGED jobs
    BY <1>12, <1>18, <2>3 DEF WorkerOpen, Generations, Known, storeVars
  <2> QED
    BY <1>18, <2>1, <2>2, <2>3 DEF WorkerOpen
<1>19. CASE WorkerStart
  BY <1>14, <1>15, <1>16, <1>17, <1>19 DEF WorkerStart, storeVars
<1>20. CASE WorkerComplete
  <2>1. vectors.active # 0
    BY <1>20 DEF WorkerComplete, Publication
  <2> QED
    BY <1>14, <1>15, <1>16, <1>17, <1>20, <2>1 DEF WorkerComplete, storeVars
<1>21. CASE WorkerFails
  <2>1. worker.retries + 1 \in 0..MaxRetries /\ worker.job \in Corpora
    BY <1>15, <1>17, <1>21, SemanticAssumption DEF WorkerFails, Publication
  <2>2. PICK s \in {"failed", "pending"} :
          SetJob(worker.job, s, worker.retries + 1, Starts(worker.job))
    BY <1>21 DEF WorkerFails
  <2> QED
    BY <1>14, <1>16, <1>17, <1>21, <2>1, <2>2 DEF WorkerFails, storeVars
<1>22. CASE WorkerDies
  BY <1>1, <1>22 DEF WorkerDies, storeVars
<1>23. CASE WorkerCheck
  BY <1>1, <1>12, <1>23 DEF WorkerCheck, storeVars
<1>24. CASE WorkerPublish
  <2>0. UNCHANGED <<attached, jobs>>
    BY <1>24 DEF WorkerPublish, storeVars
  <2>1. CASE worker.pc = "stage"
    <3>1. worker.corpus \in Corpora /\ worker.digest \in Digests
      BY <2>1 DEF Publication, Types, WorkerRecords
    <3> DEFINE g == NextGeneration(vectors)
    <3>2. vectors' = Stage(vectors, g, worker.corpus, worker.digest)
      BY <1>24, <2>1 DEF WorkerPublish, Publish
    <3>3. /\ g \notin Ledger(vectors)
          /\ Ledger(vectors') = Ledger(vectors) \cup {g}
          /\ vectors'.active = vectors.active /\ vectors'.previous = vectors.previous
          /\ vectors'.current = vectors.current /\ vectors'.manifests = vectors.manifests
          /\ vectors'.gens[g] = [state |-> "staged", corpus |-> worker.corpus,
                                 digest |-> worker.digest, stored |-> FALSE]
          /\ \A h \in Ledger(vectors) : vectors'.gens[h] = vectors.gens[h]
      <4>1. vectors.current \in Ledger(vectors) \cup {0} /\ vectors.manifests \subseteq Ledger(vectors)
        BY DEF Generations
      <4> QED
        BY <1>0, <3>1, <3>2, <4>1, StageIsLedger
    <3> HIDE DEF g
    <3> QED
      BY <1>0, <2>0, <3>3 DEF Generations, Complete
  <2>2. CASE worker.pc # "stage"
    <3>1. worker.gen \in Ledger(vectors) /\ worker.gen \in Nat
      BY <1>24, <2>2 DEF WorkerPublish, Publish, Publication, Types, WorkerRecords
    <3>2. CASE worker.pc = "records"
      <4>1. vectors' = PutVectors(vectors, worker.gen)
        BY <1>24, <3>2 DEF WorkerPublish, Publish
      <4>2. /\ Ledger(vectors') = Ledger(vectors)
            /\ vectors'.active = vectors.active /\ vectors'.previous = vectors.previous
            /\ vectors'.current = vectors.current /\ vectors'.manifests = vectors.manifests
            /\ \A h \in Ledger(vectors) :
                 /\ vectors'.gens[h].state = vectors.gens[h].state
                 /\ vectors'.gens[h].stored <=> (h = worker.gen \/ vectors.gens[h].stored)
        BY <1>0, <3>1, <4>1, PutIsLedger
      <4> QED
        BY <2>0, <4>2 DEF Generations, Complete
    <3>3. CASE worker.pc \in {"artifact", "mirror"}
      <4>1. vectors' \in {WriteArtifact(vectors, worker.gen), Mirror(vectors, worker.gen)}
        BY <1>24, <3>3 DEF WorkerPublish, Publish
      <4>2. /\ vectors'.gens = vectors.gens /\ vectors'.active = vectors.active
            /\ vectors'.previous = vectors.previous
            /\ vectors'.current \in {vectors.current, worker.gen}
            /\ vectors'.manifests \subseteq vectors.manifests \cup {worker.gen}
        BY <1>0, <3>1, <4>1, FilesAlone
      <4> QED
        BY <2>0, <3>1, <4>2, GenerationsKept DEF Generations
    <3>4. CASE worker.pc = "activate"
      <4>1. vectors' = Activate(vectors, worker.gen)
        BY <1>24, <3>4 DEF WorkerPublish, Publish
      <4>2. ~ Complete(vectors, worker.gen) /\ vectors.gens[worker.gen].stored
        BY <3>4 DEF Publication
      <4>3. /\ Ledger(vectors') = Ledger(vectors)
            /\ vectors'.active = worker.gen
            /\ vectors'.previous = IF vectors.active = 0 THEN vectors.previous ELSE vectors.active
            /\ vectors'.current = vectors.current /\ vectors'.manifests = vectors.manifests
            /\ \A h \in Ledger(vectors) :
                 /\ vectors'.gens[h].state = IF h = worker.gen THEN "complete"
                                                               ELSE vectors.gens[h].state
                 /\ vectors'.gens[h].stored = vectors.gens[h].stored
        BY <1>0, <3>1, <4>1, ActivateIsLedger
      <4>4. \A h \in Ledger(vectors) :
              Complete(vectors', h) <=> (h = worker.gen \/ Complete(vectors, h))
        BY <4>3 DEF Complete
      <4>5. worker.gen # 0 /\ worker.gen \notin {vectors.active, vectors.previous}
        BY <1>0, <3>1, <4>2 DEF Generations
      <4> QED
        BY <1>0, <2>0, <3>1, <4>2, <4>3, <4>4, <4>5 DEF Generations
    <3> QED
      BY <1>24, <2>2, <3>2, <3>3, <3>4 DEF WorkerPublish, Publish
  <2> QED
    BY <2>1, <2>2
<1>25. ASSUME NEW g \in vectors.manifests, LoseArtifact(g) PROVE Generations'
  <2>1. /\ vectors'.gens = vectors.gens /\ vectors'.active = vectors.active
        /\ vectors'.previous = vectors.previous /\ vectors'.current = vectors.current
        /\ vectors'.manifests = vectors.manifests \ {g}
        /\ UNCHANGED <<attached, jobs>>
    BY <1>0, <1>25 DEF LoseArtifact, IsLedger, storeVars
  <2> QED
    BY <2>1, GenerationsKept DEF Generations
<1>26. CASE UNCHANGED vars
  BY <1>1, <1>26 DEF vars, storeVars
<1> QED
  BY Steps, <1>2, <1>3, <1>4, <1>5, <1>6, <1>7, <1>8, <1>9, <1>10, <1>11, <1>13, <1>18, <1>19,
     <1>20, <1>21, <1>22, <1>23, <1>24, <1>25, <1>26

LEMMA PublicationNext ==
  ASSUME Whole, [Next]_vars
  PROVE  Publication'
<1> USE DEF Whole
<1>0. /\ worker \in WorkerRecords /\ IsLedger(vectors)
      /\ vectors.active \in Nat
      /\ 0 \notin Ledger(vectors)
      /\ Generations
  BY DEF Types, IsLedger
<1>1. CASE worker' = worker /\ vectors'.gens = vectors.gens /\ vectors'.active = vectors.active
  BY <1>1 DEF Publication, Ledger, Complete
<1>2. ASSUME worker'.pc \in {"off", "open", "dead", "done"}, worker'.adopts = FALSE
      PROVE  Publication'
  BY <1>2 DEF Publication
<1>3. \A c : Spawned(c).pc = "open" /\ Spawned(c).adopts = FALSE
  BY DEF Spawned, NoWorker
<1>4. ASSUME NEW f \in Files, NEW r \in Revs \cup {Absent}, Edit(f, r) PROVE Publication'
  BY <1>1, <1>4 DEF Edit
<1>5. ASSUME NEW S \in SUBSET Files, Flush(S) PROVE Publication'
  BY <1>1, <1>5 DEF Flush
<1>6. ASSUME NEW t \in Notifiers, NEW f \in Files, Notify(t, f) PROVE Publication'
  BY <1>1, <1>6 DEF Notify
<1>7. ASSUME NEW t \in Batchers, NEW f \in Files,
             Delta(t, f) \/ DeltaFails(t, f) \/ Plan(t, f)
      PROVE  Publication'
  BY <1>1, <1>7 DEF Delta, DeltaFails, Plan
<1>8. ASSUME NEW t \in Batchers, PinBatch(t) \/ Apply(t) \/ JoinBatch(t) \/ Drop(t)
      PROVE  Publication'
  BY <1>1, <1>8 DEF PinBatch, Apply, JoinBatch, Drop
<1>9. CASE WarmRequest \/ RequestRebuild \/ RebuildStep
  BY <1>1, <1>9 DEF WarmRequest, RequestRebuild, RebuildStep
<1>10. CASE Scan \/ ScanFails \/ JoinBuild \/ DropBuild \/ Finish
  BY <1>1, <1>10 DEF Scan, ScanFails, JoinBuild, DropBuild, Finish
<1>11. CASE PinBuild
  BY <1>1, <1>2, <1>3, <1>11 DEF PinBuild
<1>12. CASE Reap \/ Kill
  <2>1. NoWorker.pc = "off" /\ NoWorker.adopts = FALSE
    BY DEF NoWorker
  <2> QED
    BY <1>2, <1>3, <1>12, <2>1 DEF Reap, Kill
<1>13. CASE LoadResident
  <2>1. vectors'.gens = vectors.gens /\ vectors'.active = vectors.active
    BY <1>0, <1>13 DEF LoadResident, Load, WriteArtifact, IsLedger
  <2> QED
    BY <1>1, <1>13, <2>1 DEF LoadResident
<1>14. CASE WorkerOpen
  <2>1. worker.pc = "open" /\ worker.adopts = FALSE
    BY <1>0, <1>14 DEF WorkerOpen, Publication, WorkerRecords
  <2>2. CASE Retries(worker.job) < MaxRetries
             /\ worker' = [worker EXCEPT !.pc = "start", !.retries = Retries(worker.job)]
    <3>1. worker'.pc = "start" /\ worker'.retries < MaxRetries /\ worker'.adopts = FALSE
      BY <1>0, <2>1, <2>2 DEF WorkerRecords
    <3> QED
      BY <3>1 DEF Publication
  <2>3. CASE worker' = [worker EXCEPT !.pc = "done"] \/ worker' = [worker EXCEPT !.pc = "dead"]
    <3>1. worker'.pc \in {"dead", "done"} /\ worker'.adopts = FALSE
      BY <1>0, <2>1, <2>3 DEF WorkerRecords
    <3> QED
      BY <1>2, <3>1
  <2> QED
    BY <1>14, <2>2, <2>3 DEF WorkerOpen
<1>15. CASE WorkerStart
  <2>1. /\ worker.pc = "start" /\ worker'.pc = "check"
        /\ worker'.retries = worker.retries /\ worker'.adopts = worker.adopts
    BY <1>0, <1>15 DEF WorkerStart, WorkerRecords
  <2> QED
    BY <2>1 DEF Publication
<1>16. CASE WorkerComplete
  <2>1. worker.pc = "complete" /\ worker'.pc = "done" /\ worker'.adopts = worker.adopts
    BY <1>0, <1>16 DEF WorkerComplete, WorkerRecords
  <2> QED
    BY <1>0, <1>2, <2>1 DEF Publication, WorkerRecords
<1>17. CASE WorkerFails \/ WorkerDies
  <2>1. worker'.pc = "dead" /\ worker'.adopts = FALSE
    BY <1>17 DEF WorkerFails, WorkerDies, NoWorker
  <2> QED
    BY <1>2, <2>1
<1>18. CASE WorkerCheck
  <2>1. worker.pc = "check" /\ worker'.retries = worker.retries /\ worker.retries < MaxRetries
    BY <1>0, <1>18 DEF WorkerCheck, WorkerRecords, Publication
  <2>2. worker.job \in Corpora /\ worker.taken \in Digests
    BY <2>1 DEF Types, Builds, BuildRecords, WorkerRecords, Takes, Taking
  <2>3. CASE vectors.active = 0 /\ vectors.manifests # {}
    <3> DEFINE old == vectors.gens[Newest(vectors.manifests)]
    <3>1. PICK n \in Nat : Ledger(vectors) = 1..n
      BY <1>0 DEF IsLedger
    <3>2. Newest(vectors.manifests) \in vectors.manifests
      BY <2>3, <3>1, NewestIsIn DEF Generations
    <3>3. old \in Generation
      BY <1>0, <3>2 DEF IsLedger, Generations
    <3>4. worker'.pc = "stage" /\ worker'.corpus = old.corpus /\ worker'.digest = old.digest
      BY <1>0, <1>18, <2>3 DEF WorkerCheck, WorkerRecords
    <3>5. worker'.corpus # Cold /\ worker'.digest # Cold
      BY <3>3, <3>4, Corpus DEF Generation
    <3> QED
      BY <2>1, <3>4, <3>5 DEF Publication
  <2>4. CASE vectors.active # 0 /\ vectors.gens[vectors.active].digest = worker.taken
    <3>1. /\ worker'.pc = "complete" /\ worker'.adopts = worker.adopts
          /\ vectors'.active = vectors.active
      BY <1>0, <1>18, <2>4 DEF WorkerCheck, WorkerRecords, Load, WriteArtifact, IsLedger
    <3> QED
      BY <2>1, <2>4, <3>1 DEF Publication
  <2>5. CASE /\ ~ (vectors.active = 0 /\ vectors.manifests # {})
             /\ ~ (vectors.active # 0 /\ vectors.gens[vectors.active].digest = worker.taken)
    <3>1. worker'.pc = "stage" /\ worker'.corpus = worker.job /\ worker'.digest = worker.taken
      BY <1>0, <1>18, <2>5 DEF WorkerCheck, WorkerRecords
    <3> QED
      BY <2>1, <2>2, <3>1, Corpus DEF Publication
  <2> QED
    BY <2>3, <2>4, <2>5
<1>19. CASE WorkerPublish
  <2>0. worker.retries < MaxRetries /\ worker'.retries = worker.retries
    BY <1>0, <1>19 DEF WorkerPublish, Publish, Publication, WorkerRecords
  <2>1. CASE worker.pc = "stage"
    <3>1. worker.corpus \in Corpora /\ worker.digest \in Digests
      BY <2>1 DEF Publication, Types, WorkerRecords
    <3> DEFINE g == NextGeneration(vectors)
    <3>2. /\ vectors' = Stage(vectors, g, worker.corpus, worker.digest)
          /\ worker'.pc = "records" /\ worker'.gen = g /\ worker'.adopts = worker.adopts
      BY <1>0, <1>19, <2>1 DEF WorkerPublish, Publish, WorkerRecords
    <3>3. /\ Ledger(vectors') = Ledger(vectors) \cup {g}
          /\ vectors'.gens[g] = [state |-> "staged", corpus |-> worker.corpus,
                                 digest |-> worker.digest, stored |-> FALSE]
      <4>1. vectors.current \in Ledger(vectors) \cup {0} /\ vectors.manifests \subseteq Ledger(vectors)
        BY DEF Generations
      <4> QED
        BY <1>0, <3>1, <3>2, <4>1, StageIsLedger
    <3>4. g \in Ledger(vectors') /\ vectors'.gens[g].state # "complete"
      BY <3>3
    <3> HIDE DEF g
    <3> QED
      BY <2>0, <3>2, <3>4 DEF Publication, Complete
  <2>2. CASE worker.pc # "stage"
    <3>1. /\ worker.gen \in Ledger(vectors) /\ worker.gen \in Nat
          /\ worker'.gen = worker.gen
      BY <1>0, <1>19, <2>2 DEF WorkerPublish, Publish, Publication, WorkerRecords
    <3>2. CASE worker.pc = "records"
      <4>1. vectors' = PutVectors(vectors, worker.gen) /\ worker'.pc = "artifact"
        BY <1>0, <1>19, <3>2 DEF WorkerPublish, Publish, WorkerRecords
      <4>2. /\ Ledger(vectors') = Ledger(vectors)
            /\ \A h \in Ledger(vectors) :
                 /\ vectors'.gens[h].state = vectors.gens[h].state
                 /\ vectors'.gens[h].stored <=> (h = worker.gen \/ vectors.gens[h].stored)
        BY <1>0, <3>1, <4>1, PutIsLedger
      <4> QED
        BY <2>0, <3>1, <3>2, <4>1, <4>2 DEF Publication, Complete
    <3>3. CASE worker.pc \in {"artifact", "mirror"}
      <4>1. /\ vectors' \in {WriteArtifact(vectors, worker.gen), Mirror(vectors, worker.gen)}
            /\ worker.pc = "artifact" => worker'.pc = "activate"
            /\ worker.pc = "mirror" => worker'.pc \in {"check", "complete"} /\ worker'.adopts = FALSE
        BY <1>0, <1>19, <3>3 DEF WorkerPublish, Publish, WorkerRecords
      <4>2. vectors'.gens = vectors.gens /\ vectors'.active = vectors.active
        BY <1>0, <3>1, <4>1, FilesAlone
      <4> QED
        BY <1>0, <2>0, <3>1, <3>3, <4>1, <4>2 DEF Publication, Complete, Ledger
    <3>4. CASE worker.pc = "activate"
      <4>1. vectors' = Activate(vectors, worker.gen) /\ worker'.pc = "mirror"
        BY <1>0, <1>19, <3>4 DEF WorkerPublish, Publish, WorkerRecords
      <4>2. Ledger(vectors') = Ledger(vectors) /\ vectors'.active = worker.gen
        BY <1>0, <3>1, <4>1, ActivateIsLedger
      <4> QED
        BY <2>0, <3>1, <4>1, <4>2 DEF Publication
    <3> QED
      BY <1>19, <2>2, <3>2, <3>3, <3>4 DEF WorkerPublish, Publish
  <2> QED
    BY <2>1, <2>2
<1>20. ASSUME NEW g \in vectors.manifests, LoseArtifact(g) PROVE Publication'
  <2>1. vectors'.gens = vectors.gens /\ vectors'.active = vectors.active
    BY <1>0, <1>20 DEF LoseArtifact, IsLedger
  <2> QED
    BY <1>1, <1>20, <2>1 DEF LoseArtifact
<1>21. CASE UNCHANGED vars
  BY <1>1, <1>21 DEF vars
<1> QED
  BY Steps, <1>4, <1>5, <1>6, <1>7, <1>8, <1>9, <1>10, <1>11, <1>12, <1>13, <1>14, <1>15, <1>16,
     <1>17, <1>18, <1>19, <1>20, <1>21

\* Whoever takes the digest has it until the attempt is over.
LEMMA TakesNext ==
  ASSUME Whole, [Next]_vars
  PROVE  Takes'
<1>0. worker \in WorkerRecords /\ touched # Cold /\ Takes
  BY Corpus DEF Whole, Types
<1>1. CASE worker' = worker
  BY <1>0, <1>1 DEF Takes
<1>2. CASE worker'.pc \notin Taking
  BY <1>2 DEF Takes
<1>3. NoWorker.pc \notin Taking /\ \A c : Spawned(c).pc \notin Taking
  BY DEF NoWorker, Spawned, Taking
<1>4. CASE WorkerStart
  BY <1>0, <1>4 DEF WorkerStart, Takes, WorkerRecords
<1>5. CASE WorkerOpen \/ WorkerComplete \/ WorkerFails \/ WorkerDies
  <2>1. worker'.pc \notin Taking
    BY <1>0, <1>5
    DEF WorkerOpen, WorkerComplete, WorkerFails, WorkerDies, NoWorker, WorkerRecords, Taking
  <2> QED
    BY <1>2, <2>1
<1>6. CASE WorkerCheck \/ WorkerPublish
  <2>1. worker.pc \in Taking /\ worker'.taken = worker.taken
    BY <1>0, <1>6 DEF WorkerCheck, WorkerPublish, Publish, WorkerRecords, Taking
  <2> QED
    BY <1>0, <2>1 DEF Takes
<1>7. ASSUME NEW f \in Files, NEW r \in Revs \cup {Absent}, Edit(f, r) PROVE Takes'
  BY <1>1, <1>7 DEF Edit
<1>8. ASSUME NEW S \in SUBSET Files, Flush(S) PROVE Takes'
  BY <1>1, <1>8 DEF Flush
<1>9. ASSUME NEW t \in Notifiers, NEW f \in Files, Notify(t, f) PROVE Takes'
  BY <1>1, <1>9 DEF Notify
<1>10. ASSUME NEW t \in Batchers, NEW f \in Files,
              Delta(t, f) \/ DeltaFails(t, f) \/ Plan(t, f)
       PROVE  Takes'
  BY <1>1, <1>10 DEF Delta, DeltaFails, Plan
<1>11. ASSUME NEW t \in Batchers, PinBatch(t) \/ Apply(t) \/ JoinBatch(t) \/ Drop(t)
       PROVE  Takes'
  BY <1>1, <1>11 DEF PinBatch, Apply, JoinBatch, Drop
<1>12. CASE \/ WarmRequest \/ RequestRebuild \/ RebuildStep \/ Scan \/ ScanFails
            \/ LoadResident \/ JoinBuild \/ DropBuild \/ Finish
  BY <1>1, <1>12 DEF WarmRequest, RequestRebuild, RebuildStep, Scan, ScanFails, LoadResident,
     JoinBuild, DropBuild, Finish
<1>13. CASE PinBuild \/ Reap \/ Kill
  BY <1>1, <1>2, <1>3, <1>13 DEF PinBuild, Reap, Kill
<1>14. ASSUME NEW g \in vectors.manifests, LoseArtifact(g) PROVE Takes'
  BY <1>1, <1>14 DEF LoseArtifact
<1>15. CASE UNCHANGED vars
  BY <1>1, <1>15 DEF vars
<1> QED
  BY Steps, <1>4, <1>5, <1>6, <1>7, <1>8, <1>9, <1>10, <1>11, <1>12, <1>13, <1>14, <1>15

LEMMA WholeInit == Init => Whole
<1> SUFFICES ASSUME Init PROVE Whole
  OBVIOUS
<1>1. IsLedger(vectors) /\ Ledger(vectors) = {}
  <2>1. NoVectors.gens = [g \in {} |-> g] /\ DOMAIN NoVectors.gens = 1..0
    BY DEF NoVectors
  <2>2. NoVectors \in [gens : {NoVectors.gens}, active : Nat, previous : Nat, current : Nat,
                       manifests : SUBSET Nat]
    BY DEF NoVectors
  <2>3. NoVectors.gens \in [{} -> Generation] /\ DOMAIN NoVectors.gens = {}
    BY DEF NoVectors
  <2> QED
    BY <2>1, <2>2, <2>3 DEF Init, IsLedger, Ledger
<1>2. /\ vectors.active = 0 /\ vectors.previous = 0 /\ vectors.current = 0
      /\ vectors.manifests = {}
  BY DEF Init, NoVectors
<1>3. /\ build.pc = "scan" /\ build.snapshot = 0
      /\ worker.pc = "off" /\ worker.adopts = FALSE
      /\ build \in BuildRecords /\ worker \in WorkerRecords
  BY Blank DEF Init, NoBuild, NoWorker
<1>4. DOMAIN jobs \subseteq Corpora /\ jobs \in [DOMAIN jobs -> JobRecords]
      /\ \A c \in DOMAIN jobs : jobs[c].state # "completed"
  <2>1. Interrupted \in JobRecords /\ Interrupted.state # "completed"
    BY SemanticAssumption DEF Interrupted, JobRecords, JobStates
  <2>2. CASE jobs = [c \in {} |-> c]
    BY <2>2
  <2>3. CASE jobs = [c \in {disk} |-> Interrupted]
    BY <2>1, <2>3 DEF Init
  <2> QED
    BY <2>2, <2>3 DEF Init
<1>5. Types
  <2>1. touched \in Digests
    BY SemanticAssumption DEF Init, Digests
  <2>2. /\ 0 \in 0..MaxEdits /\ 0 \in 0..MaxCalls /\ 0 \in 0..MaxFaults
    BY SemanticAssumption
  <2>3. batch \in [Batchers -> BatchRecords]
    BY Blank DEF Init
  <2> QED
    BY <1>1, <1>3, <1>4, <2>1, <2>2, <2>3 DEF Init, Types
<1>6. Batches
  <2>1. NoBatch.snapshot = 0
    BY DEF NoBatch
  <2> QED
    BY <2>1 DEF Init, Batches
<1>7. Builds
  BY <1>2, <1>3 DEF Init, Builds
<1>8. Generations
  BY <1>1, <1>2, <1>4 DEF Init, Generations
<1>9. Publication /\ Takes
  BY <1>3 DEF Publication, Takes, Taking
<1> QED
  BY <1>5, <1>6, <1>7, <1>8, <1>9 DEF Whole

LEMMA WholeNext == Whole /\ [Next]_vars => Whole'
BY TypesNext, BatchesNext, BuildsNext, GenerationsNext, PublicationNext, TakesNext DEF Whole

LEMMA AlwaysWhole == Spec => []Whole
BY WholeInit, WholeNext, PTL DEF Spec

(***************************************************************************)
(* What the active generation, the one kept for a rollback and the one an  *)
(* artifact manifest names are worth: GenerationManager::publish, redb's   *)
(* pointers and attach_vector_generation, for any files, edits, batches,   *)
(* failures and crashes.                                                   *)
(***************************************************************************)
THEOREM PointersAreComplete == Spec => []ActiveComplete
<1>1. Whole => ActiveComplete
  <2> SUFFICES ASSUME Whole PROVE ActiveComplete
    OBVIOUS
  <2>1. IsLedger(vectors) /\ Generations
    BY DEF Whole, Types
  <2> DEFINE whole == {g \in Ledger(vectors) : Complete(vectors, g)}
  <2>2. ASSUME vectors.previous = 0 PROVE ~ Cardinality(whole) > 1
    <3>1. whole \subseteq {vectors.active}
      BY <2>1, <2>2 DEF Generations
    <3>2. IsFiniteSet({vectors.active}) /\ Cardinality({vectors.active}) = 1
      BY FS_Singleton
    <3>3. Cardinality(whole) <= 1 /\ IsFiniteSet(whole)
      BY <3>1, <3>2, FS_Subset
    <3>4. Cardinality(whole) \in Nat
      BY <3>3, FS_CardinalityType
    <3> QED
      BY <3>3, <3>4
  <2> QED
    BY <2>1, <2>2 DEF Generations, ActiveComplete
<1> QED
  BY <1>1, AlwaysWhole, PTL

(***************************************************************************)
(* No publication is refused: whatever is on one of the two media and not  *)
(* on the other, stage_generation is given a number that is free, and      *)
(* complete_and_activate_generation one whose vectors are all there.       *)
(***************************************************************************)
THEOREM PublicationsAreAccepted == Spec => []PublicationAccepted
<1>1. Whole => PublicationAccepted
  <2> SUFFICES ASSUME Whole PROVE PublicationAccepted
    OBVIOUS
  <2>1. /\ vectors.current \in Ledger(vectors) \cup {0}
        /\ vectors.manifests \subseteq Ledger(vectors)
    BY DEF Whole, Generations
  <2>2. PICK n \in Nat : Ledger(vectors) = 1..n
    BY DEF Whole, Types, IsLedger
  <2>3. NextGeneration(vectors) = n + 1
    BY <2>1, <2>2, NextIsFree
  <2> QED
    BY <2>2, <2>3 DEF PublicationAccepted, Whole, Publication
<1> QED
  BY <1>1, AlwaysWhole, PTL

(***************************************************************************)
(* Type correctness of the ledger, the job rows, the resident vectors and  *)
(* the locals of batches, warm build and worker.                           *)
(***************************************************************************)
THEOREM TypesAreKept == Spec => []TypeOK
<1>1. Whole => TypeOK
  <2> SUFFICES ASSUME Whole PROVE TypeOK
    OBVIOUS
  <2>1. Types /\ Batches /\ Builds /\ Generations
    BY DEF Whole
  <2>2. \A g \in Ledger(vectors) : vectors.gens[g] \in Generation
    BY <2>1 DEF Types, IsLedger
  <2>3. \A c \in DOMAIN jobs : jobs[c] \in [state : JobStates, retries : 0..MaxRetries, starts : Nat]
    BY <2>1 DEF Types, JobRecords
  <2>4. build.pc \in {"idle", "scan", "pin", "worker", "load", "join", "drop", "finish", "again"}
    BY <2>1 DEF Types, BuildRecords
  <2>5. worker.pc \in {"open", "start", "check", "stage", "complete"} => worker.job = build.chunks
    BY <2>1 DEF Builds
  <2> QED
    BY <2>1, <2>2, <2>3, <2>4, <2>5 DEF TypeOK, Types, Batches, Builds, Generations, JobStates
<1> QED
  BY <1>1, AlwaysWhole, PTL

-----------------------------------------------------------------------------
LEMMA AttemptsNext ==
  ASSUME RowsTear = FALSE
  PROVE  Whole /\ Attempts /\ [Next]_vars => Attempts'
<1> SUFFICES ASSUME Whole, Attempts, [Next]_vars PROVE Attempts'
  OBVIOUS
<1>0. /\ worker \in WorkerRecords
      /\ MaxRetries \in Nat \ {0}
      /\ worker.retries \in Nat
      /\ \A c \in DOMAIN jobs : jobs[c] \in JobRecords /\ jobs[c].starts \in Nat
                                  /\ jobs[c].retries \in Nat /\ jobs[c].retries <= MaxRetries
  BY SemanticAssumption DEF Whole, Types, WorkerRecords, JobRecords
<1>1. CASE UNCHANGED <<jobs, worker>>
  BY <1>1 DEF Attempts, Known
<1>2. ASSUME UNCHANGED jobs, worker.pc # "start",
             worker'.pc \in {"off", "open", "done", "dead"}
      PROVE  Attempts'
  BY <1>2 DEF Attempts
<1>3. \A c : Spawned(c).pc = "open" /\ NoWorker.pc = "off"
  BY DEF Spawned, NoWorker
<1>4. ASSUME NEW f \in Files, NEW r \in Revs \cup {Absent}, Edit(f, r) PROVE Attempts'
  BY <1>1, <1>4 DEF Edit
<1>5. ASSUME NEW S \in SUBSET Files, Flush(S) PROVE Attempts'
  BY <1>1, <1>5 DEF Flush
<1>6. ASSUME NEW t \in Notifiers, NEW f \in Files, Notify(t, f) PROVE Attempts'
  BY <1>1, <1>6 DEF Notify
<1>7. ASSUME NEW t \in Batchers, NEW f \in Files,
             Delta(t, f) \/ DeltaFails(t, f) \/ Plan(t, f)
      PROVE  Attempts'
  BY <1>1, <1>7 DEF Delta, DeltaFails, Plan
<1>8. ASSUME NEW t \in Batchers, PinBatch(t) \/ Apply(t) \/ JoinBatch(t) \/ Drop(t)
      PROVE  Attempts'
  BY <1>1, <1>8 DEF PinBatch, Apply, JoinBatch, Drop
<1>9. CASE WarmRequest \/ RequestRebuild \/ RebuildStep
  BY <1>1, <1>9 DEF WarmRequest, RequestRebuild, RebuildStep
<1>10. CASE Scan \/ ScanFails \/ LoadResident \/ JoinBuild \/ DropBuild \/ Finish
  BY <1>1, <1>10 DEF Scan, ScanFails, LoadResident, JoinBuild, DropBuild, Finish
<1>11. CASE PinBuild
  <2>1. worker.pc = "off"
    BY <1>11 DEF PinBuild, Whole, Builds
  <2> QED
    BY <1>1, <1>2, <1>3, <1>11, <2>1 DEF PinBuild
<1>12. CASE Reap \/ Kill \/ WorkerDies
  <2>1. [NoWorker EXCEPT !.pc = "dead"].pc = "dead"
    BY DEF NoWorker
  <2> QED
    BY <1>2, <1>3, <1>12, <2>1 DEF Reap, Kill, WorkerDies
<1>13. ASSUME worker.pc \in {"open", "start", "check", "stage", "records", "artifact", "activate",
                            "mirror", "complete"}
       PROVE  worker.job \in Corpora
  BY <1>13 DEF Whole, Types, Builds, BuildRecords, WorkerRecords
<1>14. ASSUME NEW c \in Corpora, NEW s \in JobStates, NEW r \in 0..MaxRetries, NEW n \in Nat,
              SetJob(c, s, r, n)
       PROVE  /\ DOMAIN jobs' = DOMAIN jobs \cup {c}
              /\ jobs'[c].state = s /\ jobs'[c].retries = r /\ jobs'[c].starts = n
              /\ \A d \in DOMAIN jobs \ {c} : jobs'[d] = jobs[d]
  <2>1. /\ DOMAIN jobs' = DOMAIN jobs \cup {c}
        /\ jobs'[c] = [state |-> s, retries |-> r, starts |-> n]
        /\ \A d \in DOMAIN jobs \ {c} : jobs'[d] = jobs[d]
    BY <1>14, SetJobTyped DEF Whole
  <2> QED
    BY <2>1
<1>15. ASSUME NEW c \in Corpora
       PROVE  /\ Starts(c) \in Nat /\ Retries(c) \in Nat
              /\ worker.pc = "open" /\ jobs[c].state # "completed" /\ Known(c) => Starts(c) <= Retries(c)
              /\ worker.pc = "open" /\ ~ Known(c) => Starts(c) = 0
  BY <1>0 DEF Starts, Retries, Known, Attempts, JobRecords, JobStates
<1>16. {"running", "pending", "failed", "completed", "removed"} \subseteq JobStates
       /\ 0 \in 0..MaxRetries /\ worker.retries \in 0..MaxRetries
  BY <1>0 DEF JobStates, WorkerRecords
<1>17. CASE WorkerOpen
  <2> DEFINE c == worker.job
  <2>0. worker.pc = "open" /\ c \in Corpora
    BY <1>13, <1>17 DEF WorkerOpen
  <2>1. CASE UNCHANGED jobs /\ worker'.pc \in {"done", "dead"}
    BY <1>2, <2>0, <2>1
  <2>2. CASE /\ Known(c) => jobs[c].state # "completed"
             /\ Retries(c) < MaxRetries
             /\ worker' = [worker EXCEPT !.pc = "start", !.retries = Retries(c)]
    <3>1. worker'.pc = "start" /\ worker'.retries = Retries(c) /\ worker'.job = c
      BY <1>0, <2>2 DEF WorkerRecords
    <3>2. CASE Known(c)
      <4>1. SetJob(c, "removed", 0, Starts(c))
        <5>1. \/ worker' = [worker EXCEPT !.pc = "done"]
              \/ worker' = [worker EXCEPT !.pc = "dead"]
              \/ IF Known(c) THEN SetJob(c, "removed", 0, Starts(c)) ELSE UNCHANGED jobs
          BY <1>17 DEF WorkerOpen
        <5>2. [worker EXCEPT !.pc = "done"].pc = "done" /\ [worker EXCEPT !.pc = "dead"].pc = "dead"
          BY <1>0 DEF WorkerRecords
        <5> QED
          BY <3>1, <3>2, <5>1, <5>2
      <4>2. /\ DOMAIN jobs' = DOMAIN jobs \cup {c}
            /\ jobs'[c].state = "removed" /\ jobs'[c].starts = Starts(c)
            /\ \A d \in DOMAIN jobs \ {c} : jobs'[d] = jobs[d]
        <5>1. Starts(c) \in Nat /\ 0 \in 0..MaxRetries /\ "removed" \in JobStates
          BY <1>15, <1>16, <2>0
        <5> HIDE DEF c
        <5> QED
          BY <1>14, <2>0, <4>1, <5>1
      <4>3. Starts(c) <= Retries(c)
        BY <1>15, <2>0, <2>2, <3>2
      <4> HIDE DEF c
      <4> QED
        BY <2>0, <3>1, <4>2, <4>3 DEF Attempts, Known
    <3>3. CASE ~ Known(c)
      <4>1. c \notin DOMAIN jobs
        BY <2>0, <3>3 DEF Known, Attempts
      <4>2. jobs' = jobs
        BY <1>17, <2>2, <3>1, <3>3 DEF WorkerOpen
      <4> HIDE DEF c
      <4> QED
        BY <2>0, <3>1, <4>1, <4>2 DEF Attempts, Known
    <3> QED
      BY <3>2, <3>3
  <2> QED
    BY <1>0, <1>17, <2>1, <2>2 DEF WorkerOpen, WorkerRecords
<1>18. CASE WorkerStart
  <2> DEFINE c == worker.job
  <2>0. worker.pc = "start" /\ c \in Corpora /\ worker.retries < MaxRetries
    BY <1>13, <1>18 DEF WorkerStart, Whole, Publication
  <2>1. Starts(c) \in Nat /\ Starts(c) <= worker.retries
    BY <1>0, <2>0, <1>15 DEF Attempts, Known, Starts
  <2>2. /\ DOMAIN jobs' = DOMAIN jobs \cup {c}
        /\ jobs'[c].state = "running" /\ jobs'[c].starts = Starts(c) + 1
        /\ jobs'[c].retries = worker.retries
        /\ \A d \in DOMAIN jobs \ {c} : jobs'[d] = jobs[d]
    <3> DEFINE n == Starts(c) + 1
               r == worker.retries
    <3>1. SetJob(c, "running", r, n)
      BY <1>18 DEF WorkerStart
    <3>2. n \in Nat /\ "running" \in JobStates /\ r \in 0..MaxRetries
      BY <1>16, <2>1
    <3>3. c \in Corpora
      BY <2>0
    <3> HIDE DEF c, n, r
    <3>4. /\ DOMAIN jobs' = DOMAIN jobs \cup {c}
          /\ jobs'[c].state = "running" /\ jobs'[c].retries = r /\ jobs'[c].starts = n
          /\ \A d \in DOMAIN jobs \ {c} : jobs'[d] = jobs[d]
      BY ONLY <1>14, <3>1, <3>2, <3>3
    <3> QED
      BY <3>4 DEF n, r
  <2>3. worker'.pc = "check" /\ worker'.job = c /\ worker'.retries = worker.retries
    BY <1>0, <1>18 DEF WorkerStart, WorkerRecords
  <2> HIDE DEF c
  <2>4. Starts(c) + 1 <= worker.retries + 1
    BY <1>0, <2>1
  <2>5. \A d \in DOMAIN jobs \ {c} : jobs[d].state # "removed"
    BY <2>0 DEF Attempts, c
  <2> QED
    BY <2>0, <2>2, <2>3, <2>4, <2>5 DEF Attempts
<1>19. CASE WorkerCheck \/ WorkerPublish
  <2>1. /\ worker.pc \in {"check", "stage", "records", "artifact", "activate", "mirror"}
        /\ UNCHANGED jobs
    BY <1>19 DEF WorkerCheck, WorkerPublish, Publish
  <2>2. CASE WorkerCheck
    <3>1. /\ worker'.pc \in {"stage", "complete"}
          /\ worker'.job = worker.job /\ worker'.retries = worker.retries
      <4>1. CASE vectors.active = 0 /\ vectors.manifests # {}
        BY <1>0, <2>2, <4>1 DEF WorkerCheck, WorkerRecords
      <4>2. CASE vectors.active # 0 /\ vectors.gens[vectors.active].digest = touched
        BY <1>0, <2>2, <4>2 DEF WorkerCheck, WorkerRecords
      <4>3. CASE /\ ~ (vectors.active = 0 /\ vectors.manifests # {})
                 /\ ~ (vectors.active # 0 /\ vectors.gens[vectors.active].digest = touched)
        BY <1>0, <2>2, <4>3 DEF WorkerCheck, WorkerRecords
      <4> QED
        BY <4>1, <4>2, <4>3
    <3> QED
      BY <2>1, <3>1 DEF Attempts
  <2>3. CASE WorkerPublish
    <3>1. /\ worker'.pc \in {"records", "artifact", "activate", "mirror", "check", "complete"}
          /\ worker'.job = worker.job /\ worker'.retries = worker.retries
      BY <1>0, <2>3 DEF WorkerPublish, Publish, WorkerRecords
    <3> QED
      BY <2>1, <3>1 DEF Attempts
  <2> QED
    BY <1>19, <2>2, <2>3
<1>20. CASE WorkerComplete \/ WorkerFails
  <2> DEFINE c == worker.job
  <2>0. /\ c \in Corpora /\ worker.retries < MaxRetries
        /\ c \in DOMAIN jobs /\ jobs[c].state = "running" /\ jobs[c].retries = worker.retries
        /\ worker.pc # "start"
    BY <1>13, <1>20 DEF WorkerComplete, WorkerFails, Whole, Publication, Attempts
  <2>1. Starts(c) \in Nat /\ Starts(c) <= worker.retries + 1
    BY <1>0, <2>0 DEF Attempts, Starts
  <2>2. /\ worker.retries + 1 \in 0..MaxRetries
        /\ worker'.pc \in {"done", "dead"}
    BY <1>0, <1>20, <2>0 DEF WorkerComplete, WorkerFails, WorkerRecords, NoWorker
  <2>3. \E s \in {"completed", "failed", "pending"}, r \in 0..MaxRetries :
          /\ s # "completed" => r = worker.retries + 1
          /\ SetJob(c, s, r, Starts(c))
    BY <1>16, <1>20, <2>2 DEF WorkerComplete, WorkerFails
  <2> HIDE DEF c
  <2>4. PICK s \in {"completed", "failed", "pending"}, r \in 0..MaxRetries :
          /\ s # "completed" => r = worker.retries + 1
          /\ SetJob(c, s, r, Starts(c))
    BY <2>3
  <2>5. /\ DOMAIN jobs' = DOMAIN jobs \cup {c}
        /\ jobs'[c].state = s /\ jobs'[c].starts = Starts(c) /\ jobs'[c].retries = r
        /\ \A d \in DOMAIN jobs \ {c} : jobs'[d] = jobs[d]
    BY <1>14, <1>16, <2>0, <2>1, <2>4
  <2>6. Starts(c) <= MaxRetries
    BY <1>0, <2>0, <2>1
  <2>7. \A d \in DOMAIN jobs : jobs[d].state # "removed"
    BY <2>0 DEF Attempts
  <2> QED
    BY <2>0, <2>1, <2>2, <2>4, <2>5, <2>6, <2>7 DEF Attempts
<1>21. ASSUME NEW g \in vectors.manifests, LoseArtifact(g) PROVE Attempts'
  BY <1>1, <1>21 DEF LoseArtifact
<1>22. CASE UNCHANGED vars
  BY <1>1, <1>22 DEF vars
<1> QED
  BY Steps, <1>4, <1>5, <1>6, <1>7, <1>8, <1>9, <1>10, <1>11, <1>12, <1>17, <1>18, <1>19, <1>20,
     <1>21, <1>22

(***************************************************************************)
(* "Retry exhaustion is finite and durable", for any number of retries,    *)
(* failures, deaths and restarts, if no worker ends between removing the   *)
(* row of its job and writing it anew.                                     *)
(***************************************************************************)
THEOREM AttemptsAreFinite ==
  ASSUME RowsTear = FALSE
  PROVE  Spec => []AttemptsFinite
<1>1. Init => Attempts
  <2> SUFFICES ASSUME Init PROVE Attempts
    OBVIOUS
  <2>1. worker.pc = "off"
    BY DEF Init, NoWorker
  <2>2. \A c \in DOMAIN jobs : jobs[c] = Interrupted
    BY DEF Init
  <2>3. Interrupted.state = "running" /\ Interrupted.starts = 1 /\ Interrupted.retries = 0
    BY DEF Interrupted
  <2> QED
    BY <2>1, <2>2, <2>3, SemanticAssumption DEF Attempts
<1>2. Whole /\ Attempts => AttemptsFinite
  <2> SUFFICES ASSUME Whole, Attempts, NEW c \in DOMAIN jobs PROVE jobs[c].starts <= MaxRetries
    BY DEF AttemptsFinite
  <2>1. jobs[c] \in JobRecords /\ MaxRetries \in Nat
    BY SemanticAssumption DEF Whole, Types
  <2>2. worker.pc = "start" => worker.retries < MaxRetries /\ worker.retries \in Nat
    BY DEF Whole, Publication, Types, WorkerRecords
  <2> QED
    BY <2>1, <2>2 DEF Attempts, JobRecords, JobStates
<1> QED
  BY <1>1, <1>2, AttemptsNext, AlwaysWhole, PTL DEF Spec

-----------------------------------------------------------------------------
\* An edit is later than every digest there is.
LEMMA EditsAreNew ==
  ASSUME Whole, Stamped, NEW f \in Files, NEW r \in Revs \cup {Absent}, Edit(f, r)
  PROVE  /\ \A d \in Digests : (\A h \in Files : d[h] <= edits) => d # touched'
         /\ \A h \in Files : touched'[h] <= edits'
         /\ edits' = edits + 1 /\ edits \in Nat
<1>1. touched \in Digests /\ edits \in Nat /\ edits' = edits + 1
      /\ touched' = [touched EXCEPT ![f] = edits']
  BY DEF Whole, Types, Edit
<1>2. touched'[f] = edits + 1
  BY <1>1 DEF Digests
<1>3. \A d \in Digests : d[f] <= edits => d # touched'
  BY <1>1, <1>2 DEF Digests
<1>4. ASSUME NEW h \in Files PROVE touched'[h] <= edits'
  <2>1. touched[h] \in Nat /\ touched[h] <= edits
    BY <1>1 DEF Digests, Stamped
  <2> QED
    BY <1>1, <2>1 DEF Digests
<1> QED
  BY <1>1, <1>3, <1>4

LEMMA CertainNext ==
  ASSUME Restamps = FALSE
  PROVE  Whole /\ Certain /\ [Next]_vars => Certain'
<1> SUFFICES ASSUME Whole, Certain, [Next]_vars PROVE Certain'
  OBVIOUS
<1>0. /\ worker \in WorkerRecords /\ build \in BuildRecords /\ IsLedger(vectors)
      /\ touched \in Digests /\ facts \in Corpora \cup {Cold} /\ disk \in Corpora
      /\ vectors.active \in Nat
      /\ \A g \in Ledger(vectors) : vectors.gens[g] \in Generation
      /\ Stamped /\ Asked /\ Builds /\ Publication /\ Takes /\ Generations
  BY DEF Whole, Certain, Types, IsLedger
<1>1. ASSUME UNCHANGED <<disk, touched, edits, worker, facts>>,
             vectors'.gens = vectors.gens, vectors'.active = vectors.active,
             \/ build'.pc \notin {"pin", "worker"}
             \/ build' = build
      PROVE  Certain'
  <2>1. Stamped'
    BY <1>0, <1>1 DEF Stamped, Ledger
  <2>2. Exposed' => Exposed /\ build' = build
    BY <1>1 DEF Exposed
  <2>3. Asked'
    BY <1>0, <1>1, <2>2 DEF Asked, Ledger
  <2> QED
    BY <2>1, <2>3 DEF Certain
<1>2. ASSUME NEW f \in Files, NEW r \in Revs \cup {Absent}, Edit(f, r) PROVE Certain'
  <2>1. /\ UNCHANGED <<facts, build, worker, vectors>>
        /\ ~ Exposed
    BY <1>2 DEF Edit, storeVars, buildVars
  <2>2. \A d \in Digests : (\A h \in Files : d[h] <= edits) => d # touched'
    BY <1>0, <1>2, EditsAreNew
  <2>3. \A g \in Ledger(vectors) : vectors.gens[g].digest # touched'
    BY <1>0, <2>2 DEF Stamped, Generation
  <2>4. /\ worker.digest = Cold \/ worker.digest # touched'
        /\ worker.taken = Cold \/ worker.taken # touched'
    BY <1>0, <2>2 DEF Stamped, WorkerRecords
  <2>5. ASSUME NEW n \in Nat, n <= edits PROVE n <= edits'
    BY <1>0, <1>2, <2>5, EditsAreNew
  <2>6. Stamped'
    <3>1. \A h \in Files : touched'[h] <= edits'
      BY <1>0, <1>2, EditsAreNew
    <3>2. \A g \in Ledger(vectors), h \in Files : vectors.gens[g].digest[h] <= edits'
      <4>1. \A g \in Ledger(vectors), h \in Files : vectors.gens[g].digest[h] \in Nat
        BY <1>0 DEF Generation, Digests
      <4> QED
        BY <1>0, <2>5, <4>1 DEF Stamped
    <3>3. worker.digest # Cold => \A h \in Files : worker.digest[h] <= edits'
      <4>1. worker.digest # Cold => \A h \in Files : worker.digest[h] \in Nat
        BY <1>0 DEF WorkerRecords, Digests
      <4> QED
        BY <1>0, <2>5, <4>1 DEF Stamped
    <3>4. worker.pc = "stage" => worker.digest # Cold
      BY <1>0 DEF Publication
    <3>5. worker.taken # Cold => \A h \in Files : worker.taken[h] <= edits'
      <4>1. worker.taken # Cold => \A h \in Files : worker.taken[h] \in Nat
        BY <1>0 DEF WorkerRecords, Digests
      <4> QED
        BY <1>0, <2>5, <4>1 DEF Stamped
    <3> QED
      BY <2>1, <2>3, <2>4, <3>1, <3>2, <3>3, <3>4, <3>5 DEF Stamped
  <2>7. Asked'
    <3>1. ~ Exposed'
      BY <2>1 DEF Exposed
    <3>2. build.pc # "pin"
      BY <2>1 DEF Exposed
    <3> QED
      BY <1>0, <2>1, <2>4, <3>1, <3>2 DEF Asked, Takes
  <2> QED
    BY <2>6, <2>7 DEF Certain
<1>3. ASSUME NEW S \in SUBSET Files, Flush(S) PROVE Certain'
  BY <1>1, <1>3 DEF Flush, storeVars, buildVars
<1>4. ASSUME NEW t \in Notifiers, NEW f \in Files, Notify(t, f) PROVE Certain'
  BY <1>1, <1>4 DEF Notify, diskVars, storeVars, buildVars
<1>5. ASSUME NEW t \in Batchers, NEW f \in Files, Delta(t, f) PROVE Certain'
  <2>1. /\ UNCHANGED <<disk, touched, edits, worker, build, vectors>>
        /\ build.pc # "pin" \/ facts' = disk
    BY <1>5 DEF Delta, diskVars, buildVars
  <2> QED
    BY <1>0, <2>1 DEF Certain, Stamped, Asked, Exposed
<1>6. ASSUME NEW t \in Batchers, NEW f \in Files, DeltaFails(t, f) \/ Plan(t, f) PROVE Certain'
  BY <1>1, <1>6 DEF DeltaFails, Plan, diskVars, storeVars, buildVars
<1>7. ASSUME NEW t \in Batchers, PinBatch(t) \/ Apply(t) \/ JoinBatch(t) \/ Drop(t)
      PROVE  Certain'
  BY <1>1, <1>7 DEF PinBatch, Apply, JoinBatch, Drop, diskVars, storeVars, buildVars
<1>8. CASE WarmRequest \/ RequestRebuild \/ RebuildStep
  <2>1. build' = build \/ build'.pc = "scan"
    BY <1>8 DEF WarmRequest, RequestRebuild, RebuildStep, StartWarm, TryStart, NoBuild, buildVars
  <2> QED
    BY <1>1, <1>8, <2>1 DEF WarmRequest, RequestRebuild, RebuildStep, diskVars, storeVars
<1>9. CASE Scan \/ ScanFails
  <2>1. /\ UNCHANGED <<disk, touched, edits, worker, vectors>>
        /\ build'.pc = "pin" /\ facts' \in {Cold, disk}
    BY <1>0, <1>9 DEF Scan, Ingested, ScanFails, diskVars, storeVars, BuildRecords
  <2>2. worker.pc = "off" /\ worker.adopts = FALSE
    BY <1>0, <1>9 DEF Scan, ScanFails, Builds, Publication, WorkerRecords
  <2> QED
    BY <1>0, <2>1, <2>2 DEF Certain, Stamped, Asked, Exposed
<1>10. ASSUME UNCHANGED <<disk, touched, edits, vectors>>,
              worker'.pc \in {"off", "open", "done", "dead"}, worker'.digest \in {Cold, worker.digest},
              worker'.taken \in {Cold, worker.taken},
              build'.pc = "pin" => build.pc = "pin" /\ UNCHANGED facts,
              Exposed' /\ build'.pc # "pin" => build'.chunks = disk
       PROVE  Certain'
  BY <1>0, <1>10 DEF Certain, Stamped, Asked, Taking
<1>11. \A c : Spawned(c).pc = "open" /\ Spawned(c).digest = Cold /\ Spawned(c).taken = Cold
       /\ NoWorker.pc = "off" /\ NoWorker.digest = Cold /\ NoWorker.taken = Cold
  BY DEF Spawned, NoWorker
<1>12. CASE PinBuild
  <2>1. UNCHANGED <<disk, touched, edits, vectors>> /\ build.pc = "pin"
    BY <1>12 DEF PinBuild, diskVars
  <2>2. CASE generation > 0 /\ resident = Cold
    <3>1. /\ build' = [pc |-> "worker", snapshot |-> generation, chunks |-> facts, attempt |-> 1]
          /\ worker' = Spawned(facts)
      BY <1>12, <2>2 DEF PinBuild, Whole, Types
    <3>2. facts = disk
      BY <1>0, <2>1, <2>2 DEF Asked, Whole, Types
    <3> QED
      BY <1>10, <1>11, <2>1, <3>1, <3>2
  <2>3. CASE ~ (generation > 0 /\ resident = Cold)
    <3>1. worker' = worker /\ build'.pc \in {"finish", "join"} /\ facts' = facts
      BY <1>0, <1>12, <2>3 DEF PinBuild, NoBuild, BuildRecords, storeVars
    <3> QED
      BY <1>1, <2>1, <3>1
  <2> QED
    BY <2>2, <2>3
<1>13. CASE Reap
  <2>1. UNCHANGED <<disk, touched, edits, vectors>> /\ build.pc = "worker"
    BY <1>13 DEF Reap, diskVars
  <2>2. \/ build'.pc \in {"load", "finish"} /\ worker' = NoWorker
        \/ /\ worker.pc = "dead" /\ build'.pc = "worker" /\ build'.chunks = build.chunks
           /\ worker' = Spawned(build.chunks)
    <3>1. CASE worker.pc = "done"
      BY <1>0, <1>13, <3>1 DEF Reap, BuildRecords
    <3>2. CASE worker.pc = "dead" /\ build' = [build EXCEPT !.attempt = @ + 1]
      BY <1>0, <1>13, <3>2 DEF Reap, NoBuild, BuildRecords
    <3>3. CASE worker.pc = "dead" /\ build' = [NoBuild EXCEPT !.pc = "finish"]
      BY <1>0, <1>13, <3>3 DEF Reap, NoBuild, BuildRecords
    <3> QED
      BY <1>13, <3>1, <3>2, <3>3 DEF Reap
  <2>3. worker.pc = "dead" => build.chunks = disk
    BY <1>0, <2>1 DEF Asked, Exposed
  <2>4. Exposed' => build'.pc \in {"pin", "worker"}
    BY DEF Exposed
  <2> QED
    BY <1>10, <1>11, <2>1, <2>2, <2>3, <2>4
<1>14. CASE LoadResident
  <2>1. vectors'.gens = vectors.gens /\ vectors'.active = vectors.active
    BY <1>0, <1>14 DEF LoadResident, Load, WriteArtifact, IsLedger
  <2>2. build'.pc = "join"
    BY <1>0, <1>14 DEF LoadResident, BuildRecords
  <2> QED
    BY <1>1, <1>14, <2>1, <2>2 DEF LoadResident, diskVars, storeVars
<1>15. CASE JoinBuild \/ DropBuild \/ Finish
  <2>1. build'.pc \notin {"pin", "worker"}
    BY <1>0, <1>15 DEF JoinBuild, DropBuild, Finish, NoBuild, BuildRecords
  <2> QED
    BY <1>1, <1>15, <2>1 DEF JoinBuild, DropBuild, Finish, diskVars, storeVars
<1>16. CASE Kill
  <2>1. UNCHANGED <<disk, touched, edits, vectors>> /\ build'.pc = "scan" /\ worker' = NoWorker
    BY <1>16 DEF Kill, NoBuild
  <2>2. ~ Exposed'
    BY <2>1 DEF Exposed
  <2> QED
    BY <1>10, <1>11, <2>1, <2>2
<1>17. CASE WorkerOpen
  <2>1. UNCHANGED <<disk, touched, edits, facts, build>> /\ worker.pc = "open"
    BY <1>17 DEF WorkerOpen, diskVars, storeVars, buildVars
  <2>2. vectors'.gens = vectors.gens /\ vectors'.active = vectors.active
    BY <1>0, <1>17 DEF WorkerOpen, Load, WriteArtifact, IsLedger
  <2>3. worker'.pc \in {"done", "dead", "start"} /\ worker'.digest = worker.digest
        /\ worker'.adopts = worker.adopts /\ worker'.job = worker.job
        /\ worker'.taken = worker.taken
    BY <1>0, <1>17 DEF WorkerOpen, WorkerRecords
  <2>4. build.pc = "worker" /\ build.chunks = disk
    BY <1>0, <2>1 DEF Asked, Exposed, Builds
  <2> QED
    BY <1>0, <2>1, <2>2, <2>3, <2>4 DEF Certain, Stamped, Asked, Taking, Ledger
<1>18. CASE WorkerStart
  <2>1. UNCHANGED <<disk, touched, edits, facts, build, vectors>> /\ worker.pc = "start"
    BY <1>18 DEF WorkerStart, diskVars, storeVars, buildVars
  <2>2. /\ worker'.pc = "check" /\ worker'.digest = worker.digest /\ worker'.taken = touched
        /\ worker'.job = worker.job
    BY <1>0, <1>18 DEF WorkerStart, WorkerRecords
  <2>3. build.pc = "worker" /\ build.chunks = disk /\ worker.job = build.chunks
    BY <1>0, <2>1 DEF Asked, Exposed, Builds
  <2>4. touched # Cold
    BY <1>0, Corpus
  <2>5. Stamped'
    BY <1>0, <2>1, <2>2 DEF Stamped
  <2>6. ~ Exposed'
    BY <2>1, <2>2, <2>3 DEF Exposed
  <2>7. Asked'
    BY <1>0, <2>1, <2>2, <2>3, <2>4, <2>6 DEF Asked, Stamped, Taking
  <2> QED
    BY <2>5, <2>7 DEF Certain
<1>19. CASE WorkerComplete
  <2>1. UNCHANGED <<disk, touched, edits, facts, build, vectors>> /\ worker.pc = "complete"
    BY <1>19 DEF WorkerComplete, diskVars, storeVars, buildVars
  <2>2. worker'.pc = "done" /\ worker'.digest = worker.digest /\ worker'.taken = worker.taken
    BY <1>0, <1>19 DEF WorkerComplete, WorkerRecords
  <2>3. build.pc = "worker"
    BY <1>0, <2>1 DEF Builds
  <2>4. ~ Exposed'
    BY <2>1, <2>2, <2>3 DEF Exposed
  <2> QED
    BY <1>0, <1>10, <2>1, <2>2, <2>3, <2>4
<1>20. CASE WorkerFails \/ WorkerDies
  <2>1. /\ UNCHANGED <<disk, touched, edits, facts, build, vectors>>
        /\ worker.pc \notin {"off", "done", "dead"}
        /\ worker.taken \in {Cold, touched}
    BY <1>20 DEF WorkerFails, WorkerDies, Undisturbed, diskVars, storeVars, buildVars
  <2>2. worker'.pc = "dead" /\ worker'.digest = Cold /\ worker'.taken = Cold
    BY <1>20 DEF WorkerFails, WorkerDies, NoWorker
  <2>3. build.pc = "worker" /\ worker.job = build.chunks
    BY <1>0, <2>1 DEF Builds
  <2>4. build.chunks = disk
    <3>1. CASE Exposed
      BY <1>0, <2>3, <3>1 DEF Asked
    <3>2. CASE ~ Exposed
      <4>1. worker.pc \in Taking
        BY <1>0, <2>1, <2>3, <3>2 DEF Exposed, WorkerRecords, WorkerLabels, Taking
      <4> QED
        BY <1>0, <2>1, <2>3, <4>1 DEF Asked, Takes
    <3> QED
      BY <3>1, <3>2
  <2> QED
    BY <1>10, <2>1, <2>2, <2>3, <2>4
<1>21. CASE WorkerCheck
  <2>1. /\ UNCHANGED <<disk, touched, edits, facts, build>> /\ worker.pc = "check"
        /\ build.pc = "worker" /\ worker'.taken = worker.taken /\ worker'.job = worker.job
    BY <1>0, <1>21 DEF WorkerCheck, Builds, WorkerRecords, diskVars, storeVars, buildVars
  <2>2. /\ worker.taken # Cold
        /\ worker.taken = touched => worker.job = disk
        /\ \A g \in Ledger(vectors) :
             vectors.gens[g].digest = worker.taken => vectors.gens[g].corpus = worker.job
        /\ \A f \in Files : worker.taken[f] <= edits
    BY <1>0, <2>1 DEF Asked, Stamped, Takes, Taking
  <2>3. vectors'.gens = vectors.gens /\ vectors'.active = vectors.active
    BY <1>0, <1>21 DEF WorkerCheck, Load, WriteArtifact, IsLedger
  <2>4. ASSUME worker'.pc \in {"stage", "complete"} PROVE ~ Exposed'
    BY <2>1, <2>4 DEF Exposed
  <2>5. CASE vectors.active = 0 /\ vectors.manifests # {}
    <3> DEFINE old == vectors.gens[Newest(vectors.manifests)]
    <3>1. PICK n \in Nat : Ledger(vectors) = 1..n
      BY <1>0 DEF IsLedger
    <3>2. Newest(vectors.manifests) \in Ledger(vectors)
      BY <1>0, <2>5, <3>1, NewestIsIn DEF Generations
    <3>3. /\ old \in Generation
          /\ \A f \in Files : old.digest[f] <= edits
          /\ old.digest = touched => old.corpus = disk
          /\ old.digest = worker.taken => old.corpus = worker.job
      BY <1>0, <2>2, <3>2 DEF Stamped
    <3>4. /\ worker'.pc = "stage" /\ worker'.corpus = old.corpus /\ worker'.digest = old.digest
          /\ worker'.adopts = TRUE
      BY <1>0, <1>21, <2>5 DEF WorkerCheck, WorkerRecords
    <3>5. old.digest # Cold
      BY <3>3, Corpus DEF Generation
    <3> HIDE DEF old
    <3>6. Stamped'
      BY <1>0, <2>1, <2>2, <2>3, <3>3, <3>4 DEF Stamped, Ledger
    <3>7. Asked'
      BY <1>0, <2>1, <2>2, <2>3, <2>4, <3>3, <3>4, <3>5 DEF Asked, Ledger, Taking
    <3> QED
      BY <3>6, <3>7 DEF Certain
  <2>6. CASE vectors.active # 0 /\ vectors.gens[vectors.active].digest = worker.taken
    <3>1. /\ worker'.pc = "complete" /\ worker'.digest = worker.taken
      BY <1>0, <1>21, <2>6 DEF WorkerCheck, WorkerRecords
    <3>2. vectors.gens[vectors.active].corpus = worker.job
      BY <1>0, <2>2, <2>6 DEF Generations
    <3>3. Stamped'
      BY <1>0, <2>1, <2>2, <2>3, <3>1 DEF Stamped, Ledger
    <3>4. Asked'
      BY <1>0, <2>1, <2>2, <2>3, <2>4, <3>1, <3>2 DEF Asked, Ledger, Taking
    <3> QED
      BY <3>3, <3>4 DEF Certain
  <2>7. CASE /\ ~ (vectors.active = 0 /\ vectors.manifests # {})
             /\ ~ (vectors.active # 0 /\ vectors.gens[vectors.active].digest = worker.taken)
    <3>1. /\ worker'.pc = "stage" /\ worker'.corpus = worker.job /\ worker'.digest = worker.taken
          /\ worker'.adopts = worker.adopts
      BY <1>0, <1>21, <2>7 DEF WorkerCheck, WorkerRecords
    <3>2. Stamped'
      BY <1>0, <2>1, <2>2, <2>3, <3>1 DEF Stamped, Ledger
    <3>3. Asked'
      BY <1>0, <2>1, <2>2, <2>3, <2>4, <3>1 DEF Asked, Ledger, Taking
    <3> QED
      BY <3>2, <3>3 DEF Certain
  <2> QED
    BY <2>5, <2>6, <2>7
<1>22. CASE WorkerPublish
  <2>1. /\ UNCHANGED <<disk, touched, edits, facts, build>>
        /\ build.pc = "worker"
        /\ worker.pc \in {"stage", "records", "artifact", "activate", "mirror"}
        /\ worker'.digest = worker.digest /\ worker'.job = worker.job
        /\ worker'.taken = worker.taken
    BY <1>0, <1>22
    DEF WorkerPublish, Publish, Builds, WorkerRecords, diskVars, storeVars, buildVars
  <2>2. ~ Exposed'
    <3>1. worker'.pc \in Taking
      BY <1>0, <1>22 DEF WorkerPublish, Publish, WorkerRecords, Taking
    <3> QED
      BY <2>1, <3>1 DEF Exposed, Taking
  <2>3. CASE worker.pc = "stage"
    <3>1. worker.corpus \in Corpora /\ worker.digest \in Digests
      BY <1>0, <2>3 DEF Publication, WorkerRecords
    <3> DEFINE g == NextGeneration(vectors)
    <3>2. /\ vectors' = Stage(vectors, g, worker.corpus, worker.digest)
          /\ worker'.pc = "records" /\ worker'.gen = g /\ worker'.adopts = worker.adopts
      BY <1>0, <1>22, <2>3 DEF WorkerPublish, Publish, WorkerRecords
    <3>3. /\ Ledger(vectors') = Ledger(vectors) \cup {g}
          /\ vectors'.gens[g] = [state |-> "staged", corpus |-> worker.corpus,
                                 digest |-> worker.digest, stored |-> FALSE]
          /\ \A h \in Ledger(vectors) : vectors'.gens[h] = vectors.gens[h]
      <4>1. vectors.current \in Ledger(vectors) \cup {0} /\ vectors.manifests \subseteq Ledger(vectors)
        BY <1>0 DEF Generations
      <4> QED
        BY <1>0, <3>1, <3>2, <4>1, StageIsLedger
    <3>4. vectors'.gens[g].corpus = worker.corpus /\ vectors'.gens[g].digest = worker.digest
      BY <3>3
    <3> HIDE DEF g
    <3>5. Stamped'
      BY <1>0, <2>1, <2>3, <3>1, <3>2, <3>3, <3>4, Corpus DEF Stamped
    <3>6. Asked'
      BY <1>0, <2>1, <2>2, <2>3, <3>2, <3>3, <3>4 DEF Asked, Taking
    <3> QED
      BY <3>5, <3>6 DEF Certain
  <2>4. CASE worker.pc # "stage"
    <3>1. worker.gen \in Ledger(vectors) /\ worker.gen \in Nat /\ worker'.gen = worker.gen
          /\ worker'.pc # "stage"
      BY <1>0, <1>22, <2>4 DEF WorkerPublish, Publish, Publication, WorkerRecords
    <3>2. /\ Ledger(vectors') = Ledger(vectors)
          /\ \A h \in Ledger(vectors) : /\ vectors'.gens[h].corpus = vectors.gens[h].corpus
                                        /\ vectors'.gens[h].digest = vectors.gens[h].digest
      <4>1. CASE worker.pc = "records"
        <5>1. vectors' = PutVectors(vectors, worker.gen)
          BY <1>22, <4>1 DEF WorkerPublish, Publish
        <5> QED
          BY <1>0, <3>1, <5>1, PutIsLedger
      <4>2. CASE worker.pc \in {"artifact", "mirror"}
        <5>1. vectors' \in {WriteArtifact(vectors, worker.gen), Mirror(vectors, worker.gen)}
          BY <1>22, <4>2 DEF WorkerPublish, Publish
        <5> QED
          BY <1>0, <3>1, <5>1, FilesAlone
      <4>3. CASE worker.pc = "activate"
        <5>1. vectors' = Activate(vectors, worker.gen)
          BY <1>22, <4>3 DEF WorkerPublish, Publish
        <5> QED
          BY <1>0, <3>1, <5>1, ActivateIsLedger
      <4> QED
        BY <2>1, <2>4, <4>1, <4>2, <4>3
    <3>3. Stamped'
      BY <1>0, <2>1, <3>1, <3>2 DEF Stamped
    <3>4. CASE worker.pc = "mirror"
      <4>1. /\ worker'.pc = IF worker.adopts THEN "check" ELSE "complete"
            /\ worker'.adopts = FALSE
            /\ worker.gen = vectors.active
            /\ vectors' = Mirror(vectors, worker.gen)
        BY <1>0, <1>22, <3>4 DEF WorkerPublish, Publish, Publication, WorkerRecords
      <4>2. vectors'.active = vectors.active
        BY <1>0, <4>1 DEF Mirror, IsLedger
      <4> QED
        BY <1>0, <2>1, <2>2, <3>1, <3>2, <3>3, <3>4, <4>1, <4>2 DEF Certain, Asked, Taking
    <3>5. CASE worker.pc # "mirror"
      <4>1. worker'.pc \in {"artifact", "activate", "mirror"} /\ worker'.adopts = worker.adopts
        BY <1>0, <1>22, <2>4, <3>5 DEF WorkerPublish, Publish, WorkerRecords
      <4> QED
        BY <1>0, <2>1, <2>2, <2>4, <3>1, <3>2, <3>3, <3>5, <4>1 DEF Certain, Asked, Taking
    <3> QED
      BY <3>4, <3>5
  <2> QED
    BY <2>3, <2>4
<1>23. ASSUME NEW g \in vectors.manifests, LoseArtifact(g) PROVE Certain'
  <2>1. vectors'.gens = vectors.gens /\ vectors'.active = vectors.active
    BY <1>0, <1>23 DEF LoseArtifact, IsLedger
  <2> QED
    BY <1>1, <1>23, <2>1 DEF LoseArtifact, diskVars, storeVars, buildVars
<1>24. CASE UNCHANGED vars
  BY <1>1, <1>24 DEF vars, diskVars, storeVars, buildVars
<1> QED
  BY Steps, <1>2, <1>3, <1>4, <1>5, <1>6, <1>7, <1>8, <1>9, <1>12, <1>13, <1>14, <1>15, <1>16,
     <1>17, <1>18, <1>19, <1>20, <1>21, <1>22, <1>23, <1>24

\* The ledger grows: what a generation is of never changes, and a complete one stays so.
LEMMA LedgerGrows ==
  ASSUME Whole, [Next]_vars, NEW g \in Ledger(vectors)
  PROVE  /\ g \in Ledger(vectors')
         /\ vectors'.gens[g].corpus = vectors.gens[g].corpus
         /\ Complete(vectors, g) => Complete(vectors', g)
<1>0. IsLedger(vectors) /\ vectors.active \in Nat /\ worker \in WorkerRecords
  BY DEF Whole, Types, IsLedger
<1>1. CASE vectors'.gens = vectors.gens
  BY <1>1 DEF Ledger, Complete
<1>2. CASE WorkerPublish
  <2>1. CASE worker.pc = "stage"
    <3>1. worker.corpus \in Corpora /\ worker.digest \in Digests
      BY <1>0, <2>1 DEF Whole, Publication, WorkerRecords
    <3> DEFINE n == NextGeneration(vectors)
    <3>2. vectors' = Stage(vectors, n, worker.corpus, worker.digest)
      BY <1>2, <2>1 DEF WorkerPublish, Publish
    <3>3. /\ n \notin Ledger(vectors)
          /\ Ledger(vectors') = Ledger(vectors) \cup {n}
          /\ vectors'.active = vectors.active /\ vectors'.previous = vectors.previous
          /\ vectors'.current = vectors.current /\ vectors'.manifests = vectors.manifests
          /\ vectors'.gens[n] = [state |-> "staged", corpus |-> worker.corpus,
                                 digest |-> worker.digest, stored |-> FALSE]
          /\ \A h \in Ledger(vectors) : vectors'.gens[h] = vectors.gens[h]
      <4>1. vectors.current \in Ledger(vectors) \cup {0} /\ vectors.manifests \subseteq Ledger(vectors)
        BY DEF Whole, Generations
      <4> QED
        BY <1>0, <3>1, <3>2, <4>1, StageIsLedger
    <3> HIDE DEF n
    <3> QED
      BY <3>3 DEF Complete
  <2>2. CASE worker.pc # "stage"
    <3>1. worker.gen \in Ledger(vectors) /\ worker.gen \in Nat
      BY <1>0, <1>2, <2>2 DEF WorkerPublish, Publish, Whole, Publication, WorkerRecords
    <3>2. CASE worker.pc = "records"
      <4>1. vectors' = PutVectors(vectors, worker.gen)
        BY <1>2, <3>2 DEF WorkerPublish, Publish
      <4>2. /\ Ledger(vectors') = Ledger(vectors)
            /\ \A h \in Ledger(vectors) : /\ vectors'.gens[h].corpus = vectors.gens[h].corpus
                                          /\ vectors'.gens[h].state = vectors.gens[h].state
        BY <1>0, <3>1, <4>1, PutIsLedger
      <4> QED
        BY <4>2 DEF Complete
    <3>3. CASE worker.pc \in {"artifact", "mirror"}
      <4>1. vectors' \in {WriteArtifact(vectors, worker.gen), Mirror(vectors, worker.gen)}
        BY <1>2, <3>3 DEF WorkerPublish, Publish
      <4> QED
        BY <1>0, <1>1, <3>1, <4>1, FilesAlone
    <3>4. CASE worker.pc = "activate"
      <4>1. vectors' = Activate(vectors, worker.gen)
        BY <1>2, <3>4 DEF WorkerPublish, Publish
      <4> DEFINE w == Activate(vectors, worker.gen)
      <4>2. /\ Ledger(w) = Ledger(vectors)
            /\ \A h \in Ledger(vectors) :
                 /\ w.gens[h].state = IF h = worker.gen THEN "complete"
                                                        ELSE vectors.gens[h].state
                 /\ w.gens[h].corpus = vectors.gens[h].corpus
        BY <1>0, <3>1, ActivateIsLedger
      <4>3. vectors' = w
        BY <4>1
      <4> HIDE DEF w
      <4> QED
        BY <4>2, <4>3 DEF Complete
    <3> QED
      BY <1>2, <2>2, <3>2, <3>3, <3>4 DEF WorkerPublish, Publish
  <2> QED
    BY <2>1, <2>2
<1>3. CASE vectors' = vectors \/ vectors' = Load(vectors)
  BY <1>0, <1>1, <1>3 DEF Load, WriteArtifact, IsLedger
<1>4. ASSUME NEW h \in vectors.manifests, LoseArtifact(h) PROVE vectors'.gens = vectors.gens
  BY <1>0, <1>4 DEF LoseArtifact, IsLedger
<1>5. CASE UNCHANGED vars
  BY <1>1, <1>5 DEF vars
<1>6. ASSUME NEW f \in Files, NEW r \in Revs \cup {Absent}, Edit(f, r) PROVE vectors' = vectors
  BY <1>6 DEF Edit
<1>7. ASSUME NEW S \in SUBSET Files, Flush(S) PROVE vectors' = vectors
  BY <1>7 DEF Flush
<1>8. ASSUME NEW t \in Notifiers, NEW f \in Files, Notify(t, f) PROVE vectors' = vectors
  BY <1>8 DEF Notify
<1>9. ASSUME NEW t \in Batchers, NEW f \in Files,
             Delta(t, f) \/ DeltaFails(t, f) \/ Plan(t, f)
      PROVE  vectors' = vectors
  BY <1>9 DEF Delta, DeltaFails, Plan
<1>10. ASSUME NEW t \in Batchers, PinBatch(t) \/ Apply(t) \/ JoinBatch(t) \/ Drop(t)
       PROVE  vectors' = vectors
  BY <1>10 DEF PinBatch, Apply, JoinBatch, Drop
<1>11. CASE WarmRequest \/ RequestRebuild \/ RebuildStep \/ Scan \/ ScanFails \/ PinBuild \/ Reap
            \/ JoinBuild \/ DropBuild \/ Finish
  BY <1>3, <1>11
  DEF WarmRequest, RequestRebuild, RebuildStep, Scan, ScanFails, PinBuild, Reap, JoinBuild,
      DropBuild, Finish
<1>12. CASE LoadResident \/ WorkerOpen \/ WorkerCheck
  BY <1>3, <1>12 DEF LoadResident, WorkerOpen, WorkerCheck
<1>13. CASE WorkerStart \/ WorkerComplete \/ WorkerFails \/ WorkerDies \/ Kill
  BY <1>3, <1>13 DEF WorkerStart, WorkerComplete, WorkerFails, WorkerDies, Kill
<1> QED
  BY Steps, <1>1, <1>2, <1>3, <1>4, <1>5, <1>6, <1>7, <1>8, <1>9, <1>10, <1>11, <1>12, <1>13

\* A row changes only for the worker's job, and is new only for it.
LEMMA OneJobChanges ==
  ASSUME Whole, [Next]_vars, NEW c \in DOMAIN jobs'
  PROVE  \/  c \in DOMAIN jobs /\ jobs'[c] = jobs[c]
         \/
            /\ c = worker.job
            /\ worker.pc \notin {"off", "done", "dead"}
            /\ jobs'[c].state = "completed" => WorkerComplete
<1>1. CASE UNCHANGED jobs
  BY <1>1
<1>2. ASSUME NEW s \in JobStates, NEW r, NEW n, SetJob(worker.job, s, r, n),
             worker.pc \notin {"off", "done", "dead"},
             s = "completed" => WorkerComplete
      PROVE  \/ c \in DOMAIN jobs /\ jobs'[c] = jobs[c]
             \/ /\ c = worker.job
                /\ worker.pc \notin {"off", "done", "dead"}
                /\ jobs'[c].state = "completed" => WorkerComplete
  <2>1. jobs' = [d \in DOMAIN jobs \cup {worker.job} |->
                   IF d = worker.job THEN [state |-> s, retries |-> r, starts |-> n] ELSE jobs[d]]
    BY <1>2 DEF SetJob
  <2>2. [state |-> s, retries |-> r, starts |-> n].state = s
    OBVIOUS
  <2> QED
    BY <1>2, <2>1, <2>2
<1>3. {"running", "pending", "failed", "completed", "removed"} \subseteq JobStates
  BY DEF JobStates
<1>4. CASE WorkerOpen
  BY <1>1, <1>2, <1>3, <1>4 DEF WorkerOpen
<1>5. CASE WorkerStart \/ WorkerComplete
  BY <1>2, <1>3, <1>5 DEF WorkerStart, WorkerComplete
<1>6. CASE WorkerFails
  <2>1. PICK s \in {"failed", "pending"} :
          SetJob(worker.job, s, worker.retries + 1, Starts(worker.job))
    BY <1>6 DEF WorkerFails
  <2>2. worker.pc \notin {"off", "done", "dead"} /\ s \in JobStates /\ s # "completed"
    BY <1>3, <1>6 DEF WorkerFails
  <2> QED
    BY <1>2, <2>1, <2>2
<1>7. CASE UNCHANGED vars
  BY <1>1, <1>7 DEF vars
<1>8. ASSUME NEW f \in Files, NEW r \in Revs \cup {Absent}, Edit(f, r) PROVE UNCHANGED jobs
  BY <1>8 DEF Edit
<1>9. ASSUME NEW S \in SUBSET Files, Flush(S) PROVE UNCHANGED jobs
  BY <1>9 DEF Flush
<1>10. ASSUME NEW t \in Notifiers, NEW f \in Files, Notify(t, f) PROVE UNCHANGED jobs
  BY <1>10 DEF Notify
<1>11. ASSUME NEW t \in Batchers, NEW f \in Files,
              Delta(t, f) \/ DeltaFails(t, f) \/ Plan(t, f)
       PROVE  UNCHANGED jobs
  BY <1>11 DEF Delta, DeltaFails, Plan
<1>12. ASSUME NEW t \in Batchers, PinBatch(t) \/ Apply(t) \/ JoinBatch(t) \/ Drop(t)
       PROVE  UNCHANGED jobs
  BY <1>12 DEF PinBatch, Apply, JoinBatch, Drop
<1>13. CASE WarmRequest \/ RequestRebuild \/ RebuildStep \/ Scan \/ ScanFails \/ PinBuild \/ Reap
            \/ JoinBuild \/ DropBuild \/ Finish
  BY <1>1, <1>13
  DEF WarmRequest, RequestRebuild, RebuildStep, Scan, ScanFails, PinBuild, Reap, JoinBuild,
      DropBuild, Finish
<1>14. CASE LoadResident \/ WorkerCheck \/ WorkerPublish \/ WorkerDies \/ Kill
  BY <1>1, <1>14 DEF LoadResident, WorkerCheck, WorkerPublish, WorkerDies, Kill
<1>15. ASSUME NEW g \in vectors.manifests, LoseArtifact(g) PROVE UNCHANGED jobs
  BY <1>15 DEF LoseArtifact
<1> QED
  BY Steps, <1>1, <1>4, <1>5, <1>6, <1>7, <1>8, <1>9, <1>10, <1>11, <1>12, <1>13, <1>14, <1>15

LEMMA AlwaysCertain ==
  ASSUME Restamps = FALSE
  PROVE  Spec => [](Whole /\ Certain)
<1>1. Init => Certain
  <2> SUFFICES ASSUME Init PROVE Certain
    OBVIOUS
  <2>1. Ledger(vectors) = {}
    BY DEF Init, NoVectors, Ledger
  <2>2. worker.pc = "off" /\ worker.digest = Cold /\ worker.taken = Cold /\ build.pc = "scan"
    BY DEF Init, NoWorker, NoBuild
  <2>3. \A f \in Files : touched[f] <= edits
    BY DEF Init
  <2> QED
    BY <2>1, <2>2, <2>3 DEF Certain, Stamped, Asked, Taking, Exposed
<1> QED
  BY <1>1, CertainNext, AlwaysWhole, PTL DEF Spec

(***************************************************************************)
(* "Acknowledgements emitted only after their represented state is         *)
(* durable": a worker marks its job completed only when vectors of the     *)
(* corpus it was asked for are published, through crashes, retries and     *)
(* adopted artifacts, if every digest is of the contents it is put on.     *)
(***************************************************************************)
THEOREM CompletedJobsArePublished ==
  ASSUME Restamps = FALSE
  PROVE  Spec => []CompletedIsPublished
<1>1. Init => CompletedIsPublished
  BY DEF Init, CompletedIsPublished, Interrupted
<1>2. (Whole /\ Certain) /\ CompletedIsPublished /\ [Next]_vars => CompletedIsPublished'
  <2> SUFFICES ASSUME Whole, Certain, CompletedIsPublished, [Next]_vars,
                      NEW c \in DOMAIN jobs', jobs'[c].state = "completed"
               PROVE  \E g \in Ledger(vectors') :
                        Complete(vectors', g) /\ vectors'.gens[g].corpus = c
    BY DEF CompletedIsPublished
  <2>1. \E g \in Ledger(vectors) : Complete(vectors, g) /\ vectors.gens[g].corpus = c
    <3>1. CASE c \in DOMAIN jobs /\ jobs'[c] = jobs[c]
      BY <3>1 DEF CompletedIsPublished
    <3>2. CASE c = worker.job /\ WorkerComplete
      <4>1. worker.pc = "complete" /\ vectors.active # 0
        BY <3>2 DEF WorkerComplete, Whole, Publication
      <4>2. vectors.gens[vectors.active].corpus = c
        BY <3>2, <4>1 DEF Certain, Asked
      <4>3. vectors.active \in Ledger(vectors) /\ Complete(vectors, vectors.active)
        BY <4>1 DEF Whole, Generations
      <4> QED
        BY <4>2, <4>3
    <3> QED
      BY <3>1, <3>2, OneJobChanges
  <2> QED
    BY <2>1, LedgerGrows
<1> QED
  BY <1>1, <1>2, AlwaysCertain, PTL DEF Spec

=============================================================================
