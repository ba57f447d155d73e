------------------------- MODULE VectorGenerations -------------------------
(***************************************************************************)
(* The vector generations of the semantic index on the disk (tldr-core     *)
(* semantic/generation.rs, redb_store.rs and vector_store.rs).             *)
(*                                                                         *)
(* A generation lives on two media.  The redb ledger holds its record, its *)
(* vectors and the pointers active and previous, each change a durable     *)
(* transaction.  The usearch artifact of a generation is a set of files    *)
(* that ends with its manifest; CURRENT is a mirror for older readers.     *)
(*                                                                         *)
(* The operators are the steps of a publication: a crash may come between  *)
(* any two of them.  A corpus stands for the vectors of its chunks, and    *)
(* the digest for the modification times and sizes of its files.           *)
(***************************************************************************)
EXTENDS Naturals, FiniteSets

NoVectors == [gens |-> [g \in {} |-> g], active |-> 0, previous |-> 0,
              current |-> 0, manifests |-> {}]

Ledger(v) == DOMAIN v.gens

Complete(v, g) == g \in Ledger(v) /\ v.gens[g].state = "complete"

\* Mutation: the ledger is not asked.
NextGenerationOfFiles(v) ==
  LET used == v.manifests \cup {v.current}
  IN  CHOOSE n \in {g + 1 : g \in used} : \A g \in used : g < n

\* next_generation of the directory, moved past the numbers the ledger knows.
NextGeneration(v) ==
  LET used == v.manifests \cup {v.current} \cup Ledger(v)
  IN  CHOOSE n \in {g + 1 : g \in used} : \A g \in used : g < n

Stage(v, g, corpus, digest) ==
  [v EXCEPT !.gens = [h \in Ledger(v) \cup {g} |->
     IF h = g THEN [state |-> "staged", corpus |-> corpus, digest |-> digest, stored |-> FALSE]
              ELSE v.gens[h]]]

\* put_generation_vectors, until the last batch is in.
PutVectors(v, g) == [v EXCEPT !.gens[g].stored = TRUE]

\* write_generation: index, sidecar and, last, the manifest.
WriteArtifact(v, g) == [v EXCEPT !.manifests = @ \cup {g}]

\* complete_and_activate_generation.
Activate(v, g) ==
  [v EXCEPT !.gens[g].state = "complete",
            !.active = g,
            !.previous = IF v.active = 0 THEN @ ELSE v.active]

\* activate_current.
Mirror(v, g) == [v EXCEPT !.current = g]

\* GenerationManager::load answers for the active generation.
Loads(v) == Complete(v, v.active) /\ v.gens[v.active].stored

\* A missing or corrupt artifact is written again from the ledger's vectors.
Load(v) == WriteArtifact(v, v.active)
ActiveCorpus(v) == v.gens[v.active].corpus
=============================================================================
