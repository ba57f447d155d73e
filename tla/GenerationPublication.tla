------------------------- MODULE GenerationPublication -------------------------
(***************************************************************************)
(* What the artifact store and its manager promise their readers: "Each    *)
(* successful bulk or delta ingestion publishes one immutable generation"  *)
(* and "every request pins either the complete old generation or the       *)
(* complete new generation" (docs/RESIDENT_GRAPH_SNAPSHOT.md).             *)
(*                                                                         *)
(* Batches, checkpoints, jobs, the call graph's record and partial decoding*)
(* are below this level: a generation appears whole, and the resident      *)
(* snapshot is always one of the published ones.                           *)
(***************************************************************************)
EXTENDS Naturals, Sequences

CONSTANT Nothing   \* no snapshot is resident

VARIABLES published,  \* the contents of the generations, by number
          resident    \* what a request pins: a generation and its contents

pubVars == <<published, resident>>

PubInit == published = <<>> /\ resident = Nothing

\* A generation is published: the next number, and every earlier one is kept.
PublishNext ==
  /\ Len(published') = Len(published) + 1
  /\ SubSeq(published', 1, Len(published)) = published
  /\ UNCHANGED resident

\* The newest generation becomes resident, whole.
MakeResident ==
  /\ published # <<>>
  /\ resident' = [gen |-> Len(published), contents |-> published[Len(published)]]
  /\ UNCHANGED published

\* The daemon is gone: its memory is lost, the generations are not.
Forget == resident' = Nothing /\ UNCHANGED published

PubNext == PublishNext \/ MakeResident \/ Forget

PubSpec == PubInit /\ [][PubNext]_pubVars
=============================================================================
