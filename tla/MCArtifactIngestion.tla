------------------------- MODULE MCArtifactIngestion -------------------------
(***************************************************************************)
(* Instances of ArtifactIngestion for TLC: two files in batches of one     *)
(* give a job two checkpoints to be interrupted at; three files in batches *)
(* of two give it a partial batch.                                         *)
(***************************************************************************)
EXTENDS ArtifactIngestion, TLC

CONSTANTS r1, r2

MCFiles == 1..2
MCThreeFiles == 1..3
MCRevs == {r1, r2}

\* Revisions are only compared for equality.
RevisionSymmetry == Permutations(MCRevs)
=============================================================================
