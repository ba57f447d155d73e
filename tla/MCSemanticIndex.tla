--------------------------- MODULE MCSemanticIndex ---------------------------
(***************************************************************************)
(* One file is enough for a corpus to change, to return and to be stale;   *)
(* the batch of the executor and one notification overlap the build.       *)
(***************************************************************************)
EXTENDS SemanticIndex, TLC

CONSTANTS a, b, r1, r2, r3

OneFile == {a}
TwoFiles == {a, b}
TwoRevs == {r1, r2}
ThreeRevs == {r1, r2, r3}
SemanticSymmetry == Permutations(Revs)
=============================================================================
