------------------------- MODULE MCGenerationRefresh -------------------------
(***************************************************************************)
(* Two files of one language and one of another: a delta of the one finds  *)
(* its neighbour's documents rebuilt with it, and the other language kept. *)
(***************************************************************************)
EXTENDS GenerationRefresh, TLC

CONSTANTS a, b, c, r1

TwoFiles == {a, c}
ThreeFiles == {a, b, c}
MCLanguage == [f \in Files |-> IF f = c THEN "python" ELSE "rust"]

OneFile == {c}
OneRev == {r1}
RefreshSymmetry == Permutations(Revs) \cup Permutations(Notifiers) \cup Permutations(Builds)
=============================================================================
