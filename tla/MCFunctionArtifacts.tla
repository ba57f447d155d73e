------------------------- MODULE MCFunctionArtifacts -------------------------
(***************************************************************************)
(* One file, so that every thread contends for its function; two contents, *)
(* so that two revisions of it are in flight.                              *)
(***************************************************************************)
EXTENDS FunctionArtifacts, TLC

CONSTANTS r1, r2

MCRevs == {r1, r2}
MCSymmetry == Permutations(MCRevs) \cup Permutations(Threads)
=============================================================================
