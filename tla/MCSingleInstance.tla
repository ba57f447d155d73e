-------------------------- MODULE MCSingleInstance --------------------------
(***************************************************************************)
(* Daemons, stops and clients each run once and are interchangeable.       *)
(***************************************************************************)
EXTENDS SingleInstance, TLC

CONSTANTS d1, d2, d3

TwoDaemons == {d1, d2}
ThreeDaemons == {d1, d2, d3}
InstanceSymmetry == Permutations(Daemons)
=============================================================================
