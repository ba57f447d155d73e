--------------------------- MODULE MCIdleShutdown ---------------------------
(***************************************************************************)
(* A warm and a delta batch in flight together, and a timeout of two ticks *)
(* of which work that is asked for takes at most one to begin.             *)
(***************************************************************************)
EXTENDS IdleShutdown

CONSTANTS warm, batch

WarmAndBatch == {warm, batch}
=============================================================================
