------------------------- MODULE MCMemoryLifecycle --------------------------
(* A run, an approval and a GitHub event, and two requests at a time. *)
EXTENDS MemoryLifecycle, TLC

CONSTANTS c1, c2
MCSymmetry == Permutations({c1, c2})
=============================================================================
