----------------------------- MODULE MCScheduler -----------------------------
(***************************************************************************)
(* Scheduler on small rings.                                               *)
(***************************************************************************)
EXTENDS Scheduler, TLC

\* Nothing tells ECs apart.
Symmetry == Permutations(EC)
==============================================================================
