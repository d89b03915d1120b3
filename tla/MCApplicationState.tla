-------------------------- MODULE MCApplicationState --------------------------
(***************************************************************************)
(* Instances of ApplicationState for TLC.  Threads and batches are model   *)
(* values that nothing tells apart, so the safety runs permute them.       *)
(***************************************************************************)
EXTENDS ApplicationState, TLC

Symmetry == Permutations(Workers) \cup Permutations(Batches)
===============================================================================
