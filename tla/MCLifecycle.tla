----------------------------- MODULE MCLifecycle -----------------------------
(***************************************************************************)
(* Two ids, two objects, two records: one creation may fail before another *)
(* succeeds, and every copy may stop half-way.                             *)
(***************************************************************************)
EXTENDS Lifecycle, TLC

Symmetry == Permutations(Slots) \cup Permutations(Records)
=============================================================================
