----------------------------- MODULE MCSkipList -----------------------------
(***************************************************************************)
(* Up to three nodes on two levels: a block of two records of one key has  *)
(* a neighbour, and a tall node stands before or behind others.            *)
(***************************************************************************)
EXTENDS SkipList, TLC

MCPredicates == { Equality(1), KeyRange(2, 3), AllRecords }

\* Addresses are interchangeable.
Addresses == Permutations(Node)
=============================================================================
