---------------------------- MODULE MCCompaction ----------------------------
(* Compaction for TLC: keys are interchangeable.                           *)
EXTENDS Compaction, TLC

Symmetry == Permutations(Keys)
=============================================================================
