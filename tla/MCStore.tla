------------------------------ MODULE MCStore -------------------------------
(* Store for TLC: keys and ingesting threads are interchangeable.          *)
EXTENDS Store, TLC

Symmetry == Permutations(Keys) \cup Permutations(Ingesters)
=============================================================================
