------------------------------ MODULE MCCache ------------------------------
(* The cache with interchangeable keys and readers *)
EXTENDS Cache, TLC

Symmetry == Permutations(Keys) \cup Permutations(Readers)
=============================================================================
