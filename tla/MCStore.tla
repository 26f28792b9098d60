------------------------------ MODULE MCStore ------------------------------
(* Instances of the store for TLC. *)
EXTENDS Store, TLC

AnyFile == SUBSET Domains
EmptyFile == {{}}

Symmetry ==
  Permutations(Domains) \cup Permutations(Learners)
=============================================================================
