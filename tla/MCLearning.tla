---------------------------- MODULE MCLearning ----------------------------
(* Learning with every combination of addresses in a response. *)
EXTENDS Learning

AllIpSets == SUBSET IpKinds
=============================================================================
