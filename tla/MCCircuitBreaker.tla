-------------------------- MODULE MCCircuitBreaker --------------------------
(* Instances of the circuit breaker for TLC. *)
EXTENDS CircuitBreaker, TLC

(* Streams that issue every kind of query are interchangeable. *)
Symmetry == Permutations(Gated \cap Learning \cap Bypass)
=============================================================================
