-------------------------- MODULE MCCircuitBreaker --------------------------
(* Model values and bounds for CircuitBreaker. *)
EXTENDS CircuitBreaker, TLC

(* Callers are interchangeable. *)
Symmetry == Permutations(Calls)
=============================================================================
