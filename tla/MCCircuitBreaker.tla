-------------------------- MODULE MCCircuitBreaker --------------------------
(* Small instances of CircuitBreaker for TLC. *)
EXTENDS CircuitBreaker

OneOwner == [e \in Endpoints |-> CHOOSE app \in Apps : TRUE]

\* Every body.
AllPatches == Patch
=============================================================================
