-------------------------- MODULE MCDeliveryEngine --------------------------
(* Small instances of DeliveryEngine for TLC. *)
EXTENDS DeliveryEngine

\* Every attempt goes to the same endpoint.
OneEndpoint == [a \in Attempts |-> CHOOSE e \in Endpoints : TRUE]
=============================================================================
