---- MODULE MCDeliveryLog ----
(* Two tenants; only the first has a log: an event with two attempts and one with another. *)
EXTENDS DeliveryLog, TLC

CONSTANTS a1, a2, e1, e2, v1, v2, x1, x2, x3

MCAppOf == v1 :> a1 @@ v2 :> a1
MCOwner == e1 :> a1 @@ e2 :> a1
MCEventOf == x1 :> v1 @@ x2 :> v1 @@ x3 :> v2
MCEndpointOf == x1 :> e1 @@ x2 :> e2 @@ x3 :> e1

Everything == [status |-> AnyStatus, endpoint |-> AnyEndpoint, from |-> 0, to |-> MaxTime]
MCFilters == {Everything,
              [Everything EXCEPT !.status = "pending", !.endpoint = e1, !.to = 2]}

KeySymmetry == Permutations(Keys)
====
