------------------------------- MODULE MCReplay -------------------------------
(* Small instances of Replay for TLC.  The endpoints are the first             *)
(* application's and so is v1; v2 is an event of another application whose      *)
(* type has the same name.                                                     *)
EXTENDS Replay, TLC

CONSTANTS a1, a2, v1, v2, order, alice

MCAppOf       == [x \in Events \cup Endpoints |-> IF x = v2 THEN a2 ELSE a1]
MCTypeOf      == [v \in Events |-> order]
MCRecipientOf == [x \in Events \cup Endpoints |-> IF x \in Events THEN alice ELSE Everyone]

All == [status |-> AnyStatus, endpoint |-> AnyEndpoint, from |-> 0, to |-> MaxCalls]
MCFilters ==
    {All, [All EXCEPT !.status = "failed"], [All EXCEPT !.to = 0]}
Interchangeable == Permutations(Handlers) \cup Permutations(Endpoints)
=============================================================================
