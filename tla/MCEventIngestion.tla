--------------------------- MODULE MCEventIngestion ---------------------------
(* Small instances of EventIngestion for TLC.  Every event type has the same   *)
(* name: t1 and t2 are two rows the first application may create one after     *)
(* the other, t3 is the other application's.                                   *)
EXTENDS EventIngestion, TLC

CONSTANTS a1, a2, e1, e2, t1, t2, t3, alice, order

MCAppOf       == [x \in Endpoints \cup Types |-> IF x = t3 THEN a2 ELSE a1]
MCNameOf      == [t \in Types |-> order]
MCRecipientOf == [e \in Endpoints |-> IF e = e1 THEN alice ELSE Everyone]
Interchangeable == Permutations(Requests)
=============================================================================
