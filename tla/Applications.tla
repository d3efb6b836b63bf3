---------------------------- MODULE Applications ----------------------------
(***************************************************************************)
(* Tenants and how a request is given one.  POST /applications draws a     *)
(* random key and stores it under a unique index; every protected request  *)
(* is looked up by the key it carries before its handler runs.  An         *)
(* application is never changed or removed afterwards.  Who may know a key *)
(* is not modelled: GET /applications/:id, which answers with the row, key *)
(* included, needs none.                                                   *)
(***************************************************************************)
EXTENDS FiniteSets

CONSTANTS
    Apps,     \* application ids, as gen_random_uuid hands them out
    Keys,     \* the API keys that generateAPIKey can draw
    NoKey,    \* api_key of an application that does not exist yet
    NoApp     \* the application of a request that is not authenticated

ASSUME ApplicationsAssumption == NoKey \notin Keys /\ NoApp \notin Apps

VARIABLE keyOf    \* the applications table: the key of each application

Exists(a) == keyOf[a] # NoKey

KeyFree(k) == \A a \in Apps : keyOf[a] # k

\* POST /applications: the row is stored, whether or not the reply arrives.
CreateApplication(a, k) ==
    /\ ~Exists(a)
    /\ KeyFree(k)
    /\ keyOf' = [keyOf EXCEPT ![a] = k]

\* A key that is taken is a 409 (unique_violation) and changes nothing.
CreateConflicts(k) ==
    /\ ~KeyFree(k)
    /\ UNCHANGED keyOf

\* GetApplicationByAPIKey: the applications a key may be looked up as, none for
\* a 401.
AuthenticateAPIKey(k) ==
    LET found == {a \in Apps : keyOf[a] = k}
    IN  IF found = {} THEN {NoApp} ELSE found

InitApplications == keyOf = [a \in Apps |-> NoKey]
=============================================================================
