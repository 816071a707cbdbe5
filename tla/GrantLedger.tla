----------------------------- MODULE GrantLedger -----------------------------
(***************************************************************************)
(* What the control plane promises about the live set, with no handlers,   *)
(* no checks and no audit: it starts as the configured services, an entry  *)
(* changes in one step, and what a grant puts there is admissible.         *)
(***************************************************************************)
CONSTANTS
    Key,          \* the keys entries are stored under
    Nothing,      \* no entry
    Initial,      \* the live set at startup
    Admissible    \* the entries a grant may make: [key, service]

VARIABLE live

Init == live = Initial

Activate(grant) == live' = [live EXCEPT ![grant.key] = grant.service]

TearDown(key) == live' = [live EXCEPT ![key] = Nothing]

Next ==
    \/ \E grant \in Admissible : Activate(grant)
    \/ \E key \in Key : TearDown(key)

Spec == Init /\ [][Next]_live
=============================================================================
