---------------------------- MODULE GrantsClient ----------------------------
(***************************************************************************)
(* The other end of the control socket: Client.do of internal/control,     *)
(* which chaperone mcp calls once for each tool call of an agent           *)
(* (internal/mcpgrants).  A call that waits ten seconds, or is canceled,   *)
(* gives up; its handler in the daemon does not look at that and goes on.  *)
(***************************************************************************)
EXTENDS ControlPlane

CONSTANTS MaxGivenUp    \* bound on the calls whose client gives up

ASSUME GivenUpAssumption == MaxGivenUp \in Nat

VARIABLES
    client,   \* how far the client of each call is
    before    \* the calls on its key that were told before it was sent

clientVars == <<client, before>>

ClientTypeOK ==
    /\ client \in [Call -> {"idle", "waiting", "told", "gaveUp"}]
    /\ before \in [Call -> SUBSET Call]

ClientInit ==
    /\ Init
    /\ client = [c \in Call |-> "idle"]
    /\ before = [c \in Call |-> {}]

Send(c) ==
    /\ client[c] = "idle"
    /\ client' = [client EXCEPT ![c] = "waiting"]
    /\ before' = [before EXCEPT ![c] = {d \in Call : client[d] = "told" /\ KeyOf(d) = KeyOf(c)}]
    /\ UNCHANGED vars

\* The daemon's goroutine, which outlives the client's interest.
Serve(c) == client[c] # "idle" /\ Step(c) /\ UNCHANGED clientVars

\* The answer, a result or the daemon's verbatim error, is relayed.
Told(c) ==
    /\ client[c] = "waiting" /\ pc[c] = "answered"
    /\ client' = [client EXCEPT ![c] = "told"]
    /\ UNCHANGED <<vars, before>>

\* The daemon cannot be reached, or the time is up.
GaveUp(c) ==
    /\ client[c] = "waiting"
    /\ Cardinality({d \in Call : client[d] = "gaveUp"}) < MaxGivenUp
    /\ client' = [client EXCEPT ![c] = "gaveUp"]
    /\ UNCHANGED <<vars, before>>

ClientIdle ==
    /\ \A c \in Call : client[c] = "told" \/ (client[c] = "gaveUp" /\ pc[c] = "answered")
    /\ UNCHANGED <<vars, clientVars>>

ClientNext == (\E c \in Call : Send(c) \/ Serve(c) \/ Told(c) \/ GaveUp(c)) \/ ClientIdle

ClientSpec == ClientInit /\ [][ClientNext]_<<vars, clientVars>>

-----------------------------------------------------------------------------
Sent(c) == client[c] # "idle"

(***************************************************************************)
(* "The host becomes injection-eligible at once", a revoke makes "the      *)
(* proxy stop injecting": what an agent was told last is how it is.  When  *)
(* every other call on a key was told before this one was sent, and this   *)
(* one has succeeded, the registry holds what it asked for.  A call that   *)
(* gave up was not told: it may still be applied, after any later one.     *)
(***************************************************************************)
LastWord(c) == \A d \in Call \ {c} : Sent(d) /\ KeyOf(d) = KeyOf(c) => d \in before[c]

AnswersInOrder ==
    \A c \in Call : client[c] = "told" /\ LastWord(c) =>
        CASE outcome[c] = "ok" -> services[KeyOf(c)] = Granted(asked[c].req)
          [] outcome[c] \in {"revoked", "absent"} -> services[KeyOf(c)] = NoService
          [] OTHER -> TRUE

(***************************************************************************)
(* The types of the clients, and what an agent may rely on.                *)
(***************************************************************************)
ClientInv == ClientTypeOK /\ AnswersInOrder
=============================================================================
