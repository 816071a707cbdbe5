---------------------------- MODULE ControlPlane ----------------------------
(***************************************************************************)
(* The control plane (internal/control): every call of a control client is *)
(* served by a goroutine of its own, which authorizes, changes the         *)
(* registry, writes the audit trail and answers.  Registry and audit       *)
(* logger have a lock each, and nothing holds both: calls interleave       *)
(* between the two.                                                        *)
(***************************************************************************)
EXTENDS GrantEnforcer, FiniteSets

CONSTANTS Call     \* the calls clients make, each of one grant or one revoke

VARIABLES
    services,   \* Registry.services
    asked,      \* what each call asks, fixed before it arrives
    pc,         \* how far its goroutine is
    outcome,    \* what Grant or Revoke will return
    trail,      \* the entries of the audit log, in order
    unlogged    \* calls whose audit write failed, which logAudit reports

vars == <<services, asked, pc, outcome, trail, unlogged>>

Asked ==
    [op : {"grant"}, req : GrantRequest] \cup [op : {"revoke"}, host : HostPattern]

\* "ok", "revoked" and "absent" are 200, "rejected" is 403, "bad" is 400 and
\* "internal" is 500.
Outcome == {"none", "ok", "rejected", "internal", "bad", "revoked", "absent"}

Event(c) ==
    CASE outcome[c] = "ok"       -> "grant_applied"
      [] outcome[c] = "rejected" -> "grant_rejected"
      [] OTHER                   -> "grant_revoked"

Entry == [call : Call, event : {"grant_applied", "grant_rejected", "grant_revoked"}]

TypeOK ==
    /\ services \in Services
    /\ asked \in [Call -> Asked]
    /\ pc \in [Call -> {"start", "apply", "log", "answered"}]
    /\ outcome \in [Call -> Outcome]
    /\ trail \in Seq(Entry)
    /\ unlogged \subseteq Call

Init ==
    /\ services = Setup(Configured)
    /\ asked \in [Call -> Asked]
    /\ pc = [c \in Call |-> "start"]
    /\ outcome = [c \in Call |-> "none"]
    /\ trail = <<>>
    /\ unlogged = {}

-----------------------------------------------------------------------------
\* A call goes on to "next" and will return "result".
Continue(c, next, result) ==
    /\ pc' = [pc EXCEPT ![c] = next]
    /\ outcome' = [outcome EXCEPT ![c] = result]

Arrives(c, op) == pc[c] = "start" /\ asked[c].op = op

\* Mutant of GrantAuthorized: the old entry is taken out first.
GrantReplacing(c) ==
    /\ Arrives(c, "grant")
    /\ Authorize(ToService(asked[c].req))
    /\ services' = Unregister(services, asked[c].req.host)
    /\ Continue(c, "apply", "none")
    /\ UNCHANGED <<asked, trail, unlogged>>

\* Mutant of GrantRejected: only what is applied is audited.
GrantRejectedSilently(c) ==
    /\ Arrives(c, "grant")
    /\ ~Authorize(ToService(asked[c].req))
    /\ Continue(c, "answered", "rejected")
    /\ UNCHANGED <<services, asked, trail, unlogged>>

(***************************************************************************)
(* Grant: toService and Authorize on the policy as asked.                  *)
(***************************************************************************)
GrantAuthorized(c) ==
    /\ Arrives(c, "grant")
    /\ Authorize(ToService(asked[c].req))
    /\ Continue(c, "apply", "none")
    /\ UNCHANGED <<services, asked, trail, unlogged>>

GrantRejected(c) ==
    /\ Arrives(c, "grant")
    /\ ~Authorize(ToService(asked[c].req))
    /\ Continue(c, "log", "rejected")
    /\ UNCHANGED <<services, asked, trail, unlogged>>

\* Mutant of GrantApplied: an entry that is there stays, as Register leaves it.
GrantRegistered(c) ==
    /\ pc[c] = "apply"
    /\ ValidService(Granted(asked[c].req))
    /\ services' = IF ServiceKey(asked[c].req.host) \in Live(services)
                     THEN services ELSE Upsert(services, Granted(asked[c].req))
    /\ Continue(c, "log", "ok")
    /\ UNCHANGED <<asked, trail, unlogged>>

\* ApplyDefaults and Upsert.
GrantApplied(c) ==
    /\ pc[c] = "apply"
    /\ ValidService(Granted(asked[c].req))
    /\ services' = Upsert(services, Granted(asked[c].req))
    /\ Continue(c, "log", "ok")
    /\ UNCHANGED <<asked, trail, unlogged>>

\* Upsert refuses the service: Grant returns without an audit entry.
GrantFailed(c) ==
    /\ pc[c] = "apply"
    /\ ~ValidService(Granted(asked[c].req))
    /\ Continue(c, "answered", "internal")
    /\ UNCHANGED <<services, asked, trail, unlogged>>

\* Mutant of Revoked: whether there was an entry is not asked.
RevokedAnyway(c) ==
    /\ Arrives(c, "revoke")
    /\ asked[c].host.labels # <<>>
    /\ services' = Unregister(services, asked[c].host)
    /\ Continue(c, "log", "revoked")
    /\ UNCHANGED <<asked, trail, unlogged>>

(***************************************************************************)
(* Revoke: Unregister fails only when there is no entry, and that is a     *)
(* success with revoked = false.                                           *)
(***************************************************************************)
Revoked(c) ==
    /\ Arrives(c, "revoke")
    /\ asked[c].host.labels # <<>>
    /\ services' = Unregister(services, asked[c].host)
    /\ Continue(c, "log",
                IF ServiceKey(asked[c].host) \in Live(services) THEN "revoked" ELSE "absent")
    /\ UNCHANGED <<asked, trail, unlogged>>

RevokeRefused(c) ==
    /\ Arrives(c, "revoke")
    /\ asked[c].host.labels = <<>>
    /\ Continue(c, "answered", "bad")
    /\ UNCHANGED <<services, asked, trail, unlogged>>

(***************************************************************************)
(* logAudit, then the answer.  A failed write is reported in the           *)
(* operational log and the call succeeds all the same.                     *)
(***************************************************************************)
Audited(c) ==
    /\ pc[c] = "log"
    /\ trail' = Append(trail, [call |-> c, event |-> Event(c)])
    /\ Continue(c, "answered", outcome[c])
    /\ UNCHANGED <<services, asked, unlogged>>

AuditFailed(c) ==
    /\ pc[c] = "log"
    /\ unlogged' = unlogged \cup {c}
    /\ Continue(c, "answered", outcome[c])
    /\ UNCHANGED <<services, asked, trail>>

Step(c) ==
    \/ GrantAuthorized(c)
    \/ GrantRejected(c)
    \/ GrantApplied(c)
    \/ GrantFailed(c)
    \/ Revoked(c)
    \/ RevokeRefused(c)
    \/ Audited(c)
    \/ AuditFailed(c)

\* The daemon idles once every call is answered.
Idle == (\A c \in Call : pc[c] = "answered") /\ UNCHANGED vars

Next == (\E c \in Call : Step(c)) \/ Idle

Spec == Init /\ [][Next]_vars

-----------------------------------------------------------------------------
(***************************************************************************)
(* Every live entry is under its service's own key, and is configured or   *)
(* lies within a pairing a human approved: no interleaving of calls, and   *)
(* no scope Narrows lets through, makes the proxy inject beyond it.        *)
(***************************************************************************)
RegistryWithinUniverse ==
    \A key \in Live(services) :
        /\ ServiceKey(services[key].host) = key
        /\ services[key] = Setup(Configured)[key] \/ WithinUniverse(services[key])

\* And the types are right.
RegistryInv == TypeOK /\ RegistryWithinUniverse

\* The key a call acts on.
KeyOf(c) == ServiceKey(IF asked[c].op = "grant" THEN asked[c].req.host ELSE asked[c].host)

(***************************************************************************)
(* What calls answered accounts for what they did.  An entry that differs  *)
(* from the configuration was made so by a call that succeeded: Upsert by  *)
(* a grant of exactly that service, Unregister by a revoke.  And a revoke  *)
(* answers revoked = true for an entry it took out, once: for no host are  *)
(* there more of them than entries that were ever put in, however the      *)
(* calls race between Unregister's test and its delete.                    *)
(***************************************************************************)
MadeBy(c, key) ==
    KeyOf(c) = key /\ IF services[key] = NoService
                        THEN outcome[c] = "revoked"
                        ELSE outcome[c] = "ok" /\ services[key] = Granted(asked[c].req)

CallsEnded(result, key) == {c \in Call : outcome[c] = result /\ KeyOf(c) = key}

RegistryAccounted ==
    \A key \in HostKey :
        /\ services[key] # Setup(Configured)[key] => \E c \in Call : MadeBy(c, key)
        /\ Cardinality(CallsEnded("revoked", key))
             <= Cardinality(CallsEnded("ok", key))
                + IF Setup(Configured)[key] = NoService THEN 0 ELSE 1

EntriesOf(c) == {i \in DOMAIN trail : trail[i].call = c}

(***************************************************************************)
(* A call that changed the registry, or was refused by the enforcer, is    *)
(* answered only after logAudit wrote its entry, once and with the right   *)
(* event, or reported that it could not.                                   *)
(***************************************************************************)
AnswersAudited ==
    \A c \in Call :
        /\ Cardinality(EntriesOf(c)) <= 1
        /\ \A i \in EntriesOf(c) : trail[i].event = Event(c)
        /\ pc[c] = "answered" /\ outcome[c] \notin {"internal", "bad"} =>
              (c \in unlogged) # (EntriesOf(c) # {})

(***************************************************************************)
(* Grant: "the host becomes injection-eligible at once".  A request to the *)
(* host of a live entry, in whatever case, finds that entry, unless its    *)
(* pattern carries a port, which serviceKey keeps and Lookup drops.        *)
(***************************************************************************)
Eligible(key) == Lookup(services, services[key].host) = services[key]

LiveHostEligible == \A key \in Live(services) : key.port = NoPort => Eligible(key)

\* api.go: "Every outcome -- accepted or rejected -- is audited".
EveryOutcomeAudited ==
    \A c \in Call :
        pc[c] = "answered" /\ asked[c].op = "grant" => c \in unlogged \/ EntriesOf(c) # {}

\* The control plane implements the ledger: Upsert and Unregister are its
\* steps, everything else stutters.
Promise == INSTANCE GrantLedger WITH
    Key <- HostKey, Nothing <- NoService, Initial <- Setup(Configured), live <- services

LedgerImplemented == Promise!Spec
=============================================================================
