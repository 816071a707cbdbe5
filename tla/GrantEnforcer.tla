---------------------------- MODULE GrantEnforcer ----------------------------
(***************************************************************************)
(* The enforcer that judges a proposed grant against the universe          *)
(* (internal/grant/enforcer.go), with the request a control client sends   *)
(* (internal/control/protocol.go).  It never changes after startup.        *)
(***************************************************************************)
EXTENDS GrantUniverse

CONSTANTS
    Configured,     \* [services.*] of the config file
    Grantable,      \* [[grantable]] of the config file
    GrantRequest    \* the grants clients ask for

Proposal ==
    [host : HostPattern, cred : Credential, auth : AuthRef,
     header : HeaderName \cup {NoName}, placeholder : Token \cup {NoName}, policy : Policy]

ASSUME ConfigAssumption ==
    /\ Configured \subseteq Service /\ ConfigAccepted(Configured)
    /\ Grantable \subseteq Pairing /\ UniverseAccepted(Grantable)
    /\ GrantRequest \subseteq Proposal

\* toService: a request cannot carry the operator-only fields.
ToService(req) ==
    [host        |-> req.host,
     cred        |-> req.cred,
     auth        |-> CanonicalAuthRef(req.auth, req.header),
     header      |-> req.header,
     placeholder |-> req.placeholder,
     policy      |-> req.policy,
     drop        |-> {},
     strip       |-> {}]

OperatorOnlyFieldsEmpty(svc) == svc.drop = {} /\ svc.strip = {}

\* Mutant of Authorize: the scope is not compared.
AuthorizeIdentity(svc) ==
    /\ OperatorOnlyFieldsEmpty(svc)
    /\ ValidatePathPatterns(svc.policy.paths)
    /\ \E pairing \in Grantable : IdentityOf(pairing) = IdentityOf(svc)

Authorize(svc) ==
    /\ OperatorOnlyFieldsEmpty(svc)
    /\ ValidatePathPatterns(svc.policy.paths)
    /\ \E pairing \in Grantable :
          /\ IdentityOf(pairing) = IdentityOf(svc)
          /\ Narrows(svc.policy, pairing.bound)

\* What an accepted grant stores: the defaults are applied after Authorize.
Granted(req) == [ToService(req) EXCEPT !.policy = ApplyDefaults(@)]

-----------------------------------------------------------------------------
(***************************************************************************)
(* What the comparison is for.  A service lies within the universe when a  *)
(* pairing with its identity permits every request that it permits; this   *)
(* is said of requests, not of how Narrows compares two scopes.            *)
(***************************************************************************)
WithinUniverse(svc) ==
    /\ OperatorOnlyFieldsEmpty(svc)
    /\ \E pairing \in Grantable :
          /\ IdentityOf(pairing) = IdentityOf(svc)
          /\ \A q \in Request : Permits(svc.policy, q) => Permits(pairing.bound, q)

\* The entries grants may make, as the ledger takes them.
Admissible ==
    {[key |-> ServiceKey(req.host), service |-> Granted(req)] :
        req \in {r \in GrantRequest : ValidService(Granted(r)) /\ WithinUniverse(Granted(r))}}
=============================================================================
