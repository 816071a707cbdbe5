---------------------------- MODULE GrantUniverse ----------------------------
(***************************************************************************)
(* The pairings a human approved, which are all that can ever be granted   *)
(* (Pairing and NewEnforcer in internal/grant/enforcer.go).                *)
(***************************************************************************)
EXTENDS ServiceRegistry

Pairing ==
    [host : HostPattern, cred : Credential, auth : AuthRef,
     header : HeaderName \cup {NoName}, bound : Policy]

\* identityOf, of a pairing or of a service.
IdentityOf(x) ==
    [cred |-> x.cred, host |-> ServiceKey(x.host), auth |-> CanonicalAuthRef(x.auth, x.header)]

\* NewEnforcer: no two pairings share an identity, and every bound is in the
\* vocabulary, which it is when it narrows itself.  Config.Validate has
\* refused negative limits.
UniverseAccepted(grantable) ==
    /\ \A g, h \in grantable : IdentityOf(g) = IdentityOf(h) => g = h
    /\ \A g \in grantable : Narrows(g.bound, g.bound) /\ g.bound.maxBody >= 0
=============================================================================
