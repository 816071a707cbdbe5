----------------------------- MODULE GrantScope -----------------------------
(***************************************************************************)
(* Scopes: the policy checks the proxy applies to a request                *)
(* (internal/service/policy_enforcer.go), and Narrows, the check a grant   *)
(* passes against its pairing's maximal bound (internal/service/narrow.go).*)
(* The two are separate code; what makes a grant safe is that they agree.  *)
(*                                                                         *)
(* An allow list is a set: order and repetition do not change a verdict.   *)
(***************************************************************************)
EXTENDS PathPattern

CONSTANTS
    Method,               \* HTTP methods, compared case-sensitively
    ByteCount,            \* body sizes and limits
    DefaultMaxBodyBytes   \* defaults.DefaultMaxBodyBytes

ASSUME ByteCountAssumption ==
    /\ ByteCount \subseteq Int
    /\ DefaultMaxBodyBytes \in ByteCount
    /\ DefaultMaxBodyBytes > 0

Policy == [methods : SUBSET Method, paths : SUBSET PatternText, maxBody : ByteCount]

\* What a scope judges of a request; size is -1 without a Content-Length.
Request == [method : Method, path : RequestPath, size : ByteCount]

-----------------------------------------------------------------------------
(***************************************************************************)
(* The runtime side: Enforcer.CheckMethod, CheckPath and CheckBodySize.    *)
(* An empty list or a zero limit restricts nothing; a pattern that does    *)
(* not parse matches nothing.                                              *)
(***************************************************************************)
CheckMethod(method, policy) == policy.methods = {} \/ method \in policy.methods

CheckPath(raw, policy) ==
    \/ policy.paths = {}
    \/ \E text \in policy.paths : Parses(text) /\ Matches(ParsePathPattern(text), raw)

CheckBodySize(size, policy) ==
    \/ size < 0
    \/ policy.maxBody = 0
    \/ size <= policy.maxBody

Permits(policy, req) ==
    /\ CheckMethod(req.method, policy)
    /\ CheckPath(req.path, policy)
    /\ CheckBodySize(req.size, policy)

-----------------------------------------------------------------------------
(***************************************************************************)
(* The grant side: Narrows and the default a stored policy gets.           *)
(***************************************************************************)
\* Mutant of MethodsNarrow: no methods at all is taken for the fewest.
MethodsNarrowUnlisted(req, bound) == bound = {} \/ req \subseteq bound

MethodsNarrow(req, bound) ==
    \/ bound = {}
    \/ req # {} /\ req \subseteq bound

PathsNarrow(req, bound) ==
    \/ bound = {}
    \/ /\ req # {}
       /\ ValidatePathPatterns(bound)
       /\ \A r \in req :
            /\ Parses(r)
            /\ \E b \in bound : ContainsPattern(ParsePathPattern(b), ParsePathPattern(r))

\* Mutant of BodyNarrow: no limit is taken for the lowest.
BodyNarrowUnlimited(req, bound) == bound = 0 \/ req <= bound

BodyNarrow(req, bound) ==
    \/ bound = 0
    \/ req # 0 /\ req <= bound

Narrows(requested, bound) ==
    /\ MethodsNarrow(requested.methods, bound.methods)
    /\ PathsNarrow(requested.paths, bound.paths)
    /\ BodyNarrow(requested.maxBody, bound.maxBody)

\* Policy.ApplyDefaults: an unset limit becomes 10MB.
ApplyDefaults(policy) ==
    IF policy.maxBody = 0 THEN [policy EXCEPT !.maxBody = DefaultMaxBodyBytes] ELSE policy
=============================================================================
