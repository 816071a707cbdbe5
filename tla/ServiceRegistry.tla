--------------------------- MODULE ServiceRegistry ---------------------------
(***************************************************************************)
(* The live set of services (internal/service/registry_impl.go).  Its      *)
(* mutex makes each operation one step, so the operations are functions of *)
(* the map and the components that share it supply the steps.              *)
(*                                                                         *)
(* A host is the sequence of its labels and its port: "api.x.com:443" is   *)
(* [labels |-> <<"api", "x", "com">>, port |-> 443].                       *)
(***************************************************************************)
EXTENDS GrantScope

CONSTANTS
    Label,          \* DNS labels, in every spelling that is written
    LowerLabel,     \* strings.ToLower on one label
    HostPattern,    \* the host patterns of configs, grants and revokes
    RequestHost,    \* the hosts requests name
    NoPort,         \* a host without ":port"
    Credential,     \* credential refs, such as "env:NAME"
    HeaderName,
    NoName,         \* an empty header name or placeholder
    Token,          \* the values auth headers carry, placeholders among them
    DropText,       \* drop patterns of static services
    NoService       \* no entry in the map

Wild == "*"

HostText == [labels : Seq(Label \cup {Wild}), port : Int \cup {NoPort}]

ASSUME HostAssumption ==
    /\ LowerLabel \in [Label \cup {Wild} -> Label \cup {Wild}]
    /\ HostPattern \subseteq HostText
    /\ RequestHost \subseteq HostText

\* An auth strategy as written: "bearer", "header", or "header:<name>".
AuthRef == [scheme : STRING, name : HeaderName \cup {NoName}]

Service ==
    [host        : HostPattern,
     cred        : Credential,
     auth        : AuthRef,
     header      : HeaderName \cup {NoName},
     placeholder : Token \cup {NoName},
     policy      : Policy,
     drop        : SUBSET DropText,
     strip       : SUBSET HeaderName]

ASSUME NoServiceAssumption == NoService \notin Service

\* CanonicalAuthRef: "header" with a separate name is "header:<name>".
CanonicalAuthRef(auth, name) ==
    IF auth.scheme = "header" /\ auth.name = NoName THEN [auth EXCEPT !.name = name] ELSE auth

\* "header:" names the empty header, for which HeaderStrategy.Apply fails.
Nameless(auth) == auth.scheme = "header" /\ auth.name = ""

-----------------------------------------------------------------------------
LowerLabels(labels) == [i \in DOMAIN labels |-> LowerLabel[labels[i]]]

\* serviceKey folds case but keeps a port; normalizeHostname drops it.
ServiceKey(pattern) == [labels |-> LowerLabels(pattern.labels), port |-> pattern.port]

\* Mutant of NormalizeHostname: the case of the host is kept.
NormalizeHostnameCase(host) == [labels |-> host.labels, port |-> NoPort]

NormalizeHostname(host) == [labels |-> LowerLabels(host.labels), port |-> NoPort]

HostKey == {ServiceKey(pattern) : pattern \in HostPattern}

\* Registry.services, total: a key without an entry maps to NoService.
Services == [HostKey -> Service \cup {NoService}]

Live(services) == {key \in HostKey : services[key] # NoService}

\* Mutant of IsWildcardMatch: any number of labels stands for the "*".
IsWildcardSuffix(key, host) ==
    /\ Len(key.labels) > 1
    /\ key.labels[1] = Wild
    /\ IsSuffix(Tail(key.labels), host.labels)
    /\ key.port = NoPort

\* isWildcardMatch: exactly one label stands for the "*".
IsWildcardMatch(key, host) ==
    /\ Len(key.labels) > 1
    /\ key.labels[1] = Wild
    /\ Len(host.labels) = Len(key.labels)
    /\ \A i \in 2..Len(key.labels) : host.labels[i] = key.labels[i]
    /\ key.port = NoPort

(***************************************************************************)
(* Lookup: an exact entry first, else whichever wildcard entry the walk    *)
(* over the map meets first.  The map has no order, so the answer is any   *)
(* member of LookupKeys; {} is "service not found".                        *)
(***************************************************************************)
LookupKeys(services, host) ==
    LET normalized == NormalizeHostname(host) IN
    IF normalized \in Live(services)
      THEN {normalized}
      ELSE {key \in Live(services) : IsWildcardMatch(key, normalized)}

Lookup(services, host) ==
    IF LookupKeys(services, host) = {}
      THEN NoService
      ELSE services[CHOOSE key \in LookupKeys(services, host) : TRUE]

\* Service.Validate, as far as a request can still fail it: the references
\* of a service that matched a pairing are not empty.
ValidService(svc) == svc.policy.maxBody >= 0

\* Upsert adds or replaces under one lock: the key is never absent between.
Upsert(services, svc) == [services EXCEPT ![ServiceKey(svc.host)] = svc]

Unregister(services, pattern) == [services EXCEPT ![ServiceKey(pattern)] = NoService]

(***************************************************************************)
(* Setup: the registry the configured services leave behind.  Config.      *)
(* Validate and Register refuse a config with a negative limit, a pattern  *)
(* that does not parse or two services under one key, and the daemon does  *)
(* not start.                                                              *)
(***************************************************************************)
FromConfig(svc) ==
    [svc EXCEPT !.auth   = CanonicalAuthRef(@, svc.header),
                !.policy = ApplyDefaults(@)]

ConfigAccepted(configured) ==
    /\ \A svc \in configured : ValidService(svc) /\ ValidatePathPatterns(svc.policy.paths)
    /\ \A s, t \in configured : ServiceKey(s.host) = ServiceKey(t.host) => s = t

Setup(configured) ==
    [key \in HostKey |->
        IF \E svc \in configured : ServiceKey(svc.host) = key
          THEN FromConfig(CHOOSE svc \in configured : ServiceKey(svc.host) = key)
          ELSE NoService]
=============================================================================
