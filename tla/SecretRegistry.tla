---------------------------- MODULE SecretRegistry ----------------------------
(***************************************************************************)
(* Where credentials come from (internal/secrets/registry.go):             *)
(* PreloadSecrets at startup, then Fetch by concurrent requests, the cache *)
(* between them, and the recorder, whose redactor asks for ResolvedValues  *)
(* each time.                                                              *)
(*                                                                         *)
(* Behind a reference is a file or a keychain item that its owner may      *)
(* change at any time.  A provider that fails, knows no provider of that   *)
(* name or returns only whitespace has Nothing.                            *)
(***************************************************************************)
CONSTANTS
    Ref,         \* credential references
    Preloaded,   \* those of configured services; the others are of grants
    Value,       \* secrets
    Nothing,
    Request      \* requests that need a credential

ASSUME SecretAssumption == Preloaded \subseteq Ref /\ Nothing \notin Value

VARIABLES
    source,    \* what each provider would return
    cache,     \* Registry.cache
    phase,     \* of the daemon
    toLoad,    \* references PreloadSecrets has not tried
    loadFailed,
    pc,        \* where each request is
    ref,       \* the reference it asks for
    secret,    \* the secret it has fetched
    changed,   \* history: references whose source changed during a fetch of it
    leaked     \* history: requests whose secret was recorded in the clear

vars == <<source, cache, phase, toLoad, loadFailed, pc, ref, secret, changed, leaked>>
startup  == <<phase, toLoad, loadFailed>>
external == <<source, changed>>

Missing(c)  == pc[c] \in {"missed", "fetched"}
Holding(c) == pc[c] \in {"holding", "recorded"}

TypeOK ==
    /\ source \in [Ref -> Value \cup {Nothing}]
    /\ cache \in [Ref -> Value \cup {Nothing}]
    /\ phase \in {"preload", "serving", "refused"}
    /\ toLoad \subseteq Preloaded /\ loadFailed \in BOOLEAN
    /\ pc \in [Request -> {"idle", "check", "missed", "fetched", "holding", "recorded", "failed"}]
    /\ ref \in [Request -> Ref]
    /\ secret \in [Request -> Value \cup {Nothing}]
    /\ \A c \in Request : secret[c] \in IF pc[c] = "fetched" \/ Holding(c) THEN Value ELSE {Nothing}
    /\ changed \subseteq Ref /\ leaked \subseteq {c \in Request : pc[c] = "recorded"}

Init ==
    /\ source \in [Ref -> Value \cup {Nothing}]
    /\ cache = [r \in Ref |-> Nothing]
    /\ phase = "preload" /\ toLoad = Preloaded /\ loadFailed = FALSE
    /\ pc = [c \in Request |-> "idle"]
    /\ ref \in [Request -> Ref]
    /\ secret = [c \in Request |-> Nothing]
    /\ changed = {}
    /\ leaked = {}

Goto(c, next) == pc' = [pc EXCEPT ![c] = next]

\* ResolvedValues, as the redactor uses it.
ResolvedValues == {cache[r] : r \in Ref} \ {Nothing}

-----------------------------------------------------------------------------
\* Setup: one reference after the other, a failure does not stop the rest.
Preload(r) ==
    /\ phase = "preload" /\ r \in toLoad
    /\ toLoad' = toLoad \ {r}
    /\ cache' = [cache EXCEPT ![r] = source[r]]
    /\ loadFailed' = (loadFailed \/ source[r] = Nothing)
    /\ UNCHANGED <<external, phase, pc, ref, secret, leaked>>

\* Mutant of Preloads: a secret that is missing now will be fetched later.
PreloadsLenient ==
    /\ phase = "preload" /\ toLoad = {}
    /\ phase' = "serving"
    /\ UNCHANGED <<external, cache, toLoad, loadFailed, pc, ref, secret, leaked>>

Preloads ==
    /\ phase = "preload" /\ toLoad = {}
    /\ phase' = IF loadFailed THEN "refused" ELSE "serving"
    /\ UNCHANGED <<external, cache, toLoad, loadFailed, pc, ref, secret, leaked>>

Arrive(c) ==
    /\ phase = "serving" /\ pc[c] = "idle"
    /\ Goto(c, "check")
    /\ UNCHANGED <<external, startup, cache, ref, secret, leaked>>

-----------------------------------------------------------------------------
(***************************************************************************)
(* Fetch: the read lock for the cache, no lock for the provider, the write *)
(* lock for the cache.                                                     *)
(***************************************************************************)
Hit(c) ==
    /\ pc[c] = "check" /\ cache[ref[c]] # Nothing
    /\ secret' = [secret EXCEPT ![c] = cache[ref[c]]]
    /\ Goto(c, "holding")
    /\ UNCHANGED <<external, startup, cache, ref, leaked>>

Miss(c) ==
    /\ pc[c] = "check" /\ cache[ref[c]] = Nothing
    /\ Goto(c, "missed")
    /\ UNCHANGED <<external, startup, cache, ref, secret, leaked>>

\* Mutant of Provide: the secret is returned, caching it is left out.
ProvideUncached(c) ==
    /\ pc[c] = "missed" /\ source[ref[c]] # Nothing
    /\ secret' = [secret EXCEPT ![c] = source[ref[c]]]
    /\ Goto(c, "holding")
    /\ UNCHANGED <<external, startup, cache, ref, leaked>>

Provide(c) ==
    /\ pc[c] = "missed" /\ source[ref[c]] # Nothing
    /\ secret' = [secret EXCEPT ![c] = source[ref[c]]]
    /\ Goto(c, "fetched")
    /\ UNCHANGED <<external, startup, cache, ref, leaked>>

\* Mutant of ProvideFails: the reference is forgotten.
ProvideFailsEvicting(c) ==
    /\ pc[c] = "missed" /\ source[ref[c]] = Nothing
    /\ cache' = [cache EXCEPT ![ref[c]] = Nothing]
    /\ Goto(c, "failed")
    /\ UNCHANGED <<external, startup, ref, secret, leaked>>

ProvideFails(c) ==
    /\ pc[c] = "missed" /\ source[ref[c]] = Nothing
    /\ Goto(c, "failed")
    /\ UNCHANGED <<external, startup, cache, ref, secret, leaked>>

Store(c) ==
    /\ pc[c] = "fetched"
    /\ cache' = [cache EXCEPT ![ref[c]] = secret[c]]
    /\ Goto(c, "holding")
    /\ UNCHANGED <<external, startup, ref, secret, leaked>>

\* The upstream echoes the secret, and the response is recorded.
Record(c) ==
    /\ pc[c] = "holding"
    /\ leaked' = IF secret[c] \in ResolvedValues THEN leaked ELSE leaked \cup {c}
    /\ Goto(c, "recorded")
    /\ UNCHANGED <<external, startup, cache, ref, secret>>

\* The owner of a secret rotates it, removes it or brings it back.
Rotate(r, value) ==
    /\ source[r] # value
    /\ source' = [source EXCEPT ![r] = value]
    /\ changed' = changed \cup {ref[c] : c \in {d \in Request : ref[d] = r /\ Missing(d)}}
    /\ UNCHANGED <<startup, cache, pc, ref, secret, leaked>>

Step(c) ==
    \/ Arrive(c)
    \/ Hit(c)
    \/ Miss(c)
    \/ Provide(c)
    \/ ProvideFails(c)
    \/ Store(c)
    \/ Record(c)

Next ==
    \/ \E r \in Ref : Preload(r)
    \/ Preloads
    \/ \E c \in Request : Step(c)
    \/ \E r \in Ref, value \in Value \cup {Nothing} : Rotate(r, value)

Spec == Init /\ [][Next]_vars

-----------------------------------------------------------------------------
(***************************************************************************)
(* A daemon that serves holds the secrets of its configured services from  *)
(* then on: no request fails for want of one, each is given the same, and  *)
(* a rotation shows after a restart only.                                  *)
(***************************************************************************)
PreloadedSteady ==
    /\ phase = "serving" => \A r \in Preloaded : cache[r] # Nothing
    /\ \A c \in Request : ref[c] \in Preloaded =>
         /\ pc[c] # "failed"
         /\ Holding(c) => secret[c] = cache[ref[c]]

(***************************************************************************)
(* Whatever was injected is redacted from what is recorded afterwards, as  *)
(* long as no secret changes while it is first fetched.                    *)
(***************************************************************************)
RecordedClean == \A c \in leaked : ref[c] \in changed

(***************************************************************************)
(* A secret that was handed out stays with the registry: a later request   *)
(* is given it, unless another fetch was already under way, and a failing  *)
(* provider takes nothing away.                                            *)
(***************************************************************************)
Stays(r) ==
    cache[r] # Nothing /\ cache'[r] # cache[r] =>
        /\ cache'[r] # Nothing
        /\ r \in changed /\ \E c \in Request : ref[c] = r /\ pc[c] = "fetched"

SecretsStay == [][\A r \in Ref : Stays(r)]_vars

(***************************************************************************)
(* The types: who fetches or holds a secret has one.  And configured       *)
(* secrets are steady.                                                     *)
(***************************************************************************)
SecretInv == TypeOK /\ PreloadedSteady
=============================================================================
