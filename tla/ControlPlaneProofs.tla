------------------------- MODULE ControlPlaneProofs -------------------------
(***************************************************************************)
(* The control plane's invariants for every configuration, every universe  *)
(* of pairings, every set of grants and any number of concurrent calls.    *)
(***************************************************************************)
EXTENDS GrantsClient, GrantProofs, FiniteSetTheorems

\* A call that reached Upsert was authorized: the enforcer never changes, so
\* the check still holds when the step it guards is taken.
AuthorizedFirst ==
    \A c \in Call :
        pc[c] = "apply" => asked[c].op = "grant" /\ Authorize(ToService(asked[c].req))

IInv == TypeOK /\ RegistryWithinUniverse /\ AuthorizedFirst

\* A grant is asked with a request, a revoke with a host pattern.
LEMMA AskedType ==
    ASSUME TypeOK, NEW c \in Call
    PROVE  /\ asked[c].op = "grant"  => asked[c].req \in GrantRequest
           /\ asked[c].op = "revoke" => asked[c].host \in HostPattern
BY DEF TypeOK, Asked

\* A call's own step keeps the types of where it is and what it returns.
LEMMA ContinueType ==
    ASSUME TypeOK, NEW c \in Call,
           NEW next \in {"start", "apply", "log", "answered"}, NEW result \in Outcome,
           Continue(c, next, result)
    PROVE  /\ pc' \in [Call -> {"start", "apply", "log", "answered"}]
           /\ outcome' \in [Call -> Outcome]
           /\ pc'[c] = next
           /\ \A d \in Call \ {c} : pc'[d] = pc[d]
BY DEF TypeOK, Continue

\* No client has called anything yet.
LEMMA InitIInv == Init => IInv
<1>1. Init => TypeOK
  BY SetupType DEF Init, TypeOK, Outcome
<1>2. Init => RegistryWithinUniverse
  BY SetupType DEF Init, RegistryWithinUniverse, Live
<1>3. Init => AuthorizedFirst
  BY DEF Init, AuthorizedFirst
<1>4. QED
  BY <1>1, <1>2, <1>3 DEF IInv

\* A step that leaves the registry alone and moves its call past Authorize
\* only when the call was authorized keeps the whole invariant.
LEMMA QuietStep ==
    ASSUME IInv, NEW c \in Call,
           NEW next \in {"start", "apply", "log", "answered"}, NEW result \in Outcome,
           Continue(c, next, result),
           next = "apply" => asked[c].op = "grant" /\ Authorize(ToService(asked[c].req)),
           UNCHANGED <<services, asked>>, trail' \in Seq(Entry), unlogged' \subseteq Call
    PROVE  IInv'
<1>1. TypeOK'
  BY ContinueType DEF IInv, TypeOK
<1>2. RegistryWithinUniverse'
  BY DEF IInv, RegistryWithinUniverse, Live
<1>3. AuthorizedFirst'
  BY ContinueType DEF IInv, AuthorizedFirst
<1>4. QED
  BY <1>1, <1>2, <1>3 DEF IInv

\* So does a step that changes the entry of one key to an entry the
\* invariant allows there.
LEMMA RegistryStep ==
    ASSUME IInv, NEW c \in Call, NEW result \in Outcome, Continue(c, "log", result),
           NEW key \in HostKey, NEW entry \in Service \cup {NoService},
           services' = [services EXCEPT ![key] = entry],
           entry # NoService => ServiceKey(entry.host) = key /\ WithinUniverse(entry),
           UNCHANGED <<asked, trail, unlogged>>
    PROVE  IInv'
<1>1. TypeOK'
  <2>1. services' \in Services
    BY DEF IInv, TypeOK, Services
  <2>2. QED
    BY <2>1, ContinueType DEF IInv, TypeOK
<1>2. RegistryWithinUniverse'
  <2>1. SUFFICES ASSUME NEW k \in HostKey, services'[k] # NoService
                 PROVE  /\ ServiceKey(services'[k].host) = k
                        /\ \/ services'[k] = Setup(Configured)[k]
                           \/ WithinUniverse(services'[k])
    BY DEF RegistryWithinUniverse, Live
  <2>2. CASE k = key
    BY <2>1, <2>2 DEF IInv, TypeOK, Services
  <2>3. CASE k # key
    <3>1. services'[k] = services[k]
      BY <2>3 DEF IInv, TypeOK, Services
    <3>2. QED
      BY <2>1, <3>1 DEF IInv, RegistryWithinUniverse, Live
  <2>4. QED
    BY <2>2, <2>3
<1>3. AuthorizedFirst'
  BY ContinueType DEF IInv, AuthorizedFirst
<1>4. QED
  BY <1>1, <1>2, <1>3 DEF IInv

\* A step of one client.
LEMMA StepIInv ==
    ASSUME IInv, NEW c \in Call, Step(c)
    PROVE  IInv'
<1>1. CASE GrantAuthorized(c)
  BY <1>1, QuietStep DEF GrantAuthorized, Arrives, Outcome, IInv, TypeOK
<1>2. CASE GrantRejected(c)
  BY <1>2, QuietStep DEF GrantRejected, Outcome, IInv, TypeOK
<1>3. CASE GrantApplied(c)
  <2>1. asked[c].req \in GrantRequest /\ Authorize(ToService(asked[c].req))
    BY <1>3, AskedType DEF GrantApplied, IInv, AuthorizedFirst
  <2>. DEFINE granted == Granted(asked[c].req)
              key     == ServiceKey(granted.host)
  <2>2. granted \in Service /\ WithinUniverse(granted)
    BY <2>1, GrantedType, GrantedWithin
  <2>3. key \in HostKey
    BY <2>2, KeyType DEF Service
  <2>4. services' = [services EXCEPT ![key] = granted]
    BY <1>3 DEF GrantApplied, Upsert
  <2>5. Continue(c, "log", "ok") /\ UNCHANGED <<asked, trail, unlogged>>
    BY <1>3 DEF GrantApplied
  <2>6. "ok" \in Outcome
    BY DEF Outcome
  <2>. HIDE DEF granted, key
  <2>7. ServiceKey(granted.host) = key
    BY DEF key
  <2>8. QED
    BY <2>2, <2>3, <2>4, <2>5, <2>6, <2>7, RegistryStep
<1>4. CASE GrantFailed(c)
  BY <1>4, QuietStep DEF GrantFailed, Outcome, IInv, TypeOK
<1>5. CASE Revoked(c)
  <2>. DEFINE result == IF ServiceKey(asked[c].host) \in Live(services) THEN "revoked" ELSE "absent"
  <2>1. asked[c].host \in HostPattern
    BY <1>5, AskedType DEF Revoked, Arrives, IInv
  <2>2. ServiceKey(asked[c].host) \in HostKey
    BY <2>1, KeyType
  <2>3. result \in Outcome
    BY DEF Outcome
  <2>4. /\ services' = [services EXCEPT ![ServiceKey(asked[c].host)] = NoService]
        /\ Continue(c, "log", result)
        /\ UNCHANGED <<asked, trail, unlogged>>
    BY <1>5 DEF Revoked, Unregister
  <2>. HIDE DEF result
  <2>5. QED
    BY <2>2, <2>3, <2>4, RegistryStep
<1>6. CASE RevokeRefused(c)
  BY <1>6, QuietStep DEF RevokeRefused, Outcome, IInv, TypeOK
<1>7. CASE Audited(c)
  <2>1. outcome[c] \in Outcome
    BY DEF IInv, TypeOK
  <2>2. trail' \in Seq(Entry)
    BY <1>7 DEF Audited, Event, Entry, IInv, TypeOK
  <2>3. QED
    BY <1>7, <2>1, <2>2, QuietStep DEF Audited, IInv, TypeOK
<1>8. CASE AuditFailed(c)
  <2>1. outcome[c] \in Outcome
    BY DEF IInv, TypeOK
  <2>2. QED
    BY <1>8, <2>1, QuietStep DEF AuditFailed, IInv, TypeOK
<1>9. QED
  BY <1>1, <1>2, <1>3, <1>4, <1>5, <1>6, <1>7, <1>8 DEF Step

\* Nothing happens.
LEMMA StutterIInv ==
    ASSUME IInv, UNCHANGED vars
    PROVE  IInv'
BY DEF vars, IInv, TypeOK, RegistryWithinUniverse, Live, AuthorizedFirst

\* The inductive invariant, in every state.
LEMMA Invariance == Spec => []IInv
<1>1. IInv /\ [Next]_vars => IInv'
  BY StepIInv, StutterIInv DEF Next, Idle
<1>2. QED
  BY InitIInv, <1>1, PTL DEF Spec

(***************************************************************************)
(* The state is well typed, whatever the calls and their order.            *)
(***************************************************************************)
THEOREM TypeCorrect == Spec => []TypeOK
<1>1. IInv => TypeOK
  BY DEF IInv
<1>2. QED
  BY Invariance, <1>1, PTL

(***************************************************************************)
(* No interleaving of grants and revokes puts into the registry a service  *)
(* that permits more than the configuration, or than the pairing a human   *)
(* approved for its credential, host and strategy.                         *)
(***************************************************************************)
THEOREM UniverseSafe == Spec => []RegistryInv
<1>1. IInv => RegistryInv
  BY DEF IInv, RegistryInv
<1>2. QED
  BY Invariance, <1>1, PTL

(***************************************************************************)
(* A live entry without a port in its pattern is what a lookup of its host *)
(* finds: serviceKey and normalizeHostname agree on every such host.       *)
(***************************************************************************)
THEOREM HostEligible == Spec => []LiveHostEligible
<1>1. ASSUME IInv, NEW key \in Live(services), key.port = NoPort
      PROVE  Lookup(services, services[key].host) = services[key]
  <2>1. ServiceKey(services[key].host) = key
    BY <1>1 DEF IInv, RegistryWithinUniverse
  <2>2. NormalizeHostname(services[key].host) = key
    BY <1>1, <2>1 DEF ServiceKey, NormalizeHostname
  <2>3. LookupKeys(services, services[key].host) = {key}
    BY <1>1, <2>2 DEF LookupKeys
  <2>4. QED
    BY <2>3 DEF Lookup
<1>2. IInv => LiveHostEligible
  BY <1>1 DEF LiveHostEligible, Eligible
<1>3. QED
  BY Invariance, <1>2, PTL

(***************************************************************************)
(* Calls that go through checks, two locks and an audit write look, to the *)
(* registry's readers, like the ledger's single steps.                     *)
(***************************************************************************)
LEMMA StepRefines ==
    ASSUME IInv, [Next]_vars
    PROVE  [Promise!Next]_services
<1>1. SUFFICES ASSUME NEW c \in Call, Step(c)
               PROVE  [Promise!Next]_services
  BY DEF Next, Idle, vars
<1>2. CASE GrantApplied(c)
  <2>. DEFINE req == asked[c].req
              grant == [key |-> ServiceKey(req.host), service |-> Granted(req)]
  <2>1. req \in GrantRequest /\ Authorize(ToService(req))
    BY <1>2, AskedType DEF GrantApplied, IInv, AuthorizedFirst
  <2>2. WithinUniverse(Granted(req)) /\ ValidService(Granted(req))
    BY <1>2, <2>1, GrantedWithin DEF GrantApplied
  <2>3. grant \in Admissible
    BY <2>1, <2>2 DEF Admissible
  <2>4. services' = [services EXCEPT ![ServiceKey(req.host)] = Granted(req)]
    BY <1>2, <2>1, GrantedType DEF GrantApplied, Upsert
  <2>5. Promise!Activate(grant)
    BY <2>4 DEF Promise!Activate
  <2>. HIDE DEF grant
  <2>6. QED
    BY <2>3, <2>5 DEF Promise!Next
<1>3. CASE Revoked(c)
  <2>1. ServiceKey(asked[c].host) \in HostKey
    BY <1>3, AskedType, KeyType DEF Revoked, Arrives, IInv
  <2>2. Promise!TearDown(ServiceKey(asked[c].host))
    BY <1>3 DEF Revoked, Unregister, Promise!TearDown
  <2>3. QED
    BY <2>1, <2>2 DEF Promise!Next
<1>4. CASE ~GrantApplied(c) /\ ~Revoked(c)
  BY <1>1, <1>4 DEF Step, GrantAuthorized, GrantRejected, GrantFailed, RevokeRefused,
                    Audited, AuditFailed
<1>5. QED
  BY <1>2, <1>3, <1>4

\* The control plane implements the ledger: a grant is applied, or revoked, in
\* one step of the handler.
THEOREM LedgerRefined == Spec => LedgerImplemented
<1>1. Init => Promise!Init
  BY DEF Init, Promise!Init
<1>2. QED
  BY <1>1, Invariance, StepRefines, PTL DEF Spec, LedgerImplemented, Promise!Spec
-----------------------------------------------------------------------------
\* The trail, as one call sees it: nothing of it is there before its answer,
\* then one entry at most, with its event.
Trailed(c) ==
    /\ pc[c] \in {"start", "apply"} => outcome[c] = "none"
    /\ pc[c] # "answered" => EntriesOf(c) = {} /\ c \notin unlogged
    /\ \A i, j \in EntriesOf(c) : i = j
    /\ \A i \in EntriesOf(c) : trail[i].event = Event(c)
    /\ pc[c] = "answered" /\ outcome[c] \notin {"internal", "bad"} =>
          (c \in unlogged) # (EntriesOf(c) # {})

\* The entry under a key, as the calls on it account for it: what is live now
\* has been put in and not yet taken out.
Balanced(key) ==
    /\ services[key] # Setup(Configured)[key] => \E c \in Call : MadeBy(c, key)
    /\ Cardinality(CallsEnded("revoked", key)) + (IF services[key] = NoService THEN 0 ELSE 1)
         <= Cardinality(CallsEnded("ok", key))
            + (IF Setup(Configured)[key] = NoService THEN 0 ELSE 1)

\* However many calls there are, finitely many have an outcome.
Ended == {c \in Call : outcome[c] # "none"}

AccountInv ==
    /\ \A c \in Call : Trailed(c)
    /\ IsFiniteSet(Ended)
    /\ \A key \in HostKey : Balanced(key)

\* A step decides the outcome of its call once, and touches no other call.
LEMMA OutcomeOnce ==
    ASSUME IInv, NEW c \in Call, Trailed(c), Step(c)
    PROVE  /\ \A d \in Call \ {c} : pc'[d] = pc[d] /\ outcome'[d] = outcome[d]
           /\ outcome[c] = "none" \/ outcome' = outcome
           /\ outcome'[c] \in {"ok", "revoked"} /\ outcome[c] = "none"
                 => GrantApplied(c) \/ Revoked(c)
           /\ asked' = asked
<1>. USE DEF Continue
<1>1. TypeOK
  BY DEF IInv
<1>2. CASE GrantAuthorized(c) \/ GrantRejected(c) \/ GrantFailed(c)
  BY <1>1, <1>2 DEF GrantAuthorized, GrantRejected, GrantFailed, Arrives, Trailed, TypeOK
<1>3. CASE GrantApplied(c) \/ Revoked(c) \/ RevokeRefused(c)
  BY <1>1, <1>3 DEF GrantApplied, Revoked, RevokeRefused, Arrives, Trailed, TypeOK
<1>4. CASE Audited(c) \/ AuditFailed(c)
  BY <1>1, <1>4 DEF Audited, AuditFailed, TypeOK
<1>5. QED
  BY <1>2, <1>3, <1>4 DEF Step

\* An entry that is appended is its call's.
LEMMA EntriesAppended ==
    ASSUME IInv, NEW e \in Entry, trail' = Append(trail, e), NEW d \in Call
    PROVE  /\ EntriesOf(d)' =
                 IF d = e.call THEN EntriesOf(d) \cup {Len(trail) + 1} ELSE EntriesOf(d)
           /\ \A i \in EntriesOf(d) : trail'[i] = trail[i]
           /\ trail'[Len(trail) + 1] = e
<1>1. trail \in Seq(Entry) /\ Len(trail) \in Nat /\ DOMAIN trail = 1..Len(trail)
  BY DEF IInv, TypeOK
<1>2. /\ DOMAIN trail' = 1..(Len(trail) + 1)
      /\ \A i \in DOMAIN trail : trail'[i] = trail[i]
      /\ trail'[Len(trail) + 1] = e
  BY <1>1
<1>3. EntriesOf(d)' = IF d = e.call THEN EntriesOf(d) \cup {Len(trail) + 1} ELSE EntriesOf(d)
  BY <1>1, <1>2 DEF EntriesOf
<1>4. QED
  BY <1>2, <1>3 DEF EntriesOf

\* The trail grows by the entry of the call that writes it, and by no other.
LEMMA TrailedKept ==
    ASSUME IInv, NEW c \in Call, Step(c), \A d \in Call : Trailed(d)
    PROVE  \A d \in Call : Trailed(d)'
<1>. SUFFICES ASSUME NEW d \in Call
              PROVE  Trailed(d)'
  OBVIOUS
<1>. USE DEF Trailed, Continue
<1>1. TypeOK /\ Trailed(d) /\ Trailed(c)
  BY DEF IInv
<1>2. CASE Audited(c)
  <2>. DEFINE e == [call |-> c, event |-> Event(c)]
  <2>1. e \in Entry /\ e.call = c /\ e.event = Event(c) /\ trail' = Append(trail, e)
    BY <1>2 DEF Audited, Event, Entry
  <2>. HIDE DEF e
  <2>2. outcome' = outcome /\ Event(c)' = Event(c) /\ Event(d)' = Event(d)
    BY <1>1, <1>2 DEF Audited, TypeOK, Event
  <2>3. CASE d # c
    <3>1. EntriesOf(d)' = EntriesOf(d) /\ \A i \in EntriesOf(d) : trail'[i] = trail[i]
      BY <2>1, <2>3, EntriesAppended
    <3>2. pc'[d] = pc[d] /\ unlogged' = unlogged
      BY <1>1, <1>2, <2>3 DEF Audited, TypeOK
    <3>3. QED
      BY <1>1, <2>2, <3>1, <3>2
  <2>4. CASE d = c
    <3>1. EntriesOf(c) = {} /\ c \notin unlogged
      BY <1>1, <1>2 DEF Audited
    <3>2. EntriesOf(c)' = {Len(trail) + 1} /\ trail'[Len(trail) + 1] = e
      BY <2>1, <3>1, EntriesAppended
    <3>3. pc'[c] = "answered" /\ unlogged' = unlogged
      BY <1>1, <1>2 DEF Audited, TypeOK
    <3>4. QED
      BY <2>1, <2>2, <2>4, <3>1, <3>2, <3>3
  <2>5. QED
    BY <2>3, <2>4
<1>3. CASE AuditFailed(c)
  BY <1>1, <1>3 DEF AuditFailed, EntriesOf, Event, TypeOK
<1>4. CASE ~Audited(c) /\ ~AuditFailed(c)
  <2>1. UNCHANGED <<trail, unlogged>> /\ EntriesOf(d)' = EntriesOf(d)
    BY <1>4 DEF Step, GrantAuthorized, GrantRejected, GrantApplied, GrantFailed, Revoked,
                RevokeRefused, EntriesOf
  <2>2. CASE d = c
    BY <1>1, <1>4, <2>1, <2>2 DEF Step, GrantAuthorized, GrantRejected, GrantApplied,
       GrantFailed, Revoked, RevokeRefused, Arrives, TypeOK
  <2>3. CASE d # c
    <3>1. pc'[d] = pc[d] /\ outcome'[d] = outcome[d] /\ Event(d)' = Event(d)
      BY <2>3, OutcomeOnce DEF Event
    <3>2. QED
      BY <1>1, <2>1, <3>1
  <2>4. QED
    BY <2>2, <2>3
<1>5. QED
  BY <1>2, <1>3, <1>4

\* One call at a time gets an outcome.
LEMMA EndedKept ==
    ASSUME IInv, AccountInv, NEW c \in Call, Step(c)
    PROVE  IsFiniteSet(Ended)'
<1>1. Ended' \subseteq Ended \cup {c}
  BY OutcomeOnce DEF AccountInv, Ended
<1>2. IsFiniteSet(Ended \cup {c})
  BY FS_AddElement DEF AccountInv
<1>3. QED
  BY <1>1, <1>2, FS_Subset

\* The calls counted are among those that have an outcome.
LEMMA EndedFinite ==
    ASSUME IsFiniteSet(Ended), NEW result \in {"ok", "revoked"}, NEW key
    PROVE  /\ IsFiniteSet(CallsEnded(result, key))
           /\ Cardinality(CallsEnded(result, key)) \in Nat
<1>1. CallsEnded(result, key) \subseteq Ended
  BY DEF CallsEnded, Ended
<1>2. IsFiniteSet(CallsEnded(result, key))
  BY <1>1, FS_Subset
<1>3. QED
  BY <1>2, FS_CardinalityType

\* A step that decides no success, or one on another key, changes no account.
LEMMA AccountApart ==
    ASSUME IInv, NEW c \in Call, Trailed(c), Step(c), NEW key \in HostKey, Balanced(key),
           services'[key] = services[key],
           outcome'[c] \in {"ok", "revoked"} /\ outcome[c] = "none" => KeyOf(c) # key
    PROVE  Balanced(key)'
<1>1. asked' = asked /\ \A d \in Call : KeyOf(d)' = KeyOf(d)
  BY OutcomeOnce DEF KeyOf
<1>2. \A d \in Call : KeyOf(d) = key =>
          \A result \in {"ok", "revoked"} : outcome'[d] = result <=> outcome[d] = result
  BY OutcomeOnce
<1>3. /\ CallsEnded("ok", key)' = CallsEnded("ok", key)
      /\ CallsEnded("revoked", key)' = CallsEnded("revoked", key)
  BY <1>1, <1>2 DEF CallsEnded
<1>4. \A d \in Call : MadeBy(d, key)' <=> MadeBy(d, key)
  BY <1>1, <1>2 DEF MadeBy
<1>5. QED
  BY <1>3, <1>4 DEF Balanced

\* A grant puts one entry in, and is counted for it.
LEMMA GrantBalances ==
    ASSUME IInv, AccountInv, NEW c \in Call, GrantApplied(c), NEW key \in HostKey, KeyOf(c) = key
    PROVE  Balanced(key)'
<1>1. TypeOK /\ Balanced(key) /\ Trailed(c) /\ Step(c)
  BY DEF IInv, AccountInv, Step
<1>2. asked[c].op = "grant" /\ asked[c].req \in GrantRequest
  BY <1>1, AskedType DEF GrantApplied, IInv, AuthorizedFirst
<1>3. /\ ServiceKey(asked[c].req.host) = key
      /\ Granted(asked[c].req) \in Service
      /\ ServiceKey(Granted(asked[c].req).host) = key
  BY <1>2, GrantedType DEF KeyOf
<1>4. services'[key] = Granted(asked[c].req) /\ services'[key] # NoService
  BY <1>1, <1>3, NoServiceAssumption DEF GrantApplied, Upsert, TypeOK, Services
<1>5. outcome[c] = "none" /\ outcome' = [outcome EXCEPT ![c] = "ok"] /\ asked' = asked
  BY <1>1 DEF GrantApplied, Continue, Trailed
<1>6. MadeBy(c, key)'
  BY <1>1, <1>4, <1>5 DEF MadeBy, KeyOf, TypeOK
<1>7. /\ CallsEnded("ok", key)' = CallsEnded("ok", key) \cup {c}
      /\ c \notin CallsEnded("ok", key)
      /\ CallsEnded("revoked", key)' = CallsEnded("revoked", key)
  BY <1>1, <1>5 DEF CallsEnded, KeyOf, TypeOK
<1>8. Cardinality(CallsEnded("ok", key)') = Cardinality(CallsEnded("ok", key)) + 1
  BY <1>7, EndedFinite, FS_AddElement DEF AccountInv
<1>9. QED
  <2>1. /\ Cardinality(CallsEnded("ok", key)) \in Nat
        /\ Cardinality(CallsEnded("revoked", key)) \in Nat
    BY EndedFinite DEF AccountInv
  <2>2. Cardinality(CallsEnded("revoked", key)')
          + (IF services'[key] = NoService THEN 0 ELSE 1)
            <= Cardinality(CallsEnded("ok", key)')
               + (IF Setup(Configured)[key] = NoService THEN 0 ELSE 1)
    BY <1>1, <1>4, <1>7, <1>8, <2>1 DEF Balanced
  <2>3. QED
    BY <1>6, <2>2 DEF Balanced

\* A revoke that finds an entry takes it out, and is counted for it.
LEMMA RevokeBalances ==
    ASSUME IInv, AccountInv, NEW c \in Call, Revoked(c), NEW key \in HostKey, KeyOf(c) = key,
           services[key] # NoService
    PROVE  Balanced(key)'
<1>1. TypeOK /\ Balanced(key) /\ Trailed(c) /\ Step(c)
  BY DEF IInv, AccountInv, Step
<1>2. ServiceKey(asked[c].host) = key
  BY DEF KeyOf, Revoked, Arrives
<1>3. services'[key] = NoService
  BY <1>1, <1>2 DEF Revoked, Unregister, TypeOK, Services
<1>4. outcome[c] = "none" /\ outcome' = [outcome EXCEPT ![c] = "revoked"] /\ asked' = asked
  BY <1>1, <1>2 DEF Revoked, Arrives, Continue, Trailed, Live
<1>5. MadeBy(c, key)'
  BY <1>1, <1>3, <1>4 DEF MadeBy, KeyOf, TypeOK
<1>6. /\ CallsEnded("revoked", key)' = CallsEnded("revoked", key) \cup {c}
      /\ c \notin CallsEnded("revoked", key)
      /\ CallsEnded("ok", key)' = CallsEnded("ok", key)
  BY <1>1, <1>4 DEF CallsEnded, KeyOf, TypeOK
<1>7. Cardinality(CallsEnded("revoked", key)') = Cardinality(CallsEnded("revoked", key)) + 1
  BY <1>6, EndedFinite, FS_AddElement DEF AccountInv
<1>8. QED
  <2>1. /\ Cardinality(CallsEnded("ok", key)) \in Nat
        /\ Cardinality(CallsEnded("revoked", key)) \in Nat
    BY EndedFinite DEF AccountInv
  <2>2. Cardinality(CallsEnded("revoked", key)')
          + (IF services'[key] = NoService THEN 0 ELSE 1)
            <= Cardinality(CallsEnded("ok", key)')
               + (IF Setup(Configured)[key] = NoService THEN 0 ELSE 1)
    BY <1>1, <1>3, <1>6, <1>7, <2>1 DEF Balanced
  <2>3. QED
    BY <1>5, <2>2 DEF Balanced

\* What the registry gained and lost is what the calls were answered.
LEMMA BalancedKept ==
    ASSUME IInv, AccountInv, NEW c \in Call, Step(c), NEW key \in HostKey
    PROVE  Balanced(key)'
<1>1. TypeOK /\ Balanced(key) /\ Trailed(c)
  BY DEF IInv, AccountInv
<1>2. CASE GrantApplied(c)
  <2>1. CASE KeyOf(c) = key
    BY <1>2, <2>1, GrantBalances
  <2>2. CASE KeyOf(c) # key
    <3>1. asked[c].op = "grant" /\ asked[c].req \in GrantRequest
      BY <1>1, <1>2, AskedType DEF GrantApplied, IInv, AuthorizedFirst
    <3>2. ServiceKey(Granted(asked[c].req).host) = KeyOf(c)
      BY <3>1, GrantedType DEF KeyOf
    <3>3. services'[key] = services[key]
      BY <1>1, <1>2, <2>2, <3>2 DEF GrantApplied, Upsert, TypeOK, Services
    <3>4. QED
      BY <1>1, <2>2, <3>3, AccountApart
  <2>3. QED
    BY <2>1, <2>2
<1>3. CASE Revoked(c)
  <2>1. KeyOf(c) = ServiceKey(asked[c].host)
    BY <1>3 DEF KeyOf, Revoked, Arrives
  <2>2. CASE KeyOf(c) = key /\ services[key] # NoService
    BY <1>3, <2>2, RevokeBalances
  <2>3. CASE KeyOf(c) = key /\ services[key] = NoService
    <3>1. services'[key] = services[key]
      BY <1>1, <1>3, <2>1, <2>3 DEF Revoked, Unregister, TypeOK, Services
    <3>2. outcome'[c] = "absent"
      BY <1>1, <1>3, <2>1, <2>3 DEF Revoked, Continue, Live, TypeOK
    <3>3. QED
      BY <1>1, <3>1, <3>2, AccountApart
  <2>4. CASE KeyOf(c) # key
    <3>1. services'[key] = services[key]
      BY <1>1, <1>3, <2>1, <2>4 DEF Revoked, Unregister, TypeOK, Services
    <3>2. QED
      BY <1>1, <2>4, <3>1, AccountApart
  <2>5. QED
    BY <2>2, <2>3, <2>4
<1>4. CASE ~GrantApplied(c) /\ ~Revoked(c)
  <2>1. services' = services
    BY <1>4 DEF Step, GrantAuthorized, GrantRejected, GrantFailed, RevokeRefused, Audited,
                AuditFailed
  <2>2. ~(outcome'[c] \in {"ok", "revoked"} /\ outcome[c] = "none")
    BY <1>1, <1>4, OutcomeOnce
  <2>3. QED
    BY <1>1, <2>1, <2>2, AccountApart
<1>5. QED
  BY <1>2, <1>3, <1>4

\* An empty trail and an empty account.
LEMMA AccountInit == Init => AccountInv
<1>. SUFFICES ASSUME Init
              PROVE  AccountInv
  OBVIOUS
<1>1. \A c \in Call : Trailed(c)
  BY DEF Init, Trailed, EntriesOf
<1>2. Ended = {}
  BY DEF Init, Ended
<1>3. \A key \in HostKey : CallsEnded("ok", key) = {} /\ CallsEnded("revoked", key) = {}
  BY DEF Init, CallsEnded
<1>4. \A key \in HostKey : Balanced(key)
  <2>1. Cardinality({}) = 0
    BY FS_EmptySet
  <2>2. services = Setup(Configured)
    BY DEF Init
  <2>3. QED
    BY <1>3, <2>1, <2>2 DEF Balanced
<1>5. QED
  BY <1>1, <1>2, <1>4, FS_EmptySet DEF AccountInv

\* The three parts hold one another up.
LEMMA AccountKept ==
    ASSUME IInv, AccountInv, [Next]_vars
    PROVE  AccountInv'
<1>1. CASE \E c \in Call : Step(c)
  BY <1>1, TrailedKept, EndedKept, BalancedKept DEF AccountInv
<1>2. CASE UNCHANGED vars
  <2>1. \A c \in Call : Trailed(c)'
    BY <1>2 DEF vars, AccountInv, Trailed, EntriesOf, Event
  <2>2. Ended' = Ended
    BY <1>2 DEF vars, Ended
  <2>3. \A key \in HostKey : Balanced(key)'
    BY <1>2 DEF vars, AccountInv, Balanced, CallsEnded, MadeBy, KeyOf
  <2>4. QED
    BY <2>1, <2>2, <2>3 DEF AccountInv
<1>3. QED
  BY <1>1, <1>2 DEF Next, Idle

\* The account, in every state.
LEMMA Accounting == Spec => []AccountInv
<1>1. IInv /\ AccountInv /\ [Next]_vars => AccountInv'
  BY AccountKept
<1>2. QED
  BY Invariance, AccountInit, <1>1, PTL DEF Spec

(***************************************************************************)
(* Whatever differs from the configuration, a successful call made; and    *)
(* revokes never answer revoked = true more often than entries were put    *)
(* in, for any number of calls that race between test and delete.          *)
(***************************************************************************)
THEOREM ChangesAccounted == Spec => []RegistryAccounted
<1>1. AccountInv => RegistryAccounted
  <2>1. SUFFICES ASSUME AccountInv, NEW key \in HostKey
                 PROVE  Cardinality(CallsEnded("revoked", key))
                          <= Cardinality(CallsEnded("ok", key))
                             + IF Setup(Configured)[key] = NoService THEN 0 ELSE 1
    BY DEF AccountInv, Balanced, RegistryAccounted
  <2>2. /\ Cardinality(CallsEnded("ok", key)) \in Nat
        /\ Cardinality(CallsEnded("revoked", key)) \in Nat
    BY <2>1, EndedFinite DEF AccountInv
  <2>3. QED
    BY <2>1, <2>2 DEF AccountInv, Balanced
<1>2. QED
  BY Accounting, <1>1, PTL

(***************************************************************************)
(* A call is answered with exactly one trace of it in the audit trail, and *)
(* the right one, or with a report that there is none.                     *)
(***************************************************************************)
THEOREM TrailComplete == Spec => []AnswersAudited
<1>1. ASSUME AccountInv, NEW c \in Call
      PROVE  Cardinality(EntriesOf(c)) <= 1
  <2>1. EntriesOf(c) = {} \/ \E i \in EntriesOf(c) : EntriesOf(c) = {i}
    BY <1>1 DEF AccountInv, Trailed
  <2>2. QED
    BY <2>1, FS_EmptySet, FS_Singleton
<1>2. AccountInv => AnswersAudited
  BY <1>1 DEF AccountInv, Trailed, AnswersAudited
<1>3. QED
  BY Accounting, <1>2, PTL

-----------------------------------------------------------------------------
\* A step with clients is a step of the control plane, or none of its own: all
\* that holds of Spec holds of ClientSpec.
LEMMA ClientStep ==
    ASSUME [ClientNext]_<<vars, clientVars>>
    PROVE  [Next]_vars
BY DEF ClientNext, Send, Serve, Told, GaveUp, ClientIdle, Next, vars

\* What the MCP client adds restricts what the control plane may be asked, and
\* no more.
LEMMA ClientRefines == ClientSpec => Spec
<1>1. ClientInit => Init
  BY DEF ClientInit
<1>2. QED
  BY <1>1, ClientStep, PTL DEF ClientSpec, Spec

\* How a client and its goroutine stand to each other, and that what was told
\* before a call was sent stays told.
Paced(c) ==
    /\ client[c] = "idle" => pc[c] = "start"
    /\ client[c] = "told" => pc[c] = "answered"
    /\ \A d \in before[c] : client[d] = "told" /\ KeyOf(d) = KeyOf(c)

\* What a call did stays done while it has the last word on its key.
Settled(c) ==
    Sent(c) /\ pc[c] \in {"log", "answered"} /\ LastWord(c) =>
        /\ outcome[c] = "ok" => services[KeyOf(c)] = Granted(asked[c].req)
        /\ outcome[c] \in {"revoked", "absent"} => services[KeyOf(c)] = NoService

ClientIInv == ClientTypeOK /\ \A c \in Call : Paced(c) /\ Settled(c)

\* The client has not asked for anything.
LEMMA ClientInitInv == ClientInit => ClientIInv
BY DEF ClientInit, Init, ClientIInv, ClientTypeOK, Paced, Settled, Sent

\* What a client does, apart from its goroutine in the daemon.
LEMMA ClientMoves ==
    ASSUME IInv, ClientIInv, NEW c \in Call, Send(c) \/ Told(c) \/ GaveUp(c)
    PROVE  ClientIInv'
<1>1. ClientTypeOK /\ UNCHANGED vars /\ \A d \in Call : KeyOf(d)' = KeyOf(d)
  BY DEF ClientIInv, Send, Told, GaveUp, vars, KeyOf
<1>2. ClientTypeOK'
  BY <1>1 DEF ClientTypeOK, Send, Told, GaveUp
<1>3. ASSUME NEW d \in Call
      PROVE  Paced(d)'
  BY <1>1 DEF ClientIInv, Paced, ClientTypeOK, Send, Told, GaveUp, vars
<1>4. ASSUME NEW d \in Call, Sent(d)', pc'[d] \in {"log", "answered"}, LastWord(d)'
      PROVE  Sent(d) /\ pc[d] \in {"log", "answered"} /\ LastWord(d)
  <2>1. pc[d] = pc'[d] /\ Sent(d)
    BY <1>1, <1>4 DEF vars, ClientIInv, Paced, Sent
  <2>2. before'[d] = before[d]
    BY <1>1, <2>1 DEF Send, Told, GaveUp, Sent, ClientTypeOK
  <2>3. \A e \in Call : Sent(e) => Sent(e)'
    BY <1>1 DEF Send, Told, GaveUp, Sent, ClientTypeOK
  <2>4. QED
    BY <1>1, <1>4, <2>1, <2>2, <2>3 DEF LastWord
<1>5. ASSUME NEW d \in Call
      PROVE  Settled(d)'
  BY <1>1, <1>4 DEF ClientIInv, Settled, vars
<1>6. QED
  BY <1>2, <1>3, <1>5 DEF ClientIInv

\* What a goroutine does to the entry of its key it does before its answer.
LEMMA StepSettles ==
    ASSUME IInv, NEW c \in Call, Step(c), pc'[c] \in {"log", "answered"},
           pc[c] \in {"start", "apply"}
    PROVE  /\ outcome'[c] = "ok" => services'[KeyOf(c)] = Granted(asked[c].req)
           /\ outcome'[c] \in {"revoked", "absent"} => services'[KeyOf(c)] = NoService
<1>1. TypeOK
  BY DEF IInv
<1>2. CASE GrantApplied(c)
  <2>1. asked[c].op = "grant" /\ asked[c].req \in GrantRequest
    BY <1>1, <1>2, AskedType DEF GrantApplied, IInv, AuthorizedFirst
  <2>2. ServiceKey(Granted(asked[c].req).host) = KeyOf(c) /\ KeyOf(c) \in HostKey
    BY <2>1, GrantedType, KeyType DEF KeyOf, Service
  <2>3. outcome'[c] = "ok"
    BY <1>1, <1>2 DEF GrantApplied, Continue, TypeOK
  <2>4. QED
    BY <1>1, <1>2, <2>2, <2>3 DEF GrantApplied, Upsert, TypeOK, Services
<1>3. CASE Revoked(c)
  <2>1. KeyOf(c) = ServiceKey(asked[c].host) /\ KeyOf(c) \in HostKey
    BY <1>1, <1>3, AskedType, KeyType DEF KeyOf, Revoked, Arrives
  <2>2. services'[KeyOf(c)] = NoService
    BY <1>1, <1>3, <2>1 DEF Revoked, Unregister, TypeOK, Services
  <2>3. outcome'[c] # "ok"
    BY <1>1, <1>3 DEF Revoked, Continue, TypeOK
  <2>4. QED
    BY <2>2, <2>3
<1>4. CASE ~GrantApplied(c) /\ ~Revoked(c)
  BY <1>1, <1>4 DEF Step, GrantAuthorized, GrantRejected, GrantFailed, RevokeRefused,
     Audited, AuditFailed, Continue, Arrives, TypeOK
<1>5. QED
  BY <1>2, <1>3, <1>4

\* A goroutine changes at most the entry of its own key, and none after that.
LEMMA StepTouches ==
    ASSUME IInv, NEW c \in Call, Step(c), NEW key \in HostKey
    PROVE  /\ pc[c] # "answered"
           /\ pc[c] = "log" => outcome'[c] = outcome[c] /\ services' = services
           /\ pc[c] = "log" \/ key # KeyOf(c) => services'[key] = services[key]
<1>1. TypeOK
  BY DEF IInv
<1>2. pc[c] # "answered"
  BY DEF Step, GrantAuthorized, GrantRejected, GrantApplied, GrantFailed, Revoked,
     RevokeRefused, Audited, AuditFailed, Arrives
<1>3. ASSUME pc[c] = "log"
      PROVE  outcome'[c] = outcome[c] /\ services' = services
  BY <1>1, <1>3 DEF Step, GrantAuthorized, GrantRejected, GrantApplied, GrantFailed, Revoked,
     RevokeRefused, Audited, AuditFailed, Arrives, Continue, TypeOK
<1>4. ASSUME key # KeyOf(c)
      PROVE  services'[key] = services[key]
  <2>1. CASE GrantApplied(c)
    <3>1. asked[c].op = "grant" /\ asked[c].req \in GrantRequest
      BY <1>1, <2>1, AskedType DEF GrantApplied, IInv, AuthorizedFirst
    <3>2. ServiceKey(Granted(asked[c].req).host) = KeyOf(c)
      BY <3>1, GrantedType DEF KeyOf
    <3>3. QED
      BY <1>1, <1>4, <2>1, <3>2 DEF GrantApplied, Upsert, TypeOK, Services
  <2>2. CASE Revoked(c)
    <3>1. KeyOf(c) = ServiceKey(asked[c].host)
      BY <2>2 DEF KeyOf, Revoked, Arrives
    <3>2. QED
      BY <1>1, <1>4, <2>2, <3>1 DEF Revoked, Unregister, TypeOK, Services
  <2>3. CASE ~GrantApplied(c) /\ ~Revoked(c)
    BY <2>3 DEF Step, GrantAuthorized, GrantRejected, GrantFailed, RevokeRefused, Audited,
       AuditFailed
  <2>4. QED
    BY <2>1, <2>2, <2>3
<1>5. QED
  BY <1>2, <1>3, <1>4

\* A goroutine whose key another call had the last word on was told before
\* that call was sent, and has nothing left to do.
LEMMA ServeKeeps ==
    ASSUME IInv, AccountInv, ClientIInv, NEW c \in Call, Serve(c)
    PROVE  ClientIInv'
<1>1. /\ TypeOK /\ ClientTypeOK /\ Step(c) /\ Sent(c) /\ Trailed(c)
      /\ UNCHANGED clientVars
  BY DEF IInv, AccountInv, ClientIInv, Serve, Sent
<1>2. \A d \in Call \ {c} : pc'[d] = pc[d] /\ outcome'[d] = outcome[d]
  BY <1>1, OutcomeOnce
<1>3. asked' = asked /\ \A d \in Call : KeyOf(d)' = KeyOf(d)
  BY <1>1, OutcomeOnce DEF KeyOf
<1>4. \A d \in Call : KeyOf(d) \in HostKey
  <2>1. SUFFICES ASSUME NEW d \in Call
                 PROVE  KeyOf(d) \in HostKey
    OBVIOUS
  <2>2. CASE asked[d].op = "grant"
    <3>1. asked[d].req \in Proposal
      BY <1>1, <2>2, AskedType, ConfigAssumption
    <3>2. QED
      BY <2>2, <3>1, KeyType DEF KeyOf, Proposal
  <2>3. CASE asked[d].op # "grant"
    <3>1. asked[d].op = "revoke"
      BY <1>1, <2>3 DEF TypeOK, Asked
    <3>2. QED
      BY <1>1, <2>3, <3>1, AskedType, KeyType DEF KeyOf
  <2>4. QED
    BY <2>2, <2>3
<1>5. \A d \in Call : (Sent(d)' <=> Sent(d)) /\ (LastWord(d)' <=> LastWord(d))
  BY <1>1, <1>3 DEF Sent, LastWord, clientVars
<1>6. pc[c] # "answered" /\ client[c] # "told"
  BY <1>1, <1>4, StepTouches DEF ClientIInv, Paced
<1>7. ASSUME NEW d \in Call
      PROVE  Paced(d)'
  <2>1. UNCHANGED <<client, before>> /\ Paced(d)
    BY <1>1 DEF ClientIInv, clientVars
  <2>2. before[d] \subseteq Call
    BY <1>1 DEF ClientTypeOK
  <2>3. client[c] \notin {"idle", "told"}
    BY <1>1, <1>6 DEF Sent
  <2>4. CASE d = c
    BY <1>3, <2>1, <2>2, <2>3, <2>4 DEF Paced
  <2>5. CASE d # c
    BY <1>2, <1>3, <2>1, <2>2, <2>5 DEF Paced
  <2>6. QED
    BY <2>4, <2>5
<1>8. ASSUME NEW d \in Call, Sent(d), pc'[d] \in {"log", "answered"}, LastWord(d)
      PROVE  /\ outcome'[d] = "ok" => services'[KeyOf(d)] = Granted(asked[d].req)
             /\ outcome'[d] \in {"revoked", "absent"} => services'[KeyOf(d)] = NoService
  <2>1. Settled(d)
    BY DEF ClientIInv
  <2>2. CASE d = c /\ pc[c] = "log"
    BY <1>1, <1>4, <1>8, <2>1, <2>2, StepTouches DEF Settled
  <2>3. CASE d = c /\ pc[c] # "log"
    BY <1>1, <1>6, <1>8, <2>3, StepSettles DEF TypeOK
  <2>4. CASE d # c
    <3>1. KeyOf(c) # KeyOf(d)
      BY <1>1, <1>6, <1>8, <2>4 DEF LastWord, ClientIInv, Paced
    <3>2. services'[KeyOf(d)] = services[KeyOf(d)]
      BY <1>1, <1>4, <3>1, StepTouches
    <3>3. QED
      BY <1>2, <1>8, <2>1, <2>4, <3>2 DEF Settled
  <2>5. QED
    BY <2>2, <2>3, <2>4
<1>9. ASSUME NEW d \in Call
      PROVE  Settled(d)'
  BY <1>3, <1>5, <1>8 DEF Settled
<1>10. ClientTypeOK'
  BY <1>1 DEF ClientTypeOK, clientVars
<1>11. QED
  BY <1>7, <1>9, <1>10 DEF ClientIInv

\* The client and the control plane it calls, one step of either.
LEMMA ClientKept ==
    ASSUME IInv, AccountInv, ClientIInv, [ClientNext]_<<vars, clientVars>>
    PROVE  ClientIInv'
<1>1. CASE \E c \in Call : Serve(c)
  BY <1>1, ServeKeeps
<1>2. CASE \E c \in Call : Send(c) \/ Told(c) \/ GaveUp(c)
  BY <1>2, ClientMoves
<1>3. CASE UNCHANGED <<vars, clientVars>>
  BY <1>3 DEF vars, clientVars, ClientIInv, ClientTypeOK, Paced, Settled, Sent, LastWord, KeyOf
<1>4. QED
  BY <1>1, <1>2, <1>3 DEF ClientNext, ClientIdle

(***************************************************************************)
(* What an agent was told last of a host is how it is, for any number of   *)
(* calls, of which any may be given up and applied late.                   *)
(***************************************************************************)
THEOREM LastWordHolds == ClientSpec => []ClientInv
<1>1. IInv /\ AccountInv /\ ClientIInv /\ [ClientNext]_<<vars, clientVars>> => ClientIInv'
  BY ClientKept
<1>2. ASSUME ClientIInv, NEW c \in Call, client[c] = "told", LastWord(c)
      PROVE  /\ outcome[c] = "ok" => services[KeyOf(c)] = Granted(asked[c].req)
             /\ outcome[c] \in {"revoked", "absent"} => services[KeyOf(c)] = NoService
  BY <1>2 DEF ClientIInv, Paced, Settled, Sent
<1>3. ClientIInv => ClientInv
  BY <1>2 DEF ClientInv, AnswersInOrder, ClientIInv
<1>4. QED
  BY ClientRefines, Invariance, Accounting, ClientInitInv, <1>1, <1>3, PTL DEF ClientSpec
=============================================================================
