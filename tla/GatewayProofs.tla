---------------------------- MODULE GatewayProofs ----------------------------
(***************************************************************************)
(* The gate and the pairing of credentials, for any number of connections, *)
(* requests and registry changes.  Neither rests on the stages agreeing    *)
(* about the service, so no step of the registry can break them.           *)
(*                                                                         *)
(* And what the stages do to a request between them, for the requests      *)
(* during which the registry stands still.                                 *)
(***************************************************************************)
EXTENDS Gateway, GrantProofs

\* An entry has the credential, the key and the strategy of something that
\* was configured or approved.
SourcedEntry(key, svc) ==
    \E x \in Configured \cup Grantable :
        /\ x.cred = svc.cred
        /\ ServiceKey(x.host) = key
        /\ CanonicalAuthRef(x.auth, x.header) = svc.auth

Sourced == \A key \in HostKey : services[key] # NoService => SourcedEntry(key, services[key])

\* A request in the pipeline has a connection that carries requests, and is
\* neither answered nor injected before its last stage.
Shape(c) ==
    /\ pc[c] # "idle" =>
          /\ mode[c] \in {"plain", "mitm"}
          /\ served[c] # 0
          /\ asked[c] \in ClientRequest
    /\ pc[c] \in Stage => status[c] = "none" /\ by[c] = NoService

\* Only a CONNECT with good credentials makes metadata authenticated.
Authentic(c) ==
    meta[c] # NoMeta /\ meta[c].authenticated =>
        mode[c] \in {"mitm", "opaque"} /\ tunnel[c] = "good"

\* GateHolds and CredentialStaysPaired, of one connection.
Cleared(c) ==
    pc[c] \notin {"idle", "gate"} /\ status[c] # "407" =>
        asked[c].creds = "good" \/ (mode[c] = "mitm" /\ tunnel[c] = "good")

PairedBy(x, c) ==
    /\ x.cred = by[c].cred
    /\ Covers(x.host, asked[c].host)
    /\ LET ref == CanonicalAuthRef(x.auth, x.header)
       IN \/ ref.scheme = "bearer" /\ Carries(headers[c]["authorization"], x.cred)
          \/ ref.scheme = "header" /\ ref.name # NoName /\ Carries(headers[c][ref.name], x.cred)

Paired(c) == by[c] # NoService => \E x \in Configured \cup Grantable : PairedBy(x, c)

\* A host that the configuration or a pairing names.
Named(host) == \E x \in Configured \cup Grantable : Covers(x.host, host)

\* A tunnel that is intercepted leads to such a host, a plain connection to
\* the one its request names; no other has a credential injected.
Routed(c) ==
    /\ mode[c] = "mitm" => Named(target[c])
    /\ mode[c] = "plain" => target[c] = asked[c].host
    /\ by[c] # NoService => mode[c] \in {"plain", "mitm"}

IInv ==
    /\ TypeOK
    /\ Sourced
    /\ \A c \in Conn : Shape(c) /\ Authentic(c) /\ Cleared(c) /\ Paired(c) /\ Routed(c)

-----------------------------------------------------------------------------
\* What Lookup answers is a live entry, under a key the walk may meet.
LEMMA LookupFinds ==
    ASSUME NEW reg \in Services, NEW host, Lookup(reg, host) # NoService
    PROVE  \E key \in LookupKeys(reg, host) :
              key \in Live(reg) /\ Lookup(reg, host) = reg[key]
<1>1. LookupKeys(reg, host) # {}
  BY DEF Lookup
<1>. DEFINE found == CHOOSE key \in LookupKeys(reg, host) : TRUE
<1>2. found \in LookupKeys(reg, host)
  BY <1>1
<1>3. Lookup(reg, host) = reg[found]
  BY <1>1 DEF Lookup
<1>4. LookupKeys(reg, host) \subseteq Live(reg)
  BY DEF LookupKeys
<1>. HIDE DEF found
<1>5. QED
  BY <1>2, <1>3, <1>4

\* What a lookup finds is an entry of the registry, or nothing.
LEMMA LookupType ==
    ASSUME NEW reg \in Services, NEW host
    PROVE  Lookup(reg, host) \in Service \cup {NoService}
BY LookupFinds DEF Live, Services

\* A pattern covers the hosts that Lookup gives to its key.
LEMMA LookupCovers ==
    ASSUME NEW reg \in Services, NEW host \in HostText, NEW pattern \in HostPattern,
           ServiceKey(pattern) \in LookupKeys(reg, host)
    PROVE  Covers(pattern, host)
<1>. DEFINE key == ServiceKey(pattern)
            normalized == NormalizeHostname(host)
<1>1. /\ key.labels = LowerLabels(pattern.labels)
      /\ normalized.labels = LowerLabels(host.labels)
  BY DEF ServiceKey, NormalizeHostname
<1>2. /\ Len(key.labels) = Len(normalized.labels)
      /\ \A i \in DOMAIN key.labels :
            \/ key.labels[i] = normalized.labels[i]
            \/ i = 1 /\ key.labels[1] = Wild
  <2>1. CASE normalized \in Live(reg)
    <3>1. key = normalized
      BY <2>1 DEF LookupKeys
    <3>2. QED
      BY <3>1
  <2>2. CASE normalized \notin Live(reg)
    <3>1. IsWildcardMatch(key, normalized)
      BY <2>2 DEF LookupKeys
    <3>2. key \in HostKey
      BY KeyType
    <3>3. DOMAIN key.labels = 1..Len(key.labels) /\ Len(key.labels) \in Nat
      BY <3>2, KeyShape
    <3>. HIDE DEF key, normalized
    <3>4. QED
      BY <3>1, <3>3 DEF IsWildcardMatch
  <2>3. QED
    BY <2>1, <2>2
<1>3. QED
  BY <1>1, <1>2 DEF Covers

\* Folding a strategy twice with one header name is folding it once.
LEMMA CanonicalTwice ==
    ASSUME NEW auth \in AuthRef, NEW name \in HeaderName \cup {NoName}
    PROVE  CanonicalAuthRef(CanonicalAuthRef(auth, name), name) = CanonicalAuthRef(auth, name)
BY DEF CanonicalAuthRef, AuthRef

-----------------------------------------------------------------------------
\* A configured service is the source of the entry that Setup makes of it.
LEMMA SetupSourced ==
    ASSUME NEW key \in HostKey, Setup(Configured)[key] # NoService
    PROVE  SourcedEntry(key, Setup(Configured)[key])
<1>1. \E svc \in Configured : ServiceKey(svc.host) = key
  BY DEF Setup
<1>. DEFINE chosen == CHOOSE svc \in Configured : ServiceKey(svc.host) = key
<1>2. chosen \in Configured /\ ServiceKey(chosen.host) = key
  BY <1>1
<1>3. Setup(Configured)[key] = FromConfig(chosen)
  BY <1>1 DEF Setup
<1>4. chosen \in Service
  BY <1>2, ConfigAssumption
<1>. HIDE DEF chosen
<1>5. /\ FromConfig(chosen).cred = chosen.cred
      /\ FromConfig(chosen).auth = CanonicalAuthRef(chosen.auth, chosen.header)
  BY <1>4 DEF FromConfig, Service
<1>6. QED
  BY <1>2, <1>3, <1>5 DEF SourcedEntry

\* A pairing is the source of the entries granted within it.
LEMMA AdmissibleSourced ==
    ASSUME NEW grant \in Admissible
    PROVE  /\ grant.key \in HostKey
           /\ grant.service \in Service
           /\ SourcedEntry(grant.key, grant.service)
<1>1. PICK req \in GrantRequest :
          /\ WithinUniverse(Granted(req))
          /\ grant = [key |-> ServiceKey(req.host), service |-> Granted(req)]
  BY DEF Admissible
<1>2. req \in Proposal /\ req.host \in HostPattern
  BY ConfigAssumption DEF Proposal
<1>3. PICK pairing \in Grantable : IdentityOf(pairing) = IdentityOf(Granted(req))
  BY <1>1 DEF WithinUniverse
<1>4. /\ pairing.cred = Granted(req).cred
      /\ ServiceKey(pairing.host) = ServiceKey(Granted(req).host)
      /\ CanonicalAuthRef(pairing.auth, pairing.header)
            = CanonicalAuthRef(Granted(req).auth, Granted(req).header)
  BY <1>3 DEF IdentityOf
<1>5. /\ Granted(req).auth = CanonicalAuthRef(req.auth, req.header)
      /\ Granted(req).header = req.header
  BY DEF Granted, ToService
<1>6. CanonicalAuthRef(pairing.auth, pairing.header) = Granted(req).auth
  BY <1>2, <1>4, <1>5, CanonicalTwice DEF Proposal
<1>7. QED
  BY <1>1, <1>2, <1>4, <1>6, GrantedType, KeyType DEF SourcedEntry

\* What a lookup finds comes from something that covers the host.
LEMMA LookupSourced ==
    ASSUME TypeOK, Sourced, NEW host \in RequestHost, Lookup(services, host) # NoService
    PROVE  \E x \in Configured \cup Grantable :
              /\ x.cred = Lookup(services, host).cred
              /\ Covers(x.host, host)
              /\ CanonicalAuthRef(x.auth, x.header) = Lookup(services, host).auth
<1>1. PICK key \in LookupKeys(services, host) :
          key \in Live(services) /\ Lookup(services, host) = services[key]
  BY LookupFinds DEF TypeOK
<1>2. PICK x \in Configured \cup Grantable :
          /\ x.cred = services[key].cred
          /\ ServiceKey(x.host) = key
          /\ CanonicalAuthRef(x.auth, x.header) = services[key].auth
  BY <1>1 DEF Sourced, SourcedEntry, Live
<1>3. x.host \in HostPattern
  BY ConfigAssumption DEF Service, Pairing
<1>4. Covers(x.host, host)
  BY <1>1, <1>2, <1>3, LookupCovers, HostAssumption DEF TypeOK
<1>5. QED
  BY <1>1, <1>2, <1>4

-----------------------------------------------------------------------------
\* The records that the actions build and change, by type.
LEMMA MetaTypes ==
    /\ <<>> \in Seq(Value) /\ NoHeaders \in Headers
    /\ FreshMeta \in Meta
    /\ [FreshMeta EXCEPT !.authenticated = TRUE] \in Meta
    /\ \A m \in Meta, n \in 0..MaxRequests, hs \in Headers, b \in BOOLEAN :
          /\ [m EXCEPT !.request = n, !.shared = b] \in Meta
          /\ [m EXCEPT !.request = n, !.shared = b, !.headers = hs] \in Meta
<1>1. <<>> \in Seq(Value) /\ NoHeaders \in Headers
  BY DEF NoHeaders, Headers
<1>2. FreshMeta \in Meta
  BY <1>1, GatewayAssumption DEF FreshMeta, Meta
<1>3. QED
  BY <1>1, <1>2 DEF Meta

\* A header that is not there has no values; an injected one has one.
LEMMA ValueFacts ==
    /\ \A token : ~Carries(<<>>, token)
    /\ \A svc \in Service : Injected(svc) \in Seq(Value) /\ Carries(Injected(svc), svc.cred)
<1>1. \A token : ~Carries(<<>>, token)
  BY DEF Carries
<1>2. ASSUME NEW svc \in Service
      PROVE  Injected(svc) \in Seq(Value) /\ Carries(Injected(svc), svc.cred)
  <2>. DEFINE value == [bearer |-> svc.auth.scheme = "bearer", token |-> svc.cred]
  <2>1. svc.cred \in Credential
    BY <1>2 DEF Service
  <2>2. (svc.auth.scheme = "bearer") \in BOOLEAN
    OBVIOUS
  <2>3. value \in Value
    BY <2>1, <2>2 DEF Value
  <2>4. value.token = svc.cred /\ Injected(svc) = <<value>>
    BY DEF Injected
  <2>. HIDE DEF value
  <2>5. QED
    BY <2>3, <2>4 DEF Carries
<1>3. QED
  BY <1>1, <1>2

\* What the handlers leave of a request's headers are headers.
LEMMA HeaderTypes ==
    ASSUME NEW hs \in Headers, NEW svc \in Service
    PROVE  /\ Stripped(hs, svc) \in Headers
           /\ [h \in HeaderName |-> IF h \in svc.strip THEN <<>> ELSE hs[h]] \in Headers
           /\ Applied(hs, svc) \in Headers
<1>1. <<>> \in Seq(Value)
  BY MetaTypes
<1>2. Stripped(hs, svc) \in Headers
  BY <1>1 DEF Stripped, Headers
<1>3. [h \in HeaderName |-> IF h \in svc.strip THEN <<>> ELSE hs[h]] \in Headers
  BY <1>1 DEF Headers
<1>4. Applied(hs, svc) \in Headers
  BY ValueFacts DEF Applied, Headers
<1>5. QED
  BY <1>2, <1>3, <1>4

-----------------------------------------------------------------------------
\* Every handler keeps the types.
LEMMA StepTyped ==
    ASSUME IInv, NEW c \in Conn, Step(c)
    PROVE  TypeOK'
<1>. USE DEF TypeOK, registry, conn, Stage, Status
<1>1. TypeOK
  BY DEF IInv
<1>2. pc[c] # "idle" => served[c] # 0 /\ asked[c] \in ClientRequest
  BY DEF IInv, Shape
<1>3. Svc(c) \in Service \cup {NoService}
  BY <1>1, LookupType DEF Svc
<1>4. headers[c] \in Headers /\ served[c] \in 0..MaxRequests /\ meta[c] \in Meta \cup {NoMeta}
  BY <1>1
<1>5. CASE \E host \in RequestHost, creds \in ProxyCreds : Connect(c, host, creds)
  <2>1. PICK host \in RequestHost, creds \in ProxyCreds : Connect(c, host, creds)
    BY <1>5
  <2>2. meta' \in [Conn -> Meta \cup {NoMeta}]
    BY <1>1, <2>1, MetaTypes DEF Connect
  <2>3. mode' \in [Conn -> {"new", "plain", "mitm", "opaque", "refused"}]
    BY <1>1, <2>1 DEF Connect
  <2>4. QED
    BY <1>1, <2>1, <2>2, <2>3 DEF Connect
<1>6. CASE \E req \in ClientRequest : Begin(c, req)
  <2>1. PICK req \in ClientRequest : Begin(c, req)
    BY <1>6
  <2>2. req.headers \in Headers /\ req.host \in RequestHost
    BY GatewayAssumption DEF HttpRequest
  <2>3. served[c] + 1 \in 0..MaxRequests
    BY <1>4, <2>1, GatewayAssumption DEF Begin
  <2>4. target' \in [Conn -> RequestHost \cup {NoMeta}]
    BY <1>1, <2>1, <2>2 DEF Begin
  <2>5. mode' \in [Conn -> {"new", "plain", "mitm", "opaque", "refused"}]
    BY <1>1, <2>1 DEF Begin
  <2>6. QED
    BY <1>1, <2>1, <2>2, <2>3, <2>4, <2>5 DEF Begin
<1>7. CASE Gate(c) \/ Drop(c) \/ CheckPolicy(c)
  BY <1>1, <1>7 DEF Gate, Drop, CheckPolicy, Pass, Answer
<1>8. CASE PassThrough(c) \/ SecretUnavailable(c) \/ UnknownStrategy(c) \/ ApplyFails(c)
  BY <1>1, <1>8 DEF PassThrough, SecretUnavailable, UnknownStrategy, ApplyFails, Answer
<1>9. CASE RequestID(c)
  BY <1>1, <1>9, MetaTypes DEF RequestID, Pass
<1>10. CASE SecurityStrip(c)
  <2>1. Found(c) => Stripped(headers[c], Svc(c)) \in Headers
    BY <1>3, <1>4, HeaderTypes DEF Found
  <2>2. [FreshMeta EXCEPT !.request = served[c], !.shared = TRUE] \in Meta
    BY <1>4, MetaTypes
  <2>3. headers' \in [Conn -> Headers]
    BY <1>1, <1>10, <2>1 DEF SecurityStrip
  <2>4. meta' \in [Conn -> Meta \cup {NoMeta}]
    BY <1>1, <1>10, <2>2 DEF SecurityStrip
  <2>5. QED
    BY <1>1, <1>10, <2>3, <2>4 DEF SecurityStrip, Pass
<1>11. CASE Strip(c)
  <2>1. Found(c) => [h \in HeaderName |-> IF h \in Svc(c).strip THEN <<>> ELSE headers[c][h]]
                      \in Headers
    BY <1>3, <1>4, HeaderTypes DEF Found
  <2>2. headers' \in [Conn -> Headers]
    BY <1>1, <1>11, <2>1 DEF Strip
  <2>3. QED
    BY <1>1, <1>11, <2>2 DEF Strip, Pass
<1>12. CASE RecordRequest(c)
  <2>1. [(IF meta[c] = NoMeta THEN FreshMeta ELSE meta[c]) EXCEPT
            !.request = served[c], !.shared = FALSE, !.headers = headers[c]] \in Meta
    BY <1>4, MetaTypes
  <2>2. meta' \in [Conn -> Meta \cup {NoMeta}]
    BY <1>1, <1>12, <2>1 DEF RecordRequest
  <2>3. QED
    BY <1>1, <1>12, <2>2 DEF RecordRequest, Pass
<1>13. CASE Inject(c)
  <2>1. Svc(c) \in Service
    BY <1>3, <1>13 DEF Inject, InjectionDue, Found
  <2>2. Applied(headers[c], Svc(c)) \in Headers
    BY <1>4, <2>1, HeaderTypes
  <2>3. QED
    BY <1>1, <1>13, <2>1, <2>2 DEF Inject, Answer
<1>14. CASE Respond(c)
  <2>1. served[c] \in 1..MaxRequests
    BY <1>2, <1>4, <1>14 DEF Respond
  <2>2. meta[c] # NoMeta => /\ Held(c) \in Headers
                            /\ meta[c].request # 0 => meta[c].request \in 1..MaxRequests
    BY <1>4, GatewayAssumption DEF Held, Meta
  <2>3. recorded' \subseteq
           [conn : Conn, request : 1..MaxRequests, response : 1..MaxRequests, headers : Headers]
    BY <1>1, <1>14, <2>1, <2>2 DEF Respond
  <2>4. QED
    BY <1>1, <1>14, <2>3 DEF Respond
<1>15. QED
  BY <1>5, <1>6, <1>7, <1>8, <1>9, <1>10, <1>11, <1>12, <1>13, <1>14 DEF Step

-----------------------------------------------------------------------------
\* A step of one connection leaves what the invariant says of another alone.
LEMMA OthersKeep ==
    ASSUME IInv, NEW c \in Conn, Step(c), NEW d \in Conn, d # c
    PROVE  Shape(d)' /\ Authentic(d)' /\ Cleared(d)' /\ Paired(d)' /\ Routed(d)'
<1>1. TypeOK /\ Shape(d) /\ Authentic(d) /\ Cleared(d) /\ Paired(d) /\ Routed(d)
  BY DEF IInv
<1>2. /\ mode'[d] = mode[d] /\ tunnel'[d] = tunnel[d] /\ target'[d] = target[d]
      /\ meta'[d] = meta[d]
      /\ served'[d] = served[d] /\ pc'[d] = pc[d] /\ asked'[d] = asked[d]
      /\ headers'[d] = headers[d] /\ by'[d] = by[d] /\ status'[d] = status[d]
  BY <1>1 DEF Step, Connect, Begin, Gate, RequestID, Drop, SecurityStrip, CheckPolicy, Strip,
     RecordRequest, PassThrough, SecretUnavailable, UnknownStrategy, ApplyFails, Inject, Respond, Pass, Answer,
     TypeOK, conn
<1>3. Shape(d)' /\ Authentic(d)' /\ Cleared(d)'
  BY <1>1, <1>2 DEF Shape, Authentic, Cleared
<1>4. Paired(d)' /\ Routed(d)'
  BY <1>1, <1>2 DEF Paired, PairedBy, Routed, Named
<1>5. QED
  BY <1>3, <1>4

\* A request keeps the shape of its stage.
LEMMA ShapeKept ==
    ASSUME IInv, NEW c \in Conn, Step(c)
    PROVE  Shape(c)'
<1>. USE DEF TypeOK, Shape, Stage
<1>1. TypeOK /\ Shape(c)
  BY DEF IInv
<1>2. CASE \E host \in RequestHost, creds \in ProxyCreds : Connect(c, host, creds)
  BY <1>1, <1>2 DEF Connect
<1>3. CASE \E req \in ClientRequest : Begin(c, req)
  BY <1>1, <1>3 DEF Begin
<1>4. CASE Gate(c) \/ Drop(c) \/ CheckPolicy(c)
  BY <1>1, <1>4 DEF Gate, Drop, CheckPolicy, Pass, Answer, conn
<1>5. CASE RequestID(c) \/ SecurityStrip(c) \/ Strip(c) \/ RecordRequest(c)
  BY <1>1, <1>5 DEF RequestID, SecurityStrip, Strip, RecordRequest, Pass, conn
<1>6. CASE PassThrough(c) \/ SecretUnavailable(c) \/ UnknownStrategy(c) \/ ApplyFails(c) \/ Inject(c)
  BY <1>1, <1>6 DEF PassThrough, SecretUnavailable, UnknownStrategy, ApplyFails, Inject, Answer, conn
<1>7. CASE Respond(c)
  BY <1>1, <1>7 DEF Respond, conn
<1>8. QED
  BY <1>2, <1>3, <1>4, <1>5, <1>6, <1>7 DEF Step

\* Metadata that a handler makes is not authenticated, and a plain request
\* takes its metadata with it.
LEMMA AuthenticKept ==
    ASSUME IInv, NEW c \in Conn, Step(c)
    PROVE  Authentic(c)'
<1>. USE DEF Authentic
<1>1. TypeOK /\ Shape(c) /\ Authentic(c)
  BY DEF IInv
<1>2. /\ ~FreshMeta.authenticated
      /\ [FreshMeta EXCEPT !.request = served[c], !.shared = TRUE].authenticated = FALSE
  BY DEF FreshMeta
<1>3. CASE \E host \in RequestHost, creds \in ProxyCreds : Connect(c, host, creds)
  BY <1>1, <1>3 DEF Connect, TypeOK
<1>4. CASE \E req \in ClientRequest : Begin(c, req)
  BY <1>1, <1>4 DEF Begin, TypeOK
<1>5. CASE RequestID(c) \/ SecurityStrip(c)
  BY <1>1, <1>2, <1>5 DEF RequestID, SecurityStrip, TypeOK, conn
<1>6. CASE RecordRequest(c)
  <2>. DEFINE held == IF meta[c] = NoMeta THEN FreshMeta ELSE meta[c]
              next == [held EXCEPT !.request = served[c], !.shared = FALSE, !.headers = headers[c]]
  <2>1. held \in Meta
    BY <1>1, MetaTypes DEF TypeOK
  <2>2. next.authenticated = held.authenticated
    BY <2>1 DEF Meta
  <2>3. meta'[c] \in {meta[c], next}
    BY <1>1, <1>6 DEF RecordRequest, TypeOK
  <2>4. mode' = mode /\ tunnel' = tunnel
    BY <1>6 DEF RecordRequest, conn
  <2>5. held.authenticated => meta[c] # NoMeta /\ meta[c].authenticated
    BY <1>2
  <2>. HIDE DEF held, next
  <2>6. QED
    BY <1>1, <2>2, <2>3, <2>4, <2>5
<1>7. CASE Respond(c)
  BY <1>1, <1>7 DEF Respond, TypeOK, conn
<1>8. CASE Gate(c) \/ Drop(c) \/ CheckPolicy(c) \/ Strip(c)
  BY <1>1, <1>8 DEF Gate, Drop, CheckPolicy, Strip, conn
<1>9. CASE PassThrough(c) \/ SecretUnavailable(c) \/ UnknownStrategy(c) \/ ApplyFails(c) \/ Inject(c)
  BY <1>1, <1>9 DEF PassThrough, SecretUnavailable, UnknownStrategy, ApplyFails, Inject, conn
<1>10. QED
  BY <1>3, <1>4, <1>5, <1>6, <1>7, <1>8, <1>9 DEF Step

\* Gate clears the request; no later stage changes what it went by.
LEMMA ClearedKept ==
    ASSUME IInv, NEW c \in Conn, Step(c)
    PROVE  Cleared(c)'
<1>. USE DEF Cleared, TypeOK
<1>1. TypeOK /\ Shape(c) /\ Authentic(c) /\ Cleared(c)
  BY DEF IInv
<1>2. CASE \E host \in RequestHost, creds \in ProxyCreds : Connect(c, host, creds)
  <2>1. pc[c] = "idle"
    BY <1>1, <1>2 DEF Connect, Shape
  <2>2. QED
    BY <1>2, <2>1 DEF Connect
<1>3. CASE \E req \in ClientRequest : Begin(c, req)
  BY <1>1, <1>3 DEF Begin
<1>4. CASE Gate(c)
  BY <1>1, <1>4 DEF Gate, Pass, Answer, Shape, Authentic, conn
<1>5. CASE \/ Drop(c) \/ CheckPolicy(c) \/ RequestID(c)
           \/ SecurityStrip(c) \/ Strip(c) \/ RecordRequest(c)
  BY <1>1, <1>5 DEF Drop, CheckPolicy, RequestID, SecurityStrip, Strip, RecordRequest, Pass, Answer,
     Shape, Stage, conn
<1>6. CASE PassThrough(c) \/ SecretUnavailable(c) \/ UnknownStrategy(c) \/ ApplyFails(c) \/ Inject(c)
  BY <1>1, <1>6 DEF PassThrough, SecretUnavailable, UnknownStrategy, ApplyFails, Inject, Answer, Shape,
      Stage, conn
<1>7. CASE Respond(c)
  BY <1>1, <1>7 DEF Respond
<1>8. QED
  BY <1>2, <1>3, <1>4, <1>5, <1>6, <1>7 DEF Step

\* Inject takes its credential from an entry that covers the request's host
\* and puts it where the entry's strategy does.
LEMMA InjectPairs ==
    ASSUME IInv, NEW c \in Conn, Inject(c)
    PROVE  \E x \in Configured \cup Grantable : PairedBy(x, c)'
<1>1. /\ TypeOK /\ Sourced
      /\ asked[c] \in ClientRequest
  BY DEF IInv, Inject, Shape
<1>2. asked[c].host \in RequestHost
  BY <1>1, GatewayAssumption DEF HttpRequest
<1>3. Svc(c) # NoService
  BY DEF Inject, InjectionDue, Found
<1>4. PICK x \in Configured \cup Grantable :
          /\ x.cred = Svc(c).cred
          /\ Covers(x.host, asked[c].host)
          /\ CanonicalAuthRef(x.auth, x.header) = Svc(c).auth
  BY <1>1, <1>2, <1>3, LookupSourced DEF Svc
<1>5. /\ by'[c] = Svc(c) /\ asked' = asked
      /\ headers'[c] = Applied(headers[c], Svc(c))
  BY <1>1 DEF Inject, TypeOK
<1>6. Svc(c) \in Service
  BY <1>1, <1>3, LookupType DEF Svc, TypeOK
<1>7. \/ Svc(c).auth.scheme = "bearer"
      \/ Svc(c).auth.scheme = "header" /\ Svc(c).auth.name # NoName
  BY DEF Inject, Strategies
<1>8. StrategyHeader(Svc(c).auth) \in HeaderName /\ headers[c] \in Headers
  <2>1. Svc(c).auth \in AuthRef
    BY <1>6 DEF Service
  <2>2. QED
    BY <1>1, <1>7, <2>1, GatewayAssumption DEF StrategyHeader, AuthRef, TypeOK
<1>9. Carries(headers'[c][StrategyHeader(Svc(c).auth)], x.cred)
  <2>1. headers'[c][StrategyHeader(Svc(c).auth)] = Injected(Svc(c))
    BY <1>5, <1>8 DEF Applied, Headers
  <2>2. QED
    BY <1>4, <1>6, <2>1, ValueFacts
<1>10. x.cred = by'[c].cred /\ Covers(x.host, asked'[c].host)
  BY <1>4, <1>5
<1>11. PairedBy(x, c)'
  <2>1. CASE Svc(c).auth.scheme = "bearer"
    <3>1. Carries(headers'[c]["authorization"], x.cred)
      BY <1>9, <2>1 DEF StrategyHeader
    <3>2. QED
      BY <1>4, <1>10, <2>1, <3>1 DEF PairedBy
  <2>2. CASE Svc(c).auth.scheme = "header" /\ Svc(c).auth.name # NoName
    <3>1. Carries(headers'[c][Svc(c).auth.name], x.cred)
      BY <1>9, <2>2 DEF StrategyHeader
    <3>2. QED
      BY <1>4, <1>10, <2>2, <3>1 DEF PairedBy
  <2>3. QED
    BY <1>7, <2>1, <2>2
<1>12. QED
  BY <1>11

\* A credential that was injected stays as it was until the next request.
LEMMA PairedKept ==
    ASSUME IInv, NEW c \in Conn, Step(c)
    PROVE  Paired(c)'
<1>. USE DEF Paired, PairedBy
<1>1. TypeOK /\ Shape(c) /\ Paired(c)
  BY DEF IInv
<1>2. CASE Inject(c)
  BY <1>2, InjectPairs
<1>3. CASE \E host \in RequestHost, creds \in ProxyCreds : Connect(c, host, creds)
  BY <1>1, <1>3 DEF Connect
<1>4. CASE \E req \in ClientRequest : Begin(c, req)
  BY <1>1, <1>4 DEF Begin, TypeOK
<1>5. CASE Gate(c) \/ Drop(c) \/ CheckPolicy(c) \/ RequestID(c) \/ RecordRequest(c) \/ Respond(c)
  BY <1>1, <1>5 DEF Gate, Drop, CheckPolicy, RequestID, RecordRequest, Respond
<1>6. CASE SecurityStrip(c) \/ Strip(c)
  BY <1>1, <1>6 DEF SecurityStrip, Strip, Shape, Stage
<1>7. CASE PassThrough(c) \/ SecretUnavailable(c) \/ UnknownStrategy(c) \/ ApplyFails(c)
  BY <1>1, <1>7 DEF PassThrough, SecretUnavailable, UnknownStrategy, ApplyFails
<1>8. QED
  BY <1>2, <1>3, <1>4, <1>5, <1>6, <1>7 DEF Step

\* A tunnel is intercepted when Connect finds a service for its host, and
\* keeps that host; a plain connection turns to the host of each request.
LEMMA RoutedKept ==
    ASSUME IInv, NEW c \in Conn, Step(c)
    PROVE  Routed(c)'
<1>. USE DEF Routed, TypeOK
<1>1. TypeOK /\ Sourced /\ Shape(c) /\ Routed(c)
  BY DEF IInv
<1>2. CASE \E host \in RequestHost, creds \in ProxyCreds : Connect(c, host, creds)
  <2>1. PICK host \in RequestHost, creds \in ProxyCreds : Connect(c, host, creds)
    BY <1>2
  <2>2. Lookup(services, host) # NoService => Named(host)
    BY <1>1, LookupSourced DEF Named
  <2>3. mode'[c] = "mitm" => Lookup(services, host) # NoService
    BY <1>1, <2>1 DEF Connect
  <2>4. mode[c] = "new" /\ mode'[c] # "plain" /\ target'[c] = host /\ by' = by
    BY <1>1, <2>1 DEF Connect
  <2>5. QED
    BY <1>1, <2>2, <2>3, <2>4 DEF Named
<1>3. CASE \E req \in ClientRequest : Begin(c, req)
  BY <1>1, <1>3 DEF Begin, Named
<1>4. CASE pc[c] # "idle"
  <2>1. mode[c] \in {"plain", "mitm"}
    BY <1>1, <1>4 DEF Shape
  <2>2. mode' = mode /\ target' = target /\ asked' = asked
    BY <1>4, <2>1 DEF Step, Connect, Begin, Gate, RequestID, Drop, SecurityStrip, CheckPolicy, Strip,
       RecordRequest, PassThrough, SecretUnavailable, UnknownStrategy, ApplyFails, Inject, Respond,
       conn
  <2>3. QED
    BY <1>1, <2>1, <2>2 DEF Named
<1>5. QED
  BY <1>2, <1>3, <1>4 DEF Step, Gate, RequestID, Drop, SecurityStrip, CheckPolicy, Strip,
     RecordRequest, PassThrough, SecretUnavailable, UnknownStrategy, ApplyFails, Inject, Respond

-----------------------------------------------------------------------------
\* Startup establishes the invariant.
LEMMA InvInit == Init => IInv
<1>. SUFFICES ASSUME Init PROVE IInv
  OBVIOUS
<1>1. TypeOK
  <2>1. services \in Services
    BY SetupType DEF Init
  <2>2. headers \in [Conn -> Headers]
    BY MetaTypes DEF Init
  <2>3. changes \in 0..MaxChanges /\ served \in [Conn -> 0..MaxRequests]
    BY GatewayAssumption DEF Init
  <2>4. QED
    BY <2>1, <2>2, <2>3 DEF Init, TypeOK, Status, ProxyCreds
<1>2. Sourced
  BY SetupSourced DEF Init, Sourced
<1>3. \A c \in Conn : Shape(c) /\ Authentic(c) /\ Cleared(c) /\ Paired(c) /\ Routed(c)
  BY DEF Init, Shape, Authentic, Cleared, Paired, Routed, Stage
<1>4. QED
  BY <1>1, <1>2, <1>3 DEF IInv

\* A change of the registry keeps its entries sourced and touches nothing
\* that the other conjuncts speak of.
LEMMA RegistryKeeps ==
    ASSUME IInv, RegistryChanges
    PROVE  IInv'
<1>1. TypeOK /\ Sourced
  BY DEF IInv
<1>2. UNCHANGED <<mode, tunnel, target, meta, served, pc, asked, headers, by, status, recorded>>
  BY DEF RegistryChanges, conn
<1>3. services' \in Services /\ Sourced'
  <2>1. CASE \E grant \in Admissible : Registry!Activate(grant)
    <3>1. PICK grant \in Admissible : services' = [services EXCEPT ![grant.key] = grant.service]
      BY <2>1 DEF Registry!Activate
    <3>2. QED
      BY <1>1, <3>1, AdmissibleSourced DEF TypeOK, Services, Sourced
  <2>2. CASE \E key \in HostKey : Registry!TearDown(key)
    <3>1. PICK key \in HostKey : services' = [services EXCEPT ![key] = NoService]
      BY <2>2 DEF Registry!TearDown
    <3>2. QED
      BY <1>1, <3>1 DEF TypeOK, Services, Sourced
  <2>3. QED
    BY <2>1, <2>2 DEF RegistryChanges, Registry!Next
<1>4. changes' \in 0..MaxChanges /\ disturbed' \in [Conn -> BOOLEAN]
  BY <1>1, GatewayAssumption DEF RegistryChanges, TypeOK
<1>5. TypeOK'
  BY <1>1, <1>2, <1>3, <1>4 DEF TypeOK
<1>6. \A c \in Conn : (Shape(c) /\ Authentic(c) /\ Cleared(c) /\ Paired(c) /\ Routed(c))'
  BY <1>2 DEF IInv, Shape, Authentic, Cleared, Paired, PairedBy, Routed, Named
<1>7. QED
  BY <1>3, <1>5, <1>6 DEF IInv

\* Every step keeps the invariant.
LEMMA InvNext == IInv /\ [Next]_vars => IInv'
<1>. SUFFICES ASSUME IInv, [Next]_vars PROVE IInv'
  OBVIOUS
<1>1. CASE RegistryChanges
  BY <1>1, RegistryKeeps
<1>2. CASE \E c \in Conn : Step(c)
  <2>1. PICK c \in Conn : Step(c)
    BY <1>2
  <2>2. services' = services
    BY <2>1 DEF Step, Connect, Begin, Gate, RequestID, Drop, SecurityStrip, CheckPolicy, Strip,
       RecordRequest, PassThrough, SecretUnavailable, UnknownStrategy, ApplyFails, Inject, Respond, registry
  <2>3. Sourced'
    BY <2>2 DEF IInv, Sourced
  <2>4. \A d \in Conn : (Shape(d) /\ Authentic(d) /\ Cleared(d) /\ Paired(d) /\ Routed(d))'
    BY <2>1, OthersKeep, ShapeKept, AuthenticKept, ClearedKept, PairedKept, RoutedKept
  <2>5. QED
    BY <2>1, <2>3, <2>4, StepTyped DEF IInv
<1>3. CASE UNCHANGED vars
  BY <1>3 DEF vars, registry, conn, IInv, TypeOK, Sourced, Shape, Authentic, Cleared, Paired,
      PairedBy, Routed, Named
<1>4. QED
  BY <1>1, <1>2, <1>3 DEF Next

\* The invariant holds in every reachable state.
LEMMA Invariant == Spec => []IInv
BY InvInit, InvNext, PTL DEF Spec

(***************************************************************************)
(* The variables of the pipeline keep their types.                         *)
(***************************************************************************)
THEOREM GatewayTyped == Spec => []TypeOK
<1>1. IInv => TypeOK
  BY DEF IInv
<1>2. QED
  BY <1>1, Invariant, PTL

(***************************************************************************)
(* proxyAuthHandler lets nothing past but what authenticated itself, or    *)
(* came through a tunnel whose CONNECT did.                                *)
(***************************************************************************)
THEOREM GateSafe == Spec => []GateHolds
<1>1. IInv => GateHolds
  BY DEF IInv, GateHolds, Cleared
<1>2. QED
  BY <1>1, Invariant, PTL

(***************************************************************************)
(* authHandler puts a credential only where the configuration or a pairing *)
(* puts it for the Host of the request, although it looks the service up   *)
(* again at the last moment; and whatever Host a request in a tunnel       *)
(* names, a tunnel that is intercepted leads to a host they name.          *)
(***************************************************************************)
THEOREM PairingSafe == Spec => []CredentialStaysPaired
<1>1. ASSUME IInv, NEW c \in Conn, by[c] # NoService
      PROVE  /\ \E x \in Configured \cup Grantable :
                    PairedBy(x, c) /\ (Straight(c) => Covers(x.host, target[c]))
             /\ Named(target[c])
  <2>1. PICK x \in Configured \cup Grantable : PairedBy(x, c)
    BY <1>1 DEF IInv, Paired
  <2>2. Straight(c) => Covers(x.host, target[c])
    BY <2>1 DEF PairedBy, Straight, Covers
  <2>3. Named(target[c])
    BY <1>1, <2>1 DEF IInv, Routed, PairedBy, Named
  <2>4. QED
    BY <2>1, <2>2, <2>3
<1>2. IInv => CredentialStaysPaired
  BY <1>1 DEF CredentialStaysPaired, PairedBy, Named
<1>3. QED
  BY <1>2, Invariant, PTL

-----------------------------------------------------------------------------
(***************************************************************************)
(* What the stages did, while the registry stood still: every one of them  *)
(* found the same service.                                                 *)
(***************************************************************************)
Steady(c) == ~disturbed[c] /\ Found(c)

AfterRequestID == {"drop", "securityStrip", "policy", "strip", "recordRequest", "inject"}
AfterDrop      == {"securityStrip", "policy", "strip", "recordRequest", "inject"}
AfterSecurity  == {"policy", "strip", "recordRequest", "inject"}
AfterPolicy    == {"strip", "recordRequest", "inject"}

Sent(c) == pc[c] = "respond" /\ status[c] = "upstream"

\* Past a check, the request has passed it.
Judged(c) ==
    Steady(c) =>
        /\ pc[c] \in AfterDrop \/ Sent(c) => ~Dropped(Svc(c), asked[c].host, asked[c].path)
        /\ pc[c] \in AfterPolicy \/ Sent(c) => Permits(Svc(c).policy, asked[c])

\* The service's placeholder is in the header where authHandler looks for it.
Asks(hs, svc) == ContainsPlaceholder(FirstOf(hs[PlaceholderHeader(svc)]), svc)

\* A placeholder that the request may keep: strip does not list its header.
Kept(svc) == svc.placeholder # NoName /\ PlaceholderHeader(svc) \notin svc.strip

\* A header is gone, or it is as it came and the placeholder is its first value.
Spared(values, sent, svc) ==
    \/ values = <<>>
    \/ values # <<>> /\ values = sent /\ values[1].token = svc.placeholder

BeforeSecurity == {"gate", "requestID", "drop", "securityStrip"}

\* Until the injection, the client's credentials go and its placeholder stays.
Exchanged(c) ==
    Steady(c) =>
        /\ pc[c] \in BeforeSecurity => headers[c] = asked[c].headers
        /\ pc[c] \in AfterSecurity =>
              \A h \in KnownAuthHeader : Spared(headers[c][h], asked[c].headers[h], Svc(c))
        /\ pc[c] \in Stage /\ Kept(Svc(c)) =>
              (Asks(headers[c], Svc(c)) <=> Asks(asked[c].headers, Svc(c)))
        /\ Sent(c) =>
              /\ \A h \in KnownAuthHeader :
                    \/ Spared(headers[c][h], asked[c].headers[h], Svc(c))
                    \/ headers[c][h] = Injected(Svc(c))
              /\ by[c] # NoService =>
                    headers[c][StrategyHeader(Svc(c).auth)] = Injected(Svc(c))
              /\ Kept(Svc(c)) => (by[c] = Svc(c) <=> Asks(asked[c].headers, Svc(c)))

\* The metadata holds a clone of the current request.
Cloned(c) == meta[c] # NoMeta /\ meta[c].request = served[c] /\ ~meta[c].shared

\* What was cloned is what is sent, but for the credential.
Recording(c) ==
    Steady(c) =>
        /\ pc[c] = "inject" => Cloned(c) /\ meta[c].headers = headers[c]
        /\ Sent(c) => /\ Cloned(c)
                      /\ headers[c] = IF by[c] = NoService THEN meta[c].headers
                                      ELSE Applied(meta[c].headers, by[c])

\* No credential gets where the recorder looks: headers are clean until the
\* injection, and what the metadata holds is a clone made before it.
Unspoiled(c) ==
    /\ pc[c] \in Stage => Clean(headers[c])
    /\ meta[c] # NoMeta => Clean(meta[c].headers)
    /\ mode[c] = "mitm" => meta[c] # NoMeta /\ ~meta[c].shared
    /\ \/ mode[c] = "new"
       \/ mode[c] = "plain" /\ pc[c] \in {"idle", "gate", "requestID"}
       => meta[c] = NoMeta
    /\ pc[c] # "idle" /\ ~disturbed[c] /\ meta[c] # NoMeta => ~meta[c].shared
    /\ pc[c] \in AfterRequestID /\ Steady(c) => meta[c] # NoMeta

Conduct(c) == Judged(c) /\ Exchanged(c) /\ Recording(c) /\ Unspoiled(c)

\* The stages of a request leave alone what they look the service up by.
LEMMA StageLooks ==
    ASSUME IInv, NEW c \in Conn, Step(c), pc[c] # "idle"
    PROVE  /\ \/ Gate(c) \/ RequestID(c) \/ Drop(c) \/ SecurityStrip(c) \/ CheckPolicy(c)
              \/ Strip(c) \/ RecordRequest(c) \/ PassThrough(c) \/ SecretUnavailable(c)
              \/ UnknownStrategy(c) \/ ApplyFails(c) \/ Inject(c) \/ Respond(c)
           /\ asked' = asked /\ disturbed' = disturbed /\ served' = served /\ mode' = mode
           /\ Svc(c)' = Svc(c) /\ (Found(c)' <=> Found(c)) /\ (Steady(c)' <=> Steady(c))
<1>1. Shape(c)
  BY DEF IInv
<1>2. \/ Gate(c) \/ RequestID(c) \/ Drop(c) \/ SecurityStrip(c) \/ CheckPolicy(c)
      \/ Strip(c) \/ RecordRequest(c) \/ PassThrough(c) \/ SecretUnavailable(c)
      \/ UnknownStrategy(c) \/ ApplyFails(c) \/ Inject(c) \/ Respond(c)
  BY <1>1 DEF Step, Connect, Begin, Shape
<1>3. /\ services' = services /\ asked' = asked /\ disturbed' = disturbed
      /\ served' = served /\ mode' = mode
  BY <1>2 DEF Gate, RequestID, Drop, SecurityStrip, CheckPolicy, Strip, RecordRequest,
     PassThrough, SecretUnavailable, UnknownStrategy, ApplyFails, Inject, Respond, registry, conn
<1>4. Svc(c)' = Svc(c)
  BY <1>3 DEF Svc
<1>5. QED
  BY <1>2, <1>3, <1>4 DEF Found, Steady

\* Another connection's request is not concerned.
LEMMA ConductApart ==
    ASSUME IInv, NEW c \in Conn, Step(c), NEW d \in Conn, d # c, Conduct(d)
    PROVE  Conduct(d)'
<1>1. TypeOK
  BY DEF IInv
<1>2. /\ mode'[d] = mode[d] /\ meta'[d] = meta[d] /\ served'[d] = served[d] /\ pc'[d] = pc[d]
      /\ asked'[d] = asked[d] /\ headers'[d] = headers[d] /\ by'[d] = by[d]
      /\ status'[d] = status[d] /\ disturbed'[d] = disturbed[d] /\ services' = services
  BY <1>1 DEF Step, Connect, Begin, Gate, RequestID, Drop, SecurityStrip, CheckPolicy, Strip,
     RecordRequest, PassThrough, SecretUnavailable, UnknownStrategy, ApplyFails, Inject, Respond, Pass, Answer,
     TypeOK, conn, registry
<1>3. Svc(d)' = Svc(d) /\ (Steady(d)' <=> Steady(d)) /\ (Sent(d)' <=> Sent(d))
  BY <1>2 DEF Svc, Found, Steady, Sent
<1>4. Judged(d)' /\ Exchanged(d)'
  BY <1>2, <1>3 DEF Conduct, Judged, Exchanged
<1>5. Recording(d)' /\ Unspoiled(d)'
  BY <1>2, <1>3 DEF Conduct, Recording, Cloned, Unspoiled
<1>6. QED
  BY <1>4, <1>5 DEF Conduct

\* A change of the registry disturbs every request under way.
LEMMA ConductDisturbed ==
    ASSUME IInv, RegistryChanges, NEW c \in Conn, Conduct(c)
    PROVE  Conduct(c)'
<1>1. TypeOK
  BY DEF IInv
<1>2. /\ UNCHANGED <<mode, meta, served, pc, asked, headers, by, status>>
      /\ disturbed'[c] = (disturbed[c] \/ pc[c] # "idle")
  BY <1>1 DEF RegistryChanges, conn
<1>3. pc[c] # "idle" => ~Steady(c)'
  BY <1>2 DEF Steady
<1>4. Judged(c)' /\ Exchanged(c)' /\ Recording(c)'
  BY <1>2, <1>3 DEF Judged, Exchanged, Recording, Sent, Stage, BeforeSecurity, AfterDrop,
     AfterSecurity, AfterPolicy
<1>5. Unspoiled(c)'
  BY <1>2, <1>3 DEF Conduct, Unspoiled, AfterRequestID
<1>6. QED
  BY <1>4, <1>5 DEF Conduct

\* A connection or a request starts with nothing judged and nothing recorded.
LEMMA ConductStarts ==
    ASSUME IInv, NEW c \in Conn, Step(c), pc[c] = "idle", Conduct(c)
    PROVE  Conduct(c)'
<1>. USE DEF TypeOK
<1>1. TypeOK /\ Shape(c) /\ Unspoiled(c)
  BY DEF IInv, Conduct
<1>2. CASE \E host \in RequestHost, creds \in ProxyCreds : Connect(c, host, creds)
  <2>1. pc'[c] = "idle" /\ headers' = headers
    BY <1>2 DEF Connect
  <2>2. Judged(c)' /\ Exchanged(c)' /\ Recording(c)'
    BY <2>1 DEF Judged, Exchanged, Recording, Sent, Stage, BeforeSecurity, AfterDrop,
       AfterSecurity, AfterPolicy
  <2>3. [FreshMeta EXCEPT !.authenticated = TRUE].headers = NoHeaders
        /\ ~[FreshMeta EXCEPT !.authenticated = TRUE].shared
        /\ [FreshMeta EXCEPT !.authenticated = TRUE] # NoMeta
    BY MetaTypes, NoMetaAssumption DEF FreshMeta
  <2>4. Clean(NoHeaders)
    BY ValueFacts DEF Clean, NoHeaders
  <2>5. \/ mode'[c] \in {"mitm", "opaque"} /\ meta'[c] = [FreshMeta EXCEPT !.authenticated = TRUE]
        \/ mode'[c] = "refused" /\ meta'[c] = meta[c]
    <3>1. PICK host \in RequestHost, creds \in ProxyCreds : Connect(c, host, creds)
      BY <1>2
    <3>2. CASE creds = "good"
      BY <1>1, <3>1, <3>2 DEF Connect
    <3>3. CASE creds # "good"
      BY <1>1, <3>1, <3>3 DEF Connect
    <3>4. QED
      BY <3>2, <3>3
  <2>6. Unspoiled(c)'
    BY <1>1, <2>1, <2>3, <2>4, <2>5 DEF Unspoiled, Stage, AfterRequestID
  <2>7. QED
    BY <2>2, <2>6 DEF Conduct
<1>3. CASE \E req \in ClientRequest : Begin(c, req)
  <2>1. PICK req \in ClientRequest : Begin(c, req)
    BY <1>3
  <2>2. /\ pc'[c] = "gate" /\ headers'[c] = req.headers /\ asked'[c] = req
        /\ meta' = meta /\ mode'[c] \in {"plain", "mitm"}
        /\ mode'[c] = "plain" => mode[c] \in {"new", "plain"}
        /\ mode'[c] = "mitm" => mode[c] = "mitm"
    BY <1>1, <2>1 DEF Begin
  <2>3. Judged(c)' /\ Exchanged(c)' /\ Recording(c)'
    BY <2>2 DEF Judged, Exchanged, Recording, Sent, AfterDrop, AfterSecurity, AfterPolicy
  <2>4. Clean(req.headers)
    BY ClientAssumption DEF Clean
  <2>5. Unspoiled(c)'
    BY <1>1, <2>1, <2>2, <2>4 DEF Unspoiled, AfterRequestID, Clean
  <2>6. QED
    BY <2>3, <2>5 DEF Conduct
<1>4. QED
  BY <1>2, <1>3 DEF Step, Gate, RequestID, Drop, SecurityStrip, CheckPolicy, Strip,
     RecordRequest, PassThrough, SecretUnavailable, UnknownStrategy, ApplyFails, Inject, Respond

\* Drop and CheckPolicy judge; nothing that follows changes the request.
LEMMA JudgedKept ==
    ASSUME IInv, NEW c \in Conn, Step(c), pc[c] # "idle", Judged(c)
    PROVE  Judged(c)'
<1>. USE DEF TypeOK, AfterDrop, AfterPolicy
<1>1. /\ TypeOK /\ asked' = asked /\ Svc(c)' = Svc(c) /\ (Steady(c)' <=> Steady(c))
      /\ pc[c] \in Stage => status[c] = "none"
  BY StageLooks DEF IInv, Shape
<1>2. SUFFICES ASSUME Steady(c)
               PROVE  /\ pc'[c] \in AfterDrop \/ Sent(c)' =>
                            ~Dropped(Svc(c), asked[c].host, asked[c].path)
                      /\ pc'[c] \in AfterPolicy \/ Sent(c)' => Permits(Svc(c).policy, asked[c])
  BY <1>1 DEF Judged
<1>3. Found(c)
  BY <1>2 DEF Steady
<1>4. CASE Gate(c) \/ RequestID(c) \/ Drop(c) \/ Respond(c)
  BY <1>1, <1>3, <1>4 DEF Gate, RequestID, Drop, Respond, Pass, Answer, Sent, Stage
<1>5. CASE SecurityStrip(c) \/ CheckPolicy(c)
  BY <1>1, <1>2, <1>3, <1>5 DEF SecurityStrip, CheckPolicy, Pass, Answer, Sent, Judged, Stage
<1>6. CASE Strip(c) \/ RecordRequest(c)
  BY <1>1, <1>2, <1>6 DEF Strip, RecordRequest, Pass, Sent, Judged, Stage
<1>7. CASE PassThrough(c) \/ SecretUnavailable(c) \/ UnknownStrategy(c) \/ ApplyFails(c) \/ Inject(c)
  BY <1>1, <1>2, <1>7 DEF PassThrough, SecretUnavailable, UnknownStrategy, ApplyFails, Inject, Answer, Sent,
      Judged
<1>8. QED
  BY <1>4, <1>5, <1>6, <1>7, StageLooks

\* Metadata is clean, and a tunnel's is never shared.
LEMMA UnspoiledKept ==
    ASSUME IInv, NEW c \in Conn, Step(c), pc[c] # "idle", Unspoiled(c)
    PROVE  Unspoiled(c)'
<1>. USE DEF TypeOK, AfterRequestID, Stage
<1>1. /\ TypeOK /\ disturbed' = disturbed /\ mode' = mode /\ (Steady(c)' <=> Steady(c))
      /\ (Found(c)' <=> Found(c)) /\ mode[c] \in {"plain", "mitm"} /\ headers[c] \in Headers
  BY StageLooks DEF IInv, Shape
<1>2. Clean(NoHeaders) /\ (\A token : ~Carries(<<>>, token))
  BY ValueFacts DEF Clean, NoHeaders
<1>3. FreshMeta # NoMeta /\ FreshMeta.headers = NoHeaders /\ ~FreshMeta.shared
  BY MetaTypes, NoMetaAssumption DEF FreshMeta
<1>4. CASE Gate(c) \/ Drop(c) \/ CheckPolicy(c) \/ PassThrough(c) \/ SecretUnavailable(c)
           \/ UnknownStrategy(c) \/ ApplyFails(c) \/ Inject(c)
  <2>1. meta' = meta /\ (pc'[c] \in Stage => headers' = headers)
    BY <1>1, <1>4 DEF Gate, Drop, CheckPolicy, PassThrough, SecretUnavailable, UnknownStrategy,
       ApplyFails, Inject, Pass, Answer
  <2>2. pc'[c] # "idle" /\ (pc'[c] \in AfterRequestID => pc[c] \in AfterRequestID)
        /\ pc'[c] # "gate" /\ (pc[c] = "requestID" => pc'[c] = "requestID") /\ pc[c] \in Stage
    BY <1>1, <1>4 DEF Gate, Drop, CheckPolicy, PassThrough, SecretUnavailable, UnknownStrategy,
       ApplyFails, Inject, Pass, Answer
  <2>3. pc'[c] = "requestID" => pc[c] = "gate"
    BY <1>1, <1>4 DEF Gate, Drop, CheckPolicy, PassThrough, SecretUnavailable, UnknownStrategy,
       ApplyFails, Inject, Pass, Answer
  <2>4. QED
    BY <1>1, <2>1, <2>2, <2>3 DEF Unspoiled, Clean
<1>5. CASE RequestID(c)
  BY <1>1, <1>2, <1>3, <1>5 DEF RequestID, Pass, Unspoiled, Steady, Clean
<1>6. CASE SecurityStrip(c)
  <2>1. \A h \in HeaderName : Stripped(headers[c], Svc(c))[h] \in {<<>>, headers[c][h]}
    BY DEF Stripped
  <2>2. Clean(headers'[c])
    <3>1. Clean(headers[c])
      BY <1>1, <1>6 DEF SecurityStrip, Unspoiled
    <3>2. headers'[c] \in {headers[c], Stripped(headers[c], Svc(c))}
      BY <1>1, <1>6 DEF SecurityStrip
    <3>3. QED
      BY <1>2, <2>1, <3>1, <3>2 DEF Clean
  <2>3. LET made == [FreshMeta EXCEPT !.request = served[c], !.shared = TRUE]
        IN made.headers = NoHeaders
    BY DEF FreshMeta
  <2>4. meta'[c] = meta[c] \/ (meta[c] = NoMeta /\ Found(c) /\ Clean(meta'[c].headers))
    BY <1>1, <1>2, <1>6, <2>3 DEF SecurityStrip
  <2>5. pc[c] = "securityStrip" /\ pc'[c] = "policy"
    BY <1>1, <1>6 DEF SecurityStrip, Pass
  <2>6. QED
    BY <1>1, <2>2, <2>4, <2>5 DEF Unspoiled, Steady, Clean
<1>7. CASE Strip(c)
  <2>1. Clean(headers'[c])
    BY <1>1, <1>2, <1>7 DEF Strip, Unspoiled, Clean
  <2>2. pc[c] = "strip" /\ pc'[c] = "recordRequest" /\ meta' = meta
    BY <1>1, <1>7 DEF Strip, Pass
  <2>3. QED
    BY <1>1, <2>1, <2>2 DEF Unspoiled, Clean
<1>8. CASE RecordRequest(c)
  <2>. DEFINE held == IF meta[c] = NoMeta THEN FreshMeta ELSE meta[c]
              next == [held EXCEPT !.request = served[c], !.shared = FALSE, !.headers = headers[c]]
  <2>1. held \in Meta
    BY <1>1, MetaTypes
  <2>2. ~next.shared /\ next.headers = headers[c] /\ next # NoMeta
    <3>1. ~next.shared /\ next.headers = headers[c]
      BY <2>1 DEF Meta
    <3>2. served[c] \in 0..MaxRequests
      BY <1>1
    <3>3. next \in Meta
      BY <1>1, <2>1, <3>2, MetaTypes
    <3>. HIDE DEF next
    <3>4. QED
      BY <3>1, <3>3, NoMetaAssumption
  <2>3. meta'[c] = IF Found(c) THEN next ELSE meta[c]
    BY <1>1, <1>8 DEF RecordRequest
  <2>4. pc[c] = "recordRequest" /\ pc'[c] = "inject" /\ headers' = headers
    BY <1>1, <1>8 DEF RecordRequest, Pass
  <2>. HIDE DEF next, held
  <2>5. QED
    BY <1>1, <2>2, <2>3, <2>4 DEF Unspoiled, Steady, Clean
<1>9. CASE Respond(c)
  BY <1>1, <1>9 DEF Respond, Unspoiled, Clean
<1>10. QED
  BY <1>4, <1>5, <1>6, <1>7, <1>8, <1>9, StageLooks

\* What a service's handlers do to one header of a request.
LEMMA HeaderFacts ==
    ASSUME NEW hs \in Headers, NEW svc \in Service
    PROVE  /\ PlaceholderHeader(svc) \in HeaderName
           /\ \A h \in KnownAuthHeader : Spared(Stripped(hs, svc)[h], hs[h], svc)
           /\ svc.placeholder # NoName => (Asks(Stripped(hs, svc), svc) <=> Asks(hs, svc))
           /\ \A h \in HeaderName :
                 Applied(hs, svc)[h] = hs[h] \/ Applied(hs, svc)[h] = Injected(svc)
<1>1. PlaceholderHeader(svc) \in HeaderName
  BY GatewayAssumption DEF PlaceholderHeader, Service
<1>2. svc.placeholder # NoName => ~ContainsPlaceholder(FirstOf(<<>>), svc)
  BY DEF ContainsPlaceholder, FirstOf, NoValue
<1>3. \A h \in KnownAuthHeader : Spared(Stripped(hs, svc)[h], hs[h], svc)
  <2>1. SUFFICES ASSUME NEW h \in KnownAuthHeader
                 PROVE  Spared(Stripped(hs, svc)[h], hs[h], svc)
    OBVIOUS
  <2>2. CASE ContainsPlaceholder(FirstOf(hs[h]), svc)
    <3>1. Stripped(hs, svc)[h] = hs[h]
      BY <2>2, GatewayAssumption DEF Stripped
    <3>2. hs[h] # <<>> /\ FirstOf(hs[h]).token = svc.placeholder
      BY <1>2, <2>2 DEF ContainsPlaceholder
    <3>3. QED
      BY <3>1, <3>2 DEF Spared, FirstOf
  <2>3. CASE ~ContainsPlaceholder(FirstOf(hs[h]), svc)
    BY <2>3, GatewayAssumption DEF Stripped, Spared
  <2>4. QED
    BY <2>2, <2>3
<1>4. svc.placeholder # NoName => (Asks(Stripped(hs, svc), svc) <=> Asks(hs, svc))
  <2>1. Stripped(hs, svc)[PlaceholderHeader(svc)] =
           IF PlaceholderHeader(svc) \in KnownAuthHeader /\ ~Asks(hs, svc)
             THEN <<>> ELSE hs[PlaceholderHeader(svc)]
    BY <1>1 DEF Stripped, Asks
  <2>2. QED
    BY <1>2, <2>1 DEF Asks
<1>5. \A h \in HeaderName :
         Applied(hs, svc)[h] = hs[h] \/ Applied(hs, svc)[h] = Injected(svc)
  BY DEF Applied, Headers
<1>6. QED
  BY <1>1, <1>3, <1>4, <1>5

\* The placeholder stays until the credential takes its place, and the
\* client's own credentials do not get that far.
LEMMA ExchangedKept ==
    ASSUME IInv, NEW c \in Conn, Step(c), pc[c] # "idle", Exchanged(c)
    PROVE  Exchanged(c)'
<1>. USE DEF TypeOK, BeforeSecurity, AfterSecurity, Stage, Sent
<1>. DEFINE svc == Svc(c)
<1>1. /\ TypeOK /\ asked' = asked /\ Svc(c)' = svc /\ (Steady(c)' <=> Steady(c))
      /\ pc[c] \in Stage => status[c] = "none" /\ by[c] = NoService
      /\ headers[c] \in Headers
  BY StageLooks DEF IInv, Shape
<1>2. SUFFICES ASSUME Steady(c)
               PROVE  Exchanged(c)'
  BY <1>1 DEF Exchanged
<1>3. Found(c) /\ svc \in Service
  BY <1>1, <1>2, LookupType DEF Steady, Found, Svc
<1>. HIDE DEF svc
<1>4. SUFFICES
        /\ pc'[c] \in BeforeSecurity => headers'[c] = asked[c].headers
        /\ pc'[c] \in AfterSecurity =>
              \A h \in KnownAuthHeader : Spared(headers'[c][h], asked[c].headers[h], svc)
        /\ pc'[c] \in Stage /\ Kept(svc) => (Asks(headers'[c], svc) <=> Asks(asked[c].headers, svc))
        /\ Sent(c)' =>
              /\ \A h \in KnownAuthHeader :
                    \/ Spared(headers'[c][h], asked[c].headers[h], svc)
                    \/ headers'[c][h] = Injected(svc)
              /\ by'[c] # NoService => headers'[c][StrategyHeader(svc.auth)] = Injected(svc)
              /\ Kept(svc) => (by'[c] = svc <=> Asks(asked[c].headers, svc))
  BY <1>1, <1>2 DEF Exchanged
<1>5. /\ pc[c] \in BeforeSecurity => headers[c] = asked[c].headers
      /\ pc[c] \in AfterSecurity =>
            \A h \in KnownAuthHeader : Spared(headers[c][h], asked[c].headers[h], svc)
      /\ pc[c] \in Stage /\ Kept(svc) => (Asks(headers[c], svc) <=> Asks(asked[c].headers, svc))
  BY <1>2 DEF Exchanged, svc
<1>6. CASE Gate(c) \/ RequestID(c) \/ Drop(c) \/ CheckPolicy(c) \/ RecordRequest(c)
           \/ SecretUnavailable(c) \/ UnknownStrategy(c) \/ ApplyFails(c)
  <2>1. /\ headers' = headers /\ pc[c] \in Stage /\ ~Sent(c)'
        /\ pc'[c] \in BeforeSecurity => pc[c] \in BeforeSecurity
        /\ pc'[c] \in AfterSecurity => pc[c] \in AfterSecurity
    BY <1>1, <1>6 DEF Gate, RequestID, Drop, CheckPolicy, RecordRequest, SecretUnavailable,
       UnknownStrategy, ApplyFails, Pass, Answer
  <2>2. QED
    BY <1>5, <2>1
<1>7. CASE SecurityStrip(c)
  <2>1. headers'[c] = Stripped(headers[c], svc) /\ pc[c] = "securityStrip" /\ pc'[c] = "policy"
    BY <1>1, <1>3, <1>7 DEF SecurityStrip, Pass, svc
  <2>2. headers[c] = asked[c].headers
    BY <1>5, <2>1
  <2>3. QED
    BY <1>1, <1>3, <1>5, <2>1, <2>2, HeaderFacts DEF Kept
<1>8. CASE Strip(c)
  <2>1. /\ headers'[c] = [h \in HeaderName |-> IF h \in svc.strip THEN <<>> ELSE headers[c][h]]
        /\ pc[c] = "strip" /\ pc'[c] = "recordRequest"
    BY <1>1, <1>3, <1>8 DEF Strip, Pass, svc
  <2>2. \A h \in KnownAuthHeader : Spared(headers'[c][h], asked[c].headers[h], svc)
    BY <1>5, <2>1, GatewayAssumption DEF Spared
  <2>3. Kept(svc) => (Asks(headers'[c], svc) <=> Asks(headers[c], svc))
    BY <1>1, <1>3, <2>1, HeaderFacts DEF Kept, Asks
  <2>4. QED
    BY <1>5, <2>1, <2>2, <2>3
<1>9. CASE PassThrough(c)
  <2>1. /\ headers' = headers /\ by'[c] = NoService /\ pc[c] = "inject" /\ pc'[c] = "respond"
        /\ ~InjectionDue(c)
    BY <1>1, <1>9 DEF PassThrough, Answer
  <2>2. Kept(svc) => ~Asks(headers[c], svc)
    BY <1>3, <2>1 DEF InjectionDue, Kept, Asks, svc
  <2>3. svc # NoService
    BY <1>3 DEF Found, svc
  <2>4. QED
    BY <1>5, <2>1, <2>2, <2>3
<1>10. CASE Inject(c)
  <2>1. /\ headers'[c] = Applied(headers[c], svc) /\ by'[c] = svc
        /\ pc[c] = "inject" /\ pc'[c] = "respond" /\ InjectionDue(c)
        /\ svc.auth \in Strategies
    BY <1>1, <1>10 DEF Inject, Answer, svc
  <2>2. Kept(svc) => Asks(headers[c], svc)
    BY <2>1 DEF InjectionDue, Kept, Asks, svc
  <2>3. \A h \in KnownAuthHeader :
           \/ Spared(headers'[c][h], asked[c].headers[h], svc)
           \/ headers'[c][h] = Injected(svc)
    <3>1. SUFFICES ASSUME NEW h \in KnownAuthHeader
                   PROVE  \/ Spared(headers'[c][h], asked[c].headers[h], svc)
                          \/ headers'[c][h] = Injected(svc)
      OBVIOUS
    <3>2. headers'[c][h] = headers[c][h] \/ headers'[c][h] = Injected(svc)
      BY <1>1, <1>3, <2>1, HeaderFacts, GatewayAssumption
    <3>3. Spared(headers[c][h], asked[c].headers[h], svc)
      BY <1>5, <2>1
    <3>4. QED
      BY <3>2, <3>3
  <2>4. headers'[c][StrategyHeader(svc.auth)] = Injected(svc)
    <3>1. StrategyHeader(svc.auth) \in HeaderName
      BY <1>3, <2>1, GatewayAssumption DEF StrategyHeader, Strategies, AuthRef, Service
    <3>2. QED
      BY <1>1, <2>1, <3>1 DEF Applied, Headers
  <2>5. QED
    BY <1>5, <2>1, <2>2, <2>3, <2>4
<1>11. CASE Respond(c)
  BY <1>1, <1>11 DEF Respond
<1>12. QED
  BY <1>6, <1>7, <1>8, <1>9, <1>10, <1>11, StageLooks

\* The clone is made right before the injection.
LEMMA RecordingKept ==
    ASSUME IInv, NEW c \in Conn, Step(c), pc[c] # "idle", Recording(c)
    PROVE  Recording(c)'
<1>. USE DEF TypeOK, Stage, Sent
<1>1. /\ TypeOK /\ served' = served /\ (Steady(c)' <=> Steady(c))
      /\ pc[c] \in Stage => status[c] = "none" /\ by[c] = NoService
      /\ headers[c] \in Headers
  BY StageLooks DEF IInv, Shape
<1>2. SUFFICES ASSUME Steady(c)
               PROVE  Recording(c)'
  BY <1>1 DEF Recording
<1>3. Found(c) /\ Svc(c) # NoService
  BY <1>2 DEF Steady, Found
<1>4. CASE Gate(c) \/ RequestID(c) \/ Drop(c) \/ SecurityStrip(c) \/ CheckPolicy(c) \/ Strip(c)
           \/ SecretUnavailable(c) \/ UnknownStrategy(c) \/ ApplyFails(c) \/ Respond(c)
  BY <1>1, <1>4 DEF Recording, Gate, RequestID, Drop, SecurityStrip, CheckPolicy, Strip,
     SecretUnavailable, UnknownStrategy, ApplyFails, Respond, Pass, Answer
<1>5. CASE RecordRequest(c)
  <2>. DEFINE held == IF meta[c] = NoMeta THEN FreshMeta ELSE meta[c]
              next == [held EXCEPT !.request = served[c], !.shared = FALSE, !.headers = headers[c]]
  <2>1. held \in Meta /\ served[c] \in 0..MaxRequests
    BY <1>1, MetaTypes
  <2>2. ~next.shared /\ next.headers = headers[c] /\ next.request = served[c]
    BY <2>1 DEF Meta
  <2>3. next \in Meta
    BY <1>1, <2>1, MetaTypes
  <2>4. meta'[c] = next /\ headers' = headers /\ pc'[c] = "inject"
    BY <1>1, <1>3, <1>5 DEF RecordRequest, Pass
  <2>. HIDE DEF next, held
  <2>5. QED
    BY <1>1, <2>2, <2>3, <2>4, NoMetaAssumption DEF Recording, Cloned
<1>6. CASE PassThrough(c)
  <2>1. /\ meta' = meta /\ headers' = headers /\ by' = by /\ by[c] = NoService
        /\ pc[c] = "inject" /\ pc'[c] = "respond"
    BY <1>1, <1>6 DEF PassThrough, Answer
  <2>2. QED
    BY <1>1, <1>2, <2>1 DEF Recording, Cloned
<1>7. CASE Inject(c)
  <2>1. /\ meta' = meta /\ headers'[c] = Applied(headers[c], by'[c]) /\ by'[c] # NoService
        /\ pc[c] = "inject" /\ pc'[c] = "respond"
    BY <1>1, <1>3, <1>7 DEF Inject, Answer
  <2>2. QED
    BY <1>1, <1>2, <2>1 DEF Recording, Cloned
<1>8. QED
  BY <1>4, <1>5, <1>6, <1>7, StageLooks

\* No request is in the pipeline.
LEMMA ConductInit == Init => \A c \in Conn : Conduct(c)
<1>. SUFFICES ASSUME Init, NEW c \in Conn
              PROVE  Conduct(c)
  OBVIOUS
<1>1. pc[c] = "idle" /\ meta[c] = NoMeta /\ mode[c] = "new"
  BY DEF Init
<1>2. QED
  BY <1>1 DEF Conduct, Judged, Exchanged, Recording, Unspoiled, Sent, Stage, AfterRequestID,
     BeforeSecurity, AfterDrop, AfterSecurity, AfterPolicy

\* A step of a connection, or of the registry beside it.
LEMMA ConductKept ==
    ASSUME IInv, [Next]_vars, \A c \in Conn : Conduct(c)
    PROVE  \A c \in Conn : Conduct(c)'
<1>1. CASE RegistryChanges
  BY <1>1, ConductDisturbed
<1>2. CASE \E c \in Conn : Step(c)
  <2>1. PICK c \in Conn : Step(c)
    BY <1>2
  <2>2. Conduct(c)'
    BY <2>1, ConductStarts, JudgedKept, ExchangedKept, RecordingKept, UnspoiledKept DEF Conduct
  <2>3. QED
    BY <2>1, <2>2, ConductApart
<1>3. CASE UNCHANGED vars
  <2>1. SUFFICES ASSUME NEW c \in Conn
                 PROVE  Conduct(c)'
    OBVIOUS
  <2>2. Svc(c)' = Svc(c) /\ (Steady(c)' <=> Steady(c)) /\ (Sent(c)' <=> Sent(c))
    BY <1>3 DEF vars, registry, Svc, Steady, Found, Sent
  <2>3. Judged(c)' /\ Exchanged(c)'
    BY <1>3, <2>2 DEF vars, registry, Conduct, Judged, Exchanged
  <2>4. Recording(c)' /\ Unspoiled(c)'
    BY <1>3, <2>2 DEF vars, registry, conn, Conduct, Recording, Cloned, Unspoiled
  <2>5. QED
    BY <2>3, <2>4 DEF Conduct
<1>4. QED
  BY <1>1, <1>2, <1>3 DEF Next

\* Every connection conducts itself so, in every state.
LEMMA Conducted == Spec => [](IInv /\ \A c \in Conn : Conduct(c))
<1>1. IInv /\ (\A c \in Conn : Conduct(c)) /\ [Next]_vars => (\A c \in Conn : Conduct(c))'
  BY ConductKept
<1>2. QED
  BY Invariant, ConductInit, <1>1, PTL DEF Spec

(***************************************************************************)
(* What reaches the upstream of a service has passed its drop rules and    *)
(* its scope, as long as the registry stood still during the request.      *)
(***************************************************************************)
THEOREM ScopeEnforced == Spec => []ForwardedInScope
<1>1. IInv /\ (\A c \in Conn : Conduct(c)) => ForwardedInScope
  BY DEF Conduct, Judged, Steady, Sent, ForwardedInScope, Undisturbed, Forwarded
<1>2. QED
  BY Conducted, <1>1, PTL

(***************************************************************************)
(* Of what the client puts into a service's auth headers, the placeholder  *)
(* reaches the upstream and what stands behind it in the same header, and  *)
(* nothing else; and the service's credential goes just to the requests    *)
(* whose client put the placeholder where authHandler looks for it.        *)
(***************************************************************************)
THEOREM ExchangeSafe == Spec => []CredentialsExchanged
<1>1. ASSUME IInv, NEW c \in Conn, Exchanged(c), Undisturbed(c)
      PROVE  /\ \A h \in KnownAuthHeader : \A i \in DOMAIN headers[c][h] :
                   \/ headers[c][h][i].token \in {Svc(c).placeholder, Svc(c).cred}
                   \/ BehindPlaceholder(c, h, i)
             /\ by[c] # NoService => headers[c][StrategyHeader(Svc(c).auth)] = Injected(Svc(c))
             /\ Kept(Svc(c)) => (by[c] = Svc(c) <=> AskedFor(c))
  <2>1. Steady(c) /\ Sent(c)
    BY <1>1 DEF Undisturbed, Forwarded, Steady, Sent
  <2>2. asked[c] \in HttpRequest /\ Svc(c) \in Service
    BY <1>1, <2>1, LookupType, GatewayAssumption DEF IInv, TypeOK, Shape, Sent, Steady, Found, Svc
  <2>3. PlaceholderHeader(Svc(c)) \in HeaderName /\ asked[c].headers \in Headers
    BY <2>2, HeaderFacts DEF HttpRequest
  <2>4. FirstOf(asked[c].headers[PlaceholderHeader(Svc(c))]).bearer \in BOOLEAN
    <3>1. asked[c].headers[PlaceholderHeader(Svc(c))] \in Seq(Value)
      BY <2>3 DEF Headers
    <3>2. FirstOf(asked[c].headers[PlaceholderHeader(Svc(c))]) \in Value
      <4>1. NoValue \in Value
        BY DEF NoValue, Value
      <4>2. QED
        BY <3>1, <4>1 DEF FirstOf
    <3>3. QED
      BY <3>2 DEF Value
  <2>5. Kept(Svc(c)) => (Asks(asked[c].headers, Svc(c)) <=> AskedFor(c))
    BY <2>4 DEF Kept, Asks, ContainsPlaceholder, AskedFor
  <2>6. ASSUME NEW h \in KnownAuthHeader, NEW i \in DOMAIN headers[c][h]
        PROVE  \/ headers[c][h][i].token \in {Svc(c).placeholder, Svc(c).cred}
               \/ BehindPlaceholder(c, h, i)
    <3>1. headers[c][h] \in Seq(Value)
      BY <1>1, GatewayAssumption DEF IInv, TypeOK, Headers
    <3>2. i \in Nat /\ i >= 1 /\ headers[c][h] # <<>>
      BY <2>6, <3>1
    <3>3. CASE Spared(headers[c][h], asked[c].headers[h], Svc(c))
      BY <3>2, <3>3 DEF Spared, BehindPlaceholder
    <3>4. CASE headers[c][h] = Injected(Svc(c))
      BY <2>6, <3>4 DEF Injected
    <3>5. QED
      BY <1>1, <2>1, <3>3, <3>4 DEF Exchanged
  <2>7. QED
    BY <1>1, <2>1, <2>5, <2>6 DEF Exchanged
<1>2. IInv /\ (\A c \in Conn : Conduct(c)) => CredentialsExchanged
  BY <1>1 DEF Conduct, CredentialsExchanged, Kept
<1>3. QED
  BY Conducted, <1>2, PTL

(***************************************************************************)
(* The recorder holds the request that was forwarded, as it was before the *)
(* credential went in.                                                     *)
(***************************************************************************)
THEOREM RecordFaithful == Spec => []ForwardedRecorded
<1>1. ASSUME IInv, NEW c \in Conn, Recording(c), Undisturbed(c)
      PROVE  /\ meta[c].request = served[c]
             /\ \A h \in HeaderName :
                   \/ Held(c)[h] = headers[c][h]
                   \/ by[c] # NoService /\ headers[c][h] = Injected(by[c])
  <2>1. Steady(c) /\ Sent(c)
    BY <1>1 DEF Undisturbed, Forwarded, Steady, Sent
  <2>2. /\ Cloned(c)
        /\ headers[c] = IF by[c] = NoService THEN meta[c].headers
                        ELSE Applied(meta[c].headers, by[c])
    BY <1>1, <2>1 DEF Recording
  <2>3. Held(c) = meta[c].headers /\ meta[c].headers \in Headers
    BY <1>1, <2>2 DEF Cloned, Held, IInv, TypeOK, Meta
  <2>4. by[c] # NoService => by[c] \in Service
    BY <1>1 DEF IInv, TypeOK
  <2>5. QED
    BY <2>2, <2>3, <2>4, HeaderFacts DEF Cloned
<1>2. IInv /\ (\A c \in Conn : Conduct(c)) => ForwardedRecorded
  BY <1>1 DEF Conduct, ForwardedRecorded
<1>3. QED
  BY Conducted, <1>2, PTL

(***************************************************************************)
(* The recorder gets no credential: in a tunnel whatever the registry      *)
(* does, in a plain request as long as it stands still.                    *)
(***************************************************************************)
THEOREM RecorderClean == Spec => []RecordClean
<1>1. IInv /\ (\A c \in Conn : Conduct(c)) => RecordClean
  BY DEF Conduct, Unspoiled, RecordClean, Held
<1>2. QED
  BY Conducted, <1>1, PTL
=============================================================================
