------------------------------- MODULE Gateway -------------------------------
(***************************************************************************)
(* The injecting proxy (internal/proxy): what a request goes through       *)
(* between the client and the upstream.  Every stage looks its service up  *)
(* for itself, and the control plane changes the registry meanwhile; the   *)
(* registry here is the ledger that ControlPlane is shown to implement.    *)
(*                                                                         *)
(* goproxy runs the handlers of NewWithMITM in their order until one of    *)
(* them answers, and the response handler after that in any case.  The     *)
(* requests of one connection follow each other.  Those of a tunnel share  *)
(* the metadata its CONNECT left; a plain request starts without any.      *)
(***************************************************************************)
EXTENDS UrlPattern, GrantEnforcer

CONSTANTS
    Conn,             \* client connections
    ClientRequest,    \* the requests clients send
    KnownAuthHeader,  \* auth.KnownAuthHeaders
    NoMeta,           \* ctx.UserData is nil
    MaxRequests,      \* bound: requests on one connection
    MaxChanges        \* bound: changes of the registry

VARIABLES
    services,   \* Registry.services
    changes,    \* how often it changed
    mode,       \* what each connection is
    tunnel,     \* the proxy credentials its CONNECT presented
    target,     \* the host it reaches: of a tunnel, the one its CONNECT named
    meta,       \* its *requestMetadata
    served,     \* how many requests it carried, the current one included
    pc,         \* the stage its request is at
    asked,      \* the request as the client sent it
    headers,    \* the request's headers as they are now
    by,         \* the service whose credential was injected
    status,     \* the answer
    disturbed,  \* history: the registry changed during the request
    recorded    \* what the recorder was given

conn == <<mode, tunnel, target>>
registry == <<services, changes, disturbed>>
vars == <<registry, conn, meta, served, pc, asked, headers, by, status, recorded>>

\* A value of a header; that of a credential is named by its ref.  A header
\* may have several values and, if it is not there, has none.
Value == [bearer : BOOLEAN, token : Token \cup Credential \cup {NoName}]
NoValue == [bearer |-> FALSE, token |-> NoName]
Headers == [HeaderName -> Seq(Value)]
NoHeaders == [h \in HeaderName |-> <<>>]

\* http.Header.Get.
FirstOf(values) == IF values = <<>> THEN NoValue ELSE values[1]

Carries(values, token) == \E i \in DOMAIN values : values[i].token = token

ProxyCreds == {"none", "bad", "good"}

HttpRequest ==
    [host : RequestHost, method : Method, path : RequestPath, size : ByteCount,
     creds : ProxyCreds, headers : Headers]

ASSUME GatewayAssumption ==
    /\ ClientRequest \subseteq HttpRequest
    /\ KnownAuthHeader \subseteq HeaderName
    /\ "authorization" \in KnownAuthHeader
    /\ DropText \subseteq DropRule
    /\ Token \cap Credential = {}
    /\ MaxRequests \in Nat /\ MaxChanges \in Nat

\* What the gateway keeps from its clients, they do not have to send.
ASSUME ClientAssumption ==
    \A req \in ClientRequest, h \in HeaderName, cred \in Credential : ~Carries(req.headers[h], cred)

\* requestMetadata: which request it was last given, and whether it holds
\* that request itself (shared) or a clone.
Meta ==
    [authenticated : BOOLEAN, request : 0..MaxRequests, shared : BOOLEAN, headers : Headers]

ASSUME NoMetaAssumption == NoMeta \notin Meta

FreshMeta ==
    [authenticated |-> FALSE, request |-> 0, shared |-> FALSE, headers |-> NoHeaders]

Stage ==
    {"gate", "requestID", "drop", "securityStrip", "policy", "strip", "recordRequest", "inject"}

Status == {"none", "407", "403", "413", "502", "503", "upstream"}

TypeOK ==
    /\ services \in Services
    /\ changes \in 0..MaxChanges
    /\ mode \in [Conn -> {"new", "plain", "mitm", "opaque", "refused"}]
    /\ tunnel \in [Conn -> ProxyCreds]
    /\ target \in [Conn -> RequestHost \cup {NoMeta}]
    /\ meta \in [Conn -> Meta \cup {NoMeta}]
    /\ served \in [Conn -> 0..MaxRequests]
    /\ pc \in [Conn -> Stage \cup {"idle", "respond"}]
    /\ asked \in [Conn -> ClientRequest \cup {NoMeta}]
    /\ headers \in [Conn -> Headers]
    /\ by \in [Conn -> Service \cup {NoService}]
    /\ status \in [Conn -> Status]
    /\ disturbed \in [Conn -> BOOLEAN]
    /\ recorded \subseteq
          [conn : Conn, request : 1..MaxRequests, response : 1..MaxRequests, headers : Headers]

Init ==
    /\ services = Setup(Configured)
    /\ changes = 0
    /\ mode = [c \in Conn |-> "new"]
    /\ tunnel = [c \in Conn |-> "none"]
    /\ target = [c \in Conn |-> NoMeta]
    /\ meta = [c \in Conn |-> NoMeta]
    /\ served = [c \in Conn |-> 0]
    /\ pc = [c \in Conn |-> "idle"]
    /\ asked = [c \in Conn |-> NoMeta]
    /\ headers = [c \in Conn |-> NoHeaders]
    /\ by = [c \in Conn |-> NoService]
    /\ status = [c \in Conn |-> "none"]
    /\ disturbed = [c \in Conn |-> FALSE]
    /\ recorded = {}

-----------------------------------------------------------------------------
(***************************************************************************)
(* The registry, changed by the control plane at any time.                 *)
(***************************************************************************)
Registry == INSTANCE GrantLedger WITH
    Key <- HostKey, Nothing <- NoService, Initial <- Setup(Configured), live <- services

RegistryChanges ==
    /\ changes < MaxChanges
    /\ Registry!Next
    /\ services' # services
    /\ changes' = changes + 1
    /\ disturbed' = [c \in Conn |-> disturbed[c] \/ pc[c] # "idle"]
    /\ UNCHANGED <<conn, meta, served, pc, asked, headers, by, status, recorded>>

\* Mutant of Connect: any proxy credentials open the tunnel.
ConnectAny(c, host, creds) ==
    /\ mode[c] = "new"
    /\ tunnel' = [tunnel EXCEPT ![c] = creds]
    /\ target' = [target EXCEPT ![c] = host]
    /\ IF creds # "none"
         THEN /\ meta' = [meta EXCEPT ![c] = [FreshMeta EXCEPT !.authenticated = TRUE]]
              /\ mode' = [mode EXCEPT ![c] =
                             IF Lookup(services, host) # NoService THEN "mitm" ELSE "opaque"]
         ELSE /\ UNCHANGED meta
              /\ mode' = [mode EXCEPT ![c] = "refused"]
    /\ UNCHANGED <<registry, served, pc, asked, headers, by, status, recorded>>

\* Mutant of Connect: every tunnel is intercepted.
ConnectIntercepts(c, host, creds) ==
    /\ mode[c] = "new"
    /\ tunnel' = [tunnel EXCEPT ![c] = creds]
    /\ target' = [target EXCEPT ![c] = host]
    /\ IF creds = "good"
         THEN /\ meta' = [meta EXCEPT ![c] = [FreshMeta EXCEPT !.authenticated = TRUE]]
              /\ mode' = [mode EXCEPT ![c] = "mitm"]
         ELSE /\ UNCHANGED meta
              /\ mode' = [mode EXCEPT ![c] = "refused"]
    /\ UNCHANGED <<registry, served, pc, asked, headers, by, status, recorded>>

(***************************************************************************)
(* CONNECT: proxyAuthConnectHandler around connectHandler.  The metadata   *)
(* is fresh, then stamped.  goproxy sends what comes through the tunnel to *)
(* this host, whatever Host the requests in it name.                       *)
(***************************************************************************)
Connect(c, host, creds) ==
    /\ mode[c] = "new"
    /\ tunnel' = [tunnel EXCEPT ![c] = creds]
    /\ target' = [target EXCEPT ![c] = host]
    /\ IF creds = "good"
         THEN /\ meta' = [meta EXCEPT ![c] = [FreshMeta EXCEPT !.authenticated = TRUE]]
              /\ mode' = [mode EXCEPT ![c] =
                             IF Lookup(services, host) # NoService THEN "mitm" ELSE "opaque"]
         ELSE /\ UNCHANGED meta
              /\ mode' = [mode EXCEPT ![c] = "refused"]
    /\ UNCHANGED <<registry, served, pc, asked, headers, by, status, recorded>>

\* The next request of a connection, plain or decrypted from a tunnel.  A
\* plain one goes to the host that it names.
Begin(c, req) ==
    /\ pc[c] = "idle"
    /\ served[c] < MaxRequests
    /\ \/ /\ mode[c] \in {"new", "plain"}
          /\ mode' = [mode EXCEPT ![c] = "plain"]
          /\ target' = [target EXCEPT ![c] = req.host]
       \/ mode[c] = "mitm" /\ UNCHANGED <<mode, target>>
    /\ served' = [served EXCEPT ![c] = @ + 1]
    /\ asked' = [asked EXCEPT ![c] = req]
    /\ headers' = [headers EXCEPT ![c] = req.headers]
    /\ by' = [by EXCEPT ![c] = NoService]
    /\ status' = [status EXCEPT ![c] = "none"]
    /\ disturbed' = [disturbed EXCEPT ![c] = FALSE]
    /\ pc' = [pc EXCEPT ![c] = "gate"]
    /\ UNCHANGED <<services, changes, tunnel, meta, recorded>>

-----------------------------------------------------------------------------
Svc(c) == Lookup(services, asked[c].host)

\* The condition ChaperoneCondition and the handler's own lookup.
Found(c) == Svc(c) # NoService

Pass(c, next) ==
    /\ pc' = [pc EXCEPT ![c] = next]
    /\ UNCHANGED status

Answer(c, code) ==
    /\ pc' = [pc EXCEPT ![c] = "respond"]
    /\ status' = [status EXCEPT ![c] = code]

\* proxyAuthHandler: a tunnel its CONNECT authenticated, or credentials.
Gate(c) ==
    /\ pc[c] = "gate"
    /\ IF \/ meta[c] # NoMeta /\ meta[c].authenticated
          \/ asked[c].creds = "good"
         THEN Pass(c, "requestID")
         ELSE Answer(c, "407")
    /\ UNCHANGED <<registry, conn, meta, served, asked, headers, by, recorded>>

RequestID(c) ==
    /\ pc[c] = "requestID"
    /\ meta' = IF Found(c) /\ meta[c] = NoMeta THEN [meta EXCEPT ![c] = FreshMeta] ELSE meta
    /\ Pass(c, "drop")
    /\ UNCHANGED <<registry, conn, served, asked, headers, by, recorded>>

Drop(c) ==
    /\ pc[c] = "drop"
    /\ IF Found(c) /\ Dropped(Svc(c), asked[c].host, asked[c].path)
         THEN Answer(c, "403")
         ELSE Pass(c, "securityStrip")
    /\ UNCHANGED <<registry, conn, meta, served, asked, headers, by, recorded>>

\* Mutant of ContainsPlaceholder: every strategy strips "Bearer ".
ContainsEither(value, svc) ==
    /\ svc.placeholder # NoName
    /\ value.token = svc.placeholder

\* headerContainsPlaceholder, and the comparison of authHandler: a bearer
\* strategy compares the token, any other the whole value.
ContainsPlaceholder(value, svc) ==
    /\ svc.placeholder # NoName
    /\ value.token = svc.placeholder
    /\ svc.auth.scheme = "bearer" \/ ~value.bearer

\* Mutant of Stripped: a service with a placeholder keeps its headers.
StrippedWithoutPlaceholder(hs, svc) ==
    [h \in HeaderName |->
        IF h \in KnownAuthHeader /\ svc.placeholder = NoName THEN <<>> ELSE hs[h]]

\* What securityStripAuthHandler leaves: every known auth header goes, all
\* of its values, unless the first is the placeholder.
Stripped(hs, svc) ==
    [h \in HeaderName |->
        IF h \in KnownAuthHeader /\ ~ContainsPlaceholder(FirstOf(hs[h]), svc) THEN <<>> ELSE hs[h]]

\* Metadata it has to make for itself holds the request, not a clone.
SecurityStrip(c) ==
    /\ pc[c] = "securityStrip"
    /\ IF Found(c)
         THEN /\ headers' = [headers EXCEPT ![c] = Stripped(@, Svc(c))]
              /\ meta' = IF headers' # headers /\ meta[c] = NoMeta
                           THEN [meta EXCEPT ![c] =
                                    [FreshMeta EXCEPT !.request = served[c], !.shared = TRUE]]
                           ELSE meta
         ELSE UNCHANGED <<headers, meta>>
    /\ Pass(c, "policy")
    /\ UNCHANGED <<registry, conn, served, asked, by, recorded>>

\* Mutant of CheckPolicy: the size of the body is not judged.
CheckPolicyAnySize(c) ==
    /\ pc[c] = "policy"
    /\ IF ~Found(c) \/ (/\ CheckMethod(asked[c].method, Svc(c).policy)
                        /\ CheckPath(asked[c].path, Svc(c).policy))
         THEN Pass(c, "strip")
         ELSE Answer(c, "403")
    /\ UNCHANGED <<registry, conn, meta, served, asked, headers, by, recorded>>

\* policyHandler: method, then path, then body size.
CheckPolicy(c) ==
    /\ pc[c] = "policy"
    /\ IF ~Found(c) \/ Permits(Svc(c).policy, asked[c])
         THEN Pass(c, "strip")
         ELSE Answer(c, IF /\ CheckMethod(asked[c].method, Svc(c).policy)
                           /\ CheckPath(asked[c].path, Svc(c).policy)
                          THEN "413" ELSE "403")
    /\ UNCHANGED <<registry, conn, meta, served, asked, headers, by, recorded>>

Strip(c) ==
    /\ pc[c] = "strip"
    /\ headers' = IF Found(c)
                    THEN [headers EXCEPT ![c] =
                             [h \in HeaderName |-> IF h \in Svc(c).strip THEN <<>> ELSE @[h]]]
                    ELSE headers
    /\ Pass(c, "recordRequest")
    /\ UNCHANGED <<registry, conn, meta, served, asked, by, recorded>>

\* Mutant of RecordRequest: the request already there is kept.
RecordFirst(c) ==
    /\ pc[c] = "recordRequest"
    /\ meta' = IF Found(c) /\ (meta[c] = NoMeta \/ meta[c].request = 0)
                 THEN [meta EXCEPT ![c] =
                          [(IF @ = NoMeta THEN FreshMeta ELSE @) EXCEPT
                              !.request = served[c], !.shared = FALSE, !.headers = headers[c]]]
                 ELSE meta
    /\ Pass(c, "inject")
    /\ UNCHANGED <<registry, conn, served, asked, headers, by, recorded>>

\* Mutant of RecordRequest: the request is not cloned.
RecordShared(c) ==
    /\ pc[c] = "recordRequest"
    /\ meta' = IF Found(c)
                 THEN [meta EXCEPT ![c] =
                          [(IF @ = NoMeta THEN FreshMeta ELSE @) EXCEPT
                              !.request = served[c], !.shared = TRUE]]
                 ELSE meta
    /\ Pass(c, "inject")
    /\ UNCHANGED <<registry, conn, served, asked, headers, by, recorded>>

\* recordRequestHandler clones the request into the metadata.
RecordRequest(c) ==
    /\ pc[c] = "recordRequest"
    /\ meta' = IF Found(c)
                 THEN [meta EXCEPT ![c] =
                          [(IF @ = NoMeta THEN FreshMeta ELSE @) EXCEPT
                              !.request = served[c], !.shared = FALSE, !.headers = headers[c]]]
                 ELSE meta
    /\ Pass(c, "inject")
    /\ UNCHANGED <<registry, conn, served, asked, headers, by, recorded>>

-----------------------------------------------------------------------------
\* Where authHandler looks for the placeholder.
PlaceholderHeader(svc) == IF svc.header = NoName THEN "authorization" ELSE svc.header

InjectionDue(c) ==
    /\ Found(c)
    /\ \/ Svc(c).placeholder = NoName
       \/ ContainsPlaceholder(FirstOf(headers[c][PlaceholderHeader(Svc(c))]), Svc(c))

\* The strategies Setup registers: bearer, and "header:<name>" for every
\* name a service or a pairing is configured with.
Strategies ==
    {[scheme |-> "bearer", name |-> NoName]} \cup
    {ref \in {CanonicalAuthRef(x.auth, x.header) : x \in Configured \cup Grantable} :
        ref.scheme = "header" /\ ref.name # NoName}

\* The header a strategy's Apply sets, and to what.
StrategyHeader(auth) == IF auth.scheme = "bearer" THEN "authorization" ELSE auth.name

Injected(svc) == <<[bearer |-> svc.auth.scheme = "bearer", token |-> svc.cred]>>

Applied(hs, svc) == [hs EXCEPT ![StrategyHeader(svc.auth)] = Injected(svc)]

\* No service, or its placeholder is not there: the request goes upstream
\* without a credential.
PassThrough(c) ==
    /\ pc[c] = "inject"
    /\ ~InjectionDue(c)
    /\ Answer(c, "upstream")
    /\ UNCHANGED <<registry, conn, meta, served, asked, headers, by, recorded>>

SecretUnavailable(c) ==
    /\ pc[c] = "inject"
    /\ InjectionDue(c)
    /\ Answer(c, "503")
    /\ UNCHANGED <<registry, conn, meta, served, asked, headers, by, recorded>>

UnknownStrategy(c) ==
    /\ pc[c] = "inject"
    /\ InjectionDue(c)
    /\ Svc(c).auth \notin Strategies
    /\ Answer(c, "502")
    /\ UNCHANGED <<registry, conn, meta, served, asked, headers, by, recorded>>

\* The strategy is registered and its Apply fails.
ApplyFails(c) ==
    /\ pc[c] = "inject"
    /\ InjectionDue(c)
    /\ Svc(c).auth \in Strategies /\ Nameless(Svc(c).auth)
    /\ Answer(c, "502")
    /\ UNCHANGED <<registry, conn, meta, served, asked, headers, by, recorded>>

Inject(c) ==
    /\ pc[c] = "inject"
    /\ InjectionDue(c)
    /\ Svc(c).auth \in Strategies /\ ~Nameless(Svc(c).auth)
    /\ headers' = [headers EXCEPT ![c] = Applied(@, Svc(c))]
    /\ by' = [by EXCEPT ![c] = Svc(c)]
    /\ Answer(c, "upstream")
    /\ UNCHANGED <<registry, conn, meta, served, asked, recorded>>

\* The headers of the request that the metadata holds.
Held(c) == IF meta[c].shared THEN headers[c] ELSE meta[c].headers

\* recordResponseHandler, on whatever answered the request.
Respond(c) ==
    /\ pc[c] = "respond"
    /\ recorded' =
         IF Found(c) /\ meta[c] # NoMeta /\ meta[c].request # 0
           THEN recorded \cup {[conn |-> c, request |-> meta[c].request,
                                response |-> served[c], headers |-> Held(c)]}
           ELSE recorded
    /\ meta' = IF mode[c] = "plain" THEN [meta EXCEPT ![c] = NoMeta] ELSE meta
    /\ pc' = [pc EXCEPT ![c] = "idle"]
    /\ UNCHANGED <<registry, conn, served, asked, headers, by, status>>

Step(c) ==
    \/ \E host \in RequestHost, creds \in ProxyCreds : Connect(c, host, creds)
    \/ \E req \in ClientRequest : Begin(c, req)
    \/ Gate(c)
    \/ RequestID(c)
    \/ Drop(c)
    \/ SecurityStrip(c)
    \/ CheckPolicy(c)
    \/ Strip(c)
    \/ RecordRequest(c)
    \/ PassThrough(c)
    \/ SecretUnavailable(c)
    \/ UnknownStrategy(c)
    \/ ApplyFails(c)
    \/ Inject(c)
    \/ Respond(c)

Next == RegistryChanges \/ \E c \in Conn : Step(c)

Spec == Init /\ [][Next]_vars

-----------------------------------------------------------------------------
(***************************************************************************)
(* What is forwarded, and under which service, as the response arrives.    *)
(* Most of it is promised to a request during which the registry did not   *)
(* change: the stages agree on the service then.                           *)
(***************************************************************************)
Forwarded(c) == pc[c] = "respond" /\ status[c] = "upstream" /\ Found(c)

Undisturbed(c) == Forwarded(c) /\ ~disturbed[c]

(***************************************************************************)
(* No request gets past proxyAuthHandler unless it or the CONNECT of its   *)
(* tunnel presented the proxy secret: no handler that makes metadata makes *)
(* it authenticated, and none of it outlives its request or its tunnel.    *)
(***************************************************************************)
GateHolds ==
    \A c \in Conn :
        pc[c] \notin {"idle", "gate"} /\ status[c] # "407" =>
            asked[c].creds = "good" \/ (mode[c] = "mitm" /\ tunnel[c] = "good")

(***************************************************************************)
(* What is forwarded under a service, which is found by the Host that the  *)
(* request names, was within its scope and under none of its drop rules.   *)
(***************************************************************************)
ForwardedInScope ==
    \A c \in Conn : Undisturbed(c) =>
        /\ Permits(Svc(c).policy, asked[c])
        /\ ~Dropped(Svc(c), asked[c].host, asked[c].path)

(***************************************************************************)
(* Credentials are exchanged, never added or let through.  In the auth     *)
(* headers of what is forwarded there is the service's placeholder or the  *)
(* injected credential, and nothing else of what the client put there but  *)
(* what stands behind the placeholder in one header, where Header.Get does *)
(* not look; the credential stands alone in its header.  And the request   *)
(* carries it just when its client asked for it by the placeholder, in the *)
(* header authHandler reads; no stage before that takes a placeholder away *)
(* or lets another value pass for it.                                      *)
(***************************************************************************)
AskedFor(c) ==
    LET value == FirstOf(asked[c].headers[PlaceholderHeader(Svc(c))])
    IN value.token = Svc(c).placeholder /\ (value.bearer => Svc(c).auth.scheme = "bearer")

\* A value that is not the header's first, which is the placeholder.
BehindPlaceholder(c, h, i) ==
    /\ i > 1 /\ headers[c][h][1].token = Svc(c).placeholder
    /\ headers[c][h] = asked[c].headers[h]

CredentialsExchanged ==
    \A c \in Conn : Undisturbed(c) =>
        /\ \A h \in KnownAuthHeader : \A i \in DOMAIN headers[c][h] :
              \/ headers[c][h][i].token \in {Svc(c).placeholder, Svc(c).cred}
              \/ BehindPlaceholder(c, h, i)
        /\ by[c] # NoService => headers[c][StrategyHeader(Svc(c).auth)] = Injected(Svc(c))
        /\ Svc(c).placeholder # NoName /\ PlaceholderHeader(Svc(c)) \notin Svc(c).strip
              => (by[c] = Svc(c) <=> AskedFor(c))

\* A host pattern covers the hosts it spells, "*" standing for one label.
Covers(pattern, host) ==
    LET written == LowerLabels(pattern.labels)
        named   == LowerLabels(host.labels)
    IN /\ Len(written) = Len(named)
       /\ \A i \in DOMAIN written : written[i] = named[i] \/ (i = 1 /\ written[1] = Wild)

\* The request names the host that its connection reaches; in a tunnel it may
\* name another one, by which the handlers choose all the same.
Straight(c) == LowerLabels(asked[c].host.labels) = LowerLabels(target[c].labels)

(***************************************************************************)
(* A credential is only ever injected into a request, and in the header,   *)
(* that the configuration or an approved pairing puts it together with by  *)
(* the Host that the request names, however the registry changes           *)
(* meanwhile.  It goes to that host if the request is straight, and never  *)
(* to a host that neither the configuration nor a pairing names.           *)
(***************************************************************************)
CredentialStaysPaired ==
    \A c \in Conn : by[c] # NoService =>
        /\ \E x \in Configured \cup Grantable :
              /\ x.cred = by[c].cred
              /\ Covers(x.host, asked[c].host)
              /\ Straight(c) => Covers(x.host, target[c])
              /\ LET ref == CanonicalAuthRef(x.auth, x.header)
                 IN \/ /\ ref.scheme = "bearer"
                       /\ Carries(headers[c]["authorization"], x.cred)
                    \/ /\ ref.scheme = "header" /\ ref.name # NoName
                       /\ Carries(headers[c][ref.name], x.cred)
        /\ \E x \in Configured \cup Grantable : Covers(x.host, target[c])

(***************************************************************************)
(* The request the recorder holds when the response arrives is the one     *)
(* that was forwarded, as it was before the credential went in.            *)
(***************************************************************************)
ForwardedRecorded ==
    \A c \in Conn : Undisturbed(c) =>
        /\ meta[c].request = served[c]
        /\ \A h \in HeaderName :
              \/ Held(c)[h] = headers[c][h]
              \/ by[c] # NoService /\ headers[c][h] = Injected(by[c])

(***************************************************************************)
(* The recorder gets no credential, of a tunnel at all and of a plain      *)
(* request that no registry change disturbed.                              *)
(***************************************************************************)
Clean(hs) == \A h \in HeaderName, cred \in Credential : ~Carries(hs[h], cred)

RecordClean ==
    \A c \in Conn :
        /\ pc[c] = "respond" /\ Found(c) /\ meta[c] # NoMeta /\ meta[c].request # 0
        /\ mode[c] = "mitm" \/ ~disturbed[c]
        => Clean(Held(c))

-----------------------------------------------------------------------------
(***************************************************************************)
(* What a comment says, and the code does not do.                          *)
(***************************************************************************)
\* recorder/har.go: an entry is "a single HTTP request/response pair".
RecordedPaired == \A e \in recorded : e.request = e.response
=============================================================================
