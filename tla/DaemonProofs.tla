----------------------------- MODULE DaemonProofs -----------------------------
(***************************************************************************)
(* How a daemon comes to serve, for every config, every choice of services *)
(* and every order of Go's map (Startup), how it stops, for any calls and  *)
(* requests under way (ProcessStop), and what a child is started with, for *)
(* every environment and every string (ChildLaunch).  The three share no   *)
(* state.                                                                  *)
(***************************************************************************)
EXTENDS Startup, ProcessStop, ChildLaunch, GrantProofs

Validating  == {"prepare", "validate"}
Established == {"preload", "strategies", "serving"}
Accepted    == {"register"} \cup Established

\* The names that Setup serves, and those its walk has passed.
Chosen == IF chosen = {} THEN DOMAIN sections ELSE chosen \cap DOMAIN sections
Walked == Chosen \ pending

\* What Validate established.
ConfigValid ==
    /\ \A n \in DOMAIN sections : ValidatePathPatterns(sections[n].policy.paths)
    /\ \A i \in DOMAIN grantable : ValidPairing(grantable[i])

\* The registry has the services that were walked, each under its key, and
\* nothing else.
Registered ==
    /\ pending \subseteq Chosen
    /\ \A n \in Walked :
          ValidService(sections[n])
          /\ registry[ServiceKey(sections[n].host)] = FromConfig(sections[n])
    /\ \A key \in HostKey :
          registry[key] # NoService => \E n \in Walked : ServiceKey(sections[n].host) = key
    /\ \A n, m \in Walked : ServiceKey(sections[n].host) = ServiceKey(sections[m].host) => n = m

\* The strategies are those of what may inject, and there is one for every
\* service.
Equipped ==
    /\ strategies = {BearerRef} \cup HeaderRefs
    /\ \A key \in Live(registry) : registry[key].auth \in strategies

StartInv ==
    /\ StartupTypeOK
    /\ phase \in Validating => pending = {} /\ registry = [key \in HostKey |-> NoService]
    /\ phase \in Accepted => ConfigValid /\ Registered
    /\ phase \in Established => pending = {} /\ Universe
    /\ phase = "serving" => Equipped

-----------------------------------------------------------------------------
\* A section is what a service of the registry is made of.
LEMMA SectionType ==
    ASSUME StartupTypeOK, NEW n \in DOMAIN sections
    PROVE  /\ sections[n] \in Service
           /\ ServiceKey(sections[n].host) \in HostKey
           /\ FromConfig(sections[n]) \in Service
           /\ FromConfig(sections[n]).host = sections[n].host
<1>1. sections[n] \in Service
  BY DEF StartupTypeOK
<1>2. sections[n].host \in HostPattern
  BY <1>1 DEF Service
<1>3. QED
  BY <1>1, <1>2, FromConfigType DEF HostKey

\* The limit that ApplyDefaults sets is not negative.
LEMMA DefaultsValid ==
    ASSUME NEW svc \in Service, ValidService(FromConfig(svc))
    PROVE  ValidService(svc)
<1>1. svc.policy \in Policy /\ svc.policy.maxBody \in Int
  BY ByteCountAssumption DEF Service, Policy
<1>2. FromConfig(svc).policy = ApplyDefaults(svc.policy)
  BY DEF FromConfig, Service
<1>3. QED
  BY <1>1, <1>2 DEF ValidService, ApplyDefaults

\* A section that Validate found nothing wrong with.
LEMMA VerdictOk ==
    ASSUME NEW svc, NEW run, SectionVerdict(svc, run) = "ok"
    PROVE  ValidatePathPatterns(svc.policy.paths)
BY DEF SectionVerdict, Misconfigured

\* The defaults of a run section make a run section.
LEMMA DefaultedType ==
    ASSUME NEW run \in RunSection
    PROVE  Defaulted(run) \in RunSection
BY DEF Defaulted, RunSection, OutputMode

-----------------------------------------------------------------------------
\* A config as it was parsed, and nothing established.
LEMMA StartInvInit == StartupTypeOK /\ Begins => StartInv
BY DEF Begins, StartInv, Validating, Accepted, Established

\* A step that ends it all, or moves on without a change, has nothing to show
\* but what the next phase asks for.
LEMMA EndsKeeps ==
    ASSUME StartInv, NEW how \in {"refused", "panicked"}, Ends(how)
    PROVE  StartInv'
<1>1. StartupTypeOK'
  BY DEF StartInv, StartupTypeOK, Ends, config, results
<1>2. QED
  BY <1>1 DEF StartInv, Ends, Validating, Accepted, Established

\* Setting defaults touches neither services nor registry.
LEMMA PrepareKeeps ==
    ASSUME StartInv, Prepare
    PROVE  StartInv'
<1>1. StartupTypeOK /\ phase \in Validating
  BY DEF StartInv, Prepare, Validating
<1>2. UNCHANGED <<config, results>> /\ phase' = "validate"
  BY DEF Prepare
<1>3. DOMAIN runs' = DOMAIN runs /\ \A n \in DOMAIN runs : runs'[n] \in RunSection
  <2>1. PICK n \in DOMAIN sections :
            runs' = [runs EXCEPT ![n].hasCommand = @ \/ (cliCommand /\ runs[n].present)]
    BY DEF Prepare
  <2>2. runs'[n] = [runs[n] EXCEPT !.hasCommand = @ \/ (cliCommand /\ runs[n].present)]
    BY <1>1, <2>1 DEF StartupTypeOK
  <2>3. (runs[n].hasCommand \/ (cliCommand /\ runs[n].present)) \in BOOLEAN
    OBVIOUS
  <2>4. runs'[n] \in RunSection
    BY <1>1, <2>2, <2>3 DEF StartupTypeOK, RunSection
  <2>5. QED
    BY <1>1, <2>1, <2>4 DEF StartupTypeOK
<1>4. StartupTypeOK'
  BY <1>1, <1>2, <1>3 DEF StartupTypeOK, config, results
<1>5. QED
  BY <1>1, <1>2, <1>4 DEF StartInv, results, Validating, Accepted, Established

\* What Validate has let through is valid, and its walk is about to begin.
LEMMA ValidatedKeeps ==
    ASSUME StartInv, Validated
    PROVE  StartInv'
<1>1. StartupTypeOK /\ registry = [key \in HostKey |-> NoService]
  BY DEF StartInv, Validated, Validating
<1>2. UNCHANGED <<config, registry, strategies, gated>> /\ phase' = "register" /\ pending' = Chosen
  BY DEF Validated, Chosen
<1>3. DOMAIN runs' = DOMAIN runs /\ \A n \in DOMAIN runs : runs'[n] \in RunSection
  BY <1>1, DefaultedType DEF Validated, StartupTypeOK
<1>4. StartupTypeOK'
  BY <1>1, <1>2, <1>3 DEF StartupTypeOK, config, Chosen
<1>5. ConfigValid
  <2>1. \A n \in DOMAIN sections : SectionVerdict(sections[n], Defaulted(runs[n])) = "ok"
    BY DEF Validated, Verdicts
  <2>2. QED
    BY <2>1, VerdictOk DEF ConfigValid, Validated
<1>6. ConfigValid'
  BY <1>2, <1>5 DEF ConfigValid, config
<1>7. Registered'
  <2>1. Walked' = {}
    BY <1>2 DEF Walked, Chosen, config
  <2>2. \A key \in HostKey : registry'[key] = NoService
    BY <1>1, <1>2
  <2>3. pending' \subseteq Chosen'
    BY <1>2 DEF Chosen, config
  <2>4. QED
    BY <2>1, <2>2, <2>3 DEF Registered
<1>8. QED
  BY <1>2, <1>4, <1>6, <1>7 DEF StartInv, Validating, Accepted, Established

\* The walk registers a name under a key that no earlier name of it took.
LEMMA RegisterKeeps ==
    ASSUME StartInv, NEW n \in ServiceName, RegisterService(n)
    PROVE  StartInv'
<1>1. StartupTypeOK /\ ConfigValid /\ Registered /\ phase = "register"
  BY DEF StartInv, RegisterService, Accepted
<1>2. n \in Chosen /\ n \in DOMAIN sections /\ n \in pending
  BY <1>1 DEF RegisterService, Registered, Chosen
<1>. DEFINE svc == sections[n]
            key == ServiceKey(svc.host)
<1>3. /\ svc \in Service /\ key \in HostKey
      /\ FromConfig(svc) \in Service /\ FromConfig(svc).host = svc.host
  BY <1>1, <1>2, SectionType
<1>4. registry' = [registry EXCEPT ![key] = FromConfig(svc)]
  BY <1>3 DEF RegisterService, Upsert
<1>5. registry[key] = NoService /\ ValidService(svc)
  BY <1>3, DefaultsValid DEF RegisterService, Registrable
<1>6. UNCHANGED <<config, runs, phase, strategies, gated>> /\ pending' = pending \ {n}
  BY DEF RegisterService
<1>7. Chosen' = Chosen /\ Walked' = Walked \cup {n} /\ n \notin Walked
  BY <1>2, <1>6 DEF Walked, Chosen, config
<1>8. \A m \in Walked : ServiceKey(sections[m].host) # key
  BY <1>1, <1>2, <1>5, SectionType, NoServiceAssumption DEF Registered, Walked, Chosen
<1>. HIDE DEF svc, key
<1>9. registry' \in Services
  BY <1>1, <1>3, <1>4 DEF StartupTypeOK, Services
<1>10. registry'[key] = FromConfig(svc) /\ \A k \in HostKey \ {key} : registry'[k] = registry[k]
  BY <1>1, <1>3, <1>4 DEF StartupTypeOK, Services
<1>11. \A m \in Walked : ServiceKey(sections[m].host) \in HostKey
  BY <1>1, SectionType DEF Walked, Chosen
<1>12. Registered'
  <2>1. pending' \subseteq Chosen'
    BY <1>1, <1>6, <1>7 DEF Registered
  <2>2. \A m \in Walked' :
           /\ ValidService(sections[m])
           /\ registry'[ServiceKey(sections[m].host)] = FromConfig(sections[m])
    BY <1>1, <1>5, <1>7, <1>8, <1>10, <1>11 DEF Registered, svc, key
  <2>3. \A k \in HostKey :
           registry'[k] # NoService => \E m \in Walked' : ServiceKey(sections[m].host) = k
    BY <1>1, <1>7, <1>10 DEF Registered, svc, key
  <2>4. \A m, l \in Walked' : ServiceKey(sections[m].host) = ServiceKey(sections[l].host) => m = l
    BY <1>1, <1>7, <1>8 DEF Registered, svc, key
  <2>5. sections' = sections
    BY <1>6 DEF config
  <2>6. QED
    BY <2>1, <2>2, <2>3, <2>4, <2>5 DEF Registered
<1>13. StartupTypeOK'
  BY <1>1, <1>6, <1>9 DEF StartupTypeOK, config
<1>14. ConfigValid'
  BY <1>1, <1>6 DEF ConfigValid, config
<1>15. QED
  BY <1>1, <1>6, <1>12, <1>13, <1>14 DEF StartInv, Validating, Accepted, Established

\* The enforcer is built of a universe that it has checked.
LEMMA BuildKeeps ==
    ASSUME StartInv, BuildEnforcer
    PROVE  StartInv'
<1>1. CASE Ends("refused")
  BY <1>1, EndsKeeps
<1>2. CASE Universe /\ phase' = "preload" /\ UNCHANGED <<config, runs, results>>
  <2>1. StartupTypeOK /\ ConfigValid /\ Registered /\ pending = {} /\ Universe
    BY <1>2 DEF StartInv, BuildEnforcer, Accepted
  <2>2. StartupTypeOK'
    BY <1>2, <2>1 DEF StartupTypeOK, config, results
  <2>3. ConfigValid' /\ Registered' /\ Universe'
    BY <1>2, <2>1 DEF ConfigValid, Registered, Walked, Chosen, Universe, config, results
  <2>4. QED
    BY <1>2, <2>1, <2>2, <2>3 DEF StartInv, Validating, Accepted, Established, results
<1>3. QED
  BY <1>1, <1>2 DEF BuildEnforcer

\* Secrets are loaded before anything is served.
LEMMA PreloadKeeps ==
    ASSUME StartInv, Preload
    PROVE  StartInv'
<1>1. StartupTypeOK /\ ConfigValid /\ Registered /\ pending = {} /\ Universe
  BY DEF StartInv, Preload, Accepted, Established
<1>2. phase' = "strategies" /\ UNCHANGED <<config, runs, results>>
  BY DEF Preload
<1>3. StartupTypeOK'
  BY <1>1, <1>2 DEF StartupTypeOK, config, results
<1>4. ConfigValid' /\ Registered' /\ Universe'
  BY <1>1, <1>2 DEF ConfigValid, Registered, Walked, Chosen, Universe, config, results
<1>5. QED
  BY <1>1, <1>2, <1>3, <1>4 DEF StartInv, Validating, Accepted, Established, results

\* The strategies of services and pairings are auth strategies.
LEMMA HeaderRefsType ==
    ASSUME StartupTypeOK
    PROVE  HeaderRefs \subseteq AuthRef
<1>1. \A key \in Live(registry) : registry[key].auth \in AuthRef
  BY DEF StartupTypeOK, Services, Live, Service
<1>2. \A i \in DOMAIN grantable : IdentityOf(grantable[i]).auth \in AuthRef
  <2>1. SUFFICES ASSUME NEW i \in DOMAIN grantable
                 PROVE  IdentityOf(grantable[i]).auth \in AuthRef
    OBVIOUS
  <2>2. grantable[i] \in Pairing
    BY DEF StartupTypeOK
  <2>3. CanonicalAuthRef(grantable[i].auth, grantable[i].header) \in AuthRef
    BY <2>2, CanonicalType DEF Pairing
  <2>4. QED
    BY <2>3 DEF IdentityOf
<1>3. QED
  BY <1>1, <1>2 DEF HeaderRefs

\* The strategies are made of what was registered and may be granted.
LEMMA ServeKeeps ==
    ASSUME StartInv, Serve
    PROVE  StartInv'
<1>1. StartupTypeOK /\ ConfigValid /\ Registered /\ pending = {} /\ Universe
  BY DEF StartInv, Serve, Accepted, Established
<1>2. UNCHANGED <<config, runs, pending, registry>> /\ phase' = "serving"
  BY DEF Serve
<1>3. strategies' \subseteq {BearerRef} \cup AuthRef /\ gated' \in BOOLEAN
  BY <1>1, HeaderRefsType DEF Serve, Injecting
<1>4. StartupTypeOK'
  BY <1>1, <1>2, <1>3 DEF StartupTypeOK, config
<1>5. ConfigValid' /\ Registered' /\ Universe'
  BY <1>1, <1>2 DEF ConfigValid, Registered, Walked, Chosen, Universe, config
<1>6. Equipped'
  BY <1>2 DEF Serve, Equipped, HeaderRefs, Live, config
<1>7. QED
  BY <1>1, <1>2, <1>4, <1>5, <1>6 DEF StartInv, Validating, Accepted, Established

\* The phases, one after the other.
LEMMA StartInvKept == StartInv /\ [StartupStep]_startVars => StartInv'
<1>. SUFFICES ASSUME StartInv, [StartupStep]_startVars
              PROVE  StartInv'
  OBVIOUS
<1>1. CASE Prepare
  BY <1>1, PrepareKeeps
<1>2. CASE Validated
  BY <1>2, ValidatedKeeps
<1>3. CASE \E n \in ServiceName : RegisterService(n)
  BY <1>3, RegisterKeeps
<1>4. CASE BuildEnforcer
  BY <1>4, BuildKeeps
<1>5. CASE Preload
  BY <1>5, PreloadKeeps
<1>6. CASE Serve
  BY <1>6, ServeKeeps
<1>7. CASE PrepareFails \/ PreloadFails \/ ServeFails \/ \E n \in ServiceName : RegisterFails(n)
  BY <1>7, EndsKeeps DEF PrepareFails, PreloadFails, ServeFails, RegisterFails
<1>8. CASE ValidateFails
  <2>1. Verdicts \subseteq {"ok", "refused", "panicked"}
    BY DEF Verdicts, SectionVerdict, OutputVerdict
  <2>2. QED
    BY <1>8, <2>1, EndsKeeps DEF ValidateFails
<1>9. CASE UNCHANGED startVars
  <2>1. StartupTypeOK'
    BY <1>9 DEF StartInv, StartupTypeOK, startVars, config, results
  <2>2. QED
    BY <1>9, <2>1 DEF StartInv, startVars, config, results, ConfigValid, Registered, Walked,
       Chosen, Universe, Equipped, HeaderRefs, Live
<1>10. QED
  BY <1>1, <1>2, <1>3, <1>4, <1>5, <1>6, <1>7, <1>8, <1>9 DEF StartupStep

\* The invariant of the startup, in every state.
LEMMA Starting == StartupSpec => []StartInv
BY StartInvInit, StartInvKept, PTL DEF StartupSpec

-----------------------------------------------------------------------------
\* What was walked is what is served, so the registry is that of the config.
LEMMA ServedRegistry ==
    ASSUME StartInv, phase = "serving"
    PROVE  /\ ConfigAccepted(Selected)
           /\ registry = Setup(Selected)
<1>1. StartupTypeOK /\ ConfigValid /\ Registered /\ pending = {}
  BY DEF StartInv, Accepted, Established
<1>2. Walked = Chosen /\ Chosen \subseteq DOMAIN sections
  BY <1>1 DEF Walked, Chosen
<1>3. Selected = {sections[n] : n \in Chosen}
  BY DEF Selected, Chosen
<1>4. ConfigAccepted(Selected)
  <2>1. \A svc \in Selected : ValidService(svc) /\ ValidatePathPatterns(svc.policy.paths)
    BY <1>1, <1>2, <1>3 DEF ConfigValid, Registered
  <2>2. \A s, t \in Selected : ServiceKey(s.host) = ServiceKey(t.host) => s = t
    BY <1>1, <1>2, <1>3 DEF Registered
  <2>3. QED
    BY <2>1, <2>2 DEF ConfigAccepted
<1>5. ASSUME NEW key \in HostKey
      PROVE  registry[key] = Setup(Selected)[key]
  <2>1. CASE \E svc \in Selected : ServiceKey(svc.host) = key
    <3>1. PICK n \in Chosen : ServiceKey(sections[n].host) = key
      BY <2>1, <1>3
    <3>2. (CHOOSE svc \in Selected : ServiceKey(svc.host) = key) = sections[n]
      BY <3>1, <1>3, <1>4 DEF ConfigAccepted
    <3>3. registry[key] = FromConfig(sections[n])
      BY <3>1, <1>1, <1>2 DEF Registered
    <3>4. QED
      BY <2>1, <3>2, <3>3 DEF Setup
  <2>2. CASE ~ \E svc \in Selected : ServiceKey(svc.host) = key
    <3>1. registry[key] = NoService
      BY <2>2, <1>1, <1>2, <1>3 DEF Registered
    <3>2. QED
      BY <2>2, <3>1 DEF Setup
  <2>3. QED
    BY <2>1, <2>2
<1>6. registry = Setup(Selected)
  BY <1>1, <1>5 DEF StartupTypeOK, Services, Setup
<1>7. QED
  BY <1>4, <1>6

\* Validate refuses a negative limit, NewEnforcer the rest.
LEMMA PairingsAccepted ==
    ASSUME StartInv, phase = "serving"
    PROVE  UniverseAccepted(ToSet(grantable))
<1>1. ConfigValid /\ Universe
  BY DEF StartInv, Accepted, Established
<1>2. QED
  BY <1>1 DEF ConfigValid, Universe, UniverseAccepted, ValidPairing, ToSet

(***************************************************************************)
(* What enforcer, proxy and the theorems about them assume of the config   *)
(* is what PrepareRunConfig, Config.Validate, orchestrate.Setup and        *)
(* NewEnforcer leave of any config, whatever the order of Go's map.        *)
(***************************************************************************)
THEOREM ServesAssumed == StartupSpec => []ServesAssumption
<1>1. StartInv => ServesAssumption
  BY ServedRegistry, PairingsAccepted DEF ServesAssumption, StartInv
<1>2. QED
  BY <1>1, Starting, PTL

(***************************************************************************)
(* Before the daemon serves, CreateProxy has registered a strategy that    *)
(* can inject for every service but one that says "header:", and for just  *)
(* the pairings that name the bearer strategy or a header.                 *)
(***************************************************************************)
THEOREM StrategiesProvided == StartupSpec => []StrategiesReady
<1>1. ~Nameless(BearerRef)
  BY DEF Nameless, BearerRef
<1>2. ASSUME StartInv, phase = "serving", NEW i \in DOMAIN grantable
      PROVE  Injects(IdentityOf(grantable[i]).auth) <=>
                \/ IdentityOf(grantable[i]).auth = BearerRef
                \/ /\ IsHeaderRef(IdentityOf(grantable[i]).auth)
                   /\ ~Nameless(IdentityOf(grantable[i]).auth)
  BY <1>1, <1>2 DEF StartInv, Equipped, HeaderRefs, Injects
<1>3. StartInv => StrategiesReady
  BY <1>2 DEF StartInv, Equipped, Injects, StrategiesReady
<1>4. QED
  BY <1>3, Starting, PTL

-----------------------------------------------------------------------------
(***************************************************************************)
(* Stopping.                                                               *)
(***************************************************************************)
\* What the goroutine has called, and has seen the end of.
Called == {batch[i] : i \in left + 1 .. Len(batch)}
Done   == Called \ {current}

\* The goroutine and the caller that waits for it, once there are any: it
\* works through everything that was registered, and what it says is of all.
Orders ==
    /\ Fresh => batch = <<>> /\ left = 0 /\ current = NoFn /\ result = "none"
    /\ ~Fresh => Ready /\ batch = funcs
    /\ current # NoFn => left < Len(batch) /\ current = batch[left + 1]
    /\ \A f \in Fn : outcome[f] # "none" <=> f \in Done
    /\ result # "none" =>
          /\ left = 0 /\ current = NoFn
          /\ result = "error" <=> \E f \in Fn : outcome[f] = "error"
    /\ Over /\ lastError # "deadline" => result = IF lastError = "nil" THEN "ok" ELSE "error"

\* A server that has stopped well has nobody left, and the sink is closed only
\* after the servers have stopped in some way.
Drains ==
    /\ \A w \in Work : stage[w] # "idle" => ServerOf(w) \in ToSet(funcs)
    /\ \A stop \in Server :
          /\ outcome[stop] = "ok" => \A w \in Conns(stop) : stage[w] \notin Active
          /\ outcome[stop] # "panic" /\ (outcome[stop] = "error" => expired)
    /\ ~sinkOpen =>
          /\ "stopProxy" \in ToSet(funcs)
          /\ \A stop \in Server \cap ToSet(funcs) : outcome[stop] # "none"

StopIInv == StopTypeOK /\ Orders /\ Drains /\ ServedKept

\* In whatever is registered the proxy is stopped, and the sink before no server.
LEMMA RegistrationOrder ==
    ASSUME NEW order \in Registrations
    PROVE  /\ order \in Seq(Fn) /\ "stopProxy" \in ToSet(order)
           /\ \A i, j \in 1..Len(order) : order[i] \in Sink /\ order[j] \in Server => i < j
<1>. USE StopAssumption DEF Server, Sink, Other, ToSet
<1>1. CASE order = <<"closeAudit", "stopProxy", "stopControl">>
  BY <1>1
<1>2. CASE order = <<"closeLog", "removeCA", "closeAudit", "stopProxy">>
  BY <1>2
<1>3. CASE order = <<"writeHAR", "report", "stopProxy">>
  BY <1>3
<1>4. QED
  BY <1>1, <1>2, <1>3 DEF Registrations

\* A function that is called comes to the end of what has been called.
LEMMA ReverseStep ==
    ASSUME NEW S, NEW s \in Seq(S), NEW n \in 1..Len(s)
    PROVE  Reverse(SubSeq(s, n, Len(s))) = Append(Reverse(SubSeq(s, n + 1, Len(s))), s[n])
<1>. DEFINE a == SubSeq(s, n, Len(s))
            b == SubSeq(s, n + 1, Len(s))
<1>1. Len(s) \in Nat /\ Len(a) = Len(s) - n + 1 /\ Len(b) = Len(s) - n
  OBVIOUS
<1>2. \A i \in 1..Len(a) : a[i] = s[n + i - 1]
  OBVIOUS
<1>3. \A i \in 1..Len(b) : b[i] = s[n + i]
  OBVIOUS
<1>4. b \in Seq(S)
  OBVIOUS
<1>. HIDE DEF a, b
<1>5. /\ Reverse(b) \in Seq(S) /\ Len(Reverse(b)) = Len(b)
      /\ \A i \in 1..Len(b) : Reverse(b)[i] = b[Len(b) - i + 1]
  BY <1>1, <1>4 DEF Reverse
<1>6. Reverse(a) = [i \in 1..Len(a) |-> a[Len(a) - i + 1]]
  BY DEF Reverse
<1>7. Append(Reverse(b), s[n]) =
         [i \in 1..Len(a) |-> IF i <= Len(b) THEN b[Len(b) - i + 1] ELSE s[n]]
  <2>1. Append(Reverse(b), s[n]) =
           [i \in 1..(Len(b) + 1) |-> IF i = Len(b) + 1 THEN s[n] ELSE Reverse(b)[i]]
    BY <1>5
  <2>2. Len(a) = Len(b) + 1 /\ Len(b) \in Nat
    BY <1>1
  <2>3. QED
    BY <1>5, <2>1, <2>2
<1>8. ASSUME NEW i \in 1..Len(a)
      PROVE  a[Len(a) - i + 1] = IF i <= Len(b) THEN b[Len(b) - i + 1] ELSE s[n]
  <2>1. a[Len(a) - i + 1] = s[n + (Len(a) - i + 1) - 1] /\ n + (Len(a) - i + 1) - 1 = n + (Len(b) - i + 1)
    BY <1>1, <1>2
  <2>2. CASE i <= Len(b)
    BY <1>1, <1>3, <2>1, <2>2
  <2>3. CASE i = Len(b) + 1
    <3>1. n + (Len(b) - i + 1) = n
      BY <1>1, <2>3
    <3>2. QED
      BY <1>1, <2>1, <2>3, <3>1
  <2>4. QED
    BY <1>1, <2>2, <2>3
<1>9. QED
  BY <1>6, <1>7, <1>8 DEF a, b

\* Nothing has been called of what was just copied.
LEMMA NothingCalled ==
    ASSUME NEW S, NEW s \in Seq(S)
    PROVE  Reverse(SubSeq(s, Len(s) + 1, Len(s))) = <<>>
<1>1. Len(SubSeq(s, Len(s) + 1, Len(s))) = 0
  OBVIOUS
<1>2. QED
  BY <1>1 DEF Reverse

\* The shortest and the longest prefix.
LEMMA PrefixTrivial ==
    ASSUME NEW S, NEW s \in Seq(S)
    PROVE  IsPrefix(<<>>, s) /\ IsPrefix(s, s)
<1>1. SubSeq(<<>>, 1, 0) = <<>> /\ SubSeq(s, 1, 0) = <<>>
  OBVIOUS
<1>2. QED
  BY <1>1 DEF IsPrefix

\* Nobody has called Shutdown and everything is open.
LEMMA StopInitial == StopInit => StopIInv
<1>. SUFFICES ASSUME StopInit PROVE StopIInv
  OBVIOUS
<1>. USE DEF StopInit, Init
<1>1. <<>> \in Seq(Fn) /\ Len(<<>>) = 0 /\ DOMAIN <<>> = {}
  OBVIOUS
<1>2. TypeOK
  <2>1. IsPrefix(batch, funcs) /\ ran = Reverse(SubSeq(batch, left + 1, Len(batch)))
    BY <1>1, PrefixTrivial, NothingCalled
  <2>2. IsInjective(funcs)
    BY <1>1 DEF IsInjective
  <2>3. left \in 0 .. Len(batch)
    BY <1>1
  <2>4. QED
    BY <1>1, <2>1, <2>2, <2>3 DEF TypeOK, Outcome
<1>3. StopTypeOK
  BY <1>2 DEF StopTypeOK, Active
<1>4. Orders
  BY NoFnAssumption DEF Orders, Done, Called, Fresh, Over
<1>5. Drains
  BY StopAssumption DEF Drains, Server
<1>6. QED
  BY <1>3, <1>4, <1>5 DEF StopIInv, ServedKept

\* What a step does to the manager.
LEMMA ManagerStep ==
    ASSUME [StopNext]_allVars
    PROVE  \/ \E f \in Fn : Startup(f)
           \/ Shutdown
           \/ \E how \in {"ok", "error", "panic"} : Finish(how)
           \/ UNCHANGED vars
BY DEF StopNext, allVars, Runs, CloseListener, Drained, DrainExpired, CloseSink, EndOther,
   Accept, Act, BeginEntry, LogEntry, Answer

\* The next function to be called is the last that has not been.
LEMMA CallNextOrders ==
    ASSUME TypeOK, Orders, CallNext
    PROVE  TypeOK' /\ Orders'
<1>1. /\ left \in 1..Len(batch) /\ left - 1 \in 0..Len(batch) /\ current = NoFn
      /\ current' = batch[left] /\ left' = left - 1 /\ ran' = Append(ran, batch[left])
      /\ UNCHANGED <<funcs, pc, batch, outcome, result, expired, lastError>>
  BY DEF CallNext, TypeOK
<1>2. batch \in Seq(Fn) /\ batch[left] \in Fn
  BY <1>1 DEF TypeOK
<1>3. ran' = Reverse(SubSeq(batch, left' + 1, Len(batch)))
  BY <1>1, <1>2, ReverseStep DEF TypeOK
<1>4. TypeOK'
  BY <1>1, <1>2, <1>3 DEF TypeOK
<1>5. batch = funcs /\ IsInjective(batch)
  BY <1>1 DEF Orders, TypeOK
<1>6. Done' = Called /\ current \notin Called
  <2>1. Called' = Called \cup {batch[left]}
    BY <1>1, <1>2 DEF Called
  <2>2. batch[left] \notin Called
    BY <1>1, <1>2, <1>5 DEF Called, IsInjective
  <2>3. NoFn \notin Called
    BY <1>1, <1>2, NoFnAssumption DEF Called
  <2>4. QED
    BY <1>1, <2>1, <2>2, <2>3 DEF Done
<1>7. Done' = Done
  BY <1>6 DEF Done
<1>8. Fresh' = Fresh /\ Over' = Over /\ Ready' = Ready
  BY <1>1 DEF Fresh, Over, Ready
<1>9. QED
  BY <1>1, <1>4, <1>7, <1>8 DEF Orders

\* How a function ended is recorded once, and goes into the answer.
LEMMA FinishOrders ==
    ASSUME TypeOK, Orders, NEW how \in {"ok", "error", "panic"}, Finish(how)
    PROVE  TypeOK' /\ Orders'
<1>1. /\ current \in Fn /\ current # NoFn /\ current' = NoFn
      /\ outcome' = [outcome EXCEPT ![current] = how]
      /\ UNCHANGED <<funcs, pc, batch, left, ran, result, expired, lastError>>
  BY DEF Finish, TypeOK
<1>2. TypeOK'
  BY <1>1 DEF TypeOK, Outcome
<1>3. current \in Called /\ NoFn \notin Called
  <2>1. left < Len(batch) /\ current = batch[left + 1]
    BY <1>1 DEF Orders
  <2>2. left \in Nat /\ Len(batch) \in Nat
    BY DEF TypeOK
  <2>3. left + 1 \in left + 1 .. Len(batch)
    BY <2>1, <2>2
  <2>4. \A i \in left + 1 .. Len(batch) : batch[i] \in Fn
    BY DEF TypeOK
  <2>5. QED
    BY <2>1, <2>3, <2>4, NoFnAssumption DEF Called
<1>4. Called' = Called
  BY <1>1 DEF Called
<1>5. \A f \in Fn : outcome'[f] # "none" <=> f \in Done'
  BY <1>1, <1>3, <1>4 DEF Orders, Done, TypeOK
<1>6. result = "none"
  BY <1>1 DEF Orders
<1>7. Fresh' = Fresh /\ Over' = Over /\ Ready' = Ready /\ ~Fresh
  BY <1>1 DEF Fresh, Over, Ready, Orders
<1>8. QED
  BY <1>1, <1>2, <1>5, <1>6, <1>7 DEF Orders

\* A function is registered before anybody calls Shutdown.
LEMMA StartupOrders ==
    ASSUME TypeOK, Orders, NEW f \in Fn, Startup(f)
    PROVE  TypeOK' /\ Orders'
<1>1. /\ Fresh /\ f \notin ToSet(funcs) /\ funcs' = Append(funcs, f)
      /\ UNCHANGED <<pc, worker, expired, lastError>>
  BY DEF Startup, Register
<1>2. batch = <<>> /\ left = 0 /\ current = NoFn
  BY <1>1 DEF Orders
<1>3. funcs' \in Seq(Fn)
  BY <1>1 DEF TypeOK
<1>4. IsInjective(funcs')
  <2>1. IsInjective(funcs) /\ funcs \in Seq(Fn)
    BY DEF TypeOK
  <2>2. \A i \in 1..Len(funcs) : funcs[i] # f
    BY <1>1, <2>1 DEF ToSet
  <2>3. /\ Len(funcs') = Len(funcs) + 1
        /\ \A i \in 1..Len(funcs') : funcs'[i] = IF i <= Len(funcs) THEN funcs[i] ELSE f
    BY <1>1, <2>1
  <2>4. DOMAIN funcs = 1..Len(funcs) /\ DOMAIN funcs' = 1..Len(funcs')
    BY <1>3, <2>1
  <2>5. Len(funcs) \in Nat
    BY <2>1
  <2>6. QED
    BY <2>1, <2>2, <2>3, <2>4, <2>5 DEF IsInjective
<1>5. IsPrefix(batch', funcs')
  BY <1>1, <1>2, <1>3, PrefixTrivial DEF worker
<1>6. TypeOK'
  BY <1>1, <1>3, <1>4, <1>5 DEF TypeOK, worker
<1>7. Fresh' /\ ~Over' /\ ~Over
  BY <1>1 DEF Fresh, Over
<1>8. Done' = Done
  BY <1>1 DEF Done, Called, worker
<1>9. QED
  BY <1>1, <1>2, <1>6, <1>7, <1>8 DEF Orders, worker

\* The first call of Shutdown takes what was registered.
LEMMA CallOrders ==
    ASSUME TypeOK, Orders, Ready, NEW c \in Caller, Call(c)
    PROVE  TypeOK' /\ Orders'
<1>1. /\ pc[c] = "idle" /\ UNCHANGED <<funcs, current, outcome, ran, result, expired, lastError>>
      /\ Ready'
  BY DEF Call, Ready
<1>2. CASE Fresh
  <2>1. pc' = [pc EXCEPT ![c] = "select"] /\ batch' = funcs /\ left' = Len(funcs)
    BY <1>2 DEF Call
  <2>2. batch = <<>> /\ left = 0 /\ current = NoFn /\ result = "none" /\ ran = <<>>
    <3>1. batch = <<>> /\ left = 0 /\ current = NoFn /\ result = "none"
      BY <1>2 DEF Orders
    <3>2. QED
      BY <3>1, NothingCalled DEF TypeOK
  <2>3. funcs \in Seq(Fn) /\ Len(funcs) \in Nat /\ IsPrefix(batch', funcs')
    BY <1>1, <2>1, PrefixTrivial DEF TypeOK
  <2>4. ran' = Reverse(SubSeq(batch', left' + 1, Len(batch')))
    BY <1>1, <2>1, <2>2, <2>3, NothingCalled
  <2>5. TypeOK'
    BY <1>1, <2>1, <2>3, <2>4 DEF TypeOK
  <2>6. ~Fresh' /\ ~Over'
    BY <1>1, <1>2, <2>1 DEF Fresh, Over, TypeOK
  <2>7. Called = {} /\ Called' = {}
    BY <2>1, <2>2, <2>3 DEF Called
  <2>8. QED
    BY <1>1, <2>1, <2>2, <2>5, <2>6, <2>7 DEF Orders, Done
<1>3. CASE ~Fresh
  <2>1. pc' = [pc EXCEPT ![c] = "blocked"] /\ UNCHANGED <<batch, left>>
    BY <1>3 DEF Call
  <2>2. TypeOK'
    BY <1>1, <2>1 DEF TypeOK
  <2>3. ~Fresh' /\ (Over' => Over)
    BY <1>1, <2>1, <1>3 DEF Fresh, Over, TypeOK
  <2>4. Done' = Done
    BY <1>1, <2>1 DEF Done, Called
  <2>5. QED
    BY <1>1, <1>3, <2>1, <2>2, <2>3, <2>4 DEF Orders
<1>4. QED
  BY <1>2, <1>3

\* The answer is that of the channel, or the deadline.
LEMMA AwaitOrders ==
    ASSUME TypeOK, Orders, NEW c \in Caller, Await(c)
    PROVE  TypeOK' /\ Orders'
<1>1. /\ UNCHANGED <<funcs, worker>>
      /\ expired' \in BOOLEAN
      /\ pc[c] # "idle"
  BY DEF Await, TakeResult, Timeout, TakeLate, GraceOver, Unblock, Return, TypeOK
<1>2. pc' = [pc EXCEPT ![c] = "returned"] \/ pc' = [pc EXCEPT ![c] = "grace"]
  BY DEF Await, TakeResult, Timeout, TakeLate, GraceOver, Unblock, Return
<1>3. lastError' \in {"nil", "error", "deadline"}
  BY DEF Await, TakeResult, Timeout, TakeLate, GraceOver, Unblock, Return, TypeOK
<1>4. TypeOK'
  BY <1>1, <1>2, <1>3 DEF TypeOK, worker
<1>5. ~Fresh /\ ~Fresh'
  BY <1>1, <1>2 DEF Fresh, TypeOK
<1>6. Over' /\ lastError' # "deadline" => result = IF lastError' = "nil" THEN "ok" ELSE "error"
  <2>1. CASE TakeResult(c)
    BY <2>1 DEF TakeResult, Return, TypeOK
  <2>2. CASE TakeLate(c)
    BY <2>2 DEF TakeLate, Return, TypeOK
  <2>3. CASE GraceOver(c)
    BY <2>3 DEF GraceOver, Return
  <2>4. CASE Timeout(c)
    <3>1. pc' = [pc EXCEPT ![c] = "grace"] /\ lastError' = lastError
      BY <2>4 DEF Timeout
    <3>2. Over' => Over
      BY <3>1 DEF Over, TypeOK
    <3>3. QED
      BY <3>1, <3>2 DEF Orders
  <2>5. CASE Unblock(c)
    BY <2>5 DEF Unblock, Orders
  <2>6. QED
    BY <2>1, <2>2, <2>3, <2>4, <2>5 DEF Await
<1>7. Done' = Done /\ Ready' = Ready
  BY <1>1 DEF Done, Called, Ready, worker
<1>8. QED
  BY <1>1, <1>4, <1>5, <1>6, <1>7 DEF Orders, worker

\* The answer is that of every function that was called.
LEMMA DeliverOrders ==
    ASSUME TypeOK, Orders, Deliver
    PROVE  TypeOK' /\ Orders'
<1>1. /\ ~Fresh /\ left = 0 /\ current = NoFn /\ result = "none"
      /\ result' = IF \E f \in Fn : outcome[f] = "error" THEN "error" ELSE "ok"
      /\ UNCHANGED <<funcs, pc, batch, left, current, outcome, ran, expired, lastError>>
  BY DEF Deliver, Started
<1>2. TypeOK'
  BY <1>1 DEF TypeOK
<1>3. Over => lastError = "deadline"
  BY <1>1 DEF Orders
<1>4. Fresh' = Fresh /\ Over' = Over /\ Ready' = Ready /\ Done' = Done
  BY <1>1 DEF Fresh, Over, Ready, Done, Called
<1>5. result' = "error" <=> \E f \in Fn : outcome'[f] = "error"
  BY <1>1
<1>6. QED
  BY <1>1, <1>2, <1>3, <1>4, <1>5 DEF Orders

\* The manager, whoever of it or of its surroundings takes the step.
LEMMA OrdersKept ==
    ASSUME TypeOK, Orders, [StopNext]_allVars
    PROVE  TypeOK' /\ Orders'
<1>1. ASSUME NEW f \in Fn, Startup(f) PROVE TypeOK' /\ Orders'
  BY <1>1, StartupOrders
<1>2. CASE Shutdown
  <2>1. Ready
    BY <1>2 DEF Shutdown
  <2>2. CASE CallNext
    BY <2>2, CallNextOrders
  <2>3. CASE Deliver
    BY <2>3, DeliverOrders
  <2>4. CASE Expire
    <3>1. expired' = TRUE /\ UNCHANGED <<funcs, pc, worker, lastError>>
      BY <2>4 DEF Expire
    <3>2. TypeOK'
      BY <3>1 DEF TypeOK, worker
    <3>3. Fresh' = Fresh /\ Over' = Over /\ Ready' = Ready /\ Done' = Done
      BY <3>1 DEF Fresh, Over, Ready, Done, Called, worker
    <3>4. QED
      BY <3>1, <3>2, <3>3 DEF Orders, worker
  <2>5. ASSUME NEW c \in Caller, Call(c) PROVE TypeOK' /\ Orders'
    BY <2>1, <2>5, CallOrders
  <2>6. ASSUME NEW c \in Caller, Await(c) PROVE TypeOK' /\ Orders'
    BY <2>6, AwaitOrders
  <2>7. QED
    BY <1>2, <2>2, <2>3, <2>4, <2>5, <2>6 DEF Shutdown, Shuts
<1>3. ASSUME NEW how \in {"ok", "error", "panic"}, Finish(how) PROVE TypeOK' /\ Orders'
  BY <1>3, FinishOrders
<1>4. CASE UNCHANGED vars
  <2>1. TypeOK'
    BY <1>4 DEF TypeOK, vars
  <2>2. Fresh' = Fresh /\ Over' = Over /\ Ready' = Ready /\ Done' = Done
    BY <1>4 DEF Fresh, Over, Ready, Done, Called, vars
  <2>3. QED
    BY <1>4, <2>1, <2>2 DEF Orders, vars
<1>5. QED
  BY <1>1, <1>2, <1>3, <1>4, ManagerStep

-----------------------------------------------------------------------------
\* What the rest of the process sees of a step of Shutdown.
LEMMA ShutdownEffect ==
    ASSUME TypeOK, Shutdown
    PROVE  UNCHANGED <<surroundings, funcs, outcome>> /\ (expired => expired')
BY DEF Shutdown, Shuts, CallNext, Deliver, Expire, Call, Await, TakeResult, Timeout, TakeLate,
   GraceOver, Unblock, Return, worker

\* The end of a function, whatever it was.
LEMMA FinishEffect ==
    ASSUME TypeOK, NEW how, Finish(how)
    PROVE  /\ outcome' = [outcome EXCEPT ![current] = how]
           /\ UNCHANGED <<funcs, expired>>
BY DEF Finish

\* By the time the sink is closed, the servers have stopped.
LEMMA SinkLast ==
    ASSUME TypeOK, Orders, current \in Sink
    PROVE  /\ "stopProxy" \in ToSet(funcs)
           /\ \A stop \in Server \cap ToSet(funcs) : outcome[stop] # "none"
<1>1. current # NoFn
  BY NoFnAssumption, StopAssumption
<1>2. Ready /\ batch = funcs /\ left < Len(batch) /\ current = batch[left + 1]
  BY <1>1 DEF Orders
<1>3. /\ funcs \in Seq(Fn) /\ "stopProxy" \in ToSet(funcs)
      /\ \A i, j \in 1..Len(funcs) : funcs[i] \in Sink /\ funcs[j] \in Server => i < j
  BY <1>2, RegistrationOrder DEF Ready
<1>4. left + 1 \in 1..Len(funcs) /\ left \in Nat /\ Len(funcs) \in Nat
  BY <1>2, <1>3 DEF TypeOK
<1>5. ASSUME NEW stop \in Server, stop \in ToSet(funcs)
      PROVE  outcome[stop] # "none"
  <2>1. PICK j \in 1..Len(funcs) : funcs[j] = stop
    BY <1>3, <1>5 DEF ToSet
  <2>2. left + 1 < j
    BY <1>2, <1>3, <1>4, <2>1
  <2>3. stop \in Called
    BY <1>2, <1>4, <2>1, <2>2 DEF Called
  <2>4. stop # current /\ stop \in Fn
    BY StopAssumption DEF Server, Sink
  <2>5. QED
    BY <2>3, <2>4 DEF Orders, Done
<1>6. QED
  BY <1>3, <1>5

\* Before anybody calls Shutdown no function has run.
LEMMA FreshOutcome ==
    ASSUME TypeOK, Orders, Fresh
    PROVE  \A f \in Fn : outcome[f] = "none"
<1>1. Called = {}
  BY DEF Orders, Called
<1>2. QED
  BY <1>1 DEF Orders, Done

\* Types, with what surrounds the manager.
LEMMA StopTypeKept ==
    ASSUME StopTypeOK, Orders, [StopNext]_allVars
    PROVE  StopTypeOK'
<1>1. TypeOK /\ TypeOK'
  BY OrdersKept DEF StopTypeOK
<1>. USE DEF StopTypeOK
<1>2. ASSUME NEW f \in Fn, Startup(f) PROVE StopTypeOK'
  <2>1. /\ Fresh /\ funcs' = Append(funcs, f) /\ outcome' = outcome
        /\ listening' = listening \cup (Server \cap {f})
        /\ UNCHANGED <<sinkOpen, stage, lost, torn>>
    BY <1>2 DEF Startup, Register, worker
  <2>2. ToSet(funcs') = ToSet(funcs) \cup {f}
    <3>1. funcs \in Seq(Fn) /\ Len(funcs) \in Nat
      BY <1>1 DEF TypeOK
    <3>2. /\ Len(Append(funcs, f)) = Len(funcs) + 1
          /\ \A i \in 1..Len(funcs) : Append(funcs, f)[i] = funcs[i]
          /\ Append(funcs, f)[Len(funcs) + 1] = f
      BY <3>1
    <3>3. DOMAIN funcs = 1..Len(funcs) /\ DOMAIN Append(funcs, f) = 1..(Len(funcs) + 1)
      BY <3>1
    <3>4. QED
      BY <2>1, <3>1, <3>2, <3>3 DEF ToSet
  <2>3. outcome[f] = "none"
    BY <1>1, <2>1, FreshOutcome
  <2>4. QED
    BY <1>1, <2>1, <2>2, <2>3
<1>3. CASE Shutdown
  BY <1>1, <1>3, ShutdownEffect DEF surroundings
<1>4. ASSUME NEW stop \in Server, CloseListener(stop) PROVE StopTypeOK'
  BY <1>1, <1>4 DEF CloseListener, vars
<1>5. ASSUME NEW how, Finish(how), current \notin listening', UNCHANGED listening
      PROVE  /\ listening' \subseteq Server \cap ToSet(funcs')
             /\ \A f \in listening' : outcome'[f] = "none"
  <2>1. outcome' = [outcome EXCEPT ![current] = how] /\ UNCHANGED funcs
    BY <1>5 DEF Finish
  <2>2. \A f \in listening : f # current /\ f \in Fn /\ outcome[f] = "none"
    BY <1>5, StopAssumption
  <2>3. outcome \in [Fn -> Outcome]
    BY <1>1 DEF TypeOK
  <2>4. QED
    BY <1>5, <2>1, <2>2, <2>3
<1>6. ASSUME NEW stop \in Server, Drained(stop) \/ DrainExpired(stop) PROVE StopTypeOK'
  <2>1. PICK how \in {"ok", "error"} : Finish(how)
    BY <1>6 DEF Drained, DrainExpired
  <2>2. current \notin listening' /\ UNCHANGED surroundings
    BY <1>6 DEF Drained, DrainExpired, surroundings
  <2>3. QED
    BY <1>1, <1>5, <2>1, <2>2 DEF surroundings
<1>7. ASSUME NEW how \in {"ok", "error", "panic"}, CloseSink(how) PROVE StopTypeOK'
  <2>1. /\ current \in Sink /\ Finish(how) /\ sinkOpen' = FALSE
        /\ torn' \subseteq Work /\ UNCHANGED <<listening, stage, lost>>
    BY <1>7 DEF CloseSink
  <2>2. current \notin listening'
    BY <2>1 DEF Sink, Server
  <2>3. QED
    BY <1>1, <1>5, <2>1, <2>2
<1>8. ASSUME NEW how \in {"ok", "error", "panic"}, EndOther(how) PROVE StopTypeOK'
  <2>1. current \in Other /\ Finish(how) /\ UNCHANGED surroundings
    BY <1>8 DEF EndOther
  <2>2. current \notin listening'
    BY <2>1 DEF Other, Server, surroundings
  <2>3. QED
    BY <1>1, <1>5, <2>1, <2>2 DEF surroundings
<1>9. ASSUME NEW w \in Work, Accept(w) \/ Act(w) \/ BeginEntry(w) \/ LogEntry(w) \/ Answer(w)
      PROVE  StopTypeOK'
  <2>1. UNCHANGED <<funcs, outcome, listening, sinkOpen, torn>>
    BY <1>9 DEF Accept, Act, BeginEntry, LogEntry, Answer, vars
  <2>2. stage' \in [Work -> Active \cup {"idle", "done"}]
    BY <1>9 DEF Accept, Act, BeginEntry, LogEntry, Answer, Goto, Active
  <2>3. lost' \subseteq {x \in Work : stage'[x] \in {"logged", "done"}}
    BY <1>9 DEF Accept, Act, BeginEntry, LogEntry, Answer, Goto, Active
  <2>4. QED
    BY <1>1, <2>1, <2>2, <2>3
<1>10. CASE UNCHANGED allVars
  BY <1>1, <1>10 DEF allVars, surroundings, vars
<1>11. QED
  BY <1>2, <1>3, <1>4, <1>6, <1>7, <1>8, <1>9, <1>10 DEF StopNext, Runs

\* Whoever is still served when all servers have stopped was cut off.
LEMMA CutOff ==
    ASSUME StopTypeOK, Drains, NEW w \in Served, stage[w] \in Active,
           \A stop \in Server \cap ToSet(funcs) : outcome[stop] # "none"
    PROVE  expired
<1>1. w \in Work /\ ServerOf(w) \in Server /\ w \in Conns(ServerOf(w))
  BY DEF Served, Work, Conns, ServerOf, Server
<1>2. ServerOf(w) \in ToSet(funcs)
  BY <1>1 DEF Drains, Active
<1>3. outcome[ServerOf(w)] \in {"ok", "error", "panic"}
  BY <1>1, <1>2, StopAssumption DEF StopTypeOK, TypeOK, Outcome
<1>4. QED
  BY <1>1, <1>3 DEF Drains

\* Servers drain before the sinks that their requests write to are closed.
LEMMA DrainsKept ==
    ASSUME StopTypeOK, Orders, Drains, [StopNext]_allVars
    PROVE  Drains'
<1>1. /\ TypeOK /\ stage \in [Work -> Active \cup {"idle", "done"}]
      /\ outcome \in [Fn -> Outcome] /\ Server \subseteq Fn
  BY StopAssumption DEF StopTypeOK, TypeOK
<1>2. ASSUME NEW f \in Fn, Startup(f) PROVE Drains'
  <2>1. /\ Fresh /\ funcs' = Append(funcs, f) /\ UNCHANGED <<outcome, expired, sinkOpen, stage>>
    BY <1>2 DEF Startup, Register, worker
  <2>2. ToSet(funcs) \subseteq ToSet(funcs')
    BY <1>1, <2>1 DEF ToSet, TypeOK
  <2>3. \A g \in Fn : outcome[g] = "none"
    BY <1>1, <2>1, FreshOutcome
  <2>4. sinkOpen
    BY <1>1, <2>3 DEF Drains, Server, StopTypeOK
  <2>5. QED
    BY <2>1, <2>2, <2>4 DEF Drains
<1>3. CASE Shutdown
  BY <1>1, <1>3, ShutdownEffect DEF Drains, surroundings
<1>4. ASSUME NEW stop \in Server, CloseListener(stop) PROVE Drains'
  BY <1>4 DEF CloseListener, vars, Drains
<1>5. ASSUME NEW stop \in Server, Drained(stop) PROVE Drains'
  <2>1. /\ outcome' = [outcome EXCEPT ![stop] = "ok"]
        /\ UNCHANGED <<funcs, expired, sinkOpen, stage>>
        /\ \A w \in Conns(stop) : stage[w] \notin Active
    BY <1>5 DEF Drained, Finish, surroundings
  <2>2. QED
    BY <1>1, <2>1 DEF Drains
<1>6. ASSUME NEW stop \in Server, DrainExpired(stop) PROVE Drains'
  <2>1. /\ outcome' = [outcome EXCEPT ![stop] = "error"]
        /\ UNCHANGED <<funcs, expired, sinkOpen, stage>>
        /\ expired
    BY <1>6 DEF DrainExpired, Finish, surroundings
  <2>2. QED
    BY <1>1, <2>1 DEF Drains
<1>7. ASSUME NEW how \in {"ok", "error", "panic"}, CloseSink(how) PROVE Drains'
  <2>1. /\ current \in Sink /\ outcome' = [outcome EXCEPT ![current] = how]
        /\ UNCHANGED <<funcs, expired, stage>>
    BY <1>7 DEF CloseSink, Finish
  <2>2. \A stop \in Server : outcome'[stop] = outcome[stop]
    BY <1>1, <2>1 DEF Server, Sink
  <2>3. QED
    BY <1>1, <2>1, <2>2, SinkLast DEF Drains
<1>8. ASSUME NEW how \in {"ok", "error", "panic"}, EndOther(how) PROVE Drains'
  <2>1. /\ current \in Other /\ outcome' = [outcome EXCEPT ![current] = how]
        /\ UNCHANGED <<funcs, expired, stage, sinkOpen>>
    BY <1>8 DEF EndOther, Finish, surroundings
  <2>2. \A stop \in Server : outcome'[stop] = outcome[stop]
    BY <1>1, <2>1 DEF Server, Other
  <2>3. QED
    BY <2>1, <2>2 DEF Drains
<1>9. ASSUME NEW w \in Work, Accept(w) PROVE Drains'
  <2>1. UNCHANGED <<funcs, outcome, expired, sinkOpen>> /\ stage' = [stage EXCEPT ![w] = "accepted"]
    BY <1>9 DEF Accept, vars, Goto
  <2>2. ServerOf(w) \in ToSet(funcs)
    BY <1>9 DEF Accept, StopTypeOK
  <2>3. w \in Served => outcome[ServerOf(w)] = "none"
    BY <1>9, StopAssumption DEF Accept, StopTypeOK
  <2>4. QED
    BY <1>1, <2>1, <2>2, <2>3 DEF Drains, Conns
<1>10. ASSUME NEW w \in Work, Act(w) \/ BeginEntry(w) \/ LogEntry(w) \/ Answer(w) PROVE Drains'
  <2>1. UNCHANGED <<funcs, outcome, expired, sinkOpen>> /\ stage[w] \in Active
    BY <1>10 DEF Act, BeginEntry, LogEntry, Answer, vars, Active
  <2>2. PICK next : stage' = [stage EXCEPT ![w] = next]
    BY <1>10 DEF Act, BeginEntry, LogEntry, Answer, Goto
  <2>3. \A x \in Work : stage[x] \notin Active => stage'[x] = stage[x]
    BY <1>1, <2>1, <2>2
  <2>4. \A x \in Work : stage'[x] # "idle" => stage[x] # "idle"
    BY <1>1, <2>1, <2>2 DEF Active
  <2>5. QED
    BY <2>1, <2>3, <2>4 DEF Drains, Conns, Served, Work
<1>11. CASE UNCHANGED allVars
  BY <1>11 DEF allVars, surroundings, vars, Drains
<1>12. QED
  BY <1>2, <1>3, <1>4, <1>5, <1>6, <1>7, <1>8, <1>9, <1>10, <1>11 DEF StopNext, Runs

\* An entry is lost or torn only with a server that was cut off.
LEMMA ServedKeptKept ==
    ASSUME StopTypeOK, Orders, Drains, ServedKept, [StopNext]_allVars
    PROVE  ServedKept'
<1>1. TypeOK /\ outcome \in [Fn -> Outcome] /\ "stopProxy" \in Fn /\ "stopProxy" \in Server
  BY StopAssumption DEF StopTypeOK, TypeOK, Server
<1>2. /\ outcome["stopProxy"] # "none" => outcome'["stopProxy"] # "none"
      /\ expired => expired'
  <2>1. CASE Shutdown
    BY <1>1, <2>1, ShutdownEffect
  <2>2. ASSUME NEW f \in Fn, Startup(f)
        PROVE  UNCHANGED <<outcome, expired>>
    BY <2>2 DEF Startup, Register, worker
  <2>3. ASSUME NEW how \in {"ok", "error", "panic"}, Finish(how)
        PROVE  outcome' = [outcome EXCEPT ![current] = how] /\ UNCHANGED expired
    BY <2>3 DEF Finish
  <2>4. QED
    BY <1>1, <2>1, <2>2, <2>3, ManagerStep DEF vars
<1>3. ASSUME NEW how \in {"ok", "error", "panic"}, CloseSink(how) PROVE ServedKept'
  <2>1. /\ current \in Sink /\ UNCHANGED lost
        /\ torn' \subseteq {w \in Work : stage[w] = "appending"}
    BY <1>3 DEF CloseSink
  <2>2. /\ "stopProxy" \in ToSet(funcs)
        /\ \A stop \in Server \cap ToSet(funcs) : outcome[stop] # "none"
    BY <1>1, <2>1, SinkLast
  <2>3. (torn' \cap Served # {}) => expired
    BY <2>1, <2>2, CutOff DEF Active
  <2>4. QED
    BY <1>1, <1>2, <2>1, <2>2, <2>3 DEF ServedKept
<1>4. ASSUME NEW w \in Work, LogEntry(w) PROVE ServedKept'
  <2>1. stage[w] \in Active /\ UNCHANGED torn /\ lost' = IF sinkOpen THEN lost ELSE lost \cup {w}
    BY <1>4 DEF LogEntry, Active
  <2>2. CASE sinkOpen
    BY <1>2, <2>1, <2>2 DEF ServedKept
  <2>3. CASE ~sinkOpen
    <3>1. /\ "stopProxy" \in ToSet(funcs)
          /\ \A stop \in Server \cap ToSet(funcs) : outcome[stop] # "none"
      BY <2>3 DEF Drains
    <3>2. w \in Served => expired
      BY <2>1, <3>1, CutOff
    <3>3. QED
      BY <1>1, <1>2, <2>1, <2>3, <3>1, <3>2 DEF ServedKept
  <2>4. QED
    BY <2>2, <2>3 DEF StopTypeOK
<1>5. ASSUME UNCHANGED <<lost, torn>> PROVE ServedKept'
  BY <1>2, <1>5 DEF ServedKept
<1>6. QED
  BY <1>3, <1>4, <1>5 DEF StopNext, Startup, Shutdown, Runs, CloseListener, Drained, DrainExpired,
     EndOther, Accept, Act, BeginEntry, Answer, allVars, surroundings

\* The parts of the invariant hold one another up.
LEMMA StopIInvKept == StopIInv /\ [StopNext]_allVars => StopIInv'
BY OrdersKept, StopTypeKept, DrainsKept, ServedKeptKept DEF StopIInv, StopTypeOK

\* The invariant of the shutdown, in every state.
LEMMA Stopping == StopSpec => []StopIInv
BY StopInitial, StopIInvKept, PTL DEF StopSpec

\* Everything that is called is called in reverse, and an answer is of it all.
LEMMA AnswersAreHonest ==
    ASSUME TypeOK, Orders
    PROVE  AnswerHonest
<1>. SUFFICES ASSUME Over, lastError # "deadline"
              PROVE  /\ ran = Reverse(batch) /\ current = NoFn
                     /\ lastError = "nil" <=> \A f \in ToSet(ran) : outcome[f] # "error"
  BY DEF AnswerHonest
<1>1. result = IF lastError = "nil" THEN "ok" ELSE "error"
  BY DEF Orders
<1>2. left = 0 /\ current = NoFn /\ (result = "error" <=> \E f \in Fn : outcome[f] = "error")
  BY <1>1 DEF Orders
<1>3. batch \in Seq(Fn) /\ Len(batch) \in Nat
  BY DEF TypeOK
<1>4. ran = Reverse(batch)
  <2>1. SubSeq(batch, left + 1, Len(batch)) = batch
    BY <1>2, <1>3
  <2>2. ran = Reverse(SubSeq(batch, left + 1, Len(batch)))
    BY DEF TypeOK
  <2>3. QED
    BY <2>1, <2>2
<1>5. DOMAIN ran = 1..Len(batch) /\ \A i \in 1..Len(batch) : ran[i] = batch[Len(batch) - i + 1]
  BY <1>3, <1>4 DEF Reverse
<1>6. ToSet(ran) \subseteq Fn /\ Called \subseteq ToSet(ran)
  <2>1. \A i \in 1..Len(batch) :
           Len(batch) - i + 1 \in 1..Len(batch) /\ Len(batch) - (Len(batch) - i + 1) + 1 = i
    BY <1>3
  <2>2. \A i \in 1..Len(batch) : ran[i] \in Fn
    BY <1>3, <1>5, <2>1
  <2>3. \A i \in 1..Len(batch) : batch[i] = ran[Len(batch) - i + 1]
    BY <1>5, <2>1
  <2>4. \A i \in 1..Len(batch) : batch[i] \in ToSet(ran)
    BY <1>5, <2>1, <2>3 DEF ToSet
  <2>5. Called \subseteq ToSet(ran)
    BY <1>2, <1>3, <2>4 DEF Called
  <2>6. QED
    BY <1>5, <2>2, <2>5 DEF ToSet
<1>7. \A f \in Fn : outcome[f] = "error" => f \in ToSet(ran)
  BY <1>6 DEF Orders, Done
<1>8. QED
  BY <1>1, <1>2, <1>4, <1>6, <1>7

(***************************************************************************)
(* Shutdown, whose functions may fail, panic or hang and whose callers may *)
(* be several, says nil only when it has run everything that was           *)
(* registered, in reverse, and nothing failed.  And the types are kept.    *)
(***************************************************************************)
THEOREM ShutdownHonest == StopSpec => []StopInv
<1>1. StopIInv => StopInv
  BY AnswersAreHonest DEF StopIInv, StopInv, StopTypeOK
<1>2. QED
  BY <1>1, Stopping, PTL

(***************************************************************************)
(* Whatever is under way when inject, run or examine stop, the audit file  *)
(* and the recorder outlive the servers that write to them: no entry of a  *)
(* call or a plain request is lost before the time of Shutdown runs out.   *)
(***************************************************************************)
THEOREM EntriesKept == StopSpec => []ServedKept
<1>1. StopIInv => ServedKept
  BY DEF StopIInv
<1>2. QED
  BY <1>1, Stopping, PTL

(***************************************************************************)
(* A Shutdown without an error has cut off no control call and no plain    *)
(* request: the Stop of a server reports those that it did not wait for.   *)
(***************************************************************************)
THEOREM CleanStopSafe == StopSpec => []CleanStopCutsNobody
<1>1. ASSUME StopIInv, Over, lastError = "nil", NEW w \in Served
      PROVE  stage[w] \in {"idle", "done"}
  <2>1. TypeOK /\ w \in Work /\ ServerOf(w) \in Server /\ w \in Conns(ServerOf(w))
    BY <1>1 DEF StopIInv, StopTypeOK, Served, Work, Conns, ServerOf, Server
  <2>2. result = "ok" /\ ~Fresh
    BY <1>1 DEF StopIInv, Orders, Over, Fresh
  <2>3. left = 0 /\ current = NoFn /\ batch = funcs /\ \A f \in Fn : outcome[f] # "error"
    BY <1>1, <2>2 DEF StopIInv, Orders
  <2>4. \A f \in ToSet(funcs) : f \in Fn /\ outcome[f] # "none"
    <3>1. funcs \in Seq(Fn)
      BY <2>1 DEF TypeOK
    <3>2. ToSet(funcs) \subseteq Called
      BY <2>3, <3>1 DEF ToSet, Called
    <3>3. ToSet(funcs) \subseteq Fn
      BY <3>1 DEF ToSet
    <3>4. QED
      BY <1>1, <2>3, <3>2, <3>3, NoFnAssumption DEF StopIInv, Orders, Done
  <2>5. stage[w] \in Active => outcome[ServerOf(w)] = "ok"
    <3>1. SUFFICES ASSUME stage[w] \in Active
                   PROVE  outcome[ServerOf(w)] = "ok"
      OBVIOUS
    <3>2. ServerOf(w) \in ToSet(funcs)
      BY <1>1, <2>1, <3>1 DEF StopIInv, Drains, Active
    <3>3. outcome[ServerOf(w)] \in Outcome /\ outcome[ServerOf(w)] # "panic"
      BY <1>1, <2>1, <2>4, <3>2 DEF StopIInv, Drains, TypeOK
    <3>4. QED
      BY <2>3, <2>4, <3>2, <3>3 DEF Outcome
  <2>6. stage[w] \notin Active
    BY <1>1, <2>1, <2>5 DEF StopIInv, Drains
  <2>7. QED
    BY <1>1, <2>1, <2>6 DEF StopIInv, StopTypeOK
<1>2. StopIInv => CleanStopCutsNobody
  BY <1>1 DEF CleanStopCutsNobody
<1>3. QED
  BY <1>2, Stopping, PTL

-----------------------------------------------------------------------------
(***************************************************************************)
(* The environment of a child.  Those that layers over the names make:     *)
(***************************************************************************)
Environment(names) ==
    UNION {[keys -> {"parent", "file", "proxy", "cert", "user"}] : keys \in SUBSET names}

\* One layer over another, variable by variable.
LEMMA SetAllType ==
    ASSUME NEW names, NEW env \in Environment(names), NEW layer \in Environment(names)
    PROVE  SetAll(env, layer) \in Environment(names)
<1>. DEFINE source == {"parent", "file", "proxy", "cert", "user"}
            keys == DOMAIN env \cup DOMAIN layer
<1>1. /\ DOMAIN layer \subseteq names /\ \A v \in DOMAIN layer : layer[v] \in source
      /\ DOMAIN env \subseteq names /\ \A v \in DOMAIN env : env[v] \in source
  BY DEF Environment
<1>2. SetAll(env, layer) \in [keys -> source]
  BY <1>1 DEF SetAll
<1>3. keys \in SUBSET names
  BY <1>1
<1>. HIDE DEF keys
<1>4. QED
  BY <1>2, <1>3 DEF Environment

\* The recursion that FoldLeft stands for.
EnvFold(layers, parent, fold) ==
    fold = [s \in SUBSET (DOMAIN layers) |->
              IF s = {} THEN parent ELSE SetAll(fold[s \ {Max(s)}], layers[Max(s)])]

(***************************************************************************)
(* Layers are set one after the other.                                     *)
(***************************************************************************)
LEMMA LayersSet ==
    ASSUME NEW names, NEW parent \in Environment(names),
           NEW layers \in Seq(Environment(names)), Len(layers) = 4
    PROVE  FoldLeft(SetAll, parent, layers)
             = SetAll(SetAll(SetAll(SetAll(parent, layers[1]), layers[2]), layers[3]), layers[4])
<1>. DEFINE D == Environment(names)
            step == [i \in 1 .. 4 |-> [env \in D |-> SetAll(env, layers[i])]]
<1>1. 4 \in Nat /\ DOMAIN layers = 1 .. 4 /\ parent \in D /\ \A i \in 1 .. 4 : layers[i] \in D
  <2>1. \A T : \A q \in Seq(T) : DOMAIN q = 1 .. Len(q) /\ \A i \in 1 .. Len(q) : q[i] \in T
    OBVIOUS
  <2>. HIDE DEF D
  <2>2. layers \in Seq(D)
    BY DEF D
  <2>3. QED
    BY <2>1, <2>2 DEF D
<1>2. step \in [1 .. 4 -> [D -> D]]
  BY <1>1, SetAllType
<1>3. \E fold \in [SUBSET (1 .. 4) -> D] : FoldsUp(fold, 4, parent, step)
  <2>. HIDE DEF D, step
  <2>1. QED
    BY <1>1, <1>2, FoldExists
<1>4. PICK fold \in [SUBSET (1 .. 4) -> D] :
         \A s \in SUBSET (1 .. 4) :
            fold[s] = IF s = {} THEN parent ELSE step[Max(s)][fold[s \ {Max(s)}]]
  BY <1>3 DEF FoldsUp
<1>5. ASSUME NEW s \in SUBSET (1 .. 4)
      PROVE  fold[s] = IF s = {} THEN parent ELSE SetAll(fold[s \ {Max(s)}], layers[Max(s)])
  <2>1. CASE s = {}
    BY <1>4, <2>1
  <2>2. CASE s # {}
    <3>1. Max(s) \in 1 .. 4 /\ s \ {Max(s)} \in SUBSET (1 .. 4)
      BY <1>1, <2>2, MaxGreatest
    <3>2. fold[s \ {Max(s)}] \in D
      BY <3>1
    <3>3. QED
      BY <1>4, <2>2, <3>1, <3>2
  <2>3. QED
    BY <2>1, <2>2
<1>6. EnvFold(layers, parent, fold)
  BY <1>1, <1>5 DEF EnvFold
<1>7. FoldLeft(SetAll, parent, layers) = (CHOOSE it : EnvFold(layers, parent, it))[DOMAIN layers]
  BY Zenon DEF FoldLeft, MapThenFoldSet, EnvFold
<1>8. PICK it : EnvFold(layers, parent, it) /\ FoldLeft(SetAll, parent, layers) = it[DOMAIN layers]
  BY <1>6, <1>7, Zenon
<1>9. it[1 .. 0] = parent
  <2>1. 1 .. 0 = {} /\ 1 .. 0 \in SUBSET (1 .. 4)
    OBVIOUS
  <2>2. QED
    BY <1>1, <1>8, <2>1 DEF EnvFold
<1>10. ASSUME NEW k \in 1 .. 4 PROVE it[1 .. k] = SetAll(it[1 .. k - 1], layers[k])
  <2>1. Max(1 .. k) = k /\ (1 .. k) \ {k} = 1 .. k - 1 /\ 1 .. k # {} /\ 1 .. k \in SUBSET (1 .. 4)
    BY MaxInterval
  <2>2. QED
    BY ZenonT(40), <1>1, <1>8, <2>1 DEF EnvFold
<1>11. /\ it[1 .. 1] = SetAll(it[1 .. 0], layers[1]) /\ it[1 .. 2] = SetAll(it[1 .. 1], layers[2])
       /\ it[1 .. 3] = SetAll(it[1 .. 2], layers[3]) /\ it[1 .. 4] = SetAll(it[1 .. 3], layers[4])
  BY <1>10
<1>12. QED
  BY <1>1, <1>8, <1>9, <1>11

(***************************************************************************)
(* Who sets which variable of a child, and what it gets of another         *)
(* chaperone's, for every parent, env file, ca_env_vars and -e flag.       *)
(***************************************************************************)
THEOREM EnvironmentConsistent ==
    ASSUME NEW parent, NEW lines \in Seq(Line), NEW caEnvVars, NEW user
    PROVE  /\ Precedence(BuildProcessEnvironment(parent, lines, caEnvVars, user),
                         parent, LoadEnvFile(lines), CAVars(caEnvVars), user)
           /\ Foreign(BuildProcessEnvironment(parent, lines, caEnvVars, user)) =
                 (DefaultCA \ (CAVars(caEnvVars) \cup ProxyVar \cup user))
                    \cap (parent \cup LoadEnvFile(lines))
<1>. DEFINE file == LoadEnvFile(lines)
            cert == CAVars(caEnvVars)
            names == parent \cup file \cup ProxyVar \cup cert \cup user
            layers == <<Layer("file", file), Layer("proxy", ProxyVar),
                        Layer("cert", cert), Layer("user", user)>>
            base == Layer("parent", parent)
            env == SetAll(SetAll(SetAll(SetAll(base, layers[1]), layers[2]), layers[3]), layers[4])
<1>1. BuildProcessEnvironment(parent, lines, caEnvVars, user) = FoldLeft(SetAll, base, layers)
  BY DEF BuildProcessEnvironment
<1>2. ASSUME NEW keys \in SUBSET names, NEW source \in {"parent", "file", "proxy", "cert", "user"}
      PROVE  Layer(source, keys) \in Environment(names)
  <2>. HIDE DEF names
  <2>1. QED
    BY DEF Layer, Environment
<1>3. base \in Environment(names) /\ layers \in Seq(Environment(names)) /\ Len(layers) = 4
  <2>1. /\ parent \in SUBSET names /\ file \in SUBSET names /\ ProxyVar \in SUBSET names
        /\ cert \in SUBSET names /\ user \in SUBSET names
    OBVIOUS
  <2>. HIDE DEF names, file, cert
  <2>2. QED
    BY <1>2, <2>1
<1>4. BuildProcessEnvironment(parent, lines, caEnvVars, user) = env
  <2>. HIDE DEF base, layers, names
  <2>1. QED
    BY <1>1, <1>3, LayersSet
<1>5. /\ DOMAIN env = names
      /\ \A v \in names : env[v] = IF v \in user THEN "user"
                                  ELSE IF v \in cert THEN "cert"
                                  ELSE IF v \in ProxyVar THEN "proxy"
                                  ELSE IF v \in file THEN "file" ELSE "parent"
  <2>. HIDE DEF file, cert
  <2>1. QED
    BY DEF SetAll, Layer
<1>6. OwnCA \in cert
  BY DEF CAVars
<1>. HIDE DEF env, file, cert
<1>7. Precedence(env, parent, file, cert, user)
  BY <1>5 DEF Precedence
<1>8. Foreign(env) = (DefaultCA \ (cert \cup ProxyVar \cup user)) \cap (parent \cup file)
  <2>1. \A v \in names : env[v] \in {"parent", "file"} <=> v \notin user \cup cert \cup ProxyVar
    BY <1>5
  <2>2. names \ (user \cup cert \cup ProxyVar) = (parent \cup file) \ (user \cup cert \cup ProxyVar)
    OBVIOUS
  <2>. HIDE DEF names
  <2>3. Foreign(env) = (names \ (user \cup cert \cup ProxyVar)) \cap Trusted
    BY <1>5, <2>1 DEF Foreign
  <2>4. QED
    BY <1>6, <2>2, <2>3 DEF Trusted
<1>9. QED
  BY <1>4, <1>7, <1>8 DEF file, cert

LaunchTypeOK == template \in Seq(Character) /\ launch \in Launch

\* The strings and environments that are looked at are of their types.
THEOREM LaunchType == LaunchSpec => []LaunchTypeOK
<1>1. LaunchInit => LaunchTypeOK
  BY DEF LaunchInit, LaunchTypeOK
<1>2. LaunchTypeOK /\ [Lengthen]_<<template, launch>> => LaunchTypeOK'
  BY DEF LaunchTypeOK, Lengthen
<1>3. QED
  BY <1>1, <1>2, PTL DEF LaunchSpec

(***************************************************************************)
(* Whatever a child is started from, its proxy is this chaperone's, and of *)
(* another one it gets just the certificate variables that ca_env_vars     *)
(* leaves out (run.EnvBuilder, BuildProcessEnvironment).                   *)
(***************************************************************************)
THEOREM ChildrenConsistent == LaunchSpec => []ChildConsistent
<1>1. LaunchTypeOK => ChildConsistent
  <2>1. LaunchTypeOK => launch.lines \in Seq(Line)
    BY DEF LaunchTypeOK, Launch
  <2>2. QED
    BY <2>1, EnvironmentConsistent, Zenon DEF ChildConsistent
<1>2. QED
  BY <1>1, LaunchType, PTL

-----------------------------------------------------------------------------
(***************************************************************************)
(* The strings of a run section.  Expand works from left to right; what it *)
(* makes of a string from a place on depends on what follows that place    *)
(* only (ExpandsAlike), so that a string can be taken apart in front       *)
(* (ExpandStep).  First, the characters that it sees.                      *)
(***************************************************************************)
LEMMA Specials ==
    /\ Escape \in Character /\ Dollar \in Character
    /\ OpenBrace \in Character /\ CloseBrace \in Character
    /\ Escape # Dollar /\ OpenBrace # Dollar /\ OpenBrace # Escape /\ CloseBrace # Dollar
    /\ \A c \in NameChar : c # Escape /\ c # Dollar /\ c # OpenBrace /\ c # CloseBrace
<1>1. /\ Escape \in Character /\ Dollar \in Character
      /\ OpenBrace \in Character /\ CloseBrace \in Character
  BY CharacterAssumption
<1>2. /\ Escape # Dollar /\ OpenBrace # Dollar /\ OpenBrace # Escape /\ CloseBrace # Dollar
  BY DEF Escape, Dollar, OpenBrace, CloseBrace
<1>3. \A c \in NameChar : c # Escape /\ c # Dollar /\ c # OpenBrace /\ c # CloseBrace
  BY CharacterAssumption
<1>4. QED
  BY <1>1, <1>2, <1>3

(***************************************************************************)
(* Where Until stops, which is one place only.                             *)
(***************************************************************************)
FirstStop(s, i, stops, j) ==
    /\ j \in i .. Len(s) + 1
    /\ j > Len(s) \/ s[j] \in stops
    /\ \A k \in i .. j - 1 : s[k] \notin stops

\* There is such a place, or the end of the string.
LEMMA UntilStops ==
    ASSUME NEW S, NEW s \in Seq(S), NEW i \in 1 .. Len(s) + 1, NEW stops
    PROVE  FirstStop(s, i, stops, Until(s, i, stops))
<1>. DEFINE n == Len(s) + 1
            T == {k \in 1 .. n : k >= i => \E j \in k .. n : FirstStop(s, k, stops, j)}
<1>1. Len(s) \in Nat /\ n \in Nat
  OBVIOUS
<1>2. ASSUME NEW k \in 1 .. n, \A j \in k + 1 .. n : j \in T PROVE k \in T
  <2>1. CASE k = n \/ s[k] \in stops
    <3>1. FirstStop(s, k, stops, k)
      BY <1>1, <2>1 DEF FirstStop
    <3>2. QED
      BY <1>1, <3>1
  <2>2. CASE k # n /\ s[k] \notin stops
    <3>1. k + 1 \in 1 .. n /\ k + 1 \in k + 1 .. n
      BY <1>1, <2>2
    <3>2. k + 1 \in T
      BY <1>2, <3>1
    <3>3. ASSUME k >= i PROVE \E j \in k .. n : FirstStop(s, k, stops, j)
      <4>1. PICK j \in k + 1 .. n : FirstStop(s, k + 1, stops, j)
        BY <1>1, <3>2, <3>3
      <4>2. \A x \in k .. j - 1 : x = k \/ x \in k + 1 .. j - 1
        BY <1>1
      <4>3. FirstStop(s, k, stops, j)
        BY <1>1, <2>2, <4>1, <4>2 DEF FirstStop
      <4>4. QED
        BY <1>1, <4>1, <4>3
    <3>4. QED
      BY <3>3
  <2>3. QED
    BY <2>1, <2>2
<1>3. 1 .. n \subseteq T
  <2>. HIDE DEF T, n
  <2>1. QED
    BY <1>1, <1>2, Downward
<1>4. \E j \in i .. Len(s) + 1 : FirstStop(s, i, stops, j)
  BY <1>1, <1>3
<1>5. QED
  BY <1>4, Zenon DEF Until, FirstStop

\* Strings that go on alike, one of them d places later, stop alike.
GoesOn(s, t, d) ==
    Len(s) = d + Len(t) /\ \A k \in 1 .. Len(t) : s[d + k] = t[k]

\* As long as the stops of the one are those of the other.
LEMMA StopsAlike ==
    ASSUME NEW S, NEW s \in Seq(S), NEW t \in Seq(S), NEW d \in Nat,
           GoesOn(s, t, d),
           NEW i \in 1 .. Len(t) + 1, NEW at, at = d + i, NEW stops, NEW others,
           \A k \in 1 .. Len(t) : t[k] \in stops <=> t[k] \in others
    PROVE  Until(s, at, others) = d + Until(t, i, stops)
<1>. DEFINE x == Until(s, at, others)
            y == Until(t, i, stops)
<1>1. /\ Len(s) \in Nat /\ Len(t) \in Nat /\ at = d + i /\ at \in 1 .. Len(s) + 1
      /\ Len(s) = d + Len(t) /\ \A k \in 1 .. Len(t) : s[d + k] = t[k]
  BY DEF GoesOn
<1>2. FirstStop(s, at, others, x)
  BY <1>1, UntilStops
<1>3. FirstStop(t, i, stops, y)
  BY UntilStops
<1>. HIDE DEF x, y
<1>4. x \in Int /\ y \in Int /\ x >= d + i /\ y >= i /\ x <= Len(s) + 1 /\ y <= Len(t) + 1
  BY <1>1, <1>2, <1>3 DEF FirstStop
<1>5. \A k \in d + i .. x - 1 : s[k] \notin others
  BY <1>2 DEF FirstStop
<1>6. \A k \in i .. y - 1 : t[k] \notin stops
  BY <1>3 DEF FirstStop
<1>7. ~(x < d + y)
  <2>1. SUFFICES ASSUME x < d + y PROVE FALSE
    OBVIOUS
  <2>2. x - d \in 1 .. Len(t) /\ x - d \in i .. y - 1 /\ d + (x - d) = x /\ x <= Len(s)
    BY <1>1, <1>4, <2>1
  <2>3. s[x] \in others /\ s[x] = t[x - d]
    BY <1>1, <1>2, <1>4, <2>2 DEF FirstStop
  <2>4. QED
    BY <1>6, <2>2, <2>3
<1>8. ~(x > d + y)
  <2>1. SUFFICES ASSUME x > d + y PROVE FALSE
    OBVIOUS
  <2>2. y \in 1 .. Len(t) /\ d + y \in d + i .. x - 1 /\ y <= Len(t)
    BY <1>1, <1>4, <2>1
  <2>3. t[y] \in stops /\ s[d + y] = t[y]
    BY <1>1, <1>3, <1>4, <2>2 DEF FirstStop
  <2>4. QED
    BY <1>5, <2>2, <2>3
<1>9. x = d + y
  BY <1>4, <1>7, <1>8
<1>10. QED
  BY <1>9 DEF x, y

\* And what they read up to there is the same.
SameUntil(s, p, others, t, i, stops, d) ==
    LET end == Until(t, i, stops)
        stop == Until(s, p, others)
    IN stop = d + end /\ end \in i .. Len(t) + 1 /\ SubSeq(s, p, stop - 1) = SubSeq(t, i, end - 1)

StopAlike(t, stops, others) == \A k \in 1 .. Len(t) : t[k] \in stops <=> t[k] \in others

\* From the same start, d places apart.
LEMMA ReadAlike ==
    ASSUME NEW S, NEW s \in Seq(S), NEW t \in Seq(S), NEW d \in Nat, GoesOn(s, t, d),
           NEW i \in 1 .. Len(t) + 1, NEW p, p = d + i, NEW stops, NEW others,
           StopAlike(t, stops, others)
    PROVE  SameUntil(s, p, others, t, i, stops, d)
<1>. DEFINE end == Until(t, i, stops)
            stop == Until(s, p, others)
<1>1. stop = d + end
  BY StopsAlike DEF StopAlike
<1>2. end \in i .. Len(t) + 1
  BY UntilStops DEF FirstStop
<1>. HIDE DEF end, stop
<1>3. /\ Len(s) \in Nat /\ Len(t) \in Nat /\ Len(s) = d + Len(t)
      /\ \A k \in i .. end - 1 : s[d + k] = t[k]
  BY <1>2 DEF GoesOn
<1>4. SubSeq(s, p, stop - 1) = SubSeq(t, i, end - 1)
  <2>1. ASSUME NEW b \in i .. Len(t) + 1, \A k \in i .. b - 1 : s[d + k] = t[k]
        PROVE  SubSeq(s, d + i, d + b - 1) = SubSeq(t, i, b - 1)
    BY <1>3, <2>1
  <2>2. QED
    BY <1>1, <1>2, <1>3, <2>1
<1>5. QED
  BY <1>1, <1>2, <1>4 DEF SameUntil, end, stop

\* What a reference consists of.
LEMMA Fields ==
    ASSUME NEW ref, NEW name, NEW closed, NEW next,
           ref = [name |-> name, closed |-> closed, next |-> next]
    PROVE  ref.name = name /\ ref.next = next /\ ref.closed = closed
OBVIOUS

\* So they refer to the same variable, and go on alike.
SameReference(s, at, t, i, d) ==
    /\ Reference(s, at).name = Reference(t, i).name
    /\ Reference(s, at).closed <=> Reference(t, i).closed
    /\ Reference(s, at).next = d + Reference(t, i).next
    /\ Reference(t, i).next \in Nat /\ Reference(t, i).next > i
    /\ Reference(t, i).closed => Reference(t, i).next <= Len(t) + 1

\* A reference is read from its letters alone.
LEMMA ReferencesAlike ==
    ASSUME NEW S, NEW s \in Seq(S), NEW t \in Seq(S), NEW d \in Nat, GoesOn(s, t, d),
           NEW i, i \in 1 .. Len(t), NEW at, at = d + i
    PROVE  SameReference(s, at, t, i, d)
<1>1. /\ Len(s) \in Nat /\ Len(t) \in Nat /\ at = d + i /\ at \in 1 .. Len(s)
      /\ Len(s) = d + Len(t) /\ \A k \in 1 .. Len(t) : s[d + k] = t[k]
  <2>1. Len(s) = d + Len(t) /\ \A k \in 1 .. Len(t) : s[d + k] = t[k]
    BY DEF GoesOn
  <2>2. Len(s) \in Nat /\ Len(t) \in Nat
    OBVIOUS
  <2>3. QED
    BY <2>1, <2>2
<1>2. at < Len(s) /\ s[at + 1] = OpenBrace <=> i < Len(t) /\ t[i + 1] = OpenBrace
  <2>1. at < Len(s) <=> i < Len(t)
    BY <1>1
  <2>2. ASSUME i < Len(t) PROVE s[at + 1] = t[i + 1]
    <3>1. PICK next : next = i + 1
      OBVIOUS
    <3>2. next \in 1 .. Len(t) /\ d + next = at + 1
      BY <1>1, <2>2, <3>1
    <3>3. s[d + next] = t[next]
      BY <1>1, <3>2
    <3>4. QED
      BY <3>1, <3>2, <3>3
  <2>3. QED
    BY <2>1, <2>2
<1>4. CASE i < Len(t) /\ t[i + 1] = OpenBrace
  <2>1. PICK a, p : a = i + 2 /\ p = at + 2
    OBVIOUS
  <2>2. a \in 1 .. Len(t) + 1 /\ p = d + a /\ a > i
    <3>1. i \in Nat /\ i >= 1 /\ i < Len(t) /\ Len(t) \in Nat /\ at = d + i
      BY <1>1, <1>4
    <3>2. QED
      BY <2>1, <3>1
  <2>. DEFINE stops == {CloseBrace}
              end == Until(t, a, stops)
              stop == Until(s, p, stops)
  <2>3. /\ stop = d + end /\ end \in a .. Len(t) + 1
        /\ SubSeq(s, p, stop - 1) = SubSeq(t, a, end - 1)
    <3>1. StopAlike(t, stops, stops)
      BY DEF StopAlike
    <3>2. SameUntil(s, p, stops, t, a, stops, d)
      <4>. HIDE DEF stops
      <4>1. QED
        BY <2>2, <3>1, ReadAlike
    <3>3. QED
      BY <3>2 DEF SameUntil
  <2>4. Reference(t, i) = [name |-> SubSeq(t, a, end - 1), closed |-> end <= Len(t), next |-> end + 1]
    BY <1>4, <2>1 DEF Reference
  <2>5. Reference(s, at) = [name |-> SubSeq(s, p, stop - 1), closed |-> stop <= Len(s), next |-> stop + 1]
    BY <1>2, <1>4, <2>1 DEF Reference
  <2>. HIDE DEF end, stop
  <2>6. end <= Len(t) <=> stop <= Len(s)
    BY SMTT(30), <1>1, <2>2, <2>3
  <2>7. /\ stop + 1 = d + (end + 1) /\ end + 1 \in Nat /\ end + 1 > i
        /\ end <= Len(t) => end + 1 <= Len(t) + 1
    BY <1>1, <2>2, <2>3
  <2>. DEFINE ref == Reference(t, i)
  <2>8. /\ ref.name = SubSeq(t, a, end - 1) /\ ref.next = end + 1
        /\ ref.closed = (end <= Len(t))
    <3>1. ref = [name |-> SubSeq(t, a, end - 1), closed |-> end <= Len(t), next |-> end + 1]
      BY <2>4
    <3>. HIDE DEF ref
    <3>2. QED
      BY <3>1, Fields
  <2>9. /\ Reference(s, at).name = SubSeq(s, p, stop - 1) /\ Reference(s, at).next = stop + 1
        /\ Reference(s, at).closed = (stop <= Len(s))
    BY <2>5, Fields
  <2>10. QED
    BY <2>3, <2>6, <2>7, <2>8, <2>9 DEF SameReference
<1>5. CASE ~(i < Len(t) /\ t[i + 1] = OpenBrace)
  <2>. DEFINE stops == ToSet(t) \ NameChar
              others == ToSet(s) \ NameChar
  <2>1. PICK a, p : a = i + 1 /\ p = at + 1
    OBVIOUS
  <2>2. a \in 1 .. Len(t) + 1 /\ p = d + a /\ a > i
    BY SMTT(30), <1>1, <2>1
  <2>. DEFINE end == Until(t, a, stops)
              stop == Until(s, p, others)
  <2>3. \A k \in 1 .. Len(t) : t[k] \in stops <=> t[k] \in others
    <3>1. ASSUME NEW k \in 1 .. Len(t) PROVE t[k] \in ToSet(t) /\ t[k] \in ToSet(s)
      <4>1. k \in DOMAIN t /\ d + k \in DOMAIN s /\ s[d + k] = t[k]
        BY <1>1
      <4>2. QED
        BY <4>1 DEF ToSet
    <3>2. QED
      BY <3>1
  <2>4. Reference(t, i) = [name |-> SubSeq(t, a, end - 1), closed |-> TRUE, next |-> end]
    BY <1>5, <2>1 DEF Reference
  <2>5. Reference(s, at) = [name |-> SubSeq(s, p, stop - 1), closed |-> TRUE, next |-> stop]
    BY <1>2, <1>5, <2>1 DEF Reference
  <2>6. /\ stop = d + end /\ end \in a .. Len(t) + 1
        /\ SubSeq(s, p, stop - 1) = SubSeq(t, a, end - 1)
    <3>1. StopAlike(t, stops, others)
      BY <2>3 DEF StopAlike
    <3>2. SameUntil(s, p, others, t, a, stops, d)
      <4>. HIDE DEF stops, others
      <4>1. QED
        BY <2>2, <3>1, ReadAlike
    <3>3. QED
      BY <3>2 DEF SameUntil
  <2>. HIDE DEF end, stop
  <2>7. end \in Nat /\ end > i /\ end <= Len(t) + 1
    BY <1>1, <2>2, <2>6
  <2>. DEFINE ref == Reference(t, i)
  <2>8. /\ ref.name = SubSeq(t, a, end - 1) /\ ref.next = end
        /\ ref.closed = TRUE
    <3>1. ref = [name |-> SubSeq(t, a, end - 1), closed |-> TRUE, next |-> end]
      BY <2>4
    <3>. HIDE DEF ref
    <3>2. QED
      BY <3>1, Fields
  <2>9. /\ Reference(s, at).name = SubSeq(s, p, stop - 1) /\ Reference(s, at).next = stop
        /\ Reference(s, at).closed = TRUE
    BY <2>5, Fields
  <2>10. QED
    BY <2>6, <2>7, <2>8, <2>9 DEF SameReference
<1>6. QED
  BY <1>4, <1>5

-----------------------------------------------------------------------------
(***************************************************************************)
(* One step of Expand: what is written for the place i of a string, where  *)
(* the string goes on, and whether it ends there.                          *)
(***************************************************************************)
Escapes(s, i) == i < Len(s) /\ s[i] = Escape /\ s[i + 1] = Dollar
Refers(s, i)  == i <= Len(s) /\ s[i] = Dollar
Resolves(s, i) == Reference(s, i).closed /\ Reference(s, i).name \in DOMAIN Exported

Fails(s, i) == Refers(s, i) /\ ~Resolves(s, i)

Written(s, i) ==
    IF Escapes(s, i) THEN <<Dollar>>
    ELSE IF Refers(s, i) THEN Exported[Reference(s, i).name] ELSE <<s[i]>>

After(s, i) ==
    IF Escapes(s, i) THEN i + 2 ELSE IF Refers(s, i) THEN Reference(s, i).next ELSE i + 1

Expands(s, from) ==
    \A i \in 1 .. Len(s) + 1 :
       from[i] = IF i > Len(s) THEN Expanded(<<>>)
                 ELSE IF Fails(s, i) THEN Failed
                 ELSE Before(Written(s, i), from[After(s, i)])

Result == {Failed} \cup {Expanded(str) : str \in Seq(Character)}

\* What is written, and where it goes on.
LEMMA StepType ==
    ASSUME NEW s \in Seq(Character), NEW i, i \in 1 .. Len(s), ~Fails(s, i)
    PROVE  /\ Written(s, i) \in Seq(Character)
           /\ After(s, i) \in 1 .. Len(s) + 1 /\ After(s, i) > i
<1>1. Len(s) \in Nat /\ s[i] \in Character /\ Dollar \in Character
  <2>1. Dollar \in Character
    BY CharacterAssumption
  <2>2. Len(s) \in Nat /\ s[i] \in Character
    OBVIOUS
  <2>3. QED
    BY <2>1, <2>2
<1>2. CASE Escapes(s, i)
  <2>1. i < Len(s)
    BY <1>2 DEF Escapes
  <2>2. After(s, i) = i + 2 /\ Written(s, i) = <<Dollar>>
    BY <1>2 DEF After, Written
  <2>3. QED
    BY <1>1, <2>1, <2>2
<1>3. CASE ~Escapes(s, i) /\ Refers(s, i)
  <2>1. Resolves(s, i)
    BY <1>3 DEF Fails
  <2>2. Written(s, i) \in Seq(Character)
    BY <1>3, <2>1, ExportedAssumption DEF Written, Resolves
  <2>3. GoesOn(s, s, 0) /\ i = 0 + i
    BY <1>1 DEF GoesOn
  <2>4. /\ Reference(s, i).next \in Nat /\ Reference(s, i).next > i
        /\ Reference(s, i).closed => Reference(s, i).next <= Len(s) + 1
    <3>1. SameReference(s, i, s, i, 0)
      BY <2>3, ReferencesAlike
    <3>2. QED
      BY <3>1 DEF SameReference
  <2>5. After(s, i) = Reference(s, i).next /\ Reference(s, i).closed
    BY <1>3, <2>1 DEF After, Resolves
  <2>6. QED
    BY <1>1, <2>2, <2>4, <2>5
<1>4. CASE ~Escapes(s, i) /\ ~Refers(s, i)
  <2>1. After(s, i) = i + 1 /\ Written(s, i) = <<s[i]>>
    BY <1>4 DEF After, Written
  <2>2. QED
    BY <1>1, <2>1
<1>5. QED
  BY <1>2, <1>3, <1>4

\* The recursion that Expand stands for.
ExpandFrom(s, from) ==
    from = [i \in 1 .. Len(s) + 1 |->
              CASE i > Len(s) -> Expanded(<<>>)
                [] i < Len(s) /\ s[i] = Escape /\ s[i + 1] = Dollar -> Before(<<Dollar>>, from[i + 2])
                [] i <= Len(s) /\ s[i] = Dollar ->
                     LET ref == Reference(s, i)
                     IN IF ref.closed /\ ref.name \in DOMAIN Exported
                          THEN Before(Exported[ref.name], from[ref.next])
                          ELSE Failed
                [] OTHER -> Before(<<s[i]>>, from[i + 1])]

\* Its cases exclude one another.
LEMMA ExpandCases ==
    ASSUME NEW s \in Seq(Character), NEW from, DOMAIN from = 1 .. Len(s) + 1,
           from = [i \in 1 .. Len(s) + 1 |-> from[i]]
    PROVE  ExpandFrom(s, from) <=> Expands(s, from)
<1>1. Escape # Dollar
  BY DEF Escape, Dollar
<1>. DEFINE case(i) ==
              CASE i > Len(s) -> Expanded(<<>>)
                [] i < Len(s) /\ s[i] = Escape /\ s[i + 1] = Dollar -> Before(<<Dollar>>, from[i + 2])
                [] i <= Len(s) /\ s[i] = Dollar ->
                     LET ref == Reference(s, i)
                     IN IF ref.closed /\ ref.name \in DOMAIN Exported
                          THEN Before(Exported[ref.name], from[ref.next])
                          ELSE Failed
                [] OTHER -> Before(<<s[i]>>, from[i + 1])
<1>2. ASSUME NEW i \in 1 .. Len(s) + 1
      PROVE  case(i) = IF i > Len(s) THEN Expanded(<<>>)
                       ELSE IF Fails(s, i) THEN Failed
                       ELSE Before(Written(s, i), from[After(s, i)])
  <2>1. CASE i > Len(s)
    BY <2>1
  <2>2. CASE Escapes(s, i)
    BY <1>1, <2>2 DEF Escapes, Refers, Fails, Written, After
  <2>3. CASE Refers(s, i)
    <3>1. /\ ~(i > Len(s)) /\ ~(i < Len(s) /\ s[i] = Escape /\ s[i + 1] = Dollar)
          /\ i <= Len(s) /\ s[i] = Dollar
      BY <1>1, <2>3 DEF Refers
    <3>2. case(i) = IF Reference(s, i).closed /\ Reference(s, i).name \in DOMAIN Exported
                      THEN Before(Exported[Reference(s, i).name], from[Reference(s, i).next])
                      ELSE Failed
      BY <3>1
    <3>3. ~Escapes(s, i)
      BY <3>1 DEF Escapes
    <3>. HIDE DEF case
    <3>4. CASE Resolves(s, i)
      BY <2>3, <3>1, <3>2, <3>3, <3>4 DEF Resolves, Fails, Written, After
    <3>5. CASE ~Resolves(s, i)
      BY <2>3, <3>1, <3>2, <3>5 DEF Resolves, Fails
    <3>6. QED
      BY <3>4, <3>5
  <2>4. CASE ~(i > Len(s)) /\ ~Escapes(s, i) /\ ~Refers(s, i)
    BY <2>4 DEF Escapes, Refers, Fails, Written, After
  <2>5. QED
    BY <2>1, <2>2, <2>3, <2>4
<1>3. ExpandFrom(s, from) <=> from = [i \in 1 .. Len(s) + 1 |-> case(i)]
  BY DEF ExpandFrom
<1>. HIDE DEF case
<1>4. QED
  BY <1>2, <1>3 DEF Expands

(***************************************************************************)
(* Expand takes the one solution of its recursion.                         *)
(***************************************************************************)
LEMMA ExpandExists ==
    ASSUME NEW s \in Seq(Character)
    PROVE  \E from \in [1 .. Len(s) + 1 -> Result] : Expands(s, from)
<1>. DEFINE n == Len(s) + 1
            Stop == {i \in 1 .. n : i > Len(s) \/ Fails(s, i)}
            last == [i \in 1 .. n |-> IF i > Len(s) THEN Expanded(<<>>) ELSE Failed]
            next == [i \in 1 .. n |-> IF i \in Stop THEN i ELSE After(s, i)]
            step == [i \in 1 .. n |->
                       [rest \in Result |-> IF i \in Stop THEN Failed ELSE Before(Written(s, i), rest)]]
<1>1. Len(s) \in Nat /\ n \in Nat /\ Stop \in SUBSET (1 .. n)
  OBVIOUS
<1>2. last \in [1 .. n -> Result]
  <2>1. Expanded(<<>>) \in Result /\ Failed \in Result
    <3>1. <<>> \in Seq(Character)
      OBVIOUS
    <3>2. QED
      BY <3>1 DEF Result
  <2>2. QED
    BY <2>1
<1>3. ASSUME NEW i \in 1 .. n, i \notin Stop
      PROVE  /\ Written(s, i) \in Seq(Character)
             /\ After(s, i) \in 1 .. n /\ After(s, i) > i
  <2>1. i \in 1 .. Len(s) /\ ~Fails(s, i)
    BY <1>1, <1>3
  <2>2. QED
    BY <2>1, StepType
<1>4. next \in [1 .. n -> 1 .. n] /\ \A i \in (1 .. n) \ Stop : next[i] > i
  <2>. HIDE DEF Stop, n
  <2>1. QED
    BY <1>3
<1>5. step \in [1 .. n -> [Result -> Result]]
  <2>1. ASSUME NEW str \in Seq(Character), NEW rest \in Result PROVE Before(str, rest) \in Result
    <3>1. CASE rest = Failed
      <4>1. ~rest.ok
        BY <3>1 DEF Failed
      <4>2. QED
        BY <4>1 DEF Before, Result
    <3>2. CASE \E end \in Seq(Character) : rest = Expanded(end)
      <4>1. PICK end \in Seq(Character) : rest = Expanded(end)
        BY <3>2
      <4>2. rest.ok /\ rest.str = end /\ str \o end \in Seq(Character)
        BY <4>1 DEF Expanded
      <4>3. Before(str, rest) = Expanded(str \o end)
        BY <4>2 DEF Before
      <4>4. QED
        BY <4>2, <4>3 DEF Result
    <3>3. QED
      BY <3>1, <3>2 DEF Result
  <2>2. Failed \in Result
    BY DEF Result
  <2>. HIDE DEF Stop, n
  <2>3. QED
    BY <1>3, <2>1, <2>2
<1>6. PICK from \in [1 .. n -> Result] : ScansOn(from, n, Stop, last, next, step)
  <2>. HIDE DEF Stop, n, last, next, step
  <2>1. QED
    BY <1>1, <1>2, <1>4, <1>5, ScanExists
<1>7. ASSUME NEW i \in 1 .. n
      PROVE  from[i] = IF i > Len(s) THEN Expanded(<<>>)
                       ELSE IF Fails(s, i) THEN Failed
                       ELSE Before(Written(s, i), from[After(s, i)])
  <2>1. from[i] = IF i \in Stop THEN last[i] ELSE step[i][from[next[i]]]
    <3>. HIDE DEF Stop, n, last, next, step
    <3>1. QED
      BY <1>6 DEF ScansOn
  <2>2. CASE i \in Stop
    BY <2>1, <2>2
  <2>3. CASE i \notin Stop
    <3>1. from[After(s, i)] \in Result
      BY <1>3, <2>3
    <3>2. step[i][from[After(s, i)]] = Before(Written(s, i), from[After(s, i)])
      BY <2>3, <3>1
    <3>3. next[i] = After(s, i) /\ ~(i > Len(s)) /\ ~Fails(s, i)
      BY <2>3
    <3>. HIDE DEF Stop, n, last, next, step
    <3>4. QED
      BY <2>1, <2>3, <3>2, <3>3
  <2>4. QED
    BY <2>2, <2>3
<1>8. QED
  BY <1>7 DEF Expands

\* Expand is what the recursion gives at the first place.
LEMMA ExpandExpands ==
    ASSUME NEW s \in Seq(Character)
    PROVE  \E from : Expands(s, from) /\ Expand(s) = from[1]
<1>1. PICK from \in [1 .. Len(s) + 1 -> Result] : Expands(s, from)
  BY ExpandExists
<1>2. ExpandFrom(s, from)
  BY <1>1, ExpandCases
<1>3. Expand(s) = (CHOOSE it : ExpandFrom(s, it))[1]
  BY Zenon DEF Expand, ExpandFrom
<1>4. PICK it : ExpandFrom(s, it) /\ Expand(s) = it[1]
  BY <1>2, <1>3, Zenon
<1>5. DOMAIN it = 1 .. Len(s) + 1 /\ it = [i \in 1 .. Len(s) + 1 |-> it[i]]
  BY <1>4 DEF ExpandFrom
<1>6. Expands(s, it)
  BY <1>4, <1>5, ExpandCases
<1>7. QED
  BY <1>4, <1>6

-----------------------------------------------------------------------------
\* The same step at the same place of strings that go on alike.
LEMMA StepAlike ==
    ASSUME NEW s \in Seq(Character), NEW t \in Seq(Character), NEW d \in Nat, GoesOn(s, t, d),
           NEW i, i \in 1 .. Len(t), NEW at, at = d + i
    PROVE  /\ Fails(s, at) <=> Fails(t, i)
           /\ ~Fails(t, i) => Written(s, at) = Written(t, i)
           /\ ~Fails(t, i) => After(s, at) = d + After(t, i)
<1>1. /\ Len(s) \in Nat /\ Len(t) \in Nat /\ at = d + i /\ at \in 1 .. Len(s) /\ s[at] = t[i]
      /\ Len(s) = d + Len(t) /\ \A k \in 1 .. Len(t) : s[d + k] = t[k]
  <2>1. Len(s) = d + Len(t) /\ \A k \in 1 .. Len(t) : s[d + k] = t[k]
    BY DEF GoesOn
  <2>2. Len(s) \in Nat /\ Len(t) \in Nat
    OBVIOUS
  <2>3. QED
    BY <2>1, <2>2
<1>2. /\ Reference(s, at).name = Reference(t, i).name
      /\ Reference(s, at).closed <=> Reference(t, i).closed
      /\ Reference(s, at).next = d + Reference(t, i).next
  <2>1. SameReference(s, at, t, i, d)
    BY ReferencesAlike
  <2>2. QED
    BY <2>1 DEF SameReference
<1>3. Refers(s, at) <=> Refers(t, i)
  BY <1>1 DEF Refers
<1>4. Resolves(s, at) <=> Resolves(t, i)
  BY <1>2 DEF Resolves
<1>5. Escapes(s, at) <=> Escapes(t, i)
  <2>1. at < Len(s) <=> i < Len(t)
    BY <1>1
  <2>2. ASSUME i < Len(t) PROVE s[at + 1] = t[i + 1]
    <3>1. i + 1 \in 1 .. Len(t) /\ d + (i + 1) = at + 1
      BY <1>1, <2>2
    <3>2. QED
      BY <1>1, <3>1
  <2>3. QED
    BY <1>1, <2>1, <2>2 DEF Escapes
<1>6. Fails(s, at) <=> Fails(t, i)
  BY <1>3, <1>4 DEF Fails
<1>7. Written(s, at) = Written(t, i)
  BY <1>1, <1>2, <1>3, <1>5 DEF Written
<1>8. After(s, at) = d + After(t, i)
  <2>1. at + 2 = d + (i + 2) /\ at + 1 = d + (i + 1)
    BY <1>1
  <2>2. QED
    BY <1>2, <1>3, <1>5, <2>1 DEF After
<1>9. QED
  BY <1>6, <1>7, <1>8

\* Two functions agree, one of them d places later.
Agree(f, g, d, n) == \A i \in 1 .. n : f[d + i] = g[i]

\* What is expanded from a place on depends on what follows only.
LEMMA ExpandsAlike ==
    ASSUME NEW s \in Seq(Character), NEW t \in Seq(Character), NEW d \in Nat, GoesOn(s, t, d),
           NEW f, Expands(s, f), NEW g, Expands(t, g)
    PROVE  Agree(f, g, d, Len(t) + 1)
<1>. DEFINE n == Len(t) + 1
            T == {i \in 1 .. n : f[d + i] = g[i]}
<1>1. /\ Len(s) \in Nat /\ Len(t) \in Nat /\ n \in Nat /\ Len(s) = d + Len(t)
  BY DEF GoesOn
<1>2. ASSUME NEW i \in 1 .. n, \A j \in i + 1 .. n : j \in T PROVE i \in T
  <2>1. PICK at : at = d + i
    OBVIOUS
  <2>2. at \in 1 .. Len(s) + 1 /\ (at > Len(s) <=> i > Len(t))
    BY <1>1, <2>1
  <2>3. f[at] = IF at > Len(s) THEN Expanded(<<>>)
                ELSE IF Fails(s, at) THEN Failed
                ELSE Before(Written(s, at), f[After(s, at)])
    BY <2>2 DEF Expands
  <2>4. g[i] = IF i > Len(t) THEN Expanded(<<>>)
               ELSE IF Fails(t, i) THEN Failed
               ELSE Before(Written(t, i), g[After(t, i)])
    BY DEF Expands
  <2>5. CASE i > Len(t)
    BY <2>1, <2>2, <2>3, <2>4, <2>5
  <2>6. CASE ~(i > Len(t))
    <3>1. i \in 1 .. Len(t)
      BY <1>1, <2>6
    <3>2. /\ Fails(s, at) <=> Fails(t, i)
          /\ ~Fails(t, i) => Written(s, at) = Written(t, i)
          /\ ~Fails(t, i) => After(s, at) = d + After(t, i)
      BY <2>1, <3>1, StepAlike
    <3>3. ASSUME ~Fails(t, i) PROVE f[After(s, at)] = g[After(t, i)]
      <4>1. After(t, i) \in 1 .. Len(t) + 1 /\ After(t, i) > i
        BY <3>1, <3>3, StepType
      <4>2. PICK a : a = After(t, i)
        OBVIOUS
      <4>3. a \in i + 1 .. n
        BY <1>1, <4>1, <4>2
      <4>4. a \in T
        BY <1>2, <4>3
      <4>5. QED
        BY <3>2, <3>3, <4>2, <4>4
    <3>4. QED
      BY <2>1, <2>2, <2>3, <2>4, <2>6, <3>2, <3>3
  <2>7. QED
    BY <2>5, <2>6
<1>3. 1 .. n \subseteq T
  <2>. HIDE DEF T, n
  <2>1. QED
    BY <1>1, <1>2, Downward
<1>4. QED
  BY <1>3 DEF Agree

(***************************************************************************)
(* Expand a step at a time: what its first step does to the first part of  *)
(* a string, and what it makes of the rest by itself.                      *)
(***************************************************************************)
LEMMA ExpandStep ==
    ASSUME NEW part \in Seq(Character), part # <<>>, NEW t \in Seq(Character),
           NEW s, s = part \o t, ~Fails(s, 1), After(s, 1) = Len(part) + 1
    PROVE  Expand(s) = Before(Written(s, 1), Expand(t))
<1>. DEFINE d == Len(part)
<1>1. s \in Seq(Character) /\ d \in Nat /\ Len(t) \in Nat /\ Len(s) = d + Len(t) /\ d # 0
  OBVIOUS
<1>2. GoesOn(s, t, d)
  <2>1. \A k \in 1 .. Len(t) : s[d + k] = t[k]
    OBVIOUS
  <2>2. QED
    BY <1>1, <2>1 DEF GoesOn
<1>3. PICK f : Expands(s, f) /\ Expand(s) = f[1]
  BY <1>1, ExpandExpands
<1>4. PICK g : Expands(t, g) /\ Expand(t) = g[1]
  BY ExpandExpands
<1>5. f[d + 1] = g[1]
  <2>1. Agree(f, g, d, Len(t) + 1)
    <3>. HIDE DEF d
    <3>1. QED
      BY <1>1, <1>2, <1>3, <1>4, ExpandsAlike
  <2>2. QED
    BY <1>1, <2>1 DEF Agree
<1>6. f[1] = Before(Written(s, 1), f[d + 1])
  <2>1. 1 \in 1 .. Len(s) + 1 /\ ~(1 > Len(s))
    BY <1>1
  <2>2. f[1] = Before(Written(s, 1), f[After(s, 1)])
    BY <1>3, <2>1 DEF Expands
  <2>3. QED
    BY <2>2
<1>7. QED
  BY <1>3, <1>4, <1>5, <1>6

\* A string that begins with what fails, fails.
LEMMA ExpandFails ==
    ASSUME NEW s \in Seq(Character), Fails(s, 1)
    PROVE  Expand(s) = Failed
<1>1. PICK f : Expands(s, f) /\ Expand(s) = f[1]
  BY ExpandExpands
<1>2. Len(s) \in Nat /\ 1 <= Len(s)
  BY DEF Fails, Refers
<1>3. 1 \in 1 .. Len(s) + 1 /\ ~(1 > Len(s))
  BY <1>2
<1>4. QED
  BY <1>1, <1>3 DEF Expands

-----------------------------------------------------------------------------
\* Until is where it has to stop.
LEMMA UntilIs ==
    ASSUME NEW S, NEW s \in Seq(S), NEW i, i \in 1 .. Len(s) + 1, NEW stops,
           NEW j, FirstStop(s, i, stops, j)
    PROVE  Until(s, i, stops) = j
<1>1. PICK x : x = Until(s, i, stops) /\ FirstStop(s, i, stops, x)
  BY UntilStops
<1>2. /\ j \in i .. Len(s) + 1 /\ x \in i .. Len(s) + 1
      /\ j > Len(s) \/ s[j] \in stops
      /\ x > Len(s) \/ s[x] \in stops
      /\ \A k \in i .. j - 1 : s[k] \notin stops
      /\ \A k \in i .. x - 1 : s[k] \notin stops
  BY <1>1 DEF FirstStop
<1>3. Len(s) \in Nat
  OBVIOUS
<1>4. ~(x < j)
  <2>1. SUFFICES ASSUME x < j PROVE FALSE
    OBVIOUS
  <2>2. x \in i .. j - 1 /\ ~(x > Len(s))
    BY <1>2, <1>3, <2>1
  <2>3. QED
    BY <1>2, <2>2
<1>5. ~(j < x)
  <2>1. SUFFICES ASSUME j < x PROVE FALSE
    OBVIOUS
  <2>2. j \in i .. x - 1 /\ ~(j > Len(s))
    BY <1>2, <1>3, <2>1
  <2>3. QED
    BY <1>2, <2>2
<1>6. QED
  BY <1>1, <1>2, <1>3, <1>4, <1>5

\* The parts of two strings in one.
Continues(s, part, t) ==
    /\ s \in Seq(Character) /\ Len(s) = Len(part) + Len(t)
    /\ Len(part) \in Nat /\ Len(t) \in Nat
    /\ \A k \in 1 .. Len(part) : s[k] = part[k]
    /\ \A k \in 1 .. Len(t) : s[Len(part) + k] = t[k]

\* Joining two strings puts their letters one after the other.
LEMMA Joined ==
    ASSUME NEW part \in Seq(Character), NEW t \in Seq(Character)
    PROVE  Continues(part \o t, part, t)
BY DEF Continues

\* A reference that starts the string and can be read.
Reads(s, name, next) ==
    /\ Refers(s, 1) /\ ~Escapes(s, 1)
    /\ Reference(s, 1).name = name /\ Reference(s, 1).closed
    /\ Reference(s, 1).next = next

\* A dollar, a brace and a name.
LEMMA BraceRead ==
    ASSUME NEW name \in Seq(Character), CloseBrace \notin ToSet(name)
    PROVE  LET open == <<Dollar, OpenBrace>> \o name
           IN /\ open \in Seq(Character) /\ Len(open) = Len(name) + 2
              /\ open[1] = Dollar /\ open[2] = OpenBrace
              /\ \A k \in 1 .. Len(name) : open[k + 2] = name[k]
              /\ \A k \in 3 .. Len(open) : open[k] # CloseBrace
<1>. DEFINE open == <<Dollar, OpenBrace>> \o name
<1>1. <<Dollar, OpenBrace>> \in Seq(Character)
  BY Specials
<1>2. /\ open \in Seq(Character) /\ Len(open) = Len(name) + 2
      /\ open[1] = Dollar /\ open[2] = OpenBrace
      /\ \A k \in 1 .. Len(name) : open[k + 2] = name[k]
  BY <1>1
<1>3. \A k \in 1 .. Len(name) : name[k] # CloseBrace
  BY DEF ToSet
<1>. HIDE DEF open
<1>4. ASSUME NEW k \in 3 .. Len(open) PROVE open[k] # CloseBrace
  <2>1. k - 2 \in 1 .. Len(name) /\ (k - 2) + 2 = k
    BY <1>2
  <2>2. QED
    BY <1>2, <1>3, <2>1
<1>5. QED
  BY <1>2, <1>4 DEF open

\* A reference in braces in front of a string.
LEMMA BracedReference ==
    ASSUME NEW name \in Seq(Character), CloseBrace \notin ToSet(name), NEW t \in Seq(Character)
    PROVE  LET part == <<Dollar, OpenBrace>> \o name \o <<CloseBrace>>
               s    == part \o t
           IN /\ part \in Seq(Character) /\ Len(part) = Len(name) + 3 /\ s \in Seq(Character)
              /\ Reads(s, name, Len(part) + 1)
<1>. DEFINE open == <<Dollar, OpenBrace>> \o name
            part == open \o <<CloseBrace>>
            s    == part \o t
            n    == Len(name)
<1>1. /\ open \in Seq(Character) /\ Len(open) = n + 2 /\ n \in Nat
      /\ open[1] = Dollar /\ open[2] = OpenBrace
      /\ \A k \in 1 .. n : open[k + 2] = name[k]
      /\ \A k \in 3 .. Len(open) : open[k] # CloseBrace
  BY BraceRead
<1>. HIDE DEF open
<1>2. /\ part \in Seq(Character) /\ Len(part) = n + 3 /\ part[n + 3] = CloseBrace
      /\ \A k \in 1 .. n + 2 : part[k] = open[k]
  <2>1. <<CloseBrace>> \in Seq(Character)
    BY Specials
  <2>2. QED
    BY <1>1, <2>1
<1>. HIDE DEF part
<1>3. /\ s \in Seq(Character) /\ Len(s) = n + 3 + Len(t) /\ Len(t) \in Nat
      /\ \A k \in 1 .. n + 3 : s[k] = part[k]
  <2>1. Continues(s, part, t)
    BY <1>2, Joined
  <2>2. QED
    BY <1>1, <1>2, <2>1 DEF Continues
<1>. HIDE DEF s
<1>4. /\ s[1] = Dollar /\ s[2] = OpenBrace /\ s[n + 3] = CloseBrace
      /\ \A k \in 1 .. n : s[k + 2] = name[k]
      /\ \A k \in 3 .. n + 2 : s[k] # CloseBrace
  <2>1. \A k \in 1 .. n + 2 : s[k] = open[k]
    BY <1>1, <1>2, <1>3
  <2>2. s[1] = Dollar /\ s[2] = OpenBrace /\ s[n + 3] = CloseBrace
    BY <1>1, <1>2, <1>3, <2>1
  <2>3. \A k \in 1 .. n : s[k + 2] = name[k]
    BY <1>1, <2>1
  <2>4. \A k \in 3 .. n + 2 : s[k] # CloseBrace
    BY <1>1, <2>1
  <2>5. QED
    BY <2>2, <2>3, <2>4
<1>5. Until(s, 3, {CloseBrace}) = n + 3
  <2>1. PICK i, j : i = 3 /\ j = n + 3
    OBVIOUS
  <2>2. FirstStop(s, i, {CloseBrace}, j) /\ i \in 1 .. Len(s) + 1
    BY <1>1, <1>3, <1>4, <2>1 DEF FirstStop
  <2>. DEFINE stops == {CloseBrace}
  <2>. HIDE DEF stops
  <2>3. FirstStop(s, i, stops, j)
    BY <2>2 DEF stops
  <2>4. Until(s, i, stops) = j
    BY <1>3, <2>2, <2>3, UntilIs
  <2>5. QED
    BY <2>1, <2>4 DEF stops
<1>6. SubSeq(s, 3, n + 2) = name
  <2>1. \A k \in 1 .. n : s[k + 2] = name[k]
    BY <1>4
  <2>2. QED
    BY <1>1, <1>3, <2>1
<1>7. /\ Reference(s, 1).name = name /\ Reference(s, 1).closed
      /\ Reference(s, 1).next = Len(part) + 1
  <2>1. 1 < Len(s) /\ s[1 + 1] = OpenBrace /\ 1 + 2 = 3
    BY <1>1, <1>3, <1>4
  <2>2. PICK end : end = n + 3
    OBVIOUS
  <2>3. /\ Until(s, 1 + 2, {CloseBrace}) = end /\ end - 1 = n + 2
        /\ end <= Len(s) /\ end + 1 = Len(part) + 1
    BY <1>1, <1>2, <1>3, <1>5, <2>2
  <2>4. Reference(s, 1) = [name |-> SubSeq(s, 1 + 2, end - 1), closed |-> end <= Len(s), next |-> end + 1]
    BY <2>1, <2>3 DEF Reference
  <2>5. PICK ref : ref = Reference(s, 1)
    OBVIOUS
  <2>6. /\ ref.name = SubSeq(s, 1 + 2, end - 1) /\ ref.next = end + 1
        /\ ref.closed = (end <= Len(s))
    BY <2>4, <2>5, Fields
  <2>7. ref.closed
    BY <2>3, <2>6
  <2>8. ref.name = name /\ ref.next = Len(part) + 1
    <3>1. SubSeq(s, 1 + 2, end - 1) = name
      BY <1>6, <2>3
    <3>2. QED
      BY <2>3, <2>6, <3>1
  <2>9. QED
    BY <2>5, <2>7, <2>8
<1>8. Refers(s, 1) /\ ~Escapes(s, 1)
  BY <1>1, <1>3, <1>4, Specials DEF Refers, Escapes
<1>9. Reads(s, name, Len(part) + 1)
  BY <1>7, <1>8 DEF Reads
<1>10. QED
  BY <1>2, <1>3, <1>9 DEF s, part, open

\* What Expand makes of a reference that is read.
LEMMA ReferenceExpanded ==
    ASSUME NEW part \in Seq(Character), part # <<>>, NEW t \in Seq(Character),
           NEW s, s = part \o t, NEW name, Reads(s, name, Len(part) + 1)
    PROVE  Expand(s) = Resolved(name, Expand(t))
<1>1. s \in Seq(Character)
  OBVIOUS
<1>. USE DEF Reads
<1>2. CASE name \in DOMAIN Exported
  <2>1. ~Fails(s, 1)
    BY <1>2 DEF Fails, Resolves
  <2>2. After(s, 1) = Len(part) + 1 /\ Written(s, 1) = Exported[name]
    BY DEF After, Written
  <2>3. Expand(s) = Before(Written(s, 1), Expand(t))
    BY <2>1, <2>2, ExpandStep
  <2>4. QED
    BY <1>2, <2>2, <2>3 DEF Resolved
<1>3. CASE name \notin DOMAIN Exported
  <2>1. Fails(s, 1)
    BY <1>3 DEF Fails, Resolves
  <2>2. QED
    BY <1>1, <1>3, <2>1, ExpandFails DEF Resolved
<1>4. QED
  BY <1>2, <1>3

\* With the braces, whatever follows.
LEMMA BracedExpanded ==
    ASSUME NEW name \in Seq(Character), CloseBrace \notin ToSet(name), NEW t \in Seq(Character)
    PROVE  Expand(<<Dollar, OpenBrace>> \o name \o <<CloseBrace>> \o t) = Resolved(name, Expand(t))
<1>. DEFINE part == <<Dollar, OpenBrace>> \o name \o <<CloseBrace>>
            s    == part \o t
<1>1. /\ part \in Seq(Character) /\ Len(part) = Len(name) + 3 /\ s \in Seq(Character)
      /\ Reads(s, name, Len(part) + 1)
  BY BracedReference
<1>. HIDE DEF part
<1>2. part # <<>>
  BY <1>1
<1>3. PICK it : it = s
  OBVIOUS
<1>4. Expand(it) = Resolved(name, Expand(t))
  <2>1. it = part \o t /\ Reads(it, name, Len(part) + 1)
    BY <1>1, <1>3
  <2>2. QED
    BY <1>1, <1>2, <2>1, ReferenceExpanded
<1>5. QED
  BY <1>3, <1>4 DEF part

\* Without the other brace anywhere.
LEMMA UnclosedFails ==
    ASSUME NEW name \in Seq(Character), CloseBrace \notin ToSet(name),
           NEW t \in Seq(Character), CloseBrace \notin ToSet(t)
    PROVE  Expand(<<Dollar, OpenBrace>> \o name \o t) = Failed
<1>. DEFINE open == <<Dollar, OpenBrace>> \o name
            s    == open \o t
<1>1. /\ open \in Seq(Character) /\ Len(open) = Len(name) + 2 /\ Len(name) \in Nat
      /\ open[1] = Dollar /\ open[2] = OpenBrace
      /\ \A k \in 3 .. Len(open) : open[k] # CloseBrace
  BY BraceRead
<1>. HIDE DEF open
<1>2. /\ s \in Seq(Character) /\ Len(s) = Len(open) + Len(t) /\ Len(t) \in Nat
      /\ \A k \in 1 .. Len(open) : s[k] = open[k]
      /\ \A k \in 1 .. Len(t) : s[Len(open) + k] = t[k]
  <2>1. Continues(s, open, t)
    BY <1>1, Joined
  <2>2. QED
    BY <2>1 DEF Continues
<1>. HIDE DEF s
<1>3. \A k \in 1 .. Len(t) : t[k] # CloseBrace
  BY DEF ToSet
<1>4. ASSUME NEW k \in 3 .. Len(s) PROVE s[k] # CloseBrace
  <2>1. CASE k <= Len(open)
    BY <1>1, <1>2, <2>1
  <2>2. CASE k > Len(open)
    <3>1. k - Len(open) \in 1 .. Len(t) /\ Len(open) + (k - Len(open)) = k
      BY <1>1, <1>2, <2>2
    <3>2. QED
      BY <1>2, <1>3, <3>1
  <2>3. QED
    BY <1>1, <2>1, <2>2
<1>5. s[1] = Dollar /\ s[2] = OpenBrace /\ Len(s) >= 2
  BY <1>1, <1>2
<1>6. Until(s, 3, {CloseBrace}) = Len(s) + 1
  <2>1. PICK i, j : i = 3 /\ j = Len(s) + 1
    OBVIOUS
  <2>. DEFINE stops == {CloseBrace}
  <2>2. FirstStop(s, i, stops, j) /\ i \in 1 .. Len(s) + 1
    BY <1>1, <1>2, <1>4, <2>1 DEF FirstStop
  <2>. HIDE DEF stops
  <2>3. Until(s, i, stops) = j
    BY <1>2, <2>2, UntilIs
  <2>4. QED
    BY <2>1, <2>3 DEF stops
<1>7. ~Reference(s, 1).closed
  <2>1. 1 < Len(s) /\ s[1 + 1] = OpenBrace /\ 1 + 2 = 3
    BY <1>1, <1>2, <1>5
  <2>2. PICK end : end = Len(s) + 1
    OBVIOUS
  <2>3. /\ Until(s, 1 + 2, {CloseBrace}) = end /\ ~(end <= Len(s))
    BY <1>2, <1>6, <2>2
  <2>4. Reference(s, 1) = [name |-> SubSeq(s, 1 + 2, end - 1), closed |-> end <= Len(s), next |-> end + 1]
    BY <2>1, <2>3 DEF Reference
  <2>5. PICK ref : ref = Reference(s, 1)
    OBVIOUS
  <2>6. ref.closed = (end <= Len(s))
    BY <2>4, <2>5, Fields
  <2>7. ~ref.closed
    BY <2>3, <2>6
  <2>8. QED
    BY <2>5, <2>7
<1>8. Fails(s, 1)
  BY <1>2, <1>5, <1>7 DEF Fails, Refers, Resolves
<1>9. Expand(s) = Failed
  BY <1>2, <1>8, ExpandFails
<1>10. QED
  BY <1>9 DEF s, open

\* A reference without braces in front of a string.
LEMMA BareExpanded ==
    ASSUME NEW name \in Seq(Character), ToSet(name) \subseteq NameChar, NEW t \in Seq(Character),
           t # <<>> => t[1] \notin NameChar \cup {OpenBrace}
    PROVE  Expand(<<Dollar>> \o name \o t) = Resolved(name, Expand(t))
<1>. DEFINE part == <<Dollar>> \o name
            s    == part \o t
            n    == Len(name)
<1>1. /\ part \in Seq(Character) /\ Len(part) = n + 1 /\ n \in Nat /\ part[1] = Dollar
      /\ \A k \in 1 .. n : part[k + 1] = name[k]
  BY Specials
<1>2. \A k \in 1 .. n : name[k] \in NameChar
  BY DEF ToSet
<1>. HIDE DEF part
<1>3. /\ s \in Seq(Character) /\ Len(s) = Len(part) + Len(t) /\ Len(t) \in Nat
      /\ \A k \in 1 .. Len(part) : s[k] = part[k]
      /\ \A k \in 1 .. Len(t) : s[Len(part) + k] = t[k]
  <2>1. Continues(s, part, t)
    BY <1>1, Joined
  <2>2. QED
    BY <2>1 DEF Continues
<1>. HIDE DEF s
<1>4. s[1] = Dollar /\ \A k \in 1 .. n : s[k + 1] = name[k]
  <2>1. \A k \in 1 .. n : k + 1 \in 1 .. Len(part)
    BY <1>1
  <2>2. s[1] = Dollar
    BY <1>1, <1>3
  <2>3. QED
    BY <1>1, <1>3, <2>1, <2>2
<1>5. \A k \in 2 .. n + 1 : s[k] \in NameChar
  <2>1. ASSUME NEW k \in 2 .. n + 1 PROVE s[k] \in NameChar
    <3>1. k - 1 \in 1 .. n /\ (k - 1) + 1 = k
      BY <1>1
    <3>2. QED
      BY <1>2, <1>4, <3>1
  <2>2. QED
    BY <2>1
<1>6. n + 2 <= Len(s) => s[n + 2] \in Character \ (NameChar \cup {OpenBrace})
  <2>1. SUFFICES ASSUME n + 2 <= Len(s) PROVE s[n + 2] \in Character \ (NameChar \cup {OpenBrace})
    OBVIOUS
  <2>2. 1 \in 1 .. Len(t) /\ Len(part) + 1 = n + 2
    BY <1>1, <1>3, <2>1
  <2>3. s[n + 2] = t[1] /\ t[1] \in Character
    BY <1>3, <2>2
  <2>4. t # <<>>
    BY <2>2
  <2>5. QED
    BY <2>3, <2>4
<1>. DEFINE stops == ToSet(s) \ NameChar
<1>7. Until(s, 2, stops) = n + 2
  <2>1. PICK i, j : i = 2 /\ j = n + 2
    OBVIOUS
  <2>2. i \in 1 .. Len(s) + 1 /\ j \in i .. Len(s) + 1
    BY <1>1, <1>3, <2>1
  <2>3. j > Len(s) \/ s[j] \in stops
    <3>1. SUFFICES ASSUME ~(j > Len(s)) PROVE s[j] \in stops
      OBVIOUS
    <3>2. j \in DOMAIN s /\ s[j] \notin NameChar
      BY <1>1, <1>3, <1>6, <2>1, <3>1
    <3>3. QED
      BY <3>2 DEF ToSet
  <2>4. \A k \in i .. j - 1 : s[k] \notin stops
    BY <1>1, <1>5, <2>1
  <2>. HIDE DEF stops
  <2>5. FirstStop(s, i, stops, j)
    BY <2>2, <2>3, <2>4 DEF FirstStop
  <2>6. Until(s, i, stops) = j
    BY <1>3, <2>2, <2>5, UntilIs
  <2>7. QED
    BY <2>1, <2>6
<1>8. SubSeq(s, 2, n + 1) = name
  BY <1>1, <1>3, <1>4
<1>9. /\ Reference(s, 1).name = name /\ Reference(s, 1).closed
      /\ Reference(s, 1).next = Len(part) + 1
  <2>1. ~(1 < Len(s) /\ s[1 + 1] = OpenBrace)
    <3>1. SUFFICES ASSUME 1 < Len(s), s[2] = OpenBrace PROVE FALSE
      OBVIOUS
    <3>2. CASE n = 0
      BY <1>1, <1>6, <3>1, <3>2
    <3>3. CASE n # 0
      BY SMTT(30), <1>1, <1>5, <3>1, <3>3, Specials
    <3>4. QED
      BY <3>2, <3>3
  <2>2. PICK end : end = n + 2
    OBVIOUS
  <2>3. Until(s, 1 + 1, stops) = end /\ end - 1 = n + 1 /\ end = Len(part) + 1
    BY <1>1, <1>7, <2>2
  <2>4. Reference(s, 1) = [name |-> SubSeq(s, 1 + 1, end - 1), closed |-> TRUE, next |-> end]
    BY <2>1, <2>3 DEF Reference
  <2>5. PICK ref : ref = Reference(s, 1)
    OBVIOUS
  <2>6. /\ ref.name = SubSeq(s, 1 + 1, end - 1) /\ ref.next = end /\ ref.closed = TRUE
    BY <2>4, <2>5, Fields
  <2>7. SubSeq(s, 1 + 1, end - 1) = name
    BY <1>8, <2>3
  <2>8. QED
    BY <2>3, <2>5, <2>6, <2>7
<1>10. Refers(s, 1) /\ ~Escapes(s, 1) /\ part # <<>>
  BY <1>1, <1>3, <1>4, Specials DEF Refers, Escapes
<1>11. s = part \o t
  BY DEF s
<1>12. Expand(s) = Resolved(name, Expand(t))
  <2>1. Reads(s, name, Len(part) + 1)
    BY <1>9, <1>10 DEF Reads
  <2>2. QED
    BY <1>1, <1>10, <1>11, <2>1, ReferenceExpanded
<1>13. QED
  BY <1>12 DEF s, part

\* Any other character in front of a string.
LEMMA CharacterExpanded ==
    ASSUME NEW c \in Character \ {Dollar}, NEW t \in Seq(Character),
           c = Escape /\ t # <<>> => t[1] # Dollar
    PROVE  Expand(<<c>> \o t) = Before(<<c>>, Expand(t))
<1>. DEFINE part == <<c>>
<1>1. PICK s : s = part \o t
  OBVIOUS
<1>2. /\ part \in Seq(Character) /\ Len(part) = 1 /\ part # <<>> /\ part[1] = c
      /\ Len(s) = 1 + Len(t) /\ Len(t) \in Nat /\ s[1] = c
      /\ \A k \in 1 .. Len(t) : s[1 + k] = t[k]
  BY <1>1
<1>. HIDE DEF part
<1>3. ~Refers(s, 1) /\ ~Fails(s, 1)
  BY <1>2 DEF Refers, Fails
<1>4. ~Escapes(s, 1)
  <2>1. SUFFICES ASSUME 1 < Len(s), c = Escape, s[1 + 1] = Dollar PROVE FALSE
    BY <1>2 DEF Escapes
  <2>2. 1 \in 1 .. Len(t) /\ t # <<>>
    BY <1>2, <2>1
  <2>3. QED
    BY <1>2, <2>1, <2>2
<1>5. Written(s, 1) = part /\ After(s, 1) = Len(part) + 1
  BY <1>2, <1>3, <1>4 DEF Written, After, part
<1>6. Expand(s) = Before(Written(s, 1), Expand(t))
  BY <1>1, <1>2, <1>3, <1>5, ExpandStep
<1>7. QED
  BY <1>1, <1>5, <1>6 DEF part

\* An escaped dollar in front of a string.
LEMMA EscapeExpanded ==
    ASSUME NEW t \in Seq(Character)
    PROVE  Expand(<<Escape, Dollar>> \o t) = Before(<<Dollar>>, Expand(t))
<1>. DEFINE part == <<Escape, Dollar>>
<1>1. PICK s : s = part \o t
  OBVIOUS
<1>2. /\ part \in Seq(Character) /\ Len(part) = 2 /\ part # <<>>
      /\ Len(s) = 2 + Len(t) /\ Len(t) \in Nat /\ s[1] = Escape /\ s[2] = Dollar
  BY <1>1, Specials
<1>. HIDE DEF part
<1>3. Escapes(s, 1) /\ ~Fails(s, 1)
  BY <1>2, Specials DEF Escapes, Refers, Fails
<1>4. Written(s, 1) = <<Dollar>> /\ After(s, 1) = Len(part) + 1
  BY <1>2, <1>3 DEF Written, After
<1>5. Expand(s) = Before(Written(s, 1), Expand(t))
  BY <1>1, <1>2, <1>3, <1>4, ExpandStep
<1>6. QED
  BY <1>1, <1>4, <1>5 DEF part

\* The empty string.
LEMMA NothingExpanded == Expand(<<>>) = Expanded(<<>>)
<1>1. PICK s : s = <<>>
  OBVIOUS
<1>2. s \in Seq(Character) /\ Len(s) = 0
  BY <1>1
<1>3. PICK f : Expands(s, f) /\ Expand(s) = f[1]
  BY <1>2, ExpandExpands
<1>4. 1 \in 1 .. Len(s) + 1 /\ 1 > Len(s)
  BY <1>2
<1>5. QED
  BY <1>1, <1>3, <1>4 DEF Expands

\* Strings are joined in any order.
LEMMA Associates ==
    ASSUME NEW a \in Seq(Character), NEW b \in Seq(Character), NEW c \in Seq(Character)
    PROVE  (a \o b) \o c = a \o (b \o c)
OBVIOUS

\* What stands for a character in a string whose dollars are escaped.
Piece(c) == IF c = Dollar THEN <<Escape, Dollar>> ELSE <<c>>

\* A string that may follow any character, and comes out as another.
Yields(tail, str) ==
    /\ tail \in Seq(Character)
    /\ Expand(tail) = Expanded(str)
    /\ tail # <<>> => tail[1] # Dollar

\* One more character in front.
LEMMA PieceExpanded ==
    ASSUME NEW c \in Character, NEW tail, NEW str \in Seq(Character), Yields(tail, str)
    PROVE  Yields(Piece(c) \o tail, <<c>> \o str)
<1>1. tail \in Seq(Character) /\ Expand(tail) = Expanded(str) /\ (tail # <<>> => tail[1] # Dollar)
  BY DEF Yields
<1>2. Before(<<c>>, Expand(tail)) = Expanded(<<c>> \o str)
  <2>1. Before(<<c>>, Expanded(str)) = Expanded(<<c>> \o str)
    BY DEF Before, Expanded
  <2>2. QED
    BY <1>1, <2>1
<1>3. CASE c = Dollar
  <2>1. Piece(c) = <<Escape, Dollar>>
    BY <1>3 DEF Piece
  <2>2. Expand(Piece(c) \o tail) = Before(<<Dollar>>, Expand(tail))
    BY <1>1, <2>1, EscapeExpanded
  <2>3. Expand(Piece(c) \o tail) = Expanded(<<c>> \o str)
    BY <1>1, <1>2, <1>3, <2>2
  <2>4. Piece(c) \o tail \in Seq(Character) /\ (Piece(c) \o tail)[1] # Dollar
    BY <1>1, <2>1, Specials
  <2>5. QED
    BY <2>3, <2>4 DEF Yields
<1>4. CASE c # Dollar
  <2>1. Piece(c) = <<c>>
    BY <1>4 DEF Piece
  <2>2. Expand(Piece(c) \o tail) = Before(<<c>>, Expand(tail))
    BY <1>1, <1>4, <2>1, CharacterExpanded
  <2>3. Expand(Piece(c) \o tail) = Expanded(<<c>> \o str)
    BY <1>1, <1>2, <2>2
  <2>4. Piece(c) \o tail \in Seq(Character) /\ (Piece(c) \o tail)[1] # Dollar
    BY <1>1, <1>4, <2>1
  <2>5. QED
    BY <2>3, <2>4 DEF Yields
<1>5. QED
  BY <1>3, <1>4

\* A string whose dollars are escaped comes out as it was.
LEMMA EscapedExpanded ==
    ASSUME NEW s \in Seq(Character)
    PROVE  Expand(Escaped(s)) = Expanded(s)
<1>. DEFINE n == Len(s)
            seqs == [i \in DOMAIN s |-> Piece(s[i])]
            all == Escaped(s)
<1>1. n \in Nat /\ (\A i \in 1 .. n : s[i] \in Character) /\ DOMAIN s = 1 .. n
  OBVIOUS
<1>2. \A c \in Character : Piece(c) \in Seq(Character)
  BY Specials DEF Piece
<1>3. seqs \in Seq(Seq(Character)) /\ Len(seqs) = n /\ \A i \in 1 .. n : seqs[i] = Piece(s[i])
  BY <1>1, <1>2
<1>4. all = FlattenSeq(seqs)
  BY DEF Escaped, Piece
<1>. HIDE DEF all, seqs
<1>5. PICK flat \in [0 .. n -> Seq(Character)] : Joins(flat, seqs) /\ all = flat[n]
  BY <1>3, <1>4, FlattenJoins
<1>6. flat[0] = <<>> /\ \A k \in 1 .. n : flat[k] = flat[k - 1] \o Piece(s[k])
  BY <1>3, <1>5 DEF Joins
<1>. DEFINE Rest(i) == SubSeq(s, i, n)
            T == {i \in 1 .. n + 1 : \E tail : all = flat[i - 1] \o tail /\ Yields(tail, Rest(i))}
<1>7. n + 1 \in T
  <2>1. all = flat[n] \o <<>> /\ n + 1 \in 1 .. n + 1 /\ (n + 1) - 1 = n
    <3>1. flat[n] \in Seq(Character)
      BY <1>1, <1>5
    <3>2. QED
      BY <1>1, <1>5, <3>1
  <2>2. Rest(n + 1) = <<>>
    BY <1>1
  <2>3. Yields(<<>>, <<>>)
    BY NothingExpanded DEF Yields
  <2>4. QED
    BY <2>1, <2>2, <2>3
<1>8. ASSUME NEW i \in 1 .. n, NEW next, next = i + 1, next \in T PROVE i \in T
  <2>1. next - 1 = i
    BY <1>1, <1>8
  <2>2. PICK tail : all = flat[i] \o tail /\ Yields(tail, Rest(next))
    BY <1>8, <2>1
  <2>3. Rest(next) \in Seq(Character) /\ <<s[i]>> \o Rest(next) = Rest(i)
    BY <1>1, <1>8
  <2>4. PICK more : more = Piece(s[i]) \o tail
    OBVIOUS
  <2>5. Yields(more, Rest(i))
    <3>1. PICK str : str = Rest(next)
      OBVIOUS
    <3>2. Yields(Piece(s[i]) \o tail, <<s[i]>> \o str)
      BY <1>1, <2>2, <2>3, <3>1, PieceExpanded
    <3>3. QED
      BY <2>3, <2>4, <3>1, <3>2
  <2>6. all = flat[i - 1] \o more
    <3>1. flat[i] = flat[i - 1] \o Piece(s[i])
      BY <1>6
    <3>2. i - 1 \in 0 .. n
      BY <1>1
    <3>3. flat[i - 1] \in Seq(Character) /\ Piece(s[i]) \in Seq(Character) /\ tail \in Seq(Character)
      BY <1>1, <1>2, <1>5, <2>2, <3>2 DEF Yields
    <3>4. (flat[i - 1] \o Piece(s[i])) \o tail = flat[i - 1] \o (Piece(s[i]) \o tail)
      BY <3>3, Associates
    <3>5. QED
      BY <2>2, <2>4, <3>1, <3>4
  <2>7. QED
    BY SMTT(30), <1>1, <2>5, <2>6
<1>9. 1 \in T
  <2>. HIDE DEF T
  <2>1. ASSUME NEW i \in 1 .. n + 1, \A j \in i + 1 .. n + 1 : j \in T PROVE i \in T
    <3>1. CASE i = n + 1
      BY <1>7, <3>1
    <3>2. CASE i # n + 1
      <4>1. i \in 1 .. n /\ i + 1 \in i + 1 .. n + 1
        BY <1>1, <3>2
      <4>2. PICK next : next = i + 1
        OBVIOUS
      <4>3. next \in T
        BY <2>1, <4>1, <4>2
      <4>4. QED
        BY <1>8, <4>1, <4>2, <4>3
    <3>3. QED
      BY <3>1, <3>2
  <2>2. PICK top : top = n + 1
    OBVIOUS
  <2>3. \A i \in 1 .. top : (\A j \in i + 1 .. top : j \in T) => i \in T
    BY <2>1, <2>2
  <2>4. 1 .. top \subseteq T
    <3>1. top \in Nat
      BY <1>1, <2>2
    <3>2. QED
      BY <2>3, <3>1, Downward
  <2>5. QED
    BY <1>1, <2>2, <2>4
<1>10. PICK tail : all = flat[0] \o tail /\ Yields(tail, Rest(1))
  BY SMTT(30), <1>9
<1>11. all = tail /\ Rest(1) = s
  BY <1>1, <1>6, <1>10 DEF Yields
<1>12. QED
  BY <1>10, <1>11 DEF Yields, all

(***************************************************************************)
(* Expansion does to any string, grown from the empty one, what ExpandExact*)
(* says (config.expandVars).                                               *)
(***************************************************************************)
THEOREM ExpansionExact == LaunchSpec => []ExpandExact
<1>1. ASSUME template \in Seq(Character) PROVE ExpandExact
  <2>. DEFINE first == IF template = <<>> THEN "" ELSE template[1]
  <2>1. template # <<>> => first = template[1]
    OBVIOUS
  <2>. HIDE DEF first
  <2>2. Expand(Escaped(template)) = Expanded(template)
    BY <1>1, EscapedExpanded
  <2>3. ASSUME NEW name \in Name
        PROVE  /\ CloseBrace \notin ToSet(name) =>
                     /\ Expand(<<Dollar, OpenBrace>> \o name \o <<CloseBrace>> \o template)
                          = Resolved(name, Expand(template))
                     /\ CloseBrace \notin ToSet(template) =>
                           Expand(<<Dollar, OpenBrace>> \o name \o template) = Failed
               /\ ToSet(name) \subseteq NameChar /\ first \notin NameChar \cup {OpenBrace} =>
                     Expand(<<Dollar>> \o name \o template) = Resolved(name, Expand(template))
    <3>1. name \in Seq(Character)
      BY ExportedAssumption
    <3>2. ASSUME CloseBrace \notin ToSet(name)
          PROVE  Expand(<<Dollar, OpenBrace>> \o name \o <<CloseBrace>> \o template)
                   = Resolved(name, Expand(template))
      BY <1>1, <3>1, <3>2, BracedExpanded
    <3>3. ASSUME CloseBrace \notin ToSet(name), CloseBrace \notin ToSet(template)
          PROVE  Expand(<<Dollar, OpenBrace>> \o name \o template) = Failed
      BY <1>1, <3>1, <3>3, UnclosedFails
    <3>4. ASSUME ToSet(name) \subseteq NameChar, first \notin NameChar \cup {OpenBrace}
          PROVE  Expand(<<Dollar>> \o name \o template) = Resolved(name, Expand(template))
      BY <1>1, <2>1, <3>1, <3>4, BareExpanded
    <3>5. QED
      BY <3>2, <3>3, <3>4
  <2>4. ASSUME NEW c \in Character \ {Dollar}, c = Escape => first # Dollar
        PROVE  Expand(<<c>> \o template) = Before(<<c>>, Expand(template))
    BY <1>1, <2>1, <2>4, CharacterExpanded
  <2>5. QED
    BY <2>2, <2>3, <2>4 DEF ExpandExact, first
<1>2. LaunchInit => template \in Seq(Character)
  BY DEF LaunchInit
<1>3. template \in Seq(Character) /\ [Lengthen]_<<template, launch>> => (template \in Seq(Character))'
  BY DEF Lengthen
<1>4. QED
  BY <1>1, <1>2, <1>3, PTL DEF LaunchSpec
=============================================================================
