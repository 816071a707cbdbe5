------------------------------- MODULE Startup -------------------------------
(***************************************************************************)
(* How inject and run come to serve, or refuse to: PrepareRunConfig,       *)
(* Config.Validate, orchestrate.Setup with NewEnforcer and                 *)
(* validateConfiguration, and CreateProxy.                                 *)
(*                                                                         *)
(* The services of a config are a Go map, which is walked in any order.    *)
(* Whether a variable expands, a secret can be fetched and the files and   *)
(* levels that Validate looks at are right is up to the environment.       *)
(***************************************************************************)
EXTENDS GrantUniverse, UrlPattern

CONSTANTS
    ServiceName,    \* the keys of [services.*]
    KnownScheme,    \* the credential refs that IsKnownScheme accepts
    NoCredential,   \* an empty credential ref
    ShortToken      \* placeholders of less than eight characters

ASSUME StartupAssumption ==
    /\ KnownScheme \subseteq Credential \ {NoCredential}
    /\ ShortToken \subseteq Token /\ DropText \subseteq DropRule

\* What run.stdout or run.stderr holds: "short" is a value of less than five
\* bytes that has no meaning, "other" a longer one.
OutputMode == {"", "inherit", "discard", "file:", "other", "short"}

\* [services.x.run]; hasCommand says that its command is not empty.
RunSection == [present : BOOLEAN, hasCommand : BOOLEAN, stdout : OutputMode, stderr : OutputMode]

\* The strategy that CreateProxy registers whatever the config says.
BearerRef == [scheme |-> "bearer", name |-> NoName]

VARIABLES
    mode,        \* "inject" or "run"
    chosen,      \* ServiceNames: the services to serve, {} for all
    cliCommand,  \* run: a command follows a "--" that cobra has left in args
    sections,    \* name -> the [services.*] section, its run section apart
    runs,        \* name -> its run section
    grantable,   \* the [[grantable]] tables, in order
    phase,
    pending,     \* the names that Setup's walk has yet to come to
    registry,
    strategies,  \* what the auth registry holds
    gated        \* the pipeline with the gate and the handlers is installed

config   == <<mode, chosen, cliCommand, sections, grantable>>
results  == <<pending, registry, strategies, gated>>
startVars == <<config, runs, phase, results>>

StartupTypeOK ==
    /\ mode \in {"inject", "run"} /\ chosen \subseteq ServiceName /\ cliCommand \in BOOLEAN
    /\ DOMAIN sections \subseteq ServiceName /\ DOMAIN runs = DOMAIN sections
    /\ \A n \in DOMAIN sections : sections[n] \in Service /\ runs[n] \in RunSection
    /\ grantable \in Seq(Pairing)
    /\ phase \in {"prepare", "validate", "register", "enforcer", "preload", "strategies",
                  "serving", "refused", "panicked"}
    /\ pending \subseteq DOMAIN sections
    /\ registry \in Services /\ strategies \subseteq {BearerRef} \cup AuthRef /\ gated \in BOOLEAN

Begins ==
    /\ phase = IF mode = "run" THEN "prepare" ELSE "validate"
    /\ pending = {}
    /\ registry = [key \in HostKey |-> NoService]
    /\ strategies = {}
    /\ gated = FALSE

Ends(how) == phase' = how /\ UNCHANGED <<config, runs, results>>

-----------------------------------------------------------------------------
(***************************************************************************)
(* PrepareRunConfig.  A run section that is there is shared with the       *)
(* config, so that what the command line puts into it is validated; one    *)
(* that is made for the command line is not.                               *)
(***************************************************************************)
Prepare ==
    /\ phase = "prepare"
    /\ \E n \in chosen :
          /\ n \in DOMAIN sections
          /\ cliCommand \/ runs[n].present
          /\ runs' = [runs EXCEPT ![n].hasCommand = @ \/ (cliCommand /\ runs[n].present)]
    /\ phase' = "validate"
    /\ UNCHANGED <<config, results>>

\* The service is unknown, there is nothing to run or a variable is undefined.
PrepareFails == phase = "prepare" /\ Ends("refused")

Defaulted(run) ==
    IF run.present
      THEN [run EXCEPT !.stdout = IF @ = "" THEN "inherit" ELSE @,
                       !.stderr = IF @ = "" THEN "inherit" ELSE @]
      ELSE run

\* What Validate looks at before the output modes.
Misconfigured(svc, run) ==
    \/ svc.host.labels = <<>>
    \/ svc.placeholder \in ShortToken
    \/ ~ValidatePathPatterns(svc.policy.paths)
    \/ \E rule \in svc.drop : ~ParsesURL(rule)
    \/ run.present /\ ~run.hasCommand

\* Stdout[:5] is out of range for a short value.
OutputVerdict(output) ==
    CASE output = "short" -> "panicked"
      [] output = "other" -> "refused"
      [] OTHER            -> "ok"

\* What Validate makes of one service: stdout is looked at first.
SectionVerdict(svc, run) ==
    IF Misconfigured(svc, run) THEN "refused"
    ELSE IF ~run.present THEN "ok"
    ELSE IF OutputVerdict(run.stdout) # "ok" THEN OutputVerdict(run.stdout)
    ELSE OutputVerdict(run.stderr)

Verdicts == {SectionVerdict(sections[n], Defaulted(runs[n])) : n \in DOMAIN sections}

\* GrantableConfig.validate.
ValidPairing(g) ==
    /\ g.host.labels # <<>>
    /\ g.auth.scheme # ""
    /\ g.cred \in KnownScheme
    /\ g.bound.maxBody >= 0
    /\ ValidatePathPatterns(g.bound.paths)

\* SetDefaults and Validate.
Validated ==
    /\ phase = "validate"
    /\ Verdicts \subseteq {"ok"}
    /\ \A i \in DOMAIN grantable : ValidPairing(grantable[i])
    /\ runs' = [n \in DOMAIN runs |-> Defaulted(runs[n])]
    /\ phase' = "register"
    /\ pending' = IF chosen = {} THEN DOMAIN sections ELSE chosen \cap DOMAIN sections
    /\ UNCHANGED <<config, registry, strategies, gated>>

\* The first service of the walk that is not right decides.
ValidateFails ==
    /\ phase = "validate"
    /\ \E how \in {"refused"} \cup (Verdicts \ {"ok"}) : Ends(how)

-----------------------------------------------------------------------------
\* Registry.Register: Service.Validate, and no entry under the key.
Registrable(svc) ==
    /\ svc.host.labels # <<>> /\ svc.auth.scheme # "" /\ svc.cred # NoCredential
    /\ ValidService(svc)
    /\ registry[ServiceKey(svc.host)] = NoService

\* Mutant of RegisterService: a host that is there already is replaced.
RegisterAnyway(n) ==
    /\ phase = "register" /\ n \in pending
    /\ ValidService(FromConfig(sections[n])) /\ sections[n].cred # NoCredential
    /\ registry' = Upsert(registry, FromConfig(sections[n]))
    /\ pending' = pending \ {n}
    /\ UNCHANGED <<config, runs, phase, strategies, gated>>

RegisterService(n) ==
    /\ phase = "register" /\ n \in pending
    /\ Registrable(FromConfig(sections[n]))
    /\ registry' = Upsert(registry, FromConfig(sections[n]))
    /\ pending' = pending \ {n}
    /\ UNCHANGED <<config, runs, phase, strategies, gated>>

RegisterFails(n) ==
    /\ phase = "register" /\ n \in pending
    /\ ~Registrable(FromConfig(sections[n]))
    /\ Ends("refused")

\* NewEnforcer judges the tables one after the other; then a filter must
\* have left a service.
Universe ==
    /\ \A i, j \in DOMAIN grantable :
          IdentityOf(grantable[i]) = IdentityOf(grantable[j]) => i = j
    /\ \A i \in DOMAIN grantable : Narrows(grantable[i].bound, grantable[i].bound)

BuildEnforcer ==
    /\ phase = "register" /\ pending = {}
    /\ IF Universe /\ (chosen # {} => Live(registry) # {})
         THEN phase' = "preload" /\ UNCHANGED <<config, runs, results>>
         ELSE Ends("refused")

\* PreloadSecrets fetches what the services name, and fails for a scheme
\* that has no provider.
Preload ==
    /\ phase = "preload"
    /\ \A key \in Live(registry) : registry[key].cred \in KnownScheme
    /\ phase' = "strategies"
    /\ UNCHANGED <<config, runs, results>>

PreloadFails == phase = "preload" /\ Live(registry) # {} /\ Ends("refused")

-----------------------------------------------------------------------------
\* HeaderNameFromRef succeeds on "header:" followed by anything.
IsHeaderRef(ref) == ref.scheme = "header" /\ ref.name # NoName

\* Mutant of HeaderRefs: the pairings are not looked at.
HeaderRefsOfServices ==
    LET refs == {registry[key].auth : key \in Live(registry)}
    IN {ref \in refs : IsHeaderRef(ref)}

\* The header strategies of the services that are served and of every pairing.
HeaderRefs ==
    LET refs == {registry[key].auth : key \in Live(registry)}
                  \cup {IdentityOf(grantable[i]).auth : i \in DOMAIN grantable}
    IN {ref \in refs : IsHeaderRef(ref)}

\* CreateProxy: the proxy injects, or passes everything through.
Injecting == Live(registry) # {} \/ grantable # <<>>

\* The strategies are registered and validateConfiguration accepts.
Serve ==
    /\ phase = "strategies"
    /\ strategies' = {BearerRef} \cup HeaderRefs
    /\ \A key \in Live(registry) :
          registry[key].auth \in strategies' /\ registry[key].policy.maxBody >= 0
    /\ gated' = Injecting
    /\ phase' = "serving"
    /\ UNCHANGED <<config, runs, pending, registry>>

ServeFails == phase = "strategies" /\ Ends("refused")

StartupStep ==
    \/ Prepare \/ PrepareFails \/ Validated \/ ValidateFails
    \/ \E n \in ServiceName : RegisterService(n) \/ RegisterFails(n)
    \/ BuildEnforcer \/ Preload \/ PreloadFails \/ Serve \/ ServeFails

\* Any config and any command line.
StartupSpec == (StartupTypeOK /\ Begins) /\ [][StartupStep]_startVars

-----------------------------------------------------------------------------
Selected == {sections[n] : n \in IF chosen = {} THEN DOMAIN sections ELSE chosen \cap DOMAIN sections}

(***************************************************************************)
(* A daemon that serves has the config that enforcer, proxy and theorems   *)
(* take for granted, with one service per host, and a registry that shows  *)
(* nothing of the order in which Go walked the map.  Until then, the types *)
(* are right.                                                              *)
(***************************************************************************)
ServesAssumption ==
    /\ StartupTypeOK
    /\ phase = "serving" =>
          /\ ConfigAccepted(Selected) /\ UniverseAccepted(ToSet(grantable))
          /\ registry = Setup(Selected)

\* The strategy is registered and its Apply can set a header.
Injects(ref) == ref \in strategies /\ ~Nameless(ref)

(***************************************************************************)
(* Setup: a grant of a header pairing "has its strategy registered and can *)
(* actually inject -- not just pass the enforcer and then fail at request  *)
(* time".  That is so of every pairing whose strategy is "bearer" or a     *)
(* header with a name, and of no other, although the others are let        *)
(* through too; and of every service but one that says "header:", whose    *)
(* strategy is registered and fails at each request.                       *)
(***************************************************************************)
StrategiesReady ==
    phase = "serving" =>
        /\ \A key \in Live(registry) : Injects(registry[key].auth) \/ Nameless(registry[key].auth)
        /\ \A i \in DOMAIN grantable :
              LET ref == IdentityOf(grantable[i]).auth
              IN Injects(ref) <=> ref = BearerRef \/ (IsHeaderRef(ref) /\ ~Nameless(ref))
=============================================================================
