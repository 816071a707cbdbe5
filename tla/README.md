# Chaperone: a verification project

Chaperone is a local proxy that adds API credentials to the requests of the
programs it runs, so that those programs never hold the credentials. A human
writes down which services exist and which pairings of host, credential and
scope may be granted at run time; an agent then activates and revokes grants
over a control socket while requests flow.

This directory holds TLA+ models of that program, the TLC configurations that
check them on small instances, and theorems proved with TLAPS for every value
of the constants. `PROJECT.json` lists the components, the runs, which lines
each definition models, the hazards and the theorems.

## 1. Inventory

| Component | State | Operations | What makes it correct |
|---|---|---|---|
| path patterns and scopes (`internal/service/pathmatch.go`, `narrow.go`, `policy_enforcer.go`) | none | parse, normalize, match, contain; `Narrows`; `CheckMethod`, `CheckPath`, `CheckBodySize` | what passes a narrowed scope passes its bound; a path's spelling changes nothing |
| service registry (`registry_impl.go`) | map from host key to service, one RWMutex | `Register`, `Upsert`, `Unregister`, `Lookup`, `ListAll` | one answer per host; no gap during a replacement |
| drop rules (`urlpattern.go`) | none | parse, match host and path | a rule that does not parse blocks |
| grant enforcer (`internal/grant`) | the universe, fixed at startup | `Authorize`, `ListPairings` | nothing outside the universe is accepted |
| control plane (`internal/control`) | none of its own; registry and audit trail are shared | `Grant`, `Revoke`, `List`, `ListGrantable`; `Start`, `Stop`, `listenUnix` | the registry holds what was approved; every change is audited |
| injecting proxy (`internal/proxy`, `internal/auth`) | metadata per CONNECT or request | CONNECT gate, eight request handlers, one response handler | gate, scope, stripping and injection agree for each request; recordings hold no credential |
| certificate cache (`internal/mitm/certcache.go`) | cache, generation slots, next serial | `GetCertificate` | one generation per host; nobody waits forever |
| secret registry (`internal/secrets`) | providers, cache of values | `Register`, `Fetch`, `ResolvedValues`, `PreloadSecrets` | what was injected is known to the redactor; configured secrets are steady |
| recorder and redaction (`internal/recorder`, `internal/redact`) | entries, open file | record, flush, close | request and response are paired; no credential is written |
| audit logger (`internal/audit`) | file | `Log`, `Close` | it outlives whoever writes to it |
| shutdown manager (`internal/shutdown`) | registered functions, once | `Register`, `Shutdown` | every function runs once, last first, within the timeout |
| setup (`internal/orchestrate`) | what startup has built so far | register, build the enforcer, preload, register strategies, validate | a daemon that serves has what proxy and enforcer take for granted |
| run and inject mode (`cmd/.../run.go`, `inject.go`, `internal/run`) | child process, environment, exit channel | prepare, start, wait, stop | the child gets no other daemon's proxy, nor its certificate where `ca_env_vars` names the variable; its exit ends chaperone, with that code; what is under way is served before it stops |
| examine mode (`cmd/.../examine.go`, `internal/examine`) | tracker of discovered headers | observe, report | concurrent requests lose nothing |
| CA store (`internal/mitm/ca.go`) | two files, shared by processes | load, generate, store, remove | key and certificate belong together; what is used is what is stored |
| config (`internal/config`, `filetrust`) | files | load, expand, validate, defaults | an invalid file does not start a daemon |
| grants MCP server, control client (`internal/mcpgrants`, `control/client.go`) | calls that wait for an answer | send, relay the answer, give up | what an agent was told last is how it is |
| capture and check, logging, CLI | none that matters here | | |

How they interact. `orchestrate.Setup` builds registry, enforcer, secret and
auth registries and certificate cache once, and hands them to the proxy and
the control plane. From then on the *registry* is the one piece of state
that the control plane writes and the proxy reads. Each control call and each
connection has a goroutine of its own; the locks of the registry, the audit
logger and the certificate cache are never held together. Within a request,
goproxy runs the handlers one after the other and every handler looks its
service up again, so a control call may fall between any two of them.

What is hard here: calls that race between the registry and the audit trail;
the registry changing in the middle of a request; metadata that a tunnel
shares among its requests; two pieces of code (`Narrows` and the request
checks) that have to agree about empty lists and zero limits; two
normalizations of a host (`serviceKey`, `normalizeHostname`) that have to
agree about case and ports; the single flight of the certificate cache when
generation fails; processes that share a socket path or a CA directory and may
die between two system calls; a shutdown whose functions fail, panic or hang
while requests are under way; secrets that change at their source between two
fetches; a child that exits, is killed or does not start while the sentinel or a
signal arrives; a client that gives up while its call is being served; a map of
services that startup walks in any order.

## 2. Modules

```
PathPattern                      paths, patterns, matching, containment
  GrantScope                     Permits (requests) and Narrows (grants)
    JudgedScope                  a bound, a wanted scope and a request to judge
    ServiceRegistry              the registry's operations on its map
      UrlPattern                 drop rules
      GrantUniverse              pairings, their identity, what is accepted
        Startup (+ UrlPattern)   from the config to a daemon that serves
        GrantEnforcer            Authorize, what a grant stores
          ControlPlane           concurrent Grant and Revoke, audit trail
            GrantsClient         the agent's end of the control socket
          Gateway (+ UrlPattern) the handler pipeline under registry changes
GrantLedger                      abstract: what grants and revokes promise
CertCache                        GetCertificate, step by step
CertMemo                         abstract: a memo of certificates
SecretRegistry                   preloading, Fetch, cache, redactor's view
Redaction                        the redactor as an algorithm
ChildLaunch                      expanded strings, environment of a child
ChildRun                         child, sentinel, tracker, signals, exit code
ControlSocket                    daemons around one socket path
CAStore                          processes around one pair of CA files
ShutdownManager                  Register and Shutdown
  ProcessStop                    what inject, run and examine register with it
theorems:
RecursionProofs                  induction, folds, scans, for the modules below
  GrantProofs                    spellings, patterns, scopes, lookups, grants
    ControlPlaneProofs           control plane with its clients, the ledger
    GatewayProofs                pipeline
    DaemonProofs                 Startup, ProcessStop, ChildLaunch
  SecretRegistryProofs           SecretRegistry and Redaction
CertCacheProofs
ProcessProofs                    ControlSocket, CAStore and ChildRun
for TLC:
MCAlgorithms (MCGrantScope, MCRedaction, MCStartup, MCChildLaunch),
MCControlPlane, MCGateway, MCCertCache, MCSecretRegistry,
MCSharedFiles (ControlSocket and CAStore), MCControlSocket
```

ProcessStop and ChildRun are small enough for their `.cfg` to give every
constant, and have no MC module. MCAlgorithms and MCSharedFiles put models
side by side that share no state: a behaviour is about one of them, and the
others do not move. DaemonProofs, ProcessProofs and SecretRegistryProofs, too,
extend modules that share no state; each of their theorems is about the
specification of one.

What is to be checked of an algorithm is stated, like everything else, as an
invariant of a state machine: it reads a text or a string that grows by a letter
at a time (Redaction, ChildLaunch), or judges a request (JudgedScope). These
specifications are unbounded: any secrets, a text of any length. The bounds are in
the MC modules (`MCTextInit`, `MCGrow`; `MCLaunchInit`, `MCLengthen`), so
that TLC checks an instance of the formula that is proved.

A definition whose comment starts with "Mutant of" is the definition that
follows it with a plausible bug. Nothing uses it; it is there to show that a
property notices the bug. `PROJECT.json` pairs each with a property.

**PathPattern, GrantScope.** A path is the sequence of its segments, so that
`path.Clean` is a fold over them. A pattern's text is a record: rooted or
not, its segments, whether it ends in `/*`. `Lower` is case folding of a
segment and is a constant. `Permits` is the request side, `Narrows` the grant
side; allow lists are sets.

**ServiceRegistry.** The mutex makes each operation one step, so each is a
function from the map to the map. A host is labels and a port. `Lookup` walks
a Go map; `LookupKeys` is the set of entries it may stop at.

**GrantUniverse, GrantEnforcer.** `Grantable` and `Configured` are constants because the
config is read once; the assumption `ConfigAssumption` states what
`Config.Validate`, `Register` and `NewEnforcer` refuse at startup.
`WithinUniverse` is the meaning of the trust boundary in terms of requests
and not of how scopes are compared.

**Startup.** From a config as it was parsed to a daemon that serves, refuses or
panics: `Prepare` and `PrepareFails` are `PrepareRunConfig`, `Validated` and
`ValidateFails` are `SetDefaults` and `Validate`, `RegisterService` is one turn
of Setup's walk over the map of services, then `BuildEnforcer`, `Preload` and
`Serve` with the ways to fail. What the environment decides (a variable that
expands, a secret that is there) is a choice; a file that cannot be read is a
daemon that refused. `Misconfigured` is what `Validate` asks of a run section,
`OutputVerdict` what it makes of a file descriptor's destination, and
`SectionVerdict` how they meet; `Selected` is the registry that the chosen
services make. `ServesAssumption` ties the module to the others:
a daemon that serves has the config that `ConfigAssumption` grants ControlPlane
and Gateway, and the registry they start with (`Setup` in ServiceRegistry),
whatever the order of the walk.

**ControlPlane.** A call is a goroutine of `net/http`: `GrantAuthorized` or
`GrantRejected`, then `GrantApplied` or `GrantFailed`; `Revoked` or
`RevokeRefused`; then `Audited` or `AuditFailed`. `services` is the map,
`trail` the audit file, `unlogged` the calls for which `logAudit` reported a
failed write. It implements **GrantLedger**, which knows only the map: an
entry is put in by an admissible grant or taken out by a revoke.

**GrantsClient.** Adds a client to each call of ControlPlane: `Send`, `Told`,
`GaveUp`; `Serve` is a step of the daemon, which goes on after the client has
given up. `before` remembers what an agent knew when it sent a call.

**Gateway.** One action per handler in the order of `NewWithMITM`; `meta` is
`ctx.UserData`. The metadata of a tunnel is the one its CONNECT made and
lives on between requests; a plain request starts without. The
control plane appears as `RegistryChanges`, a step of the same GrantLedger
that ControlPlane is shown to implement. A header has any number of values, and
none if it is not there; a value is a token with or without `Bearer `, that of a
credential is named by its reference. The handlers look at the first (`FirstOf`
is `Header.Get`) and keep or delete all. `asked[c].host` is the `Host` by which
the handlers choose, `target` the host that goproxy dials: for a tunnel the one of
its CONNECT, which the requests in it need not name. A secret fetch may fail at
any time; `ApplyFails` is a strategy that is registered and cannot inject.

**CertCache.** One step per critical section of `GetCertificate` and
`generateCertificate`, the channel close included. It implements
**CertMemo**: a certificate per host, stored once and never replaced.

**SecretRegistry.** `Preload` tries one configured reference, `Preloads` ends
the startup as `Setup` does: it serves only if none failed. `Fetch` is cut at
its locks: `Hit` or `Miss` under the read lock, `Provide` without a lock,
`Store` under the write lock. `Rotate` is the owner of a secret. `Record` is
the recorder, whose redactor asks for `ResolvedValues` at that time.

**JudgedScope.** The three things that have to agree, and `Respelled`: the other
spellings of a path by the documented rules of `path.Clean`, one rule at a time.

**Redaction.** `ReplaceEvery` is `strings.ReplaceAll`, `Scrub` replaces each known
value in turn; `KnownValues` is the set of orders that the sort by length leaves
open. Texts and secrets are sequences over `Letter`, and `[REDACTED]` is one
letter outside of it (`RedactionAssumption`): a secret that is a part of the
word "[REDACTED]" is not in the model.

**ControlSocket.** One daemon per process. `listenUnix` is `Listen`, `Probe`,
`ClearStale`, `Retry`: each is one system call that goes by the path and finds
whatever file is there by then. Nobody answers the dial of a path without a
listener; a daemon that is there may answer it or not (a full backlog, 500 ms, a
socket of another user), and the code takes every error for a stale file. `Stop` is the listener's close, which unlinks
the path first, the drain, and `Remove`. `Crash` may happen anywhere and
leaves the file.

**ChildLaunch.** `Expand` is `expandVars` as a recursive function over the
places of a string; a string is a sequence of characters. The environment is a
fold over layers, and the value of a variable is the layer that set it. `launch`
is what a child is started with, `template` a string of its run section.

**ShutdownManager, ProcessStop.** `CallNext`, `Finish` and `Deliver` are the
goroutine that runs the functions, `Call` and `Await` the callers, `Expire`
the timer. ProcessStop gives the functions their effect: `Server.Stop`
closes the listener, then waits for connections that are active (`Drained`)
or for the deadline (`DrainExpired`); `CloseSink` closes the audit file, or
writes the HAR file; the others may fail or panic. `Registrations` is the
order in which each of the three modes registers them. A tunnel is a hijacked
connection, which no `Stop` waits for. The HAR file is written from the entries
without their lock: `BeginEntry` and `LogEntry` are the two ends of an append,
and `CloseSink` may find it in the middle (`torn`).

**ChildRun.** run, examine with a command and examine without one. `SpawnChild`
or `StartFails`, then the main goroutine from `Wait` (`TakeCode`) or
`WaitWithSentinel` (`TakeSentinel`, `TakeExit`, `AwaitExit`) to the exit;
`ChildExits` and `Reap` are the child and its goroutine. `Arrive`, `Track`,
`Announce` and `Logged` are a request in the proxy, one header at a time as the
tracker locks for each; `progress` is where a request is, `todo` what its walk
over the headers has still to come to. Its names start with `Child` where
ControlSocket has a name of that kind, so that one module can prove things of
both. `Signal` is SIGTERM or SIGINT to chaperone: only manual
mode has a handler for it.

**CAStore.** One action per system call of `LoadOrGenerateCA`, `LoadCA` and
`StoreCA`; `os.WriteFile` is an open that truncates and a write. A file is the
CA it belongs to, absent or torn. `End` is a stop that runs the registered
removal, `Abort` run's return with an error, which does not, `Die` a death at
any point.

## 3. Runs

| Run | What it asks | Bounds and why they are enough | Result |
|---|---|---|---|
| `algorithms` | do `Narrows` and `Permits` agree; is containment exact; is matching blind to spelling; what does the redactor leave; what has a daemon that serves; what does a child get | scopes: all paths of up to three segments out of three names, `""` and `..`; ten patterns, four of them outside the vocabulary; limits -1..2: every branch of `contains`, `bodyNarrow` and `normalizePath` is met on both sides of its boundary. Redaction: all texts of up to five of two letters, all sets of up to three secrets of up to three letters, and a third letter that no secret has: secrets that are equal in length, embed one another, overlap, are empty. Startup: up to two services and two pairings, each with one of everything that is refused, or let through and useless; five run sections; filters and modes. Two services are enough for the order of the walk: a third meets the same map. Launch: all strings of up to four of six characters behind every reference; env files of two lines, four inherited variables, `ca_env_vars` that is empty, names a certificate or names a proxy variable | passes |
| `control_plane` | can racing calls leave something unapproved, unaccounted or unaudited; may an agent believe what it was told | three calls (two that race and one that comes between), one of whose clients may give up; one configured wildcard, three pairings, nine requests that narrow, equal, widen, misname, misspell or overflow a bound; calls are symmetric | passes |
| `unaudited_failure` | what a comment of `Grant` says of auditing | two calls | violated, see 5 |
| `gateway` | what reaches an upstream and a recording, whenever the registry changes | one connection, since connections share only the registry, which changes by itself; two requests, since only the metadata of the previous one is carried over; two registry changes, at any stage; twelve requests with and without placeholder, own credential before or behind it in one header, scope; four target hosts of tunnels; two services and four pairings, of which one has no header name, one an empty one | passes |
| `gateway_pairing` | what a comment of the recorder says of its entries | as above | violated, see 5 |
| `cert_cache` | single flight, no lost waiter, termination, memo | four calls: three of one host (one generates, one waits, one comes late) in two spellings, one of another host; every generation may fail | passes |
| `secret_registry` | are configured secrets steady, is what was injected redacted, is anything forgotten | three requests (two that miss together and a later one), one configured and one granted reference, two values and none; any number of rotations | passes |
| `shared_files` | is a serving daemon reachable, does residue block a start; is the CA in use the stored one, what can a death break | four daemons: one that leaves residue, two that meet on it, one that comes after; symmetric; any dial may go without an answer. Three processes around a CA: one that dies, one that finds what it left, one that finds what that made of it; shared and per-run directories | passes |
| `socket_stomp` | what a comment of `listenUnix` says | three daemons | violated, see 5 |
| `process_stop` | what an answer of `Shutdown` means, whether it comes, and what is lost meanwhile | the registrations of all three modes; two callers; one control call, one plain request, one tunnelled request, which share only the sink | passes |
| `child_run` | is anything lost among concurrent requests, are exit code and printed header right, does chaperone end after its child | run and examine, with and without a command; two requests with any subset of two headers, one standard, each with the sentinel in its first value, a later one or none; an exit code other than 0, and a child that is killed | passes |
| `signals_forwarded` | what the help of run says of signals | as above | violated, see 5 |

Deadlock is checked for `control_plane`, `cert_cache` and `shared_files`,
where a step (`ClientIdle`, `Quiet`, `AllEnded`) is possible only once every
call has been told or given up, every call has returned or every process has
ended, so that a stuck one would be a deadlock. The other systems really stop:
at their bounds (`gateway`, `algorithms`), when every request has been handled
(`secret_registry`), when the process is gone (`process_stop`, `child_run`).

Properties worth reading first: `RegistryInv`, `RegistryAccounted` and
`AnswersAudited` in ControlPlane; `AnswersInOrder` in GrantsClient;
`GateHolds`, `CredentialsExchanged`, `CredentialStaysPaired`,
`ForwardedRecorded` and `RecordClean` in Gateway; `WaiterHasWaker` and
`EveryCallReturns` in CertCache; `NarrowedWithinBound` in JudgedScope,
`RedactedExactly` in Redaction, `ServesAssumption` in Startup and
`ExpandExact` in ChildLaunch; `RecordedClean` in SecretRegistry;
`EstablishedSurvives` in ControlSocket; `ServedKept` in ProcessStop;
`ExitHonest` in ChildRun; `UsedIsStored` and `FailsOnTornCert` in CAStore.

The invariants `RegistryInv`, `ClientInv`, `SocketInv`, `StopInv`, `SecretInv`,
`ChildInv` and `StoreInv` are conjunctions of named parts: the types and the
property that belongs to them. The type invariants of Gateway and CertCache are
proved and not checked by a run again.

*Histories.* Some properties exclude a situation in which the code promises
nothing, and the excluded situation is a variable or operator with a name:
requests during which the registry changed (`disturbed`, `Undisturbed` in
Gateway: every handler looks the service up for itself; `GateHolds` and
`CredentialStaysPaired` hold regardless); a request that names another host than
its tunnel (`Straight`); a header's values behind a placeholder
(`BehindPlaceholder`); a daemon that did not answer a dial (`unanswered` in
ControlSocket, the daemons that dialled it); a source that changed during a
fetch of it (`changed`); starts or stops that overlapped (`raced` in
ControlSocket, `loadsMet` in CAStore); requests that were logged at the same
time (`overlapped` in ChildRun); processes that stopped before they were done with
the files (`cutShort`).

*Fairness.* `cert_cache` assumes weak fairness of each call: a goroutine that
can proceed is eventually scheduled, and the mutexes are held for a few
statements. Failing generations need no assumption: a call that fails returns,
so a waiter starts again at most once per other call. `process_stop` assumes
that the timer fires and that the callers are scheduled; no shutdown function
and no request has to come to an end, and the goroutine that runs them need
not be scheduled. `child_run` assumes it of the main goroutine and of the
one that reaps the child; neither the child nor its requests have to do
anything, and a signal need not come. The other runs check safety only and assume nothing.

## 4. Theorems

All are checked by TLAPS for arbitrary constants under the named assumptions
of the modules: `ConfigAssumption` (what startup refuses, which is itself a
theorem about Startup, `ServesAssumed`), the shapes of the constants, that a
sentinel (`NoMeta`, `NoFile`, `Absent`, `Torn`, `None`) is none of the things it
stands beside, and `ClientAssumption` of Gateway: no request comes with the
value of a credential, which is the point of the program. TLC evaluates each
assumption on its instance.

Every invariant below that needed a strengthening was checked by TLC, on the
configuration of the run that has the property, before it was proved.

**Recursion** (RecursionProofs). The library states induction for a predicate,
which none of the provers used here can instantiate. `Induction` states it for a
set of natural numbers, from the well-foundedness of `<`; `Upward` and `Downward` are
the forms that are used. From them: `FoldExists`, `ScanExists` and `RunExists`, that a
fold over a sequence, a function that reads a string from its end and a run of
updates have the solution that their recursive definitions choose, so that these
definitions may be unfolded, and `FlattenJoins` for `FlattenSeq`. Every theorem below
about a recursive definition rests on one of them.

**Spellings** (GrantProofs). `NormalizeCleans` says what the fold behind
`NormalizePath` has after each segment: a path without `.` and `..`. From it:
`NormalizeType`; `NormalizeRespelled`, that none of the rules of `path.Clean` changes
what a path is normalized to, wherever in the path it is applied (two runs of the fold
that agree behind the place agree from there on, `CleanedAlike`); `NormalizeFixes`,
that a path that is clean stays. So `SpellingUnseen`: a scope permits a path in
all of its spellings or in none.

**Scopes** (GrantProofs). `ContainsSound`: a path matched by a contained
pattern is matched by the containing one, by cases on the two wildcards over
prefix facts. `ContainsComplete` is the converse: a path or two just below the
inner pattern's root show what is not contained, as long as there is any segment at
all. `NarrowsSound`: `Narrows(r, b)` and `Permits(r, q)` imply
`Permits(b, q)`, for any limits, methods and patterns. `DefaultsNarrow`: the defaults
applied after the comparison only narrow. As invariants of JudgedScope:
`NarrowedBound` and, where every path may be requested, `ContainmentExact`.

**Registry and grants** (GrantProofs). `LookupDeterministic`: at most one
entry can answer a lookup, so Go's map order does not show. `GrantedWithin`: what
an authorized grant stores is within the universe; it rests on `NarrowsSound` and
`DefaultsNarrow`.

**Control plane** (ControlPlaneProofs).
* The invariant of the registry is `TypeOK /\ RegistryWithinUniverse /\
  AuthorizedFirst`. The third part says that a call at "apply" was authorized;
  without it the step `GrantApplied` could store anything. `GrantedWithin` carries
  that step. From it: `TypeCorrect`, `UniverseSafe`, `HostEligible` and the
  refinement `LedgerRefined`.
* The invariant of the account, `AccountInv`, adds to it what each call has in the
  trail at each of its places (`Trailed`), that finitely many calls have an
  outcome, and for each key a balance (`Balanced`): what was taken out, and what
  is there now, is at most what was put in and what was configured. The number of
  removals can be bounded only together with what is live. From it:
  `TrailComplete` and `ChangesAccounted`.
* With clients: every behaviour of `ClientSpec` is one of `Spec` (`ClientRefines`),
  so all of the above holds with clients that give up. `LastWordHolds` needs in
  addition how a client and its goroutine stand to each other (`Paced`) and that
  what was told last is in force until a call that came later changes it
  (`Settled`).

**Gateway** (GatewayProofs), in two parts.
* Whatever the registry does. `GatewayTyped`; `GateSafe`: nothing passes the gate
  without the proxy secret; `PairingSafe`: a credential goes only into a request,
  and into the header, that it is paired with by the `Host` of the request, and to
  that host unless a request in a tunnel names another one than the tunnel's; and
  whatever a request names, a credential only goes to a host that something
  configured or approved names. The invariant adds to these `Sourced`, that every
  live entry has the credential, key and strategy of something configured or
  approved (without it `Inject` could take anything from the registry); `Routed`,
  that a plain request reaches the host it names and a tunnel that is intercepted
  one that a live entry matched at the CONNECT (`LookupSourced` makes it one of
  the configuration or of a pairing, for good); `Authentic`, that metadata is authenticated only in a tunnel that
  presented the secret (without it a tunnelled request could pass `Gate` on
  nothing); and `Shape`, that a request in the pipeline is on an open connection
  and neither answered nor injected. The step of the registry is the ledger's.
* As long as it stands still during the request. `Conduct(c)` says of each stage
  what the stages before it have done: past a check the request has passed it
  (`Judged`), of the client's auth headers those that start with the placeholder
  stay, as they are, and the others go (`Exchanged`),
  what was cloned is what is sent but for the credential (`Recording`), and no
  credential is where the recorder looks (`Unspoiled`, of which the half about
  tunnels does not need a registry that stands still). From it: `ScopeEnforced`,
  `ExchangeSafe`, `RecordFaithful`, `RecorderClean`.

**Certificate cache** (CertCacheProofs). The invariant adds to the types who
holds which slot (`Slots`), that a generating call's host has no certificate
(`Uncached`), that serials in use are distinct (`Serials`) and what returned
calls hold (`Answered`). From it: `FlightIsSingle`, `NoLostWakeup` and the
refinement `MemoRefined`.

**Secret registry** (SecretRegistryProofs). The invariant adds to the types what
`PreloadSecrets` has done so far (`Preloading`), that a request for a preloaded
secret never misses (`NeverMissed`), and that while a source has not changed
during a fetch, everybody who fetches from it agrees with the cache (`Agreed`);
without the last, `Store` could put into the cache something else than what
another request injected. From it: `SteadySecrets`, `CleanRecords` and, as an
action property, `SecretsKept`.

**Redaction** (SecretRegistryProofs). `RedactionExact`, for any secrets and a text of
any length, is put together from four arguments.
* Nothing known is left. Each letter of `ReplaceEvery(text, v)` stands for a stretch
  of `text` (`Traced`): itself, or an occurrence of `v` for a placeholder. An
  occurrence of a secret in the result has no placeholder, so it was in the text at
  that place (`HeldBefore`): a replacement never makes a secret. As each secret
  is gone after its own turn, none is there at the end (`NoneHeld`).
* A secret that embeds another is replaced whole. Letters that no secret has divide
  the work (`Separated`, `ScrubSeparated`): what is between them is scrubbed by itself.
  There, a secret meets itself before any of those that it embeds, because they are
  shorter (`ScrubWhole`); this is where the order of `KnownValues` is needed.
* Nothing else is taken away. `Spells` reads what is left as the text, with a secret
  for each placeholder, and each turn keeps that so (`ScrubSpells`, `SpelledOut`).
* A header in a credential position is replaced as it is, any other is scrubbed
  (`HeadersClean`).

**Start of a daemon** (DaemonProofs). `StartInv` says of each phase what has been
established by then: `ConfigValid` from `Validated` on, `Registered` during the walk
over the services (the registry has those that were walked, each under its key,
and nothing else; that no two of them share a key is why the order of Go's map
does not show), `Universe` once the enforcer is built, `Equipped` once strategies
are made. From it: `ServesAssumed` and `StrategiesProvided`, which says for which
references a daemon that serves can inject: all of its services' but `header:`, and
of its pairings' just `bearer` and a header with a name. So what ControlPlane
and Gateway assume of their constants is what a daemon that serves has.

**Stop of a daemon** (DaemonProofs). `StopIInv` has two parts besides the types and
`ServedKept` itself. `Orders`: the goroutine works backwards through a copy of what
was registered, has an outcome for exactly the functions it is done with, and its
answer is of all of them. `Drains`: a server that has stopped well has nobody left,
and the sink is closed only after every registered server has stopped in some way,
which is where the order of `Registrations` comes in. From it: `ShutdownHonest`,
`EntriesKept`, `CleanStopSafe`, for any requests and any callers, with functions
that fail, panic or never end.

**Environment of a child** (DaemonProofs). `EnvironmentConsistent`: of a sequence of
layers the last that has a variable sets it (`LayersSet`), and with the layers of
`BuildProcessEnvironment` that makes `ChildrenConsistent`, for any inherited
environment, env file, `ca_env_vars` and flags: of the variables by which another
chaperone could have told of its proxy and certificate (`Trusted`), the child keeps
exactly those for certificates that `ca_env_vars` leaves out and `-e` does not set
(`Foreign`). There are none as long as `ca_env_vars` is empty.

**Expanded strings** (DaemonProofs). Two readings of a string whose ends agree agree
there (`ExpandsAlike`), because a reference is read up to the first character that
ends it (`UntilStops`, `ReferencesAlike`) and nothing before its place is looked at.
So `Expand` can be unfolded at the front of a string: over a reference in braces
(`BracedExpanded`), an open one (`UnclosedFails`), a bare one (`BareExpanded`), an
escape or any other character. From these, and by induction over the string for
escapes (`EscapedExpanded`): `ExpansionExact`.

**Control socket** (ProcessProofs). `SocketIInv`: unless starts and stops met, the
one daemon that moves is alone with the path, so that what it has found there is
there until it acts on it (`Alone`); if besides every dial that reaches a daemon
was answered, only the one whose file is there serves, and none while a start
clears the path (`Sole`); and, whatever met or was not answered, a daemon that one
has met does not come to serve again, so that one that clears the path of a daemon
it has met was not answered by it (`Met`). From it: `ServingReached`;
`ResidueCleared`, which needs no answers; and, by `Met` alone and so without any
assumption about starts that meet or about the dials of others, the action property
`EstablishedKept`.

**CA files** (ProcessProofs). `StoreIInv`: a process has in memory the CA it
generated or checked (`Own`); unless loads met, the one that loads is alone with
the files, writes them only if nobody uses them, and a certificate without its key
is one that was cut short (`Orderly`); a run leaves its directory as it found it
unless it was cut short (`Cleared`). From it: `UsedStored`, `FailsOnlyOnTorn`,
`FreshKept`.

**Child process** (ProcessProofs). `ChildIInv`, for any number of requests and
headers: the tracker has exactly what the walks of the requests have come to
(`Walked`); each request announces a header at most once, so that a header is
announced no more often than there are requests past it (`Counted`); requests that
do not overlap announce only what nobody has announced (`Single`); and of its child
the main goroutine knows what the reaper has told it (`Followed`), the sentinel
included, behind which there is a discovered header. From it: `NothingLostEver` and
`ExitsHonestly`.

### Only model-checked

* Liveness: `EveryCallReturns`, `ShutdownReturns`, `ExitFollows`. Fairness is out of
  the prover's reach.
* The disagreements of section 5, which are behaviours and not theorems.
* That the assumptions on the constants can be met, and that each of the properties
  would notice a bug (the mutants).

Two things about the models come from what provers know. No prover knows that a
string literal is in `STRING`, so `StartupTypeOK` names the strategies there are
instead. And none evaluates `%` of a negative literal; the proof about exit codes
goes by `n + 1 = 0`.

## 5. Disagreements found

With a run that shows it and an entry under "findings":

1. A grant that the enforcer accepts and the registry refuses (a negative
   `max_body_bytes`) is not audited (`unaudited_failure`).
2. In a tunnel, a request refused before it is recorded has its response
   recorded against the request before it (`gateway_pairing`).
3. `listenUnix` removes whatever is at the path by then (`socket_stomp`;
   `server.go:209`). A daemon serves, and a second one finds the path in use; the
   first stops and unlinks it, so that the dial of the second fails; a third one
   binds the path and serves; the second removes the third's socket. All dials are
   answered that could be.
4. `chaperone run` does not forward signals: SIGTERM ends it without Shutdown,
   and its child runs on (`signals_forwarded`; `run.go:30`).

Noticed while modelling; the models behave as the code does, no run states
what the documents say:

* `revoke` takes out configured services as well as grants
  (`control/api.go:129`; `mcpgrants/server.go:95-96`).
* A grant whose host pattern has a port is accepted and never used
  (`registry_impl.go:29`); `LiveHostEligible` excludes it by name.
* A grant applied between the policy check and the injection gives its
  credential to a request that its scope does not permit
  (`auth_handler.go:105`); `ForwardedInScope` speaks of undisturbed requests.
* Of a header with several values only the first is compared with the
  placeholder: what the client puts behind it, a credential of its own, say, is
  kept (`auth_handler.go:47-52`), and reaches the upstream unless the strategy
  overwrites that header; `CredentialsExchanged` has it by name
  (`BehindPlaceholder`).
* The requests of a tunnel are judged by the `Host` they name
  (`auth_handler.go:36`, `105`), and sent to the host of the CONNECT: a request
  that names another service than its tunnel takes that service's credential to
  the tunnel's host. `CredentialStaysPaired` says only for a `Straight` request that
  the credential reaches the host it is paired with, and of any other that it
  reaches one that is configured or approved.
* Any error of the dial counts as a stale socket (`server.go:202-208`): a daemon
  that is alive and does not answer in time, or not this user, loses its socket
  file; the history `unanswered`.
* A stop removes the path once more after its listener has released it
  (`server.go:86`), and then another daemon's file; the history `raced`.
* A request without the placeholder is not forwarded unchanged, its known
  auth headers are removed (`auth_handler.go:62`; `README.md:641`).
* With the combined spelling `header:<name>` the placeholder is looked for in
  `Authorization` (`auth_handler.go:120`; `README.md:564-570`).
* A shutdown function that panics is logged and not part of the answer
  (`shutdown.go:81`); `AnswerHonest` allows for it.
* A tunnel goes on injecting while the daemon stops, and its audit entries
  meet a closed file (`helpers.go:141`); for tunnels `ServedKept` only says that
  this does not come before the stop of the proxy.
* `ToJSON` reads the entries without their lock (`recorder/har.go:284`): when
  the time of Shutdown runs out, or for a tunnel, an entry may come out in
  pieces.
* A secret that is rotated between two first fetches of it: both are
  injected, the redactor knows one (`secrets/registry.go:104`);
  `RecordedClean` excludes it by name.
* A child that ignores SIGINT is waited for without end (`run/process.go:117`,
  whose comment speaks of ten seconds and a kill).
* The sentinel in a header that was discovered with another value, or in a later
  value of a header, does not flag the header (`examine/tracker.go:40`), so that
  another may be printed; a header may be announced twice
  (`examine/logger.go:167`).
* Two processes that start together both generate a CA, and the later one
  overwrites a complete one (`mitm/ca.go:182`); the history `loadsMet`.
* An error of `run` after its CA is stored returns without `Shutdown` and
  leaves the directory, which `run.go:40` says is "automatically deleted"
  (`run.go:144`); the history `cutShort`. In examine, a malformed `-e` returns
  after the server has started, without `Shutdown` (`examine.go:457`).
* A call whose client has given up may be applied after later calls of the same
  agent, which was told that it failed (`control/client.go:92`); `AnswersInOrder`
  speaks of the answers that came.
* `run.stdout = "err"`, or any value of one to four bytes, makes `Validate` panic
  (`config.go:199`); Startup's phase "panicked". What `run.stdin`, `stdout` and
  `stderr` say is not used by anyone: a child inherits all three
  (`run/process.go:51`).
* A pairing with the strategy `header` and no name, `header:` or an unknown one is
  accepted at startup and granted, and fails at every request
  (`setup.go:112`; its comment says "not just pass the enforcer and then fail at
  request time"). A *service* with `header:` is accepted, too, its strategy is
  registered under the empty name, and `Apply` fails at every request
  (`auth/header.go:28`). `StrategiesReady` has these by name, and says
  that they are the only ones.
* A run section that lacks `command` is completed by the command line before it is
  validated; for a service without one, what the command line gives is not
  validated at all (`run/env.go:139`).
* Cobra takes the `--` of `chaperone run <service> -- <command>` out of `args`
  (as `examine.go:189` says), so that `run.go:71` does not find it and refuses the
  documented form; Startup's `cliCommand` is a second `--`.
* Lower-case proxy variables and `NO_PROXY` of the parent reach the child as they
  are (`run/env.go:93`). What `ca_env_vars` leaves out keeps the value of the parent
  or the env file (`run/env.go:109`): inside another chaperone, the child gets that
  one's certificate in such a variable, and this one's proxy; `ChildConsistent`
  says which (`Foreign`).
* A child that a signal ended makes chaperone exit with 255
  (`run/process.go:80`).

## 6. Abstractions and what is not modelled

* Paths, hosts, tokens and headers are sequences or members of small sets.
  Whitespace trimming (`serviceKey`, `Fetch`) has no counterpart.
* A host that goproxy dials is a name: what it resolves to is not in the model. A
  request in a tunnel is one in origin form, as clients send them; one in absolute
  form is left out.
* A header has one spelling: `net/http` has made its name canonical before a handler
  sees it, and the variants that `headers_util.go` looks for do not arise.
* Of `net.Listen` and `os.Remove` in `listenUnix` only what is at the path decides;
  that they fail for want of rights or of a directory is left out.
* Of the audit trail ControlPlane has the entries of the control plane;
  ProcessStop has whether an entry, of either server, is kept at all.
* A control request that does not decode (400, 405) touches nothing and is
  left out. `List` and `ListGrantable` only read.
* The registry is not persisted: a restart is a new behaviour. What outlives
  a process is the socket file and the CA, and their modules have the deaths.
* `ListAll` during `List`, `policy == nil` (no code path builds such a
  service) and an empty secret, for which `Apply` would fail too (`Fetch` refuses
  one), are left out.
* No mode calls `Shutdown` twice; the second caller of ProcessStop is there
  because the manager admits one.
* Writes to the CA files that fail for want of space or rights, PEM and X.509
  are left out; so are the JSONL and Multi recorders, which only tests
  construct, and the capture engine, which only the JSONL recorder uses. The
  unlocked reads of `ToJSON` are a choice of the entries that come out torn, not
  Go's memory model.
* There is no clock in CertCache: a cached certificate is served for as long as
  the daemon runs, past the 90 days it is made for (`certcache.go:53`).
* Of a config, Startup has what decides whether a daemon serves. TOML, the trust
  in the file's owner and mode (`filetrust`), the log level and the upstream
  anchors are one refusal that may happen.
* The components marked not modelled in `PROJECT.json`, with the reason.

## 7. Plan

Done: every module of section 2. Every safety property that a passing run
checks is a theorem; what is left to TLC is listed in section 4.

Open, in this order:

1. One theorem for what the theorems rest on between the modules: that Gateway's
   registry steps are ControlPlane's. Both are stated against GrantLedger, which
   ControlPlane is proved to implement and whose steps Gateway takes; that the two
   compose is an argument of this file. A module that composes them would have to
   prove `ControlPlane`'s refinement again, since the prover does not instantiate
   theorems of a module that is brought in by INSTANCE.
2. Abstract specifications: a lock that ControlSocket implements while starts
   do not overlap; one answer, given once, for ShutdownManager.
3. New questions join the runs that exist; a run of its own only for what no
   existing state space shows.
