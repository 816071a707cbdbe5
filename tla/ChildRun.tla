------------------------------ MODULE ChildRun ------------------------------
(***************************************************************************)
(* chaperone run and chaperone examine: the child process and the          *)
(* goroutine that waits for it (internal/run/process.go), the requests     *)
(* that examine logs and the tracker they share (internal/examine), and    *)
(* the main goroutine between them (cmd/chaperone/cmd/run.go, examine.go). *)
(*                                                                         *)
(* What Shutdown does before the process exits is in ProcessStop.  Only    *)
(* WaitForShutdown installs a signal handler: anywhere else SIGTERM and    *)
(* SIGINT end the process where it is.                                     *)
(***************************************************************************)
EXTENDS Integers, FiniteSets

CONSTANTS
    Request,    \* requests, each with a URL of its own
    Header,     \* header names
    Standard,   \* isStandardAuthHeader
    ExitCode,   \* what a child may exit with by itself
    Killed,     \* a signal ended it
    None        \* no exit code, no header

ASSUME ChildAssumption ==
    /\ Standard \subseteq Header /\ ExitCode \subseteq 0 .. 254 /\ Killed \notin ExitCode
    /\ None \notin Header \cup ExitCode \cup {Killed, -1}

VARIABLES
    mode,          \* "run", "command" (examine with a command) or "manual"
    headers,       \* request -> its headers -> which value holds the sentinel
    progress,      \* where each request is
    todo,          \* the headers of each request LogRequest has not come to
    unseen,        \* the header each request is about to announce
    discoveries,   \* header -> URLs (none: not discovered) and FoundSentinel
    announced,     \* how often each header was announced; seenHeaders: once
    overlapped,    \* history: two requests were logged at the same time
    sentinelChan,
    child,         \* the process
    interrupted,   \* chaperone has sent it SIGINT
    status,        \* what it ended with
    exitChannel,
    main,          \* where the main goroutine is
    code,          \* the exit code of chaperone
    printed        \* the header of the printed configuration

requests  == <<headers, progress, todo, unseen, discoveries, announced, overlapped, sentinelChan>>
process   == <<child, interrupted, status, exitChannel>>
outcome   == <<main, code, printed>>
childVars == <<mode, requests, process, outcome>>

\* A header's first value, a later one or none holds the sentinel.
Holding == {"first", "later", "none"}
Discovery == [urls : SUBSET Request, foundSentinel : BOOLEAN]
Main == {"start", "select", "wait", "signal", "await", "check", "stopping", "stoppingPlain", "exited", "killed"}

\* ExitCode of a child that a signal ended is -1.
CodeOf(end) == IF end = Killed THEN -1 ELSE end

ChildTypeOK ==
    /\ mode \in {"run", "command", "manual"}
    /\ \A q \in Request :
          /\ DOMAIN headers[q] \subseteq Header /\ todo[q] \subseteq DOMAIN headers[q]
          /\ \A h \in DOMAIN headers[q] : headers[q][h] \in Holding
    /\ progress \in [Request -> {"idle", "logging", "done"}]
    /\ unseen \in [Request -> Header \cup {None}]
    /\ discoveries \in [Header -> Discovery]
    /\ DOMAIN announced = Header
    /\ \A h \in Header : announced[h] \in 0 .. Cardinality(discoveries[h].urls)
    /\ overlapped \in BOOLEAN
    /\ sentinelChan \in {"open", "closed"}
    /\ child \in {"none", "running", "exited"} /\ interrupted \in BOOLEAN
    /\ status \in ExitCode \cup {Killed, None} /\ exitChannel \in ExitCode \cup {-1, None}
    /\ main \in Main /\ code \in ExitCode \cup {-1, 0, 1, 255, None} /\ printed \in Header \cup {None}

ChildInit ==
    /\ mode \in {"run", "command", "manual"}
    /\ headers = [q \in Request |-> [h \in {} |-> "none"]]
    /\ progress = [q \in Request |-> "idle"]
    /\ todo = [q \in Request |-> {}]
    /\ unseen = [q \in Request |-> None]
    /\ discoveries = [h \in Header |-> [urls |-> {}, foundSentinel |-> FALSE]]
    /\ announced = [h \in Header |-> 0] /\ overlapped = FALSE
    /\ sentinelChan = "open"
    /\ child = "none" /\ interrupted = FALSE
    /\ status = None /\ exitChannel = None
    /\ main = "start" /\ code = None /\ printed = None

Alive == main \notin {"exited", "killed"}
Discovered == {h \in Header : discoveries[h].urls # {}}
Flagged == {h \in Header : discoveries[h].foundSentinel}
HasSentinel(q) == \E h \in DOMAIN headers[q] : headers[q][h] # "none"

-----------------------------------------------------------------------------
(***************************************************************************)
(* A request in examine: LogRequest takes its headers in the order of a    *)
(* map, and the lock of the tracker three times for each.  TrackHeader and *)
(* HasSeenHeader are one step: neither touches what the other reads.       *)
(***************************************************************************)
Arrive(q) ==
    /\ Alive /\ mode # "run" /\ progress[q] = "idle"
    /\ progress' = [progress EXCEPT ![q] = "logging"]
    /\ \E hs \in SUBSET Header :
          /\ \E held \in [hs -> Holding] : headers' = [headers EXCEPT ![q] = held]
          /\ todo' = [todo EXCEPT ![q] = hs]
    /\ overlapped' = (overlapped \/ \E r \in Request : progress[r] = "logging")
    /\ UNCHANGED <<mode, unseen, discoveries, announced, sentinelChan, process, outcome>>

\* Mutant of Track: the discovery is made anew.
TrackAnew(q, h) ==
    /\ Alive /\ h \in todo[q] /\ unseen[q] = None
    /\ discoveries' = [discoveries EXCEPT ![h] =
           [urls |-> {q}, foundSentinel |-> headers[q][h] = "first"]]
    /\ todo' = [todo EXCEPT ![q] = @ \ {h}]
    /\ unseen' = [unseen EXCEPT ![q] = IF announced[h] = 0 THEN h ELSE None]
    /\ UNCHANGED <<mode, headers, progress, announced, overlapped, sentinelChan, process, outcome>>

\* TrackHeader, for the values of one header, and HasSeenHeader: a header that
\* is known is only given another URL, and a URL that is known changes nothing.
Track(q, h) ==
    /\ Alive /\ h \in todo[q] /\ unseen[q] = None
    /\ discoveries' = [discoveries EXCEPT ![h] =
           [urls |-> @.urls \cup {q},
            foundSentinel |-> IF @.urls = {} THEN headers[q][h] = "first" ELSE @.foundSentinel]]
    /\ todo' = [todo EXCEPT ![q] = @ \ {h}]
    /\ unseen' = [unseen EXCEPT ![q] = IF announced[h] = 0 THEN h ELSE None]
    /\ UNCHANGED <<mode, headers, progress, announced, overlapped, sentinelChan, process, outcome>>

\* MarkHeaderSeen and the line on the terminal.
Announce(q) ==
    /\ Alive /\ unseen[q] # None
    /\ announced' = [announced EXCEPT ![unseen[q]] = @ + 1]
    /\ unseen' = [unseen EXCEPT ![q] = None]
    /\ UNCHANGED <<mode, headers, progress, todo, discoveries, overlapped, sentinelChan, process, outcome>>

\* Mutant of Logged: the channel is closed as soon as the request is read.
LoggedEarly(q) ==
    /\ Alive /\ progress[q] = "logging"
    /\ progress' = [progress EXCEPT ![q] = IF todo[q] = {} /\ unseen[q] = None THEN "done" ELSE @]
    /\ sentinelChan' = IF mode = "command" /\ HasSentinel(q) THEN "closed" ELSE sentinelChan
    /\ UNCHANGED <<mode, headers, todo, unseen, discoveries, announced, overlapped, process, outcome>>

\* The end of LogRequest; sentinelOnce closes the channel, which is nil in
\* manual mode.
Logged(q) ==
    /\ Alive /\ progress[q] = "logging" /\ todo[q] = {} /\ unseen[q] = None
    /\ progress' = [progress EXCEPT ![q] = "done"]
    /\ sentinelChan' = IF mode = "command" /\ HasSentinel(q) THEN "closed" ELSE sentinelChan
    /\ UNCHANGED <<mode, headers, todo, unseen, discoveries, announced, overlapped, process, outcome>>

RequestStep(q) ==
    Arrive(q) \/ (\E h \in Header : Track(q, h)) \/ Announce(q) \/ Logged(q)

-----------------------------------------------------------------------------
(***************************************************************************)
(* The child.  It need not heed SIGINT, and a signal may end it.           *)
(***************************************************************************)
ChildExits(end) ==
    /\ child = "running"
    /\ child' = "exited" /\ status' = end
    /\ UNCHANGED <<mode, requests, interrupted, exitChannel, outcome>>

\* cmd.Wait returns.  The files a child inherits give it nothing else to fail of.
Reap ==
    /\ Alive /\ child = "exited" /\ exitChannel = None
    /\ exitChannel' = CodeOf(status)
    /\ UNCHANGED <<mode, requests, child, interrupted, status, outcome>>

-----------------------------------------------------------------------------
(***************************************************************************)
(* The main goroutine.                                                     *)
(***************************************************************************)
SpawnChild ==
    /\ main = "start" /\ mode # "manual"
    /\ child' = "running"
    /\ main' = IF mode = "run" THEN "wait" ELSE "select"
    /\ UNCHANGED <<mode, requests, interrupted, status, exitChannel, code, printed>>

WaitForShutdown ==
    /\ main = "start" /\ mode = "manual"
    /\ main' = "signal"
    /\ UNCHANGED <<mode, requests, process, code, printed>>

\* os.Exit keeps eight bits of a code.
Exit(c) == main' = "exited" /\ code' = c % 256

\* An error, with a Shutdown after it when it was SpawnChild's, goes up to main.
StartFails ==
    /\ main = "start" /\ Exit(1)
    /\ UNCHANGED <<mode, requests, process, printed>>

\* Wait, in run.
TakeCode ==
    /\ main = "wait" /\ exitChannel # None
    /\ Exit(exitChannel)
    /\ UNCHANGED <<mode, requests, process, printed>>

(***************************************************************************)
(* WaitWithSentinel; if both channels are ready, select takes either.      *)
(***************************************************************************)
TakeSentinel ==
    /\ main = "select" /\ sentinelChan = "closed"
    /\ interrupted' = TRUE
    /\ main' = "await"
    /\ UNCHANGED <<mode, requests, child, status, exitChannel, code, printed>>

Returns(c) == main' = "check" /\ code' = c

TakeExit ==
    /\ main = "select" /\ exitChannel # None
    /\ Returns(exitChannel)
    /\ UNCHANGED <<mode, requests, process, printed>>

\* Mutant of AwaitExit: it waits for a child that runs.
AwaitRunning ==
    /\ main = "await" /\ exitChannel # None /\ interrupted /\ child = "running"
    /\ Returns(0)
    /\ UNCHANGED <<mode, requests, process, printed>>

AwaitExit ==
    /\ main = "await" /\ exitChannel # None
    /\ Returns(0)
    /\ UNCHANGED <<mode, requests, process, printed>>

\* runExamine looks at the channel again, and stops the proxy.
Check ==
    /\ main = "check"
    /\ main' = IF sentinelChan = "closed" THEN "stopping" ELSE "stoppingPlain"
    /\ UNCHANGED <<mode, requests, process, code, printed>>

\* printCompleteConfig takes a flagged header, a standard one or any.
Choices ==
    IF Flagged # {} THEN Flagged
    ELSE IF Discovered \cap Standard # {} THEN Discovered \cap Standard
    ELSE Discovered

PrintConfig ==
    /\ main = "stopping"
    /\ printed' \in IF Choices = {} THEN {None} ELSE Choices
    /\ Exit(code)
    /\ UNCHANGED <<mode, requests, process>>

ExitPlain ==
    /\ main = "stoppingPlain"
    /\ Exit(code)
    /\ UNCHANGED <<mode, requests, process, printed>>

\* SIGTERM or SIGINT: manual mode waits for it and ignores any later one;
\* Shutdown ends well or not.
Signal ==
    /\ Alive /\ ~(mode = "manual" /\ main = "stoppingPlain")
    /\ IF main = "signal"
         THEN main' = "stoppingPlain" /\ code' \in {0, 1}
         ELSE main' = "killed" /\ UNCHANGED code
    /\ UNCHANGED <<mode, requests, process, printed>>

MainStep ==
    \/ SpawnChild \/ WaitForShutdown \/ StartFails \/ TakeCode
    \/ TakeSentinel \/ TakeExit \/ AwaitExit \/ Check \/ PrintConfig \/ ExitPlain

ChildNext ==
    \/ MainStep
    \/ Reap
    \/ \E end \in ExitCode \cup {Killed} : ChildExits(end)
    \/ \E q \in Request : RequestStep(q)
    \/ Signal

(***************************************************************************)
(* Goroutines that can go on do.  Neither the child nor its requests have  *)
(* to do anything.                                                         *)
(***************************************************************************)
ChildFairness == WF_childVars(MainStep) /\ WF_childVars(Reap)

ChildSpec == ChildInit /\ [][ChildNext]_childVars /\ ChildFairness
-----------------------------------------------------------------------------
(***************************************************************************)
(* Requests that are logged at the same time lose nothing: each header of  *)
(* each of them is found with its URL, and is announced by the time its    *)
(* request is done; twice only if requests overlapped, though logger.go    *)
(* means to "only log if we haven't seen this header before".              *)
(***************************************************************************)
NothingLost ==
    /\ \A q \in Request : progress[q] # "idle" =>
          \A h \in DOMAIN headers[q] \ todo[q] :
             /\ q \in discoveries[h].urls
             /\ announced[h] > 0 \/ unseen[q] = h
    /\ ~overlapped => \A h \in Header : announced[h] <= 1

(***************************************************************************)
(* Unless a signal ends it, chaperone does not exit before its child.  It  *)
(* exits with the child's code, or with success when the sentinel came     *)
(* first, and then it has a header to print, whichever of several requests *)
(* had the sentinel.                                                       *)
(***************************************************************************)
ExitHonest ==
    main = "exited" =>
        /\ child # "running"
        /\ child = "exited" => code = IF interrupted THEN 0 ELSE CodeOf(status) % 256
        /\ child = "none" => code = 1 \/ (mode = "manual" /\ code = 0)
        /\ interrupted => printed # None

(***************************************************************************)
(* When the child is gone, so is chaperone.                                *)
(***************************************************************************)
ExitFollows == child = "exited" ~> ~Alive

(***************************************************************************)
(* run, in its help: it "forwards signals (SIGTERM) to the application".   *)
(***************************************************************************)
SignalsForwarded == mode = "run" /\ main = "killed" => child # "running" \/ interrupted

(***************************************************************************)
(* The types: what a channel can hold, where everyone can be.  And no      *)
(* header of a concurrent request is lost.                                 *)
(***************************************************************************)
ChildInv == ChildTypeOK /\ NothingLost
=============================================================================
