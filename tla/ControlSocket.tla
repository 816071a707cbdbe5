---------------------------- MODULE ControlSocket ----------------------------
(***************************************************************************)
(* Who owns the control socket (internal/control/server.go): Start with    *)
(* listenUnix, Stop, and daemons that die without Stop.                    *)
(*                                                                         *)
(* A daemon is one process and binds at most once, so the file it creates  *)
(* is named by it.  Everything but bind and close goes by the path, and    *)
(* finds whatever file is there by then.  The operating system and Go's    *)
(* UnixListener, whose Close unlinks its path first, are as listenUnix and *)
(* Stop use them.                                                          *)
(***************************************************************************)
CONSTANTS
    Daemon,   \* processes, each for one run
    NoFile    \* nothing at the path

ASSUME NoFileAssumption == NoFile \notin Daemon

VARIABLES
    file,   \* the daemon whose socket file is at the path
    pc,     \* where each daemon is
    met,    \* history: the daemon that served at the path when this one started
    raced,  \* history: a start or a stop met another one under way
    unanswered  \* history: the daemons whose dial a live daemon did not answer

vars == <<file, pc, met, raced, unanswered>>

Starting  == {"probe", "clear", "retry", "chmod", "giveUp"}
Stopping  == {"unlinked", "draining", "remove"}
Listening == {"chmod", "giveUp", "serving", "unlinked"}
Unbound   == {"off", "probe", "clear", "retry", "refused"}
Ended     == {"refused", "failed", "stopped", "crashed"}

TypeOK ==
    /\ file \in {NoFile} \cup {d \in Daemon : pc[d] \notin Unbound}
    /\ pc \in [Daemon -> {"off", "serving"} \cup Starting \cup Stopping \cup Ended]
    /\ met \in [Daemon -> Daemon \cup {NoFile}]
    /\ raced \in BOOLEAN
    /\ unanswered \subseteq Daemon

Init ==
    /\ file = NoFile
    /\ pc = [d \in Daemon |-> "off"]
    /\ met = [d \in Daemon |-> NoFile]
    /\ raced = FALSE
    /\ unanswered = {}

Goto(d, next) == pc' = [pc EXCEPT ![d] = next]

\* The daemon that a dial reaches.
Answering == {d \in Daemon : file = d /\ pc[d] \in Listening}

Busy(d) == \E e \in Daemon \ {d} : pc[e] \in Starting \cup Stopping

-----------------------------------------------------------------------------
(***************************************************************************)
(* Start.                                                                  *)
(***************************************************************************)
\* net.Listen: the path is free, or in use.
Listen(d) ==
    /\ pc[d] = "off"
    /\ IF file = NoFile
         THEN file' = d /\ Goto(d, "chmod")
         ELSE Goto(d, "probe") /\ UNCHANGED file
    /\ met' = [met EXCEPT ![d] = IF file \in Answering /\ pc[file] = "serving" THEN file ELSE NoFile]
    /\ raced' = (raced \/ Busy(d))
    /\ UNCHANGED unanswered

\* Mutant of Probe: whatever is in use is taken for residue.
ProbeBlind(d) ==
    /\ pc[d] = "probe"
    /\ Goto(d, "clear")
    /\ UNCHANGED <<file, met, raced, unanswered>>

\* Mutant of Probe: whatever is in use is taken for a daemon.
ProbeTimid(d) ==
    /\ pc[d] = "probe"
    /\ Goto(d, IF Answering # {} THEN "refused" ELSE "failed")
    /\ UNCHANGED <<file, met, raced, unanswered>>

(***************************************************************************)
(* net.DialTimeout: somebody answers, or the file is taken for stale.  Any *)
(* error counts, so a daemon that is there may not be seen: its backlog is *)
(* full, it does not answer within 500 ms, its socket is another user's,   *)
(* or this process has no descriptor left.                                 *)
(***************************************************************************)
Probe(d) ==
    /\ pc[d] = "probe"
    /\ \/ Answering # {} /\ Goto(d, "refused") /\ UNCHANGED unanswered
       \/ /\ Goto(d, "clear")
          /\ unanswered' = unanswered \cup {e \in {d} : Answering # {}}
    /\ UNCHANGED <<file, met, raced>>

\* os.Remove of the stale socket.
ClearStale(d) ==
    /\ pc[d] = "clear"
    /\ file' = NoFile
    /\ Goto(d, "retry")
    /\ UNCHANGED <<met, raced, unanswered>>

Retry(d) ==
    /\ pc[d] = "retry"
    /\ IF file = NoFile
         THEN file' = d /\ Goto(d, "chmod")
         ELSE Goto(d, "failed") /\ UNCHANGED file
    /\ UNCHANGED <<met, raced, unanswered>>

\* os.Chmod of the path, then Serve; without a file Start gives up.
Chmod(d) ==
    /\ pc[d] = "chmod"
    /\ Goto(d, IF file # NoFile THEN "serving" ELSE "giveUp")
    /\ UNCHANGED <<file, met, raced, unanswered>>

\* ln.Close.
GiveUp(d) ==
    /\ pc[d] = "giveUp"
    /\ file' = NoFile
    /\ Goto(d, "failed")
    /\ UNCHANGED <<met, raced, unanswered>>

-----------------------------------------------------------------------------
(***************************************************************************)
(* Stop: httpServer.Shutdown closes the listener, which unlinks the path   *)
(* before it closes, and waits for the calls under way; then os.Remove.    *)
(***************************************************************************)
Unlink(d) ==
    /\ pc[d] = "serving"
    /\ file' = NoFile
    /\ Goto(d, "unlinked")
    /\ raced' = (raced \/ Busy(d))
    /\ UNCHANGED <<met, unanswered>>

CloseListener(d) ==
    /\ pc[d] = "unlinked"
    /\ Goto(d, "draining")
    /\ UNCHANGED <<file, met, raced, unanswered>>

Drained(d) ==
    /\ pc[d] = "draining"
    /\ Goto(d, "remove")
    /\ UNCHANGED <<file, met, raced, unanswered>>

\* The shutdown context expired first.
DrainTimeout(d) ==
    /\ pc[d] = "draining"
    /\ Goto(d, "stopped")
    /\ UNCHANGED <<file, met, raced, unanswered>>

Remove(d) ==
    /\ pc[d] = "remove"
    /\ file' = NoFile
    /\ Goto(d, "stopped")
    /\ UNCHANGED <<met, raced, unanswered>>

\* The process dies: its listener goes, its file stays.
Crash(d) ==
    /\ pc[d] \in {"serving"} \cup Starting \cup Stopping
    /\ Goto(d, "crashed")
    /\ UNCHANGED <<file, met, raced, unanswered>>

Step(d) ==
    \/ Listen(d)
    \/ Probe(d)
    \/ ClearStale(d)
    \/ Retry(d)
    \/ Chmod(d)
    \/ GiveUp(d)
    \/ Unlink(d)
    \/ CloseListener(d)
    \/ Drained(d)
    \/ DrainTimeout(d)
    \/ Remove(d)

\* No process starts any more.
Quiet == (\A d \in Daemon : pc[d] \in Ended) /\ UNCHANGED vars

Next == Quiet \/ \E d \in Daemon : Step(d) \/ Crash(d)

Spec == Init /\ [][Next]_vars

-----------------------------------------------------------------------------
Serving(d) == pc[d] = "serving"

(***************************************************************************)
(* As long as starts and stops do not meet and every dial that reaches a   *)
(* daemon is answered, whatever crashed in between, a daemon that Start    *)
(* has brought up is the one that clients reach.                           *)
(***************************************************************************)
ServingReachable == ~raced /\ unanswered = {} => \A d \in Daemon : Serving(d) => file = d

(***************************************************************************)
(* Residue never keeps a daemon out: a start fails only because of another *)
(* daemon, one that serves or one that starts or stops at the same time,   *)
(* whatever dials went without an answer before.                           *)
(***************************************************************************)
ResidueNeverBlocks ==
    ~raced => \A d \in Daemon :
        /\ pc[d] # "failed"
        /\ pc[d] = "refused" => met[d] # NoFile

(***************************************************************************)
(* A daemon that served at the path before another one started is never    *)
(* displaced by that start, however many others start and stop meanwhile,  *)
(* unless it left the dial of that very start without an answer.           *)
(***************************************************************************)
EstablishedSurvives ==
    [][\A d \in Daemon :
          ClearStale(d) =>
             d \in unanswered \/ ~(file # NoFile /\ file = met[d] /\ Serving(file))]_vars

-----------------------------------------------------------------------------
\* listenUnix: "refusing to stomp a control plane that is already live", even
\* if every dial that reaches one is answered.
LiveNeverStomped ==
    [][\A d, e \in Daemon :
          ClearStale(d) /\ d \notin unanswered => ~(e # d /\ file = e /\ Serving(e))]_vars

(***************************************************************************)
(* The types: the file at the path is of a daemon that has bound it.  And  *)
(* whoever serves is reachable, within the same limits.                    *)
(***************************************************************************)
SocketInv == TypeOK /\ ServingReachable
=============================================================================
