----------------------------- MODULE ProcessStop -----------------------------
(***************************************************************************)
(* How inject, run and examine stop (cmd/chaperone/cmd): what each         *)
(* registers with the shutdown manager and in which order, the control     *)
(* calls and proxied requests that are under way by then, and the sink     *)
(* they write to: the audit file, or in examine the HAR entries until      *)
(* their file is written.                                                  *)
(*                                                                         *)
(* Both servers are net/http servers, and their Stop calls Shutdown, which *)
(* closes the listener and waits until no connection is active.  A tunnel  *)
(* is a connection that goproxy has hijacked: net/http does not know of it *)
(* any more.                                                               *)
(***************************************************************************)
EXTENDS ShutdownManager

CONSTANTS
    Main,                                      \* the main goroutine
    ControlCall, PlainRequest, TunnelRequest   \* goroutines that act and write

Server == {"stopProxy", "stopControl"}
Sink   == {"closeAudit", "writeHAR"}
Other  == {"closeLog", "removeCA", "report"}
Served == ControlCall \cup PlainRequest
Work   == Served \cup TunnelRequest

ASSUME StopAssumption ==
    /\ Fn = Server \cup Sink \cup Other /\ Main \in Caller
    /\ ControlCall \cap PlainRequest = {} /\ Served \cap TunnelRequest = {}

VARIABLES
    listening,   \* the Stop functions whose server accepts connections
    sinkOpen,    \* an entry that is written is kept
    stage,       \* where each call and request is
    lost,        \* those whose entry was not kept
    torn         \* those whose entry was read while it was appended

surroundings == <<listening, sinkOpen, stage, lost, torn>>
allVars      == <<vars, surroundings>>

Active == {"accepted", "acted", "appending", "logged"}
Alive  == pc[Main] # "returned"

StopTypeOK ==
    /\ TypeOK
    /\ listening \subseteq Server \cap ToSet(funcs)
    /\ \A f \in listening : outcome[f] = "none"
    /\ sinkOpen \in BOOLEAN
    /\ stage \in [Work -> Active \cup {"idle", "done"}]
    /\ lost \subseteq {w \in Work : stage[w] \in {"logged", "done"}}
    /\ torn \subseteq Work /\ (torn # {} => ~sinkOpen)

\* examine records; inject and run write an audit trail.
Recording == "writeHAR" \in ToSet(funcs)

ServerOf(w) == IF w \in ControlCall THEN "stopControl" ELSE "stopProxy"
Conns(stop) == {w \in Served : ServerOf(w) = stop}
Goto(w, next) == stage' = [stage EXCEPT ![w] = next]

-----------------------------------------------------------------------------
\* Mutant of Registrations: in inject the sink comes after the proxy.
RegistrationsLate ==
    {<<"stopProxy", "closeAudit", "stopControl">>,
     <<"closeLog", "removeCA", "closeAudit", "stopProxy">>,
     <<"writeHAR", "report", "stopProxy">>}

\* What inject, run and examine register, one after the other.
Registrations ==
    {<<"closeAudit", "stopProxy", "stopControl">>,
     <<"closeLog", "removeCA", "closeAudit", "stopProxy">>,
     <<"writeHAR", "report", "stopProxy">>}

Ready == funcs \in Registrations

StopInit ==
    /\ Init
    /\ listening = {}
    /\ sinkOpen = TRUE
    /\ stage = [w \in Work |-> "idle"]
    /\ lost = {} /\ torn = {}

\* A server listens once its Stop is registered, the proxy before the
\* control plane.  A signal before Ready ends the process without Shutdown.
Startup(f) ==
    /\ Fresh /\ ~Ready
    /\ \E order \in Registrations : IsPrefix(Append(funcs, f), order)
    /\ Register(f)
    /\ listening' = listening \cup (Server \cap {f})
    /\ UNCHANGED <<sinkOpen, stage, lost, torn>>

(***************************************************************************)
(* Calls and requests, as long as the process lives.                       *)
(***************************************************************************)
\* An open tunnel brings requests whether or not the server still listens.
Accept(w) ==
    /\ Alive /\ stage[w] = "idle"
    /\ ServerOf(w) \in IF w \in TunnelRequest THEN ToSet(funcs) ELSE listening
    /\ Goto(w, "accepted")
    /\ UNCHANGED <<vars, listening, sinkOpen, lost, torn>>

\* The registry has changed, the credential is on the request, or the
\* response is there.
Act(w) ==
    /\ Alive /\ stage[w] = "accepted"
    /\ Goto(w, "acted")
    /\ UNCHANGED <<vars, listening, sinkOpen, lost, torn>>

\* The recorder's callback comes to r.entries, under a lock that the writer
\* of the file does not take.
BeginEntry(w) ==
    /\ Alive /\ stage[w] = "acted" /\ Recording
    /\ Goto(w, "appending")
    /\ UNCHANGED <<vars, listening, sinkOpen, lost, torn>>

\* The entry is there, in the audit trail in one step: one that comes too
\* late is only reported.
LogEntry(w) ==
    /\ Alive /\ stage[w] = IF Recording THEN "appending" ELSE "acted"
    /\ lost' = IF sinkOpen THEN lost ELSE lost \cup {w}
    /\ Goto(w, "logged")
    /\ UNCHANGED <<vars, listening, sinkOpen, torn>>

Answer(w) ==
    /\ Alive /\ stage[w] = "logged"
    /\ Goto(w, "done")
    /\ UNCHANGED <<vars, listening, sinkOpen, lost, torn>>

-----------------------------------------------------------------------------
(***************************************************************************)
(* The functions that are registered.                                      *)
(***************************************************************************)
CloseListener(stop) ==
    /\ Alive /\ current = stop /\ stop \in listening
    /\ listening' = listening \ {stop}
    /\ UNCHANGED <<vars, sinkOpen, stage, lost, torn>>

\* Mutant of Drained: Close instead of Shutdown.
DrainedAtOnce(stop) ==
    /\ Alive /\ current = stop /\ stop \notin listening
    /\ Finish("ok")
    /\ UNCHANGED surroundings

Drained(stop) ==
    /\ Alive /\ current = stop /\ stop \notin listening
    /\ \A w \in Conns(stop) : stage[w] \notin Active
    /\ Finish("ok")
    /\ UNCHANGED surroundings

DrainExpired(stop) ==
    /\ Alive /\ current = stop /\ stop \notin listening
    /\ expired
    /\ \E w \in Conns(stop) : stage[w] \in Active
    /\ Finish("error")
    /\ UNCHANGED surroundings

\* Close of the audit logger, or ToJSON and the file: an entry that is being
\* appended while ToJSON reads may come out in pieces, or end in a panic.
CloseSink(how) ==
    /\ Alive /\ current \in Sink
    /\ sinkOpen' = FALSE
    /\ torn' \in SUBSET {w \in Work : stage[w] = "appending"}
    /\ how = "panic" => torn' # {}
    /\ Finish(how)
    /\ UNCHANGED <<listening, stage, lost>>

\* Files that are closed or removed and the report, which need not end.
EndOther(how) ==
    /\ Alive /\ current \in Other
    /\ Finish(how)
    /\ UNCHANGED surroundings

Runs == \/ \E stop \in Server : CloseListener(stop) \/ Drained(stop) \/ DrainExpired(stop)
        \/ \E how \in {"ok", "error", "panic"} : CloseSink(how) \/ EndOther(how)

\* Shutdown itself.
Shutdown == Alive /\ Ready /\ Shuts /\ UNCHANGED surroundings

StopNext ==
    \/ \E f \in Fn : Startup(f)
    \/ Shutdown
    \/ Runs
    \/ \E w \in Work : Accept(w) \/ Act(w) \/ BeginEntry(w) \/ LogEntry(w) \/ Answer(w)

(***************************************************************************)
(* A call that was made is scheduled and both timers fire; no function and *)
(* no request has to come to an end.                                       *)
(***************************************************************************)
Fairness ==
    /\ WF_allVars(Shutdown /\ Expire)
    /\ \A c \in Caller : WF_allVars(Shutdown /\ Await(c))

StopSpec == StopInit /\ [][StopNext]_allVars /\ Fairness

-----------------------------------------------------------------------------
(***************************************************************************)
(* The sink outlives the servers in all three: a control call or a request *)
(* on a plain connection loses its entry, or has it torn by ToJSON, which  *)
(* takes no lock, only when the time of Shutdown ran out.  A tunnel, which *)
(* the proxy's Stop does not wait for, may lose it whenever the process    *)
(* stops, but no sooner than the proxy has stopped.                        *)
(***************************************************************************)
ServedKept ==
    /\ (lost \cup torn) \cap Served # {} => expired
    /\ lost \cup torn # {} => outcome["stopProxy"] # "none"

(***************************************************************************)
(* A process that stops without an error cuts off no control call and no   *)
(* plain request, wherever they were when the signal came.                 *)
(***************************************************************************)
CleanStopCutsNobody ==
    Over /\ lastError = "nil" => \A w \in Served : stage[w] \in {"idle", "done"}

(***************************************************************************)
(* Shutdown returns, even when a function never does.                      *)
(***************************************************************************)
ShutdownReturns == pc[Main] # "idle" ~> pc[Main] = "returned"

(***************************************************************************)
(* The types, the order the goroutine keeps, and what an answer says.      *)
(***************************************************************************)
StopInv == StopTypeOK /\ AnswerHonest
=============================================================================
