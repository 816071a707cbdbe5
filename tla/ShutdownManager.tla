--------------------------- MODULE ShutdownManager ---------------------------
(***************************************************************************)
(* shutdown.Manager (internal/shutdown/shutdown.go): functions that        *)
(* components register, and Shutdown, which has a goroutine run them last  *)
(* to first while it waits for them, for its timeout and then for a grace  *)
(* period of 10 ms.  The goroutine goes on when Shutdown has returned.     *)
(*                                                                         *)
(* A function may return nil or an error, panic, or never return.          *)
(***************************************************************************)
EXTENDS Naturals, SequencesExt

CONSTANTS
    Fn,       \* the functions that are registered, each once
    Caller,   \* the goroutines that call Shutdown
    NoFn      \* the goroutine is between two functions

ASSUME NoFnAssumption == NoFn \notin Fn

VARIABLES
    funcs,      \* shutdownFuncs
    pc,         \* where each caller is
    batch,      \* funcs, the copy Shutdown took
    left,       \* how many of it have not been called
    current,    \* the function that runs
    outcome,    \* history: how each function that ran ended
    ran,        \* history: the functions in the order they were called
    result,     \* resultChan
    expired,    \* ctx is done
    lastError

vars == <<funcs, pc, batch, left, current, outcome, ran, result, expired, lastError>>
worker == <<batch, left, current, outcome, ran, result>>

Outcome == {"none", "ok", "error", "panic"}

TypeOK ==
    /\ funcs \in Seq(Fn) /\ IsInjective(funcs)
    /\ pc \in [Caller -> {"idle", "select", "grace", "blocked", "returned"}]
    /\ batch \in Seq(Fn) /\ IsPrefix(batch, funcs)
    /\ left \in 0 .. Len(batch)
    /\ ran = Reverse(SubSeq(batch, left + 1, Len(batch)))
    /\ current \in Fn \cup {NoFn}
    /\ outcome \in [Fn -> Outcome]
    /\ result \in {"none", "ok", "error"}
    /\ expired \in BOOLEAN
    /\ lastError \in {"nil", "error", "deadline"}

Init ==
    /\ funcs = <<>>
    /\ pc = [c \in Caller |-> "idle"]
    /\ batch = <<>> /\ left = 0
    /\ current = NoFn
    /\ outcome = [f \in Fn |-> "none"]
    /\ ran = <<>>
    /\ result = "none"
    /\ expired = FALSE
    /\ lastError = "nil"

\* shutdownOnce: nobody called, somebody is in, it is over.
Fresh == \A c \in Caller : pc[c] = "idle"
Over  == \E c \in Caller : pc[c] = "returned"

-----------------------------------------------------------------------------
Register(f) ==
    /\ f \notin ToSet(funcs)
    /\ funcs' = Append(funcs, f)
    /\ UNCHANGED <<pc, worker, expired, lastError>>

\* The first call takes the copy and starts goroutine and timer; a later
\* one waits for it in Once.Do.
Call(c) ==
    /\ pc[c] = "idle"
    /\ IF Fresh
         THEN pc' = [pc EXCEPT ![c] = "select"] /\ batch' = funcs /\ left' = Len(funcs)
         ELSE pc' = [pc EXCEPT ![c] = "blocked"] /\ UNCHANGED <<batch, left>>
    /\ UNCHANGED <<funcs, current, outcome, ran, result, expired, lastError>>

Started == ~Fresh

\* The goroutine calls the last function left.
CallNext ==
    /\ current = NoFn /\ left > 0
    /\ current' = batch[left]
    /\ left' = left - 1
    /\ ran' = Append(ran, current')
    /\ UNCHANGED <<funcs, pc, batch, outcome, result, expired, lastError>>

\* It returns, or panics and is recovered.
Finish(how) ==
    /\ current # NoFn
    /\ outcome' = [outcome EXCEPT ![current] = how]
    /\ current' = NoFn
    /\ UNCHANGED <<funcs, pc, batch, left, ran, result, expired, lastError>>

\* Mutant of Deliver: the error of the last function is the answer.
DeliverLast ==
    /\ Started /\ left = 0 /\ current = NoFn /\ result = "none"
    /\ result' = IF ran # <<>> /\ outcome[Last(ran)] = "error" THEN "error" ELSE "ok"
    /\ UNCHANGED <<funcs, pc, batch, left, current, outcome, ran, expired, lastError>>

\* errs, joined.
Deliver ==
    /\ Started /\ left = 0 /\ current = NoFn /\ result = "none"
    /\ result' = IF \E f \in Fn : outcome[f] = "error" THEN "error" ELSE "ok"
    /\ UNCHANGED <<funcs, pc, batch, left, current, outcome, ran, expired, lastError>>

Expire ==
    /\ Started /\ ~expired
    /\ expired' = TRUE
    /\ UNCHANGED <<funcs, pc, worker, lastError>>

\* The caller in Once.Do is done; its deferred cancel ends ctx.
Return(c, err) ==
    /\ pc' = [pc EXCEPT ![c] = "returned"]
    /\ lastError' = err
    /\ expired' = TRUE
    /\ UNCHANGED <<funcs, worker>>

TakeResult(c) ==
    /\ pc[c] = "select" /\ result # "none"
    /\ Return(c, IF result = "ok" THEN "nil" ELSE "error")

\* When both channels are ready, select takes either.
Timeout(c) ==
    /\ pc[c] = "select" /\ expired
    /\ pc' = [pc EXCEPT ![c] = "grace"]
    /\ UNCHANGED <<funcs, worker, expired, lastError>>

TakeLate(c) ==
    /\ pc[c] = "grace" /\ result # "none"
    /\ Return(c, IF result = "ok" THEN "deadline" ELSE "error")

\* Mutant of GraceOver: it waits for the functions to come to an end.
GraceOverWaiting(c) ==
    /\ pc[c] = "grace" /\ left = 0 /\ current = NoFn
    /\ Return(c, "deadline")

GraceOver(c) ==
    /\ pc[c] = "grace"
    /\ Return(c, "deadline")

Unblock(c) ==
    /\ pc[c] = "blocked" /\ Over
    /\ pc' = [pc EXCEPT ![c] = "returned"]
    /\ UNCHANGED <<funcs, worker, expired, lastError>>

Await(c) == TakeResult(c) \/ Timeout(c) \/ TakeLate(c) \/ GraceOver(c) \/ Unblock(c)

Shuts == CallNext \/ Deliver \/ Expire \/ \E c \in Caller : Call(c) \/ Await(c)

-----------------------------------------------------------------------------
(***************************************************************************)
(* What an answer says.  Unless it is the deadline, every function that    *)
(* had been registered was called, in reverse, whatever those before it    *)
(* did; nil says that none returned an error, an error that one did.       *)
(***************************************************************************)
AnswerHonest ==
    Over /\ lastError # "deadline" =>
        /\ ran = Reverse(batch) /\ current = NoFn
        /\ lastError = "nil" <=> \A f \in ToSet(ran) : outcome[f] # "error"
=============================================================================
