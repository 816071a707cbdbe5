------------------------------ MODULE CertCache ------------------------------
(***************************************************************************)
(* internal/mitm/certcache.go: a certificate per host, generated on the    *)
(* first handshake.  Handshakes run concurrently; one of them claims the   *)
(* host and generates, the others wait on its channel and read what it     *)
(* stored, or start again when it failed.                                  *)
(*                                                                         *)
(* A step is what one goroutine does under one hold of a lock, or one      *)
(* operation outside of it.  A channel is made by the call that claims the *)
(* host, so it is named after that call.                                   *)
(***************************************************************************)
EXTENDS Integers

CONSTANTS
    Caller,      \* calls of GetCertificate, each in its own goroutine
    Spelling,    \* host names as CONNECT requests write them
    Host,        \* without port, in lower case
    Normalize,   \* the normalization GetCertificate starts with
    Asks,        \* the host name each call is given
    NoCaller, NoCert, Failed, Pending

ASSUME NameAssumption ==
    /\ Normalize \in [Spelling -> Host]
    /\ Asks \in [Caller -> Spelling]

Cert == [host : Host, serial : Nat]

ASSUME SentinelAssumption ==
    /\ NoCaller \notin Caller
    /\ NoCert \notin Cert
    /\ Failed \notin Cert \cup {NoCert}
    /\ Pending \notin Cert \cup {NoCert, Failed}

VARIABLES
    pc,          \* how far each call is
    cache,       \* CertCache.cache
    generating,  \* CertCache.generating: the call whose channel a host holds
    awaits,      \* the channel a waiting call receives from
    closed,      \* the channels that are closed
    serialNext,
    serial,      \* the serial number a generating call took
    result       \* what a call will return

vars == <<pc, cache, generating, awaits, closed, serialNext, serial, result>>

KeyOf(c) == Normalize[Asks[c]]

\* The steps of a call that claimed its host, up to where it is released.
Owning == {"takeSerial", "sign", "store", "release"}

TypeOK ==
    /\ pc \in [Caller -> {"enter", "wait", "reread", "close", "done"} \cup Owning]
    /\ cache \in [Host -> Cert \cup {NoCert}]
    /\ generating \in [Host -> Caller \cup {NoCaller}]
    /\ awaits \in [Caller -> Caller \cup {NoCaller}]
    /\ closed \subseteq Caller
    /\ serialNext \in Nat
    /\ serial \in [Caller -> Nat]
    /\ result \in [Caller -> Cert \cup {Failed, Pending}]

Init ==
    /\ pc = [c \in Caller |-> "enter"]
    /\ cache = [host \in Host |-> NoCert]
    /\ generating = [host \in Host |-> NoCaller]
    /\ awaits = [c \in Caller |-> NoCaller]
    /\ closed = {}
    /\ serialNext = 1
    /\ serial = [c \in Caller |-> 0]
    /\ result = [c \in Caller |-> Pending]

-----------------------------------------------------------------------------
Goto(c, label) == pc' = [pc EXCEPT ![c] = label]

\* The first critical section: cached, being generated, or ours to claim.
Hit(c) ==
    /\ pc[c] = "enter"
    /\ cache[KeyOf(c)] # NoCert
    /\ result' = [result EXCEPT ![c] = cache[KeyOf(c)]]
    /\ Goto(c, "done")
    /\ UNCHANGED <<cache, generating, awaits, closed, serialNext, serial>>

Join(c) ==
    /\ pc[c] = "enter"
    /\ cache[KeyOf(c)] = NoCert
    /\ generating[KeyOf(c)] # NoCaller
    /\ awaits' = [awaits EXCEPT ![c] = generating[KeyOf(c)]]
    /\ Goto(c, "wait")
    /\ UNCHANGED <<cache, generating, closed, serialNext, serial, result>>

\* Mutant of Claim: the slot is not looked at.
ClaimAnyway(c) ==
    /\ pc[c] = "enter"
    /\ cache[KeyOf(c)] = NoCert
    /\ generating' = [generating EXCEPT ![KeyOf(c)] = c]
    /\ Goto(c, "takeSerial")
    /\ UNCHANGED <<cache, awaits, closed, serialNext, serial, result>>

Claim(c) ==
    /\ pc[c] = "enter"
    /\ cache[KeyOf(c)] = NoCert
    /\ generating[KeyOf(c)] = NoCaller
    /\ generating' = [generating EXCEPT ![KeyOf(c)] = c]
    /\ Goto(c, "takeSerial")
    /\ UNCHANGED <<cache, awaits, closed, serialNext, serial, result>>

\* Mutant of Wake: a waiter only wakes to a certificate.
WakeToCert(c) ==
    /\ pc[c] = "wait"
    /\ awaits[c] \in closed
    /\ cache[KeyOf(c)] # NoCert
    /\ Goto(c, "reread")
    /\ UNCHANGED <<cache, generating, awaits, closed, serialNext, serial, result>>

\* <-ch, then a second look under the lock.
Wake(c) ==
    /\ pc[c] = "wait"
    /\ awaits[c] \in closed
    /\ Goto(c, "reread")
    /\ UNCHANGED <<cache, generating, awaits, closed, serialNext, serial, result>>

Reread(c) ==
    /\ pc[c] = "reread"
    /\ IF cache[KeyOf(c)] # NoCert
         THEN /\ result' = [result EXCEPT ![c] = cache[KeyOf(c)]]
              /\ Goto(c, "done")
         ELSE /\ UNCHANGED result
              /\ Goto(c, "enter")
    /\ UNCHANGED <<cache, generating, awaits, closed, serialNext, serial>>

\* Mutant of TakeSerial: the next serial stays the same.
TakeSerialAgain(c) ==
    /\ pc[c] = "takeSerial"
    /\ serial' = [serial EXCEPT ![c] = serialNext]
    /\ Goto(c, "sign")
    /\ UNCHANGED <<cache, generating, awaits, closed, serialNext, result>>

\* generateCertificate: a serial under its own lock, then a key and a
\* signature, either of which may fail.
TakeSerial(c) ==
    /\ pc[c] = "takeSerial"
    /\ serial' = [serial EXCEPT ![c] = serialNext]
    /\ serialNext' = serialNext + 1
    /\ Goto(c, "sign")
    /\ UNCHANGED <<cache, generating, awaits, closed, result>>

Sign(c) ==
    /\ pc[c] = "sign"
    /\ \/ result' = [result EXCEPT ![c] = [host |-> KeyOf(c), serial |-> serial[c]]]
          /\ Goto(c, "store")
       \/ result' = [result EXCEPT ![c] = Failed]
          /\ Goto(c, "release")
    /\ UNCHANGED <<cache, generating, awaits, closed, serialNext, serial>>

Store(c) ==
    /\ pc[c] = "store"
    /\ cache' = [cache EXCEPT ![KeyOf(c)] = result[c]]
    /\ Goto(c, "release")
    /\ UNCHANGED <<generating, awaits, closed, serialNext, serial, result>>

\* Mutant of Release: the channel is left open.
ReleaseOnly(c) ==
    /\ pc[c] = "release"
    /\ generating' = [generating EXCEPT ![KeyOf(c)] = NoCaller]
    /\ Goto(c, "done")
    /\ UNCHANGED <<cache, awaits, closed, serialNext, serial, result>>

\* The deferred cleanup: the slot is freed under the lock, and only then is
\* the channel closed.
Release(c) ==
    /\ pc[c] = "release"
    /\ generating' = [generating EXCEPT ![KeyOf(c)] = NoCaller]
    /\ Goto(c, "close")
    /\ UNCHANGED <<cache, awaits, closed, serialNext, serial, result>>

Close(c) ==
    /\ pc[c] = "close"
    /\ closed' = closed \cup {c}
    /\ Goto(c, "done")
    /\ UNCHANGED <<cache, generating, awaits, serialNext, serial, result>>

Step(c) ==
    \/ Hit(c) \/ Join(c) \/ Claim(c) \/ Wake(c) \/ Reread(c)
    \/ TakeSerial(c) \/ Sign(c) \/ Store(c) \/ Release(c) \/ Close(c)

\* Every call has returned.
Quiet == (\A c \in Caller : pc[c] = "done") /\ UNCHANGED vars

Next == (\E c \in Caller : Step(c)) \/ Quiet

Spec == Init /\ [][Next]_vars

\* A goroutine that can run is run: the locks are held for a few statements
\* and signing ends.
FairSpec == Spec /\ \A c \in Caller : WF_vars(Step(c))

-----------------------------------------------------------------------------
(***************************************************************************)
(* "is it cached / is someone already generating / claim the generator     *)
(* slot is one atomic decision": two calls never generate for one host at  *)
(* a time, nor for a host that has its certificate.                        *)
(***************************************************************************)
SingleFlight ==
    \A c \in Caller : pc[c] \in {"takeSerial", "sign", "store"} =>
        /\ cache[KeyOf(c)] = NoCert
        /\ \A d \in Caller : pc[d] \in Owning /\ KeyOf(d) = KeyOf(c) => d = c

(***************************************************************************)
(* A waiting call has someone to wake it: the channel it receives from is  *)
(* closed, or belongs to a call that is still going to close it.           *)
(***************************************************************************)
WaiterHasWaker ==
    \A c \in Caller : pc[c] = "wait" =>
        \/ awaits[c] \in closed
        \/ awaits[c] \in Caller /\ pc[awaits[c]] \in Owning \cup {"close"}

(***************************************************************************)
(* No handshake hangs: every call returns, whoever fails to generate.      *)
(***************************************************************************)
EveryCallReturns == \A c \in Caller : <>(pc[c] = "done")

(***************************************************************************)
(* The cache implements the memo: a host's certificate is stored once,     *)
(* never replaced, has a serial of its own, and is what all its callers    *)
(* get, apart from the calls whose own generation failed.                  *)
(***************************************************************************)
Memo == INSTANCE CertMemo WITH
    HostOf <- [c \in Caller |-> KeyOf(c)],
    memo   <- cache,
    answer <- [c \in Caller |-> IF pc[c] = "done" THEN result[c] ELSE Pending]

MemoImplemented == Memo!Spec
=============================================================================
