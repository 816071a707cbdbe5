------------------------------ MODULE CertMemo ------------------------------
(***************************************************************************)
(* What the certificate cache promises its callers, with no locks and no   *)
(* channels: a host is given one certificate, once, with a serial of its   *)
(* own, and every call returns its host's certificate or an error.         *)
(***************************************************************************)
EXTENDS Integers

CONSTANTS
    Caller,      \* calls of GetCertificate
    HostOf,      \* the normalized host each of them asks about
    Host,
    NoCert,      \* no certificate yet
    Failed,      \* a call that returned an error
    Pending      \* a call that has not returned

VARIABLES memo, answer

Init ==
    /\ memo = [host \in Host |-> NoCert]
    /\ answer = [c \in Caller |-> Pending]

\* A certificate whose serial no other host has.
Mint(host) ==
    /\ memo[host] = NoCert
    /\ memo'[host] \in [host : {host}, serial : Nat]
    /\ \A other \in Host :
          memo[other] # NoCert => memo[other].serial # memo'[host].serial
    /\ memo' = [memo EXCEPT ![host] = memo'[host]]
    /\ UNCHANGED answer

Return(c) ==
    /\ answer[c] = Pending
    /\ \/ memo[HostOf[c]] # NoCert /\ answer' = [answer EXCEPT ![c] = memo[HostOf[c]]]
       \/ answer' = [answer EXCEPT ![c] = Failed]
    /\ UNCHANGED memo

Next ==
    \/ \E host \in Host : Mint(host)
    \/ \E c \in Caller : Return(c)

Spec == Init /\ [][Next]_<<memo, answer>>
=============================================================================
