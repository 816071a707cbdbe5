--------------------------- MODULE CertCacheProofs ---------------------------
(***************************************************************************)
(* The certificate cache for any number of handshakes and hosts.           *)
(***************************************************************************)
EXTENDS CertCache, TLAPS

\* A host's slot and the calls past their claim name each other.
Slots ==
    /\ \A c \in Caller : pc[c] \in Owning => generating[KeyOf(c)] = c
    /\ \A host \in Host : generating[host] # NoCaller =>
          pc[generating[host]] \in Owning /\ KeyOf(generating[host]) = host

\* A host is generated for only until it has its certificate.
Uncached ==
    \A c \in Caller : pc[c] \in {"takeSerial", "sign", "store"} => cache[KeyOf(c)] = NoCert

Minting == {c \in Caller : pc[c] \in {"sign", "store"}}

\* The serials of the cached certificates and of those being made are
\* different and were all handed out.
Serials ==
    /\ \A c \in Minting : serial[c] < serialNext
    /\ \A c, d \in Minting : c # d => serial[c] # serial[d]
    /\ \A c \in Minting : pc[c] = "store" =>
          result[c] = [host |-> KeyOf(c), serial |-> serial[c]]
    /\ \A host \in Host : cache[host] # NoCert =>
          /\ cache[host].host = host
          /\ cache[host].serial < serialNext
          /\ \A c \in Minting : cache[host].serial # serial[c]
          /\ \A other \in Host :
                cache[other] # NoCert /\ other # host => cache[other].serial # cache[host].serial

\* A call that has its answer has an error or its host's certificate.
Answered ==
    \A c \in Caller : pc[c] \in {"release", "close", "done"} =>
        \/ result[c] = Failed
        \/ cache[KeyOf(c)] # NoCert /\ result[c] = cache[KeyOf(c)]

IInv == TypeOK /\ Slots /\ Uncached /\ WaiterHasWaker /\ Serials /\ Answered

\* The key that a lookup uses is a key of the cache.
LEMMA KeyType ==
    ASSUME NEW c \in Caller
    PROVE  KeyOf(c) \in Host
BY NameAssumption DEF KeyOf

\* An empty cache satisfies the invariant.
LEMMA InitIInv == Init => IInv
BY SentinelAssumption
   DEF Init, IInv, TypeOK, Slots, Uncached, WaiterHasWaker, Serials, Minting, Answered, Owning

\* Types, whichever goroutine steps.
LEMMA StepTypeOK ==
    ASSUME IInv, NEW c \in Caller, Step(c)
    PROVE  TypeOK'
<1>. USE KeyType DEF IInv, TypeOK, Goto, Owning
<1>1. CASE Hit(c)
  BY <1>1 DEF Hit
<1>2. CASE Join(c)
  BY <1>2 DEF Join
<1>3. CASE Claim(c)
  BY <1>3 DEF Claim
<1>4. CASE Wake(c)
  BY <1>4 DEF Wake
<1>5. CASE Reread(c)
  BY <1>5 DEF Reread
<1>6. CASE TakeSerial(c)
  BY <1>6 DEF TakeSerial
<1>7. CASE Sign(c)
  BY <1>7 DEF Sign, Cert
<1>8. CASE Store(c)
  <2>1. result[c] = [host |-> KeyOf(c), serial |-> serial[c]]
    BY <1>8 DEF Store, Serials, Minting
  <2>2. result[c] \in Cert
    BY <2>1 DEF Cert
  <2>3. QED
    BY <1>8, <2>2 DEF Store
<1>9. CASE Release(c)
  BY <1>9 DEF Release
<1>10. CASE Close(c)
  BY <1>10 DEF Close
<1>11. QED
  BY <1>1, <1>2, <1>3, <1>4, <1>5, <1>6, <1>7, <1>8, <1>9, <1>10 DEF Step

\* A step that neither claims nor frees a slot keeps the slots.
LEMMA StepSlots ==
    ASSUME IInv, NEW c \in Caller, Step(c)
    PROVE  Slots'
<1>. USE KeyType, SentinelAssumption DEF IInv, TypeOK, Slots, Goto, Owning
<1>1. CASE Claim(c)
  BY <1>1 DEF Claim
<1>2. CASE Release(c)
  <2>1. generating[KeyOf(c)] = c
    BY <1>2 DEF Release
  <2>2. \A d \in Caller : d # c /\ pc[d] \in Owning => KeyOf(d) # KeyOf(c)
    BY <2>1
  <2>3. \A host \in Host : host # KeyOf(c) => generating[host] # c
    OBVIOUS
  <2>4. QED
    BY <1>2, <2>2, <2>3 DEF Release
<1>3. CASE Hit(c) \/ Join(c) \/ Wake(c) \/ Reread(c) \/ Close(c)
  BY <1>3 DEF Hit, Join, Wake, Reread, Close
<1>4. CASE TakeSerial(c) \/ Sign(c) \/ Store(c)
  BY <1>4 DEF TakeSerial, Sign, Store
<1>5. QED
  BY <1>1, <1>2, <1>3, <1>4 DEF Step

\* What is not in the cache stays out of it until the goroutine that signs adds
\* it.
LEMMA StepUncached ==
    ASSUME IInv, NEW c \in Caller, Step(c)
    PROVE  Uncached'
<1>. USE KeyType, SentinelAssumption DEF IInv, TypeOK, Uncached, Goto, Owning
<1>1. CASE Store(c)
  <2>1. \A d \in Caller : d # c /\ pc[d] \in Owning => KeyOf(d) # KeyOf(c)
    BY <1>1 DEF Store, Slots
  <2>2. QED
    BY <1>1, <2>1 DEF Store
<1>2. CASE Hit(c) \/ Join(c) \/ Claim(c) \/ Wake(c) \/ Reread(c)
  BY <1>2 DEF Hit, Join, Claim, Wake, Reread
<1>3. CASE TakeSerial(c) \/ Sign(c) \/ Release(c) \/ Close(c)
  BY <1>3 DEF TakeSerial, Sign, Release, Close
<1>4. QED
  BY <1>1, <1>2, <1>3 DEF Step

\* Whoever waits on a call has a goroutine that will end that call.
LEMMA StepWaiterHasWaker ==
    ASSUME IInv, NEW c \in Caller, Step(c)
    PROVE  WaiterHasWaker'
<1>. USE KeyType, SentinelAssumption DEF IInv, TypeOK, WaiterHasWaker, Goto, Owning
<1>1. CASE Join(c)
  BY <1>1 DEF Join, Slots
<1>2. CASE Hit(c) \/ Claim(c) \/ Wake(c) \/ Reread(c)
  BY <1>2 DEF Hit, Claim, Wake, Reread
<1>3. CASE TakeSerial(c) \/ Sign(c) \/ Store(c)
  BY <1>3 DEF TakeSerial, Sign, Store
<1>4. CASE Release(c) \/ Close(c)
  BY <1>4 DEF Release, Close
<1>5. QED
  BY <1>1, <1>2, <1>3, <1>4 DEF Step

\* No certificate is signed with a serial that another one has.
LEMMA StepSerials ==
    ASSUME IInv, NEW c \in Caller, Step(c)
    PROVE  Serials'
<1>. USE KeyType, SentinelAssumption DEF IInv, TypeOK, Serials, Minting, Goto, Cert
<1>1. CASE TakeSerial(c)
  BY <1>1 DEF TakeSerial
<1>2. CASE Sign(c)
  BY <1>2 DEF Sign
<1>3. CASE Store(c)
  <2>1. cache[KeyOf(c)] = NoCert
    BY <1>3 DEF Store, Uncached
  <2>2. result[c] = [host |-> KeyOf(c), serial |-> serial[c]] /\ serial[c] < serialNext
    BY <1>3 DEF Store
  <2>3. \A d \in Minting' : d \in Minting /\ serial'[d] # serial[c]
    BY <1>3 DEF Store
  <2>4. cache' = [cache EXCEPT ![KeyOf(c)] = [host |-> KeyOf(c), serial |-> serial[c]]]
    BY <1>3, <2>2 DEF Store
  <2>5. \A host \in Host : cache'[host] # NoCert =>
          /\ cache'[host].host = host
          /\ cache'[host].serial < serialNext
          /\ \A d \in Minting' : cache'[host].serial # serial[d]
          /\ \A other \in Host :
                cache'[other] # NoCert /\ other # host => cache'[other].serial # cache'[host].serial
    BY <1>3, <2>2, <2>3, <2>4 DEF Store
  <2>6. QED
    BY <1>3, <2>3, <2>5 DEF Store
<1>4. CASE Hit(c) \/ Join(c) \/ Claim(c) \/ Wake(c) \/ Reread(c)
  BY <1>4 DEF Hit, Join, Claim, Wake, Reread
<1>5. CASE Release(c) \/ Close(c)
  BY <1>5 DEF Release, Close
<1>6. QED
  BY <1>1, <1>2, <1>3, <1>4, <1>5 DEF Step

\* What a caller was given is a certificate for its host.
LEMMA StepAnswered ==
    ASSUME IInv, NEW c \in Caller, Step(c)
    PROVE  Answered'
<1>. USE KeyType, SentinelAssumption DEF IInv, TypeOK, Answered, Goto
<1>1. CASE Store(c)
  <2>1. cache[KeyOf(c)] = NoCert
    BY <1>1 DEF Store, Uncached
  <2>2. result[c] = [host |-> KeyOf(c), serial |-> serial[c]]
    BY <1>1 DEF Store, Serials, Minting
  <2>3. result[c] # NoCert
    BY <2>2 DEF Cert
  <2>4. QED
    BY <1>1, <2>1, <2>3 DEF Store
<1>2. CASE Hit(c) \/ Join(c) \/ Claim(c) \/ Wake(c) \/ Reread(c)
  BY <1>2 DEF Hit, Join, Claim, Wake, Reread
<1>3. CASE TakeSerial(c) \/ Sign(c) \/ Release(c) \/ Close(c)
  BY <1>3 DEF TakeSerial, Sign, Release, Close
<1>4. QED
  BY <1>1, <1>2, <1>3 DEF Step

\* The inductive invariant, in every state.
LEMMA Invariance == Spec => []IInv
<1>1. ASSUME IInv, NEW c \in Caller, Step(c)
      PROVE  IInv'
  BY <1>1, StepTypeOK, StepSlots, StepUncached, StepWaiterHasWaker, StepSerials, StepAnswered
     DEF IInv
<1>2. ASSUME IInv, UNCHANGED vars
      PROVE  IInv'
  BY <1>2 DEF vars, IInv, TypeOK, Slots, Uncached, WaiterHasWaker, Serials, Minting, Answered
<1>3. IInv /\ [Next]_vars => IInv'
  BY <1>1, <1>2 DEF Next, Quiet
<1>4. QED
  BY InitIInv, <1>3, PTL DEF Spec

(***************************************************************************)
(* One call at a time generates for a host, and none once it has its       *)
(* certificate, for any number of handshakes.                              *)
(***************************************************************************)
THEOREM FlightIsSingle == Spec => []SingleFlight
<1>1. IInv => SingleFlight
  BY DEF IInv, Slots, Uncached, SingleFlight, Owning
<1>2. QED
  BY Invariance, <1>1, PTL

(***************************************************************************)
(* No wake-up is lost: a call never waits on a channel nobody will close.  *)
(***************************************************************************)
THEOREM NoLostWakeup == Spec => []WaiterHasWaker
<1>1. IInv => WaiterHasWaker
  BY DEF IInv
<1>2. QED
  BY Invariance, <1>1, PTL

-----------------------------------------------------------------------------
\* What the memo's callers see of the calls.
Seen == [c \in Caller |-> IF pc[c] = "done" THEN result[c] ELSE Pending]

\* A call that returns leaves the cache alone and returns what it may.
LEMMA ReturnRefines ==
    ASSUME IInv, NEW c \in Caller, pc[c] # "done", Goto(c, "done"), UNCHANGED cache,
           \A d \in Caller : d # c => result'[d] = result[d],
           result'[c] = Failed \/ (cache[KeyOf(c)] # NoCert /\ result'[c] = cache[KeyOf(c)])
    PROVE  Memo!Return(c)
<1>1. Seen' = [Seen EXCEPT ![c] = result'[c]]
  BY DEF Seen, Goto, IInv, TypeOK
<1>2. Seen[c] = Pending
  BY DEF Seen
<1>3. QED
  BY <1>1, <1>2 DEF Seen, Memo!Return

\* Storing the certificate mints it: the host had none, and its serial is new.
LEMMA StoreRefines ==
    ASSUME IInv, NEW c \in Caller, Store(c)
    PROVE  Memo!Mint(KeyOf(c))
<1>1. result[c] = [host |-> KeyOf(c), serial |-> serial[c]] /\ serial[c] \in Nat
  BY DEF Store, IInv, Serials, Minting, TypeOK
<1>2. cache[KeyOf(c)] = NoCert
  BY DEF Store, IInv, Uncached
<1>3. cache'[KeyOf(c)] = result[c]
  BY KeyType DEF Store, IInv, TypeOK
<1>4. \A other \in Host : cache[other] # NoCert => cache[other].serial # cache'[KeyOf(c)].serial
  BY <1>1, <1>3 DEF Store, IInv, Serials, Minting
<1>5. cache'[KeyOf(c)] \in [host : {KeyOf(c)}, serial : Nat]
  BY <1>1, <1>3
<1>6. cache' = [cache EXCEPT ![KeyOf(c)] = cache'[KeyOf(c)]]
  BY <1>3 DEF Store
<1>7. Seen' = Seen
  BY DEF Seen, Store, Goto, IInv, TypeOK
<1>8. QED
  BY <1>2, <1>4, <1>5, <1>6, <1>7 DEF Seen, Memo!Mint

\* Every step is a step of the memo or a stutter.
LEMMA StepRefines ==
    ASSUME IInv, NEW c \in Caller, Step(c)
    PROVE  [Memo!Next]_<<cache, Seen>>
<1>. USE DEF Goto, IInv, TypeOK
<1>1. CASE Hit(c)
  <2>1. Memo!Return(c)
    BY <1>1, ReturnRefines DEF Hit
  <2>2. QED
    BY <2>1 DEF Memo!Next
<1>2. CASE Reread(c) /\ cache[KeyOf(c)] # NoCert
  <2>1. Memo!Return(c)
    BY <1>2, ReturnRefines DEF Reread
  <2>2. QED
    BY <2>1 DEF Memo!Next
<1>3. CASE Close(c)
  <2>1. Memo!Return(c)
    BY <1>3, ReturnRefines DEF Close, Answered
  <2>2. QED
    BY <2>1 DEF Memo!Next
<1>4. CASE Store(c)
  BY <1>4, StoreRefines, KeyType DEF Memo!Next
<1>5. CASE Join(c) \/ Claim(c) \/ Wake(c) \/ (Reread(c) /\ cache[KeyOf(c)] = NoCert)
  BY <1>5 DEF Join, Claim, Wake, Reread, Seen
<1>6. CASE TakeSerial(c) \/ Sign(c) \/ Release(c)
  BY <1>6 DEF TakeSerial, Sign, Release, Seen
<1>7. QED
  BY <1>1, <1>2, <1>3, <1>4, <1>5, <1>6 DEF Step

(***************************************************************************)
(* Every behaviour of the cache is one of the memo: hosts get one          *)
(* certificate each, with serials of their own, and calls get their host's.*)
(***************************************************************************)
THEOREM MemoRefined == Spec => MemoImplemented
<1>1. Init => Memo!Init
  BY DEF Init, Memo!Init
<1>2. IInv /\ [Next]_vars => [Memo!Next]_<<cache, Seen>>
  BY StepRefines DEF Next, Quiet, vars, Seen
<1>3. QED
  BY <1>1, <1>2, Invariance, PTL DEF Spec, MemoImplemented, Memo!Spec, Seen
=============================================================================
