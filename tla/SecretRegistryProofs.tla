------------------------- MODULE SecretRegistryProofs -------------------------
(***************************************************************************)
(* Theorems about the secret registry, for any references, secrets and     *)
(* number of requests, and about redaction, for any letters, secrets and   *)
(* strings.                                                                *)
(***************************************************************************)
EXTENDS SecretRegistry, Redaction, RecursionProofs, FiniteSetTheorems, TLAPS

\* What PreloadSecrets has done so far; nobody asks for a secret before.
Preloading ==
    /\ phase # "serving" => \A c \in Request : pc[c] = "idle"
    /\ ~loadFailed => \A r \in Preloaded \ toLoad : cache[r] # Nothing
    /\ \A r \in toLoad : cache[r] = Nothing
    /\ phase = "serving" => toLoad = {} /\ ~loadFailed

\* No request for a preloaded secret ever misses.
NeverMissed ==
    \A c \in Request : ref[c] \in Preloaded => ~Missing(c)

\* As long as a source has not changed during a fetch, everybody who is
\* fetching from it will find what the cache has.
Agreed ==
    \A c \in Request : ref[c] \notin changed =>
        /\ pc[c] = "fetched" => secret[c] = source[ref[c]]
        /\ Missing(c) => cache[ref[c]] \in {Nothing, source[ref[c]]}
        /\ Holding(c) => secret[c] = cache[ref[c]]

IInv == TypeOK /\ Preloading /\ NeverMissed /\ PreloadedSteady /\ Agreed /\ RecordedClean

(***************************************************************************)
(* The daemon starts with an empty cache and no requests.                  *)
(***************************************************************************)
LEMMA InitIInv == Init => IInv
  BY SecretAssumption
  DEF Init, IInv, TypeOK, Preloading, NeverMissed, PreloadedSteady, Agreed, RecordedClean,
      Missing, Holding

(***************************************************************************)
(* Every step of startup, of Fetch, of the recorder and of the owner of a  *)
(* secret keeps the invariant.                                             *)
(***************************************************************************)
LEMMA NextIInv == IInv /\ [Next]_vars => IInv'
<1> SUFFICES ASSUME IInv, [Next]_vars PROVE IInv'
  OBVIOUS
<1> USE SecretAssumption
        DEF IInv, TypeOK, Preloading, NeverMissed, PreloadedSteady, Agreed, RecordedClean,
            Missing, Holding, Goto, startup, external
<1>1. ASSUME NEW r \in Ref, Preload(r) PROVE IInv'
  BY <1>1 DEF Preload
<1>2. CASE Preloads
  BY <1>2 DEF Preloads
<1>3. ASSUME NEW c \in Request, Arrive(c) PROVE IInv'
  BY <1>3 DEF Arrive
<1>4. ASSUME NEW c \in Request, Hit(c) PROVE IInv'
  BY <1>4 DEF Hit
<1>5. ASSUME NEW c \in Request, Miss(c) PROVE IInv'
  BY <1>5 DEF Miss
<1>6. ASSUME NEW c \in Request, Provide(c) PROVE IInv'
  BY <1>6 DEF Provide
<1>7. ASSUME NEW c \in Request, ProvideFails(c) PROVE IInv'
  BY <1>7 DEF ProvideFails
<1>8. ASSUME NEW c \in Request, Store(c) PROVE IInv'
  BY <1>8 DEF Store
<1>9. ASSUME NEW c \in Request, Record(c) PROVE IInv'
  BY <1>9 DEF Record, ResolvedValues
<1>10. ASSUME NEW r \in Ref, NEW value \in Value \cup {Nothing}, Rotate(r, value) PROVE IInv'
  BY <1>10 DEF Rotate
<1>11. CASE UNCHANGED vars
  BY <1>11 DEF vars
<1>12. QED
  BY <1>1, <1>2, <1>3, <1>4, <1>5, <1>6, <1>7, <1>8, <1>9, <1>10, <1>11 DEF Next, Step

\* The inductive invariant, in every state.
LEMMA Invariant == Spec => []IInv
  BY InitIInv, NextIInv, PTL DEF Spec

(***************************************************************************)
(* The types, and: a daemon that serves has the secrets of its configured  *)
(* services and gives every request the same ones, whatever their owners   *)
(* do.                                                                     *)
(***************************************************************************)
THEOREM SteadySecrets == Spec => []SecretInv
<1>1. IInv => SecretInv
  BY DEF IInv, SecretInv
<1>2. QED
  BY <1>1, Invariant, PTL

(***************************************************************************)
(* A secret that was injected is scrubbed from what is recorded later,     *)
(* unless its owner changed it while it was first fetched.                 *)
(***************************************************************************)
THEOREM CleanRecords == Spec => []RecordedClean
<1>1. IInv => RecordedClean
  BY DEF IInv
<1>2. QED
  BY <1>1, Invariant, PTL

(***************************************************************************)
(* The cache never gives a secret up.  It changes one only when two first  *)
(* fetches met a rotation.                                                 *)
(***************************************************************************)
THEOREM SecretsKept == Spec => SecretsStay
<1>1. IInv /\ [Next]_vars => [\A r \in Ref : Stays(r)]_vars
  <2> SUFFICES ASSUME IInv, [Next]_vars PROVE [\A r \in Ref : Stays(r)]_vars
    OBVIOUS
  <2> USE SecretAssumption DEF Stays, IInv, TypeOK, Preloading, Agreed, Missing, startup, external
  <2>1. ASSUME NEW r \in Ref, Preload(r) PROVE \A s \in Ref : Stays(s)
    BY <2>1 DEF Preload
  <2>2. ASSUME NEW c \in Request, Store(c) PROVE \A s \in Ref : Stays(s)
    BY <2>2 DEF Store
  <2>3. ASSUME cache' = cache PROVE \A s \in Ref : Stays(s)
    BY <2>3
  <2>4. ASSUME NEW c \in Request,
               Arrive(c) \/ Hit(c) \/ Miss(c) \/ Provide(c) \/ ProvideFails(c) \/ Record(c)
        PROVE cache' = cache
    BY <2>4 DEF Arrive, Hit, Miss, Provide, ProvideFails, Record
  <2>5. ASSUME NEW r \in Ref, NEW value \in Value \cup {Nothing}, Rotate(r, value)
        PROVE cache' = cache
    BY <2>5 DEF Rotate
  <2>6. CASE Preloads
    BY <2>6, <2>3 DEF Preloads
  <2>7. QED
    BY <2>1, <2>2, <2>3, <2>4, <2>5, <2>6 DEF Next, Step
<1>2. QED
  BY <1>1, Invariant, PTL DEF Spec, SecretsStay

-----------------------------------------------------------------------------
(***************************************************************************)
(* Redaction.  A string that is being scrubbed is made of letters and      *)
(* placeholders.                                                           *)
(***************************************************************************)
Mark == Letter \cup {Redacted}

(***************************************************************************)
(* An occurrence, letter by letter.                                        *)
(***************************************************************************)
At(w, t, i) ==
    /\ i + Len(w) - 1 <= Len(t)
    /\ \A k \in 1 .. Len(w), j \in 1 .. Len(t) : j = i + k - 1 => t[j] = w[k]

\* Occurs compares the secret with the places it covers.
LEMMA OccursMeans ==
    ASSUME NEW w \in Seq(Mark), w # <<>>, NEW t \in Seq(Mark), NEW i \in Nat \ {0}
    PROVE  Occurs(w, t, i) <=> At(w, t, i)
<1>1. Len(w) \in Nat /\ Len(w) >= 1 /\ Len(t) \in Nat
  OBVIOUS
<1>2. SUFFICES ASSUME i + Len(w) - 1 <= Len(t)
               PROVE  SubSeq(t, i, i + Len(w) - 1) = w <=>
                        \A k \in 1 .. Len(w), j \in 1 .. Len(t) : j = i + k - 1 => t[j] = w[k]
  BY DEF Occurs, At
<1>. DEFINE part == SubSeq(t, i, i + Len(w) - 1)
<1>3. /\ part \in Seq(Mark) /\ Len(part) = Len(w)
      /\ \A k \in 1 .. Len(w) : part[k] = t[i + k - 1]
  BY <1>1, <1>2
<1>. HIDE DEF part
<1>4. ASSUME part = w, NEW k \in 1 .. Len(w), NEW j \in 1 .. Len(t), j = i + k - 1 PROVE t[j] = w[k]
  BY <1>3, <1>4
<1>5. ASSUME \A k \in 1 .. Len(w), j \in 1 .. Len(t) : j = i + k - 1 => t[j] = w[k] PROVE part = w
  <2>1. ASSUME NEW k \in 1 .. Len(w) PROVE part[k] = w[k]
    <3>1. PICK j : j = i + k - 1
      OBVIOUS
    <3>2. j \in 1 .. Len(t)
      BY <1>1, <1>2, <3>1
    <3>3. QED
      BY <1>3, <1>5, <3>1, <3>2
  <2>2. QED
    BY <1>3, <2>1
<1>6. QED
  BY <1>4, <1>5 DEF part

-----------------------------------------------------------------------------
(***************************************************************************)
(* The recursion behind ReplaceEvery.                                      *)
(***************************************************************************)
Replaces(t, w, from) ==
    \A i \in 1 .. Len(t) + Len(w) :
       from[i] = IF i > Len(t) THEN <<>>
                 ELSE IF Occurs(w, t, i) THEN <<Redacted>> \o from[i + Len(w)]
                 ELSE <<t[i]>> \o from[i + 1]

ReplaceFrom(t, w, from) ==
    from = [i \in 1 .. Len(t) + Len(w) |->
              IF i > Len(t) THEN <<>>
              ELSE IF Occurs(w, t, i) THEN <<Redacted>> \o from[i + Len(w)]
              ELSE <<t[i]>> \o from[i + 1]]

\* There is a function that satisfies the recursion.
LEMMA ReplaceExists ==
    ASSUME NEW w \in Seq(Letter), w # <<>>, NEW t \in Seq(Mark)
    PROVE  \E from \in [1 .. Len(t) + Len(w) -> Seq(Mark)] : Replaces(t, w, from)
<1>. DEFINE n == Len(t) + Len(w)
            D == Seq(Mark)
            Stop == {i \in 1 .. n : i > Len(t)}
            last == [i \in 1 .. n |-> <<>>]
            next == [i \in 1 .. n |-> IF i \in Stop THEN i
                                      ELSE IF Occurs(w, t, i) THEN i + Len(w) ELSE i + 1]
            head(i) == IF Occurs(w, t, i) THEN <<Redacted>> ELSE <<t[i]>>
            step == [i \in 1 .. n |-> [rest \in D |-> IF i \in Stop THEN <<>> ELSE head(i) \o rest]]
<1>1. /\ Len(w) \in Nat /\ Len(w) >= 1 /\ Len(t) \in Nat /\ n \in Nat /\ n >= Len(t) + 1
      /\ n = Len(t) + Len(w) /\ Stop \in SUBSET (1 .. n) /\ <<>> \in D
  OBVIOUS
<1>2. last \in [1 .. n -> D]
  OBVIOUS
<1>3. ASSUME NEW i \in 1 .. n, i \notin Stop
      PROVE  i <= Len(t) /\ next[i] \in 1 .. n /\ next[i] > i /\ head(i) \in D
  <2>1. i <= Len(t)
    BY <1>1, <1>3
  <2>2. t[i] \in Mark /\ Redacted \in Mark
    BY <2>1 DEF Mark
  <2>3. head(i) \in D
    BY <2>2
  <2>. HIDE DEF n, Stop
  <2>4. next[i] = IF Occurs(w, t, i) THEN i + Len(w) ELSE i + 1
    BY <1>3
  <2>5. next[i] \in 1 .. n /\ next[i] > i
    BY <1>1, <2>1, <2>4
  <2>6. QED
    BY <2>1, <2>3, <2>5
<1>4. next \in [1 .. n -> 1 .. n] /\ \A i \in (1 .. n) \ Stop : next[i] > i
  <2>1. ASSUME NEW i \in 1 .. n PROVE next[i] \in 1 .. n
    <3>1. CASE i \in Stop
      BY <3>1
    <3>2. CASE i \notin Stop
      BY <1>3, <3>2
    <3>3. QED
      BY <3>1, <3>2
  <2>. HIDE DEF n, Stop
  <2>2. next = [i \in 1 .. n |-> next[i]]
    OBVIOUS
  <2>. HIDE DEF next
  <2>3. QED
    BY <1>3, <2>1, <2>2
<1>5. step \in [1 .. n -> [D -> D]]
  <2>1. ASSUME NEW i \in 1 .. n, NEW rest \in D
        PROVE  (IF i \in Stop THEN <<>> ELSE head(i) \o rest) \in D
    <3>. HIDE DEF n, Stop, head
    <3>1. CASE i \in Stop
      BY <3>1
    <3>2. CASE i \notin Stop
      BY <1>3, <3>2
    <3>3. QED
      BY <3>1, <3>2
  <2>. HIDE DEF n, Stop, D, head
  <2>2. QED
    BY <2>1
<1>6. PICK from \in [1 .. n -> D] : ScansOn(from, n, Stop, last, next, step)
  <2>. HIDE DEF D, Stop, n, last, next, step
  <2>1. QED
    BY <1>1, <1>2, <1>4, <1>5, ScanExists
<1>7. ASSUME NEW i \in 1 .. n
      PROVE  from[i] = IF i > Len(t) THEN <<>>
                       ELSE IF Occurs(w, t, i) THEN <<Redacted>> \o from[i + Len(w)]
                       ELSE <<t[i]>> \o from[i + 1]
  <2>1. from[i] = IF i \in Stop THEN last[i] ELSE step[i][from[next[i]]]
    <3>. HIDE DEF Stop, n, last, next, step
    <3>1. QED
      BY <1>6 DEF ScansOn
  <2>2. CASE i \in Stop
    BY <2>1, <2>2
  <2>3. CASE i \notin Stop
    <3>1. next[i] \in 1 .. n /\ i <= Len(t)
      BY <1>3, <2>3
    <3>2. from[next[i]] \in D
      BY <3>1
    <3>3. step[i][from[next[i]]] = head(i) \o from[next[i]]
      <4>. HIDE DEF n, Stop, next, head, D
      <4>1. QED
        BY <2>3, <3>2
    <3>4. next[i] = IF Occurs(w, t, i) THEN i + Len(w) ELSE i + 1
      BY <2>3
    <3>. HIDE DEF n, Stop, next, step, D, last
    <3>5. QED
      BY <1>1, <2>1, <2>3, <3>1, <3>3, <3>4
  <2>4. QED
    BY <2>2, <2>3
<1>8. QED
  BY <1>7 DEF Replaces

\* ReplaceEvery is what the recursion gives at the first place.
LEMMA ReplaceRuns ==
    ASSUME NEW w \in Seq(Letter), w # <<>>, NEW t \in Seq(Mark)
    PROVE  \E from : Replaces(t, w, from) /\ ReplaceEvery(t, w) = from[1]
<1>1. PICK old \in [1 .. Len(t) + Len(w) -> Seq(Mark)] : Replaces(t, w, old)
  BY ReplaceExists
<1>2. ReplaceFrom(t, w, old)
  BY <1>1 DEF Replaces, ReplaceFrom
<1>3. ReplaceEvery(t, w) = (CHOOSE it : ReplaceFrom(t, w, it))[1]
  BY Zenon DEF ReplaceEvery, ReplaceFrom
<1>4. PICK from : ReplaceFrom(t, w, from) /\ ReplaceEvery(t, w) = from[1]
  BY <1>2, <1>3, Zenon
<1>5. Replaces(t, w, from)
  BY <1>4 DEF Replaces, ReplaceFrom
<1>6. QED
  BY <1>4, <1>5

-----------------------------------------------------------------------------
(***************************************************************************)
(* Where each letter of what ReplaceEvery returns came from: src[k] is the *)
(* place in the text that the k-th of them stands for.                     *)
(***************************************************************************)
TakenStep(t, w, c, p, q) ==
    \/ Occurs(w, t, p) /\ c = Redacted /\ q = p + Len(w)
    \/ ~Occurs(w, t, p) /\ c = t[p] /\ q = p + 1

Traces(t, w, i, out, src) ==
    /\ out \in Seq(Mark)
    /\ src \in [1 .. Len(out) + 1 -> i .. Len(t) + 1]
    /\ src[1] = i /\ src[Len(out) + 1] = Len(t) + 1
    /\ \A k \in 1 .. Len(out), m \in 1 .. Len(out) + 1 :
          m = k + 1 => TakenStep(t, w, out[k], src[k], src[m])

\* One more in front.
LEMMA TracedOn ==
    ASSUME NEW t \in Seq(Mark), NEW w, NEW p \in 1 .. Len(t), NEW q, q > p,
           NEW out, NEW src, Traces(t, w, q, out, src),
           NEW c \in Mark, TakenStep(t, w, c, p, q)
    PROVE  \E new : Traces(t, w, p, <<c>> \o out, new)
<1>. DEFINE all == <<c>> \o out
            new == [k \in 1 .. Len(all) + 1 |-> IF k = 1 THEN p ELSE src[k - 1]]
<1>1. /\ out \in Seq(Mark) /\ Len(out) \in Nat /\ Len(t) \in Nat
      /\ src \in [1 .. Len(out) + 1 -> q .. Len(t) + 1] /\ src[1] = q
      /\ src[Len(out) + 1] = Len(t) + 1 /\ q \in 1 .. Len(t) + 1
  BY DEF Traces
<1>2. /\ all \in Seq(Mark) /\ Len(all) = Len(out) + 1 /\ all[1] = c
      /\ \A k \in 1 .. Len(out) : all[k + 1] = out[k]
  BY <1>1
<1>. HIDE DEF all
<1>3. /\ new[1] = p
      /\ \A k \in 2 .. Len(all) + 1 : new[k] = src[k - 1]
  BY <1>1, <1>2
<1>4. new \in [1 .. Len(all) + 1 -> p .. Len(t) + 1]
  <2>1. ASSUME NEW k \in 1 .. Len(all) + 1
        PROVE  (IF k = 1 THEN p ELSE src[k - 1]) \in p .. Len(t) + 1
    <3>1. CASE k = 1
      BY <1>1, <3>1
    <3>2. CASE k # 1
      <4>1. k - 1 \in 1 .. Len(out) + 1
        BY <1>1, <1>2, <3>2
      <4>2. src[k - 1] \in q .. Len(t) + 1
        BY <1>1, <4>1
      <4>3. QED
        BY <1>1, <3>2, <4>2
    <3>3. QED
      BY <3>1, <3>2
  <2>2. QED
    BY <2>1
<1>. HIDE DEF new
<1>5. new[Len(all) + 1] = Len(t) + 1
  <2>1. Len(all) + 1 \in 2 .. Len(all) + 1 /\ (Len(all) + 1) - 1 = Len(out) + 1
    BY <1>1, <1>2
  <2>2. QED
    BY <1>1, <1>3, <2>1
<1>6. ASSUME NEW k \in 1 .. Len(all), NEW m \in 1 .. Len(all) + 1, m = k + 1
      PROVE  TakenStep(t, w, all[k], new[k], new[m])
  <2>1. new[m] = src[k]
    <3>1. m \in 2 .. Len(all) + 1 /\ m - 1 = k
      BY <1>1, <1>2, <1>6
    <3>2. QED
      BY <1>3, <3>1
  <2>2. CASE k = 1
    <3>1. all[k] = c /\ new[k] = p /\ src[k] = q
      BY <1>1, <1>2, <1>3, <2>2
    <3>2. QED
      BY <2>1, <3>1
  <2>3. CASE k # 1
    <3>1. PICK j : j = k - 1
      OBVIOUS
    <3>2. j \in 1 .. Len(out) /\ k = j + 1 /\ k \in 2 .. Len(all) + 1 /\ k \in 1 .. Len(out) + 1
      BY <1>1, <1>2, <2>3, <3>1
    <3>3. all[k] = out[j] /\ new[k] = src[j]
      BY <1>2, <1>3, <3>1, <3>2
    <3>4. TakenStep(t, w, out[j], src[j], src[k])
      BY <3>2 DEF Traces
    <3>5. QED
      BY <2>1, <3>3, <3>4
  <2>4. QED
    BY <2>2, <2>3
<1>7. Traces(t, w, p, all, new)
  BY <1>1, <1>2, <1>3, <1>4, <1>5, <1>6 DEF Traces
<1>8. QED
  BY <1>7 DEF all

\* Of all that is returned, from the first place on.
LEMMA Traced ==
    ASSUME NEW w \in Seq(Letter), w # <<>>, NEW t \in Seq(Mark)
    PROVE  \E src : Traces(t, w, 1, ReplaceEvery(t, w), src)
<1>1. PICK from : Replaces(t, w, from) /\ ReplaceEvery(t, w) = from[1]
  BY ReplaceRuns
<1>2. PICK n : n = Len(t) + 1
  OBVIOUS
<1>3. /\ Len(w) \in Nat /\ Len(w) >= 1 /\ Len(t) \in Nat /\ n \in Nat /\ n = Len(t) + 1
      /\ w \in Seq(Mark)
  BY <1>2 DEF Mark
<1>. DEFINE T == {i \in 1 .. n : \E src : Traces(t, w, i, from[i], src)}
<1>4. ASSUME NEW i \in 1 .. n, \A j \in i + 1 .. n : j \in T PROVE i \in T
  <2>1. i \in 1 .. Len(t) + Len(w)
    BY <1>3
  <2>2. from[i] = IF i > Len(t) THEN <<>>
                  ELSE IF Occurs(w, t, i) THEN <<Redacted>> \o from[i + Len(w)]
                  ELSE <<t[i]>> \o from[i + 1]
    BY <1>1, <2>1 DEF Replaces
  <2>3. CASE i > Len(t)
    <3>1. i = Len(t) + 1 /\ from[i] = <<>>
      BY <1>3, <2>2, <2>3
    <3>. DEFINE src == [k \in 1 .. 1 |-> i]
    <3>2. src \in [1 .. 1 -> i .. Len(t) + 1] /\ src[1] = i
      BY <1>3, <3>1
    <3>. HIDE DEF src
    <3>3. Traces(t, w, i, <<>>, src)
      BY <3>1, <3>2 DEF Traces
    <3>4. QED
      BY <3>1, <3>3
  <2>4. CASE i <= Len(t) /\ Occurs(w, t, i)
    <3>1. PICK q : q = i + Len(w)
      OBVIOUS
    <3>2. q \in i + 1 .. n /\ q > i
      BY <1>3, <2>4, <3>1 DEF Occurs
    <3>3. PICK src : Traces(t, w, q, from[q], src)
      BY <1>4, <3>2
    <3>4. TakenStep(t, w, Redacted, i, q) /\ Redacted \in Mark /\ i \in 1 .. Len(t)
      BY <1>3, <2>4, <3>1 DEF TakenStep, Mark
    <3>5. PICK new : Traces(t, w, i, <<Redacted>> \o from[q], new)
      BY <3>2, <3>3, <3>4, TracedOn
    <3>6. from[i] = <<Redacted>> \o from[q]
      BY <1>3, <2>2, <2>4, <3>1
    <3>7. QED
      BY <3>5, <3>6
  <2>5. CASE i <= Len(t) /\ ~Occurs(w, t, i)
    <3>1. PICK q : q = i + 1
      OBVIOUS
    <3>2. q \in i + 1 .. n /\ q > i
      BY <1>3, <2>5, <3>1
    <3>3. PICK src : Traces(t, w, q, from[q], src)
      BY <1>4, <3>2
    <3>4. i \in 1 .. Len(t) /\ t[i] \in Mark
      BY <1>3, <2>5
    <3>5. PICK c : c = t[i]
      OBVIOUS
    <3>6. TakenStep(t, w, c, i, q) /\ c \in Mark
      BY <2>5, <3>1, <3>4, <3>5 DEF TakenStep
    <3>7. PICK new : Traces(t, w, i, <<c>> \o from[q], new)
      BY <3>2, <3>3, <3>4, <3>6, TracedOn
    <3>8. from[i] = <<c>> \o from[q]
      BY <1>3, <2>2, <2>5, <3>1, <3>5
    <3>9. QED
      BY <3>7, <3>8
  <2>6. QED
    BY <1>3, <2>3, <2>4, <2>5
<1>5. 1 \in T
  <2>. HIDE DEF T
  <2>1. 1 .. n \subseteq T
    BY <1>3, <1>4, Downward
  <2>2. QED
    BY <1>3, <2>1
<1>6. QED
  BY <1>1, <1>5

-----------------------------------------------------------------------------
(***************************************************************************)
(* Places that are taken one after the other.                              *)
(***************************************************************************)
Evenly(src, p, e) == \A a \in p .. e, b \in p .. e : b = a + 1 => src[b] = src[a] + 1

\* Then the last is as far from the first as there are places between.
LEMMA Stretch ==
    ASSUME NEW src, NEW p \in Nat, NEW e \in Nat, p <= e, src[p] \in Nat, Evenly(src, p, e)
    PROVE  \A a \in p .. e : src[a] = src[p] + (a - p)
<1>. DEFINE T == {k \in 0 .. e - p : src[p + k] = src[p] + k}
<1>1. e - p \in Nat /\ 0 \in T
  OBVIOUS
<1>2. ASSUME NEW k \in 0 .. (e - p) - 1, k \in T PROVE k + 1 \in T
  <2>1. PICK a, b : a = p + k /\ b = a + 1
    OBVIOUS
  <2>2. a \in p .. e /\ b \in p .. e /\ b = a + 1 /\ p + (k + 1) = b /\ k + 1 \in 0 .. e - p
    BY <2>1
  <2>3. src[b] = src[a] + 1
    BY <2>2 DEF Evenly
  <2>4. src[a] = src[p] + k
    BY <1>2, <2>1
  <2>5. src[b] = src[p] + (k + 1)
    BY <2>3, <2>4
  <2>6. QED
    BY <2>2, <2>5
<1>3. 0 .. e - p \subseteq T
  <2>. HIDE DEF T
  <2>1. PICK n : n = e - p
    OBVIOUS
  <2>2. n \in Nat /\ \A k \in 0 .. n - 1 : k \in T => k + 1 \in T
    BY <1>1, <1>2, <2>1
  <2>3. 0 .. n \subseteq T
    BY <1>1, <2>2, Upward
  <2>4. QED
    BY <2>1, <2>3
<1>4. ASSUME NEW a \in p .. e PROVE src[a] = src[p] + (a - p)
  <2>1. PICK k : k = a - p
    OBVIOUS
  <2>2. k \in 0 .. e - p /\ p + k = a
    BY <2>1
  <2>3. src[p + k] = src[p] + k
    BY <1>3, <2>2
  <2>4. QED
    BY <2>1, <2>2, <2>3
<1>5. QED
  BY <1>4

(***************************************************************************)
(* A secret that is still held was held before, and is not the one that    *)
(* was replaced: no replacement makes one.                                 *)
(***************************************************************************)
LEMMA HeldBefore ==
    ASSUME NEW w \in Seq(Letter), w # <<>>, NEW v \in Seq(Letter), v # <<>>,
           NEW t \in Seq(Mark), Holds(ReplaceEvery(t, w), v)
    PROVE  Holds(t, v) /\ v # w
<1>1. PICK out, src : out = ReplaceEvery(t, w) /\ Traces(t, w, 1, out, src)
  BY Traced
<1>2. /\ out \in Seq(Mark) /\ Len(out) \in Nat /\ Len(t) \in Nat /\ Len(v) \in Nat /\ Len(v) >= 1
      /\ v \in Seq(Mark) /\ src \in [1 .. Len(out) + 1 -> 1 .. Len(t) + 1]
  BY <1>1 DEF Traces, Mark
<1>3. PICK j \in 1 .. Len(out) : Occurs(v, out, j)
  BY <1>1, <1>2 DEF Holds
<1>4. At(v, out, j)
  BY <1>2, <1>3, OccursMeans
<1>5. PICK e : e = j + Len(v)
  OBVIOUS
<1>6. j \in Nat /\ e \in Nat /\ j < e /\ e <= Len(out) + 1
  BY <1>2, <1>4, <1>5 DEF At
<1>7. ASSUME NEW a \in j .. e - 1
      PROVE  out[a] \in Letter /\ out[a] # Redacted
  <2>1. PICK k : k = a - j + 1
    OBVIOUS
  <2>2. k \in 1 .. Len(v) /\ a \in 1 .. Len(out) /\ a = j + k - 1
    BY <1>2, <1>5, <1>6, <2>1
  <2>3. out[a] = v[k] /\ v[k] \in Letter
    BY <1>4, <2>2 DEF At
  <2>4. QED
    BY <2>3, RedactionAssumption
<1>8. ASSUME NEW a \in j .. e - 1, NEW b, b = a + 1
      PROVE  ~Occurs(w, t, src[a]) /\ out[a] = t[src[a]] /\ src[b] = src[a] + 1
  <2>1. a \in 1 .. Len(out) /\ b \in 1 .. Len(out) + 1
    BY <1>2, <1>6, <1>8
  <2>2. TakenStep(t, w, out[a], src[a], src[b])
    BY <1>1, <1>8, <2>1 DEF Traces
  <2>3. QED
    BY <1>7, <2>2 DEF TakenStep
<1>9. src[j] \in Nat \ {0} /\ src[e] <= Len(t) + 1 /\ src[e] \in Nat
  <2>1. j \in 1 .. Len(out) + 1 /\ e \in 1 .. Len(out) + 1
    BY <1>2, <1>6
  <2>2. src[j] \in 1 .. Len(t) + 1 /\ src[e] \in 1 .. Len(t) + 1
    BY <1>2, <2>1
  <2>3. QED
    BY <1>2, <2>2
<1>10. \A a \in j .. e : src[a] = src[j] + (a - j)
  <2>1. ASSUME NEW a \in j .. e, NEW b \in j .. e, b = a + 1 PROVE src[b] = src[a] + 1
    <3>1. a \in j .. e - 1
      BY <1>6, <2>1
    <3>2. QED
      BY <1>8, <2>1, <3>1
  <2>2. Evenly(src, j, e)
    BY <2>1 DEF Evenly
  <2>3. QED
    BY <1>6, <1>9, <2>2, Stretch
<1>11. src[e] = src[j] + Len(v)
  <2>1. e \in j .. e /\ e - j = Len(v)
    BY <1>2, <1>5, <1>6
  <2>2. QED
    BY <1>10, <2>1
<1>12. At(v, t, src[j])
  <2>1. src[j] + Len(v) - 1 <= Len(t)
    BY <1>2, <1>9, <1>11
  <2>2. ASSUME NEW k \in 1 .. Len(v), NEW y \in 1 .. Len(t), y = src[j] + k - 1 PROVE t[y] = v[k]
    <3>1. PICK a : a = j + k - 1
      OBVIOUS
    <3>2. a \in j .. e - 1 /\ a \in j .. e /\ a \in 1 .. Len(out) /\ a - j = k - 1
      BY <1>2, <1>5, <1>6, <3>1
    <3>3. src[a] = src[j] + (a - j)
      BY <1>10, <3>2
    <3>4. src[a] = y
      BY <1>9, <2>2, <3>2, <3>3
    <3>5. out[a] = t[y]
      BY <1>8, <3>2, <3>4
    <3>6. out[a] = v[k]
      BY <1>4, <3>1, <3>2 DEF At
    <3>7. QED
      BY <3>5, <3>6
  <2>3. QED
    BY <2>1, <2>2 DEF At
<1>13. Occurs(v, t, src[j]) /\ src[j] \in 1 .. Len(t)
  <2>1. Occurs(v, t, src[j])
    BY <1>2, <1>9, <1>12, OccursMeans
  <2>2. QED
    BY <1>2, <1>9, <1>11, <2>1
<1>14. ~Occurs(w, t, src[j])
  BY <1>6, <1>8
<1>15. QED
  BY <1>2, <1>13, <1>14 DEF Holds

\* What does not hold a secret stays as it is.
LEMMA Untouched ==
    ASSUME NEW w \in Seq(Letter), w # <<>>, NEW t \in Seq(Mark), ~Holds(t, w)
    PROVE  ReplaceEvery(t, w) = t
<1>1. PICK out, src : out = ReplaceEvery(t, w) /\ Traces(t, w, 1, out, src)
  BY Traced
<1>2. /\ out \in Seq(Mark) /\ Len(out) \in Nat /\ Len(t) \in Nat /\ Len(w) \in Nat /\ Len(w) >= 1
      /\ src \in [1 .. Len(out) + 1 -> 1 .. Len(t) + 1]
      /\ src[1] = 1 /\ src[Len(out) + 1] = Len(t) + 1
  BY <1>1 DEF Traces
<1>3. ASSUME NEW a \in 1 .. Len(out), NEW b, b = a + 1
      PROVE  out[a] = t[src[a]] /\ src[b] = src[a] + 1
  <2>1. b \in 1 .. Len(out) + 1 /\ a \in 1 .. Len(out) + 1
    BY <1>2, <1>3
  <2>2. TakenStep(t, w, out[a], src[a], src[b]) /\ src[a] \in 1 .. Len(t) + 1
    BY <1>1, <1>2, <1>3, <2>1 DEF Traces
  <2>3. ~Occurs(w, t, src[a])
    <3>1. SUFFICES ASSUME Occurs(w, t, src[a]) PROVE FALSE
      OBVIOUS
    <3>2. src[a] \in 1 .. Len(t)
      BY <1>2, <2>2, <3>1 DEF Occurs
    <3>3. QED
      BY <3>1, <3>2 DEF Holds
  <2>4. QED
    BY <2>2, <2>3 DEF TakenStep
<1>4. \A a \in 1 .. Len(out) + 1 : src[a] = 1 + (a - 1)
  <2>1. PICK e : e = Len(out) + 1
    OBVIOUS
  <2>2. e \in Nat /\ 1 <= e /\ 1 \in Nat /\ src[1] \in Nat
    BY <1>2, <2>1
  <2>3. ASSUME NEW a \in 1 .. e, NEW b \in 1 .. e, b = a + 1 PROVE src[b] = src[a] + 1
    <3>1. a \in 1 .. Len(out)
      BY <1>2, <2>1, <2>3
    <3>2. QED
      BY <1>3, <2>3, <3>1
  <2>4. Evenly(src, 1, e)
    BY <2>3 DEF Evenly
  <2>5. \A a \in 1 .. e : src[a] = src[1] + (a - 1)
    BY <2>2, <2>4, Stretch
  <2>6. QED
    BY <1>2, <2>1, <2>5
<1>5. Len(out) = Len(t)
  <2>1. Len(out) + 1 \in 1 .. Len(out) + 1
    BY <1>2
  <2>2. src[Len(out) + 1] = 1 + ((Len(out) + 1) - 1)
    BY <1>4, <2>1
  <2>3. QED
    BY <1>2, <2>2
<1>6. ASSUME NEW a \in 1 .. Len(out) PROVE out[a] = t[a]
  <2>1. a \in 1 .. Len(out) + 1
    BY <1>2
  <2>2. src[a] = a
    BY <1>4, <2>1
  <2>3. QED
    BY <1>3, <2>2
<1>7. QED
  BY <1>1, <1>2, <1>5, <1>6

\* A secret alone is replaced whole.
LEMMA Whole ==
    ASSUME NEW v \in Seq(Letter), v # <<>>
    PROVE  ReplaceEvery(v, v) = <<Redacted>>
<1>1. v \in Seq(Mark) /\ Len(v) \in Nat /\ Len(v) >= 1
  BY DEF Mark
<1>2. PICK from : Replaces(v, v, from) /\ ReplaceEvery(v, v) = from[1]
  BY <1>1, ReplaceRuns
<1>3. Occurs(v, v, 1)
  <2>1. At(v, v, 1)
    BY <1>1 DEF At
  <2>2. QED
    BY <1>1, <2>1, OccursMeans
<1>4. PICK e : e = 1 + Len(v)
  OBVIOUS
<1>5. e \in 1 .. Len(v) + Len(v) /\ e > Len(v) /\ 1 \in 1 .. Len(v) + Len(v) /\ ~(1 > Len(v))
  BY <1>1, <1>4
<1>6. from[e] = <<>>
  BY <1>2, <1>5 DEF Replaces
<1>7. from[1] = <<Redacted>> \o from[e]
  BY <1>2, <1>3, <1>4, <1>5 DEF Replaces
<1>8. QED
  BY <1>2, <1>6, <1>7

-----------------------------------------------------------------------------
(***************************************************************************)
(* A letter that no secret has divides the work.                           *)
(***************************************************************************)
LEMMA Associates ==
    ASSUME NEW a \in Seq(Mark), NEW b \in Seq(Mark), NEW c \in Seq(Mark)
    PROVE  (a \o b) \o c = a \o (b \o c)
OBVIOUS

Divided(s, a, c, b) ==
    /\ s \in Seq(Mark) /\ a \in Seq(Mark) /\ b \in Seq(Mark)
    /\ Len(s) \in Nat /\ Len(a) \in Nat /\ Len(b) \in Nat
    /\ Len(s) = Len(a) + 1 + Len(b)
    /\ \A k \in 1 .. Len(a) : s[k] = a[k]
    /\ s[Len(a) + 1] = c
    /\ \A k \in 1 .. Len(b), m \in 1 .. Len(s) : m = Len(a) + 1 + k => s[m] = b[k]

\* A string that was put together around c is divided by it.
LEMMA Divides ==
    ASSUME NEW a \in Seq(Mark), NEW c \in Mark, NEW b \in Seq(Mark)
    PROVE  Divided(a \o <<c>> \o b, a, c, b)
<1>. DEFINE s == a \o <<c>> \o b
<1>1. Len(s) = Len(a) + 1 + Len(b) /\ s \in Seq(Mark) /\ Len(s) \in Nat
  OBVIOUS
<1>2. \A k \in 1 .. Len(a) : s[k] = a[k]
  OBVIOUS
<1>3. s[Len(a) + 1] = c
  OBVIOUS
<1>4. ASSUME NEW k \in 1 .. Len(b), NEW m \in 1 .. Len(s), m = Len(a) + 1 + k PROVE s[m] = b[k]
  BY <1>4
<1>5. QED
  BY <1>1, <1>2, <1>3, <1>4 DEF Divided

\* What occurs behind c occurs in the whole, as much further on.
LEMMA OccursLater ==
    ASSUME NEW w \in Seq(Mark), w # <<>>, NEW s, NEW a, NEW c, NEW b, Divided(s, a, c, b),
           NEW k \in 1 .. Len(b), NEW m, m = Len(a) + 1 + k
    PROVE  Occurs(w, s, m) <=> Occurs(w, b, k)
<1>1. Len(w) \in Nat /\ Len(w) >= 1
  OBVIOUS
<1>2. /\ s \in Seq(Mark) /\ b \in Seq(Mark) /\ Len(s) \in Nat /\ Len(a) \in Nat /\ Len(b) \in Nat
      /\ Len(s) = Len(a) + 1 + Len(b)
      /\ \A x \in 1 .. Len(b), y \in 1 .. Len(s) : y = Len(a) + 1 + x => s[y] = b[x]
  BY DEF Divided
<1>3. m \in Nat \ {0} /\ k \in Nat \ {0}
  BY <1>2
<1>4. ASSUME At(w, s, m) PROVE At(w, b, k)
  <2>1. k + Len(w) - 1 <= Len(b)
    BY <1>1, <1>2, <1>4 DEF At
  <2>2. ASSUME NEW i \in 1 .. Len(w), NEW x \in 1 .. Len(b), x = k + i - 1 PROVE b[x] = w[i]
    <3>1. PICK y : y = Len(a) + 1 + x
      OBVIOUS
    <3>2. y \in 1 .. Len(s) /\ y = m + i - 1
      BY <1>2, <2>2, <3>1
    <3>3. s[y] = w[i] /\ s[y] = b[x]
      BY <1>2, <1>4, <3>1, <3>2 DEF At
    <3>4. QED
      BY <3>3
  <2>3. QED
    BY <2>1, <2>2 DEF At
<1>5. ASSUME At(w, b, k) PROVE At(w, s, m)
  <2>1. m + Len(w) - 1 <= Len(s)
    BY <1>1, <1>2, <1>5 DEF At
  <2>2. ASSUME NEW i \in 1 .. Len(w), NEW y \in 1 .. Len(s), y = m + i - 1 PROVE s[y] = w[i]
    <3>1. PICK x : x = k + i - 1
      OBVIOUS
    <3>2. x \in 1 .. Len(b) /\ y = Len(a) + 1 + x
      BY <1>1, <1>2, <1>5, <2>2, <3>1 DEF At
    <3>3. b[x] = w[i] /\ s[y] = b[x]
      BY <1>2, <1>5, <2>2, <3>1, <3>2 DEF At
    <3>4. QED
      BY <3>3
  <2>3. QED
    BY <2>1, <2>2 DEF At
<1>6. QED
  BY <1>2, <1>3, <1>4, <1>5, OccursMeans

\* What occurs in the whole occurs before c or behind it: nothing spans c.
LEMMA OccursBefore ==
    ASSUME NEW w \in Seq(Mark), w # <<>>, NEW s, NEW a, NEW c, NEW b, Divided(s, a, c, b),
           c \notin ToSet(w), NEW i \in 1 .. Len(a) + 1
    PROVE  Occurs(w, s, i) <=> i <= Len(a) /\ Occurs(w, a, i)
<1>1. Len(w) \in Nat /\ Len(w) >= 1
  OBVIOUS
<1>2. /\ s \in Seq(Mark) /\ a \in Seq(Mark) /\ Len(s) \in Nat /\ Len(a) \in Nat /\ Len(b) \in Nat
      /\ Len(s) = Len(a) + 1 + Len(b) /\ s[Len(a) + 1] = c
      /\ \A x \in 1 .. Len(a) : s[x] = a[x]
  BY DEF Divided
<1>3. i \in Nat \ {0}
  BY <1>2
<1>4. \A k \in 1 .. Len(w) : w[k] # c
  BY DEF ToSet
<1>5. ASSUME At(w, s, i) PROVE i <= Len(a) /\ At(w, a, i)
  <2>1. i + Len(w) - 1 <= Len(a)
    <3>1. SUFFICES ASSUME ~(i + Len(w) - 1 <= Len(a)) PROVE FALSE
      OBVIOUS
    <3>2. PICK k, y : k = Len(a) + 2 - i /\ y = Len(a) + 1
      OBVIOUS
    <3>3. k \in 1 .. Len(w) /\ y \in 1 .. Len(s) /\ y = i + k - 1
      BY <1>1, <1>2, <3>1, <3>2
    <3>4. s[y] = w[k]
      BY <1>5, <3>3 DEF At
    <3>5. QED
      BY <1>2, <1>4, <3>2, <3>3, <3>4
  <2>2. ASSUME NEW k \in 1 .. Len(w), NEW x \in 1 .. Len(a), x = i + k - 1 PROVE a[x] = w[k]
    <3>1. x \in 1 .. Len(s)
      BY <1>2
    <3>2. s[x] = w[k]
      BY <1>5, <2>2, <3>1 DEF At
    <3>3. QED
      BY <1>2, <3>2
  <2>3. QED
    BY <1>1, <1>2, <2>1, <2>2 DEF At
<1>6. ASSUME At(w, a, i) PROVE At(w, s, i)
  <2>1. i + Len(w) - 1 <= Len(s) /\ i + Len(w) - 1 <= Len(a)
    BY <1>1, <1>2, <1>6 DEF At
  <2>2. ASSUME NEW k \in 1 .. Len(w), NEW y \in 1 .. Len(s), y = i + k - 1 PROVE s[y] = w[k]
    <3>1. y \in 1 .. Len(a)
      BY <1>1, <1>2, <2>1, <2>2
    <3>2. a[y] = w[k]
      BY <1>6, <2>2, <3>1 DEF At
    <3>3. QED
      BY <1>2, <3>1, <3>2
  <2>3. QED
    BY <2>1, <2>2 DEF At
<1>7. QED
  BY <1>2, <1>3, <1>5, <1>6, OccursMeans

\* What ReplaceEvery returns.
LEMMA ReplacedType ==
    ASSUME NEW w \in Seq(Letter), w # <<>>, NEW t \in Seq(Mark)
    PROVE  ReplaceEvery(t, w) \in Seq(Mark)
BY Traced DEF Traces

\* Both sides of such a letter are replaced by themselves.
LEMMA Separated ==
    ASSUME NEW w \in Seq(Letter), w # <<>>, NEW a \in Seq(Mark), NEW b \in Seq(Mark),
           NEW c \in Mark, c \notin ToSet(w)
    PROVE  ReplaceEvery(a \o <<c>> \o b, w) = ReplaceEvery(a, w) \o <<c>> \o ReplaceEvery(b, w)
<1>1. PICK s : s = a \o <<c>> \o b
  OBVIOUS
<1>2. Divided(s, a, c, b)
  BY <1>1, Divides
<1>3. /\ s \in Seq(Mark) /\ Len(s) \in Nat /\ Len(a) \in Nat /\ Len(b) \in Nat
      /\ Len(s) = Len(a) + 1 + Len(b) /\ s[Len(a) + 1] = c
      /\ \A x \in 1 .. Len(a) : s[x] = a[x]
      /\ \A x \in 1 .. Len(b), y \in 1 .. Len(s) : y = Len(a) + 1 + x => s[y] = b[x]
  BY <1>2 DEF Divided
<1>4. w \in Seq(Mark) /\ Len(w) \in Nat /\ Len(w) >= 1
  BY DEF Mark
<1>5. PICK fs : Replaces(s, w, fs) /\ ReplaceEvery(s, w) = fs[1]
  BY <1>3, ReplaceRuns
<1>6. PICK fa : Replaces(a, w, fa) /\ ReplaceEvery(a, w) = fa[1]
  BY ReplaceRuns
<1>7. PICK fb : Replaces(b, w, fb) /\ ReplaceEvery(b, w) = fb[1]
  BY ReplaceRuns
<1>8. PICK n, d : n = Len(b) + 1 /\ d = Len(a) + 1
  OBVIOUS
<1>. DEFINE T == {k \in 1 .. n : fs[d + k] = fb[k]}
<1>9. ASSUME NEW k \in 1 .. n, \A j \in k + 1 .. n : j \in T PROVE k \in T
  <2>1. PICK m : m = d + k
    OBVIOUS
  <2>2. /\ m = Len(a) + 1 + k /\ m \in 1 .. Len(s) + Len(w) /\ k \in 1 .. Len(b) + Len(w)
        /\ (m > Len(s) <=> k > Len(b))
    BY <1>3, <1>4, <1>8, <2>1
  <2>3. fs[m] = IF m > Len(s) THEN <<>>
                ELSE IF Occurs(w, s, m) THEN <<Redacted>> \o fs[m + Len(w)]
                ELSE <<s[m]>> \o fs[m + 1]
    BY <1>5, <2>2 DEF Replaces
  <2>4. fb[k] = IF k > Len(b) THEN <<>>
                ELSE IF Occurs(w, b, k) THEN <<Redacted>> \o fb[k + Len(w)]
                ELSE <<b[k]>> \o fb[k + 1]
    BY <1>7, <2>2 DEF Replaces
  <2>5. CASE k > Len(b)
    BY <2>1, <2>2, <2>3, <2>4, <2>5
  <2>6. CASE ~(k > Len(b))
    <3>1. k \in 1 .. Len(b) /\ m \in 1 .. Len(s)
      BY <1>3, <2>2, <2>6
    <3>2. (Occurs(w, s, m) <=> Occurs(w, b, k)) /\ s[m] = b[k]
      BY <1>2, <1>3, <1>4, <2>2, <3>1, OccursLater
    <3>3. ASSUME NEW q \in k + 1 .. n, NEW r, r = m + (q - k) PROVE fs[r] = fb[q]
      <4>1. d + q = r /\ q \in T
        BY <1>3, <1>8, <1>9, <2>1, <3>3
      <4>2. QED
        BY <4>1
    <3>4. CASE Occurs(w, b, k)
      <4>1. PICK q, r : q = k + Len(w) /\ r = m + Len(w)
        OBVIOUS
      <4>2. q \in k + 1 .. n /\ r = m + (q - k)
        BY <1>3, <1>4, <1>8, <2>2, <3>4, <4>1 DEF Occurs
      <4>3. fs[r] = fb[q]
        BY <3>3, <4>2
      <4>4. fs[m] = <<Redacted>> \o fs[r] /\ fb[k] = <<Redacted>> \o fb[q]
        BY <2>2, <2>3, <2>4, <2>6, <3>2, <3>4, <4>1
      <4>5. QED
        BY <2>1, <4>3, <4>4
    <3>5. CASE ~Occurs(w, b, k)
      <4>1. PICK q, r : q = k + 1 /\ r = m + 1
        OBVIOUS
      <4>2. q \in k + 1 .. n /\ r = m + (q - k)
        BY <1>3, <1>8, <2>2, <3>1, <4>1
      <4>3. fs[r] = fb[q]
        BY <3>3, <4>2
      <4>4. fs[m] = <<s[m]>> \o fs[r] /\ fb[k] = <<b[k]>> \o fb[q]
        BY <2>2, <2>3, <2>4, <2>6, <3>2, <3>5, <4>1
      <4>5. QED
        BY <2>1, <3>2, <4>3, <4>4
    <3>6. QED
      BY <3>4, <3>5
  <2>7. QED
    BY <2>5, <2>6
<1>10. fs[d + 1] = fb[1]
  <2>. HIDE DEF T
  <2>1. n \in Nat /\ 1 \in 1 .. n
    BY <1>3, <1>8
  <2>2. 1 .. n \subseteq T
    BY <1>9, <2>1, Downward
  <2>3. 1 \in T
    BY <2>1, <2>2
  <2>4. QED
    BY <2>3 DEF T
<1>11. PICK rest : rest = <<c>> \o fb[1]
  OBVIOUS
<1>12. fb[1] \in Seq(Mark) /\ rest \in Seq(Mark) /\ <<Redacted>> \in Seq(Mark)
  <2>1. fb[1] \in Seq(Mark)
    BY <1>7, ReplacedType
  <2>2. QED
    BY <1>11, <2>1 DEF Mark
<1>. DEFINE U == {i \in 1 .. d : fa[i] \in Seq(Mark) /\ fs[i] = fa[i] \o rest}
<1>13. ASSUME NEW i \in 1 .. d, \A j \in i + 1 .. d : j \in U PROVE i \in U
  <2>1. /\ i \in 1 .. Len(s) + Len(w) /\ i \in 1 .. Len(a) + Len(w)
        /\ i \in 1 .. Len(a) + 1 /\ ~(i > Len(s))
    BY <1>3, <1>4, <1>8
  <2>2. fs[i] = IF Occurs(w, s, i) THEN <<Redacted>> \o fs[i + Len(w)] ELSE <<s[i]>> \o fs[i + 1]
    BY <1>5, <2>1 DEF Replaces
  <2>3. fa[i] = IF i > Len(a) THEN <<>>
                ELSE IF Occurs(w, a, i) THEN <<Redacted>> \o fa[i + Len(w)]
                ELSE <<a[i]>> \o fa[i + 1]
    BY <1>6, <2>1 DEF Replaces
  <2>4. Occurs(w, s, i) <=> i <= Len(a) /\ Occurs(w, a, i)
    BY <1>2, <1>4, <2>1, OccursBefore
  <2>5. CASE i > Len(a)
    <3>1. i = Len(a) + 1 /\ i = d
      BY <1>3, <1>8, <2>5
    <3>2. fs[i] = <<c>> \o fs[d + 1]
      BY SMTT(30), <1>3, <2>2, <2>4, <2>5, <3>1
    <3>3. fa[i] = <<>> /\ fs[i] = rest
      BY <1>10, <1>11, <2>3, <2>5, <3>2
    <3>4. <<>> \o rest = rest /\ <<>> \in Seq(Mark)
      BY <1>12
    <3>5. QED
      BY <3>3, <3>4
  <2>6. CASE i <= Len(a) /\ Occurs(w, a, i)
    <3>1. PICK q : q = i + Len(w)
      OBVIOUS
    <3>2. q \in i + 1 .. d
      BY <1>3, <1>4, <1>8, <2>6, <3>1 DEF Occurs
    <3>3. fa[q] \in Seq(Mark) /\ fs[q] = fa[q] \o rest
      BY <1>13, <3>2
    <3>4. fs[i] = <<Redacted>> \o fs[q] /\ fa[i] = <<Redacted>> \o fa[q]
      BY SMTT(30), <1>3, <2>1, <2>2, <2>3, <2>4, <2>6, <3>1
    <3>5. (<<Redacted>> \o fa[q]) \o rest = <<Redacted>> \o (fa[q] \o rest)
      BY ZenonT(40), <1>12, <3>3, Associates
    <3>6. <<Redacted>> \o fa[q] \in Seq(Mark)
      BY <1>12, <3>3
    <3>7. QED
      BY <3>3, <3>4, <3>5, <3>6
  <2>7. CASE i <= Len(a) /\ ~Occurs(w, a, i)
    <3>1. PICK q : q = i + 1
      OBVIOUS
    <3>2. q \in i + 1 .. d /\ i \in 1 .. Len(a)
      BY <1>3, <1>8, <2>1, <2>7, <3>1
    <3>3. fa[q] \in Seq(Mark) /\ fs[q] = fa[q] \o rest
      BY <1>13, <3>2
    <3>4. PICK x : x = a[i]
      OBVIOUS
    <3>5. x \in Mark /\ s[i] = x
      BY <1>3, <3>2, <3>4
    <3>6. fs[i] = <<x>> \o fs[q] /\ fa[i] = <<x>> \o fa[q]
      <4>1. ~(i > Len(a)) /\ ~Occurs(w, a, i) /\ ~Occurs(w, s, i)
        BY <1>3, <2>1, <2>4, <2>7
      <4>2. fs[i] = <<s[i]>> \o fs[i + 1] /\ fa[i] = <<a[i]>> \o fa[i + 1]
        BY <2>2, <2>3, <4>1
      <4>3. QED
        BY <3>1, <3>4, <3>5, <4>2
    <3>7. <<x>> \in Seq(Mark)
      BY <3>5
    <3>8. (<<x>> \o fa[q]) \o rest = <<x>> \o (fa[q] \o rest)
      BY <1>12, <3>3, <3>7, Associates
    <3>9. <<x>> \o fa[q] \in Seq(Mark)
      BY <3>3, <3>7
    <3>10. QED
      BY <3>3, <3>6, <3>8, <3>9
  <2>8. QED
    BY <1>3, <1>8, <2>5, <2>6, <2>7
<1>14. fs[1] = fa[1] \o rest /\ fa[1] \in Seq(Mark)
  <2>. HIDE DEF U
  <2>1. d \in Nat /\ 1 \in 1 .. d
    BY <1>3, <1>8
  <2>2. 1 .. d \subseteq U
    BY <1>13, <2>1, Downward
  <2>3. 1 \in U
    BY <2>1, <2>2
  <2>4. QED
    BY <2>3 DEF U
<1>15. (fa[1] \o <<c>>) \o fb[1] = fa[1] \o (<<c>> \o fb[1])
  <2>1. <<c>> \in Seq(Mark)
    OBVIOUS
  <2>2. QED
    BY ZenonT(40), <1>12, <1>14, <2>1, Associates
<1>16. QED
  BY <1>1, <1>5, <1>6, <1>7, <1>11, <1>14, <1>15

-----------------------------------------------------------------------------
(***************************************************************************)
(* Scrub replaces one secret after the other.                              *)
(***************************************************************************)
Known == Seq(Letter) \ {<<>>}

Scrubs(run, t, order) ==
    /\ run[0] = t
    /\ \A k \in 1 .. Len(order), j \in 0 .. Len(order) :
          k = j + 1 => run[k] = ReplaceEvery(run[j], order[k])

ScrubFold(t, order, fold) ==
    fold = [s \in SUBSET (DOMAIN order) |->
              IF s = {} THEN t ELSE ReplaceEvery(fold[s \ {Max(s)}], order[Max(s)])]

\* Scrub is the last of the replacements, each made on the one before.
LEMMA ScrubRuns ==
    ASSUME NEW t \in Seq(Mark), NEW order \in Seq(Known)
    PROVE  \E run : /\ run \in [0 .. Len(order) -> Seq(Mark)]
                    /\ Scrubs(run, t, order)
                    /\ Scrub(t, order) = run[Len(order)]
<1>. DEFINE n == Len(order)
            D == Seq(Mark)
            step == [i \in 1 .. n |-> [u \in D |-> ReplaceEvery(u, order[i])]]
<1>1. /\ n \in Nat /\ DOMAIN order = 1 .. n /\ t \in D
      /\ \A i \in 1 .. n : order[i] \in Known
  OBVIOUS
<1>2. ASSUME NEW i \in 1 .. n, NEW u \in D PROVE ReplaceEvery(u, order[i]) \in D
  <2>1. PICK w : w = order[i]
    OBVIOUS
  <2>2. w \in Seq(Letter) /\ w # <<>>
    BY <1>1, <2>1 DEF Known
  <2>3. QED
    BY <2>1, <2>2, ReplacedType
<1>3. step \in [1 .. n -> [D -> D]]
  <2>. HIDE DEF D, n
  <2>1. QED
    BY <1>2
<1>4. PICK old \in [SUBSET (1 .. n) -> D] : FoldsUp(old, n, t, step)
  <2>. HIDE DEF D, n, step
  <2>1. QED
    BY <1>1, <1>3, FoldExists
<1>5. ScrubFold(t, order, old)
  <2>1. ASSUME NEW s \in SUBSET (1 .. n), s # {}
        PROVE  old[s] = ReplaceEvery(old[s \ {Max(s)}], order[Max(s)])
    <3>1. Max(s) \in s /\ s \ {Max(s)} \in SUBSET (1 .. n)
      BY <1>1, <2>1, MaxGreatest
    <3>2. PICK m : m = Max(s)
      OBVIOUS
    <3>3. m \in 1 .. n /\ old[s \ {m}] \in D
      BY <3>1, <3>2
    <3>4. old[s] = step[m][old[s \ {m}]]
      BY <1>4, <2>1, <3>2 DEF FoldsUp
    <3>. HIDE DEF D, n
    <3>5. step[m][old[s \ {m}]] = ReplaceEvery(old[s \ {m}], order[m])
      BY <3>3
    <3>6. QED
      BY <3>2, <3>4, <3>5
  <2>2. old[{}] = t
    BY <1>4 DEF FoldsUp
  <2>3. \A s \in SUBSET (1 .. n) :
           old[s] = IF s = {} THEN t ELSE ReplaceEvery(old[s \ {Max(s)}], order[Max(s)])
    <3>. HIDE DEF D, n
    <3>1. QED
      BY <2>1, <2>2
  <2>. HIDE DEF D, n
  <2>4. QED
    BY <1>1, <1>4, <2>3 DEF ScrubFold
<1>6. Scrub(t, order) = (CHOOSE it : ScrubFold(t, order, it))[DOMAIN order]
  BY Zenon DEF Scrub, FoldLeft, MapThenFoldSet, ScrubFold
<1>7. PICK it : ScrubFold(t, order, it) /\ Scrub(t, order) = it[DOMAIN order]
  BY <1>5, <1>6, Zenon
<1>. HIDE DEF n, D, step
<1>8. \A s \in SUBSET (1 .. n) :
         it[s] = IF s = {} THEN t ELSE ReplaceEvery(it[s \ {Max(s)}], order[Max(s)])
  BY <1>1, <1>7 DEF ScrubFold
<1>. DEFINE run == [k \in 0 .. n |-> it[1 .. k]]
<1>9. run[0] = t
  <2>1. 0 \in 0 .. n /\ 1 .. 0 = {} /\ 1 .. 0 \in SUBSET (1 .. n)
    BY <1>1
  <2>2. QED
    BY <1>8, <2>1
<1>10. ASSUME NEW k \in 1 .. n, NEW j \in 0 .. n, k = j + 1
       PROVE  run[k] = ReplaceEvery(run[j], order[k])
  <2>1. /\ Max(1 .. k) = k /\ (1 .. k) \ {k} = 1 .. j /\ 1 .. k # {} /\ 1 .. k \in SUBSET (1 .. n)
        /\ k \in 0 .. n
    <3>1. k \in Nat /\ k # 0 /\ k - 1 = j
      BY <1>1, <1>10
    <3>2. Max(1 .. k) = k /\ (1 .. k) \ {k} = 1 .. k - 1 /\ 1 .. k # {}
      BY <3>1, MaxInterval
    <3>3. QED
      BY <1>1, <3>1, <3>2
  <2>2. it[1 .. k] = ReplaceEvery(it[1 .. j], order[k])
    BY <1>8, <2>1
  <2>3. QED
    BY <2>1, <2>2
<1>. DEFINE T == {k \in 0 .. n : run[k] \in D}
<1>11. run \in [0 .. n -> D]
  <2>. HIDE DEF run
  <2>1. 0 \in T
    BY <1>1, <1>9
  <2>2. ASSUME NEW k \in 0 .. n - 1, k \in T PROVE k + 1 \in T
    <3>1. PICK m : m = k + 1
      OBVIOUS
    <3>2. m \in 1 .. n /\ k \in 0 .. n /\ m \in 0 .. n
      BY <1>1, <3>1
    <3>3. run[m] = ReplaceEvery(run[k], order[m]) /\ run[k] \in D
      BY <1>10, <2>2, <3>1, <3>2
    <3>4. run[m] \in D
      BY <1>2, <3>2, <3>3
    <3>5. QED
      BY <3>1, <3>2, <3>4
  <2>3. 0 .. n \subseteq T
    <3>. HIDE DEF T
    <3>1. QED
      BY <1>1, <2>1, <2>2, Upward
  <2>4. QED
    BY <2>3 DEF run
<1>12. Scrub(t, order) = run[n]
  BY <1>1, <1>7
<1>. HIDE DEF run
<1>13. Scrubs(run, t, order)
  BY <1>9, <1>10 DEF Scrubs, n
<1>14. QED
  BY <1>11, <1>12, <1>13 DEF n, D

\* None of the secrets is left.
LEMMA NoneHeld ==
    ASSUME NEW t \in Seq(Mark), NEW order \in Seq(Known), NEW i \in 1 .. Len(order)
    PROVE  ~Holds(Scrub(t, order), order[i])
<1>. DEFINE n == Len(order)
<1>1. PICK run : /\ run \in [0 .. n -> Seq(Mark)] /\ Scrubs(run, t, order)
                 /\ Scrub(t, order) = run[n]
  BY ScrubRuns
<1>2. n \in Nat /\ \A k \in 1 .. n : order[k] \in Seq(Letter) /\ order[k] # <<>>
  BY DEF Known
<1>3. PICK v : v = order[i]
  OBVIOUS
<1>4. v \in Seq(Letter) /\ v # <<>>
  BY <1>2, <1>3
<1>. HIDE DEF n
<1>. DEFINE T == {k \in 0 .. n : Holds(run[k], v) => \A m \in 1 .. k : order[m] # v}
<1>5. 0 \in T
  BY <1>2
<1>6. ASSUME NEW k \in 0 .. n - 1, k \in T PROVE k + 1 \in T
  <2>1. PICK m : m = k + 1
    OBVIOUS
  <2>2. m \in 1 .. n /\ k \in 0 .. n /\ m \in 0 .. n
    BY <1>2, <2>1
  <2>3. run[m] = ReplaceEvery(run[k], order[m]) /\ run[k] \in Seq(Mark)
    BY <1>1, <2>1, <2>2 DEF Scrubs, n
  <2>4. ASSUME Holds(run[m], v), NEW x \in 1 .. m PROVE order[x] # v
    <3>1. PICK w, u : w = order[m] /\ u = run[k]
      OBVIOUS
    <3>2. w \in Seq(Letter) /\ w # <<>> /\ u \in Seq(Mark) /\ Holds(ReplaceEvery(u, w), v)
      BY <1>2, <2>2, <2>3, <2>4, <3>1
    <3>3. Holds(u, v) /\ v # w
      BY <1>4, <3>2, HeldBefore
    <3>4. \A y \in 1 .. k : order[y] # v
      BY <1>6, <3>1, <3>3
    <3>5. x = m \/ x \in 1 .. k
      BY <2>1, <2>2
    <3>6. QED
      BY <3>1, <3>3, <3>4, <3>5
  <2>5. QED
    BY <2>1, <2>2, <2>4
<1>7. n \in T
  <2>. HIDE DEF T
  <2>1. 0 .. n \subseteq T
    BY <1>2, <1>5, <1>6, Upward
  <2>2. QED
    BY <1>2, <2>1
<1>8. i \in 1 .. n
  BY DEF n
<1>9. QED
  BY <1>1, <1>3, <1>7, <1>8

\* Both sides of a letter that no secret has are scrubbed by themselves.
LEMMA ScrubSeparated ==
    ASSUME NEW a \in Seq(Mark), NEW b \in Seq(Mark), NEW order \in Seq(Known),
           NEW c \in Mark, \A i \in 1 .. Len(order) : c \notin ToSet(order[i])
    PROVE  Scrub(a \o <<c>> \o b, order) = Scrub(a, order) \o <<c>> \o Scrub(b, order)
<1>. DEFINE n == Len(order)
<1>1. PICK s : s = a \o <<c>> \o b
  OBVIOUS
<1>2. s \in Seq(Mark)
  BY <1>1
<1>3. PICK rs : /\ rs \in [0 .. n -> Seq(Mark)] /\ Scrubs(rs, s, order)
                /\ Scrub(s, order) = rs[n]
  BY <1>2, ScrubRuns
<1>4. PICK ra : /\ ra \in [0 .. n -> Seq(Mark)] /\ Scrubs(ra, a, order)
                /\ Scrub(a, order) = ra[n]
  BY ScrubRuns
<1>5. PICK rb : /\ rb \in [0 .. n -> Seq(Mark)] /\ Scrubs(rb, b, order)
                /\ Scrub(b, order) = rb[n]
  BY ScrubRuns
<1>6. /\ n \in Nat
      /\ \A k \in 1 .. n : order[k] \in Seq(Letter) /\ order[k] # <<>> /\ c \notin ToSet(order[k])
  BY DEF Known
<1>. HIDE DEF n
<1>. DEFINE T == {k \in 0 .. n : rs[k] = ra[k] \o <<c>> \o rb[k]}
<1>7. 0 \in T
  <2>1. rs[0] = s /\ ra[0] = a /\ rb[0] = b
    BY <1>3, <1>4, <1>5 DEF Scrubs
  <2>2. rs[0] = ra[0] \o <<c>> \o rb[0]
    BY <1>1, <2>1, Zenon
  <2>3. 0 \in 0 .. n
    BY <1>6
  <2>4. QED
    BY <2>2, <2>3, Zenon
<1>8. ASSUME NEW k \in 0 .. n - 1, k \in T PROVE k + 1 \in T
  <2>1. PICK m : m = k + 1
    OBVIOUS
  <2>2. m \in 1 .. n /\ k \in 0 .. n /\ m \in 0 .. n
    BY <1>6, <2>1
  <2>3. PICK w : w = order[m]
    OBVIOUS
  <2>4. w \in Seq(Letter) /\ w # <<>> /\ c \notin ToSet(w)
    BY <1>6, <2>2, <2>3
  <2>5. /\ rs[m] = ReplaceEvery(rs[k], w) /\ ra[m] = ReplaceEvery(ra[k], w)
        /\ rb[m] = ReplaceEvery(rb[k], w)
    BY <1>3, <1>4, <1>5, <2>1, <2>2, <2>3 DEF Scrubs, n
  <2>6. PICK x, y : x = ra[k] /\ y = rb[k]
    OBVIOUS
  <2>7. x \in Seq(Mark) /\ y \in Seq(Mark)
    BY <1>4, <1>5, <2>2, <2>6
  <2>8. ReplaceEvery(x \o <<c>> \o y, w) = ReplaceEvery(x, w) \o <<c>> \o ReplaceEvery(y, w)
    BY <2>4, <2>7, Separated
  <2>9. rs[k] = x \o <<c>> \o y
    BY <1>8, <2>6
  <2>10. rs[m] = ra[m] \o <<c>> \o rb[m]
    BY <2>5, <2>6, <2>8, <2>9
  <2>11. QED
    BY <2>1, <2>2, <2>10
<1>9. n \in T
  <2>. HIDE DEF T
  <2>1. 0 .. n \subseteq T
    BY <1>6, <1>7, <1>8, Upward
  <2>2. QED
    BY <1>6, <2>1
<1>10. QED
  BY <1>1, <1>3, <1>4, <1>5, <1>9

\* No secret is held by a placeholder or by nothing, nor by a shorter one.
LEMMA HoldsNone ==
    ASSUME NEW w \in Known
    PROVE  /\ ~Holds(<<>>, w) /\ ~Holds(<<Redacted>>, w)
           /\ \A v \in Seq(Letter) : Len(w) >= Len(v) /\ w # v => ~Holds(v, w)
<1>1. w \in Seq(Letter) /\ w \in Seq(Mark) /\ w # <<>> /\ Len(w) \in Nat /\ Len(w) >= 1
  BY DEF Known, Mark
<1>2. ~Holds(<<>>, w)
  BY DEF Holds
<1>3. ~Holds(<<Redacted>>, w)
  <2>1. SUFFICES ASSUME Holds(<<Redacted>>, w) PROVE FALSE
    OBVIOUS
  <2>2. PICK t : t = <<Redacted>>
    OBVIOUS
  <2>3. t \in Seq(Mark) /\ Len(t) = 1 /\ t[1] = Redacted
    BY <2>2 DEF Mark
  <2>4. PICK i \in 1 .. Len(t) : Occurs(w, t, i)
    BY <2>1, <2>2, <2>3 DEF Holds
  <2>5. i = 1 /\ i \in Nat \ {0}
    BY <2>3
  <2>6. At(w, t, i)
    BY <1>1, <2>3, <2>4, <2>5, OccursMeans
  <2>7. 1 \in 1 .. Len(w) /\ 1 \in 1 .. Len(t) /\ 1 = i + 1 - 1
    BY <1>1, <2>3, <2>5
  <2>8. t[1] = w[1]
    BY <2>6, <2>7 DEF At
  <2>9. w[1] \in Letter
    BY <1>1, <2>7
  <2>10. QED
    BY <2>3, <2>8, <2>9, RedactionAssumption
<1>4. ASSUME NEW v \in Seq(Letter), Len(w) >= Len(v), w # v PROVE ~Holds(v, w)
  <2>1. SUFFICES ASSUME Holds(v, w) PROVE FALSE
    OBVIOUS
  <2>2. v \in Seq(Mark) /\ Len(v) \in Nat
    BY DEF Mark
  <2>3. PICK i \in 1 .. Len(v) : Occurs(w, v, i)
    BY <2>1, <2>2 DEF Holds
  <2>4. At(w, v, i)
    BY <1>1, <2>2, <2>3, OccursMeans
  <2>5. i = 1 /\ Len(w) = Len(v)
    BY <1>1, <1>4, <2>2, <2>4 DEF At
  <2>6. ASSUME NEW k \in 1 .. Len(w) PROVE w[k] = v[k]
    <3>1. k \in 1 .. Len(v) /\ k = i + k - 1
      BY <2>5
    <3>2. QED
      BY <2>4, <3>1 DEF At
  <2>7. w = v
    BY <1>1, <2>2, <2>5, <2>6
  <2>8. QED
    BY <1>4, <2>7
<1>5. QED
  BY <1>2, <1>3, <1>4

\* A secret alone is replaced as a whole, though others are tried first.
LEMMA ScrubWhole ==
    ASSUME NEW order \in Seq(Known), NEW m \in 1 .. Len(order),
           \A i, j \in 1 .. Len(order) : i < j => Len(order[i]) >= Len(order[j]),
           \A i, j \in 1 .. Len(order) : i # j => order[i] # order[j]
    PROVE  Scrub(order[m], order) = <<Redacted>>
<1>. DEFINE n == Len(order)
<1>1. PICK v : v = order[m]
  OBVIOUS
<1>2. n \in Nat /\ v \in Seq(Letter) /\ v # <<>> /\ v \in Seq(Mark) /\ m \in 1 .. n
      /\ \A k \in 1 .. n : order[k] \in Known /\ order[k] \in Seq(Letter) /\ order[k] # <<>>
  BY <1>1 DEF Known, Mark
<1>3. PICK run : /\ run \in [0 .. n -> Seq(Mark)] /\ Scrubs(run, v, order)
                 /\ Scrub(v, order) = run[n]
  BY <1>2, ScrubRuns
<1>4. /\ \A i, j \in 1 .. n : i < j => Len(order[i]) >= Len(order[j])
      /\ \A i, j \in 1 .. n : i # j => order[i] # order[j]
  OBVIOUS
<1>. HIDE DEF n
<1>. DEFINE T == {k \in 0 .. n : run[k] = IF k < m THEN v ELSE <<Redacted>>}
<1>5. 0 \in T
  BY <1>2, <1>3 DEF Scrubs
<1>6. ASSUME NEW k \in 0 .. n - 1, k \in T PROVE k + 1 \in T
  <2>1. PICK j : j = k + 1
    OBVIOUS
  <2>2. j \in 1 .. n /\ k \in 0 .. n /\ j \in 0 .. n
    BY <1>2, <2>1
  <2>3. PICK w : w = order[j]
    OBVIOUS
  <2>4. w \in Known /\ w \in Seq(Letter) /\ w # <<>>
    BY <1>2, <2>2, <2>3
  <2>5. run[j] = ReplaceEvery(run[k], w)
    BY <1>3, <2>1, <2>2, <2>3 DEF Scrubs, n
  <2>6. CASE j < m
    <3>1. run[k] = v
      BY <1>2, <1>6, <2>1, <2>2, <2>6
    <3>2. Len(w) >= Len(v) /\ w # v
      BY <1>1, <1>2, <1>4, <2>2, <2>3, <2>6
    <3>3. ~Holds(v, w)
      BY <1>2, <2>4, <3>2, HoldsNone
    <3>4. ReplaceEvery(v, w) = v
      BY <1>2, <2>4, <3>3, Untouched
    <3>5. run[j] = v
      BY <2>5, <3>1, <3>4
    <3>6. QED
      BY <2>1, <2>2, <2>6, <3>5
  <2>7. CASE j = m
    <3>1. run[k] = v /\ w = v
      BY <1>1, <1>2, <1>6, <2>1, <2>2, <2>3, <2>7
    <3>2. run[j] = <<Redacted>>
      BY <1>2, <2>5, <3>1, Whole
    <3>3. ~(j < m)
      BY <1>2, <2>7
    <3>4. QED
      BY <2>1, <2>2, <3>2, <3>3
  <2>8. CASE j > m
    <3>1. run[k] = <<Redacted>>
      <4>1. ~(k < m)
        BY <1>2, <2>1, <2>2, <2>8
      <4>2. QED
        BY <1>6, <4>1
    <3>2. ~Holds(<<Redacted>>, w) /\ <<Redacted>> \in Seq(Mark)
      BY <2>4, HoldsNone DEF Mark
    <3>3. PICK t : t = <<Redacted>>
      OBVIOUS
    <3>4. ReplaceEvery(t, w) = t
      BY <2>4, <3>2, <3>3, Untouched
    <3>5. run[j] = <<Redacted>>
      BY <2>5, <3>1, <3>3, <3>4
    <3>6. ~(j < m)
      BY <1>2, <2>2, <2>8
    <3>7. QED
      BY <2>1, <2>2, <3>5, <3>6
  <2>9. QED
    BY <1>2, <2>2, <2>6, <2>7, <2>8
<1>7. n \in T
  <2>. HIDE DEF T
  <2>1. 0 .. n \subseteq T
    BY <1>2, <1>5, <1>6, Upward
  <2>2. QED
    BY <1>2, <2>1
<1>8. ~(n < m)
  BY <1>2
<1>9. QED
  BY <1>1, <1>3, <1>7, <1>8

\* Nothing stays nothing.
LEMMA ScrubNothing ==
    ASSUME NEW order \in Seq(Known)
    PROVE  Scrub(<<>>, order) = <<>>
<1>. DEFINE n == Len(order)
<1>1. PICK t : t = <<>>
  OBVIOUS
<1>2. n \in Nat /\ t \in Seq(Mark)
      /\ \A k \in 1 .. n : order[k] \in Known /\ order[k] \in Seq(Letter) /\ order[k] # <<>>
  BY <1>1 DEF Known
<1>3. PICK run : /\ run \in [0 .. n -> Seq(Mark)] /\ Scrubs(run, t, order)
                 /\ Scrub(t, order) = run[n]
  BY <1>2, ScrubRuns
<1>. HIDE DEF n
<1>. DEFINE T == {k \in 0 .. n : run[k] = t}
<1>4. 0 \in T
  BY <1>2, <1>3 DEF Scrubs
<1>5. ASSUME NEW k \in 0 .. n - 1, k \in T PROVE k + 1 \in T
  <2>1. PICK j : j = k + 1
    OBVIOUS
  <2>2. j \in 1 .. n /\ k \in 0 .. n /\ j \in 0 .. n
    BY <1>2, <2>1
  <2>3. PICK w : w = order[j]
    OBVIOUS
  <2>4. w \in Known /\ w \in Seq(Letter) /\ w # <<>>
    BY <1>2, <2>2, <2>3
  <2>5. run[j] = ReplaceEvery(t, w)
    BY <1>3, <1>5, <2>1, <2>2, <2>3 DEF Scrubs, n
  <2>6. ~Holds(t, w)
    BY <1>1, <2>4, HoldsNone
  <2>7. ReplaceEvery(t, w) = t
    BY <1>2, <2>4, <2>6, Untouched
  <2>8. QED
    BY <2>1, <2>2, <2>5, <2>7
<1>6. n \in T
  <2>. HIDE DEF T
  <2>1. 0 .. n \subseteq T
    BY <1>2, <1>4, <1>5, Upward
  <2>2. QED
    BY <1>2, <2>1
<1>7. QED
  BY <1>1, <1>3, <1>6

-----------------------------------------------------------------------------
(***************************************************************************)
(* What each letter of a scrubbed string stands for in the string that was *)
(* scrubbed: itself, or one of the secrets.                                *)
(***************************************************************************)
Stands(t, vals, c, p, q) ==
    \/ c = Redacted /\ \E v \in vals : Occurs(v, t, p) /\ q = p + Len(v)
    \/ c # Redacted /\ t[p] = c /\ q = p + 1

Spells(out, t, vals, cut) ==
    /\ out \in Seq(Mark)
    /\ cut \in [1 .. Len(out) + 1 -> 1 .. Len(t) + 1]
    /\ cut[1] = 1 /\ cut[Len(out) + 1] = Len(t) + 1
    /\ \A k \in 1 .. Len(out), m \in 1 .. Len(out) + 1 :
          m = k + 1 => Stands(t, vals, out[k], cut[k], cut[m])

\* A string in which nothing was replaced spells itself.
LEMMA SpellsItself ==
    ASSUME NEW t \in Seq(Letter), NEW vals
    PROVE  \E cut : Spells(t, t, vals, cut)
<1>. DEFINE cut == [k \in 1 .. Len(t) + 1 |-> k]
<1>1. t \in Seq(Mark) /\ Len(t) \in Nat /\ \A k \in 1 .. Len(t) : t[k] # Redacted
  <2>1. \A k \in 1 .. Len(t) : t[k] \in Letter
    OBVIOUS
  <2>2. QED
    BY <2>1, RedactionAssumption DEF Mark
<1>2. /\ cut \in [1 .. Len(t) + 1 -> 1 .. Len(t) + 1]
      /\ \A k \in 1 .. Len(t) + 1 : cut[k] = k
  OBVIOUS
<1>. HIDE DEF cut
<1>3. cut[1] = 1 /\ cut[Len(t) + 1] = Len(t) + 1
  BY <1>1, <1>2
<1>4. ASSUME NEW k \in 1 .. Len(t), NEW m \in 1 .. Len(t) + 1, m = k + 1
      PROVE  Stands(t, vals, t[k], cut[k], cut[m])
  <2>1. cut[k] = k /\ cut[m] = m
    BY <1>1, <1>2
  <2>2. QED
    BY <1>1, <1>4, <2>1 DEF Stands
<1>5. Spells(t, t, vals, cut)
  BY <1>1, <1>2, <1>3, <1>4 DEF Spells
<1>6. QED
  BY <1>5

\* An occurrence that no replacement has touched is one of the string.
LEMMA OccurrenceSpelled ==
    ASSUME NEW t \in Seq(Letter), NEW vals, NEW out, NEW cut, Spells(out, t, vals, cut),
           NEW w \in Seq(Letter), w # <<>>, NEW p \in 1 .. Len(out), Occurs(w, out, p),
           NEW q, q = p + Len(w)
    PROVE  q \in 1 .. Len(out) + 1 /\ Occurs(w, t, cut[p]) /\ cut[q] = cut[p] + Len(w)
<1>1. /\ out \in Seq(Mark) /\ Len(out) \in Nat /\ Len(t) \in Nat /\ Len(w) \in Nat /\ Len(w) >= 1
      /\ w \in Seq(Mark) /\ t \in Seq(Mark) /\ cut \in [1 .. Len(out) + 1 -> 1 .. Len(t) + 1]
  BY DEF Spells, Mark
<1>2. At(w, out, p)
  BY <1>1, OccursMeans
<1>3. p \in Nat /\ q \in Nat /\ p < q /\ q <= Len(out) + 1
  BY <1>1, <1>2 DEF At
<1>4. ASSUME NEW a \in p .. q - 1, NEW b, b = a + 1
      PROVE  t[cut[a]] = out[a] /\ cut[b] = cut[a] + 1
  <2>1. a \in 1 .. Len(out) /\ b \in 1 .. Len(out) + 1
    BY <1>1, <1>3, <1>4
  <2>2. Stands(t, vals, out[a], cut[a], cut[b])
    BY <1>4, <2>1 DEF Spells
  <2>3. out[a] # Redacted
    <3>1. PICK k : k = a - p + 1
      OBVIOUS
    <3>2. k \in 1 .. Len(w) /\ a = p + k - 1
      BY <1>1, <1>3, <3>1
    <3>3. out[a] = w[k] /\ w[k] \in Letter
      BY <1>2, <2>1, <3>2 DEF At
    <3>4. QED
      BY <3>3, RedactionAssumption
  <2>4. QED
    BY <2>2, <2>3 DEF Stands
<1>5. cut[p] \in Nat \ {0} /\ cut[q] \in Nat /\ cut[q] <= Len(t) + 1
  <2>1. p \in 1 .. Len(out) + 1 /\ q \in 1 .. Len(out) + 1
    BY <1>1, <1>3
  <2>2. cut[p] \in 1 .. Len(t) + 1 /\ cut[q] \in 1 .. Len(t) + 1
    BY <1>1, <2>1
  <2>3. QED
    BY <1>1, <2>2
<1>6. \A a \in p .. q : cut[a] = cut[p] + (a - p)
  <2>1. ASSUME NEW a \in p .. q, NEW b \in p .. q, b = a + 1 PROVE cut[b] = cut[a] + 1
    <3>1. a \in p .. q - 1
      BY <1>3, <2>1
    <3>2. QED
      BY <1>4, <2>1, <3>1
  <2>2. Evenly(cut, p, q)
    BY <2>1 DEF Evenly
  <2>3. QED
    BY <1>3, <1>5, <2>2, Stretch
<1>7. cut[q] = cut[p] + Len(w)
  <2>1. q \in p .. q /\ q - p = Len(w)
    BY <1>1, <1>3
  <2>2. QED
    BY <1>6, <2>1
<1>8. At(w, t, cut[p])
  <2>1. cut[p] + Len(w) - 1 <= Len(t)
    BY <1>1, <1>5, <1>7
  <2>2. ASSUME NEW k \in 1 .. Len(w), NEW y \in 1 .. Len(t), y = cut[p] + k - 1 PROVE t[y] = w[k]
    <3>1. PICK a : a = p + k - 1
      OBVIOUS
    <3>2. a \in p .. q - 1 /\ a \in p .. q /\ a \in 1 .. Len(out) /\ a - p = k - 1
      BY <1>1, <1>3, <3>1
    <3>3. cut[a] = cut[p] + (a - p)
      BY <1>6, <3>2
    <3>4. cut[a] = y
      BY <1>5, <2>2, <3>2, <3>3
    <3>5. out[a] = t[y]
      BY <1>4, <3>2, <3>4
    <3>6. out[a] = w[k]
      BY <1>2, <3>1, <3>2 DEF At
    <3>7. QED
      BY <3>5, <3>6
  <2>3. QED
    BY <2>1, <2>2 DEF At
<1>9. Occurs(w, t, cut[p])
  BY <1>1, <1>5, <1>8, OccursMeans
<1>10. QED
  BY <1>1, <1>3, <1>7, <1>9

\* One more secret replaced.
LEMMA SpellsOn ==
    ASSUME NEW t \in Seq(Letter), NEW vals, NEW out, NEW cut, Spells(out, t, vals, cut),
           NEW w \in Seq(Letter), w # <<>>, w \in vals
    PROVE  \E new : Spells(ReplaceEvery(out, w), t, vals, new)
<1>1. out \in Seq(Mark)
  BY DEF Spells
<1>2. PICK res, src : res = ReplaceEvery(out, w) /\ Traces(out, w, 1, res, src)
  BY <1>1, Traced
<1>3. /\ res \in Seq(Mark) /\ Len(res) \in Nat /\ Len(out) \in Nat /\ Len(w) \in Nat /\ Len(w) >= 1
      /\ src \in [1 .. Len(res) + 1 -> 1 .. Len(out) + 1]
      /\ src[1] = 1 /\ src[Len(res) + 1] = Len(out) + 1
  BY <1>1, <1>2 DEF Traces
<1>4. /\ cut \in [1 .. Len(out) + 1 -> 1 .. Len(t) + 1]
      /\ cut[1] = 1 /\ cut[Len(out) + 1] = Len(t) + 1
  BY DEF Spells
<1>. DEFINE new == [k \in 1 .. Len(res) + 1 |-> cut[src[k]]]
<1>5. new \in [1 .. Len(res) + 1 -> 1 .. Len(t) + 1]
  BY <1>3, <1>4
<1>6. \A k \in 1 .. Len(res) + 1 : new[k] = cut[src[k]]
  OBVIOUS
<1>. HIDE DEF new
<1>7. new[1] = 1 /\ new[Len(res) + 1] = Len(t) + 1
  <2>1. 1 \in 1 .. Len(res) + 1 /\ Len(res) + 1 \in 1 .. Len(res) + 1
    BY <1>3
  <2>2. QED
    BY <1>3, <1>4, <1>6, <2>1
<1>8. ASSUME NEW k \in 1 .. Len(res), NEW m \in 1 .. Len(res) + 1, m = k + 1
      PROVE  Stands(t, vals, res[k], new[k], new[m])
  <2>1. PICK p, q : p = src[k] /\ q = src[m]
    OBVIOUS
  <2>2. /\ p \in 1 .. Len(out) + 1 /\ q \in 1 .. Len(out) + 1 /\ new[k] = cut[p] /\ new[m] = cut[q]
    <3>1. k \in 1 .. Len(res) + 1
      BY <1>3
    <3>2. QED
      BY <1>3, <1>6, <2>1, <3>1
  <2>3. TakenStep(out, w, res[k], p, q)
    BY <1>2, <1>8, <2>1 DEF Traces
  <2>4. CASE Occurs(w, out, p) /\ res[k] = Redacted /\ q = p + Len(w)
    <3>1. p \in 1 .. Len(out)
      BY <1>3, <2>2, <2>4
    <3>2. Occurs(w, t, cut[p]) /\ cut[q] = cut[p] + Len(w)
      BY <2>4, <3>1, OccurrenceSpelled
    <3>3. QED
      BY <2>2, <2>4, <3>2 DEF Stands
  <2>5. CASE res[k] = out[p] /\ q = p + 1
    <3>1. p \in 1 .. Len(out)
      BY <1>3, <2>2, <2>5
    <3>2. Stands(t, vals, out[p], cut[p], cut[q])
      BY <2>2, <2>5, <3>1 DEF Spells
    <3>3. QED
      BY <2>2, <2>5, <3>2
  <2>6. QED
    BY <2>3, <2>4, <2>5 DEF TakenStep
<1>9. Spells(res, t, vals, new)
  BY <1>3, <1>5, <1>7, <1>8 DEF Spells
<1>10. QED
  BY <1>2, <1>9

\* What is scrubbed spells what there was.
LEMMA ScrubSpells ==
    ASSUME NEW t \in Seq(Letter), NEW order \in Seq(Known), NEW vals,
           \A i \in 1 .. Len(order) : order[i] \in vals
    PROVE  \E cut : Spells(Scrub(t, order), t, vals, cut)
<1>. DEFINE n == Len(order)
<1>1. n \in Nat /\ t \in Seq(Mark)
      /\ \A k \in 1 .. n : order[k] \in Seq(Letter) /\ order[k] # <<>> /\ order[k] \in vals
  BY DEF Known, Mark
<1>2. PICK run : /\ run \in [0 .. n -> Seq(Mark)] /\ Scrubs(run, t, order)
                 /\ Scrub(t, order) = run[n]
  BY <1>1, ScrubRuns
<1>. HIDE DEF n
<1>. DEFINE T == {k \in 0 .. n : \E cut : Spells(run[k], t, vals, cut)}
<1>3. 0 \in T
  <2>1. run[0] = t
    BY <1>2 DEF Scrubs
  <2>2. \E cut : Spells(run[0], t, vals, cut)
    BY <2>1, SpellsItself
  <2>3. 0 \in 0 .. n
    BY <1>1
  <2>4. QED
    BY <2>2, <2>3, Zenon
<1>4. ASSUME NEW k \in 0 .. n - 1, k \in T PROVE k + 1 \in T
  <2>1. PICK j : j = k + 1
    OBVIOUS
  <2>2. j \in 1 .. n /\ k \in 0 .. n /\ j \in 0 .. n
    BY <1>1, <2>1
  <2>3. PICK w, u : w = order[j] /\ u = run[k]
    OBVIOUS
  <2>4. w \in Seq(Letter) /\ w # <<>> /\ w \in vals
    BY <1>1, <2>2, <2>3
  <2>5. run[j] = ReplaceEvery(u, w)
    BY <1>2, <2>1, <2>2, <2>3 DEF Scrubs, n
  <2>6. PICK cut : Spells(u, t, vals, cut)
    BY <1>4, <2>3
  <2>7. \E new : Spells(run[j], t, vals, new)
    BY <2>4, <2>5, <2>6, SpellsOn
  <2>8. QED
    BY <2>1, <2>2, <2>7
<1>5. n \in T
  <2>. HIDE DEF T
  <2>1. 0 .. n \subseteq T
    BY <1>1, <1>3, <1>4, Upward
  <2>2. QED
    BY <1>1, <2>1
<1>6. QED
  BY <1>2, <1>5

-----------------------------------------------------------------------------
(***************************************************************************)
(* An order in which KnownValues takes the secrets has each of them once.  *)
(***************************************************************************)
Orders(vals, order) ==
    /\ order \in Seq(Known)
    /\ \A i \in 1 .. Len(order) : order[i] \in vals
    /\ \A i, j \in 1 .. Len(order) : i < j => Len(order[i]) >= Len(order[j])
    /\ \A i, j \in 1 .. Len(order) : i # j => order[i] # order[j]
    /\ \A v \in vals : \E i \in 1 .. Len(order) : order[i] = v

\* It is a sequence of them, longest first, with none left out and none twice.
LEMMA Ordered ==
    ASSUME NEW known \in SUBSET Seq(Letter), IsFiniteSet(known), NEW order \in KnownValues(known)
    PROVE  Orders(known \ {<<>>}, order)
<1>. DEFINE vals == known \ {<<>>}
<1>1. vals \in SUBSET Known /\ vals \in SUBSET known
  BY DEF Known
<1>2. IsFiniteSet(vals)
  BY <1>1, FS_Subset
<1>3. PICK n : n = Cardinality(vals)
  OBVIOUS
<1>4. n \in Nat
  BY <1>2, <1>3, FS_CardinalityType
<1>5. /\ order \in [1 .. n -> vals]
      /\ \A i, j \in 1 .. n : i # j => order[i] # order[j]
      /\ \A i, j \in DOMAIN order : i < j => Len(order[i]) >= Len(order[j])
  BY <1>3 DEF KnownValues, SetToSeqs
<1>. HIDE DEF vals
<1>6. order \in Seq(Known) /\ Len(order) = n /\ DOMAIN order = 1 .. n
  <2>1. order \in [1 .. n -> Known]
    BY <1>1, <1>5
  <2>2. QED
    BY <1>4, <2>1
<1>7. Cardinality(1 .. n) = n /\ IsFiniteSet(1 .. n)
  BY <1>4, FS_Interval
<1>8. order \in Injection(1 .. n, vals)
  BY <1>5 DEF Injection, IsInjective
<1>9. order \in Surjection(1 .. n, vals)
  BY <1>2, <1>3, <1>7, <1>8, FS_Injection
<1>10. \A v \in vals : \E i \in 1 .. n : order[i] = v
  BY <1>9 DEF Surjection
<1>11. QED
  BY <1>5, <1>6, <1>10 DEF Orders, vals

Neutral(vals) == {c \in Letter : \A w \in vals : c \notin ToSet(w)}

Embeds(t, order, v, c) ==
    Scrub(t \o <<c>> \o v \o <<c>>, order) = Scrub(t, order) \o <<c, Redacted, c>>

\* A secret between two letters that no secret has is replaced whole.
LEMMA ScrubEmbeds ==
    ASSUME NEW t \in Seq(Letter), NEW vals, NEW order, Orders(vals, order), NEW v \in vals,
           NEW neutral \in Neutral(vals)
    PROVE  Embeds(t, order, v, neutral)
<1>. USE DEF Embeds, Neutral
<1>1. PICK m \in 1 .. Len(order) : order[m] = v
  BY DEF Orders
<1>2. /\ order \in Seq(Known)
      /\ \A i \in 1 .. Len(order) : neutral \notin ToSet(order[i])
      /\ Scrub(v, order) = <<Redacted>>
  <2>1. Scrub(order[m], order) = <<Redacted>>
    BY ScrubWhole DEF Orders
  <2>2. QED
    BY <1>1, <2>1 DEF Orders
<1>3. /\ t \in Seq(Mark) /\ v \in Seq(Mark) /\ neutral \in Mark /\ <<>> \in Seq(Mark)
  <2>1. v \in Seq(Letter)
    BY <1>1, <1>2 DEF Known
  <2>2. QED
    BY <2>1 DEF Mark
<1>4. PICK r : r = Scrub(t, order)
  OBVIOUS
<1>5. r \in Seq(Mark)
  <2>1. PICK run : /\ run \in [0 .. Len(order) -> Seq(Mark)]
                   /\ Scrub(t, order) = run[Len(order)]
    BY <1>2, <1>3, ScrubRuns
  <2>2. Len(order) \in 0 .. Len(order)
    BY <1>2
  <2>3. QED
    BY <1>4, <2>1, <2>2
<1>6. PICK a : a = t \o <<neutral>> \o v
  OBVIOUS
<1>7. a \in Seq(Mark)
  BY <1>3, <1>6
<1>8. Scrub(a, order) = r \o <<neutral>> \o <<Redacted>>
  <2>1. Scrub(t \o <<neutral>> \o v, order) = Scrub(t, order) \o <<neutral>> \o Scrub(v, order)
    <3>1. order \in Seq(Known) /\ \A i \in 1 .. Len(order) : neutral \notin ToSet(order[i])
      BY <1>2
    <3>2. t \in Seq(Mark) /\ v \in Seq(Mark) /\ neutral \in Mark
      BY <1>3
    <3>3. QED
      BY <3>1, <3>2, ScrubSeparated
  <2>2. QED
    BY <1>2, <1>4, <1>6, <2>1
<1>9. PICK s : s = a \o <<neutral>> \o <<>>
  OBVIOUS
<1>10. Scrub(s, order) = Scrub(a, order) \o <<neutral>> \o Scrub(<<>>, order)
  BY <1>2, <1>3, <1>7, <1>9, ScrubSeparated
<1>11. Scrub(<<>>, order) = <<>>
  BY <1>2, ScrubNothing
<1>12. s = t \o <<neutral>> \o v \o <<neutral>>
  BY <1>3, <1>6, <1>7, <1>9
<1>13. Scrub(s, order) = r \o <<neutral, Redacted, neutral>>
  <2>1. <<Redacted>> \in Seq(Mark)
    BY DEF Mark
  <2>2. Scrub(s, order) = ((r \o <<neutral>> \o <<Redacted>>) \o <<neutral>>) \o <<>>
    BY <1>8, <1>10, <1>11
  <2>3. QED
    BY <1>3, <1>5, <2>1, <2>2
<1>14. QED
  BY <1>4, <1>12, <1>13

\* Two cuts of a string, one behind the other, are one.
LEMMA CutsJoin ==
    ASSUME NEW t \in Seq(Letter), NEW p \in 1 .. Len(t) + 1, NEW q \in p .. Len(t) + 1
    PROVE  SubSeq(t, 1, p - 1) \o SubSeq(t, p, q - 1) = SubSeq(t, 1, q - 1)
<1>1. PICK a, b, c : a = SubSeq(t, 1, p - 1) /\ b = SubSeq(t, p, q - 1) /\ c = SubSeq(t, 1, q - 1)
  OBVIOUS
<1>2. /\ a \in Seq(Letter) /\ Len(a) = p - 1 /\ \A k \in 1 .. Len(a) : a[k] = t[k]
      /\ b \in Seq(Letter) /\ Len(b) = q - p /\ \A k \in 1 .. Len(b) : b[k] = t[p + k - 1]
      /\ c \in Seq(Letter) /\ Len(c) = q - 1 /\ \A k \in 1 .. Len(c) : c[k] = t[k]
  BY SMTT(30), <1>1
<1>3. PICK d : d = a \o b
  OBVIOUS
<1>4. /\ d \in Seq(Letter) /\ Len(d) = q - 1
      /\ \A k \in 1 .. Len(a) : d[k] = a[k]
      /\ \A k \in 1 .. Len(d), j \in 1 .. Len(b) : k = Len(a) + j => d[k] = b[j]
  <2>1. d \in Seq(Letter) /\ Len(d) = Len(a) + Len(b)
    <3>1. a \in Seq(Letter) /\ b \in Seq(Letter)
      BY <1>2
    <3>2. QED
      BY <1>3, <3>1
  <2>2. Len(a) + Len(b) = q - 1
    BY <1>2
  <2>3. \A k \in 1 .. Len(a) : d[k] = a[k]
    BY <1>2, <1>3
  <2>4. ASSUME NEW k \in 1 .. Len(d), NEW j \in 1 .. Len(b), k = Len(a) + j PROVE d[k] = b[j]
    <3>1. k - Len(a) = j /\ ~(k <= Len(a))
      BY <1>2, <2>4
    <3>2. QED
      BY SMTT(30), <1>2, <1>3, <2>1, <3>1
  <2>5. QED
    BY <2>1, <2>2, <2>3, <2>4
<1>5. ASSUME NEW k \in 1 .. q - 1 PROVE d[k] = c[k]
  <2>1. CASE k \in 1 .. p - 1
    BY <1>2, <1>4, <2>1
  <2>2. CASE k \notin 1 .. p - 1
    <3>1. PICK j : j = k - (p - 1)
      OBVIOUS
    <3>2. j \in 1 .. Len(b) /\ k = Len(a) + j /\ k \in 1 .. Len(d) /\ p + j - 1 = k
      BY <1>2, <1>4, <2>2, <3>1
    <3>3. QED
      BY <1>2, <1>4, <3>2
  <2>3. QED
    BY <2>1, <2>2
<1>6. d = c
  BY <1>2, <1>4, <1>5
<1>7. QED
  BY <1>1, <1>3, <1>6

(***************************************************************************)
(* Putting back what the placeholders stand for gives the string.          *)
(***************************************************************************)
Gaps(out) == {i \in DOMAIN out : out[i] = Redacted}

PutBack(out, t, vals) ==
    \E value \in [Gaps(out) -> vals] :
        FlattenSeq([i \in DOMAIN out |->
                        IF i \in Gaps(out) THEN value[i] ELSE <<out[i]>>]) = t

\* The letters and what the placeholders stand for, joined.
LEMMA SpelledOut ==
    ASSUME NEW t \in Seq(Letter), NEW vals \in SUBSET Known, NEW out, NEW cut,
           Spells(out, t, vals, cut)
    PROVE  PutBack(out, t, vals)
<1>. DEFINE gaps == Gaps(out)
<1>1. PICK n : n = Len(out)
  OBVIOUS
<1>2. PICK e : e = Len(t) + 1
  OBVIOUS
<1>3. /\ n \in Nat /\ e \in Nat /\ DOMAIN out = 1 .. n /\ cut \in [1 .. n + 1 -> 1 .. e]
      /\ cut[1] = 1 /\ cut[n + 1] = e
      /\ \A k \in 1 .. n, m \in 1 .. n + 1 : m = k + 1 => Stands(t, vals, out[k], cut[k], cut[m])
  BY <1>1, <1>2 DEF Spells
<1>. DEFINE part(k) == SubSeq(t, cut[k], cut[k + 1] - 1)
            value == [i \in gaps |-> part(i)]
            seqs == [i \in DOMAIN out |-> IF i \in gaps THEN value[i] ELSE <<out[i]>>]
<1>4. ASSUME NEW k \in 1 .. n
      PROVE  /\ cut[k] \in 1 .. e /\ cut[k + 1] \in cut[k] .. e
             /\ k \in gaps => part(k) \in vals
             /\ k \notin gaps => part(k) = <<out[k]>>
             /\ part(k) \in Seq(Letter)
  <2>1. PICK m, p, q, c : m = k + 1 /\ p = cut[k] /\ q = cut[m] /\ c = out[k]
    OBVIOUS
  <2>2. m \in 1 .. n + 1 /\ p \in 1 .. e /\ q \in 1 .. e /\ Stands(t, vals, c, p, q)
    BY <1>3, <2>1
  <2>3. CASE k \in gaps
    <3>1. c = Redacted
      BY <2>1, <2>3 DEF Gaps
    <3>2. PICK v \in vals : Occurs(v, t, p) /\ q = p + Len(v)
      BY <2>2, <3>1 DEF Stands
    <3>3. v \in Seq(Letter) /\ Len(v) \in Nat
      BY DEF Known
    <3>4. q \in p .. e /\ q - 1 = p + Len(v) - 1
      BY <1>3, <2>2, <3>2, <3>3
    <3>5. SubSeq(t, p, q - 1) = v
      BY <3>2, <3>4 DEF Occurs
    <3>6. QED
      BY <2>1, <2>2, <2>3, <3>3, <3>4, <3>5
  <2>4. CASE k \notin gaps
    <3>1. c # Redacted
      BY <1>3, <2>1, <2>4 DEF Gaps
    <3>2. t[p] = c /\ q = p + 1
      BY <2>2, <3>1 DEF Stands
    <3>3. p \in 1 .. Len(t) /\ q \in p .. e
      BY <1>2, <1>3, <2>2, <3>2
    <3>4. SubSeq(t, p, p) = <<t[p]>> /\ <<t[p]>> \in Seq(Letter)
      <4>1. PICK s : s = SubSeq(t, p, p)
        OBVIOUS
      <4>2. p \in Nat /\ p <= Len(t) /\ p - p + 1 = 1
        BY <3>3
      <4>3. s \in Seq(Letter) /\ Len(s) = 1 /\ s[1] = t[p]
        BY <3>3, <4>1, <4>2
      <4>4. s = <<s[1]>>
        BY <4>3
      <4>5. t[p] \in Letter
        BY <3>3
      <4>6. QED
        BY <4>1, <4>3, <4>4, <4>5
    <3>5. q - 1 = p
      BY <3>2, <3>3
    <3>6. QED
      BY <2>1, <2>2, <2>4, <3>2, <3>3, <3>4, <3>5
  <2>5. QED
    BY <2>3, <2>4
<1>5. value \in [gaps -> vals]
  <2>1. \A k \in gaps : k \in 1 .. n
    BY <1>3 DEF Gaps
  <2>2. QED
    BY <1>4, <2>1
<1>6. seqs \in Seq(Seq(Letter)) /\ Len(seqs) = n /\ \A k \in 1 .. n : seqs[k] = part(k)
  <2>1. \A k \in 1 .. n : seqs[k] = part(k) /\ part(k) \in Seq(Letter)
    BY <1>3, <1>4
  <2>2. seqs \in [1 .. n -> Seq(Letter)]
    <3>1. DOMAIN seqs = 1 .. n /\ seqs = [k \in 1 .. n |-> seqs[k]]
      BY <1>3
    <3>2. QED
      BY <2>1, <3>1
  <2>. HIDE DEF seqs, part
  <2>3. QED
    BY <1>3, <2>1, <2>2
<1>. HIDE DEF seqs, value
<1>7. PICK flat \in [0 .. n -> Seq(Letter)] : Joins(flat, seqs) /\ FlattenSeq(seqs) = flat[n]
  BY <1>6, FlattenJoins
<1>. DEFINE T == {k \in 0 .. n : flat[k] = SubSeq(t, 1, cut[k + 1] - 1)}
<1>8. 0 \in T
  <2>1. SubSeq(t, 1, 0) = <<>> /\ 0 \in 0 .. n /\ 0 + 1 = 1 /\ cut[1] - 1 = 0
    BY <1>3
  <2>2. flat[0] = <<>>
    BY <1>7 DEF Joins
  <2>3. QED
    BY <2>1, <2>2
<1>9. ASSUME NEW k \in 0 .. n - 1, k \in T PROVE k + 1 \in T
  <2>1. PICK j : j = k + 1
    OBVIOUS
  <2>2. j \in 1 .. n /\ j - 1 = k
    BY <1>3, <2>1
  <2>3. flat[j] = flat[k] \o part(j)
    BY <1>6, <1>7, <2>2 DEF Joins
  <2>4. PICK p, q : p = cut[j] /\ q = cut[j + 1]
    OBVIOUS
  <2>5. p \in 1 .. Len(t) + 1 /\ q \in p .. Len(t) + 1
    BY <1>2, <1>4, <2>2, <2>4
  <2>6. flat[k] = SubSeq(t, 1, p - 1)
    BY <1>9, <2>1, <2>4
  <2>7. flat[j] = SubSeq(t, 1, q - 1)
    BY <2>3, <2>4, <2>5, <2>6, CutsJoin
  <2>8. QED
    BY <1>3, <2>1, <2>2, <2>4, <2>7
<1>10. n \in T
  <2>. HIDE DEF T
  <2>1. 0 .. n \subseteq T
    BY <1>3, <1>8, <1>9, Upward
  <2>2. QED
    BY <1>3, <2>1
<1>11. FlattenSeq(seqs) = t
  <2>1. SubSeq(t, 1, e - 1) = t
    BY <1>2
  <2>2. QED
    BY <1>3, <1>7, <1>10, <2>1
<1>12. QED
  BY <1>5, <1>11 DEF seqs, PutBack

-----------------------------------------------------------------------------
\* Finitely many secrets are known, and both they and the text are made of
\* letters.
TextTypeOK == secrets \subseteq Seq(Letter) /\ IsFiniteSet(secrets) /\ text \in Seq(Letter)

(***************************************************************************)
(* No value of a header holds a secret, and a credential position is       *)
(* replaced whole.                                                         *)
(***************************************************************************)
LEMMA HeadersClean ==
    ASSUME NEW t \in Seq(Letter), NEW vals, NEW order, Orders(vals, order),
           NEW name \in RecordedName, NEW headers,
           headers = RedactHeaders([n \in RecordedName |-> <<t, t>>], order)
    PROVE  /\ LowerName[name] \in CredentialPosition => headers[name] = <<<<Redacted>>>>
           /\ \A v \in vals, i \in DOMAIN headers[name] : ~Holds(headers[name][i], v)
<1>1. PICK r : r = Scrub(t, order)
  OBVIOUS
<1>2. headers[name] = IF LowerName[name] \in CredentialPosition THEN <<<<Redacted>>>>
                      ELSE [i \in DOMAIN <<t, t>> |-> Scrub(<<t, t>>[i], order)]
  BY DEF RedactHeaders, IsCredential
<1>3. ASSUME NEW v \in vals PROVE ~Holds(r, v) /\ ~Holds(<<Redacted>>, v)
  <2>1. PICK m \in 1 .. Len(order) : order[m] = v
    BY DEF Orders
  <2>2. order \in Seq(Known) /\ t \in Seq(Mark) /\ v \in Known
    BY <2>1 DEF Orders, Mark
  <2>3. ~Holds(r, v)
    BY <1>1, <2>1, <2>2, NoneHeld
  <2>4. QED
    BY <2>2, <2>3, HoldsNone
<1>4. CASE LowerName[name] \in CredentialPosition
  <2>1. headers[name] = <<<<Redacted>>>>
    BY <1>2, <1>4
  <2>2. PICK p : p = <<Redacted>>
    OBVIOUS
  <2>3. \A v \in vals, i \in DOMAIN <<p>> : ~Holds(<<p>>[i], v)
    BY <1>3, <2>2
  <2>4. QED
    BY <2>1, <2>2, <2>3
<1>5. CASE LowerName[name] \notin CredentialPosition
  <2>1. DOMAIN <<t, t>> = 1 .. 2 /\ \A i \in 1 .. 2 : <<t, t>>[i] = t
    OBVIOUS
  <2>2. headers[name] = [i \in 1 .. 2 |-> r]
    BY <1>1, <1>2, <1>5, <2>1
  <2>3. QED
    BY <1>3, <1>5, <2>2
<1>6. QED
  BY <1>4, <1>5

(***************************************************************************)
(* Redaction of any string of letters is exact.                            *)
(***************************************************************************)
LEMMA TypedExact == TextTypeOK => RedactedExactly
<1>. SUFFICES ASSUME TextTypeOK, NEW order \in KnownValues(secrets),
                     NEW out, out = Scrub(text, order),
                     NEW headers,
                     headers = RedactHeaders([n \in RecordedName |-> <<text, text>>], order),
                     NEW gaps, gaps = {i \in DOMAIN out : out[i] = Redacted}
              PROVE  /\ \A name \in RecordedName :
                          /\ LowerName[name] \in CredentialPosition =>
                               headers[name] = <<<<Redacted>>>>
                          /\ \A v \in Values, i \in DOMAIN headers[name] :
                               ~Holds(headers[name][i], v)
                     /\ \A v \in Values :
                          /\ ~Holds(out, v)
                          /\ \A neutral \in Letter \ UNION {ToSet(w) : w \in Values} :
                               Scrub(text \o <<neutral>> \o v \o <<neutral>>, order)
                                 = out \o <<neutral, Redacted, neutral>>
                     /\ \E value \in [gaps -> Values] :
                          FlattenSeq([i \in DOMAIN out |->
                                        IF i \in gaps THEN value[i] ELSE <<out[i]>>]) = text
  BY DEF RedactedExactly
<1>1. text \in Seq(Letter) /\ text \in Seq(Mark)
  BY DEF TextTypeOK, Mark
<1>2. Orders(Values, order)
  BY Ordered DEF TextTypeOK, Values
<1>3. Values \in SUBSET Known
  BY DEF TextTypeOK, Values, Known
<1>4. \A name \in RecordedName :
         /\ LowerName[name] \in CredentialPosition => headers[name] = <<<<Redacted>>>>
         /\ \A v \in Values, i \in DOMAIN headers[name] : ~Holds(headers[name][i], v)
  BY <1>1, <1>2, HeadersClean, Zenon
<1>5. ASSUME NEW v \in Values PROVE ~Holds(out, v)
  <2>1. order \in Seq(Known) /\ \E i \in 1 .. Len(order) : order[i] = v
    BY <1>2 DEF Orders
  <2>2. QED
    BY <1>1, <2>1, NoneHeld
<1>6. ASSUME NEW v \in Values, NEW neutral \in Letter \ UNION {ToSet(w) : w \in Values}
      PROVE  Scrub(text \o <<neutral>> \o v \o <<neutral>>, order)
               = out \o <<neutral, Redacted, neutral>>
  <2>1. neutral \in Letter /\ \A w \in Values : neutral \notin ToSet(w)
    OBVIOUS
  <2>2. PICK t, vals : t = text /\ vals = Values
    OBVIOUS
  <2>3. /\ t \in Seq(Letter) /\ Orders(vals, order) /\ v \in vals /\ neutral \in Neutral(vals)
    BY <1>1, <1>2, <2>1, <2>2 DEF Neutral
  <2>4. Embeds(t, order, v, neutral)
    BY <2>3, ScrubEmbeds
  <2>5. QED
    BY <2>2, <2>4 DEF Embeds
<1>7. \E value \in [gaps -> Values] :
         FlattenSeq([i \in DOMAIN out |-> IF i \in gaps THEN value[i] ELSE <<out[i]>>]) = text
  <2>1. PICK cut : Spells(out, text, Values, cut)
    <3>1. order \in Seq(Known) /\ \A i \in 1 .. Len(order) : order[i] \in Values
      BY <1>2 DEF Orders
    <3>2. QED
      BY <1>1, <3>1, ScrubSpells
  <2>2. PICK t, vals : t = text /\ vals = Values
    OBVIOUS
  <2>3. /\ t \in Seq(Letter) /\ vals \in SUBSET Known /\ Spells(out, t, vals, cut)
    BY <1>1, <1>3, <2>1, <2>2
  <2>4. PutBack(out, t, vals)
    BY <2>3, SpelledOut
  <2>5. gaps = Gaps(out)
    BY DEF Gaps
  <2>6. QED
    BY <2>2, <2>4, <2>5 DEF PutBack
<1>8. QED
  BY <1>4, <1>5, <1>6, <1>7

(***************************************************************************)
(* RedactedExactly, for any secrets and any string: the recorder's         *)
(* replacement leaves no secret that is known, whatever the order of       *)
(* secrets of one length, replaces a secret that embeds another whole, and *)
(* takes nothing else away.                                                *)
(***************************************************************************)
THEOREM RedactionExact == TextSpec => []RedactedExactly
<1>1. TextInit => TextTypeOK
  <2>1. <<>> \in Seq(Letter)
    OBVIOUS
  <2>2. QED
    BY <2>1 DEF TextInit, TextTypeOK
<1>2. TextTypeOK /\ [Grow]_<<secrets, text>> => TextTypeOK'
  <2>1. SUFFICES ASSUME TextTypeOK, [Grow]_<<secrets, text>> PROVE TextTypeOK'
    OBVIOUS
  <2>2. CASE Grow
    <3>1. secrets' = secrets /\ text' \in Seq(Letter)
      BY <2>1, <2>2 DEF Grow, TextTypeOK
    <3>2. QED
      BY <2>1, <3>1 DEF TextTypeOK
  <2>3. CASE UNCHANGED <<secrets, text>>
    BY <2>1, <2>3 DEF TextTypeOK
  <2>4. QED
    BY <2>1, <2>2, <2>3
<1>3. QED
  BY <1>1, <1>2, TypedExact, PTL DEF TextSpec
=============================================================================
