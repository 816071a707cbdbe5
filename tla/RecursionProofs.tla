--------------------------- MODULE RecursionProofs ---------------------------
(***************************************************************************)
(* Induction and recursion, in the form in which the proofs about folds    *)
(* and recursive functions need them.  The principles are stated with sets *)
(* in the place of predicates: T is the set of what has been proved.       *)
(***************************************************************************)
EXTENDS Integers, Sequences, SequencesExt, WellFoundedInduction, TLAPS

LessThan == {pair \in Nat \X Nat : pair[1] < pair[2]}

\* No number has infinitely many below it.
LEMMA LessThanWellFounded == IsWellFoundedOn(LessThan, Nat)
BY Zenon, NatLessThanWellFounded DEF OpToRel, LessThan

(***************************************************************************)
(* Induction over the natural numbers: of what is not in T there would be  *)
(* a least one.                                                            *)
(***************************************************************************)
LEMMA Induction ==
    ASSUME NEW T \in SUBSET Nat, 0 \in T, \A n \in T : n + 1 \in T
    PROVE  T = Nat
<1>. DEFINE U == Nat \ T
<1>1. SUFFICES ASSUME U # {} PROVE FALSE
  OBVIOUS
<1>2. \E x \in U : \A y \in U : ~ (<<y, x>> \in LessThan)
  <2>1. U \subseteq Nat
    OBVIOUS
  <2>. HIDE DEF U
  <2>2. QED
    BY <1>1, <2>1, LessThanWellFounded, WFMin, Zenon
<1>3. PICK x \in U : \A y \in U : ~ (<<y, x>> \in LessThan)
  BY <1>2
<1>4. x \in Nat /\ x # 0
  OBVIOUS
<1>5. x - 1 \in Nat /\ x - 1 < x /\ (x - 1) + 1 = x
  BY <1>4
<1>6. x - 1 \in T
  <2>1. \A y \in Nat : y < x => <<y, x>> \in LessThan
    BY <1>4 DEF LessThan
  <2>2. QED
    BY <1>3, <1>5, <2>1
<1>7. QED
  BY <1>5, <1>6

\* Up to a bound.
LEMMA Upward ==
    ASSUME NEW n \in Nat, NEW T, 0 \in T,
           \A k \in 0 .. n - 1 : k \in T => k + 1 \in T
    PROVE  0 .. n \subseteq T
<1>. DEFINE S == {k \in Nat : k <= n => k \in T}
<1>1. 0 \in S /\ \A k \in S : k + 1 \in S
  OBVIOUS
<1>2. S = Nat
  <2>. HIDE DEF S
  <2>1. S \in SUBSET Nat
    BY DEF S
  <2>2. QED
    BY <1>1, <2>1, Induction
<1>3. QED
  BY <1>2

\* Down from a bound, with everything behind a place known.
LEMMA Downward ==
    ASSUME NEW n \in Nat, NEW T,
           \A i \in 1 .. n : (\A j \in i + 1 .. n : j \in T) => i \in T
    PROVE  1 .. n \subseteq T
<1>. DEFINE S == {k \in Nat : \A i \in 1 .. n : i > n - k => i \in T}
<1>1. 0 \in S
  OBVIOUS
<1>2. ASSUME NEW k \in S PROVE k + 1 \in S
  <2>1. ASSUME NEW i \in 1 .. n, i > n - (k + 1) PROVE i \in T
    <3>1. \A j \in i + 1 .. n : j \in T
      BY <2>1
    <3>2. QED
      BY <3>1
  <2>2. QED
    BY <2>1
<1>3. n \in S
  <2>. HIDE DEF S
  <2>1. S \in SUBSET Nat
    BY DEF S
  <2>2. S = Nat
    BY <1>1, <1>2, <2>1, Induction
  <2>3. QED
    BY <2>2
<1>4. QED
  BY <1>3
-----------------------------------------------------------------------------
\* A set of numbers up to k that is not empty has a greatest one.
LEMMA GreatestExists ==
    ASSUME NEW k \in Nat, NEW s \in SUBSET (1 .. k), s # {}
    PROVE  \E m \in s : \A y \in s : m >= y
<1>. DEFINE T == {j \in 0 .. k : \A t \in SUBSET (1 .. j) :
                                    t # {} => \E m \in t : \A y \in t : m >= y}
<1>1. 0 \in T
  <2>1. 0 \in 0 .. k /\ \A t \in SUBSET (1 .. 0) : t = {}
    OBVIOUS
  <2>2. QED
    BY <2>1
<1>2. ASSUME NEW j \in 0 .. k - 1, j \in T PROVE j + 1 \in T
  <2>1. ASSUME NEW t \in SUBSET (1 .. j + 1), t # {} PROVE \E m \in t : \A y \in t : m >= y
    <3>1. CASE j + 1 \in t
      BY <3>1
    <3>2. CASE j + 1 \notin t
      <4>1. t \in SUBSET (1 .. j)
        BY <3>2
      <4>2. QED
        BY <1>2, <2>1, <4>1
    <3>3. QED
      BY <3>1, <3>2
  <2>2. QED
    BY <2>1
<1>3. 0 .. k \subseteq T
  <2>. HIDE DEF T
  <2>1. QED
    BY <1>1, <1>2, Upward
<1>4. QED
  BY <1>3

\* Max is the greatest, and what is left without it has the bound it had.
LEMMA MaxGreatest ==
    ASSUME NEW k \in Nat, NEW s \in SUBSET (1 .. k), s # {}
    PROVE  Max(s) \in s /\ (\A y \in s : Max(s) >= y) /\ s \ {Max(s)} \in SUBSET (1 .. k)
<1>1. Max(s) \in s /\ \A y \in s : Max(s) >= y
  BY GreatestExists, Zenon DEF Max
<1>2. QED
  BY <1>1

\* The greatest of an interval is its end.
LEMMA MaxInterval ==
    ASSUME NEW k \in Nat, k # 0
    PROVE  Max(1 .. k) = k /\ (1 .. k) \ {k} = 1 .. k - 1 /\ 1 .. k # {}
<1>1. k \in 1 .. k /\ (1 .. k) \ {k} = 1 .. k - 1
  OBVIOUS
<1>2. Max(1 .. k) \in 1 .. k /\ Max(1 .. k) >= k
  BY <1>1, MaxGreatest
<1>3. QED
  BY <1>1, <1>2

(***************************************************************************)
(* The recursion behind FoldLeft, which takes the greatest index away and  *)
(* folds the rest first, has a solution.                                   *)
(***************************************************************************)
FoldsUp(fold, n, base, step) ==
    \A s \in SUBSET (1 .. n) :
       fold[s] = IF s = {} THEN base ELSE step[Max(s)][fold[s \ {Max(s)}]]

\* Set by set, from the empty one.
LEMMA FoldExists ==
    ASSUME NEW n \in Nat, NEW D, NEW base \in D, NEW step \in [1 .. n -> [D -> D]]
    PROVE  \E fold \in [SUBSET (1 .. n) -> D] : FoldsUp(fold, n, base, step)
<1>. DEFINE Folds(fold, k) ==
              \A s \in SUBSET (1 .. k) :
                 fold[s] = IF s = {} THEN base ELSE step[Max(s)][fold[s \ {Max(s)}]]
            T == {k \in 0 .. n : \E fold \in [SUBSET (1 .. k) -> D] : Folds(fold, k)}
<1>1. 0 \in T
  <2>. DEFINE fold == [s \in SUBSET (1 .. 0) |-> base]
  <2>1. fold \in [SUBSET (1 .. 0) -> D]
    OBVIOUS
  <2>2. \A s \in SUBSET (1 .. 0) : s = {}
    OBVIOUS
  <2>3. Folds(fold, 0)
    BY <2>2
  <2>. HIDE DEF fold, Folds
  <2>4. \E f \in [SUBSET (1 .. 0) -> D] : Folds(f, 0)
    BY <2>1, <2>3
  <2>5. 0 \in 0 .. n
    OBVIOUS
  <2>6. QED
    BY <2>4, <2>5, Zenon
<1>2. ASSUME NEW k \in 0 .. n - 1, k \in T PROVE k + 1 \in T
  <2>1. PICK old \in [SUBSET (1 .. k) -> D] : Folds(old, k)
    BY <1>2
  <2>. DEFINE new == [s \in SUBSET (1 .. k + 1) |->
                         IF k + 1 \in s THEN step[k + 1][old[s \ {k + 1}]] ELSE old[s]]
  <2>2. \A s \in SUBSET (1 .. k + 1) :
            /\ k + 1 \in s => s \ {k + 1} \in SUBSET (1 .. k)
            /\ k + 1 \notin s => s \in SUBSET (1 .. k)
    OBVIOUS
  <2>3. new \in [SUBSET (1 .. k + 1) -> D]
    <3>1. ASSUME NEW s \in SUBSET (1 .. k + 1)
          PROVE  (IF k + 1 \in s THEN step[k + 1][old[s \ {k + 1}]] ELSE old[s]) \in D
      <4>1. CASE k + 1 \in s
        <5>1. old[s \ {k + 1}] \in D
          BY <2>2, <4>1
        <5>2. step[k + 1] \in [D -> D]
          BY <5>1
        <5>3. QED
          BY <4>1, <5>2
      <4>2. CASE k + 1 \notin s
        BY <2>2, <4>2
      <4>3. QED
        BY <4>1, <4>2
    <3>2. QED
      BY <3>1
  <2>4. ASSUME NEW s \in SUBSET (1 .. k + 1)
        PROVE  new[s] = IF s = {} THEN base ELSE step[Max(s)][new[s \ {Max(s)}]]
    <3>1. CASE k + 1 \in s
      <4>1. Max(s) = k + 1
        <5>1. Max(s) \in s /\ Max(s) >= k + 1
          BY <3>1, MaxGreatest
        <5>2. Max(s) \in 1 .. k + 1
          BY <5>1
        <5>3. QED
          BY <5>1, <5>2
      <4>2. new[s \ {k + 1}] = old[s \ {k + 1}] /\ new[s] = step[k + 1][old[s \ {k + 1}]]
        BY <2>2, <3>1
      <4>3. QED
        BY <3>1, <4>1, <4>2
    <3>2. CASE k + 1 \notin s
      <4>1. s \in SUBSET (1 .. k) /\ new[s] = old[s]
        BY <2>2, <3>2
      <4>2. CASE s = {}
        BY <2>1, <4>1, <4>2
      <4>3. CASE s # {}
        <5>1. s \ {Max(s)} \in SUBSET (1 .. k)
          BY <4>1, <4>3, MaxGreatest
        <5>2. s \ {Max(s)} \in SUBSET (1 .. k + 1) /\ k + 1 \notin s \ {Max(s)}
          BY <5>1
        <5>3. new[s \ {Max(s)}] = old[s \ {Max(s)}]
          BY <5>2
        <5>4. old[s] = step[Max(s)][old[s \ {Max(s)}]]
          BY <2>1, <4>1, <4>3
        <5>5. QED
          BY <4>1, <4>3, <5>3, <5>4
      <4>4. QED
        BY <4>2, <4>3
    <3>3. QED
      BY <3>1, <3>2
  <2>5. Folds(new, k + 1)
    BY <2>4
  <2>6. k + 1 \in 0 .. n
    OBVIOUS
  <2>7. QED
    BY <2>3, <2>5, <2>6
<1>3. n \in T
  <2>. HIDE DEF T
  <2>1. 0 .. n \subseteq T
    BY <1>1, <1>2, Upward
  <2>2. QED
    BY <2>1
<1>4. QED
  BY <1>3 DEF FoldsUp
(***************************************************************************)
(* The recursion behind a scan: the value at a place is known, or made of  *)
(* the value at one place further on.                                      *)
(***************************************************************************)
ScansOn(scan, n, Stop, last, next, step) ==
    \A i \in 1 .. n :
       scan[i] = IF i \in Stop THEN last[i] ELSE step[i][scan[next[i]]]

\* Place by place, from the last one.
LEMMA ScanExists ==
    ASSUME NEW n \in Nat, NEW D, NEW Stop \in SUBSET (1 .. n), NEW last \in [1 .. n -> D],
           NEW next \in [1 .. n -> 1 .. n], NEW step \in [1 .. n -> [D -> D]],
           \A i \in (1 .. n) \ Stop : next[i] > i
    PROVE  \E scan \in [1 .. n -> D] : ScansOn(scan, n, Stop, last, next, step)
<1>. DEFINE Scans(scan, k) ==
              \A i \in n - k + 1 .. n :
                 scan[i] = IF i \in Stop THEN last[i] ELSE step[i][scan[next[i]]]
            T == {k \in 0 .. n : \E scan \in [n - k + 1 .. n -> D] : Scans(scan, k)}
<1>1. 0 \in T
  <2>. DEFINE scan == [i \in n - 0 + 1 .. n |-> last[i]]
  <2>1. 0 \in 0 .. n /\ n - 0 + 1 .. n = {}
    OBVIOUS
  <2>2. scan \in [n - 0 + 1 .. n -> D] /\ Scans(scan, 0)
    BY <2>1
  <2>. HIDE DEF scan, Scans
  <2>3. QED
    BY <2>1, <2>2
<1>2. ASSUME NEW k \in 0 .. n - 1, k \in T PROVE k + 1 \in T
  <2>1. PICK old \in [n - k + 1 .. n -> D] : Scans(old, k)
    BY <1>2
  <2>. DEFINE p == n - k
              here == IF p \in Stop THEN last[p] ELSE step[p][old[next[p]]]
              new == [i \in p .. n |-> IF i = p THEN here ELSE old[i]]
  <2>2. /\ p \in 1 .. n /\ n - (k + 1) + 1 = p /\ k + 1 \in 0 .. n
        /\ \A i \in p .. n : i # p => i \in n - k + 1 .. n
    OBVIOUS
  <2>3. here \in D
    <3>1. CASE p \in Stop
      BY <2>2, <3>1
    <3>2. CASE p \notin Stop
      <4>1. next[p] \in n - k + 1 .. n
        <5>1. next[p] \in 1 .. n /\ next[p] > p
          BY <2>2, <3>2
        <5>2. QED
          BY <5>1
      <4>2. old[next[p]] \in D /\ step[p] \in [D -> D]
        BY <2>2, <4>1
      <4>3. QED
        BY <3>2, <4>2
    <3>3. QED
      BY <3>1, <3>2
  <2>4. new \in [p .. n -> D]
    <3>. HIDE DEF here, p
    <3>1. \A i \in p .. n : (IF i = p THEN here ELSE old[i]) \in D
      BY <2>2, <2>3
    <3>2. QED
      BY <3>1
  <2>5. ASSUME NEW i \in p .. n
        PROVE  new[i] = IF i \in Stop THEN last[i] ELSE step[i][new[next[i]]]
    <3>1. CASE i \in Stop
      <4>1. CASE i = p
        BY <3>1, <4>1
      <4>2. CASE i # p
        BY <2>1, <2>2, <3>1, <4>2
      <4>3. QED
        BY <4>1, <4>2
    <3>2. CASE i \notin Stop
      <4>1. next[i] \in p .. n /\ next[i] # p
        <5>1. i \in 1 .. n
          BY <2>2
        <5>2. next[i] \in 1 .. n /\ next[i] > i
          BY <3>2, <5>1
        <5>3. QED
          BY SMTT(30), <5>2
      <4>2. new[next[i]] = old[next[i]]
        BY <4>1
      <4>3. CASE i = p
        BY <3>2, <4>2, <4>3
      <4>4. CASE i # p
        <5>1. i \in n - k + 1 .. n /\ new[i] = old[i]
          BY <2>2, <4>4
        <5>2. old[i] = step[i][old[next[i]]]
          BY <2>1, <3>2, <5>1
        <5>3. QED
          BY <3>2, <4>2, <5>1, <5>2
      <4>5. QED
        BY <4>3, <4>4
    <3>3. QED
      BY <3>1, <3>2
  <2>6. new \in [n - (k + 1) + 1 .. n -> D] /\ Scans(new, k + 1)
    BY <2>2, <2>4, <2>5
  <2>. HIDE DEF new, Scans
  <2>7. QED
    BY <2>2, <2>6
<1>3. n \in T
  <2>. HIDE DEF T
  <2>1. 0 .. n \subseteq T
    BY <1>1, <1>2, Upward
  <2>2. QED
    BY <2>1
<1>4. PICK scan \in [n - n + 1 .. n -> D] : Scans(scan, n)
  BY <1>3
<1>5. n - n + 1 = 1
  OBVIOUS
<1>6. QED
  BY <1>4, <1>5 DEF ScansOn


-----------------------------------------------------------------------------
\* A recursion over places that goes up from nothing has a solution.
RunsUp(run, n, base, step) ==
    run[0] = base /\ \A k \in 1 .. n : run[k] = step[k][run[k - 1]]

\* It is the fold of the indices up to a place.
LEMMA RunExists ==
    ASSUME NEW n \in Nat, NEW D, NEW base \in D, NEW step \in [1 .. n -> [D -> D]]
    PROVE  \E run \in [0 .. n -> D] : RunsUp(run, n, base, step)
<1>1. PICK fold \in [SUBSET (1 .. n) -> D] : FoldsUp(fold, n, base, step)
  BY FoldExists
<1>. DEFINE run == [k \in 0 .. n |-> fold[1 .. k]]
<1>2. \A k \in 0 .. n : 1 .. k \in SUBSET (1 .. n)
  OBVIOUS
<1>3. run \in [0 .. n -> D]
  BY <1>2
<1>4. run[0] = base
  <2>1. 1 .. 0 = {} /\ 0 \in 0 .. n
    OBVIOUS
  <2>2. QED
    BY <1>1, <1>2, <2>1 DEF FoldsUp
<1>5. ASSUME NEW k \in 1 .. n PROVE run[k] = step[k][run[k - 1]]
  <2>1. Max(1 .. k) = k /\ (1 .. k) \ {k} = 1 .. k - 1 /\ 1 .. k # {}
    <3>1. k \in Nat /\ k # 0
      OBVIOUS
    <3>2. QED
      BY <3>1, MaxInterval
  <2>2. k \in 0 .. n /\ k - 1 \in 0 .. n /\ 1 .. k \in SUBSET (1 .. n)
    OBVIOUS
  <2>3. fold[1 .. k] = step[k][fold[1 .. k - 1]]
    BY <1>1, <2>1, <2>2 DEF FoldsUp
  <2>4. QED
    BY <2>2, <2>3
<1>. HIDE DEF run
<1>6. QED
  BY <1>3, <1>4, <1>5 DEF RunsUp

\* A sequence of sequences, joined one after the other.
Joins(flat, seqs) ==
    flat[0] = <<>> /\ \A k \in 1 .. Len(seqs) : flat[k] = flat[k - 1] \o seqs[k]

\* The recursion that FlattenSeq stands for.
FlatFrom(seqs, flat) ==
    flat = [i \in 1 .. Len(seqs) |-> IF i = 1 THEN seqs[i] ELSE flat[i - 1] \o seqs[i]]

\* FlattenSeq joins.
LEMMA FlattenJoins ==
    ASSUME NEW S, NEW seqs \in Seq(Seq(S))
    PROVE  \E flat \in [0 .. Len(seqs) -> Seq(S)] :
              Joins(flat, seqs) /\ FlattenSeq(seqs) = flat[Len(seqs)]
<1>. DEFINE n == Len(seqs)
            D == Seq(S)
            step == [i \in 1 .. n |-> [done \in D |-> done \o seqs[i]]]
<1>1. n \in Nat /\ <<>> \in D /\ \A i \in 1 .. n : seqs[i] \in D
  OBVIOUS
<1>2. step \in [1 .. n -> [D -> D]]
  BY <1>1
<1>3. PICK run \in [0 .. n -> D] : RunsUp(run, n, <<>>, step)
  <2>. HIDE DEF n, D, step
  <2>1. QED
    BY <1>1, <1>2, RunExists
<1>4. ASSUME NEW k \in 1 .. n PROVE run[k] = run[k - 1] \o seqs[k]
  <2>1. k - 1 \in 0 .. n
    BY <1>1
  <2>2. run[k - 1] \in D
    BY <2>1
  <2>3. QED
    BY <1>3, <2>2 DEF RunsUp
<1>5. Joins(run, seqs)
  BY <1>3, <1>4 DEF RunsUp, Joins
<1>6. CASE n = 0
  <2>1. seqs = <<>> /\ FlattenSeq(seqs) = seqs
    BY <1>6 DEF FlattenSeq
  <2>2. QED
    BY <1>5, <1>6, <2>1 DEF Joins
<1>7. CASE n # 0
  <2>. DEFINE flat == [i \in 1 .. n |-> run[i]]
  <2>1. FlatFrom(seqs, flat)
    <3>1. ASSUME NEW i \in 1 .. n
          PROVE  run[i] = IF i = 1 THEN seqs[i] ELSE flat[i - 1] \o seqs[i]
      <4>1. CASE i = 1
        <5>1. run[0] = <<>> /\ seqs[i] \in D /\ run[i] = run[0] \o seqs[i]
          <6>1. run[0] = <<>>
            BY <1>5 DEF Joins
          <6>2. seqs[i] \in D
            BY <1>1
          <6>3. run[i] = run[i - 1] \o seqs[i]
            BY <1>4
          <6>4. i - 1 = 0
            BY <4>1
          <6>5. QED
            BY <6>1, <6>2, <6>3, <6>4
        <5>2. \A q \in D : <<>> \o q = q
          OBVIOUS
        <5>3. QED
          BY <4>1, <5>1, <5>2
      <4>2. CASE i # 1
        <5>1. i - 1 \in 1 .. n
          BY <4>2
        <5>2. QED
          BY <1>4, <4>2, <5>1
      <4>3. QED
        BY <4>1, <4>2
    <3>2. QED
      BY <3>1 DEF FlatFrom
  <2>2. FlattenSeq(seqs) = (CHOOSE it : FlatFrom(seqs, it))[n]
    BY <1>7, Zenon DEF FlattenSeq, FlatFrom
  <2>3. PICK it : FlatFrom(seqs, it) /\ FlattenSeq(seqs) = it[n]
    BY <2>1, <2>2, Zenon
  <2>4. it[n] = run[n]
    <3>. DEFINE T == {k \in 0 .. n : k = 0 \/ it[k] = run[k]}
    <3>1. 0 \in T
      BY <1>1
    <3>2. ASSUME NEW k \in 0 .. n - 1, k \in T PROVE k + 1 \in T
      <4>1. k + 1 \in 1 .. n /\ (k + 1) - 1 = k /\ k + 1 \in 0 .. n
        BY <1>1
      <4>2. it[k + 1] = IF k + 1 = 1 THEN seqs[k + 1] ELSE it[k] \o seqs[k + 1]
        BY <2>3, <4>1 DEF FlatFrom
      <4>3. run[k + 1] = run[k] \o seqs[k + 1] /\ seqs[k + 1] \in D
        BY <1>1, <1>4, <4>1
      <4>4. \A q \in D : <<>> \o q = q
        OBVIOUS
      <4>5. CASE k = 0
        <5>1. run[k] = <<>>
          BY <1>5, <4>5 DEF Joins
        <5>2. it[k + 1] = seqs[k + 1]
          BY <4>2, <4>5
        <5>3. QED
          BY <4>1, <4>3, <4>4, <5>1, <5>2
      <4>6. CASE k # 0
        <5>1. it[k] = run[k] /\ k + 1 # 1
          BY <3>2, <4>6
        <5>2. QED
          BY <4>1, <4>2, <4>3, <5>1
      <4>7. QED
        BY <4>5, <4>6
    <3>3. n \in T
      <4>. HIDE DEF T
      <4>1. 0 .. n \subseteq T
        BY <1>1, <3>1, <3>2, Upward
      <4>2. QED
        BY <1>1, <4>1
    <3>4. QED
      BY <1>7, <3>3
  <2>5. QED
    BY <1>5, <2>3, <2>4
<1>8. QED
  BY <1>6, <1>7
=============================================================================
