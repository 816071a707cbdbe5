----------------------------- MODULE GrantProofs -----------------------------
(***************************************************************************)
(* Paths, scopes, the registry's map and what grants put there, for every  *)
(* vocabulary, configuration and universe.  The proofs about the control   *)
(* plane, the gateway and startup rest on them.                            *)
(***************************************************************************)
EXTENDS GrantEnforcer, JudgedScope, RecursionProofs

(***************************************************************************)
(* path.Clean, a segment at a time.  A segment that is kept is no dot      *)
(* segment.                                                                *)
(***************************************************************************)
LEMMA CleanStepType ==
    ASSUME NEW S, NEW done \in Seq(S \ DotSegment), NEW seg \in S
    PROVE  CleanStep(done, seg) \in Seq(S \ DotSegment)
<1>1. CASE seg \in {"", "."}
  BY <1>1 DEF CleanStep
<1>2. CASE seg = ".."
  <2>1. CleanStep(done, seg) = IF done = <<>> THEN done ELSE Front(done)
    BY <1>2 DEF CleanStep
  <2>2. done # <<>> => Front(done) \in Seq(S \ DotSegment)
    BY DEF Front
  <2>3. QED
    BY <2>1, <2>2
<1>3. CASE seg \notin DotSegment
  <2>1. CleanStep(done, seg) = Append(done, seg)
    BY <1>3 DEF CleanStep, DotSegment
  <2>2. QED
    BY <1>3, <2>1
<1>4. QED
  BY <1>1, <1>2, <1>3 DEF DotSegment

\* What path.Clean has made of a path after each of its segments.
Cleaned(raw, done) ==
    /\ done[0] = <<>>
    /\ \A k \in 1 .. Len(raw) : done[k] = CleanStep(done[k - 1], raw[k])

\* The recursion that FoldLeft stands for, over the sets of places.
CleanFold(raw, fold) ==
    fold = [s \in SUBSET (DOMAIN raw) |->
              IF s = {} THEN <<>> ELSE CleanStep(fold[s \ {Max(s)}], raw[Max(s)])]

\* It has a solution, which is the one that NormalizePath takes.
LEMMA CleanFoldExists ==
    ASSUME NEW S, NEW raw \in Seq(S)
    PROVE  \E fold : CleanFold(raw, fold) /\ NormalizePath(raw) = fold[DOMAIN raw]
<1>. DEFINE D == Seq(S \ DotSegment)
            n == Len(raw)
            step == [i \in 1 .. n |-> [done \in D |-> CleanStep(done, raw[i])]]
<1>1. n \in Nat /\ DOMAIN raw = 1 .. n /\ <<>> \in D /\ \A i \in 1 .. n : raw[i] \in S
  OBVIOUS
<1>2. step \in [1 .. n -> [D -> D]]
  BY <1>1, CleanStepType
<1>3. \E fold \in [SUBSET (1 .. n) -> D] : FoldsUp(fold, n, <<>>, step)
  <2>. HIDE DEF D, n, step
  <2>1. QED
    BY <1>1, <1>2, FoldExists
<1>4. PICK fold \in [SUBSET (1 .. n) -> D] :
         \A s \in SUBSET (1 .. n) :
            fold[s] = IF s = {} THEN <<>> ELSE step[Max(s)][fold[s \ {Max(s)}]]
  BY <1>3 DEF FoldsUp
<1>5. ASSUME NEW s \in SUBSET (1 .. n)
      PROVE  fold[s] = IF s = {} THEN <<>> ELSE CleanStep(fold[s \ {Max(s)}], raw[Max(s)])
  <2>1. CASE s = {}
    BY <1>4, <2>1
  <2>2. CASE s # {}
    <3>1. Max(s) \in 1 .. n /\ s \ {Max(s)} \in SUBSET (1 .. n)
      BY <1>1, <2>2, MaxGreatest
    <3>2. fold[s \ {Max(s)}] \in D
      BY <3>1
    <3>3. QED
      BY <1>4, <2>2, <3>1, <3>2
  <2>3. QED
    BY <2>1, <2>2
<1>6. CleanFold(raw, fold)
  BY <1>1, <1>5 DEF CleanFold
<1>7. NormalizePath(raw) = (CHOOSE it : CleanFold(raw, it))[DOMAIN raw]
  BY Zenon DEF NormalizePath, FoldLeft, MapThenFoldSet, CleanFold
<1>8. QED
  BY <1>6, <1>7, Zenon

(***************************************************************************)
(* NormalizePath is what path.Clean has made of the whole path; it has no  *)
(* dot segment left.                                                       *)
(***************************************************************************)
LEMMA NormalizeCleans ==
    ASSUME NEW S, NEW raw \in Seq(S)
    PROVE  \E done \in [0 .. Len(raw) -> Seq(S \ DotSegment)] :
              Cleaned(raw, done) /\ NormalizePath(raw) = done[Len(raw)]
<1>1. PICK fold : CleanFold(raw, fold) /\ NormalizePath(raw) = fold[DOMAIN raw]
  BY CleanFoldExists
<1>. DEFINE n == Len(raw)
            done == [k \in 0 .. n |-> fold[1 .. k]]
<1>2. n \in Nat /\ DOMAIN raw = 1 .. n /\ \A i \in 1 .. n : raw[i] \in S
  OBVIOUS
<1>3. done[0] = <<>>
  <2>1. 1 .. 0 = {} /\ 0 \in 0 .. n
    BY <1>2
  <2>2. QED
    BY <1>1, <2>1 DEF CleanFold
<1>4. ASSUME NEW k \in 1 .. n PROVE done[k] = CleanStep(done[k - 1], raw[k])
  <2>1. Max(1 .. k) = k /\ (1 .. k) \ {k} = 1 .. k - 1 /\ 1 .. k # {}
    BY MaxInterval
  <2>2. 1 .. k \in SUBSET (DOMAIN raw) /\ k \in 0 .. n /\ k - 1 \in 0 .. n
    BY <1>2
  <2>3. fold[1 .. k] = CleanStep(fold[1 .. k - 1], raw[k])
    BY <1>1, <2>1, <2>2 DEF CleanFold
  <2>4. QED
    BY <2>2, <2>3
<1>5. \A k \in 0 .. n : done[k] \in Seq(S \ DotSegment)
  <2>. DEFINE T == {k \in 0 .. n : done[k] \in Seq(S \ DotSegment)}
  <2>1. 0 \in T
    <3>1. 0 \in 0 .. n /\ <<>> \in Seq(S \ DotSegment)
      BY <1>2
    <3>. HIDE DEF done
    <3>2. QED
      BY <1>3, <3>1
  <2>2. ASSUME NEW k \in 0 .. n - 1, k \in T PROVE k + 1 \in T
    <3>1. k + 1 \in 1 .. n /\ (k + 1) - 1 = k /\ k + 1 \in 0 .. n /\ raw[k + 1] \in S
      BY <1>2
    <3>2. done[k + 1] = CleanStep(done[k], raw[k + 1])
      BY <1>4, <3>1
    <3>3. done[k] \in Seq(S \ DotSegment)
      BY <2>2
    <3>. HIDE DEF done
    <3>4. QED
      BY <3>1, <3>2, <3>3, CleanStepType
  <2>3. 0 .. n \subseteq T
    <3>. HIDE DEF T, n
    <3>1. QED
      BY <1>2, <2>1, <2>2, Upward
  <2>4. QED
    BY <2>3
<1>6. done \in [0 .. n -> Seq(S \ DotSegment)]
  BY <1>5
<1>7. Cleaned(raw, done)
  BY <1>3, <1>4 DEF Cleaned
<1>8. NormalizePath(raw) = done[n]
  <2>1. n \in 0 .. n
    BY <1>2
  <2>2. QED
    BY <1>1, <1>2, <2>1
<1>. HIDE DEF done
<1>9. QED
  BY <1>6, <1>7, <1>8

\* So the path of a request is judged as a path without dot segments.
THEOREM NormalizeType ==
    ASSUME NEW raw \in Seq(Segment \cup DotSegment)
    PROVE  NormalizePath(raw) \in Path
<1>1. NormalizePath(raw) \in Seq((Segment \cup DotSegment) \ DotSegment)
  BY NormalizeCleans
<1>2. (Segment \cup DotSegment) \ DotSegment = Segment
  BY LowerAssumption
<1>3. QED
  BY <1>1, <1>2 DEF Path

\* One segment is as good as another that differs from it in case only.
Alike(x, y) == x = y \/ (x \in Segment /\ y \in Segment /\ Lower[x] = Lower[y])

\* Paths that differ in case only have the same length.
LEMMA LowerSame ==
    ASSUME NEW p \in Path, NEW q \in Path
    PROVE  /\ ToLower(p) = ToLower(q)
                <=> Len(p) = Len(q) /\ \A i \in 1 .. Len(p) : Lower[p[i]] = Lower[q[i]]
           /\ Len(p) \in Nat /\ DOMAIN p = 1 .. Len(p) /\ \A i \in 1 .. Len(p) : p[i] \in Segment
<1>1. /\ Len(p) \in Nat /\ DOMAIN p = 1 .. Len(p) /\ \A i \in 1 .. Len(p) : p[i] \in Segment
      /\ Len(q) \in Nat /\ DOMAIN q = 1 .. Len(q)
  BY DEF Path
<1>2. ASSUME ToLower(p) = ToLower(q)
      PROVE  Len(p) = Len(q) /\ \A i \in 1 .. Len(p) : Lower[p[i]] = Lower[q[i]]
  <2>1. DOMAIN ToLower(p) = 1 .. Len(p) /\ DOMAIN ToLower(q) = 1 .. Len(q)
    BY <1>1 DEF ToLower
  <2>2. Len(p) = Len(q)
    <3>1. \A a, b \in Nat : 1 .. a = 1 .. b => a = b
      OBVIOUS
    <3>2. 1 .. Len(p) = 1 .. Len(q)
      BY <1>2, <2>1
    <3>3. QED
      BY <1>1, <3>1, <3>2
  <2>3. \A i \in 1 .. Len(p) : ToLower(p)[i] = Lower[p[i]] /\ ToLower(q)[i] = Lower[q[i]]
    BY <1>1, <2>2 DEF ToLower
  <2>4. QED
    BY <1>2, <2>2, <2>3
<1>3. ASSUME Len(p) = Len(q), \A i \in 1 .. Len(p) : Lower[p[i]] = Lower[q[i]]
      PROVE  ToLower(p) = ToLower(q)
  BY <1>1, <1>3 DEF ToLower
<1>4. QED
  BY <1>1, <1>2, <1>3

\* Whatever the case of what path.Clean has and of what it is given: it makes
\* the same of it but for the case.
LEMMA CleanStepAlike ==
    ASSUME NEW p \in Path, NEW q \in Path, ToLower(p) = ToLower(q),
           NEW x \in Segment \cup DotSegment, NEW y \in Segment \cup DotSegment, Alike(x, y)
    PROVE  ToLower(CleanStep(p, x)) = ToLower(CleanStep(q, y))
<1>1. /\ Len(p) = Len(q) /\ \A i \in 1 .. Len(p) : Lower[p[i]] = Lower[q[i]]
      /\ Len(p) \in Nat
      /\ \A i \in 1 .. Len(p) : p[i] \in Segment /\ q[i] \in Segment
  BY LowerSame
<1>2. CASE x \in {"", "."}
  <2>1. y = x
    BY <1>2, LowerAssumption DEF Alike, DotSegment
  <2>2. QED
    BY <1>2, <2>1 DEF CleanStep
<1>3. CASE x = ".."
  <2>1. y = x
    BY <1>3, LowerAssumption DEF Alike, DotSegment
  <2>2. p = <<>> <=> q = <<>>
    BY <1>1 DEF Path
  <2>3. CASE p = <<>>
    BY <1>3, <2>1, <2>2, <2>3 DEF CleanStep
  <2>4. CASE p # <<>>
    <3>1. CleanStep(p, x) = Front(p) /\ CleanStep(q, y) = Front(q)
      BY <1>3, <2>1, <2>2, <2>4 DEF CleanStep
    <3>2. Len(p) # 0
      BY <2>4 DEF Path
    <3>3. /\ Front(p) \in Path /\ Front(q) \in Path
          /\ Len(Front(p)) = Len(p) - 1 /\ Len(Front(q)) = Len(p) - 1
          /\ \A i \in 1 .. Len(p) - 1 : Front(p)[i] = p[i] /\ Front(q)[i] = q[i]
      BY <1>1, <3>2 DEF Front, Path
    <3>4. QED
      BY <1>1, <3>1, <3>3, LowerSame
  <2>5. QED
    BY <2>3, <2>4
<1>4. CASE x \in Segment
  <2>1. y \in Segment /\ Lower[x] = Lower[y]
    BY <1>4 DEF Alike
  <2>. DEFINE a == Append(p, x)
              b == Append(q, y)
  <2>2. CleanStep(p, x) = a /\ CleanStep(q, y) = b
    BY <1>4, <2>1, LowerAssumption DEF CleanStep, DotSegment
  <2>3. /\ a \in Path /\ b \in Path /\ Len(a) = Len(p) + 1 /\ Len(b) = Len(p) + 1
        /\ \A i \in 1 .. Len(p) + 1 :
              /\ a[i] = IF i = Len(p) + 1 THEN x ELSE p[i]
              /\ b[i] = IF i = Len(p) + 1 THEN y ELSE q[i]
    BY <1>1, <1>4, <2>1 DEF Path
  <2>. HIDE DEF a, b
  <2>4. \A i \in 1 .. Len(p) + 1 : Lower[a[i]] = Lower[b[i]]
    BY <1>1, <2>1, <2>3
  <2>5. QED
    BY <2>2, <2>3, <2>4, LowerSame
<1>5. QED
  BY <1>2, <1>3, <1>4 DEF DotSegment

(***************************************************************************)
(* path.Clean of two paths goes on alike where it has come to the same and *)
(* they go on alike.                                                       *)
(***************************************************************************)
LEMMA CleanedAlike ==
    ASSUME NEW r \in Seq(Segment \cup DotSegment), NEW s \in Seq(Segment \cup DotSegment),
           NEW f \in [0 .. Len(r) -> Path], Cleaned(r, f),
           NEW g \in [0 .. Len(s) -> Path], Cleaned(s, g),
           NEW i \in 0 .. Len(r), NEW j \in 0 .. Len(s), ToLower(f[i]) = ToLower(g[j]),
           NEW m \in Nat, i + m <= Len(r), j + m <= Len(s),
           \A k \in 1 .. m : Alike(r[i + k], s[j + k])
    PROVE  ToLower(f[i + m]) = ToLower(g[j + m])
<1>. DEFINE T == {k \in 0 .. m : ToLower(f[i + k]) = ToLower(g[j + k])}
<1>1. Len(r) \in Nat /\ Len(s) \in Nat
  OBVIOUS
<1>2. 0 \in T
  OBVIOUS
<1>3. ASSUME NEW k \in 0 .. m - 1, k \in T PROVE k + 1 \in T
  <2>1. /\ i + k \in 0 .. Len(r) /\ j + k \in 0 .. Len(s) /\ k + 1 \in 1 .. m
        /\ i + (k + 1) \in 1 .. Len(r) /\ j + (k + 1) \in 1 .. Len(s)
        /\ (i + (k + 1)) - 1 = i + k /\ (j + (k + 1)) - 1 = j + k
    BY <1>1
  <2>2. /\ f[i + (k + 1)] = CleanStep(f[i + k], r[i + (k + 1)])
        /\ g[j + (k + 1)] = CleanStep(g[j + k], s[j + (k + 1)])
    BY <2>1 DEF Cleaned
  <2>3. /\ f[i + k] \in Path /\ g[j + k] \in Path /\ ToLower(f[i + k]) = ToLower(g[j + k])
        /\ r[i + (k + 1)] \in Segment \cup DotSegment /\ s[j + (k + 1)] \in Segment \cup DotSegment
    <3>1. f[i + k] \in Path /\ g[j + k] \in Path /\ ToLower(f[i + k]) = ToLower(g[j + k])
      BY <1>3, <2>1
    <3>2. \A S : \A q \in Seq(S) : \A x \in 1 .. Len(q) : q[x] \in S
      OBVIOUS
    <3>3. QED
      BY <2>1, <3>1, <3>2
  <2>4. Alike(r[i + (k + 1)], s[j + (k + 1)])
    BY <2>1
  <2>5. ToLower(f[i + (k + 1)]) = ToLower(g[j + (k + 1)])
    BY <2>2, <2>3, <2>4, CleanStepAlike
  <2>6. QED
    BY <2>1, <2>5
<1>4. m \in T
  <2>. HIDE DEF T
  <2>1. 0 .. m \subseteq T
    BY <1>2, <1>3, Upward
  <2>2. QED
    BY <2>1
<1>5. QED
  BY <1>4

\* NormalizePath as path.Clean of a request's path, segment by segment.
LEMMA RequestCleaned ==
    ASSUME NEW raw \in Seq(Segment \cup DotSegment)
    PROVE  \E done \in [0 .. Len(raw) -> Path] :
              Cleaned(raw, done) /\ NormalizePath(raw) = done[Len(raw)]
<1>1. (Segment \cup DotSegment) \ DotSegment = Segment
  BY LowerAssumption
<1>2. QED
  BY <1>1, NormalizeCleans DEF Path

\* A path without its segments from first to last.
Shortened(path, p, first, last) ==
    /\ Len(path) = (first - 1) + (Len(p) - last)
    /\ \A k \in 1 .. first - 1 : path[k] = p[k]
    /\ \A k \in 1 .. Len(p) - last : path[(first - 1) + k] = p[last + k]

\* That is what Without makes of it.
LEMMA Spliced ==
    ASSUME NEW S, NEW p \in Seq(S), NEW first \in Nat, NEW last \in Nat,
           1 <= first, first <= last, last <= Len(p)
    PROVE  Without(p, first, last) \in Seq(S) /\ Shortened(Without(p, first, last), p, first, last)
<1>. DEFINE front == SubSeq(p, 1, first - 1)
            back == SubSeq(p, last + 1, Len(p))
<1>1. /\ front \in Seq(S) /\ Len(front) = first - 1
      /\ \A k \in 1 .. first - 1 : front[k] = p[k]
  OBVIOUS
<1>2. /\ back \in Seq(S) /\ Len(back) = Len(p) - last
      /\ \A k \in 1 .. Len(p) - last : back[k] = p[last + k]
  OBVIOUS
<1>3. Without(p, first, last) = front \o back
  BY DEF Without
<1>. HIDE DEF front, back
<1>4. /\ front \o back \in Seq(S) /\ Len(front \o back) = Len(front) + Len(back)
      /\ \A k \in 1 .. Len(front) : (front \o back)[k] = front[k]
      /\ \A k \in 1 .. Len(back) : (front \o back)[Len(front) + k] = back[k]
  <2>1. /\ front \o back \in Seq(S) /\ Len(front \o back) = Len(front) + Len(back)
        /\ \A k \in 1 .. Len(front) + Len(back) :
              (front \o back)[k] = IF k <= Len(front) THEN front[k] ELSE back[k - Len(front)]
    <3>1. ASSUME NEW a \in Seq(S), NEW b \in Seq(S)
          PROVE  /\ a \o b \in Seq(S) /\ Len(a \o b) = Len(a) + Len(b)
                 /\ \A k \in 1 .. Len(a) + Len(b) :
                       (a \o b)[k] = IF k <= Len(a) THEN a[k] ELSE b[k - Len(a)]
      OBVIOUS
    <3>2. QED
      BY <1>1, <1>2, <3>1
  <2>2. Len(front) \in Nat /\ Len(back) \in Nat
    BY <1>1, <1>2
  <2>3. ASSUME NEW k \in 1 .. Len(back)
        PROVE  (front \o back)[Len(front) + k] = back[k]
    <3>1. /\ Len(front) + k \in 1 .. Len(front) + Len(back)
          /\ ~(Len(front) + k <= Len(front)) /\ (Len(front) + k) - Len(front) = k
      BY <2>2
    <3>2. QED
      BY <2>1, <3>1
  <2>4. QED
    BY <2>1, <2>2, <2>3
<1>5. QED
  BY <1>1, <1>2, <1>3, <1>4 DEF Shortened

(***************************************************************************)
(* NormalizePath computes path.Clean, for every path: each of its rules    *)
(* leaves what NormalizePath makes of a path as it was, and so, as far as  *)
(* matching sees it, does the case of a segment.                           *)
(***************************************************************************)
THEOREM NormalizeRespelled ==
    ASSUME NEW raw \in Seq(Segment \cup DotSegment), NEW path \in Respelled(raw)
    PROVE  /\ path \in Seq(Segment \cup DotSegment)
           /\ ToLower(NormalizePath(path)) = ToLower(NormalizePath(raw))
<1>. DEFINE S == Segment \cup DotSegment
            n == Len(raw)
<1>1. PICK f \in [0 .. n -> Path] : Cleaned(raw, f) /\ NormalizePath(raw) = f[n]
  BY RequestCleaned
<1>2. n \in Nat /\ DOMAIN raw = 1 .. n /\ \A i \in 1 .. n : raw[i] \in S
  OBVIOUS
<1>3. ASSUME NEW first \in 1 .. n, NEW last \in 1 .. n, first <= last, f[last] = f[first - 1],
             path = Without(raw, first, last)
      PROVE  /\ path \in Seq(Segment \cup DotSegment)
             /\ ToLower(NormalizePath(path)) = ToLower(NormalizePath(raw))
  <2>. DEFINE m == first - 1
              t == n - last
  <2>1. m \in Nat /\ t \in Nat /\ m \in 0 .. n /\ last \in 0 .. n /\ m + t \in Nat /\ last + t = n
    BY <1>2, <1>3
  <2>2. /\ path \in Seq(S) /\ Len(path) = m + t
        /\ \A k \in 1 .. m : path[k] = raw[k]
        /\ \A k \in 1 .. t : path[m + k] = raw[last + k]
    <3>1. /\ raw \in Seq(S) /\ first \in Nat /\ last \in Nat
          /\ 1 <= first /\ first <= last /\ last <= Len(raw)
      BY <1>2, <1>3
    <3>2. path \in Seq(S) /\ Shortened(path, raw, first, last)
      <4>. HIDE DEF S
      <4>1. QED
        BY <1>3, <3>1, Spliced
    <3>3. QED
      BY <3>2 DEF Shortened
  <2>3. PICK g \in [0 .. Len(path) -> Path] : Cleaned(path, g) /\ NormalizePath(path) = g[Len(path)]
    BY <2>2, RequestCleaned
  <2>4. ToLower(f[0 + m]) = ToLower(g[0 + m])
    <3>1. \A k \in 1 .. m : Alike(raw[0 + k], path[0 + k])
      BY <1>2, <2>1, <2>2 DEF Alike
    <3>2. ToLower(f[0]) = ToLower(g[0])
      BY <1>1, <2>3 DEF Cleaned
    <3>3. 0 \in 0 .. n /\ 0 \in 0 .. Len(path) /\ 0 + m <= n /\ 0 + m <= Len(path)
      BY <1>2, <2>1, <2>2
    <3>. HIDE DEF m, t, n
    <3>4. QED
      BY SMTT(30), <1>1, <2>1, <2>2, <2>3, <3>1, <3>2, <3>3, CleanedAlike DEF n
  <2>5. ToLower(f[last]) = ToLower(g[m])
    BY <1>3, <2>1, <2>4
  <2>6. ToLower(f[last + t]) = ToLower(g[m + t])
    <3>1. \A k \in 1 .. t : Alike(raw[last + k], path[m + k])
      BY <2>2 DEF Alike
    <3>2. m \in 0 .. Len(path) /\ last + t <= n /\ m + t <= Len(path)
      BY <1>2, <2>1, <2>2
    <3>. HIDE DEF m, t, n
    <3>3. QED
      BY <1>1, <2>1, <2>2, <2>3, <2>5, <3>1, <3>2, CleanedAlike DEF n
  <2>7. QED
    BY <1>1, <2>1, <2>2, <2>3, <2>6
<1>4. CASE \E i \in DOMAIN raw : /\ raw[i] \in {"", "."} \/ (raw[i] = ".." /\ i = 1)
                                 /\ path = Without(raw, i, i)
  <2>1. PICK i \in 1 .. n : /\ raw[i] \in {"", "."} \/ (raw[i] = ".." /\ i = 1)
                            /\ path = Without(raw, i, i)
    BY <1>2, <1>4
  <2>2. f[i] = CleanStep(f[i - 1], raw[i])
    BY <1>1, <2>1 DEF Cleaned
  <2>3. f[i] = f[i - 1]
    <3>1. CASE raw[i] \in {"", "."}
      BY <2>2, <3>1 DEF CleanStep
    <3>2. CASE raw[i] = ".." /\ i = 1
      <4>1. f[i - 1] = <<>>
        BY <1>1, <3>2 DEF Cleaned
      <4>2. QED
        BY <2>2, <3>2, <4>1 DEF CleanStep
    <3>3. QED
      BY <2>1, <3>1, <3>2
  <2>. HIDE DEF n
  <2>4. i <= i
    <3>1. \A x \in 1 .. n : x <= x
      BY <1>2
    <3>2. QED
      BY <2>1, <3>1, Zenon
  <2>5. QED
    BY <1>3, <2>1, <2>3, <2>4
<1>5. CASE \E i \in DOMAIN raw : /\ i > 1 /\ raw[i] = ".." /\ raw[i - 1] \in Segment
                                 /\ path = Without(raw, i - 1, i)
  <2>1. PICK i \in 1 .. n : /\ i > 1 /\ raw[i] = ".." /\ raw[i - 1] \in Segment
                            /\ path = Without(raw, i - 1, i)
    BY <1>2, <1>5
  <2>2. i - 1 \in 1 .. n /\ (i - 1) - 1 \in 0 .. n
    BY <1>2, <2>1
  <2>3. f[i] = CleanStep(f[i - 1], raw[i]) /\ f[i - 1] = CleanStep(f[(i - 1) - 1], raw[i - 1])
    BY <1>1, <2>1, <2>2 DEF Cleaned
  <2>4. f[(i - 1) - 1] \in Path
    BY <1>1, <2>2
  <2>5. f[i - 1] = Append(f[(i - 1) - 1], raw[i - 1])
    BY <2>1, <2>3, LowerAssumption DEF CleanStep, DotSegment
  <2>6. f[i] = Front(f[i - 1])
    <3>1. f[i - 1] # <<>>
      BY <2>4, <2>5 DEF Path
    <3>2. QED
      BY <2>1, <2>3, <3>1 DEF CleanStep
  <2>7. f[i] = f[(i - 1) - 1]
    <3>1. ASSUME NEW p \in Path, NEW x \in Segment PROVE Front(Append(p, x)) = p
      BY DEF Front, Path
    <3>2. QED
      BY <2>1, <2>4, <2>5, <2>6, <3>1
  <2>8. QED
    BY <1>2, <1>3, <2>1, <2>2, <2>7
<1>6. CASE \E i \in DOMAIN raw : raw[i] \in Segment /\ path = [raw EXCEPT ![i] = Lower[raw[i]]]
  <2>1. PICK i \in 1 .. n : raw[i] \in Segment /\ path = [raw EXCEPT ![i] = Lower[raw[i]]]
    BY <1>2, <1>6
  <2>2. Lower[raw[i]] \in Segment /\ Lower[Lower[raw[i]]] = Lower[raw[i]]
    BY <2>1, LowerAssumption
  <2>3. path \in Seq(S) /\ Len(path) = n /\ \A k \in 1 .. n : Alike(raw[k], path[k])
    BY <1>2, <2>1, <2>2 DEF Alike
  <2>4. PICK g \in [0 .. n -> Path] : Cleaned(path, g) /\ NormalizePath(path) = g[n]
    BY <2>3, RequestCleaned
  <2>5. ToLower(f[0]) = ToLower(g[0])
    BY <1>1, <2>4 DEF Cleaned
  <2>6. ToLower(f[0 + n]) = ToLower(g[0 + n])
    <3>1. 0 \in 0 .. n /\ 0 + n <= n /\ \A k \in 1 .. n : Alike(raw[0 + k], path[0 + k])
      BY <1>2, <2>3
    <3>. HIDE DEF n
    <3>2. QED
      BY <1>1, <1>2, <2>3, <2>4, <2>5, <3>1, CleanedAlike DEF n
  <2>7. QED
    BY <1>1, <1>2, <2>3, <2>4, <2>6
<1>7. QED
  BY <1>4, <1>5, <1>6 DEF Respelled

(***************************************************************************)
(* And a path that has no dot segment is normal already: with the rules    *)
(* above, NormalizePath is path.Clean of every path.                       *)
(***************************************************************************)
THEOREM NormalizeFixes ==
    ASSUME NEW p \in Path
    PROVE  NormalizePath(p) = p
<1>1. p \in Seq(Segment \cup DotSegment) /\ Len(p) \in Nat
  BY DEF Path
<1>2. PICK f \in [0 .. Len(p) -> Path] : Cleaned(p, f) /\ NormalizePath(p) = f[Len(p)]
  BY <1>1, RequestCleaned
<1>. DEFINE n == Len(p)
            T == {k \in 0 .. n : f[k] = SubSeq(p, 1, k)}
<1>3. 0 \in T
  BY <1>1, <1>2 DEF Cleaned, Path
<1>4. ASSUME NEW k \in 0 .. n - 1, k \in T PROVE k + 1 \in T
  <2>1. k + 1 \in 1 .. n /\ (k + 1) - 1 = k /\ p[k + 1] \in Segment
    BY <1>1 DEF Path
  <2>2. f[k + 1] = CleanStep(f[k], p[k + 1])
    BY <1>2, <2>1 DEF Cleaned
  <2>3. f[k + 1] = Append(SubSeq(p, 1, k), p[k + 1])
    BY <1>4, <2>1, <2>2, LowerAssumption DEF CleanStep, DotSegment
  <2>4. SubSeq(p, 1, k + 1) = Append(SubSeq(p, 1, k), p[k + 1])
    BY <2>1 DEF Path
  <2>5. QED
    BY <2>1, <2>3, <2>4
<1>5. n \in T
  <2>. HIDE DEF T
  <2>1. 0 .. n \subseteq T
    BY <1>1, <1>3, <1>4, Upward
  <2>2. QED
    BY <1>1, <2>1
<1>6. SubSeq(p, 1, n) = p
  BY DEF Path
<1>7. QED
  BY <1>2, <1>5, <1>6

(***************************************************************************)
(* What IsPrefix says element by element.                                  *)
(***************************************************************************)
LEMMA PrefixElements ==
    ASSUME NEW S, NEW s \in Seq(S), NEW t \in Seq(S)
    PROVE  IsPrefix(s, t) <=> Len(s) <= Len(t) /\ \A i \in 1..Len(s) : s[i] = t[i]
<1>1. ASSUME Len(s) <= Len(t)
      PROVE  SubSeq(s, 1, Len(s)) = SubSeq(t, 1, Len(s)) <=> \A i \in 1..Len(s) : s[i] = t[i]
  <2>1. SubSeq(s, 1, Len(s)) = [i \in 1..Len(s) |-> s[i]]
    OBVIOUS
  <2>2. SubSeq(t, 1, Len(s)) = [i \in 1..Len(s) |-> t[i]]
    BY <1>1
  <2>3. QED
    BY <2>1, <2>2
<1>2. QED
  BY <1>1 DEF IsPrefix

\* Prefixes compose.
LEMMA PrefixTransitive ==
    ASSUME NEW S, NEW s \in Seq(S), NEW t \in Seq(S), NEW u \in Seq(S),
           IsPrefix(s, t), IsPrefix(t, u)
    PROVE  IsPrefix(s, u) /\ (s # t => IsStrictPrefix(s, u))
<1>1. IsPrefix(s, u)
  BY PrefixElements
<1>2. ASSUME s = u PROVE s = t
  <2>1. Len(s) = Len(t) /\ \A i \in 1..Len(s) : s[i] = t[i]
    BY <1>2, PrefixElements
  <2>2. QED
    BY <2>1
<1>3. QED
  BY <1>1, <1>2 DEF IsStrictPrefix

\* So do subtrees.
LEMMA SubtreeTransitive ==
    ASSUME NEW p \in Path, NEW q \in Path, NEW r \in Path,
           IsPrefix(q, p), InSubtree(r, p)
    PROVE  InSubtree(r, q)
<1>1. CASE q = <<>>
  BY <1>1 DEF InSubtree
<1>2. CASE q # <<>>
  <2>1. p # <<>>
    BY <1>2, PrefixElements DEF Path
  <2>2. IsPrefix(p, r) /\ p # r
    BY <2>1 DEF InSubtree, IsStrictPrefix
  <2>3. IsPrefix(q, r)
    BY <2>2, PrefixTransitive DEF Path
  <2>4. ASSUME q = r PROVE FALSE
    <3>1. Len(p) = Len(r) /\ \A i \in 1..Len(p) : p[i] = r[i]
      BY <2>2, <2>4, PrefixElements DEF Path
    <3>2. p = r
      BY <3>1 DEF Path
    <3>3. QED
      BY <3>2, <2>2
  <2>5. QED
    BY <2>3, <2>4 DEF InSubtree, IsStrictPrefix
<1>3. QED
  BY <1>1, <1>2

(***************************************************************************)
(* pathPattern.contains decides containment: whatever inner matches, outer *)
(* matches (pathmatch.go: "contains reports whether every path matching    *)
(* inner also matches p").                                                 *)
(***************************************************************************)
THEOREM ContainsSound ==
    ASSUME NEW outer \in Pattern, NEW inner \in Pattern, NEW path \in Path,
           ContainsPattern(outer, inner), MatchesNormal(inner, path)
    PROVE  MatchesNormal(outer, path)
<1>1. CASE ~outer.wildcard
  BY <1>1 DEF ContainsPattern, MatchesNormal, Pattern
<1>2. CASE outer.wildcard /\ inner.wildcard
  <2>1. IsPrefix(outer.prefix, inner.prefix)
    BY <1>2 DEF ContainsPattern, Pattern
  <2>2. InSubtree(path, inner.prefix)
    BY <1>2 DEF MatchesNormal
  <2>3. InSubtree(path, outer.prefix)
    BY <2>1, <2>2, SubtreeTransitive DEF Pattern
  <2>4. QED
    BY <1>2, <2>3 DEF MatchesNormal
<1>3. CASE outer.wildcard /\ ~inner.wildcard
  BY <1>3 DEF ContainsPattern, MatchesNormal, Pattern
<1>4. QED
  BY <1>1, <1>2, <1>3 DEF Pattern

(***************************************************************************)
(* A path one segment below the root of a subtree is in it, and in another *)
(* subtree only if that is the same or a wider one.                        *)
(***************************************************************************)
LEMMA OneBelow ==
    ASSUME NEW p \in Path, NEW seg \in Segment
    PROVE  /\ Append(p, seg) \in Path
           /\ IsPrefix(p, Append(p, seg)) /\ InSubtree(Append(p, seg), p)
           /\ \A q \in Path : InSubtree(Append(p, seg), q) => IsPrefix(q, p)
<1>. DEFINE below == Append(p, seg)
<1>1. /\ below \in Path /\ Len(below) = Len(p) + 1 /\ Len(p) \in Nat
      /\ \A i \in 1..Len(p) : below[i] = p[i]
  BY DEF Path
<1>. HIDE DEF below
<1>2. IsPrefix(p, below) /\ InSubtree(below, p)
  <2>1. IsPrefix(p, below)
    BY <1>1, PrefixElements DEF Path
  <2>2. p # below
    BY <1>1
  <2>3. QED
    BY <2>1, <2>2 DEF InSubtree, IsStrictPrefix
<1>3. ASSUME NEW q \in Path, InSubtree(below, q)
      PROVE  IsPrefix(q, p)
  <2>1. CASE q = <<>>
    <3>1. Len(q) = 0
      BY <2>1
    <3>2. Len(q) <= Len(p) /\ \A i \in 1..Len(q) : q[i] = p[i]
      BY <1>1, <3>1
    <3>3. QED
      BY <3>2, PrefixElements DEF Path
  <2>2. CASE q # <<>>
    <3>1. IsPrefix(q, below) /\ q # below
      BY <1>3, <2>2 DEF InSubtree, IsStrictPrefix
    <3>2. Len(q) \in Nat /\ Len(q) <= Len(below) /\ \A i \in 1..Len(q) : q[i] = below[i]
      BY <1>1, <3>1, PrefixElements DEF Path
    <3>3. Len(q) # Len(below)
      BY <1>1, <3>1, <3>2 DEF Path
    <3>4. Len(q) <= Len(p) /\ \A i \in 1..Len(q) : q[i] = p[i]
      BY <1>1, <3>2, <3>3
    <3>5. QED
      BY <3>4, PrefixElements DEF Path
  <2>3. QED
    BY <2>1, <2>2
<1>4. QED
  BY <1>1, <1>2, <1>3 DEF below

(***************************************************************************)
(* And it refuses nothing that is contained: pathPattern.contains has no   *)
(* false negative on this vocabulary, as long as there is a segment to     *)
(* tell a path from what is below it.  With ContainsSound it is exact.  It *)
(* is enough to look at some of the paths: those in folded case will do.   *)
(***************************************************************************)
THEOREM ContainsComplete ==
    ASSUME NEW outer \in Pattern, NEW inner \in Pattern, NEW seg \in Segment,
           NEW paths \in SUBSET Path, inner.prefix \in paths,
           \A path \in paths : Append(path, seg) \in paths,
           \A path \in paths : MatchesNormal(inner, path) => MatchesNormal(outer, path)
    PROVE  ContainsPattern(outer, inner)
<1>1. /\ inner.prefix \in Path /\ outer.prefix \in Path
      /\ inner.wildcard \in BOOLEAN /\ outer.wildcard \in BOOLEAN
  BY DEF Pattern
<1>2. CASE ~inner.wildcard
  <2>1. MatchesNormal(outer, inner.prefix)
    BY <1>1, <1>2 DEF MatchesNormal
  <2>2. QED
    BY <1>1, <1>2, <2>1 DEF MatchesNormal, ContainsPattern
<1>3. CASE inner.wildcard
  <2>. DEFINE one == Append(inner.prefix, seg)
              two == Append(one, seg)
  <2>1. /\ one \in paths /\ one \in Path /\ InSubtree(one, inner.prefix)
        /\ IsPrefix(inner.prefix, one)
    BY <1>1, OneBelow
  <2>2. MatchesNormal(outer, one)
    BY <1>3, <2>1 DEF MatchesNormal
  <2>3. CASE outer.wildcard
    <3>1. IsPrefix(outer.prefix, inner.prefix)
      BY <1>1, <2>2, <2>3, OneBelow DEF MatchesNormal
    <3>2. QED
      BY <1>3, <2>3, <3>1 DEF ContainsPattern
  <2>4. CASE ~outer.wildcard
    <3>1. two \in paths /\ two \in Path /\ InSubtree(two, one)
      BY <2>1, OneBelow
    <3>2. InSubtree(two, inner.prefix)
      BY <1>1, <2>1, <3>1, SubtreeTransitive
    <3>3. outer.prefix = two /\ outer.prefix = one
      BY <1>3, <2>2, <2>4, <3>1, <3>2 DEF MatchesNormal
    <3>4. one # two
      BY <2>1 DEF Path
    <3>5. QED
      BY <3>3, <3>4
  <2>5. QED
    BY <1>1, <2>3, <2>4
<1>4. QED
  BY <1>1, <1>2, <1>3

(***************************************************************************)
(* A pattern that parses is a Pattern, and the path a request is judged by *)
(* is a Path: the types ContainsSound asks for.                            *)
(***************************************************************************)
LEMMA ToLowerType ==
    ASSUME NEW p \in Path
    PROVE  ToLower(p) \in Path
BY LowerAssumption DEF ToLower, Path

\* A text that parses is a path with or without a wildcard.
LEMMA ParseSegments ==
    ASSUME NEW text \in PatternText, Parses(text)
    PROVE  text \in Text /\ text.segs \in Path
<1>1. text \in Text /\ text.segs \in Seq(Segment \cup {Glob})
  <2>1. text \in Text /\ text.segs \in Seq(Segment \cup DotSegment \cup {Glob})
    BY PathAssumption DEF Text
  <2>2. NormalizePath(text.segs) \in Seq((Segment \cup DotSegment \cup {Glob}) \ DotSegment)
    BY SMTT(30), <2>1, NormalizeCleans
  <2>3. (Segment \cup DotSegment \cup {Glob}) \ DotSegment \subseteq Segment \cup {Glob}
    OBVIOUS
  <2>4. QED
    BY <2>1, <2>2, <2>3 DEF Parses
<1>2. \A i \in 1..Len(text.segs) : text.segs[i] \in Segment
  BY <1>1 DEF Parses
<1>3. QED
  BY <1>1, <1>2 DEF Path

\* It is parsed into a pattern.
LEMMA ParseType ==
    ASSUME NEW text \in PatternText, Parses(text)
    PROVE  ParsePathPattern(text) \in Pattern
BY ParseSegments, ToLowerType DEF ParsePathPattern, Pattern, Text

(***************************************************************************)
(* The allow list of a narrowing scope admits no path its bound refuses:   *)
(* CheckPath, which parses at request time, agrees with pathsNarrow, which *)
(* compared patterns at grant time.                                        *)
(***************************************************************************)
LEMMA PathsNarrowSound ==
    ASSUME NEW req \in Policy, NEW bound \in Policy, NEW raw \in RequestPath,
           PathsNarrow(req.paths, bound.paths), CheckPath(raw, req)
    PROVE  CheckPath(raw, bound)
<1>1. CASE bound.paths = {}
  BY <1>1 DEF CheckPath
<1>2. CASE bound.paths # {}
  <2>1. PICK r \in req.paths : Parses(r) /\ Matches(ParsePathPattern(r), raw)
    BY <1>2 DEF PathsNarrow, CheckPath
  <2>2. PICK b \in bound.paths :
            Parses(b) /\ ContainsPattern(ParsePathPattern(b), ParsePathPattern(r))
    BY <1>2, <2>1 DEF PathsNarrow, ValidatePathPatterns
  <2>3. ParsePathPattern(r) \in Pattern /\ ParsePathPattern(b) \in Pattern
    BY <2>1, <2>2, ParseType DEF Policy
  <2>4. ToLower(NormalizePath(raw)) \in Path
    BY PathAssumption, NormalizeType, ToLowerType
  <2>5. Matches(ParsePathPattern(b), raw)
    BY <2>1, <2>2, <2>3, <2>4, ContainsSound DEF Matches
  <2>6. QED
    BY <2>2, <2>5 DEF CheckPath
<1>3. QED
  BY <1>1, <1>2

(***************************************************************************)
(* narrow.go: "every request the requested policy would permit, bound also *)
(* permits" -- for every scope, bound and request.                         *)
(***************************************************************************)
THEOREM NarrowsSound ==
    ASSUME NEW requested \in Policy, NEW bound \in Policy, NEW req \in Request,
           Narrows(requested, bound), Permits(requested, req)
    PROVE  Permits(bound, req)
<1>1. CheckMethod(req.method, bound)
  BY DEF Narrows, MethodsNarrow, Permits, CheckMethod
<1>2. CheckPath(req.path, bound)
  BY PathsNarrowSound DEF Narrows, Permits, Request
<1>3. CheckBodySize(req.size, bound)
  <2>1. requested.maxBody \in Int /\ bound.maxBody \in Int /\ req.size \in Int
    BY ByteCountAssumption DEF Policy, Request
  <2>2. BodyNarrow(requested.maxBody, bound.maxBody) /\ CheckBodySize(req.size, requested)
    BY DEF Narrows, Permits
  <2>3. QED
    BY <2>1, <2>2 DEF BodyNarrow, CheckBodySize
<1>4. QED
  BY <1>1, <1>2, <1>3 DEF Permits

(***************************************************************************)
(* Paths in folded case, which are what matching sees of the paths that    *)
(* requests have, if they may have any.                                    *)
(***************************************************************************)
Folded == {p \in Path : ToLower(p) = p}

\* A pattern's prefix is folded, and the folded paths go on for ever.
LEMMA FoldedPaths ==
    /\ \A p \in Path : ToLower(p) \in Folded
    /\ \A p \in Folded, seg \in Segment : Append(p, Lower[seg]) \in Folded
<1>1. ASSUME NEW p \in Path PROVE ToLower(p) \in Folded
  <2>1. ToLower(p) \in Path
    BY ToLowerType
  <2>2. ToLower(ToLower(p)) = ToLower(p)
    <3>1. /\ DOMAIN ToLower(p) = DOMAIN p
          /\ \A i \in DOMAIN p : p[i] \in Segment /\ ToLower(p)[i] = Lower[p[i]]
      BY DEF ToLower, Path
    <3>2. \A i \in DOMAIN p : Lower[ToLower(p)[i]] = ToLower(p)[i]
      BY <3>1, LowerAssumption
    <3>3. ToLower(ToLower(p)) = [i \in DOMAIN p |-> ToLower(p)[i]]
      BY <3>1, <3>2 DEF ToLower
    <3>4. QED
      BY <3>1, <3>3 DEF ToLower
  <2>3. QED
    BY <2>1, <2>2 DEF Folded
<1>2. ASSUME NEW p \in Folded, NEW seg \in Segment PROVE Append(p, Lower[seg]) \in Folded
  <2>. DEFINE below == Append(p, Lower[seg])
  <2>1. p \in Path /\ ToLower(p) = p /\ Lower[seg] \in Segment /\ Lower[Lower[seg]] = Lower[seg]
    BY LowerAssumption DEF Folded
  <2>2. /\ below \in Path /\ Len(below) = Len(p) + 1 /\ Len(p) \in Nat
        /\ DOMAIN below = 1 .. Len(p) + 1 /\ DOMAIN p = 1 .. Len(p)
        /\ \A i \in 1 .. Len(p) : below[i] = p[i]
        /\ below[Len(p) + 1] = Lower[seg]
    BY <2>1 DEF Path
  <2>. HIDE DEF below
  <2>3. \A i \in 1 .. Len(p) : p[i] = Lower[p[i]]
    <3>1. ToLower(p) = [i \in 1 .. Len(p) |-> Lower[p[i]]]
      BY <2>2 DEF ToLower
    <3>2. QED
      BY <2>1, <3>1
  <2>4. \A i \in 1 .. Len(p) + 1 : Lower[below[i]] = below[i]
    BY <2>1, <2>2, <2>3
  <2>5. ToLower(below) = [i \in 1 .. Len(p) + 1 |-> below[i]]
    BY <2>2, <2>4 DEF ToLower
  <2>6. below = [i \in 1 .. Len(p) + 1 |-> below[i]]
    BY <2>2 DEF Path
  <2>7. QED
    BY <2>2, <2>5, <2>6 DEF Folded, below
<1>3. QED
  BY <1>1, <1>2

JudgeTypeOK == maximal \in Policy /\ wanted \in Policy /\ judged \in Request \cup {NoRequest}

(***************************************************************************)
(* What is judged keeps its type: a policy as the configuration and the    *)
(* control plane build it, and a request.                                  *)
(***************************************************************************)
THEOREM JudgeType == JudgeSpec => []JudgeTypeOK
<1>1. JudgeInit => JudgeTypeOK
  BY DEF JudgeInit, JudgeTypeOK
<1>2. JudgeTypeOK /\ [Judge]_<<maximal, wanted, judged>> => JudgeTypeOK'
  BY DEF JudgeTypeOK, Judge
<1>3. QED
  BY <1>1, <1>2, PTL DEF JudgeSpec

(***************************************************************************)
(* Narrows, which judges a grant when it is asked for, and Permits, which  *)
(* judges requests later, agree: for every two scopes and every request.   *)
(***************************************************************************)
THEOREM NarrowedBound == JudgeSpec => []NarrowedWithinBound
<1>1. JudgeTypeOK => NarrowedWithinBound
  BY NarrowsSound DEF JudgeTypeOK, NarrowedWithinBound
<1>2. QED
  BY <1>1, JudgeType, PTL

(***************************************************************************)
(* The verdict of a scope's allow list does not see the spelling of a      *)
(* path: any of path.Clean's rules or the case of a segment.               *)
(***************************************************************************)
THEOREM SpellingUnseen == JudgeSpec => []SpellingBlind
<1>1. ASSUME JudgeTypeOK, judged # NoRequest, NEW path \in Respelled(judged.path)
      PROVE  CheckPath(path, wanted) = CheckPath(judged.path, wanted)
  <2>1. judged.path \in Seq(Segment \cup DotSegment)
    BY <1>1, PathAssumption DEF JudgeTypeOK, Request
  <2>2. ToLower(NormalizePath(path)) = ToLower(NormalizePath(judged.path))
    BY <1>1, <2>1, NormalizeRespelled
  <2>3. QED
    BY <2>2 DEF CheckPath, Matches
<1>2. JudgeTypeOK => SpellingBlind
  BY <1>1 DEF SpellingBlind
<1>3. QED
  BY <1>2, JudgeType, PTL

(***************************************************************************)
(* Containment of patterns, the comparison that decides on a grant, is     *)
(* exact as soon as requests may have every path and there is a segment to *)
(* write paths with: it says what matching will do, no more and no less.   *)
(***************************************************************************)
THEOREM ContainmentExact ==
    ASSUME Path \subseteq RequestPath, Segment # {}
    PROVE  JudgeSpec => []ContainsExact
<1>1. NormalPaths = Folded
  <2>1. ASSUME NEW raw \in RequestPath PROVE ToLower(NormalizePath(raw)) \in Folded
    BY PathAssumption, NormalizeType, FoldedPaths
  <2>2. ASSUME NEW p \in Folded PROVE p \in RequestPath /\ ToLower(NormalizePath(p)) = p
    BY NormalizeFixes DEF Folded
  <2>3. QED
    BY <2>1, <2>2 DEF NormalPaths
<1>2. ASSUME NEW b \in PatternText, NEW r \in PatternText, Parses(b), Parses(r)
      PROVE  ContainsPattern(ParsePathPattern(b), ParsePathPattern(r))
                <=> \A p \in NormalPaths : MatchesNormal(ParsePathPattern(r), p)
                                              => MatchesNormal(ParsePathPattern(b), p)
  <2>. DEFINE outer == ParsePathPattern(b)
              inner == ParsePathPattern(r)
  <2>1. outer \in Pattern /\ inner \in Pattern
    BY <1>2, ParseType
  <2>2. inner.prefix \in Folded
    <3>1. r.segs \in Path
      BY <1>2, ParseSegments
    <3>2. QED
      BY <3>1, FoldedPaths DEF ParsePathPattern
  <2>3. Folded \in SUBSET Path
    BY DEF Folded
  <2>. HIDE DEF outer, inner
  <2>4. ASSUME ContainsPattern(outer, inner), NEW p \in NormalPaths, MatchesNormal(inner, p)
        PROVE  MatchesNormal(outer, p)
    BY <1>1, <2>1, <2>3, <2>4, ContainsSound
  <2>5. ASSUME \A p \in NormalPaths : MatchesNormal(inner, p) => MatchesNormal(outer, p)
        PROVE  ContainsPattern(outer, inner)
    <3>1. PICK seg \in Segment : TRUE
      OBVIOUS
    <3>2. Lower[seg] \in Segment /\ \A p \in Folded : Append(p, Lower[seg]) \in Folded
      BY FoldedPaths, LowerAssumption
    <3>3. QED
      BY <1>1, <2>1, <2>2, <2>3, <2>5, <3>2, ContainsComplete
  <2>6. QED
    BY <2>4, <2>5 DEF outer, inner
<1>3. JudgeTypeOK => ContainsExact
  BY <1>2 DEF JudgeTypeOK, Policy, ContainsExact
<1>4. QED
  BY <1>3, JudgeType, PTL

(***************************************************************************)
(* api.go applies the defaults after the boundary check and calls that "a  *)
(* strict narrowing of an unbounded field": the stored scope still narrows *)
(* within the bound the raw one was checked against.                       *)
(***************************************************************************)
THEOREM DefaultsNarrow ==
    ASSUME NEW requested \in Policy, NEW bound \in Policy, Narrows(requested, bound)
    PROVE  ApplyDefaults(requested) \in Policy /\ Narrows(ApplyDefaults(requested), bound)
<1>1. ApplyDefaults(requested) \in Policy
  BY ByteCountAssumption DEF ApplyDefaults, Policy
<1>2. /\ requested.maxBody \in Int
      /\ bound.maxBody \in Int
      /\ DefaultMaxBodyBytes \in Int
      /\ DefaultMaxBodyBytes > 0
  BY ByteCountAssumption DEF Policy
<1>3. BodyNarrow(ApplyDefaults(requested).maxBody, bound.maxBody)
  BY <1>2 DEF ApplyDefaults, Narrows, BodyNarrow, Policy
<1>4. /\ ApplyDefaults(requested).methods = requested.methods
      /\ ApplyDefaults(requested).paths = requested.paths
  BY DEF ApplyDefaults, Policy
<1>5. QED
  BY <1>1, <1>3, <1>4 DEF Narrows
-----------------------------------------------------------------------------
\* Defaulting a scope yields a scope.
LEMMA ApplyDefaultsType ==
    ASSUME NEW policy \in Policy
    PROVE  ApplyDefaults(policy) \in Policy
BY ByteCountAssumption DEF ApplyDefaults, Policy

\* Folding an auth strategy with a header name yields an auth strategy.
LEMMA CanonicalType ==
    ASSUME NEW auth \in AuthRef, NEW name \in HeaderName \cup {NoName}
    PROVE  CanonicalAuthRef(auth, name) \in AuthRef
BY DEF CanonicalAuthRef, AuthRef

\* What a config entry registers is a service under the entry's own key.
LEMMA FromConfigType ==
    ASSUME NEW svc \in Service
    PROVE  FromConfig(svc) \in Service /\ FromConfig(svc).host = svc.host
<1>1. CanonicalAuthRef(svc.auth, svc.header) \in AuthRef
  BY CanonicalType DEF Service
<1>2. ApplyDefaults(svc.policy) \in Policy
  BY ApplyDefaultsType DEF Service
<1>3. FromConfig(svc) = [svc EXCEPT !.auth = CanonicalAuthRef(svc.auth, svc.header),
                                    !.policy = ApplyDefaults(svc.policy)]
  BY DEF FromConfig
<1>4. QED
  BY <1>1, <1>2, <1>3 DEF Service
-----------------------------------------------------------------------------
\* A key is a record of a sequence of labels and a port.
LEMMA KeyShape ==
    ASSUME NEW key \in HostKey
    PROVE  /\ key = [labels |-> key.labels, port |-> key.port]
           /\ key.labels \in Seq(Label \cup {Wild})
<1>1. PICK pattern \in HostPattern : key = ServiceKey(pattern)
  BY DEF HostKey
<1>2. pattern.labels \in Seq(Label \cup {Wild})
  BY HostAssumption DEF HostText
<1>3. LowerLabels(pattern.labels) \in Seq(Label \cup {Wild})
  <2>1. \A i \in DOMAIN pattern.labels : pattern.labels[i] \in Label \cup {Wild}
    BY <1>2
  <2>2. \A i \in DOMAIN pattern.labels : LowerLabel[pattern.labels[i]] \in Label \cup {Wild}
    BY <2>1, HostAssumption
  <2>3. DOMAIN pattern.labels = 1..Len(pattern.labels) /\ Len(pattern.labels) \in Nat
    BY <1>2
  <2>4. QED
    BY <2>2, <2>3 DEF LowerLabels
<1>4. QED
  BY <1>1, <1>3 DEF ServiceKey

\* Two wildcard keys that match one host agree in every label and have no port.
LEMMA WildcardUnique ==
    ASSUME NEW k \in HostKey, NEW l \in HostKey, NEW host,
           IsWildcardMatch(k, host), IsWildcardMatch(l, host)
    PROVE  k = l
<1>1. Len(k.labels) = Len(l.labels) /\ k.port = l.port
  BY DEF IsWildcardMatch
<1>2. \A i \in 1..Len(k.labels) : k.labels[i] = l.labels[i]
  <2>1. k.labels[1] = l.labels[1]
    BY DEF IsWildcardMatch
  <2>2. \A i \in 2..Len(k.labels) : k.labels[i] = l.labels[i]
    BY <1>1 DEF IsWildcardMatch
  <2>3. Len(k.labels) \in Nat
    BY KeyShape
  <2>4. QED
    BY <2>1, <2>2, <2>3
<1>3. k.labels = l.labels
  BY <1>1, <1>2, KeyShape
<1>4. QED
  BY <1>1, <1>3, KeyShape

(***************************************************************************)
(* Whatever is registered, two walks of Lookup over the same map find the  *)
(* same entry: "first match wins" never depends on the order.              *)
(***************************************************************************)
THEOREM LookupDeterministic ==
    ASSUME NEW services \in Services, NEW host \in RequestHost,
           NEW k \in LookupKeys(services, host), NEW l \in LookupKeys(services, host)
    PROVE  k = l
<1>1. CASE NormalizeHostname(host) \in Live(services)
  BY <1>1 DEF LookupKeys
<1>2. CASE NormalizeHostname(host) \notin Live(services)
  BY <1>2, WildcardUnique DEF LookupKeys, Live
<1>3. QED
  BY <1>1, <1>2

-----------------------------------------------------------------------------
\* A pattern's key is a key of the map.
LEMMA KeyType ==
    ASSUME NEW pattern \in HostPattern
    PROVE  ServiceKey(pattern) \in HostKey
BY DEF HostKey

\* The registry at startup, entry by entry.
LEMMA SetupType ==
    /\ Setup(Configured) \in Services
    /\ \A key \in HostKey :
          Setup(Configured)[key] # NoService => ServiceKey(Setup(Configured)[key].host) = key
<1>1. SUFFICES ASSUME NEW key \in HostKey
               PROVE  /\ Setup(Configured)[key] \in Service \cup {NoService}
                      /\ Setup(Configured)[key] # NoService =>
                            ServiceKey(Setup(Configured)[key].host) = key
  BY DEF Setup, Services
<1>2. CASE \E svc \in Configured : ServiceKey(svc.host) = key
  <2>. DEFINE chosen == CHOOSE svc \in Configured : ServiceKey(svc.host) = key
  <2>1. chosen \in Configured /\ ServiceKey(chosen.host) = key
    BY <1>2
  <2>2. Setup(Configured)[key] = FromConfig(chosen)
    BY <1>2 DEF Setup
  <2>3. chosen \in Service
    BY <2>1, ConfigAssumption
  <2>. HIDE DEF chosen
  <2>4. QED
    BY <2>1, <2>2, <2>3, FromConfigType
<1>3. CASE ~\E svc \in Configured : ServiceKey(svc.host) = key
  BY <1>3 DEF Setup
<1>4. QED
  BY <1>2, <1>3

\* A request becomes a service for its own host.
LEMMA GrantedType ==
    ASSUME NEW req \in GrantRequest
    PROVE  /\ ToService(req) \in Service
           /\ Granted(req) \in Service
           /\ Granted(req).host = req.host
           /\ Granted(req).policy = ApplyDefaults(req.policy)
           /\ IdentityOf(Granted(req)) = IdentityOf(ToService(req))
           /\ OperatorOnlyFieldsEmpty(Granted(req))
<1>1. req \in Proposal
  BY ConfigAssumption
<1>2. CanonicalAuthRef(req.auth, req.header) \in AuthRef
  BY <1>1, CanonicalType DEF Proposal
<1>3. ToService(req) \in Service
  BY <1>1, <1>2 DEF Proposal, ToService, Service
<1>4. ApplyDefaults(req.policy) \in Policy
  BY <1>1, ApplyDefaultsType DEF Proposal
<1>5. Granted(req) = [ToService(req) EXCEPT !.policy = ApplyDefaults(req.policy)]
  BY DEF Granted, ToService
<1>6. /\ Granted(req) \in Service
      /\ Granted(req).host = req.host
      /\ Granted(req).cred = ToService(req).cred
      /\ Granted(req).auth = ToService(req).auth
      /\ Granted(req).header = ToService(req).header
      /\ Granted(req).policy = ApplyDefaults(req.policy)
      /\ Granted(req).drop = {} /\ Granted(req).strip = {}
  BY <1>3, <1>4, <1>5 DEF Service, ToService
<1>7. IdentityOf(Granted(req)) = IdentityOf(ToService(req))
  BY <1>6 DEF IdentityOf, ToService
<1>8. QED
  BY <1>3, <1>6, <1>7 DEF OperatorOnlyFieldsEmpty

(***************************************************************************)
(* Authorize before ApplyDefaults is enough: the service that a grant      *)
(* stores permits only what its pairing's bound permits.                   *)
(***************************************************************************)
THEOREM GrantedWithin ==
    ASSUME NEW req \in GrantRequest, Authorize(ToService(req))
    PROVE  WithinUniverse(Granted(req))
<1>1. PICK pairing \in Grantable :
          /\ IdentityOf(pairing) = IdentityOf(ToService(req))
          /\ Narrows(ToService(req).policy, pairing.bound)
  BY DEF Authorize
<1>2. req.policy \in Policy /\ pairing.bound \in Policy
  BY ConfigAssumption DEF Proposal, Pairing
<1>3. ToService(req).policy = req.policy
  BY DEF ToService
<1>4. ApplyDefaults(req.policy) \in Policy /\ Narrows(ApplyDefaults(req.policy), pairing.bound)
  BY <1>1, <1>2, <1>3, DefaultsNarrow
<1>5. \A q \in Request : Permits(Granted(req).policy, q) => Permits(pairing.bound, q)
  BY <1>2, <1>4, NarrowsSound, GrantedType
<1>6. QED
  BY <1>1, <1>5, GrantedType DEF WithinUniverse
=============================================================================
