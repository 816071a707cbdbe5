----------------------------- MODULE JudgedScope -----------------------------
(***************************************************************************)
(* What GrantScope has to agree about: the maximal bound of a pairing, a   *)
(* scope that a grant asks for, and one request that is judged by both.    *)
(***************************************************************************)
EXTENDS GrantScope

CONSTANT NoRequest

ASSUME NoRequestAssumption == NoRequest \notin Request

VARIABLES maximal, wanted, judged

JudgeInit ==
    /\ maximal \in Policy /\ wanted \in Policy
    /\ judged = NoRequest

Judge ==
    /\ judged = NoRequest
    /\ judged' \in Request
    /\ UNCHANGED <<maximal, wanted>>

JudgeSpec == JudgeInit /\ [][Judge]_<<maximal, wanted, judged>>

-----------------------------------------------------------------------------
(***************************************************************************)
(* Other spellings of a path, by path.Clean's documented rules and one at  *)
(* a time: without an empty or "." segment, without a ".." at the root,    *)
(* without a ".." and the segment before it; and with one segment in its   *)
(* folded case.                                                            *)
(***************************************************************************)
Without(p, first, last) == SubSeq(p, 1, first - 1) \o SubSeq(p, last + 1, Len(p))

Respelled(p) ==
    {Without(p, i, i) : i \in {j \in DOMAIN p : p[j] \in {"", "."} \/ (p[j] = ".." /\ j = 1)}}
      \cup
    {Without(p, i - 1, i) : i \in {j \in DOMAIN p : j > 1 /\ p[j] = ".." /\ p[j - 1] \in Segment}}
      \cup
    {[p EXCEPT ![i] = Lower[p[i]]] : i \in {j \in DOMAIN p : p[j] \in Segment}}

\* Every path of a request, as matching sees it.
NormalPaths == {ToLower(NormalizePath(p)) : p \in RequestPath}

(***************************************************************************)
(* Narrows: a request the narrower scope permits, the bound permits.       *)
(***************************************************************************)
NarrowedWithinBound ==
    judged # NoRequest /\ Narrows(wanted, maximal) /\ Permits(wanted, judged)
        => Permits(maximal, judged)

(***************************************************************************)
(* contains is exact: one pattern contains another just when every path    *)
(* the inner one matches, the outer one matches.                           *)
(***************************************************************************)
ContainsExact ==
    \A b \in maximal.paths, r \in wanted.paths :
        Parses(b) /\ Parses(r) =>
            LET outer == ParsePathPattern(b)
                inner == ParsePathPattern(r)
            IN ContainsPattern(outer, inner)
                 <=> \A p \in NormalPaths : MatchesNormal(inner, p) => MatchesNormal(outer, p)

(***************************************************************************)
(* "/v1/../admin" is judged as "/admin": a path's spelling, in dots,       *)
(* slashes or case, never changes whether a scope permits it.              *)
(***************************************************************************)
SpellingBlind ==
    judged # NoRequest =>
        \A path \in Respelled(judged.path) : CheckPath(path, wanted) = CheckPath(judged.path, wanted)
=============================================================================
