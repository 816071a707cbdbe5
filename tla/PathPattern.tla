---------------------------- MODULE PathPattern ----------------------------
(***************************************************************************)
(* The path-pattern vocabulary of internal/service/pathmatch.go: an exact  *)
(* path or a subtree "<prefix>/*".  The allow list (CheckPath), the drop   *)
(* list (URLPattern) and grant narrowing (Narrows) all judge paths here.   *)
(*                                                                         *)
(* A path is the sequence of its segments after the leading "/": "/" is    *)
(* <<>>, "/v1/chat" is <<"v1", "chat">>, "/v1//x" is <<"v1", "", "x">>.    *)
(***************************************************************************)
EXTENDS Integers, Sequences, SequencesExt

CONSTANTS
    Segment,       \* ordinary path segments, in every spelling clients use
    Lower,         \* strings.ToLower on one segment
    RequestPath,   \* the request paths clients send
    PatternText    \* the patterns config files and grants are written with

DotSegment == {"", ".", ".."}

\* A segment no canonical path can carry: "*", "?" or "[" inside it.
Glob == "*"

ASSUME LowerAssumption ==
    /\ Lower \in [Segment -> Segment]
    /\ \A s \in Segment : Lower[Lower[s]] = Lower[s]
    /\ Segment \cap (DotSegment \cup {Glob}) = {}

Path == Seq(Segment)

(***************************************************************************)
(* normalizePath: path.Clean on a rooted path.  "" and "." vanish, ".."    *)
(* removes the segment before it and is dropped at the root.               *)
(***************************************************************************)
CleanStep(done, seg) ==
    CASE seg \in {"", "."} -> done
      [] seg = ".."        -> IF done = <<>> THEN done ELSE Front(done)
      [] OTHER             -> Append(done, seg)

NormalizePath(raw) == FoldLeft(CleanStep, <<>>, raw)

ToLower(p) == [i \in DOMAIN p |-> Lower[p[i]]]

(***************************************************************************)
(* A pattern as written in a config or a grant, and the pattern it parses  *)
(* to.  "subtree" says the text ends in "/*", which is not part of "segs". *)
(***************************************************************************)
Text == [rooted : BOOLEAN, segs : Seq(Segment \cup DotSegment \cup {Glob}), subtree : BOOLEAN]

Pattern == [prefix : Path, wildcard : BOOLEAN]

ASSUME PathAssumption ==
    /\ \A raw \in RequestPath : raw \in Seq(Segment \cup DotSegment)
    /\ PatternText \subseteq Text

\* parsePathPattern succeeds: rooted, no glob, already canonical.  "//*" is
\* segs = <<"">> and is refused as not canonical; "/*" is segs = <<>>.
Parses(text) ==
    /\ text.rooted
    /\ \A i \in DOMAIN text.segs : text.segs[i] # Glob
    /\ text.segs = NormalizePath(text.segs)

ParsePathPattern(text) == [prefix |-> ToLower(text.segs), wildcard |-> text.subtree]

ValidatePathPatterns(texts) == \A text \in texts : Parses(text)

(***************************************************************************)
(* strings.HasPrefix(p, "<prefix>/"), the subtree check.  It cannot match  *)
(* the prefix itself, except that "/*" matches "/" as well.  Between two   *)
(* subtree patterns, HasPrefix("<p>/", "<prefix>/") is IsPrefix.           *)
(***************************************************************************)
InSubtree(p, prefix) == prefix = <<>> \/ IsStrictPrefix(prefix, p)

\* The verdict of a parsed pattern on a path already normalized and folded.
MatchesNormal(pattern, path) ==
    IF pattern.wildcard THEN InSubtree(path, pattern.prefix)
                        ELSE path = pattern.prefix

\* Mutant of Matches: the case of the path is not folded.
MatchesCase(pattern, raw) == MatchesNormal(pattern, NormalizePath(raw))

Matches(pattern, raw) == MatchesNormal(pattern, ToLower(NormalizePath(raw)))

\* Mutant of ContainsPattern: a subtree contains its own root.
ContainsRoot(outer, inner) ==
    \/ ~outer.wildcard /\ ~inner.wildcard /\ inner.prefix = outer.prefix
    \/ outer.wildcard /\ IsPrefix(outer.prefix, inner.prefix)

\* contains: every path that matches inner also matches outer.
ContainsPattern(outer, inner) ==
    \/ ~outer.wildcard /\ ~inner.wildcard /\ inner.prefix = outer.prefix
    \/ outer.wildcard /\ ~inner.wildcard /\ InSubtree(inner.prefix, outer.prefix)
    \/ outer.wildcard /\ inner.wildcard /\ IsPrefix(outer.prefix, inner.prefix)
=============================================================================
