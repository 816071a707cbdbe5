---------------------------- MODULE MCGrantScope ----------------------------
(***************************************************************************)
(* The judgement of scopes over a small vocabulary.                        *)
(***************************************************************************)
EXTENDS JudgedScope

MCSegment == {"v1", "V1", "chat"}
MCLower == [s \in MCSegment |-> IF s = "V1" THEN "v1" ELSE s]
MCByteCount == -1..2

\* Every path of up to three segments, dots and empty segments included.
MCRequestPath == UNION {[1..n -> MCSegment \cup {"", ".."}] : n \in 0..3}

Written(rooted, segs, subtree) == [rooted |-> rooted, segs |-> segs, subtree |-> subtree]

\* "/", "/*", "/V1", "/v1/*", "/v1/chat", "/v1/chat/*"; then texts that are
\* not in the vocabulary: "//*", "/v1/..", a glob and "v1/*".
InVocabulary ==
    {Written(TRUE, <<>>, FALSE), Written(TRUE, <<>>, TRUE),
     Written(TRUE, <<"V1">>, FALSE), Written(TRUE, <<"v1">>, TRUE),
     Written(TRUE, <<"v1", "chat">>, FALSE), Written(TRUE, <<"v1", "chat">>, TRUE)}

MCPatternText ==
    InVocabulary \cup
    {Written(TRUE, <<"">>, TRUE), Written(TRUE, <<"v1", "..">>, FALSE),
     Written(TRUE, <<Glob>>, FALSE), Written(FALSE, <<"v1">>, TRUE)}

Scopes ==
    [methods : {{}}, paths : {{}} \cup {{t} : t \in MCPatternText}, maxBody : {0}]
      \cup
    [methods : {{}, {"GET"}, {"GET", "POST"}}, paths : {InVocabulary}, maxBody : {0, 1, 2}]

Unlimited == [methods |-> {}, paths |-> {}, maxBody |-> 0]

ScopeInit ==
    /\ maximal \in {scope \in Scopes : Narrows(scope, scope)}
    /\ wanted \in Scopes
    /\ judged = NoRequest
=============================================================================
