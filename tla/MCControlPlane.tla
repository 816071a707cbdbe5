--------------------------- MODULE MCControlPlane ---------------------------
(***************************************************************************)
(* A small daemon for TLC: one configured service, three pairings of which *)
(* one is a wildcard and one names a port, and grants that narrow, widen,  *)
(* misname or misspell them.                                               *)
(***************************************************************************)
EXTENDS GrantsClient, TLC

MCSegment == {"v1", "V1", "admin"}
MCLower == [s \in MCSegment |-> IF s = "V1" THEN "v1" ELSE s]

MCRequestPath == {<<>>, <<"v1">>, <<"V1", "admin">>, <<"v1", "..", "admin">>}

Subtree(segs) == [rooted |-> TRUE, segs |-> segs, subtree |-> TRUE]
Exact(segs)   == [rooted |-> TRUE, segs |-> segs, subtree |-> FALSE]

V1Tree   == Subtree(<<"v1">>)
V1Admin  == Exact(<<"V1", "admin">>)
AdminTop == Exact(<<"admin">>)
Climbing == Exact(<<"v1", "..", "admin">>)

MCPatternText == {V1Tree, V1Admin, AdminTop, Climbing}

Scope(methods, paths, maxBody) == [methods |-> methods, paths |-> paths, maxBody |-> maxBody]
MCByteCount == -1..2
Anything == Scope({}, {}, 0)

-----------------------------------------------------------------------------
MCLabel == {"api", "API", "other", "x"}
MCLowerLabel == [l \in MCLabel \cup {Wild} |-> IF l = "API" THEN "api" ELSE l]

Host(labels) == [labels |-> labels, port |-> NoPort]
Api      == Host(<<"api", "x">>)
ApiUpper == Host(<<"API", "x">>)
AnyX     == Host(<<Wild, "x">>)
ApiPort  == [labels |-> <<"api", "x">>, port |-> 443]
Nowhere  == Host(<<>>)

MCHostPattern == {Api, ApiUpper, AnyX, ApiPort, Nowhere}
MCRequestHost == {Api, ApiPort, Host(<<"other", "x">>)}

Bearer    == [scheme |-> "bearer", name |-> NoName]
Header    == [scheme |-> "header", name |-> NoName]
HeaderKey == [scheme |-> "header", name |-> "x-api-key"]

MCConfigured ==
    {[host |-> AnyX, cred |-> "file:static", auth |-> Bearer, header |-> NoName,
      placeholder |-> "chap_static", policy |-> Scope({"GET"}, {}, 0),
      drop |-> {"drop_rule"}, strip |-> {"x-api-key"}]}

Pair(host, cred, auth, bound) ==
    [host |-> host, cred |-> cred, auth |-> auth, header |-> NoName, bound |-> bound]

MCGrantable ==
    {Pair(Api, "env:a", Bearer, Scope({"GET", "POST"}, {V1Tree}, 1)),
     Pair(AnyX, "env:b", HeaderKey, Anything),
     Pair(ApiPort, "env:a", Bearer, Anything)}

Ask(host, cred, auth, header, policy) ==
    [host |-> host, cred |-> cred, auth |-> auth, header |-> header,
     placeholder |-> NoName, policy |-> policy]

\* Narrower than the bound, as wide, unlimited under an unlimited bound;
\* then wider methods, a path outside, another credential, a pattern that
\* does not parse; a negative limit; and a host with a port.
MCGrantRequest ==
    {Ask(Api, "env:a", Bearer, NoName, Scope({"GET"}, {V1Admin}, 1)),
     Ask(ApiUpper, "env:a", Bearer, NoName, Scope({"GET", "POST"}, {V1Tree}, 1)),
     Ask(AnyX, "env:b", Header, "x-api-key", Anything),
     Ask(Api, "env:a", Bearer, NoName, Scope({}, {V1Tree}, 1)),
     Ask(Api, "env:a", Bearer, NoName, Scope({"GET"}, {AdminTop}, 1)),
     Ask(Api, "env:b", Bearer, NoName, Scope({"GET"}, {V1Tree}, 1)),
     Ask(AnyX, "env:b", HeaderKey, NoName, Scope({}, {Climbing}, 0)),
     Ask(Api, "env:a", Bearer, NoName, Scope({"GET"}, {V1Tree}, -1)),
     Ask(ApiPort, "env:a", Bearer, NoName, Scope({"GET"}, {}, 2))}

CallSymmetry == Permutations(Call)
=============================================================================
