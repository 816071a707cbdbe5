------------------------------- MODULE MCGateway -------------------------------
(***************************************************************************)
(* A small gateway for TLC: a bearer service and a header service, both    *)
(* with a placeholder; a pairing for the bearer service's host and three   *)
(* for a wildcard.  One of those has no header name and so no strategy,    *)
(* one an empty header name and so a strategy that fails.                  *)
(***************************************************************************)
EXTENDS Gateway

MCSegment == {"v1", "V1", "admin", "chat"}
MCLower == [s \in MCSegment |-> IF s = "V1" THEN "v1" ELSE s]

Chat     == <<"v1", "chat">>
Escaping == <<"v1", "..", "admin">>
Banned   == <<"V1", "", "admin", "chat">>

MCRequestPath == {Chat, Escaping, Banned}

Subtree(segs) == [rooted |-> TRUE, segs |-> segs, subtree |-> TRUE]

MCPatternText == {Subtree(<<"v1">>)}

Scope(methods, paths, maxBody) == [methods |-> methods, paths |-> paths, maxBody |-> maxBody]
MCByteCount == -1..2
Anything == Scope({}, {}, 0)

-----------------------------------------------------------------------------
MCLabel == {"api", "API", "other", "key", "x"}
MCLowerLabel == [l \in MCLabel \cup {Wild} |-> IF l = "API" THEN "api" ELSE l]

Host(labels) == [labels |-> labels, port |-> NoPort]
Api   == Host(<<"api", "x">>)
AnyX  == Host(<<Wild, "x">>)
Key   == Host(<<"key">>)
ApiPort == [labels |-> <<"API", "x">>, port |-> 443]
Other == Host(<<"other", "x">>)
Deep  == Host(<<"other", "api", "x">>)

MCHostPattern == {Api, AnyX, Key}
MCRequestHost == {ApiPort, Other, Deep, Key}

Bearer    == [scheme |-> "bearer", name |-> NoName]
Header    == [scheme |-> "header", name |-> NoName]
HeaderKey == [scheme |-> "header", name |-> "x-api-key"]
EmptyName == [scheme |-> "header", name |-> ""]

NoAdmin == [labels |-> <<"x">>, allPaths |-> FALSE, path |-> Subtree(<<"v1", "admin">>)]
MCDropText == {NoAdmin}

ApiService ==
    [host |-> Api, cred |-> "env:a", auth |-> Bearer, header |-> NoName,
     placeholder |-> "chap_a", policy |-> Scope({"GET"}, {Subtree(<<"v1">>)}, 1),
     drop |-> {NoAdmin}, strip |-> {"x-debug"}]

KeyService ==
    [host |-> Key, cred |-> "env:k", auth |-> Header, header |-> "x-api-key",
     placeholder |-> "chap_k", policy |-> Anything, drop |-> {}, strip |-> {}]

MCConfigured == {ApiService, KeyService}

Pair(host, cred, auth, bound) ==
    [host |-> host, cred |-> cred, auth |-> auth, header |-> NoName, bound |-> bound]

ApiBound == Scope({"GET", "POST"}, {Subtree(<<"v1">>)}, 1)

MCGrantable ==
    {Pair(Api, "env:a", Bearer, ApiBound),
     Pair(AnyX, "env:b", HeaderKey, Anything),
     Pair(AnyX, "env:b", Header, Anything),
     Pair(AnyX, "env:b", EmptyName, Anything)}

Ask(host, cred, auth, policy) ==
    [host |-> host, cred |-> cred, auth |-> auth, header |-> NoName,
     placeholder |-> NoName, policy |-> policy]

MCGrantRequest ==
    {Ask(Api, "env:a", Bearer, ApiBound),
     Ask(AnyX, "env:b", HeaderKey, Scope({}, {}, 2)),
     Ask(AnyX, "env:b", Header, Anything),
     Ask(AnyX, "env:b", EmptyName, Anything)}

-----------------------------------------------------------------------------
Raw(token)    == [bearer |-> FALSE, token |-> token]
WithBearer(token) == [bearer |-> TRUE, token |-> token]

Sends(auth, key, debug) ==
    [h \in HeaderName |->
        CASE h = "authorization" -> auth
          [] h = "x-api-key"     -> key
          [] h = "x-debug"       -> debug
          [] OTHER               -> <<>>]

Get(host, path, creds, hs) ==
    [host |-> host, method |-> "GET", path |-> path, size |-> -1, creds |-> creds,
     headers |-> hs]

Placeheld == Sends(<<WithBearer("chap_a")>>, <<>>, <<Raw("own")>>)
OwnBearer == Sends(<<WithBearer("own")>>, <<Raw("own")>>, <<>>)
OwnKey    == Sends(<<>>, <<Raw("own")>>, <<>>)

\* The client's own credential behind the placeholder, and before it.
OwnBehind == Sends(<<WithBearer("chap_a"), WithBearer("own")>>, <<Raw("chap_a"), Raw("own")>>, <<>>)
OwnBefore == Sends(<<Raw("own"), Raw("chap_k")>>, <<Raw("chap_k"), Raw("own")>>, <<Raw("own")>>)

\* With the placeholder, the client's own credential, both, none; out of
\* scope by method, path and size; dropped; to a host nothing covers.
MCClientRequest ==
    {Get(ApiPort, Chat, "good", Placeheld),
     Get(ApiPort, Chat, "good", OwnBehind),
     Get(ApiPort, Chat, "none", OwnBearer),
     [Get(ApiPort, Chat, "good", Placeheld) EXCEPT !.method = "POST"],
     Get(ApiPort, Escaping, "good", Placeheld),
     Get(ApiPort, Banned, "good", Placeheld),
     [Get(ApiPort, Chat, "good", Placeheld) EXCEPT !.size = 2],
     Get(Other, Chat, "good", OwnKey),
     Get(Deep, Chat, "good", OwnKey),
     Get(Key, Chat, "good", OwnBefore),
     Get(Key, Chat, "bad", OwnKey),
     Get(Key, Chat, "good", Sends(<<Raw("chap_k")>>, <<WithBearer("chap_k")>>, <<>>))}
=============================================================================
