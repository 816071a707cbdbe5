------------------------------ MODULE MCStartup ------------------------------
(***************************************************************************)
(* Configs of up to two services and two pairings, with one of everything  *)
(* that startup refuses, or lets through and should not.                   *)
(***************************************************************************)
EXTENDS Startup

MCLabel == {"api", "API", "x"}
MCLowerLabel == [l \in MCLabel \cup {Wild} |-> IF l = "API" THEN "api" ELSE l]

Host(labels) == [labels |-> labels, port |-> NoPort]
Api      == Host(<<"api", "x">>)
ApiUpper == Host(<<"API", "x">>)
AnyX     == Host(<<Wild, "x">>)
Nowhere  == Host(<<>>)
MCHostPattern == {Api, ApiUpper, AnyX, Nowhere}

Auth(scheme, name) == [scheme |-> scheme, name |-> name]
Bearer == Auth("bearer", NoName)
Keyed  == Auth("header", "x-api-key")
\* "header", "header:" and "basic".
Odd    == {Auth("header", NoName), Auth("header", ""), Auth("basic", NoName)}

Tree(segs) == [rooted |-> TRUE, segs |-> segs, subtree |-> TRUE]
BadPath    == [rooted |-> FALSE, segs |-> <<"v1">>, subtree |-> TRUE]
BadDrop    == [labels |-> <<>>, allPaths |-> FALSE, path |-> BadPath]
MCDropText == {BadDrop}
Limit(maxBody, paths) == [methods |-> {}, paths |-> paths, maxBody |-> maxBody]
Free == Limit(0, {})

Plain ==
    [host |-> Api, cred |-> "env:a", auth |-> Bearer, header |-> NoName,
     placeholder |-> NoName, policy |-> Free, drop |-> {}, strip |-> {}]

Sections ==
    {Plain, [Plain EXCEPT !.host = ApiUpper], [Plain EXCEPT !.host = AnyX],
     [Plain EXCEPT !.host = Nowhere], [Plain EXCEPT !.cred = "none"],
     [Plain EXCEPT !.cred = "vault:x"], [Plain EXCEPT !.placeholder = "short"],
     [Plain EXCEPT !.policy = Limit(-1, {})], [Plain EXCEPT !.policy = Limit(1, {BadPath})],
     [Plain EXCEPT !.drop = {BadDrop}],
     [Plain EXCEPT !.auth = Auth("header", NoName), !.header = "x-api-key", !.host = AnyX]}
      \cup {[Plain EXCEPT !.auth = ref, !.host = AnyX] : ref \in Odd}

NoRun == [present |-> FALSE, hasCommand |-> FALSE, stdout |-> "", stderr |-> ""]
Run(hasCommand, stdout, stderr) ==
    [present |-> TRUE, hasCommand |-> hasCommand, stdout |-> stdout, stderr |-> stderr]
Usual == Run(TRUE, "", "file:")
RunSections == {NoRun, Usual, Run(FALSE, "", ""), Run(TRUE, "other", "short"), Run(TRUE, "discard", "short")}

Pair == [host |-> Api, cred |-> "env:b", auth |-> Bearer, header |-> NoName, bound |-> Free]
Pairs ==
    {Pair, [Pair EXCEPT !.host = Nowhere], [Pair EXCEPT !.cred = "vault:x"],
     [Pair EXCEPT !.bound = Limit(-1, {})], [Pair EXCEPT !.bound = Limit(0, {BadPath})],
     [Pair EXCEPT !.host = ApiUpper, !.bound = Limit(1, {Tree(<<"v1">>)})]}
      \cup {[Pair EXCEPT !.auth = ref] : ref \in Odd \cup {Keyed}}

Tables == {<<>>} \cup {<<g>> : g \in Pairs} \cup {<<Pair, g>> : g \in Pairs}

StartupInit ==
    /\ \E names \in SUBSET ServiceName :
          \/ /\ sections \in [names -> Sections]
             /\ runs = [n \in names |-> Usual]
             /\ grantable \in Tables
          \/ /\ sections = [n \in names |-> [Plain EXCEPT !.host = IF n = "a" THEN Api ELSE AnyX]]
             /\ runs \in [names -> RunSections]
             /\ grantable = <<>>
    /\ mode \in {"inject", "run"}
    /\ chosen \in IF mode = "run" THEN {{"a"}} ELSE {{}, {"a"}}
    /\ cliCommand \in IF mode = "run" THEN BOOLEAN ELSE {FALSE}
    /\ Begins
=============================================================================
