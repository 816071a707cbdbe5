------------------------------ MODULE UrlPattern ------------------------------
(***************************************************************************)
(* Drop rules (internal/service/urlpattern.go): "host", "host/path",       *)
(* "host/subtree/*" or "/path".  The path is judged as an allow list's is; *)
(* the host by a rule of its own, under which a name covers its subdomains.*)
(***************************************************************************)
EXTENDS ServiceRegistry

\* A pattern as written.  labels is <<>> when the pattern starts with its
\* path; allPaths says it has none.
DropRule == [labels : Seq(Label \cup {Wild}), allPaths : BOOLEAN, path : Text]

ParsesURL(rule) == rule.allPaths \/ Parses(rule.path)

\* matchHost: any host, a domain with everything below it, and "*.domain",
\* which means the same.  A "*" anywhere else matches nothing.
MatchHost(labels, pattern) ==
    LET lower == LowerLabels(pattern)
        domain == IF lower # <<>> /\ lower[1] = Wild THEN Tail(lower) ELSE lower
    IN \/ domain = <<>>
       \/ /\ \A i \in DOMAIN domain : domain[i] # Wild
          /\ IsSuffix(domain, LowerLabels(labels))

MatchesURL(rule, host, path) ==
    /\ MatchHost(host.labels, rule.labels)
    /\ rule.allPaths \/ Matches(ParsePathPattern(rule.path), path)

\* dropHandler: a rule that does not parse blocks the request.
Dropped(svc, host, path) ==
    \E rule \in svc.drop : ~ParsesURL(rule) \/ MatchesURL(rule, host, path)
=============================================================================
