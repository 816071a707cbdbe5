---------------------------- MODULE MCChildLaunch ----------------------------
(***************************************************************************)
(* Every string of up to four characters, grown one at a time, and every   *)
(* environment over a few variables.                                       *)
(***************************************************************************)
EXTENDS ChildLaunch

MCCharacter == {Escape, Dollar, OpenBrace, CloseBrace, "a", "-"}
MaxTemplate == 4

\* "a" is a reference to itself, should anyone expand it twice; "aa" is
\* empty; "aaa" is not defined; "a-" has a name that only braces can hold.
MCExported == (<<"a">> :> <<Dollar, "a">>) @@ (<<"a", "a">> :> <<>>) @@ (<<"a", "-">> :> <<"-">>)
MCName     == DOMAIN MCExported \cup {<<>>, <<"a", "a", "a">>, <<Dollar, CloseBrace>>}

MCDefaultCA == {"SSL_CERT_FILE", "NODE_EXTRA_CA_CERTS"}
Inherited   == {"HTTPS_PROXY", "HOME"} \cup MCDefaultCA
MCVariable  == Inherited \cup {"OWN"}
Lines       == {Blank, Bad, Assignment("HTTPS_PROXY"), Assignment("SSL_CERT_FILE"), Assignment("HOME")}

NoLaunch == [parent |-> {}, lines |-> <<>>, caEnvVars |-> {}, user |-> {}]

\* ca_env_vars that name a proxy variable are accepted.
MCLaunchInit ==
    /\ template = <<>>
    /\ launch \in [parent : SUBSET Inherited, lines : BoundedSeq(Lines, 2),
                   caEnvVars : {{}, {"SSL_CERT_FILE"}, {"HTTPS_PROXY"}},
                   user : SUBSET {"HTTPS_PROXY", "NODE_EXTRA_CA_CERTS", "OWN"}]

MCLengthen == launch = NoLaunch /\ Len(template) < MaxTemplate /\ Lengthen
=============================================================================
