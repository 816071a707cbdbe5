----------------------------- MODULE MCCertCache -----------------------------
(***************************************************************************)
(* Four handshakes: three for one host, in two spellings, one for another. *)
(***************************************************************************)
EXTENDS CertCache

CONSTANTS c1, c2, c3, c4

MCNormalize == [s \in Spelling |-> IF s = "API.x:443" THEN "api.x" ELSE s]

MCAsks ==
    [c \in Caller |-> CASE c = c3 -> "API.x:443" [] c = c4 -> "other.x" [] OTHER -> "api.x"]
=============================================================================
