----------------------------- MODULE MCRedaction -----------------------------
(***************************************************************************)
(* Every text of up to five letters, grown a letter at a time, against     *)
(* every set of up to three secrets of up to three letters.                *)
(***************************************************************************)
EXTENDS Redaction, FiniteSetsExt

MCLetter == {"a", "b", "-"}
SecretLetter == {"a", "b"}
MaxText == 5
Secret == BoundedSeq(SecretLetter, 3)   \* the empty one too

MCRecordedName == {"authorization", "Authorization", "x-trace"}
MCLowerName == [n \in MCRecordedName |-> IF n = "Authorization" THEN "authorization" ELSE n]

MCTextInit ==
    /\ secrets \in UNION {kSubset(n, Secret) : n \in 0 .. 3}
    /\ text = <<>>

\* The other letter only ever stands next to a secret.
MCGrow ==
    /\ Len(text) < MaxText
    /\ Grow
    /\ ToSet(text') \subseteq SecretLetter
=============================================================================
