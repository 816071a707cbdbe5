------------------------------ MODULE Redaction ------------------------------
(***************************************************************************)
(* What a recorder makes of a string and of headers before it keeps them   *)
(* (internal/redact/redact.go).                                            *)
(*                                                                         *)
(* A text is a sequence of letters.  The placeholder "[REDACTED]" is one   *)
(* letter that no secret contains.                                         *)
(***************************************************************************)
EXTENDS Naturals, SequencesExt

CONSTANTS
    Letter,               \* what texts and secrets are made of
    Redacted,             \* the placeholder
    RecordedName,         \* header names as they are written
    LowerName,            \* strings.ToLower on them
    CredentialPosition    \* recordedCredentialPositions, lower case

ASSUME RedactionAssumption ==
    /\ Redacted \notin Letter
    /\ LowerName \in [RecordedName -> RecordedName]
    /\ CredentialPosition \subseteq RecordedName

Occurs(value, text, i) ==
    i + Len(value) - 1 <= Len(text) /\ SubSeq(text, i, i + Len(value) - 1) = value

Holds(text, value) == \E i \in DOMAIN text : Occurs(value, text, i)

-----------------------------------------------------------------------------
\* strings.ReplaceAll: left to right, without overlaps.
ReplaceEvery(text, value) ==
    LET From[i \in 1 .. Len(text) + Len(value)] ==
            IF i > Len(text) THEN <<>>
            ELSE IF Occurs(value, text, i) THEN <<Redacted>> \o From[i + Len(value)]
            ELSE <<text[i]>> \o From[i + 1]
    IN From[1]

\* Mutant of KnownValues: the order of the sources.
KnownValuesUnsorted(values) == SetToSeqs(values \ {<<>>})

\* Longest first; values of one length come in any order.
KnownValues(values) ==
    {order \in SetToSeqs(values \ {<<>>}) :
        \A i, j \in DOMAIN order : i < j => Len(order[i]) >= Len(order[j])}

Scrub(text, order) == FoldLeft(ReplaceEvery, text, order)

IsCredential(name) == LowerName[name] \in CredentialPosition

\* Headers: a credential position is replaced whole, whatever it holds.
RedactHeaders(headers, order) ==
    [name \in DOMAIN headers |->
        IF IsCredential(name)
          THEN <<<<Redacted>>>>
          ELSE [i \in DOMAIN headers[name] |-> Scrub(headers[name][i], order)]]

-----------------------------------------------------------------------------
(***************************************************************************)
(* The secrets that are known, and a string to record that grows a letter  *)
(* at a time.                                                              *)
(***************************************************************************)
VARIABLES secrets, text

TextInit == secrets \subseteq Seq(Letter) /\ IsFiniteSet(secrets) /\ text = <<>>

Grow ==
    /\ \E letter \in Letter : text' = Append(text, letter)
    /\ UNCHANGED secrets

TextSpec == TextInit /\ [][Grow]_<<secrets, text>>

Values == secrets \ {<<>>}

(***************************************************************************)
(* Redaction is exact.  In whatever order secrets of one length are taken, *)
(* nothing known is left in a recorded string or in any value of a         *)
(* recorded header, and nothing at all in a credential position, however   *)
(* it is spelled; a secret that embeds another is replaced whole, so that  *)
(* no fragment of it is left; and nothing else is taken away: what is left *)
(* are the string's letters, in their order, and each placeholder stands   *)
(* for one secret.                                                         *)
(***************************************************************************)
RedactedExactly ==
    \A order \in KnownValues(secrets) :
        LET out     == Scrub(text, order)
            headers == RedactHeaders([n \in RecordedName |-> <<text, text>>], order)
            gaps    == {i \in DOMAIN out : out[i] = Redacted}
        IN /\ \A name \in RecordedName :
                 /\ LowerName[name] \in CredentialPosition => headers[name] = <<<<Redacted>>>>
                 /\ \A v \in Values, i \in DOMAIN headers[name] : ~Holds(headers[name][i], v)
           /\ \A v \in Values :
                 /\ ~Holds(out, v)
                 /\ \A neutral \in Letter \ UNION {ToSet(w) : w \in Values} :
                       Scrub(text \o <<neutral>> \o v \o <<neutral>>, order)
                         = out \o <<neutral, Redacted, neutral>>
           /\ \E value \in [gaps -> Values] :
                 FlattenSeq([i \in DOMAIN out |-> IF i \in gaps THEN value[i] ELSE <<out[i]>>]) = text
=============================================================================
