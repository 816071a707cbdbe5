--------------------------- MODULE MCSecretRegistry ---------------------------
(***************************************************************************)
(* Three requests, a configured credential and one of a grant; requests    *)
(* and secrets are interchangeable.                                        *)
(***************************************************************************)
EXTENDS SecretRegistry, TLC

Interchangeable == Permutations(Request) \cup Permutations(Value)
=============================================================================
