--------------------------- MODULE MCControlSocket ---------------------------
(***************************************************************************)
(* Four processes that want the control socket; they are interchangeable.  *)
(***************************************************************************)
EXTENDS ControlSocket, TLC

Interchangeable == Permutations(Daemon)
=============================================================================
