---------------------------- MODULE MCSharedFiles ----------------------------
(***************************************************************************)
(* Processes around files that they share and that outlive them: daemons   *)
(* around the control socket (ControlSocket), and processes around the two *)
(* files of a CA (CAStore).  Each behaviour is about one of them.          *)
(***************************************************************************)
EXTENDS ControlSocket, CAStore, TLC

VARIABLE about

filesVars == <<vars, storeVars, about>>

NoDaemon  == Init
NoProcess == StoreInit /\ ephemeral = FALSE

FilesInit ==
    \/ about = "socket" /\ Init /\ NoProcess
    \/ about = "CA" /\ StoreInit /\ NoDaemon

\* Every process has ended.
AllEnded == (\A p \in Process : at[p] \in {"failed", "ended", "died"}) /\ UNCHANGED storeVars

FilesNext ==
    \/ about = "socket" /\ Next /\ UNCHANGED <<about, storeVars>>
    \/ about = "CA" /\ (StoreNext \/ AllEnded) /\ UNCHANGED <<about, vars>>

FilesSpec == FilesInit /\ [][FilesNext]_filesVars

Interchangeable == Permutations(Daemon)
=============================================================================
