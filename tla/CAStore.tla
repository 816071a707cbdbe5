------------------------------- MODULE CAStore -------------------------------
(***************************************************************************)
(* The two files of the certificate authority (internal/mitm/ca.go):       *)
(* LoadOrGenerateCA by processes that may run at the same time, and that   *)
(* may die between any two of its system calls.                            *)
(*                                                                         *)
(* inject and examine share a directory.  run has one that is named by its *)
(* process id and that it removes when its child has exited; two of them   *)
(* meet in it only one after the other.                                    *)
(***************************************************************************)
CONSTANTS
    Process,     \* processes; a CA is named by the one that generated it
    Absent,      \* there is no file
    Torn         \* os.WriteFile has truncated it and not written it

ASSUME StoreAssumption == Absent # Torn /\ Process \cap {Absent, Torn} = {}

VARIABLES
    ephemeral,  \* the directory is one of run
    keyFile, certFile,
    at,         \* where each process is
    seenKey,    \* what Stat, then ReadFile, found at keyPath
    ca,         \* the CA a process has
    loadsMet,   \* history: two processes were in LoadOrGenerateCA together
    cutShort    \* history: a process stopped with more to do to the files

storeVars == <<ephemeral, keyFile, certFile, at, seenKey, ca, loadsMet, cutShort>>

Content == Process \cup {Absent, Torn}
Generating == {"generate", "openKey", "writeKey", "openCert", "writeCert"}
Within == {"statCert", "readKey", "readCert"} \cup Generating

StoreTypeOK ==
    /\ ephemeral \in BOOLEAN
    /\ keyFile \in Content /\ certFile \in Content
    /\ at \in [Process -> {"off", "using", "failed", "ended", "died"} \cup Within]
    /\ seenKey \in [Process -> Content]
    /\ ca \in [Process -> Process \cup {Absent}]
    /\ \A p \in Process : at[p] = "using" => ca[p] # Absent
    /\ certFile \in Process => \E p \in Process : ca[p] = certFile
    /\ loadsMet \in BOOLEAN /\ cutShort \in BOOLEAN

StoreInit ==
    /\ ephemeral \in BOOLEAN
    /\ keyFile = Absent /\ certFile = Absent
    /\ at = [p \in Process |-> "off"]
    /\ seenKey = [p \in Process |-> Absent]
    /\ ca = [p \in Process |-> Absent]
    /\ loadsMet = FALSE /\ cutShort = FALSE

Proceed(p, next) == at' = [at EXCEPT ![p] = next] /\ UNCHANGED ephemeral
files   == <<keyFile, certFile>>
history == <<loadsMet, cutShort>>

-----------------------------------------------------------------------------
\* Stat of the key; processes with one id follow one another.
StatKey(p) ==
    /\ at[p] = "off"
    /\ ephemeral => \A q \in Process : at[q] \in {"off", "failed", "ended", "died"}
    /\ seenKey' = [seenKey EXCEPT ![p] = keyFile]
    /\ loadsMet' = (loadsMet \/ \E q \in Process : at[q] \in Within)
    /\ Proceed(p, "statCert")
    /\ UNCHANGED <<files, ca, cutShort>>

StatCert(p) ==
    /\ at[p] = "statCert"
    /\ Proceed(p, IF seenKey[p] # Absent /\ certFile # Absent THEN "readKey" ELSE "generate")
    /\ UNCHANGED <<files, seenKey, ca, history>>

(***************************************************************************)
(* LoadCA.                                                                 *)
(***************************************************************************)
ReadKey(p) ==
    /\ at[p] = "readKey"
    /\ seenKey' = [seenKey EXCEPT ![p] = keyFile]
    /\ Proceed(p, IF keyFile \in Process THEN "readCert" ELSE "failed")
    /\ UNCHANGED <<files, ca, history>>

\* The certificate must hold the key's public half.
ReadCert(p) ==
    /\ at[p] = "readCert"
    /\ IF certFile = seenKey[p]
         THEN Proceed(p, "using") /\ ca' = [ca EXCEPT ![p] = certFile]
         ELSE Proceed(p, "failed") /\ UNCHANGED ca
    /\ UNCHANGED <<files, seenKey, history>>

(***************************************************************************)
(* GenerateCA and StoreCA.  os.WriteFile opens with O_TRUNC and writes.    *)
(***************************************************************************)
\* Mutant of Generate: the certificate is stored first.
GenerateCertFirst(p) ==
    /\ at[p] = "generate"
    /\ ca' = [ca EXCEPT ![p] = p]
    /\ certFile' = p
    /\ Proceed(p, "openKey")
    /\ UNCHANGED <<keyFile, seenKey, history>>

Generate(p) ==
    /\ at[p] = "generate"
    /\ ca' = [ca EXCEPT ![p] = p]
    /\ Proceed(p, "openKey")
    /\ UNCHANGED <<files, seenKey, history>>

\* Mutant of OpenKey: a key that is there is kept.
OpenKeyKeeping(p) ==
    /\ at[p] = "openKey"
    /\ IF keyFile = Absent
         THEN keyFile' = Torn /\ Proceed(p, "writeKey")
         ELSE Proceed(p, "openCert") /\ UNCHANGED keyFile
    /\ UNCHANGED <<certFile, seenKey, ca, history>>

OpenKey(p) ==
    /\ at[p] = "openKey"
    /\ keyFile' = Torn
    /\ Proceed(p, "writeKey")
    /\ UNCHANGED <<certFile, seenKey, ca, history>>

WriteKey(p) ==
    /\ at[p] = "writeKey"
    /\ keyFile' = p
    /\ Proceed(p, "openCert")
    /\ UNCHANGED <<certFile, seenKey, ca, history>>

OpenCert(p) ==
    /\ at[p] = "openCert"
    /\ certFile' = Torn
    /\ Proceed(p, "writeCert")
    /\ UNCHANGED <<keyFile, seenKey, ca, history>>

WriteCert(p) ==
    /\ at[p] = "writeCert"
    /\ certFile' = p
    /\ Proceed(p, "using")
    /\ UNCHANGED <<keyFile, seenKey, ca, history>>

-----------------------------------------------------------------------------
\* Mutant of End: the directory of run is left behind.
EndKeeping(p) ==
    /\ at[p] = "using"
    /\ Proceed(p, "ended")
    /\ UNCHANGED <<files, seenKey, ca, history>>

\* Shutdown; run has registered the removal of its directory.
End(p) ==
    /\ at[p] = "using"
    /\ IF ephemeral
         THEN keyFile' = Absent /\ certFile' = Absent
         ELSE UNCHANGED files
    /\ Proceed(p, "ended")
    /\ UNCHANGED <<seenKey, ca, history>>

\* An error after the CA is there: run returns it without Shutdown.
Abort(p) ==
    /\ at[p] = "using"
    /\ cutShort' = (cutShort \/ ephemeral)
    /\ Proceed(p, "ended")
    /\ UNCHANGED <<files, seenKey, ca, loadsMet>>

\* A signal ends a process that is starting, or run at any time.
Die(p) ==
    /\ at[p] \in Within \cup {"using"}
    /\ cutShort' = (cutShort \/ at[p] \in Within \/ ephemeral)
    /\ Proceed(p, "died")
    /\ UNCHANGED <<files, seenKey, ca, loadsMet>>

Load(p)  == StatKey(p) \/ StatCert(p) \/ ReadKey(p) \/ ReadCert(p)
Store(p) == Generate(p) \/ OpenKey(p) \/ WriteKey(p) \/ OpenCert(p) \/ WriteCert(p)

StoreNext == \E p \in Process : Load(p) \/ Store(p) \/ End(p) \/ Abort(p) \/ Die(p)

StoreSpec == StoreInit /\ [][StoreNext]_storeVars

-----------------------------------------------------------------------------
(***************************************************************************)
(* The certificate that users are told to trust is the one that is served  *)
(* with: unless two processes start together, a process in use has the CA  *)
(* that is on disk, after any deaths before it.                            *)
(***************************************************************************)
UsedIsStored ==
    ~loadsMet => \A p \in Process : at[p] = "using" => keyFile = ca[p] /\ certFile = ca[p]

(***************************************************************************)
(* A start never fails over what a completed start, or one that died       *)
(* before it reached the certificate, has left.                            *)
(***************************************************************************)
FailsOnTornCert ==
    ~loadsMet => \A p \in Process : at[p] = "failed" => cutShort /\ certFile = Torn

(***************************************************************************)
(* While every run reaches its Shutdown, none leaves anything for the next *)
(* one with its id: each has a CA of its own.                              *)
(***************************************************************************)
FreshAfterShutdown ==
    ephemeral /\ ~cutShort => \A p \in Process : at[p] = "using" => ca[p] = p

(***************************************************************************)
(* The types: a certificate on disk is of a process that generated it.     *)
(* And what is used is what is stored.                                     *)
(***************************************************************************)
StoreInv == StoreTypeOK /\ UsedIsStored
=============================================================================
