---------------------------- MODULE ProcessProofs ----------------------------
(***************************************************************************)
(* What processes make of one another: daemons of the control socket that  *)
(* others have left (ControlSocket), inject, run and examine of the files  *)
(* of a CA (CAStore), and run and examine of their child and its requests  *)
(* (ChildRun).  The three share no state.                                  *)
(***************************************************************************)
EXTENDS ControlSocket, CAStore, ChildRun, FiniteSetTheorems, TLAPS

-----------------------------------------------------------------------------
(***************************************************************************)
(* The control socket.                                                     *)
(***************************************************************************)
Moving == Starting \cup Stopping
Bound  == {"serving"} \cup Stopping \cup {"stopped", "crashed"}

\* While starts and stops do not meet, the one daemon that moves is alone with
\* the path: what it has found there is there until it has acted on it.
Alone ==
    /\ \A d, e \in Daemon : pc[d] \in Moving /\ pc[e] \in Moving => d = e
    /\ \A d \in Daemon :
          /\ pc[d] = "chmod" => file = d
          /\ pc[d] \in {"retry"} \cup Stopping => file = NoFile
          /\ pc[d] = "probe" => file # NoFile /\ (Serving(file) => met[d] = file)
          /\ pc[d] \notin {"giveUp", "failed"}
          /\ pc[d] = "refused" => met[d] # NoFile

\* And while every dial that reaches a daemon is answered, one serves at most.
Sole ==
    \A d \in Daemon :
        /\ Serving(d) => file = d
        /\ pc[d] = "clear" => \A e \in Daemon : ~Serving(e)

\* A daemon that one has met does not come to serve again, nor does its file
\* come back, so that what Probe has said of it stays true.
Met ==
    \A d \in Daemon :
        /\ met[d] # NoFile => pc[met[d]] \in Bound
        /\ pc[d] = "clear" /\ met[d] # NoFile =>
              d \in unanswered \/ ~(file = met[d] /\ Serving(file))

SocketIInv ==
    /\ TypeOK
    /\ ~raced => Alone
    /\ ~raced /\ unanswered = {} => Sole
    /\ Met

\* No daemon has been started.
LEMMA SocketInit == Init => SocketIInv
BY NoFileAssumption DEF Init, SocketIInv, TypeOK, Alone, Sole, Met, Serving, Moving, Starting, Stopping,
   Bound, Unbound, Ended

\* Types of the socket's file and of its daemons.
LEMMA SocketTypeKept ==
    ASSUME TypeOK, [Next]_vars
    PROVE  TypeOK'
<1>. USE NoFileAssumption DEF TypeOK, Goto, Starting, Stopping, Ended, Unbound
<1>1. ASSUME NEW d \in Daemon, Listen(d) PROVE TypeOK'
  BY <1>1 DEF Listen, Answering
<1>2. ASSUME NEW d \in Daemon, Probe(d) \/ ClearStale(d) \/ Retry(d) PROVE TypeOK'
  BY <1>2 DEF Probe, ClearStale, Retry
<1>3. ASSUME NEW d \in Daemon, Chmod(d) \/ GiveUp(d) PROVE TypeOK'
  BY <1>3 DEF Chmod, GiveUp
<1>4. ASSUME NEW d \in Daemon, Unlink(d) PROVE TypeOK'
  BY <1>4 DEF Unlink, Busy
<1>5. ASSUME NEW d \in Daemon, CloseListener(d) \/ Drained(d) PROVE TypeOK'
  BY <1>5 DEF CloseListener, Drained
<1>6. ASSUME NEW d \in Daemon, DrainTimeout(d) \/ Remove(d) \/ Crash(d) PROVE TypeOK'
  BY <1>6 DEF DrainTimeout, Remove, Crash
<1>7. CASE UNCHANGED vars
  BY <1>7 DEF vars
<1>8. QED
  BY <1>1, <1>2, <1>3, <1>4, <1>5, <1>6, <1>7 DEF Next, Step, Quiet

\* Whoever starts or stops while another one does is told of it.
LEMMA AloneKept ==
    ASSUME TypeOK, ~raced => Alone, [Next]_vars
    PROVE  ~raced' => Alone'
<1>. SUFFICES ASSUME ~raced', ~raced, Alone
              PROVE  Alone'
  <2>1. raced => raced'
    BY DEF Next, Step, Quiet, vars, Listen, Probe, ClearStale, Retry, Chmod, GiveUp, Unlink,
       CloseListener, Drained, DrainTimeout, Remove, Crash
  <2>2. QED
    BY <2>1
<1>. USE NoFileAssumption DEF TypeOK, Alone, Goto, Serving, Moving, Starting, Stopping
<1>1. ASSUME NEW d \in Daemon, Listen(d) PROVE Alone'
  <2>1. pc[d] = "off" /\ \A e \in Daemon \ {d} : pc[e] \notin Moving
    BY <1>1 DEF Listen, Busy
  <2>2. CASE file = NoFile
    <3>1. file' = d /\ pc' = [pc EXCEPT ![d] = "chmod"] /\ \A e \in Daemon \ {d} : met'[e] = met[e]
      BY <1>1, <2>2 DEF Listen
    <3>2. QED
      BY <2>1, <2>2, <3>1
  <2>3. CASE file # NoFile
    <3>1. /\ UNCHANGED file
          /\ pc' = [pc EXCEPT ![d] = "probe"]
          /\ pc[file] = "serving" => met'[d] = file
          /\ \A e \in Daemon \ {d} : met'[e] = met[e]
      BY <1>1, <2>3 DEF Listen, Answering, Listening
    <3>2. file # d
      BY <2>1, <2>3 DEF Unbound
    <3>3. QED
      BY <2>1, <2>3, <3>1, <3>2
  <2>4. QED
    BY <2>2, <2>3
<1>2. ASSUME NEW d \in Daemon, Probe(d) PROVE Alone'
  BY <1>2 DEF Probe, Answering, Listening
<1>3. ASSUME NEW d \in Daemon, ClearStale(d) PROVE Alone'
  BY <1>3 DEF ClearStale
<1>4. ASSUME NEW d \in Daemon, Retry(d) PROVE Alone'
  BY <1>4 DEF Retry
<1>5. ASSUME NEW d \in Daemon, Chmod(d) PROVE Alone'
  BY <1>5 DEF Chmod
<1>6. ASSUME NEW d \in Daemon, GiveUp(d) PROVE Alone'
  BY <1>6 DEF GiveUp
<1>7. ASSUME NEW d \in Daemon, Unlink(d) PROVE Alone'
  BY <1>7 DEF Unlink, Busy
<1>8. ASSUME NEW d \in Daemon, CloseListener(d) \/ Drained(d) \/ DrainTimeout(d) PROVE Alone'
  BY <1>8 DEF CloseListener, Drained, DrainTimeout
<1>9. ASSUME NEW d \in Daemon, Remove(d) PROVE Alone'
  BY <1>9 DEF Remove
<1>10. ASSUME NEW d \in Daemon, Crash(d) PROVE Alone'
  BY <1>10 DEF Crash
<1>11. CASE UNCHANGED vars
  BY <1>11 DEF vars
<1>12. QED
  BY <1>1, <1>2, <1>3, <1>4, <1>5, <1>6, <1>7, <1>8, <1>9, <1>10, <1>11 DEF Next, Step, Quiet

\* A daemon comes to serve only when no other does.
LEMMA SoleKept ==
    ASSUME TypeOK, ~raced => Alone, ~raced /\ unanswered = {} => Sole, [Next]_vars
    PROVE  ~raced' /\ unanswered' = {} => Sole'
<1>. SUFFICES ASSUME ~raced', unanswered' = {}, Alone, Sole
              PROVE  Sole'
  <2>1. raced => raced'
    BY DEF Next, Step, Quiet, vars, Listen, Probe, ClearStale, Retry, Chmod, GiveUp, Unlink,
       CloseListener, Drained, DrainTimeout, Remove, Crash
  <2>2. unanswered \subseteq unanswered'
    <3>1. CASE \E d \in Daemon : Probe(d)
      BY <3>1 DEF Probe
    <3>2. CASE ~\E d \in Daemon : Probe(d)
      BY <3>2 DEF Next, Step, Quiet, vars, Listen, ClearStale, Retry, Chmod, GiveUp, Unlink,
         CloseListener, Drained, DrainTimeout, Remove, Crash
    <3>3. QED
      BY <3>1, <3>2
  <2>3. QED
    BY <2>1, <2>2
<1>. USE NoFileAssumption DEF TypeOK, Sole, Goto, Serving, Starting, Stopping
<1>1. ASSUME NEW d \in Daemon, Listen(d) PROVE Sole'
  BY <1>1 DEF Listen
<1>2. ASSUME NEW d \in Daemon, Probe(d) PROVE Sole'
  BY <1>2 DEF Probe, Answering, Listening
<1>3. ASSUME NEW d \in Daemon, ClearStale(d) \/ Retry(d) PROVE Sole'
  BY <1>3 DEF ClearStale, Retry
<1>4. ASSUME NEW d \in Daemon, Chmod(d) PROVE Sole'
  <2>1. file = d /\ UNCHANGED file /\ pc' = [pc EXCEPT ![d] = "serving"]
    BY <1>4 DEF Chmod, Alone
  <2>2. \A e \in Daemon : pc[e] # "clear"
    BY <1>4 DEF Chmod, Alone, Moving
  <2>3. QED
    BY <2>1, <2>2
<1>5. ASSUME NEW d \in Daemon, GiveUp(d) PROVE Sole'
  BY <1>5 DEF GiveUp, Alone
<1>6. ASSUME NEW d \in Daemon, Unlink(d) \/ CloseListener(d) \/ Drained(d) PROVE Sole'
  BY <1>6 DEF Unlink, CloseListener, Drained
<1>7. ASSUME NEW d \in Daemon, Remove(d) PROVE Sole'
  BY <1>7 DEF Remove, Alone
<1>8. ASSUME NEW d \in Daemon, DrainTimeout(d) \/ Crash(d) PROVE Sole'
  BY <1>8 DEF DrainTimeout, Crash
<1>9. CASE UNCHANGED vars
  BY <1>9 DEF vars
<1>10. QED
  BY <1>1, <1>2, <1>3, <1>4, <1>5, <1>6, <1>7, <1>8, <1>9 DEF Next, Step, Quiet

\* Only the daemon that binds creates a file, and only then does it serve.
LEMMA MetKept ==
    ASSUME TypeOK, Met, [Next]_vars
    PROVE  Met'
<1>. USE NoFileAssumption DEF TypeOK, Met, Goto, Serving, Starting, Stopping, Bound
<1>1. ASSUME NEW d \in Daemon, Listen(d) PROVE Met'
  BY <1>1 DEF Listen, Answering
<1>2. ASSUME NEW d \in Daemon, Probe(d) PROVE Met'
  BY <1>2 DEF Probe, Answering, Listening
<1>3. ASSUME NEW d \in Daemon, ClearStale(d) \/ Retry(d) PROVE Met'
  BY <1>3 DEF ClearStale, Retry
<1>4. ASSUME NEW d \in Daemon, Chmod(d) \/ GiveUp(d) PROVE Met'
  BY <1>4 DEF Chmod, GiveUp
<1>5. ASSUME NEW d \in Daemon, Unlink(d) \/ CloseListener(d) \/ Drained(d) PROVE Met'
  BY <1>5 DEF Unlink, CloseListener, Drained
<1>6. ASSUME NEW d \in Daemon, DrainTimeout(d) \/ Remove(d) \/ Crash(d) PROVE Met'
  BY <1>6 DEF DrainTimeout, Remove, Crash
<1>7. CASE UNCHANGED vars
  BY <1>7 DEF vars
<1>8. QED
  BY <1>1, <1>2, <1>3, <1>4, <1>5, <1>6, <1>7 DEF Next, Step, Quiet

\* The parts, kept by one step.
LEMMA SocketKept == SocketIInv /\ [Next]_vars => SocketIInv'
BY SocketTypeKept, AloneKept, SoleKept, MetKept DEF SocketIInv

\* The invariant of the socket, in every state.
LEMMA Socket == Spec => []SocketIInv
BY SocketInit, SocketKept, PTL DEF Spec

(***************************************************************************)
(* As long as starts and stops do not meet and the dials that reach a      *)
(* daemon are answered, whoever Start has brought up is the one that       *)
(* clients reach, whatever has crashed before.                             *)
(***************************************************************************)
THEOREM ServingReached == Spec => []SocketInv
<1>1. SocketIInv => SocketInv
  BY DEF SocketIInv, Sole, SocketInv, ServingReachable
<1>2. QED
  BY <1>1, Socket, PTL

(***************************************************************************)
(* The file of a daemon that is gone makes no start fail: listenUnix takes *)
(* it away, and nobody comes between that and its second bind.             *)
(***************************************************************************)
THEOREM ResidueCleared == Spec => []ResidueNeverBlocks
<1>1. SocketIInv => ResidueNeverBlocks
  BY DEF SocketIInv, Alone, ResidueNeverBlocks
<1>2. QED
  BY <1>1, Socket, PTL

(***************************************************************************)
(* The os.Remove of listenUnix takes the socket of a daemon that served    *)
(* when this start began only if that one did not answer this start's own  *)
(* dial, even when starts and stops do meet.                               *)
(***************************************************************************)
THEOREM EstablishedKept == Spec => EstablishedSurvives
<1>1. SocketIInv /\ [Next]_vars
        => [\A d \in Daemon :
               ClearStale(d) =>
                  d \in unanswered \/ ~(file # NoFile /\ file = met[d] /\ Serving(file))]_vars
  BY DEF SocketIInv, Met, ClearStale
<1>2. QED
  BY <1>1, Socket, PTL DEF Spec, EstablishedSurvives

-----------------------------------------------------------------------------
(***************************************************************************)
(* The files of the CA.                                                    *)
(***************************************************************************)
Unmade == {"off", "statCert", "readKey", "readCert", "generate", "failed"}
Making == Generating \ {"generate"}
Active == Within \cup {"using"}

\* Whatever others do: a process has the CA it generated or has checked.
Own ==
    \A p \in Process :
        /\ at[p] \in Unmade => ca[p] = Absent
        /\ at[p] \in Making => ca[p] = p
        /\ at[p] = "readCert" => seenKey[p] \in Process

\* While processes do not load together, the one that loads is alone with the
\* files: it writes them only if nobody uses them, the key before the
\* certificate, and a certificate without its key is one that was cut short.
Orderly ==
    /\ \A p, q \in Process : at[p] \in Within /\ at[q] \in Within => p = q
    /\ certFile # Absent => keyFile \in Process /\ certFile \in {keyFile, Torn}
    /\ certFile = Torn => cutShort \/ \E p \in Process : at[p] = "writeCert"
    /\ \A p \in Process :
          /\ at[p] = "using" => keyFile = ca[p] /\ certFile = ca[p]
          /\ at[p] = "failed" => cutShort /\ certFile = Torn
          /\ at[p] \in Generating => \A q \in Process : at[q] \notin {"using", "failed"}
          /\ at[p] \in Generating \ {"writeCert"} => certFile = Absent
          /\ at[p] \in {"openCert", "writeCert"} => keyFile = p
          /\ at[p] = "writeCert" => certFile = Torn
          /\ at[p] \in {"statCert", "readCert"} => seenKey[p] = keyFile
          /\ at[p] \in {"readKey", "readCert"} => certFile # Absent

\* In the directory of run one process follows the other, and finds nothing
\* while all before it have cleared it.
Cleared ==
    ephemeral =>
        /\ ~loadsMet
        /\ \A p, q \in Process : at[p] \in Active /\ at[q] \in Active => p = q
        /\ ~cutShort =>
              /\ \A p \in Process :
                    /\ at[p] \notin {"readKey", "readCert"}
                    /\ at[p] = "using" => ca[p] = p
              /\ (\A p \in Process : at[p] \notin Generating \cup {"using"})
                    => keyFile = Absent /\ certFile = Absent

StoreIInv == StoreTypeOK /\ Own /\ (~loadsMet => Orderly) /\ Cleared

\* No process has looked at the files, which are absent.
LEMMA StoreInitial == StoreInit => StoreIInv
<1>. SUFFICES ASSUME StoreInit PROVE StoreIInv
  OBVIOUS
<1>. USE StoreAssumption DEF StoreInit
<1>1. StoreTypeOK
  BY DEF StoreTypeOK, Content
<1>2. Own
  BY DEF Own, Making, Generating
<1>3. Orderly
  BY DEF Orderly, Within, Generating
<1>4. Cleared
  BY DEF Cleared, Active, Within, Generating
<1>5. QED
  BY <1>1, <1>2, <1>3, <1>4 DEF StoreIInv

\* A certificate on disk is that of a process, which keeps it.
LEMMA StoreTypeKept ==
    ASSUME StoreTypeOK, Own, [StoreNext]_storeVars
    PROVE  StoreTypeOK'
<1>. USE StoreAssumption DEF StoreTypeOK, Own, Content, Unmade, Making, Within, Generating,
    Proceed, files, history
<1>1. ASSUME NEW p \in Process, StatKey(p) PROVE StoreTypeOK'
  BY <1>1 DEF StatKey
<1>2. ASSUME NEW p \in Process, StatCert(p) PROVE StoreTypeOK'
  BY <1>2 DEF StatCert
<1>3. ASSUME NEW p \in Process, ReadKey(p) PROVE StoreTypeOK'
  BY <1>3 DEF ReadKey
<1>4. ASSUME NEW p \in Process, ReadCert(p) PROVE StoreTypeOK'
  BY <1>4 DEF ReadCert
<1>5. ASSUME NEW p \in Process, Generate(p) PROVE StoreTypeOK'
  BY <1>5 DEF Generate
<1>6. ASSUME NEW p \in Process, OpenKey(p) PROVE StoreTypeOK'
  BY <1>6 DEF OpenKey
<1>7. ASSUME NEW p \in Process, WriteKey(p) PROVE StoreTypeOK'
  BY <1>7 DEF WriteKey
<1>8. ASSUME NEW p \in Process, OpenCert(p) PROVE StoreTypeOK'
  BY <1>8 DEF OpenCert
<1>9. ASSUME NEW p \in Process, WriteCert(p) PROVE StoreTypeOK'
  BY <1>9 DEF WriteCert
<1>10. ASSUME NEW p \in Process, End(p) PROVE StoreTypeOK'
  BY <1>10 DEF End
<1>11. ASSUME NEW p \in Process, Abort(p) PROVE StoreTypeOK'
  BY <1>11 DEF Abort
<1>12. ASSUME NEW p \in Process, Die(p) PROVE StoreTypeOK'
  BY <1>12 DEF Die
<1>13. CASE UNCHANGED storeVars
  BY <1>13 DEF storeVars
<1>14. QED
  BY <1>1, <1>2, <1>3, <1>4, <1>5, <1>6, <1>7, <1>8, <1>9, <1>10, <1>11, <1>12,
      <1>13 DEF StoreNext, Load, Store

\* What a process has in memory, and what it found on disk, are its own
\* business.
LEMMA OwnKept ==
    ASSUME StoreTypeOK, Own, [StoreNext]_storeVars
    PROVE  Own'
<1>. USE StoreAssumption DEF StoreTypeOK, Own, Content, Unmade, Making, Within, Generating,
    Proceed, files, history
<1>1. ASSUME NEW p \in Process, StatKey(p) PROVE Own'
  BY <1>1 DEF StatKey
<1>2. ASSUME NEW p \in Process, StatCert(p) PROVE Own'
  BY <1>2 DEF StatCert
<1>3. ASSUME NEW p \in Process, ReadKey(p) PROVE Own'
  BY <1>3 DEF ReadKey
<1>4. ASSUME NEW p \in Process, ReadCert(p) PROVE Own'
  BY <1>4 DEF ReadCert
<1>5. ASSUME NEW p \in Process, Generate(p) PROVE Own'
  BY <1>5 DEF Generate
<1>6. ASSUME NEW p \in Process, OpenKey(p) PROVE Own'
  BY <1>6 DEF OpenKey
<1>7. ASSUME NEW p \in Process, WriteKey(p) PROVE Own'
  BY <1>7 DEF WriteKey
<1>8. ASSUME NEW p \in Process, OpenCert(p) PROVE Own'
  BY <1>8 DEF OpenCert
<1>9. ASSUME NEW p \in Process, WriteCert(p) PROVE Own'
  BY <1>9 DEF WriteCert
<1>10. ASSUME NEW p \in Process, End(p) PROVE Own'
  BY <1>10 DEF End
<1>11. ASSUME NEW p \in Process, Abort(p) PROVE Own'
  BY <1>11 DEF Abort
<1>12. ASSUME NEW p \in Process, Die(p) PROVE Own'
  BY <1>12 DEF Die
<1>13. CASE UNCHANGED storeVars
  BY <1>13 DEF storeVars
<1>14. QED
  BY <1>1, <1>2, <1>3, <1>4, <1>5, <1>6, <1>7, <1>8, <1>9, <1>10, <1>11, <1>12,
      <1>13 DEF StoreNext, Load, Store

\* Whoever loads while another one does is told of it.
LEMMA OrderlyKept ==
    ASSUME StoreTypeOK, Own, ~loadsMet => Orderly, Cleared, [StoreNext]_storeVars
    PROVE  ~loadsMet' => Orderly'
<1>. SUFFICES ASSUME ~loadsMet', ~loadsMet, Orderly
              PROVE  Orderly'
  <2>1. loadsMet => loadsMet'
    BY DEF StoreNext, storeVars, history, Load, Store, StatKey, StatCert, ReadKey, ReadCert,
       Generate, OpenKey, WriteKey, OpenCert, WriteCert, End, Abort, Die
  <2>2. QED
    BY <2>1
<1>. USE StoreAssumption DEF StoreTypeOK, Own, Orderly, Cleared, Content, Unmade, Making,
    Active, Within, Generating, Proceed, files, history
<1>1. ASSUME NEW p \in Process, StatKey(p) PROVE Orderly'
  <2>1. /\ at[p] = "off" /\ at' = [at EXCEPT ![p] = "statCert"]
        /\ seenKey' = [seenKey EXCEPT ![p] = keyFile]
        /\ UNCHANGED <<keyFile, certFile, ca, cutShort>>
    BY <1>1 DEF StatKey
  <2>2. \A q \in Process : at[q] \notin Within
    BY <1>1 DEF StatKey
  <2>3. QED
    BY <2>1, <2>2
<1>2. ASSUME NEW p \in Process, StatCert(p) PROVE Orderly'
  BY <1>2 DEF StatCert
<1>3. ASSUME NEW p \in Process, ReadKey(p) PROVE Orderly'
  BY <1>3 DEF ReadKey
<1>4. ASSUME NEW p \in Process, ReadCert(p) PROVE Orderly'
  BY <1>4 DEF ReadCert
<1>5. ASSUME NEW p \in Process, Generate(p) PROVE Orderly'
  BY <1>5 DEF Generate
<1>6. ASSUME NEW p \in Process, OpenKey(p) PROVE Orderly'
  BY <1>6 DEF OpenKey
<1>7. ASSUME NEW p \in Process, WriteKey(p) PROVE Orderly'
  BY <1>7 DEF WriteKey
<1>8. ASSUME NEW p \in Process, OpenCert(p) PROVE Orderly'
  BY <1>8 DEF OpenCert
<1>9. ASSUME NEW p \in Process, WriteCert(p) PROVE Orderly'
  BY <1>9 DEF WriteCert
<1>10. ASSUME NEW p \in Process, End(p) PROVE Orderly'
  BY <1>10 DEF End
<1>11. ASSUME NEW p \in Process, Abort(p) PROVE Orderly'
  BY <1>11 DEF Abort
<1>12. ASSUME NEW p \in Process, Die(p) PROVE Orderly'
  <2>1. at' = [at EXCEPT ![p] = "died"] /\ UNCHANGED <<keyFile, certFile, seenKey, ca>>
    BY <1>12 DEF Die
  <2>2. cutShort \/ at[p] \in Within => cutShort'
    BY <1>12 DEF Die
  <2>3. certFile = Torn => cutShort' \/ \E q \in Process : at'[q] = "writeCert"
    <3>1. CASE at[p] \in Within
      BY <2>2, <3>1
    <3>2. CASE at[p] \notin Within
      BY <2>1, <2>2, <3>2
    <3>3. QED
      BY <3>1, <3>2
  <2>4. \A q \in Process : at[q] = "failed" => cutShort' /\ certFile = Torn
    BY <2>2
  <2>5. QED
    BY <2>1, <2>3, <2>4
<1>13. CASE UNCHANGED storeVars
  BY <1>13 DEF storeVars
<1>14. QED
  BY <1>1, <1>2, <1>3, <1>4, <1>5, <1>6, <1>7, <1>8, <1>9, <1>10, <1>11, <1>12,
      <1>13 DEF StoreNext, Load, Store

\* Whoever comes to the directory of run finds it empty, or somebody was cut short.
LEMMA ClearedKept ==
    ASSUME StoreTypeOK, Own, ~loadsMet => Orderly, Cleared, [StoreNext]_storeVars
    PROVE  Cleared'
<1>. USE StoreAssumption DEF StoreTypeOK, Own, Orderly, Cleared, Content, Unmade, Making,
    Active, Within, Generating, Proceed, files, history
<1>1. ASSUME NEW p \in Process, StatKey(p) PROVE Cleared'
  BY <1>1 DEF StatKey
<1>2. ASSUME NEW p \in Process, StatCert(p) PROVE Cleared'
  BY <1>2 DEF StatCert
<1>3. ASSUME NEW p \in Process, ReadKey(p) PROVE Cleared'
  BY <1>3 DEF ReadKey
<1>4. ASSUME NEW p \in Process, ReadCert(p) PROVE Cleared'
  <2>1. UNCHANGED <<ephemeral, keyFile, certFile, loadsMet, cutShort>> /\ at[p] = "readCert"
    BY <1>4 DEF ReadCert
  <2>2. at' = [at EXCEPT ![p] = "using"] \/ at' = [at EXCEPT ![p] = "failed"]
    BY <1>4 DEF ReadCert
  <2>3. ephemeral => cutShort /\ ~loadsMet
    BY <2>1
  <2>4. ephemeral => \A q, r \in Process : at'[q] \in Active /\ at'[r] \in Active => q = r
    BY <2>1, <2>2
  <2>5. QED
    BY <2>1, <2>3, <2>4
<1>5. ASSUME NEW p \in Process, Generate(p) PROVE Cleared'
  BY <1>5 DEF Generate
<1>6. ASSUME NEW p \in Process, OpenKey(p) PROVE Cleared'
  BY <1>6 DEF OpenKey
<1>7. ASSUME NEW p \in Process, WriteKey(p) PROVE Cleared'
  BY <1>7 DEF WriteKey
<1>8. ASSUME NEW p \in Process, OpenCert(p) PROVE Cleared'
  BY <1>8 DEF OpenCert
<1>9. ASSUME NEW p \in Process, WriteCert(p) PROVE Cleared'
  BY <1>9 DEF WriteCert
<1>10. ASSUME NEW p \in Process, End(p) PROVE Cleared'
  BY <1>10 DEF End
<1>11. ASSUME NEW p \in Process, Abort(p) PROVE Cleared'
  <2>1. UNCHANGED <<ephemeral, loadsMet>> /\ (ephemeral => cutShort')
    BY <1>11 DEF Abort
  <2>2. ephemeral => \A q, r \in Process : at'[q] \in Active /\ at'[r] \in Active => q = r
    BY <1>11 DEF Abort
  <2>3. QED
    BY <2>1, <2>2
<1>12. ASSUME NEW p \in Process, Die(p) PROVE Cleared'
  <2>1. UNCHANGED <<ephemeral, loadsMet>> /\ (ephemeral => cutShort')
    BY <1>12 DEF Die
  <2>2. ephemeral => \A q, r \in Process : at'[q] \in Active /\ at'[r] \in Active => q = r
    BY <1>12 DEF Die
  <2>3. QED
    BY <2>1, <2>2
<1>13. CASE UNCHANGED storeVars
  BY <1>13 DEF storeVars
<1>14. QED
  BY <1>1, <1>2, <1>3, <1>4, <1>5, <1>6, <1>7, <1>8, <1>9, <1>10, <1>11, <1>12,
      <1>13 DEF StoreNext, Load, Store

\* The parts, kept by one step.
LEMMA StoreKept == StoreIInv /\ [StoreNext]_storeVars => StoreIInv'
BY StoreTypeKept, OwnKept, OrderlyKept, ClearedKept DEF StoreIInv

\* The invariant of the files, in every state.
LEMMA Stored == StoreSpec => []StoreIInv
BY StoreInitial, StoreKept, PTL DEF StoreSpec

(***************************************************************************)
(* Unless two processes are in LoadOrGenerateCA together, the one that     *)
(* serves has the certificate that is on disk for users to trust, whatever *)
(* has died in the middle of StoreCA before.                               *)
(***************************************************************************)
THEOREM UsedStored == StoreSpec => []StoreInv
<1>1. StoreIInv => StoreInv
  BY DEF StoreIInv, Orderly, StoreInv, UsedIsStored
<1>2. QED
  BY <1>1, Stored, PTL

(***************************************************************************)
(* LoadCA fails only of a certificate that a process was writing when it   *)
(* died: whatever else is left of a start, the next one can use.           *)
(***************************************************************************)
THEOREM FailsOnlyOnTorn == StoreSpec => []FailsOnTornCert
<1>1. StoreIInv => FailsOnTornCert
  BY DEF StoreIInv, Orderly, FailsOnTornCert
<1>2. QED
  BY <1>1, Stored, PTL

(***************************************************************************)
(* Shutdown removes the directory of run, so that while each run comes to  *)
(* it the next with its process id generates a CA of its own.              *)
(***************************************************************************)
THEOREM FreshKept == StoreSpec => []FreshAfterShutdown
<1>1. StoreIInv => FreshAfterShutdown
  BY DEF StoreIInv, Cleared, FreshAfterShutdown
<1>2. QED
  BY <1>1, Stored, PTL

-----------------------------------------------------------------------------
(***************************************************************************)
(* The child, and what examine learns from its requests.                   *)
(***************************************************************************)
\* The headers of a request that its walk has come to.
Seen(q) == DOMAIN headers[q] \ todo[q]

\* Whose step has announced a header, or has seen that it was.
Past(h) == {q \in discoveries[h].urls : unseen[q] # h}

\* The tracker has exactly what the walks of the requests have come to.
Walked ==
    /\ DOMAIN headers = Request /\ DOMAIN todo = Request
    /\ \A h \in Header : discoveries[h].urls = {q \in Request : h \in Seen(q)}
    /\ \A q \in Request :
          /\ progress[q] = "idle" => DOMAIN headers[q] = {}
          /\ progress[q] # "logging" => todo[q] = {} /\ unseen[q] = None
          /\ unseen[q] # None => unseen[q] \in Seen(q)

\* A request announces a header at most once.
Counted ==
    \A h \in Header :
       /\ IsFiniteSet(discoveries[h].urls) /\ announced[h] \in Nat
       /\ announced[h] <= Cardinality(Past(h))

\* Requests that do not overlap announce only what nobody has announced.
Single ==
    ~overlapped =>
        /\ \A q, r \in Request : progress[q] = "logging" /\ progress[r] = "logging" => q = r
        /\ \A q \in Request : unseen[q] # None => announced[unseen[q]] = 0

Tracked == Walked /\ Counted /\ Single

\* Where the main goroutine can be.
Stages ==
    CASE mode = "run"     -> {"start", "wait", "exited", "killed"}
      [] mode = "command" -> {"start", "select", "await", "check", "stopping", "stoppingPlain",
                              "exited", "killed"}
      [] mode = "manual"  -> {"start", "signal", "stoppingPlain", "exited", "killed"}

\* The main goroutine knows of the child what the reaper has told it, and that
\* the sentinel came only when it has interrupted the child over it.
Followed ==
    /\ main \in Stages
    /\ mode = "manual" \/ main = "start" => child = "none"
    /\ child = "none" => mode = "manual" \/ main \in {"start", "exited", "killed"}
    /\ child = "exited" <=> status # None
    /\ exitChannel # None => child = "exited" /\ exitChannel = CodeOf(status)
    /\ main = "await" => interrupted
    /\ interrupted =>
          sentinelChan = "closed" /\ main \in {"await", "check", "stopping", "exited", "killed"}
    /\ sentinelChan = "closed" => Discovered # {}
    /\ mode # "manual" /\ main \in {"check", "stopping", "stoppingPlain"} =>
          child = "exited" /\ code = IF interrupted THEN 0 ELSE CodeOf(status)
    /\ mode = "manual" /\ main = "stoppingPlain" => code \in {0, 1}

ChildIInv == ChildTypeOK /\ NothingLost /\ Tracked /\ Followed /\ ExitHonest

\* No request has arrived and nothing was started.
LEMMA ChildInitial == ChildInit => ChildIInv
<1>. SUFFICES ASSUME ChildInit PROVE ChildIInv
  OBVIOUS
<1>. USE ChildAssumption DEF ChildInit
<1>1. IsFiniteSet({}) /\ Cardinality({}) = 0
  BY FS_EmptySet
<1>2. \A h \in Header : discoveries[h].urls = {} /\ announced[h] = 0 /\ Past(h) = {}
  BY DEF Past
<1>3. \A q \in Request : DOMAIN headers[q] = {} /\ Seen(q) = {}
  BY DEF Seen
<1>4. ChildTypeOK
  <2>1. ASSUME NEW h \in Header PROVE announced[h] \in 0 .. Cardinality(discoveries[h].urls)
    <3>1. Cardinality(discoveries[h].urls) = 0 /\ announced[h] = 0
      BY <1>1, <1>2, Zenon
    <3>2. QED
      BY <3>1
  <2>2. discoveries \in [Header -> Discovery]
    BY DEF Discovery
  <2>3. \A q \in Request :
           /\ DOMAIN headers[q] \subseteq Header /\ todo[q] \subseteq DOMAIN headers[q]
           /\ \A h \in DOMAIN headers[q] : headers[q][h] \in Holding
    BY <1>3
  <2>4. QED
    BY <2>1, <2>2, <2>3 DEF ChildTypeOK, Main
<1>5. Tracked
  <2>1. \A h \in Header : discoveries[h].urls = {q \in Request : h \in Seen(q)}
    BY <1>2, <1>3
  <2>2. ASSUME NEW h \in Header
        PROVE  /\ IsFiniteSet(discoveries[h].urls) /\ announced[h] \in Nat
               /\ announced[h] <= Cardinality(Past(h))
    <3>1. IsFiniteSet(discoveries[h].urls) /\ Cardinality(Past(h)) = 0 /\ announced[h] = 0
      BY <1>1, <1>2, Zenon
    <3>2. QED
      BY <3>1
  <2>3. QED
    BY <1>3, <2>1, <2>2 DEF Tracked, Walked, Counted, Single
<1>6. Followed
  BY DEF Followed, Stages, CodeOf
<1>7. NothingLost
  BY <1>2, <1>3 DEF NothingLost
<1>8. QED
  BY <1>4, <1>5, <1>6, <1>7 DEF ChildIInv, ExitHonest

\* The bound of the type invariant is that of the count.
LEMMA CountBound ==
    ASSUME NEW S, IsFiniteSet(S), NEW T \in SUBSET S, NEW n \in Nat, n <= Cardinality(T)
    PROVE  n \in 0 .. Cardinality(S)
<1>1. /\ Cardinality(T) \in Nat /\ Cardinality(S) \in Nat
      /\ Cardinality(T) <= Cardinality(S)
  BY FS_Subset, FS_CardinalityType
<1>2. QED
  BY <1>1

\* A request that arrives has come to none of its headers.
LEMMA ArriveKeeps ==
    ASSUME ChildTypeOK, NothingLost, Tracked, NEW q \in Request, Arrive(q)
    PROVE  ChildTypeOK' /\ NothingLost' /\ Tracked'
<1>1. PICK hs \in SUBSET Header :
          /\ \E held \in [hs -> Holding] : headers' = [headers EXCEPT ![q] = held]
          /\ todo' = [todo EXCEPT ![q] = hs]
  BY DEF Arrive
<1>. PICK held \in [hs -> Holding] : headers' = [headers EXCEPT ![q] = held]
  BY <1>1
<1>2. /\ progress[q] = "idle" /\ progress' = [progress EXCEPT ![q] = "logging"]
      /\ overlapped' = (overlapped \/ \E r \in Request : progress[r] = "logging")
      /\ UNCHANGED <<mode, unseen, discoveries, announced, sentinelChan, process, outcome>>
  BY DEF Arrive
<1>3. \A r \in Request : Seen(r)' = Seen(r)
  BY <1>1, <1>2 DEF Tracked, Walked, Seen
<1>4. \A h \in Header : Past(h)' = Past(h)
  BY <1>2 DEF Past
<1>5. ChildTypeOK'
  <2>1. \A r \in Request :
           /\ DOMAIN headers'[r] \subseteq Header /\ todo'[r] \subseteq DOMAIN headers'[r]
           /\ \A h \in DOMAIN headers'[r] : headers'[r][h] \in Holding
    BY <1>1 DEF ChildTypeOK, Tracked, Walked
  <2>2. overlapped' \in BOOLEAN
    BY <1>2 DEF ChildTypeOK
  <2>3. QED
    BY <1>2, <2>1, <2>2 DEF ChildTypeOK, process, outcome
<1>6. Walked'
  BY <1>1, <1>2, <1>3 DEF ChildTypeOK, Tracked, Walked
<1>7. Counted'
  BY <1>2, <1>4 DEF Tracked, Counted
<1>8. Single'
  BY <1>2 DEF ChildTypeOK, Tracked, Walked, Single
<1>9. NothingLost'
  BY <1>2, <1>3 DEF ChildTypeOK, NothingLost, Tracked, Walked, Seen
<1>10. QED
  BY <1>5, <1>6, <1>7, <1>8, <1>9 DEF Tracked

\* A header that the walk comes to is known from then on, and is announced or
\* has been.
LEMMA TrackKeeps ==
    ASSUME ChildTypeOK, NothingLost, Tracked, NEW q \in Request, NEW h \in Header, Track(q, h)
    PROVE  ChildTypeOK' /\ NothingLost' /\ Tracked'
<1>1. /\ h \in todo[q] /\ unseen[q] = None /\ todo' = [todo EXCEPT ![q] = @ \ {h}]
      /\ unseen' = [unseen EXCEPT ![q] = IF announced[h] = 0 THEN h ELSE None]
      /\ UNCHANGED <<mode, headers, progress, announced, overlapped, sentinelChan,
                     process, outcome>>
  BY DEF Track
<1>2. /\ discoveries'[h].urls = discoveries[h].urls \cup {q}
      /\ \A g \in Header \ {h} : discoveries'[g] = discoveries[g]
      /\ discoveries' \in [Header -> Discovery]
  <2>1. discoveries \in [Header -> Discovery] /\ discoveries[h] \in Discovery
    BY DEF ChildTypeOK
  <2>2. PICK found \in BOOLEAN :
            discoveries' = [discoveries EXCEPT ![h] =
                              [urls |-> @.urls \cup {q}, foundSentinel |-> found]]
    BY <2>1 DEF Track, Discovery
  <2>3. [urls |-> discoveries[h].urls \cup {q}, foundSentinel |-> found] \in Discovery
    BY <2>1 DEF Discovery
  <2>4. QED
    BY <2>1, <2>2, <2>3
<1>3. progress[q] = "logging" /\ h \in DOMAIN headers[q]
  BY <1>1 DEF Tracked, Walked, ChildTypeOK
<1>4. Seen(q)' = Seen(q) \cup {h} /\ \A r \in Request \ {q} : Seen(r)' = Seen(r)
  BY <1>1, <1>3 DEF Seen, Tracked, Walked
<1>5. unseen'[q] \in {h, None} /\ \A r \in Request \ {q} : unseen'[r] = unseen[r]
  BY <1>1 DEF ChildTypeOK
<1>6. ChildTypeOK'
  <2>1. \A r \in Request :
           /\ DOMAIN headers'[r] \subseteq Header /\ todo'[r] \subseteq DOMAIN headers'[r]
           /\ \A g \in DOMAIN headers'[r] : headers'[r][g] \in Holding
    BY <1>1 DEF ChildTypeOK, Tracked, Walked
  <2>2. unseen' \in [Request -> Header \cup {None}]
    BY <1>1 DEF ChildTypeOK
  <2>3. \A g \in Header : announced'[g] \in 0 .. Cardinality(discoveries'[g].urls)
    <3>1. SUFFICES ASSUME NEW g \in Header
                   PROVE  announced[g] \in 0 .. Cardinality(discoveries'[g].urls)
      BY <1>1
    <3>2. CASE g # h
      BY <1>2, <3>2 DEF ChildTypeOK
    <3>3. CASE g = h
      <4>1. /\ IsFiniteSet(discoveries[h].urls)
            /\ announced[h] \in 0 .. Cardinality(discoveries[h].urls)
        BY DEF Tracked, Counted, ChildTypeOK
      <4>2. /\ IsFiniteSet(discoveries[h].urls \cup {q})
            /\ Cardinality(discoveries[h].urls \cup {q}) \in Nat
            /\ Cardinality(discoveries[h].urls) \in Nat
        BY <4>1, FS_AddElement, FS_CardinalityType
      <4>3. Cardinality(discoveries[h].urls) <= Cardinality(discoveries[h].urls \cup {q})
        BY <4>2, FS_Subset
      <4>4. QED
        BY <1>2, <3>3, <4>1, <4>2, <4>3
    <3>4. QED
      BY <3>2, <3>3
  <2>4. QED
    BY <1>1, <1>2, <2>1, <2>2, <2>3 DEF ChildTypeOK, process, outcome
<1>7. Walked'
  BY <1>1, <1>2, <1>3, <1>4, <1>5 DEF ChildTypeOK, Tracked, Walked
<1>8. Counted'
  <2>1. SUFFICES ASSUME NEW g \in Header
                 PROVE  /\ IsFiniteSet(discoveries'[g].urls) /\ announced[g] \in Nat
                        /\ announced[g] <= Cardinality(Past(g)')
    BY <1>1 DEF Counted
  <2>2. /\ IsFiniteSet(discoveries[g].urls) /\ announced[g] \in Nat
        /\ announced[g] <= Cardinality(Past(g))
    BY DEF Tracked, Counted
  <2>3. IsFiniteSet(discoveries'[g].urls)
    BY <1>2, <2>2, FS_AddElement
  <2>4. Past(g) \subseteq Past(g)'
    BY <1>1, <1>2, <1>5, ChildAssumption DEF Past, Tracked, Walked, Seen
  <2>5. Past(g)' \subseteq discoveries'[g].urls
    BY DEF Past
  <2>6. /\ Cardinality(Past(g)) \in Nat /\ Cardinality(Past(g)') \in Nat
        /\ Cardinality(Past(g)) <= Cardinality(Past(g)')
    BY <2>3, <2>4, <2>5, FS_Subset, FS_CardinalityType
  <2>7. QED
    BY <2>2, <2>3, <2>6
<1>9. Single'
  BY <1>1, <1>3 DEF ChildTypeOK, Tracked, Walked, Single
<1>10. NothingLost'
  <2>1. \A r \in Request, g \in Header :
           progress'[r] # "idle" /\ g \in Seen(r)'
              => r \in discoveries'[g].urls /\ (announced[g] > 0 \/ unseen'[r] = g)
    <3>1. SUFFICES ASSUME NEW r \in Request, NEW g \in Header, progress'[r] # "idle", g \in Seen(r)'
                   PROVE  r \in discoveries'[g].urls /\ (announced[g] > 0 \/ unseen'[r] = g)
      OBVIOUS
    <3>2. CASE r = q /\ g = h
      <4>1. announced[h] \in Nat
        BY DEF Tracked, Counted
      <4>2. QED
        BY <1>1, <1>2, <3>2, <4>1 DEF ChildTypeOK
    <3>3. CASE ~(r = q /\ g = h)
      <4>1. g \in Seen(r) /\ progress[r] # "idle"
        BY <1>1, <1>4, <3>1, <3>3
      <4>2. r \in discoveries[g].urls /\ (announced[g] > 0 \/ unseen[r] = g)
        BY <4>1 DEF NothingLost, Seen
      <4>3. unseen[r] = g => r # q
        BY <1>1, ChildAssumption
      <4>4. QED
        BY <1>2, <1>5, <4>2, <4>3
    <3>4. QED
      BY <3>2, <3>3
  <2>2. \A r \in Request : Seen(r)' \subseteq Header
    BY <1>6 DEF ChildTypeOK, Seen
  <2>3. QED
    BY <1>1, <2>1, <2>2 DEF NothingLost, Seen
<1>11. QED
  BY <1>6, <1>7, <1>8, <1>9, <1>10 DEF Tracked

\* The announcement of a request is one more of those that are past the header.
LEMMA AnnounceKeeps ==
    ASSUME ChildTypeOK, NothingLost, Tracked, NEW q \in Request, Announce(q)
    PROVE  ChildTypeOK' /\ NothingLost' /\ Tracked'
<1>. PICK h \in Header : h = unseen[q]
  BY DEF Announce, ChildTypeOK
<1>1. /\ h # None /\ announced' = [announced EXCEPT ![h] = @ + 1]
      /\ unseen' = [unseen EXCEPT ![q] = None]
      /\ UNCHANGED <<mode, headers, progress, todo, discoveries, overlapped, sentinelChan,
                     process, outcome>>
  BY DEF Announce
<1>2. /\ h \in Header /\ h \in Seen(q)
      /\ q \in discoveries[h].urls /\ q \notin Past(h) /\ progress[q] = "logging"
  BY <1>1 DEF ChildTypeOK, Tracked, Walked, Past
<1>3. /\ announced[h] \in Nat /\ announced'[h] = announced[h] + 1
      /\ \A g \in Header \ {h} : announced'[g] = announced[g]
  BY <1>1, <1>2 DEF ChildTypeOK, Tracked, Counted
<1>4. unseen'[q] = None /\ \A r \in Request \ {q} : unseen'[r] = unseen[r]
  BY <1>1 DEF ChildTypeOK
<1>5. \A r \in Request : Seen(r)' = Seen(r)
  BY <1>1 DEF Seen
<1>6. Past(h)' = Past(h) \cup {q}
  BY <1>1, <1>2, <1>4, ChildAssumption DEF Past, Tracked, Walked
<1>7. \A g \in Header \ {h} : Past(g)' = Past(g)
  BY <1>1, <1>2, <1>4, ChildAssumption DEF Past, Tracked, Walked
<1>8. Counted'
  <2>1. SUFFICES ASSUME NEW g \in Header
                 PROVE  /\ IsFiniteSet(discoveries[g].urls) /\ announced'[g] \in Nat
                        /\ announced'[g] <= Cardinality(Past(g)')
    BY <1>1 DEF Counted
  <2>2. /\ IsFiniteSet(discoveries[g].urls) /\ announced[g] \in Nat
        /\ announced[g] <= Cardinality(Past(g))
    BY DEF Tracked, Counted
  <2>3. CASE g # h
    BY <1>3, <1>7, <2>2, <2>3
  <2>4. CASE g = h
    <3>1. Past(h) \subseteq discoveries[h].urls
      BY DEF Past
    <3>2. IsFiniteSet(Past(h)) /\ Cardinality(Past(h)) \in Nat
      BY <2>2, <2>4, <3>1, FS_Subset, FS_CardinalityType
    <3>3. Cardinality(Past(h) \cup {q}) = Cardinality(Past(h)) + 1
      BY <1>2, <3>2, FS_AddElement
    <3>4. Past(g)' = Past(h) \cup {q}
      BY <1>6, <2>4 DEF Past
    <3>5. QED
      BY <1>3, <2>2, <2>4, <3>2, <3>3, <3>4
  <2>5. QED
    BY <2>3, <2>4
<1>9. ChildTypeOK'
  <2>1. \A g \in Header : announced'[g] \in 0 .. Cardinality(discoveries'[g].urls)
    <3>1. \A g \in Header : Past(g)' \in SUBSET discoveries'[g].urls
      BY DEF Past
    <3>2. QED
      BY <1>8, <3>1, CountBound DEF Counted
  <2>2. DOMAIN announced' = Header
    BY <1>1 DEF ChildTypeOK
  <2>3. unseen' \in [Request -> Header \cup {None}]
    BY <1>1 DEF ChildTypeOK
  <2>4. QED
    BY <1>1, <2>1, <2>2, <2>3 DEF ChildTypeOK, process, outcome
<1>10. Walked'
  BY <1>1, <1>4, <1>5 DEF Tracked, Walked
<1>11. Single'
  <2>1. SUFFICES ASSUME ~overlapped
                 PROVE  \A r \in Request : unseen'[r] # None => announced'[unseen'[r]] = 0
    BY <1>1 DEF Tracked, Single
  <2>2. \A r \in Request \ {q} : unseen[r] = None
    BY <1>2, <2>1 DEF Tracked, Single, Walked
  <2>3. QED
    BY <1>4, <2>2
<1>12. NothingLost'
  <2>1. \A r \in Request : progress'[r] # "idle" => \A g \in Seen(r)' :
           r \in discoveries'[g].urls /\ (announced'[g] > 0 \/ unseen'[r] = g)
    <3>1. SUFFICES ASSUME NEW r \in Request, NEW g \in Seen(r), progress[r] # "idle"
                   PROVE  r \in discoveries[g].urls /\ (announced'[g] > 0 \/ unseen'[r] = g)
      BY <1>1, <1>5
    <3>2. g \in Header
      BY DEF Seen, ChildTypeOK
    <3>3. r \in discoveries[g].urls /\ (announced[g] > 0 \/ unseen[r] = g)
      BY <3>1 DEF NothingLost, Seen
    <3>4. CASE g = h
      BY <1>3, <3>3, <3>4
    <3>5. CASE g # h
      BY <1>3, <1>4, <3>2, <3>3, <3>5
    <3>6. QED
      BY <3>4, <3>5
  <2>2. ~overlapped' => \A g \in Header : announced'[g] <= 1
    <3>1. SUFFICES ASSUME ~overlapped, NEW g \in Header
                   PROVE  announced'[g] <= 1
      BY <1>1
    <3>2. announced[h] = 0
      BY <1>1, <3>1 DEF Tracked, Single
    <3>3. announced[g] <= 1
      BY <3>1 DEF NothingLost
    <3>4. QED
      BY <1>3, <3>2, <3>3
  <2>3. QED
    BY <2>1, <2>2 DEF NothingLost, Seen
<1>13. QED
  BY <1>8, <1>9, <1>10, <1>11, <1>12 DEF Tracked

\* A request that is done has nothing left to come to.
LEMMA LoggedKeeps ==
    ASSUME ChildTypeOK, NothingLost, Tracked, NEW q \in Request, Logged(q)
    PROVE  ChildTypeOK' /\ NothingLost' /\ Tracked'
<1>1. /\ progress[q] = "logging" /\ todo[q] = {} /\ unseen[q] = None
      /\ progress' = [progress EXCEPT ![q] = "done"]
      /\ UNCHANGED <<mode, headers, todo, unseen, discoveries, announced, overlapped,
                     process, outcome>>
  BY DEF Logged
<1>2. ChildTypeOK'
  <2>1. sentinelChan' \in {"open", "closed"}
    BY DEF Logged, ChildTypeOK
  <2>2. QED
    BY <1>1, <2>1 DEF ChildTypeOK, process, outcome
<1>3. Walked'
  BY <1>1 DEF ChildTypeOK, Tracked, Walked, Seen
<1>4. Counted'
  BY <1>1 DEF Tracked, Counted, Past
<1>5. Single'
  BY <1>1 DEF ChildTypeOK, Tracked, Single
<1>6. NothingLost'
  BY <1>1 DEF ChildTypeOK, NothingLost
<1>7. QED
  BY <1>2, <1>3, <1>4, <1>5, <1>6 DEF Tracked

\* Whatever leaves the requests alone.
LEMMA OthersKeep ==
    ASSUME NothingLost, Tracked, UNCHANGED requests
    PROVE  NothingLost' /\ Tracked'
BY DEF requests, NothingLost, Tracked, Walked, Counted, Single, Seen, Past

\* What is discovered stays so, and a sentinel that was logged is.
LEMMA RequestsFollowed ==
    ASSUME ChildTypeOK, Tracked, Followed, ExitHonest, NEW q \in Request, RequestStep(q)
    PROVE  Followed' /\ ExitHonest'
<1>1. UNCHANGED <<mode, process, outcome>>
  BY DEF RequestStep, Arrive, Track, Announce, Logged
<1>2. \A h \in Header : discoveries[h].urls \subseteq discoveries'[h].urls
  <2>1. discoveries \in [Header -> Discovery]
    BY DEF ChildTypeOK
  <2>2. CASE UNCHANGED discoveries
    BY <2>2
  <2>3. ASSUME NEW h \in Header, Track(q, h)
        PROVE  discoveries[h].urls \subseteq discoveries'[h].urls
               /\ \A g \in Header \ {h} : discoveries'[g] = discoveries[g]
    BY <2>1, <2>3 DEF Track
  <2>4. QED
    BY <2>2, <2>3 DEF RequestStep, Arrive, Announce, Logged
<1>3. Discovered \subseteq Discovered'
  BY <1>2 DEF Discovered
<1>4. sentinelChan' # sentinelChan => sentinelChan' = "closed" /\ Discovered # {}
  <2>1. SUFFICES ASSUME sentinelChan' # sentinelChan
                 PROVE  sentinelChan' = "closed" /\ Discovered # {}
    OBVIOUS
  <2>2. Logged(q)
    BY <2>1 DEF RequestStep, Arrive, Track, Announce
  <2>3. sentinelChan' = "closed" /\ HasSentinel(q) /\ todo[q] = {}
    BY <2>1, <2>2 DEF Logged
  <2>4. PICK h \in DOMAIN headers[q] : headers[q][h] # "none"
    BY <2>3 DEF HasSentinel
  <2>5. h \in Header /\ q \in discoveries[h].urls
    BY <2>3, <2>4 DEF ChildTypeOK, Tracked, Walked, Seen
  <2>6. QED
    BY <2>3, <2>5 DEF Discovered
<1>5. QED
  BY <1>1, <1>3, <1>4 DEF Followed, Stages, ExitHonest, process, outcome

\* Eight bits keep the code of a child that ended by itself; of one that a
\* signal ended they make 255.
LEMMA CodeOfType ==
    ASSUME NEW end \in ExitCode \cup {Killed}
    PROVE  /\ CodeOf(end) \in ExitCode \cup {-1} /\ CodeOf(end) # None
           /\ CodeOf(end) % 256 \in ExitCode \cup {255}
<1>1. CASE end \in ExitCode
  <2>1. CodeOf(end) = end /\ end \in 0 .. 254
    BY <1>1, ChildAssumption DEF CodeOf
  <2>2. end % 256 = end
    BY <2>1
  <2>3. QED
    BY <1>1, <2>1, <2>2, ChildAssumption
<1>2. CASE end = Killed
  <2>1. CodeOf(end) = -1
    BY <1>2 DEF CodeOf
  <2>2. CodeOf(end) \in Int /\ CodeOf(end) + 1 = 0
    BY <2>1
  <2>3. CodeOf(end) % 256 = 255
    BY <2>2
  <2>4. QED
    BY <2>1, <2>3, ChildAssumption
<1>3. QED
  BY <1>1, <1>2

\* With a sentinel there is a header to print.
LEMMA ChoicesType == Choices \subseteq Header /\ (Discovered # {} => Choices # {})
BY DEF Choices, Flagged, Discovered

\* The child, its reaper and the main goroutine.
LEMMA ProcessFollowed ==
    ASSUME ChildTypeOK, Followed, ExitHonest, UNCHANGED requests,
           Reap \/ \E end \in ExitCode \cup {Killed} : ChildExits(end)
    PROVE  ChildTypeOK' /\ Followed' /\ ExitHonest'
<1>1. Discovered' = Discovered
  BY DEF requests, Discovered
<1>2. CASE Reap
  <2>1. /\ exitChannel' = CodeOf(status) /\ child = "exited" /\ Alive
        /\ UNCHANGED <<mode, child, interrupted, status, outcome>>
    BY <1>2 DEF Reap
  <2>2. status \in ExitCode \cup {Killed}
    BY <2>1 DEF ChildTypeOK, Followed
  <2>3. ChildTypeOK'
    BY <2>1, <2>2, CodeOfType DEF ChildTypeOK, requests, outcome
  <2>4. QED
    BY <1>1, <2>1, <2>3 DEF Followed, Stages, ExitHonest, requests, outcome
<1>3. ASSUME NEW end \in ExitCode \cup {Killed}, ChildExits(end)
      PROVE  ChildTypeOK' /\ Followed' /\ ExitHonest'
  <2>1. /\ child = "running" /\ child' = "exited" /\ status' = end /\ end # None
        /\ UNCHANGED <<mode, interrupted, exitChannel, outcome>>
    BY <1>3, ChildAssumption DEF ChildExits
  <2>2. ChildTypeOK'
    BY <2>1 DEF ChildTypeOK, requests, outcome
  <2>3. QED
    BY <1>1, <2>1, <2>2 DEF Followed, Stages, ExitHonest, requests, outcome
<1>4. QED
  BY <1>2, <1>3

\* The main goroutine leaves with the code that it was told, and stops only
\* after its child; before it prints, a sentinel has been logged.
LEMMA MainFollowed ==
    ASSUME ChildTypeOK, Followed, ExitHonest, UNCHANGED <<mode, requests>>, MainStep \/ Signal
    PROVE  ChildTypeOK' /\ Followed' /\ ExitHonest'
<1>. USE DEF Stages, Main, Returns, process, outcome
<1>1. UNCHANGED <<mode, requests>>
  OBVIOUS
<1>2. Discovered' = Discovered
  BY <1>1 DEF requests, Discovered
<1>3. 0 % 256 = 0 /\ 1 % 256 = 1
  OBVIOUS
<1>4. child = "exited" => status \in ExitCode \cup {Killed}
  BY DEF ChildTypeOK, Followed
\* Once it has left there is nothing more to follow but the child.
<1>5. ASSUME main' = "exited", UNCHANGED process
      PROVE  Followed'
  <2>1. UNCHANGED <<mode, sentinelChan, child, interrupted, status, exitChannel>>
    BY <1>1, <1>5 DEF requests
  <2>2. mode \in {"run", "command", "manual"}
    BY DEF ChildTypeOK
  <2>3. QED
    BY <1>2, <1>5, <2>1, <2>2 DEF Followed
<1>6. ASSUME SpawnChild \/ WaitForShutdown \/ TakeSentinel \/ Check \/ Signal
      PROVE  ChildTypeOK' /\ Followed' /\ ExitHonest'
  <2>1. ChildTypeOK'
    <3>1. /\ UNCHANGED <<mode, headers, progress, todo, unseen, discoveries, announced, overlapped,
                         sentinelChan, status, exitChannel, printed>>
          /\ child' \in {child, "running"} /\ main' \in Main
      BY <1>1, <1>6 DEF requests, SpawnChild, WaitForShutdown, TakeSentinel, Check, Signal
    <3>2. interrupted' \in BOOLEAN
      BY <1>6 DEF ChildTypeOK, SpawnChild, WaitForShutdown, TakeSentinel, Check, Signal
    <3>3. code' \in {code, 0, 1}
      BY <1>6 DEF SpawnChild, WaitForShutdown, TakeSentinel, Check, Signal
    <3>4. QED
      BY <3>1, <3>2, <3>3 DEF ChildTypeOK
  <2>2. Followed'
    BY <1>1, <1>2, <1>6 DEF ChildTypeOK, Followed, requests, SpawnChild, WaitForShutdown,
        TakeSentinel,
                            Check, Signal, Alive
  <2>3. ExitHonest'
    BY <1>1, <1>6 DEF ExitHonest, SpawnChild, WaitForShutdown, TakeSentinel, Check, Signal
  <2>4. QED
    BY <2>1, <2>2, <2>3
<1>7. ASSUME TakeExit \/ AwaitExit
      PROVE  ChildTypeOK' /\ Followed' /\ ExitHonest'
  <2>1. exitChannel # None /\ child = "exited" /\ exitChannel = CodeOf(status) /\ main' = "check"
    BY <1>7 DEF Followed, TakeExit, AwaitExit
  <2>2. ChildTypeOK'
    BY <1>1, <1>7 DEF ChildTypeOK, requests, TakeExit, AwaitExit
  <2>3. /\ UNCHANGED <<mode, sentinelChan, child, interrupted, status, exitChannel>>
        /\ mode = "command" /\ code' = IF interrupted THEN 0 ELSE CodeOf(status)
        /\ interrupted => main = "await"
    BY <1>1, <1>7, <2>1 DEF ChildTypeOK, Followed, requests, TakeExit, AwaitExit
  <2>4. Followed'
    BY <1>2, <2>1, <2>3 DEF Followed
  <2>5. QED
    BY <2>1, <2>2, <2>4 DEF ExitHonest
<1>8. CASE TakeCode
  <2>1. /\ exitChannel # None /\ child = "exited" /\ exitChannel = CodeOf(status)
        /\ main = "wait" /\ ~interrupted
    BY <1>8 DEF Followed, TakeCode
  <2>2. exitChannel % 256 \in ExitCode \cup {255}
    BY <1>4, <2>1, CodeOfType
  <2>3. ChildTypeOK'
    BY <1>1, <1>8, <2>2 DEF ChildTypeOK, requests, Exit, TakeCode
  <2>4. Followed'
    BY <1>5, <1>8 DEF Exit, TakeCode
  <2>5. ExitHonest'
    BY <1>8, <2>1 DEF ExitHonest, Exit, TakeCode
  <2>6. QED
    BY <2>3, <2>4, <2>5
<1>9. CASE StartFails
  <2>1. main = "start" /\ child = "none" /\ ~interrupted /\ code' = 1
    BY <1>3, <1>9 DEF Followed, Exit, StartFails
  <2>2. ChildTypeOK'
    BY <1>1, <1>9, <2>1 DEF ChildTypeOK, requests, Exit, StartFails
  <2>3. Followed'
    BY <1>5, <1>9 DEF Exit, StartFails
  <2>4. ExitHonest'
    BY <1>9, <2>1 DEF ExitHonest, Exit, StartFails
  <2>5. QED
    BY <2>2, <2>3, <2>4
<1>10. CASE PrintConfig
  <2>1. /\ mode # "manual" /\ child = "exited" /\ main = "stopping"
        /\ code = IF interrupted THEN 0 ELSE CodeOf(status)
    BY <1>10 DEF Followed, PrintConfig
  <2>2. code % 256 \in ExitCode \cup {0, 255}
    BY <1>3, <1>4, <2>1, CodeOfType
  <2>3. printed' \in Header \cup {None} /\ (interrupted => printed' # None)
    BY <1>10, <2>1, ChoicesType, ChildAssumption DEF Followed, PrintConfig
  <2>4. ChildTypeOK'
    BY <1>1, <1>10, <2>2, <2>3 DEF ChildTypeOK, requests, Exit, PrintConfig
  <2>5. Followed'
    BY <1>5, <1>10 DEF Exit, PrintConfig
  <2>6. ExitHonest'
    BY <1>3, <1>10, <2>1, <2>3 DEF ExitHonest, Exit, PrintConfig
  <2>7. QED
    BY <2>4, <2>5, <2>6
<1>11. CASE ExitPlain
  <2>1. main = "stoppingPlain" /\ ~interrupted
    BY <1>11 DEF Followed, ExitPlain
  <2>2. CASE mode = "manual"
    <3>1. child = "none" /\ code \in {0, 1} /\ code' = code
      BY <1>3, <1>11, <2>1, <2>2 DEF Followed, Exit, ExitPlain
    <3>2. ChildTypeOK'
      BY <1>1, <1>11, <3>1 DEF ChildTypeOK, requests, Exit, ExitPlain
    <3>3. Followed'
      BY <1>5, <1>11 DEF Exit, ExitPlain
    <3>4. ExitHonest'
      BY <1>1, <1>11, <2>1, <2>2, <3>1 DEF ExitHonest, Exit, ExitPlain
    <3>5. QED
      BY <3>2, <3>3, <3>4
  <2>3. CASE mode # "manual"
    <3>1. child = "exited" /\ code = CodeOf(status)
      BY <2>1, <2>3 DEF Followed
    <3>2. code % 256 \in ExitCode \cup {255}
      BY <1>4, <3>1, CodeOfType
    <3>3. ChildTypeOK'
      BY <1>1, <1>11, <3>2 DEF ChildTypeOK, requests, Exit, ExitPlain
    <3>4. Followed'
      BY <1>5, <1>11 DEF Exit, ExitPlain
    <3>5. ExitHonest'
      BY <1>1, <1>11, <2>1, <3>1 DEF ExitHonest, Exit, ExitPlain
    <3>6. QED
      BY <3>3, <3>4, <3>5
  <2>4. QED
    BY <2>2, <2>3
<1>12. QED
  BY <1>1, <1>6, <1>7, <1>8, <1>9, <1>10, <1>11 DEF MainStep

\* A request, the child with its reaper, or the main goroutine.
LEMMA ChildIInvKept == ChildIInv /\ [ChildNext]_childVars => ChildIInv'
<1>. SUFFICES ASSUME ChildIInv, [ChildNext]_childVars PROVE ChildIInv'
  OBVIOUS
<1>. USE DEF ChildIInv
<1>1. ASSUME NEW q \in Request, RequestStep(q) PROVE ChildIInv'
  <2>1. ChildTypeOK' /\ NothingLost' /\ Tracked'
    BY <1>1, ArriveKeeps, TrackKeeps, AnnounceKeeps, LoggedKeeps DEF RequestStep
  <2>2. QED
    BY <1>1, <2>1, RequestsFollowed
<1>2. CASE MainStep \/ Signal
  <2>1. UNCHANGED <<mode, requests>>
    BY <1>2 DEF MainStep, Signal, SpawnChild, WaitForShutdown, StartFails, TakeCode, TakeSentinel,
                TakeExit, AwaitExit, Check, PrintConfig, ExitPlain
  <2>2. QED
    BY <1>2, <2>1, MainFollowed, OthersKeep
<1>3. CASE Reap \/ \E end \in ExitCode \cup {Killed} : ChildExits(end)
  <2>1. UNCHANGED requests
    BY <1>3 DEF Reap, ChildExits
  <2>2. QED
    BY <1>3, <2>1, ProcessFollowed, OthersKeep
<1>4. CASE UNCHANGED childVars
  <2>1. /\ UNCHANGED <<mode, requests, child, interrupted, status, exitChannel,
                       main, code, printed>>
        /\ UNCHANGED <<headers, progress, todo, unseen, discoveries, announced, overlapped,
                       sentinelChan>>
    BY <1>4 DEF childVars, requests, process, outcome
  <2>2. ChildTypeOK' /\ Followed' /\ ExitHonest'
    BY <2>1 DEF ChildTypeOK, Followed, Stages, ExitHonest, Discovered
  <2>3. QED
    BY <2>1, <2>2, OthersKeep
<1>5. QED
  BY <1>1, <1>2, <1>3, <1>4 DEF ChildNext

\* The invariant of run and examine, in every state.
LEMMA Waited == ChildSpec => []ChildIInv
<1>1. ChildInit => ChildIInv
  BY ChildInitial
<1>2. ChildIInv /\ [ChildNext]_childVars => ChildIInv'
  BY ChildIInvKept
<1>3. QED
  BY <1>1, <1>2, PTL DEF ChildSpec

\* Whatever requests are logged at the same time, and in whatever order the
\* lock of the tracker is taken: a header that LogRequest has come to is in
\* discoveries with its URL and has been announced or is about to be; one
\* request after the other announces no header twice.
THEOREM NothingLostEver == ChildSpec => []ChildInv
<1>1. ChildIInv => ChildInv
  BY DEF ChildIInv, ChildInv
<1>2. QED
  BY <1>1, Waited, PTL

\* run and examine end with the code of their child, in eight bits, or with
\* success and a header to print when the sentinel was logged; never, unless a
\* signal ends them, before the child (process.go, run.go, examine.go).
THEOREM ExitsHonestly == ChildSpec => []ExitHonest
<1>1. ChildIInv => ExitHonest
  BY DEF ChildIInv
<1>2. QED
  BY <1>1, Waited, PTL
=============================================================================
