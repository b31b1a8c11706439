----------------------- MODULE ClientLifecycleProofs ------------------------
(***************************************************************************)
(* Proofs about ClientLifecycle, for any number of callers and launches.   *)
(* AnyLaunchInv is kept by every step in every configuration, so the wait  *)
(* groups never go negative, a Start that fails leaves no process, and one *)
(* that waits for its handshake never finds its doneCtx cancelled.         *)
(* OneLaunchInv is an invariant of a client that runs a Cmd or reattaches; *)
(* from both the theorems about Kill and Exited follow.                    *)
(***************************************************************************)
EXTENDS ClientLifecycle, FiniteSetTheorems, TLAPS

USE DEF Launches, structVars, globalVars, callerVars, procVars, goVars

\* The Client's fields keep their types, whoever takes a step.
LEMMA ClientTypes == ASSUME ClientOK, [Next]_vars PROVE ClientOK'
<1> USE MaxLaunchAssumption DEF ClientOK
<1>1. ASSUME NEW k \in Callers, Call(k) PROVE ClientOK'
  BY <1>1, SMT, Z3, SMTT(20)
  DEF Call, StartAgain, StartLaunch, StartRunnerFuncError, StartMkdirError,
      StartReattach, KillCall, CleanupClients
<1>2. ASSUME NEW k \in Callers, StartStep(k) PROVE ClientOK'
  BY <1>2, SMT, Z3, SMTT(20)
  DEF StartStep, RunnerStartError, RunnerStart, SelectHandshake, SelectBadLine,
      SelectTimeout, StartFail, GetClient
<1>3. ASSUME NEW k \in Callers, KillStep(k) PROVE ClientOK'
  <2>1. CASE KillGate(k) \/ KillSnapshot(k) \/ KillGrace(k) \/ KillForce(k)
    BY <2>1, SMT, Z3, SMTT(20) DEF KillGate, KillSnapshot, KillGrace, KillForce
  <2>2. CASE KillOnce(k) \/ KillNothing(k) \/ KillClose(k)
    BY <2>2, ZenonT(40) DEF KillOnce, KillNothing, KillClose
  <2>3. CASE KillMark(k)
    BY <2>3, Zenon DEF KillMark
  <2>4. CASE KillWait(k) \/ KillReset(k)
    BY <2>4, SMT, Z3, SMTT(20) DEF KillWait, KillReset
  <2>5. CASE KillUnmanage(k)
    BY <2>5, Zenon DEF KillUnmanage
  <2> QED
    BY <1>3, <2>1, <2>2, <2>3, <2>4, <2>5, Zenon DEF KillStep
<1>4. ASSUME NEW r \in Launches, PipeStep(r) PROVE ClientOK'
  BY <1>4, SMT, Z3, SMTT(20)
  DEF PipeStep, LogStderrEOF, LogStderrDone, ScannerEOF, ScannerDone,
      DrainLine, DrainDone
<1>5. ASSUME NEW r \in Launches, WaiterStep(r) PROVE ClientOK'
  <2>1. CASE WaiterExited(r)
    BY <2>1, Zenon DEF WaiterExited
  <2>2. CASE ~WaiterExited(r)
    BY <1>5, <2>2, SMT, Z3, SMTT(20)
    DEF WaiterStep, WaiterBegin, WaiterPipes, WaiterWait, WaiterCount,
        WaiterCancel
  <2> QED
    BY <2>1, <2>2, Zenon
<1>6. ASSUME NEW r \in Launches, PluginStep(r) PROVE ClientOK'
  BY <1>6, SMT, Z3, SMTT(20)
  DEF PluginStep, PluginPrint, PluginExit, PluginKilled, PluginFork,
      DescendantExit, LogStderrAbort, LogStderrDone, ScannerAbort, ScannerDone
<1>7. CASE UNCHANGED vars
  BY <1>7, ZenonT(40) DEF vars
<1> QED
  BY <1>1, <1>2, <1>3, <1>4, <1>5, <1>6, <1>7, Zenon DEF Next

\* So do the callers' program counters and locals.
LEMMA CallerTypes == ASSUME ClientOK, CallerOK, [Next]_vars PROVE CallerOK'
<1> USE DEF CallerOK, CallerPC, Goto
<1>1. ASSUME NEW k \in Callers, Call(k) PROVE CallerOK'
  BY <1>1, SMT, Z3, SMTT(20)
  DEF Call, StartAgain, StartLaunch, StartRunnerFuncError, StartMkdirError,
      AfterStart, StartReattach, KillCall, CleanupClients
<1>2. ASSUME NEW k \in Callers, StartStep(k) PROVE CallerOK'
  BY <1>2, Zenon DEF StartStep, RunnerStartError, RunnerStart, SelectHandshake,
              SelectBadLine, SelectTimeout, StartFail, GetClient, AfterStart
<1>3. ASSUME NEW k \in Callers, KillStep(k) PROVE CallerOK'
  <2>1. CASE KillSnapshot(k)
    <3>1. kill' \in [runner : 0 .. MaxLaunch, dir : 0 .. MaxLaunch]
      BY <2>1, Zenon DEF KillSnapshot, ClientOK
    <3> QED
      BY <2>1, <3>1, Zenon DEF KillSnapshot
  <2>2. CASE KillUnmanage(k)
    <3>1. kill' \in [runner : 0 .. MaxLaunch, dir : 0 .. MaxLaunch]
      BY <2>2, MaxLaunchAssumption, SMT, Z3, SMTT(20) DEF KillUnmanage
    <3> QED
      BY <2>2, <3>1, Zenon DEF KillUnmanage
  <2>3. CASE ~KillSnapshot(k) /\ ~KillUnmanage(k)
    BY <1>3, <2>3, ZenonT(40) DEF KillStep, KillGate, KillOnce, KillNothing,
         KillClose, KillGrace, KillForce, KillMark, KillWait, KillReset
  <2> QED
    BY <2>1, <2>2, <2>3, Zenon
<1>4. ASSUME NEW r \in Launches, PipeStep(r) PROVE CallerOK'
  BY <1>4, Zenon DEF PipeStep, LogStderrEOF, LogStderrDone, ScannerEOF,
       ScannerDone, DrainLine, DrainDone
<1>5. ASSUME NEW r \in Launches, WaiterStep(r) PROVE CallerOK'
  BY <1>5, Zenon DEF WaiterStep, WaiterBegin, WaiterPipes, WaiterWait,
       WaiterExited, WaiterCount, WaiterCancel
<1>6. ASSUME NEW r \in Launches, PluginStep(r) PROVE CallerOK'
  BY <1>6, Zenon DEF PluginStep, PluginPrint, PluginExit, PluginKilled,
       PluginFork, DescendantExit, LogStderrAbort, LogStderrDone, ScannerAbort,
       ScannerDone
<1>7. CASE UNCHANGED vars
  BY <1>7, Zenon DEF vars
<1> QED
  BY <1>1, <1>2, <1>3, <1>4, <1>5, <1>6, <1>7, Zenon DEF Next

\* So do the processes and the goroutines of the launches.
LEMMA LaunchTypes == ASSUME ClientOK, LaunchOK, [Next]_vars PROVE LaunchOK'
<1> USE DEF LaunchOK, WaiterPC, Goroutine, WaiterGoto
<1>1. ASSUME NEW k \in Callers, Call(k) PROVE LaunchOK'
  BY <1>1, SMT, Z3, SMTT(20)
  DEF Call, StartAgain, StartLaunch, StartRunnerFuncError, StartMkdirError,
      StartReattach, KillCall, CleanupClients
<1>2. ASSUME NEW k \in Callers, StartStep(k) PROVE LaunchOK'
  BY <1>2, SMT, Z3, SMTT(20) DEF StartStep, RunnerStartError, RunnerStart,
       SelectHandshake, SelectBadLine, SelectTimeout, StartFail, GetClient,
       RunnerKill
<1>3. ASSUME NEW k \in Callers, KillStep(k) PROVE LaunchOK'
  <2>1. CASE KillForce(k)
    <3>1. /\ proc' = [proc EXCEPT ![kill.runner] = IF @ = "running"
                                                  THEN "signalled" ELSE @]
          /\ UNCHANGED <<line, goVars>>
      BY <2>1, Zenon DEF KillForce, RunnerKill
    <3> QED
      BY <3>1, ZenonT(40)
  <2>2. CASE ~KillForce(k)
    BY <1>3, <2>2, ZenonT(40) DEF KillStep, KillGate, KillOnce, KillNothing,
         KillSnapshot, KillClose, KillGrace, KillMark, KillWait, KillReset,
         KillUnmanage
  <2> QED
    BY <2>1, <2>2, Zenon
<1>4. ASSUME NEW r \in Launches, PipeStep(r) PROVE LaunchOK'
  BY <1>4, SMT, Z3, SMTT(20)
  DEF PipeStep, LogStderrEOF, LogStderrDone, ScannerEOF, ScannerDone,
      DrainLine, DrainDone
<1>5. ASSUME NEW r \in Launches, WaiterStep(r) PROVE LaunchOK'
  <2>1. CASE WaiterBegin(r)
    BY <2>1, Zenon DEF WaiterBegin, ClientOK
  <2>2. CASE WaiterPipes(r) \/ WaiterWait(r)
    BY <2>2, SMT, Z3, SMTT(20) DEF WaiterPipes, WaiterWait
  <2>3. CASE WaiterExited(r) \/ WaiterCount(r)
    BY <2>3, SMT, Z3, SMTT(20) DEF WaiterExited, WaiterCount
  <2>4. CASE WaiterCancel(r)
    <3>1. waiter' \in [Launches -> WaiterPC]
      BY <2>4, Zenon DEF WaiterCancel
    <3>2. waiterCtx' \in [Launches -> 0 .. MaxLaunch]
      BY <2>4, MaxLaunchAssumption, SMT, Z3, SMTT(20) DEF WaiterCancel
    <3>3. ctx' \in [Launches -> {"live", "cancelled"}]
      BY <2>4, Zenon DEF WaiterCancel
    <3> QED
      BY <2>4, <3>1, <3>2, <3>3, Zenon DEF WaiterCancel
  <2> QED
    BY <1>5, <2>1, <2>2, <2>3, <2>4, Zenon DEF WaiterStep
<1>6. ASSUME NEW r \in Launches, PluginStep(r) PROVE LaunchOK'
  BY <1>6, SMT, Z3, SMTT(20)
  DEF PluginStep, PluginPrint, PluginExit, PluginKilled, PluginFork,
      DescendantExit, LogStderrAbort, LogStderrDone, ScannerAbort, ScannerDone
<1>7. CASE UNCHANGED vars
  BY <1>7, Zenon DEF vars
<1> QED
  BY <1>1, <1>2, <1>3, <1>4, <1>5, <1>6, <1>7, Zenon DEF Next

\* So do the sets of directories and of surviving children.
LEMMA SetTypes == ASSUME ClientOK, SetsOK, [Next]_vars PROVE SetsOK'
<1> USE MaxLaunchAssumption DEF SetsOK, ClientOK
<1>1. ASSUME NEW k \in Callers, Call(k) PROVE SetsOK'
  <2>1. CASE StartLaunch(k)
    <3>1. launches + 1 \in Launches
      BY <2>1, SMT, Z3, SMTT(20) DEF StartLaunch
    <3>2. dirs' \in SUBSET Launches
      BY <2>1, <3>1, Zenon DEF StartLaunch
    <3>3. UNCHANGED descendants
      BY <2>1, Zenon DEF StartLaunch
    <3> QED
      BY <3>2, <3>3, Zenon
  <2>2. CASE StartRunnerFuncError(k)
    BY <2>2, SMT, Z3, SMTT(20) DEF StartRunnerFuncError
  <2>3. CASE ~StartLaunch(k) /\ ~StartRunnerFuncError(k)
    BY <1>1, <2>3, Zenon DEF Call, StartAgain, StartMkdirError, StartReattach,
                      KillCall, CleanupClients
  <2> QED
    BY <2>1, <2>2, <2>3, Zenon
<1>2. ASSUME NEW k \in Callers, StartStep(k) PROVE SetsOK'
  BY <1>2, Zenon DEF StartStep, RunnerStartError, RunnerStart, SelectHandshake,
              SelectBadLine, SelectTimeout, StartFail, GetClient, RunnerKill
<1>3. ASSUME NEW k \in Callers, KillStep(k) PROVE SetsOK'
  BY <1>3, Zenon DEF KillStep, KillGate, KillOnce, KillNothing, KillSnapshot,
              KillClose, KillGrace, KillForce, KillMark, KillWait, KillReset,
              KillUnmanage, RunnerKill
<1>4. ASSUME NEW r \in Launches, PipeStep(r) PROVE SetsOK'
  BY <1>4, Zenon DEF PipeStep, LogStderrEOF, LogStderrDone, ScannerEOF,
       ScannerDone, DrainLine, DrainDone
<1>5. ASSUME NEW r \in Launches, WaiterStep(r) PROVE SetsOK'
  BY <1>5, Zenon DEF WaiterStep, WaiterBegin, WaiterPipes, WaiterWait,
       WaiterExited, WaiterCount, WaiterCancel
<1>6. ASSUME NEW r \in Launches, PluginStep(r) PROVE SetsOK'
  BY <1>6, Zenon DEF PluginStep, PluginPrint, PluginExit, PluginKilled,
       PluginFork, DescendantExit, LogStderrAbort, LogStderrDone,
       ScannerAbort, ScannerDone
<1>7. CASE UNCHANGED vars
  BY <1>7, Zenon DEF vars
<1> QED
  BY <1>1, <1>2, <1>3, <1>4, <1>5, <1>6, <1>7, Zenon DEF Next

\* Every variable keeps its type, in every mode.
THEOREM TypeCorrect == Spec => []TypeOK
<1>1. Init => TypeOK
  <2> SUFFICES ASSUME Init PROVE TypeOK
    BY Zenon
  <2> USE MaxLaunchAssumption, FlagAssumption DEF Init
  <2>1. ClientOK
    <3>1. managed \in BOOLEAN
      BY Zenon
    <3>2. exited \in BOOLEAN /\ processKilled \in BOOLEAN
      BY Zenon
    <3> QED
      BY <3>1, <3>2, SMT, Z3, SMTT(20) DEF ClientOK
  <2>2. CallerOK
    BY SMT, Z3, SMTT(20) DEF CallerOK, CallerPC
  <2>3. LaunchOK
    BY SMT, Z3, SMTT(20) DEF LaunchOK, WaiterPC, Goroutine
  <2>4. SetsOK
    BY Zenon DEF SetsOK
  <2> QED
    BY <2>1, <2>2, <2>3, <2>4, Zenon DEF TypeOK
<1>2. TypeOK /\ [Next]_vars => TypeOK'
  BY ClientTypes, CallerTypes, LaunchTypes, SetTypes, Zenon DEF TypeOK
<1> QED
  BY <1>1, <1>2, PTL DEF Spec

-----------------------------------------------------------------------------
(* What holds in every configuration, for any number of launches.          *)

\* Kill touches no goroutine of a launch: of the process it only takes a life.
LEMMA KillFrame ==
  ASSUME LaunchOK, NEW k \in Callers, KillStep(k)
  PROVE  /\ UNCHANGED <<l, address, exited, doneCtx, clientWaitGroup,
                        pipesWaitGroup, mode, launches, line, goVars>>
         /\ runner' \in {runner, 0}
         /\ \A r \in Launches :
              \/ proc'[r] = proc[r]
              \/ proc[r] = "running" /\ proc'[r] = "signalled"
<1>1. CASE KillForce(k)
  BY <1>1, Zenon DEF KillForce, RunnerKill, LaunchOK
<1>2. CASE KillReset(k)
  BY <1>2, Zenon DEF KillReset
<1>3. CASE ~KillForce(k) /\ ~KillReset(k)
  BY <1>3, Zenon DEF KillStep, KillGate, KillOnce, KillNothing, KillSnapshot,
              KillClose, KillGrace, KillMark, KillWait, KillUnmanage
<1> QED
  BY <1>1, <1>2, <1>3, Zenon

\* Kill, and a call that makes no attempt to launch, never enter Start.
LEMMA CallerMoves ==
  ASSUME CallerOK, NEW k \in Callers,
         \/ Call(k) /\ ~StartLaunch(k)
         \/ KillStep(k)
         \/ GetClient(k)
  PROVE  \A j \in Callers : InStart(j)' => InStart(j) /\ pc'[j] = pc[j]
<1>1. \/ UNCHANGED pc
      \/ \E to \in CallerPC \ {"launch", "select"} : pc' = [pc EXCEPT ![k] = to]
  <2>1. CASE Call(k) /\ ~StartLaunch(k)
    BY <2>1, Zenon DEF Call, StartAgain, StartRunnerFuncError, StartMkdirError,
         StartReattach, KillCall, CleanupClients, AfterStart, Goto, CallerPC
  <2>2. CASE KillStep(k)
    BY <2>2, Zenon DEF KillStep, KillGate, KillOnce, KillNothing, KillSnapshot,
         KillClose, KillGrace, KillForce, KillMark, KillWait, KillReset,
         KillUnmanage, Goto, CallerPC
  <2>3. CASE GetClient(k)
    BY <2>3, Zenon DEF GetClient, Goto, CallerPC
  <2> QED
    BY <2>1, <2>2, <2>3, Zenon
<1> QED
  BY <1>1, Zenon DEF CallerOK, InStart

\* The goroutines of a launch and its process leave callers and locks alone.
LEMMA LaunchFrame ==
  ASSUME NEW r \in Launches, PipeStep(r) \/ WaiterStep(r) \/ PluginStep(r)
  PROVE  UNCHANGED <<l, address, runner, doneCtx, killOnce, mode, pc, kill,
                     launches>>
<1>1. CASE PipeStep(r)
  BY <1>1, Zenon DEF PipeStep, LogStderrEOF, LogStderrDone, ScannerEOF,
       ScannerDone, DrainLine, DrainDone
<1>2. CASE WaiterStep(r)
  BY <1>2, Zenon DEF WaiterStep, WaiterBegin, WaiterPipes, WaiterWait,
       WaiterExited, WaiterCount, WaiterCancel
<1>3. CASE PluginStep(r)
  BY <1>3, Zenon DEF PluginStep, PluginPrint, PluginExit, PluginKilled,
       PluginFork, DescendantExit, LogStderrAbort, LogStderrDone, ScannerAbort,
       ScannerDone
<1> QED
  BY <1>1, <1>2, <1>3, Zenon

\* The exit waiter only goes forward, and past its exit with the mutex free.
LEMMA WaiterMoves ==
  ASSUME LaunchOK, NEW r \in Launches, WaiterStep(r)
  PROVE  /\ waiter[r] # "off"
         /\ waiter[r] = "exit" => l = "free"
         /\ \E to \in WaiterPC \ {"off", "new"} :
              /\ waiter' = [waiter EXCEPT ![r] = to]
              /\ waiter[r] \in {"new", "pipes", "wait"} =>
                   to \in {"pipes", "wait", "exit"}
         /\ \A x \in Launches : waiter'[x] = "off" <=> waiter[x] = "off"
<1>1. /\ waiter[r] # "off"
      /\ waiter[r] = "exit" => l = "free"
      /\ \E to \in WaiterPC \ {"off", "new"} :
           /\ waiter' = [waiter EXCEPT ![r] = to]
           /\ waiter[r] \in {"new", "pipes", "wait"} =>
                to \in {"pipes", "wait", "exit"}
  <2> USE DEF WaiterGoto, WaiterPC
  <2>1. CASE WaiterBegin(r)
    BY <2>1, Zenon DEF WaiterBegin
  <2>2. CASE WaiterPipes(r) \/ WaiterWait(r)
    BY <2>2, Zenon DEF WaiterPipes, WaiterWait
  <2>3. CASE WaiterExited(r) \/ WaiterCount(r)
    BY <2>3, Zenon DEF WaiterExited, WaiterCount
  <2>4. CASE WaiterCancel(r)
    BY <2>4, Zenon DEF WaiterCancel
  <2> QED
    BY <2>1, <2>2, <2>3, <2>4, Zenon DEF WaiterStep
<1>2. \A x \in Launches : waiter'[x] = "off" <=> waiter[x] = "off"
  BY <1>1, Zenon DEF LaunchOK
<1> QED
  BY <1>1, <1>2, Zenon

\* c.l and killOnce keep a single owner.
LEMMA OwnerPreserved ==
  ASSUME TypeOK, OwnerInv, [Next]_vars
  PROVE  OwnerInv'
<1> USE DEF TypeOK, CallerOK, OwnerInv, InStart, InKill, Goto
<1>1. ASSUME NEW k \in Callers, Call(k) PROVE OwnerInv'
  <2>1. CASE StartLaunch(k)
    BY <2>1, Zenon DEF StartLaunch
  <2>2. CASE ~StartLaunch(k)
    <3>1. UNCHANGED <<l, killOnce>>
      BY <1>1, <2>2, Zenon DEF Call, StartAgain, StartRunnerFuncError,
           StartMkdirError, StartReattach, KillCall, CleanupClients
    <3>2. \/ UNCHANGED pc
          \/ \E to \in {"idle", "client", "kill"} : pc' = [pc EXCEPT ![k] = to]
      BY <1>1, <2>2, Zenon DEF Call, StartAgain, StartRunnerFuncError,
           StartMkdirError, StartReattach, KillCall, CleanupClients, AfterStart
    <3> QED
      BY <3>1, <3>2, Zenon
  <2> QED
    BY <2>1, <2>2, Zenon
<1>2. ASSUME NEW k \in Callers, StartStep(k) PROVE OwnerInv'
  <2>1. CASE RunnerStart(k)
    <3>1. /\ pc[k] = "launch" /\ pc' = [pc EXCEPT ![k] = "select"]
          /\ UNCHANGED <<l, killOnce>>
      BY <2>1, Zenon DEF RunnerStart
    <3> QED
      BY <3>1, Zenon
  <2>2. CASE GetClient(k)
    <3>1. pc' = [pc EXCEPT ![k] = "idle"] /\ UNCHANGED <<l, killOnce>>
      BY <2>2, Zenon DEF GetClient
    <3> QED
      BY <3>1, Zenon
  <2>3. CASE ~RunnerStart(k) /\ ~GetClient(k)
    <3>1. InStart(k) /\ UNCHANGED killOnce
      BY <1>2, <2>3, Zenon DEF StartStep, RunnerStartError, SelectHandshake,
           SelectBadLine, SelectTimeout, StartFail
    <3>2. \E to \in {"idle", "client"} : pc' = [pc EXCEPT ![k] = to]
      BY <1>2, <2>3, Zenon DEF StartStep, RunnerStartError, SelectHandshake,
           SelectBadLine, SelectTimeout, StartFail, AfterStart
    <3> QED
      BY <3>1, <3>2, Zenon
  <2> QED
    BY <2>1, <2>2, <2>3, Zenon
<1>3. ASSUME NEW k \in Callers, KillStep(k) PROVE OwnerInv'
  <2>1. l' = l
    BY <1>3, KillFrame, Zenon
  <2>2. CASE KillGate(k)
    <3>1. /\ \E to \in {"idle", "once"} : pc' = [pc EXCEPT ![k] = to]
          /\ UNCHANGED killOnce
      BY <2>2, Zenon DEF KillGate
    <3> QED
      BY <2>1, <3>1, Zenon
  <2>3. CASE KillOnce(k)
    <3>1. CASE killOnce = "unused"
      <4>1. killOnce' = "running" /\ pc' = [pc EXCEPT ![k] = "body"]
        BY <2>3, <3>1, Zenon DEF KillOnce
      <4>2. \A j \in Callers : ~InKill(j)
        BY <3>1, Zenon
      <4>3. \A j \in Callers : j # k => pc'[j] = pc[j]
        BY <4>1, Zenon
      <4>4. \A j \in Callers : InKill(j)' => j = k
        BY <4>2, <4>3, Zenon
      <4>5. \A j \in Callers : InStart(j)' => InStart(j)
        BY <4>1, Zenon
      <4> HIDE DEF InStart, InKill
      <4> QED
        BY <2>1, <4>1, <4>4, <4>5, Zenon
    <3>2. CASE killOnce # "unused"
      <4>1. pc' = [pc EXCEPT ![k] = "idle"] /\ UNCHANGED killOnce
        BY <2>3, <3>2, Zenon DEF KillOnce
      <4> QED
        BY <2>1, <4>1, Zenon
    <3> QED
      BY <3>1, <3>2, Zenon
  <2>4. CASE KillNothing(k) \/ KillUnmanage(k)
    <3>1. /\ pc[k] \in {"body", "unmanage"}
          /\ pc' = [pc EXCEPT ![k] = "idle"]
      BY <2>4, Zenon DEF KillNothing, KillUnmanage
    <3>2. \A j \in Callers : ~InKill(j)'
      BY <3>1, Zenon
    <3>3. \A j \in Callers : InStart(j)' => InStart(j)
      BY <3>1, Zenon
    <3> HIDE DEF InStart, InKill
    <3> QED
      BY <2>1, <3>2, <3>3, Zenon
  <2>5. CASE ~(KillGate(k) \/ KillOnce(k) \/ KillNothing(k) \/ KillUnmanage(k))
    <3>1. UNCHANGED killOnce /\ InKill(k)
      BY <1>3, <2>5, Zenon DEF KillStep, KillSnapshot, KillClose, KillGrace,
           KillForce, KillMark, KillWait, KillReset
    <3>2. \E to \in {"close", "grace", "force", "mark", "wait", "reset",
                     "unmanage"} : pc' = [pc EXCEPT ![k] = to]
      BY <1>3, <2>5, Zenon DEF KillStep, KillSnapshot, KillClose, KillGrace,
           KillForce, KillMark, KillWait, KillReset
    <3> QED
      BY <2>1, <3>1, <3>2, Zenon
  <2> QED
    BY <2>2, <2>3, <2>4, <2>5, Zenon
<1>4. ASSUME NEW r \in Launches, PipeStep(r) \/ WaiterStep(r) \/ PluginStep(r)
      PROVE  OwnerInv'
  BY <1>4, LaunchFrame, Zenon
<1>5. CASE UNCHANGED vars
  BY <1>5, Zenon DEF vars
<1> QED
  BY <1>1, <1>2, <1>3, <1>4, <1>5, Zenon DEF Next

\* The counted sets are finite, and their sizes are what arithmetic needs.
LEMMA Counted ==
  ASSUME NEW S, S \subseteq Launches
  PROVE  /\ IsFiniteSet(S) /\ Cardinality(S) \in Nat
         /\ Cardinality(S) = 0 => S = {}
         /\ \A r \in S : Cardinality(S \ {r}) = Cardinality(S) - 1
         /\ \A r : r \notin S => Cardinality(S \cup {r}) = Cardinality(S) + 1
<1>1. IsFiniteSet(Launches)
  BY MaxLaunchAssumption, FS_Interval, SMT, Z3, SMTT(20)
<1>2. IsFiniteSet(S)
  BY <1>1, FS_Subset, Zenon
<1>3. Cardinality(S) \in Nat
  BY <1>2, FS_CardinalityType, Zenon
<1>4. Cardinality(S) = 0 => S = {}
  BY <1>2, FS_EmptySet, Zenon
<1>5. \A r \in S : Cardinality(S \ {r}) = Cardinality(S) - 1
  BY <1>2, FS_RemoveElement, Zenon
<1>6. \A r : r \notin S => Cardinality(S \cup {r}) = Cardinality(S) + 1
  BY <1>2, FS_AddElement, Zenon
<1> QED
  BY <1>2, <1>3, <1>4, <1>5, <1>6, Zenon

\* The sizes of the four sets of goroutines.
LEMMA CountedAll ==
  /\ Cardinality(Running(logStderr)) \in Nat
  /\ Cardinality(Running(scanner)) \in Nat
  /\ Cardinality(NotDrained) \in Nat
  /\ Cardinality(NotWaited) \in Nat
<1>1. /\ Running(logStderr) \subseteq Launches
      /\ Running(scanner) \subseteq Launches
      /\ NotDrained \subseteq Launches /\ NotWaited \subseteq Launches
  BY Zenon DEF Running, NotDrained, NotWaited
<1> QED
  BY <1>1, Counted, Zenon

\* A step that changes none of the four sets leaves the counters alone.
LEMMA CountKept ==
  ASSUME CountInv, UNCHANGED <<pipesWaitGroup, clientWaitGroup>>,
         Running(logStderr') = Running(logStderr),
         Running(scanner') = Running(scanner),
         NotDrained' = NotDrained, NotWaited' = NotWaited
  PROVE  CountInv'
BY Zenon DEF CountInv

\* A goroutine that reads a pipe calls Done on both groups.
LEMMA PipeDone ==
  ASSUME CountInv, NEW r \in Launches,
         pipesWaitGroup' = pipesWaitGroup - 1,
         clientWaitGroup' = clientWaitGroup - 1,
         NotDrained' = NotDrained, NotWaited' = NotWaited,
         \/ /\ r \in Running(logStderr) /\ Running(scanner') = Running(scanner)
            /\ Running(logStderr') = Running(logStderr) \ {r}
         \/ /\ r \in Running(scanner)
            /\ Running(logStderr') = Running(logStderr)
            /\ Running(scanner') = Running(scanner) \ {r}
  PROVE  CountInv'
<1>1. /\ Running(logStderr) \subseteq Launches
      /\ Running(scanner) \subseteq Launches
  BY Zenon DEF Running
<1> DEFINE e == Cardinality(Running(logStderr))
           s == Cardinality(Running(scanner))
           d == Cardinality(NotDrained)
           w == Cardinality(NotWaited)
<1>2. /\ pipesWaitGroup = e + s /\ clientWaitGroup = pipesWaitGroup + d + w
      /\ d' = d /\ w' = w
  BY Zenon DEF CountInv
<1>3. (e' = e - 1 /\ s' = s) \/ (e' = e /\ s' = s - 1)
  BY <1>1, Counted, Zenon
<1>4. e \in Nat /\ s \in Nat /\ d \in Nat /\ w \in Nat
  BY CountedAll, Zenon
<1>5. CountInv' <=> /\ pipesWaitGroup' = e' + s'
                    /\ clientWaitGroup' = pipesWaitGroup' + d' + w'
  BY Zenon DEF CountInv
<1> HIDE DEF e, s, d, w
<1> QED
  BY <1>2, <1>3, <1>4, <1>5, SMT, Z3, SMTT(20)

\* Start adds one to each set, for the launch that has just got its process.
LEMMA CountStarted ==
  ASSUME LaunchOK, CountInv, EveryLaunchInv, EveryStartInv,
         NEW k \in Callers, RunnerStart(k)
  PROVE  CountInv'
<1>0. /\ launches \in Launches /\ ~Attaching /\ waiter[launches] = "off"
      /\ logStderr[launches] = "off" /\ scanner[launches] = "off"
      /\ drain[launches] = "off"
  BY Zenon DEF RunnerStart, Goto, EveryStartInv, EveryLaunchInv,
       LaunchStage, InStart
<1>1. /\ logStderr' = [logStderr EXCEPT ![launches] = "run"]
      /\ scanner' = [scanner EXCEPT ![launches] = "run"]
      /\ waiter' = [waiter EXCEPT ![launches] = "new"]
      /\ pipesWaitGroup' = pipesWaitGroup + 2
      /\ clientWaitGroup' = clientWaitGroup + 4
      /\ UNCHANGED <<drain, mode>>
  BY Zenon DEF RunnerStart
<1>2. /\ launches \notin Running(logStderr)
      /\ Running(logStderr') = Running(logStderr) \cup {launches}
  BY <1>0, <1>1, Zenon DEF Running, LaunchOK
<1>3. /\ launches \notin Running(scanner)
      /\ Running(scanner') = Running(scanner) \cup {launches}
  BY <1>0, <1>1, Zenon DEF Running, LaunchOK
<1>4. /\ launches \notin NotDrained
      /\ NotDrained' = NotDrained \cup {launches}
  BY <1>0, <1>1, Zenon DEF NotDrained, LaunchOK, Attaching
<1>5. /\ launches \notin NotWaited
      /\ NotWaited' = NotWaited \cup {launches}
  BY <1>0, <1>1, Zenon DEF NotWaited, LaunchOK, Attaching
<1>6. /\ Running(logStderr) \subseteq Launches
      /\ Running(scanner) \subseteq Launches
      /\ NotDrained \subseteq Launches /\ NotWaited \subseteq Launches
  BY Zenon DEF Running, NotDrained, NotWaited
<1> DEFINE e == Cardinality(Running(logStderr))
           s == Cardinality(Running(scanner))
           d == Cardinality(NotDrained)
           w == Cardinality(NotWaited)
<1>7. pipesWaitGroup = e + s /\ clientWaitGroup = pipesWaitGroup + d + w
  BY Zenon DEF CountInv
<1>8. e' = e + 1 /\ s' = s + 1 /\ d' = d + 1 /\ w' = w + 1
  BY <1>2, <1>3, <1>4, <1>5, <1>6, Counted, Zenon
<1>9. e \in Nat /\ s \in Nat /\ d \in Nat /\ w \in Nat
  BY CountedAll, Zenon
<1>10. CountInv' <=> /\ pipesWaitGroup' = e' + s'
                     /\ clientWaitGroup' = pipesWaitGroup' + d' + w'
  BY Zenon DEF CountInv
<1> HIDE DEF e, s, d, w
<1> QED
  BY <1>1, <1>7, <1>8, <1>9, <1>10, SMT, Z3, SMTT(20)

\* So does reattach, for its exit waiter alone.
LEMMA CountAttached ==
  ASSUME LaunchOK, CountInv, EveryLaunchInv, EveryStartInv,
         NEW k \in Callers, StartReattach(k)
  PROVE  CountInv'
<1>0. Attaching /\ launches = 0 /\ 1 \in Launches /\ 1 > launches
  BY MaxLaunchAssumption, SMT, Z3, SMTT(20) DEF StartReattach, EveryStartInv
<1>1. waiter[1] = "off"
  BY <1>0, Zenon DEF EveryLaunchInv, LaunchStage
<1>2. /\ waiter' = [waiter EXCEPT ![1] = "new"]
      /\ clientWaitGroup' = clientWaitGroup + 1
      /\ UNCHANGED <<logStderr, scanner, drain, mode, pipesWaitGroup>>
  BY Zenon DEF StartReattach
<1>3. /\ Running(logStderr') = Running(logStderr)
      /\ Running(scanner') = Running(scanner)
  BY <1>2, Zenon
<1>4. NotDrained' = NotDrained
  BY <1>0, <1>2, Zenon DEF NotDrained, Attaching
<1>5. 1 \notin NotWaited /\ NotWaited' = NotWaited \cup {1}
  BY <1>0, <1>1, <1>2, Zenon DEF NotWaited, LaunchOK, Attaching
<1>6. NotWaited \subseteq Launches
  BY Zenon DEF NotWaited
<1> DEFINE d == Cardinality(NotDrained)
           w == Cardinality(NotWaited)
<1>7. d' = d /\ w' = w + 1
  BY <1>4, <1>5, <1>6, Counted, Zenon
<1>8. /\ pipesWaitGroup' =
           Cardinality(Running(logStderr')) + Cardinality(Running(scanner'))
      /\ clientWaitGroup = pipesWaitGroup + d + w
  BY <1>2, <1>3, Zenon DEF CountInv
<1>9. d \in Nat /\ w \in Nat /\ pipesWaitGroup \in Nat
  <2>1. pipesWaitGroup =
          Cardinality(Running(logStderr)) + Cardinality(Running(scanner))
    BY Zenon DEF CountInv
  <2> QED
    BY <2>1, CountedAll, SMT, Z3, SMTT(20)
<1>10. CountInv' <=> clientWaitGroup' = pipesWaitGroup + d' + w'
  BY <1>2, <1>8, Zenon DEF CountInv
<1>11. clientWaitGroup' = pipesWaitGroup + d + w + 1
  BY <1>2, <1>8, Zenon
<1> HIDE DEF d, w
<1> QED
  BY <1>7, <1>9, <1>10, <1>11, SMT, Z3, SMTT(20)

\* The drain and the exit waiter call Done on the client's group.
LEMMA GoroutineDone ==
  ASSUME CountInv, NEW r \in Launches,
         UNCHANGED <<pipesWaitGroup, logStderr, scanner>>,
         clientWaitGroup' = clientWaitGroup - 1,
         \/ /\ r \in NotDrained /\ NotDrained' = NotDrained \ {r}
            /\ NotWaited' = NotWaited
         \/ /\ r \in NotWaited /\ NotWaited' = NotWaited \ {r}
            /\ NotDrained' = NotDrained
  PROVE  CountInv'
<1>1. NotDrained \subseteq Launches /\ NotWaited \subseteq Launches
  BY Zenon DEF NotDrained, NotWaited
<1> DEFINE d == Cardinality(NotDrained)
           w == Cardinality(NotWaited)
<1>2. (d' = d - 1 /\ w' = w) \/ (d' = d /\ w' = w - 1)
  BY <1>1, Counted, Zenon
<1>3. /\ pipesWaitGroup' =
           Cardinality(Running(logStderr')) + Cardinality(Running(scanner'))
      /\ clientWaitGroup = pipesWaitGroup + d + w
  BY Zenon DEF CountInv
<1>4. d \in Nat /\ w \in Nat /\ pipesWaitGroup \in Nat
  <2>1. pipesWaitGroup =
          Cardinality(Running(logStderr)) + Cardinality(Running(scanner))
    BY Zenon DEF CountInv
  <2> QED
    BY <2>1, CountedAll, SMT, Z3, SMTT(20)
<1>5. CountInv' <=> clientWaitGroup' = pipesWaitGroup + d' + w'
  BY <1>3, Zenon DEF CountInv
<1>6. clientWaitGroup' = (pipesWaitGroup + d + w) - 1
  BY <1>3, Zenon
<1> HIDE DEF d, w
<1> QED
  BY <1>2, <1>4, <1>5, <1>6, SMT, Z3, SMTT(20)

\* Every goroutine that was counted is counted down once, whichever launch it
\* belongs to and whatever the other launches are doing.
LEMMA CountPreserved ==
  ASSUME TypeOK, CountInv, EveryLaunchInv, EveryStartInv, [Next]_vars
  PROVE  CountInv'
<1>0. LaunchOK
  BY Zenon DEF TypeOK
<1>1. ASSUME UNCHANGED <<clientWaitGroup, pipesWaitGroup, mode, logStderr,
                         scanner, drain, waiter>>
      PROVE  CountInv'
  BY <1>1, CountKept, Zenon DEF Running, NotDrained, NotWaited, Attaching
<1>2. ASSUME NEW k \in Callers, Call(k) PROVE CountInv'
  <2>1. CASE StartReattach(k)
    BY <1>0, <2>1, CountAttached, Zenon
  <2>2. CASE ~StartReattach(k)
    BY <1>1, <1>2, <2>2, Zenon DEF Call, StartAgain, StartLaunch,
         StartRunnerFuncError, StartMkdirError, KillCall, CleanupClients
  <2> QED
    BY <2>1, <2>2, Zenon
<1>3. ASSUME NEW k \in Callers, StartStep(k) PROVE CountInv'
  <2>1. CASE RunnerStart(k)
    BY <1>0, <2>1, CountStarted, Zenon
  <2>2. CASE RunnerStartError(k) \/ GetClient(k)
    BY <1>1, <2>2, Zenon DEF RunnerStartError, GetClient
  <2>3. CASE SelectHandshake(k) \/ SelectBadLine(k) \/ SelectTimeout(k)
    <3>1. /\ pc[k] = "select" /\ drain' = [drain EXCEPT ![launches] = "run"]
          /\ UNCHANGED <<clientWaitGroup, pipesWaitGroup, mode, logStderr,
                         scanner, waiter>>
      BY <2>3, Zenon DEF SelectHandshake, SelectBadLine, SelectTimeout,
           StartFail, Goto
    <3>2. drain[launches] = "off"
      BY <3>1, Zenon DEF EveryStartInv
    <3>3. NotDrained' = NotDrained
      BY <1>0, <3>1, <3>2, Zenon DEF NotDrained, LaunchOK, Attaching
    <3> QED
      BY <3>1, <3>3, CountKept, Zenon DEF Running, NotWaited, Attaching
  <2> QED
    BY <1>3, <2>1, <2>2, <2>3, Zenon DEF StartStep
<1>4. ASSUME NEW k \in Callers, KillStep(k) PROVE CountInv'
  BY <1>0, <1>1, <1>4, KillFrame, Zenon
<1>5. ASSUME NEW r \in Launches, LogStderrDone(r) PROVE CountInv'
  <2>1. r \in Running(logStderr) /\ Running(logStderr') = Running(logStderr) \ {r}
    BY <1>0, <1>5, Zenon DEF LogStderrDone, Running, LaunchOK
  <2> QED
    BY <1>5, <2>1, PipeDone, Zenon DEF LogStderrDone, NotDrained, NotWaited,
         Attaching
<1>6. ASSUME NEW r \in Launches, ScannerDone(r) PROVE CountInv'
  <2>1. r \in Running(scanner) /\ Running(scanner') = Running(scanner) \ {r}
    BY <1>0, <1>6, Zenon DEF ScannerDone, Running, LaunchOK
  <2> QED
    BY <1>6, <2>1, PipeDone, Zenon DEF ScannerDone, NotDrained, NotWaited,
         Attaching
<1>7. ASSUME NEW r \in Launches, DrainDone(r) PROVE CountInv'
  <2>1. waiter[r] # "off" /\ ~Attaching
    BY <1>7, Zenon DEF DrainDone, EveryLaunchInv, LaunchStage
  <2>2. r \in NotDrained /\ NotDrained' = NotDrained \ {r}
    BY <1>0, <1>7, <2>1, Zenon DEF DrainDone, NotDrained, LaunchOK, Attaching
  <2> QED
    BY <1>7, <2>2, GoroutineDone, Zenon DEF DrainDone, NotWaited, Attaching
<1>8. ASSUME NEW r \in Launches, WaiterStep(r) PROVE CountInv'
  <2> USE DEF WaiterGoto
  <2>1. CASE WaiterCount(r)
    <3>1. /\ waiter[r] = "count"
          /\ waiter' = [waiter EXCEPT ![r] = IF Attaching THEN "done"
                                                         ELSE "cancel"]
          /\ clientWaitGroup' = clientWaitGroup - 1
          /\ UNCHANGED <<pipesWaitGroup, mode, logStderr, scanner, drain>>
      BY <2>1, Zenon DEF WaiterCount
    <3>2. r \in NotWaited /\ NotWaited' = NotWaited \ {r}
      BY <1>0, <3>1, Zenon DEF NotWaited, LaunchOK, Attaching
    <3>3. NotDrained' = NotDrained
      BY <1>0, <3>1, Zenon DEF NotDrained, LaunchOK, Attaching
    <3> QED
      BY <3>1, <3>2, <3>3, GoroutineDone, Zenon
  <2>2. CASE ~WaiterCount(r)
    <3>1. UNCHANGED <<clientWaitGroup, pipesWaitGroup, mode, logStderr,
                      scanner, drain>>
      BY <1>8, <2>2, Zenon DEF WaiterStep, WaiterBegin, WaiterPipes,
           WaiterWait, WaiterExited, WaiterCancel
    <3>2. \E to : /\ waiter' = [waiter EXCEPT ![r] = to]
                  /\ to # "off" /\ waiter[r] # "off"
                  /\ \/ /\ waiter[r] \in {"new", "pipes", "wait", "exit"}
                        /\ \/ to \in {"pipes", "wait", "exit", "count"}
                           \/ Attaching /\ to = "cancel"
                     \/ waiter[r] = "cancel" /\ ~Attaching /\ to = "done"
                     \/ waiter[r] = "cancel" /\ Attaching /\ to = "count"
      BY <1>8, <2>2, Zenon DEF WaiterStep, WaiterBegin, WaiterPipes,
           WaiterWait, WaiterExited, WaiterCancel
    <3>3. NotDrained' = NotDrained
      BY <1>0, <3>1, <3>2, Zenon DEF NotDrained, LaunchOK, Attaching
    <3>4. NotWaited' = NotWaited
      BY <1>0, <3>1, <3>2, Zenon DEF NotWaited, LaunchOK, Attaching
    <3> QED
      BY <3>1, <3>3, <3>4, CountKept, Zenon DEF Running
  <2> QED
    BY <2>1, <2>2, Zenon
<1>9. ASSUME NEW r \in Launches, PipeStep(r) PROVE CountInv'
  BY <1>1, <1>5, <1>6, <1>7, <1>9, Zenon DEF PipeStep, LogStderrEOF,
       ScannerEOF, DrainLine
<1>10. ASSUME NEW r \in Launches, PluginStep(r) PROVE CountInv'
  BY <1>1, <1>5, <1>6, <1>10, Zenon DEF PluginStep, LogStderrAbort,
       ScannerAbort, PluginPrint, PluginExit, PluginKilled, PluginFork,
       DescendantExit
<1>11. CASE UNCHANGED vars
  BY <1>1, <1>11, Zenon DEF vars
<1> QED
  BY <1>2, <1>3, <1>4, <1>8, <1>9, <1>10, <1>11, Zenon DEF Next

\* No goroutine and no process appears but by Start and reattach, and a Start
\* that fails signals the process it has made.
LEMMA EveryLaunchPreserved ==
  ASSUME TypeOK, OwnerInv, EveryLaunchInv, EveryStartInv, [Next]_vars
  PROVE  EveryLaunchInv'
<1> SUFFICES ASSUME NEW x \in Launches PROVE LaunchStage(x)'
  BY Zenon DEF EveryLaunchInv
<1>0. LaunchStage(x) /\ LaunchOK
  BY Zenon DEF EveryLaunchInv, TypeOK
<1>n. launches \in Nat /\ x \in Nat /\ 1 \in Launches
  BY MaxLaunchAssumption DEF TypeOK, ClientOK
<1>m. x > launches + 1 => x > launches
  BY <1>n
<1> USE <1>0 DEF LaunchStage, Attaching
<1>1. ASSUME UNCHANGED <<l, address, mode, launches, logStderr, scanner, drain,
                         waiter>>,
             proc'[x] = "none" <=> proc[x] = "none",
             proc'[x] = "running" => proc[x] = "running"
      PROVE  LaunchStage(x)'
  BY <1>1, Zenon
<1>2. ASSUME NEW k \in Callers, Call(k) PROVE LaunchStage(x)'
  <2>1. CASE StartLaunch(k) \/ StartRunnerFuncError(k)
    <3>1. /\ launches' = launches + 1 /\ l = "free" /\ address = "nil"
          /\ UNCHANGED <<address, mode, logStderr, scanner, drain, waiter, proc>>
      BY <2>1, Zenon DEF StartLaunch, StartRunnerFuncError
    <3> QED
      BY <1>m, <3>1, Zenon
  <2>2. CASE StartReattach(k)
    <3>1. /\ launches' = 1 /\ launches = 0 /\ Attaching /\ address' = "set"
          /\ waiter' = [waiter EXCEPT ![1] = "new"]
          /\ UNCHANGED <<mode, logStderr, scanner, drain, proc>>
      BY <2>2, Zenon DEF StartReattach, EveryStartInv
    <3>2. (x > launches' => x # 1 /\ x > launches)
      BY <1>n, <3>1, SMT, Z3, SMTT(20)
    <3> QED
      BY <1>n, <3>1, <3>2, Zenon DEF LaunchOK
  <2>3. CASE ~StartLaunch(k) /\ ~StartRunnerFuncError(k) /\ ~StartReattach(k)
    BY <1>1, <1>2, <2>3, Zenon DEF Call, StartAgain, StartMkdirError, KillCall,
         CleanupClients
  <2> QED
    BY <2>1, <2>2, <2>3, Zenon
<1>3. ASSUME NEW k \in Callers, StartStep(k) PROVE LaunchStage(x)'
  <2>0. CASE GetClient(k)
    BY <1>1, <2>0, Zenon DEF GetClient
  <2>1. CASE RunnerStartError(k)
    <3>1. /\ pc[k] = "launch" /\ l' = "free"
          /\ UNCHANGED <<address, mode, launches, logStderr, scanner, drain,
                         waiter, proc>>
      BY <2>1, Zenon DEF RunnerStartError, Goto
    <3>2. proc[launches] = "none"
      BY <3>1, Zenon DEF EveryStartInv, EveryLaunchInv, InStart
    <3> QED
      BY <3>1, <3>2, Zenon
  <2>2. CASE RunnerStart(k)
    <3>1. /\ pc[k] = "launch"
          /\ proc' = [proc EXCEPT ![launches] = "running"]
          /\ logStderr' = [logStderr EXCEPT ![launches] = "run"]
          /\ scanner' = [scanner EXCEPT ![launches] = "run"]
          /\ waiter' = [waiter EXCEPT ![launches] = "new"]
          /\ UNCHANGED <<l, address, mode, launches, drain>>
      BY <2>2, Zenon DEF RunnerStart, Goto
    <3>2. launches \in Launches /\ l = "held"
      BY <3>1, Zenon DEF EveryStartInv, OwnerInv, InStart
    <3>3. ~(launches > launches)
      BY <1>n, SMT, Z3, SMTT(20)
    <3>4. CASE x = launches
      BY <3>1, <3>2, <3>3, <3>4, Zenon DEF LaunchOK
    <3>5. CASE x # launches
      BY <3>1, <3>2, <3>5, Zenon DEF LaunchOK
    <3> QED
      BY <3>4, <3>5, Zenon
  <2>3. CASE SelectHandshake(k)
    <3>1. /\ pc[k] = "select" /\ address' = "set"
          /\ drain' = [drain EXCEPT ![launches] = "run"]
          /\ UNCHANGED <<mode, launches, logStderr, scanner, waiter, proc>>
      BY <2>3, Zenon DEF SelectHandshake, Goto
    <3>2. ~Attaching /\ waiter[launches] # "off"
      BY <3>1, Zenon DEF EveryStartInv, InStart
    <3> QED
      BY <3>1, <3>2, Zenon DEF LaunchOK
  <2>4. CASE SelectBadLine(k) \/ SelectTimeout(k)
    <3>1. /\ pc[k] = "select" /\ l' = "free"
          /\ drain' = [drain EXCEPT ![launches] = "run"]
          /\ UNCHANGED <<address, mode, launches, logStderr, scanner, waiter>>
          /\ proc' = [proc EXCEPT ![launches] = IF @ = "running" THEN "signalled"
                                                                ELSE @]
      BY <2>4, Zenon DEF SelectBadLine, SelectTimeout, StartFail, RunnerKill,
           Goto
    <3>2. ~Attaching /\ waiter[launches] # "off" /\ launches \in Launches
      BY <3>1, Zenon DEF EveryStartInv, InStart
    <3>3. proc'[launches] # "running"
      BY <3>1, <3>2, Zenon DEF LaunchOK
    <3> QED
      BY <3>1, <3>2, <3>3, Zenon DEF LaunchOK
  <2> QED
    BY <1>3, <2>0, <2>1, <2>2, <2>3, <2>4, Zenon DEF StartStep
<1>4. ASSUME NEW k \in Callers, KillStep(k) PROVE LaunchStage(x)'
  <2>1. \/ proc'[x] = proc[x]
        \/ proc[x] = "running" /\ proc'[x] = "signalled"
    BY <1>4, KillFrame, Zenon
  <2>2. UNCHANGED <<l, address, mode, launches, goVars>>
    BY <1>4, KillFrame, Zenon
  <2> QED
    BY <1>1, <2>1, <2>2, Zenon
<1>5. ASSUME NEW r \in Launches,
             LogStderrDone(r) \/ ScannerDone(r) \/ DrainDone(r)
      PROVE  LaunchStage(x)'
  <2>1. UNCHANGED <<l, address, mode, launches, waiter, proc>>
    BY <1>5, Zenon DEF LogStderrDone, ScannerDone, DrainDone
  <2>2. \/ /\ logStderr[r] = "run" /\ UNCHANGED <<scanner, drain>>
           /\ logStderr' = [logStderr EXCEPT ![r] = "done"]
        \/ /\ scanner[r] = "run" /\ UNCHANGED <<logStderr, drain>>
           /\ scanner' = [scanner EXCEPT ![r] = "done"]
        \/ /\ drain[r] = "run" /\ UNCHANGED <<logStderr, scanner>>
           /\ drain' = [drain EXCEPT ![r] = "done"]
    BY <1>5, Zenon DEF LogStderrDone, ScannerDone, DrainDone
  <2> QED
    BY <2>1, <2>2, Zenon DEF LaunchOK
<1>6. ASSUME NEW r \in Launches, PipeStep(r) PROVE LaunchStage(x)'
  BY <1>1, <1>5, <1>6, Zenon DEF PipeStep, LogStderrEOF, ScannerEOF, DrainLine
<1>7. ASSUME NEW r \in Launches, WaiterStep(r) PROVE LaunchStage(x)'
  <2>1. UNCHANGED <<l, address, mode, launches, logStderr, scanner, drain, proc>>
    BY <1>7, Zenon DEF WaiterStep, WaiterBegin, WaiterPipes, WaiterWait,
         WaiterExited, WaiterCount, WaiterCancel
  <2>2. waiter'[x] = "off" <=> waiter[x] = "off"
    BY <1>7, WaiterMoves, Zenon
  <2> QED
    BY <2>1, <2>2, Zenon
<1>8. ASSUME NEW r \in Launches, PluginStep(r) PROVE LaunchStage(x)'
  <2>1. CASE LogStderrAbort(r) \/ ScannerAbort(r)
    BY <1>5, <2>1, Zenon DEF LogStderrAbort, ScannerAbort
  <2>2. CASE PluginExit(r) \/ PluginKilled(r)
    <3>1. /\ UNCHANGED <<l, address, mode, launches, logStderr, scanner, drain,
                         waiter>>
          /\ proc[r] # "none" /\ proc' = [proc EXCEPT ![r] = "dead"]
      BY <2>2, Zenon DEF PluginExit, PluginKilled
    <3> QED
      BY <1>1, <3>1, Zenon DEF LaunchOK
  <2>3. CASE PluginPrint(r) \/ PluginFork(r) \/ DescendantExit(r)
    BY <1>1, <2>3, Zenon DEF PluginPrint, PluginFork, DescendantExit
  <2> QED
    BY <1>8, <2>1, <2>2, <2>3, Zenon DEF PluginStep
<1>9. CASE UNCHANGED vars
  BY <1>1, <1>9, Zenon DEF vars
<1> QED
  BY <1>2, <1>3, <1>4, <1>6, <1>7, <1>8, <1>9, Zenon DEF Next

\* Nobody but the caller that holds c.l in Start starts the launch it makes.
LEMMA EveryStartPreserved ==
  ASSUME TypeOK, OwnerInv, EveryLaunchInv, EveryStartInv, [Next]_vars
  PROVE  EveryStartInv'
<1>0. LaunchOK /\ CallerOK
  BY Zenon DEF TypeOK
<1>n. launches \in Nat /\ launches <= MaxLaunch
  BY MaxLaunchAssumption DEF TypeOK, ClientOK
<1> USE DEF Attaching, InStart
<1>1. ASSUME UNCHANGED <<address, mode, launches, waiter, drain>>,
             \A j \in Callers : InStart(j)' => InStart(j) /\ pc'[j] = pc[j]
      PROVE  EveryStartInv'
  BY <1>1, Zenon DEF EveryStartInv
<1>2. ASSUME NEW k \in Callers, Call(k) PROVE EveryStartInv'
  <2>1. CASE StartLaunch(k)
    <3>1. /\ l = "free" /\ mode \in {"cmd", "runnerFunc"}
          /\ launches' = launches + 1 /\ pc' = [pc EXCEPT ![k] = "launch"]
          /\ UNCHANGED <<mode, waiter, drain>>
      BY <2>1, Zenon DEF StartLaunch, Goto
    <3>2. launches + 1 \in Launches /\ launches + 1 > launches
      BY <1>n, <2>1, MaxLaunchAssumption, SMT, Z3, SMTT(20) DEF StartLaunch
    <3>3. waiter[launches + 1] = "off"
      BY <3>2, Zenon DEF EveryLaunchInv, LaunchStage
    <3>4. ~Attaching
      BY <3>1, Zenon
    <3>5. \A j \in Callers : pc[j] \notin {"launch", "select"}
      BY <3>1, Zenon DEF OwnerInv
    <3> QED
      BY <1>0, <3>1, <3>2, <3>3, <3>4, <3>5, Zenon DEF EveryStartInv, CallerOK
  <2>2. CASE StartRunnerFuncError(k)
    <3>1. /\ l = "free" /\ mode = "runnerFunc" /\ UNCHANGED <<pc, mode>>
      BY <2>2, Zenon DEF StartRunnerFuncError
    <3>2. ~Attaching
      BY <3>1, Zenon
    <3> QED
      BY <3>1, <3>2, Zenon DEF EveryStartInv, OwnerInv
  <2>3. CASE StartReattach(k)
    <3>1. /\ address' = "set" /\ mode' = mode /\ l = "free"
      BY <2>3, Zenon DEF StartReattach
    <3>2. \A j \in Callers : ~InStart(j)'
      <4>1. \A j \in Callers : InStart(j)' => InStart(j)
        BY <1>0, <1>2, <2>3, CallerMoves, Zenon DEF StartLaunch, StartReattach
      <4> QED
        BY <3>1, <4>1, Zenon DEF OwnerInv
    <3> QED
      BY <3>1, <3>2, Zenon DEF EveryStartInv
  <2>4. CASE ~StartLaunch(k) /\ ~StartRunnerFuncError(k) /\ ~StartReattach(k)
    <3>1. UNCHANGED <<address, mode, launches, waiter, drain>>
      BY <1>2, <2>4, Zenon DEF Call, StartAgain, StartMkdirError, KillCall,
           CleanupClients
    <3> QED
      BY <1>0, <1>1, <1>2, <2>4, <3>1, CallerMoves, Zenon
  <2> QED
    BY <2>1, <2>2, <2>3, <2>4, Zenon
<1>3. ASSUME NEW k \in Callers, StartStep(k) PROVE EveryStartInv'
  <2>1. CASE GetClient(k)
    <3>1. UNCHANGED <<address, mode, launches, waiter, drain>>
      BY <2>1, Zenon DEF GetClient
    <3> QED
      BY <1>0, <1>1, <2>1, <3>1, CallerMoves, Zenon
  <2>2. CASE RunnerStart(k)
    <3>1. /\ pc[k] = "launch" /\ pc' = [pc EXCEPT ![k] = "select"]
          /\ waiter' = [waiter EXCEPT ![launches] = "new"]
          /\ UNCHANGED <<address, mode, launches, drain>>
      BY <2>2, Zenon DEF RunnerStart, Goto
    <3>2. /\ launches \in Launches /\ waiter[launches] = "off" /\ ~Attaching
          /\ \A j \in Callers : j # k => ~InStart(j)
      BY <3>1, Zenon DEF EveryStartInv, OwnerInv
    <3>3. drain[launches] = "off"
      BY <3>2, Zenon DEF EveryLaunchInv, LaunchStage
    <3>4. waiter'[launches] = "new"
      BY <1>0, <3>1, <3>2, Zenon DEF LaunchOK
    <3>5. \A j \in Callers : j # k => pc'[j] = pc[j]
      BY <1>0, <3>1, Zenon DEF CallerOK
    <3> QED
      BY <1>0, <3>1, <3>2, <3>3, <3>4, <3>5, Zenon DEF EveryStartInv, CallerOK
  <2>3. CASE ~GetClient(k) /\ ~RunnerStart(k)
    <3>1. /\ InStart(k) /\ UNCHANGED <<mode, launches>>
          /\ \E to \in {"idle", "client"} : pc' = [pc EXCEPT ![k] = to]
      BY <1>3, <2>3, Zenon DEF StartStep, RunnerStartError, SelectHandshake,
           SelectBadLine, SelectTimeout, StartFail, AfterStart, Goto
    <3>2. \A j \in Callers : ~InStart(j)'
      BY <1>0, <3>1, Zenon DEF CallerOK, OwnerInv
    <3>3. ~Attaching
      BY <3>1, Zenon DEF EveryStartInv
    <3> QED
      BY <3>1, <3>2, <3>3, Zenon DEF EveryStartInv
  <2> QED
    BY <2>1, <2>2, <2>3, Zenon
<1>4. ASSUME NEW k \in Callers, KillStep(k) PROVE EveryStartInv'
  <2>1. UNCHANGED <<address, mode, launches, waiter, drain>>
    BY <1>0, <1>4, KillFrame, Zenon
  <2> QED
    BY <1>0, <1>1, <1>4, <2>1, CallerMoves, Zenon
<1>5. ASSUME NEW r \in Launches, PipeStep(r) \/ WaiterStep(r) \/ PluginStep(r)
      PROVE  EveryStartInv'
  <2>1. UNCHANGED <<address, mode, launches, pc>>
    BY <1>5, LaunchFrame, Zenon
  <2>2. \A x \in Launches : /\ waiter'[x] = "off" <=> waiter[x] = "off"
                            /\ drain'[x] = "off" <=> drain[x] = "off"
    <3>1. CASE PipeStep(r) \/ PluginStep(r)
      <4>1. waiter' = waiter
        BY <3>1, Zenon DEF PipeStep, LogStderrEOF, LogStderrDone, ScannerEOF,
             ScannerDone, DrainLine, DrainDone, PluginStep, PluginPrint,
             PluginExit, PluginKilled, PluginFork, DescendantExit,
             LogStderrAbort, ScannerAbort
      <4>2. \/ drain' = drain
            \/ drain[r] = "run" /\ drain' = [drain EXCEPT ![r] = "done"]
        BY <3>1, Zenon DEF PipeStep, LogStderrEOF, LogStderrDone, ScannerEOF,
             ScannerDone, DrainLine, DrainDone, PluginStep, PluginPrint,
             PluginExit, PluginKilled, PluginFork, DescendantExit,
             LogStderrAbort, ScannerAbort
      <4> QED
        BY <1>0, <4>1, <4>2, Zenon DEF LaunchOK
    <3>2. CASE WaiterStep(r)
      BY <1>0, <3>2, ZenonT(40) DEF WaiterStep, WaiterBegin, WaiterPipes,
           WaiterWait, WaiterExited, WaiterCount, WaiterCancel, WaiterGoto,
           LaunchOK
    <3> QED
      BY <1>5, <3>1, <3>2, Zenon
  <2> QED
    BY <2>1, <2>2, Zenon DEF EveryStartInv
<1>6. CASE UNCHANGED vars
  BY <1>1, <1>6, Zenon DEF vars
<1> QED
  BY <1>2, <1>3, <1>4, <1>5, <1>6, Zenon DEF Next

\* A context is cancelled by an exit waiter that was past the mutex before the
\* Start that created the context took it, or after that Start released it.
LEMMA EveryCtxPreserved ==
  ASSUME TypeOK, OwnerInv, EveryCtxInv, EveryStartInv, [Next]_vars
  PROVE  EveryCtxInv'
<1>0. LaunchOK /\ CallerOK
  BY Zenon DEF TypeOK
<1>n. /\ launches \in Nat /\ doneCtx \in Nat
      /\ \A r \in Launches : r \in Nat /\ waiterCtx[r] \in Nat
  BY MaxLaunchAssumption DEF TypeOK, ClientOK, LaunchOK
<1>c. /\ doneCtx <= launches
      /\ \A r \in Launches : waiterCtx[r] <= doneCtx
      /\ \A r \in Launches : r > doneCtx => ctx[r] = "live"
  BY DEF EveryCtxInv
<1> USE DEF InStart
<1>1. ASSUME UNCHANGED <<doneCtx, launches, waiter, waiterCtx, ctx>>,
             \A j \in Callers : InStart(j)' => InStart(j) /\ pc'[j] = pc[j]
      PROVE  EveryCtxInv'
  BY <1>1, Zenon DEF EveryCtxInv
<1>2. ASSUME NEW k \in Callers, Call(k) PROVE EveryCtxInv'
  <2>1. CASE StartLaunch(k) \/ StartRunnerFuncError(k)
    <3>1. /\ l = "free" /\ launches' = launches + 1
          /\ pc' = pc \/ pc' = [pc EXCEPT ![k] = "launch"]
          /\ UNCHANGED <<doneCtx, waiter, waiterCtx, ctx>>
      BY <2>1, Zenon DEF StartLaunch, StartRunnerFuncError, Goto
    <3>2. doneCtx' <= launches' /\ doneCtx' < launches'
      BY <1>n, <3>1, SMT, Z3, SMTT(20) DEF EveryCtxInv
    <3>3. \A j \in Callers : pc'[j] # "select"
      BY <1>0, <3>1, Zenon DEF OwnerInv, CallerOK
    <3> QED
      BY <3>1, <3>2, <3>3, Zenon DEF EveryCtxInv
  <2>2. CASE StartReattach(k)
    <3>1. /\ l = "free" /\ launches' = 1 /\ doneCtx' = 1
          /\ UNCHANGED <<waiterCtx, ctx>>
      BY <2>2, Zenon DEF StartReattach
    <3>2. launches = 0
      BY <2>2, Zenon DEF StartReattach, EveryStartInv
    <3>3. doneCtx = 0
      BY <1>n, <3>2, SMT, Z3, SMTT(20) DEF EveryCtxInv
    <3>4. \A r \in Launches : /\ waiterCtx'[r] <= doneCtx'
                              /\ r > doneCtx' => ctx'[r] = "live"
      BY <1>n, <1>c, <3>1, <3>3, SMT, Z3, SMTT(20)
    <3>5. \A j \in Callers : ~InStart(j)'
      <4>1. \A j \in Callers : InStart(j)' => InStart(j)
        BY <1>0, <1>2, <2>2, CallerMoves, Zenon DEF StartLaunch, StartReattach,
             Attaching
      <4> QED
        BY <3>1, <4>1, Zenon DEF OwnerInv
    <3>6. doneCtx' <= launches'
      BY <3>1, SMT, Z3, SMTT(20)
    <3> QED
      BY <3>4, <3>5, <3>6, Zenon DEF EveryCtxInv
  <2>3. CASE ~StartLaunch(k) /\ ~StartRunnerFuncError(k) /\ ~StartReattach(k)
    <3>1. UNCHANGED <<doneCtx, launches, waiter, waiterCtx, ctx>>
      BY <1>2, <2>3, Zenon DEF Call, StartAgain, StartMkdirError, KillCall,
           CleanupClients
    <3> QED
      BY <1>0, <1>1, <1>2, <2>3, <3>1, CallerMoves, Zenon
  <2> QED
    BY <2>1, <2>2, <2>3, Zenon
<1>3. ASSUME NEW k \in Callers, StartStep(k) PROVE EveryCtxInv'
  <2>1. CASE GetClient(k)
    <3>1. UNCHANGED <<doneCtx, launches, waiter, waiterCtx, ctx>>
      BY <2>1, Zenon DEF GetClient
    <3> QED
      BY <1>0, <1>1, <2>1, <3>1, CallerMoves, Zenon
  <2>2. CASE RunnerStart(k)
    <3>1. /\ pc[k] = "launch" /\ pc' = [pc EXCEPT ![k] = "select"]
          /\ doneCtx' = launches /\ UNCHANGED <<launches, waiterCtx, ctx>>
      BY <2>2, Zenon DEF RunnerStart, Goto
    <3>2. launches \in Launches /\ doneCtx < launches
      BY <3>1, Zenon DEF EveryStartInv, EveryCtxInv
    <3>3. launches > doneCtx
      BY <1>n, <3>2, Zenon
    <3>4. \A r \in Launches : waiterCtx[r] <= launches /\ waiterCtx[r] # launches
      BY <1>n, <1>c, <3>2, SMT, Z3, SMTT(20)
    <3>5. \A r \in Launches : r > launches => ctx[r] = "live"
      BY <1>n, <1>c, <3>2, SMT, Z3, SMTT(20)
    <3>6. ctx[launches] = "live"
      BY <1>c, <3>2, <3>3, Zenon
    <3>7. \A j \in Callers : pc'[j] # "launch"
      BY <1>0, <3>1, Zenon DEF OwnerInv, CallerOK
    <3>8. doneCtx' <= launches'
      BY <1>n, <3>1, SMT, Z3, SMTT(20)
    <3> QED
      BY <3>1, <3>4, <3>5, <3>6, <3>7, <3>8, Zenon DEF EveryCtxInv
  <2>3. CASE ~GetClient(k) /\ ~RunnerStart(k)
    <3>1. /\ InStart(k) /\ UNCHANGED <<doneCtx, launches, waiter, waiterCtx, ctx>>
          /\ \E to \in {"idle", "client"} : pc' = [pc EXCEPT ![k] = to]
      BY <1>3, <2>3, Zenon DEF StartStep, RunnerStartError, SelectHandshake,
           SelectBadLine, SelectTimeout, StartFail, AfterStart, Goto
    <3>2. \A j \in Callers : ~InStart(j)'
      BY <1>0, <3>1, Zenon DEF CallerOK, OwnerInv
    <3> QED
      BY <1>1, <3>1, <3>2, Zenon
  <2> QED
    BY <2>1, <2>2, <2>3, Zenon
<1>4. ASSUME NEW k \in Callers, KillStep(k) PROVE EveryCtxInv'
  <2>1. UNCHANGED <<doneCtx, launches, waiter, waiterCtx, ctx>>
    BY <1>0, <1>4, KillFrame, Zenon
  <2> QED
    BY <1>0, <1>1, <1>4, <2>1, CallerMoves, Zenon
<1>5. ASSUME NEW r \in Launches, PipeStep(r) \/ PluginStep(r)
      PROVE  EveryCtxInv'
  <2>1. UNCHANGED <<doneCtx, launches, pc>>
    BY <1>5, LaunchFrame, Zenon
  <2>2. UNCHANGED <<waiter, waiterCtx, ctx>>
    BY <1>5, Zenon DEF PipeStep, LogStderrEOF, LogStderrDone, ScannerEOF,
         ScannerDone, DrainLine, DrainDone, PluginStep, PluginPrint,
         PluginExit, PluginKilled, PluginFork, DescendantExit,
         LogStderrAbort, ScannerAbort
  <2> QED
    BY <1>1, <2>1, <2>2, Zenon
<1>6. ASSUME NEW r \in Launches, WaiterStep(r) PROVE EveryCtxInv'
  <2>0. UNCHANGED <<l, doneCtx, launches, pc>>
    BY <1>6, LaunchFrame, Zenon
  <2> USE DEF WaiterGoto
  <2>1. CASE WaiterBegin(r)
    <3>1. /\ waiterCtx' = [waiterCtx EXCEPT ![r] = doneCtx] /\ ctx' = ctx
          /\ \E to \in {"wait", "pipes"} : waiter' = [waiter EXCEPT ![r] = to]
      BY <2>1, Zenon DEF WaiterBegin
    <3>2. doneCtx <= doneCtx
      BY <1>n, SMT, Z3, SMTT(20)
    <3>3. waiterCtx'[r] = doneCtx /\ waiter'[r] \in {"wait", "pipes"}
      BY <1>0, <3>1, Zenon DEF LaunchOK
    <3>4. \A x \in Launches : x # r => /\ waiterCtx'[x] = waiterCtx[x]
                                       /\ waiter'[x] = waiter[x]
      BY <1>0, <3>1, Zenon DEF LaunchOK
    <3>5. \A x \in Launches : waiterCtx'[x] <= doneCtx
      BY <1>c, <3>2, <3>3, <3>4, Zenon
    <3>6. \A j \in Callers : pc[j] = "select" =>
            \A x \in Launches : waiterCtx'[x] = launches =>
              waiter'[x] \in {"pipes", "wait", "exit"}
      BY <3>3, <3>4, Zenon DEF EveryCtxInv
    <3> QED
      BY <1>c, <2>0, <3>1, <3>5, <3>6, Zenon DEF EveryCtxInv
  <2>2. CASE WaiterPipes(r) \/ WaiterWait(r)
    <3>1. /\ UNCHANGED <<waiterCtx, ctx>>
          /\ \E to \in {"wait", "exit"} : waiter' = [waiter EXCEPT ![r] = to]
      BY <2>2, Zenon DEF WaiterPipes, WaiterWait
    <3> QED
      BY <1>0, <2>0, <3>1, ZenonT(40) DEF EveryCtxInv, LaunchOK
  <2>3. CASE WaiterExited(r)
    <3>1. l = "free" /\ UNCHANGED <<waiterCtx, ctx>>
      BY <2>3, Zenon DEF WaiterExited
    <3> QED
      BY <2>0, <3>1, Zenon DEF EveryCtxInv, OwnerInv
  <2>4. CASE WaiterCount(r)
    <3>1. waiter[r] = "count" /\ UNCHANGED <<waiterCtx, ctx>>
      BY <2>4, Zenon DEF WaiterCount
    <3>2. \A x \in Launches : x # r => waiter'[x] = waiter[x]
      BY <1>0, <2>4, Zenon DEF WaiterCount, LaunchOK
    <3> QED
      BY <2>0, <3>1, <3>2, Zenon DEF EveryCtxInv
  <2>5. CASE WaiterCancel(r)
    <3>1. /\ waiter[r] = "cancel"
          /\ ctx' = [ctx EXCEPT ![waiterCtx[r]] = "cancelled"]
          /\ waiterCtx' = [waiterCtx EXCEPT ![r] = 0]
      BY <2>5, Zenon DEF WaiterCancel
    <3>2. \A x \in Launches : x # waiterCtx[r] => ctx'[x] = ctx[x]
      BY <1>0, <3>1, Zenon DEF LaunchOK
    <3>3. \A x \in Launches : x # r => /\ waiterCtx'[x] = waiterCtx[x]
                                       /\ waiter'[x] = waiter[x]
      BY <1>0, <2>5, <3>1, Zenon DEF WaiterCancel, LaunchOK
    <3>4. waiterCtx'[r] = 0 /\ 0 <= doneCtx
      BY <1>0, <1>n, <3>1, SMT, Z3, SMTT(20) DEF LaunchOK
    <3>5. \A x \in Launches : x > doneCtx => x # waiterCtx[r]
      BY <1>n, <1>c, SMT, Z3, SMTT(20)
    <3>6. \A j \in Callers : pc[j] = "select" =>
            launches \in Launches /\ launches # waiterCtx[r] /\ launches # 0
      <4>1. \A j \in Callers : pc[j] = "select" => launches # waiterCtx[r]
        BY <3>1, Zenon DEF EveryCtxInv
      <4>2. \A j \in Callers : pc[j] = "select" => launches \in Launches
        BY Zenon DEF EveryStartInv
      <4>3. 0 \notin Launches
        BY MaxLaunchAssumption, SMT, Z3, SMTT(20)
      <4> QED
        BY <4>1, <4>2, <4>3, Zenon
    <3>7. \A x \in Launches : /\ waiterCtx'[x] <= doneCtx
                              /\ x > doneCtx => ctx'[x] = "live"
      BY <1>c, <3>2, <3>3, <3>4, <3>5, Zenon
    <3>8. \A j \in Callers : pc[j] = "select" =>
            /\ ctx'[launches] = "live"
            /\ \A x \in Launches : waiterCtx'[x] = launches =>
                 waiter'[x] \in {"pipes", "wait", "exit"}
      BY <3>2, <3>3, <3>4, <3>6, Zenon DEF EveryCtxInv
    <3> QED
      BY <2>0, <3>7, <3>8, Zenon DEF EveryCtxInv
  <2> QED
    BY <1>6, <2>1, <2>2, <2>3, <2>4, <2>5, Zenon DEF WaiterStep
<1>7. CASE UNCHANGED vars
  BY <1>1, <1>7, Zenon DEF vars
<1> QED
  BY <1>2, <1>3, <1>4, <1>5, <1>6, <1>7, Zenon DEF Next

\* In every configuration, whatever the callers do: one caller at a time holds
\* c.l and runs kill(), the wait groups count the goroutines of all launches,
\* and what Start relies on while it holds the mutex is true.
THEOREM AnyLaunch == Spec => []AnyLaunchInv
<1>1. Init => AnyLaunchInv
  <2> SUFFICES ASSUME Init PROVE AnyLaunchInv
    BY Zenon
  <2>1. OwnerInv /\ EveryStartInv
    BY Zenon DEF Init, OwnerInv, EveryStartInv, InStart, InKill
  <2>2. EveryLaunchInv
    BY Zenon DEF Init, EveryLaunchInv, LaunchStage, Attaching
  <2>3. EveryCtxInv
    <3>1. 0 <= 0
      OBVIOUS
    <3> QED
      BY <3>1, Zenon DEF Init, EveryCtxInv
  <2>4. CountInv
    <3>1. /\ Running(logStderr) = {} /\ Running(scanner) = {}
          /\ NotDrained = {} /\ NotWaited = {}
      BY Zenon DEF Init, Running, NotDrained, NotWaited
    <3>2. Cardinality({}) = 0
      BY FS_EmptySet, Zenon
    <3>3. clientWaitGroup = 0 /\ pipesWaitGroup = 0
      BY Zenon DEF Init
    <3> QED
      BY <3>1, <3>2, <3>3, SMT, Z3, SMTT(20) DEF CountInv
  <2> QED
    BY <2>1, <2>2, <2>3, <2>4, Zenon DEF AnyLaunchInv
<1>2. TypeOK /\ AnyLaunchInv /\ [Next]_vars => AnyLaunchInv'
  BY OwnerPreserved, CountPreserved, EveryLaunchPreserved, EveryStartPreserved,
     EveryCtxPreserved, Zenon DEF AnyLaunchInv
<1> QED
  BY <1>1, <1>2, TypeCorrect, PTL DEF Spec

\* The wait groups never go below zero, on whichever path the goroutines of
\* however many launches end.
THEOREM NoWaitGroupPanic == Spec => []NoNegativeWaitGroup
<1>1. AnyLaunchInv => NoNegativeWaitGroup
  <2> SUFFICES ASSUME CountInv PROVE NoNegativeWaitGroup
    BY Zenon DEF AnyLaunchInv
  <2> DEFINE e == Cardinality(Running(logStderr))
             s == Cardinality(Running(scanner))
             d == Cardinality(NotDrained)
             w == Cardinality(NotWaited)
  <2>1. pipesWaitGroup = e + s /\ clientWaitGroup = pipesWaitGroup + d + w
    BY Zenon DEF CountInv
  <2>2. e \in Nat /\ s \in Nat /\ d \in Nat /\ w \in Nat
    BY CountedAll, Zenon
  <2> HIDE DEF e, s, d, w
  <2> QED
    BY <2>1, <2>2, SMT, Z3, SMTT(20) DEF NoNegativeWaitGroup
<1> QED
  BY <1>1, AnyLaunch, PTL

\* A Start that fails leaves no process that nobody has signalled, also when it
\* is one of many that RunnerFunc made a runner for.
THEOREM NoProcessLeftByStart == Spec => []FailedStartKillsProcess
<1>1. AnyLaunchInv => FailedStartKillsProcess
  BY Zenon DEF AnyLaunchInv, EveryLaunchInv, LaunchStage,
               FailedStartKillsProcess
<1> QED
  BY <1>1, AnyLaunch, PTL

\* A Start that waits for the handshake never finds its doneCtx cancelled, not
\* even by the exit waiter of an earlier launch that has taken its ctxCancel:
\* no exit waiter gets past the mutex.
THEOREM DoneCtxLive == Spec => []StartNeverSeesDoneCtx
<1>1. AnyLaunchInv => StartNeverSeesDoneCtx
  BY Zenon DEF AnyLaunchInv, EveryCtxInv, StartNeverSeesDoneCtx
<1> QED
  BY <1>1, AnyLaunch, PTL

-----------------------------------------------------------------------------
(* A client that launches or attaches once.                                *)

USE DEF Attaching


-----------------------------------------------------------------------------
(* The mutex and Start.                                                    *)

\* With Cmd or Reattach, a call that neither launches nor attaches only moves
\* the caller's place.
LEMMA CallFrame ==
  ASSUME mode # "runnerFunc", NEW k \in Callers, Call(k),
         ~StartLaunch(k), ~StartReattach(k)
  PROVE  UNCHANGED <<structVars, globalVars, op, kill, launches, procVars,
                     goVars>>
BY Zenon DEF Call, StartAgain, StartRunnerFuncError, StartMkdirError, KillCall,
       CleanupClients

\* No second launch comes to be.
LEMMA SolePreserved ==
  ASSUME mode # "runnerFunc", TypeOK, EveryStartInv, SoleInv, [Next]_vars
  PROVE  SoleInv'
<1> USE MaxLaunchAssumption DEF TypeOK, LaunchOK, SoleInv
<1>1. ASSUME NEW k \in Callers, Call(k) PROVE SoleInv'
  <2>1. CASE StartLaunch(k)
    BY <2>1, SMT, Z3, SMTT(20) DEF StartLaunch
  <2>2. CASE StartReattach(k)
    BY <2>2, SMT, Z3, SMTT(20) DEF StartReattach, Attaching
  <2>3. CASE ~StartLaunch(k) /\ ~StartReattach(k)
    BY <1>1, <2>3, CallFrame, Zenon
  <2> QED
    BY <2>1, <2>2, <2>3, ZenonT(40)
<1>2. ASSUME NEW k \in Callers, StartStep(k) PROVE SoleInv'
  <2>1. CASE GetClient(k) \/ RunnerStartError(k)
    BY <2>1, ZenonT(40) DEF GetClient, RunnerStartError
  <2>2. CASE ~GetClient(k) /\ ~RunnerStartError(k)
    <3>1. InStart(k) /\ UNCHANGED <<launches, runner>>
      BY <1>2, <2>2, Zenon DEF StartStep, RunnerStart, SelectHandshake,
           SelectBadLine, SelectTimeout, StartFail, Goto, InStart
    <3>2. launches = 1
      <4>1. launches \in Launches
        BY <3>1, Zenon DEF EveryStartInv
      <4> QED
        BY <4>1, SMT, Z3, SMTT(20)
    <3>3. CASE RunnerStart(k)
      BY <3>1, <3>2, <3>3, ZenonT(40) DEF RunnerStart
    <3>4. CASE ~RunnerStart(k)
      <4>1. /\ drain' = [drain EXCEPT ![1] = "run"]
            /\ UNCHANGED <<logStderr, scanner, waiter>>
        BY <1>2, <2>2, <3>2, <3>4, Zenon DEF StartStep, SelectHandshake,
             SelectBadLine, SelectTimeout, StartFail
      <4>2. \/ proc' = proc
            \/ proc' = [proc EXCEPT ![1] = IF @ = "running" THEN "signalled"
                                                           ELSE @]
        BY <1>2, <2>2, <3>2, <3>4, Zenon DEF StartStep, SelectHandshake,
             SelectBadLine, SelectTimeout, StartFail, RunnerKill
      <4> QED
        BY <3>1, <3>2, <4>1, <4>2, ZenonT(40)
    <3> QED
      BY <3>3, <3>4, Zenon
  <2> QED
    BY <2>1, <2>2, Zenon
<1>3. ASSUME NEW k \in Callers, KillStep(k) PROVE SoleInv'
  <2>1. UNCHANGED <<launches, goVars>> /\ runner' \in {runner, 0}
    BY <1>3, KillFrame, Zenon
  <2>2. \A r \in Launches : proc[r] = "none" => proc'[r] = "none"
    BY <1>3, KillFrame, Zenon
  <2> QED
    BY <2>1, <2>2, Zenon
<1>4. ASSUME NEW r \in Launches, PipeStep(r) PROVE SoleInv'
  BY <1>4, SMT, Z3, SMTT(20)
  DEF PipeStep, LogStderrEOF, LogStderrDone, ScannerEOF, ScannerDone,
      DrainLine, DrainDone
<1>5. ASSUME NEW r \in Launches, WaiterStep(r) PROVE SoleInv'
  BY <1>5, SMT, Z3, SMTT(20)
  DEF WaiterStep, WaiterBegin, WaiterPipes, WaiterWait, WaiterExited,
      WaiterCount, WaiterCancel, WaiterGoto
<1>6. ASSUME NEW r \in Launches, PluginStep(r) PROVE SoleInv'
  BY <1>6, SMT, Z3, SMTT(20) DEF PluginStep, PluginPrint, PluginExit, PluginKilled,
       PluginFork, DescendantExit, LogStderrAbort, LogStderrDone,
       ScannerAbort, ScannerDone
<1>7. CASE UNCHANGED vars
  BY <1>7, Zenon DEF vars
<1> QED
  BY <1>1, <1>2, <1>3, <1>4, <1>5, <1>6, <1>7, ZenonT(40) DEF Next

\* What exists before, during and after launch 1 stays consistent.
LEMMA LaunchPreserved ==
  ASSUME mode # "runnerFunc", TypeOK, OwnerInv, SoleInv, LaunchInv, StartInv,
         KillInv, [Next]_vars
  PROVE  LaunchInv'
<1>z. 1 \in Launches
  BY MaxLaunchAssumption, SMT, Z3, SMTT(20)
<1> USE MaxLaunchAssumption, ModeAssumption
    DEF TypeOK, ClientOK, LaunchOK, LaunchInv, SoleInv, Attaching, Modes
<1>1. ASSUME NEW k \in Callers, Call(k) PROVE LaunchInv'
  <2>1. CASE StartLaunch(k)
    BY <2>1, SMT, Z3, SMTT(20) DEF StartLaunch
  <2>2. CASE StartReattach(k)
    BY <2>2, SMT, Z3, SMTT(20) DEF StartReattach
  <2>3. CASE ~StartLaunch(k) /\ ~StartReattach(k)
    BY <1>1, <2>3, CallFrame, ZenonT(40)
  <2> QED
    BY <2>1, <2>2, <2>3, ZenonT(40)
<1>2. ASSUME NEW k \in Callers, StartStep(k) PROVE LaunchInv'
  <2> USE DEF OwnerInv, InStart, StartInv, Goto
  <2>1. CASE RunnerStartError(k)
    BY <2>1, ZenonT(40) DEF RunnerStartError
  <2>2. CASE RunnerStart(k)
    BY <2>2, SMT, Z3, SMTT(20) DEF RunnerStart
  <2>3. CASE SelectHandshake(k)
    BY <2>3, SMT, Z3, SMTT(20) DEF SelectHandshake
  <2>4. CASE SelectBadLine(k) \/ SelectTimeout(k)
    <3>1. StartFail(k)
      BY <2>4, Zenon DEF SelectBadLine, SelectTimeout
    <3>2. launches = 1 /\ waiter[1] # "off"
      BY <3>1, Zenon DEF StartFail
    <3>3. proc'[1] # "none"
      BY <3>1, <3>2, SMT, Z3, SMTT(20) DEF StartFail, RunnerKill
    <3>4. drain'[1] = "run" /\ l' = "free"
      BY <3>1, <3>2, SMT, Z3, SMTT(20) DEF StartFail
    <3>5. UNCHANGED <<address, runner, doneCtx, killOnce, mode, launches,
                      logStderr, scanner, waiter>>
      BY <3>1, ZenonT(40) DEF StartFail
    <3>6. ~Attaching
      BY <3>1, SMT, Z3, SMTT(20) DEF StartFail
    <3> QED
      BY <3>2, <3>3, <3>4, <3>5, <3>6, ZenonT(40)
  <2>5. CASE GetClient(k)
    BY <2>5, Zenon DEF GetClient
  <2> QED
    BY <1>2, <2>1, <2>2, <2>3, <2>4, <2>5, Zenon DEF StartStep
<1>3. ASSUME NEW k \in Callers, KillStep(k) PROVE LaunchInv'
  <2>1. launches = 1 => LaunchInv'
    <3>1. CASE KillOnce(k) \/ KillNothing(k) \/ KillUnmanage(k)
      BY <3>1, SMT, Z3, SMTT(20)
      DEF KillOnce, KillNothing, KillUnmanage, KillInv, KillStage, InKill, Goto
    <3>2. CASE ~(KillOnce(k) \/ KillNothing(k) \/ KillUnmanage(k))
      <4>1. UNCHANGED killOnce
        BY <1>3, <3>2, Zenon DEF KillStep, KillGate, KillSnapshot, KillClose,
                          KillGrace, KillForce, KillMark, KillWait, KillReset
      <4> QED
        BY <1>3, <4>1, KillFrame, SMT, Z3, SMTT(20)
    <3> QED
      BY <3>1, <3>2, ZenonT(40)
  <2>2. launches = 0 => KillGate(k)
    <3>1. KillGate(k) \/ pc[k] = "once" \/ InKill(k)
      BY <1>3, ZenonT(40) DEF KillStep, KillOnce, KillNothing, KillSnapshot,
           KillClose, KillGrace, KillForce, KillMark, KillWait, KillReset,
           KillUnmanage, InKill, Goto
    <3> QED
      BY <3>1, SMT, Z3, SMTT(20) DEF KillInv, KillStage
  <2> QED
    BY <2>1, <2>2, Zenon DEF KillGate
<1>4. ASSUME NEW r \in Launches, PipeStep(r) PROVE LaunchInv'
  <2>1. CASE LogStderrEOF(r)
    BY <2>1, SMT, Z3, SMTT(20) DEF LogStderrEOF, LogStderrDone
  <2>2. CASE ScannerEOF(r)
    BY <2>2, SMT, Z3, SMTT(20) DEF ScannerEOF, ScannerDone
  <2>3. CASE DrainLine(r)
    BY <2>3, SMT, Z3, SMTT(20) DEF DrainLine
  <2>4. CASE DrainDone(r)
    BY <2>4, SMT, Z3, SMTT(20) DEF DrainDone
  <2> QED
    BY <1>4, <2>1, <2>2, <2>3, <2>4, Zenon DEF PipeStep
<1>5. ASSUME NEW r \in Launches, WaiterStep(r) PROVE LaunchInv'
  <2>1. r = 1
    BY <1>5, ZenonT(40) DEF WaiterStep, WaiterBegin, WaiterPipes, WaiterWait,
         WaiterExited, WaiterCount, WaiterCancel, WaiterGoto
  <2>2. waiter[1] # "off" /\ waiter'[1] # "off"
    <3>1. waiter'[1] = "off" <=> waiter[1] = "off"
      BY <1>z, <1>5, WaiterMoves, Zenon
    <3>2. waiter[1] # "off"
      BY <1>5, <2>1, WaiterMoves, ZenonT(40)
    <3> QED
      BY <3>1, <3>2, Zenon
  <2>3. UNCHANGED <<l, address, runner, doneCtx, killOnce, mode, launches,
                    procVars, logStderr, scanner, drain>>
    BY <1>5, Zenon DEF WaiterStep, WaiterBegin, WaiterPipes, WaiterWait,
         WaiterExited, WaiterCount, WaiterCancel
  <2> QED
    BY <2>2, <2>3, Zenon
<1>6. ASSUME NEW r \in Launches, PluginStep(r) PROVE LaunchInv'
  <2>1. CASE LogStderrAbort(r) \/ ScannerAbort(r)
    BY <2>1, Zenon DEF LogStderrAbort, LogStderrDone, ScannerAbort, ScannerDone
  <2>2. CASE PluginExit(r) \/ PluginKilled(r)
    BY <2>2, SMT, Z3, SMTT(20) DEF PluginExit, PluginKilled
  <2>3. CASE PluginPrint(r)
    BY <2>3, SMT, Z3, SMTT(20) DEF PluginPrint
  <2>4. CASE PluginFork(r) \/ DescendantExit(r)
    BY <2>4, SMT, Z3, SMTT(20) DEF PluginFork, DescendantExit
  <2> QED
    BY <1>6, <2>1, <2>2, <2>3, <2>4, Zenon DEF PluginStep
<1>7. CASE UNCHANGED vars
  BY <1>7, Zenon DEF vars
<1> QED
  BY <1>1, <1>2, <1>3, <1>4, <1>5, <1>6, <1>7, Zenon DEF Next

\* The exit waiter cannot get past the mutex that Start holds.
LEMMA StartPreserved ==
  ASSUME mode # "runnerFunc", TypeOK, OwnerInv, SoleInv, LaunchInv, StartInv,
         [Next]_vars
  PROVE  StartInv'
<1>z. 1 \in Launches
  BY MaxLaunchAssumption
<1>w. \A r \in Launches : WaiterStep(r) => \E to \in WaiterPC :
        /\ waiter' = [waiter EXCEPT ![r] = to]
        /\ waiter[r] \in {"new", "pipes", "wait"} =>
             to \in {"pipes", "wait", "exit"}
        /\ waiter[r] = "exit" => l = "free"
  BY WaiterMoves, Zenon DEF TypeOK
<1> USE MaxLaunchAssumption DEF TypeOK, CallerOK, LaunchOK, StartInv, Goto
<1>1. ASSUME NEW k \in Callers, Call(k) PROVE StartInv'
  <2>1. CASE StartLaunch(k)
    <3>1. /\ l = "free" /\ mode = "cmd" /\ launches = 0
          /\ pc' = [pc EXCEPT ![k] = "launch"] /\ UNCHANGED <<waiter, drain>>
      BY <2>1, Zenon DEF StartLaunch
    <3>2. waiter[1] = "off" /\ \A j \in Callers : ~InStart(j)
      BY <3>1, Zenon DEF LaunchInv, OwnerInv
    <3> QED
      BY <3>1, <3>2, ZenonT(40) DEF InStart
  <2>2. CASE ~StartLaunch(k)
    <3>1. \A j \in Callers : InStart(j)' => InStart(j) /\ pc'[j] = pc[j]
      BY <1>1, <2>2, CallerMoves, Zenon
    <3>2. CASE StartReattach(k)
      <4>1. \A j \in Callers : ~InStart(j)
        BY <3>2, Zenon DEF StartReattach, OwnerInv
      <4> QED
        BY <3>1, <4>1, Zenon DEF InStart
    <3>3. CASE ~StartReattach(k)
      <4>1. UNCHANGED <<waiter, drain>>
        BY <1>1, <2>2, <3>3, CallFrame, Zenon
      <4> QED
        BY <3>1, <4>1, Zenon DEF InStart
    <3> QED
      BY <3>2, <3>3, Zenon
  <2> QED
    BY <2>1, <2>2, Zenon
<1>2. ASSUME NEW k \in Callers, StartStep(k) PROVE StartInv'
  <2>1. CASE GetClient(k)
    BY <2>1, Zenon DEF GetClient
  <2>2. CASE ~GetClient(k)
    <3>1. InStart(k) /\ launches = 1
      BY <1>2, <2>2, Zenon DEF StartStep, RunnerStartError, RunnerStart,
           SelectHandshake, SelectBadLine, SelectTimeout, StartFail, InStart,
           OwnerInv, LaunchInv
    <3>2. \A j \in Callers : j # k => ~InStart(j)
      BY <3>1, Zenon DEF OwnerInv
    <3>3. CASE RunnerStart(k)
      BY <3>1, <3>2, <3>3, SMT, Z3, SMTT(20)
      DEF RunnerStart, InStart, LaunchInv
    <3>4. CASE RunnerStartError(k)
      BY <3>2, <3>4, SMT, Z3, SMTT(20) DEF RunnerStartError, InStart, AfterStart
    <3>5. CASE SelectHandshake(k)
      BY <3>2, <3>5, SMT, Z3, SMTT(20) DEF SelectHandshake, InStart, AfterStart
    <3>6. CASE SelectBadLine(k) \/ SelectTimeout(k)
      <4>1. StartFail(k)
        BY <3>6, Zenon DEF SelectBadLine, SelectTimeout
      <4> QED
        BY <3>2, <4>1, SMT, Z3, SMTT(20) DEF StartFail, InStart, AfterStart
    <3> QED
      BY <1>2, <2>2, <3>3, <3>4, <3>5, <3>6, Zenon DEF StartStep
  <2> QED
    BY <2>1, <2>2, Zenon
<1>3. ASSUME NEW k \in Callers, KillStep(k) PROVE StartInv'
  <2>1. \E to \in CallerPC \ {"launch", "select"} : pc' = [pc EXCEPT ![k] = to]
    BY <1>3, ZenonT(40) DEF KillStep, KillGate, KillOnce, KillNothing, KillSnapshot,
         KillClose, KillGrace, KillForce, KillMark, KillWait, KillReset,
         KillUnmanage, CallerPC
  <2> QED
    BY <1>3, <2>1, KillFrame, SMT, Z3, SMTT(20)
<1>4. ASSUME NEW r \in Launches, PipeStep(r) PROVE StartInv'
  BY <1>4, SMT, Z3, SMTT(20) DEF PipeStep, LogStderrEOF, LogStderrDone, ScannerEOF,
       ScannerDone, DrainLine, DrainDone
<1>5. ASSUME NEW r \in Launches, WaiterStep(r) PROVE StartInv'
  <2>1. UNCHANGED <<pc, drain>>
    BY <1>5, Zenon DEF WaiterStep, WaiterBegin, WaiterPipes, WaiterWait,
         WaiterExited, WaiterCount, WaiterCancel
  <2>2. waiter[1] = "off" => waiter'[1] = "off"
    BY <1>z, <1>5, WaiterMoves, Zenon
  <2>3. ASSUME NEW k \in Callers, pc[k] = "select"
        PROVE  waiter'[1] \in {"new", "pipes", "wait", "exit"}
    <3>1. l = "held" /\ waiter[1] \in {"new", "pipes", "wait", "exit"}
      BY <2>3, Zenon DEF OwnerInv, InStart
    <3>2. PICK to \in WaiterPC :
            /\ waiter' = [waiter EXCEPT ![r] = to]
            /\ waiter[r] \in {"new", "pipes", "wait"} =>
                 to \in {"pipes", "wait", "exit"}
            /\ waiter[r] = "exit" => l = "free"
      BY <1>5, <1>w, Zenon
    <3>3. CASE r = 1
      BY <1>z, <3>1, <3>2, <3>3, ZenonT(40)
    <3>4. CASE r # 1
      BY <1>z, <3>1, <3>2, <3>4, ZenonT(40)
    <3> QED
      BY <3>3, <3>4, Zenon
  <2> QED
    BY <2>1, <2>2, <2>3, Zenon
<1>6. ASSUME NEW r \in Launches, PluginStep(r) PROVE StartInv'
  BY <1>6, Zenon DEF PluginStep, PluginPrint, PluginExit, PluginKilled,
       PluginFork, DescendantExit, LogStderrAbort, LogStderrDone, ScannerAbort,
       ScannerDone
<1>7. CASE UNCHANGED vars
  BY <1>7, Zenon DEF vars
<1> QED
  BY <1>1, <1>2, <1>3, <1>4, <1>5, <1>6, <1>7, Zenon DEF Next

\* Nothing that happens to a launch after it has ended brings it back.
LEMMA QuietIsStable ==
  ASSUME LaunchOK, NEW r \in Launches,
         PipeStep(r) \/ WaiterStep(r) \/ PluginStep(r)
  PROVE  /\ Quiet => Quiet'
         /\ proc[1] # "running" => proc'[1] # "running"
         /\ UNCHANGED <<l, address, runner, killOnce, mode, pc, kill, launches>>
<1>1. 1 \in Launches
  BY MaxLaunchAssumption, SMT, Z3, SMTT(20)
<1>2. /\ DOMAIN proc = Launches /\ DOMAIN waiter = Launches
      /\ DOMAIN logStderr = Launches /\ DOMAIN scanner = Launches
      /\ DOMAIN drain = Launches
  BY Zenon DEF LaunchOK
<1>3. CASE PipeStep(r)
  <2>1. UNCHANGED <<l, address, runner, killOnce, mode, pc, kill, launches, proc,
                    waiter>>
    BY <1>3, Zenon
    DEF PipeStep, LogStderrEOF, LogStderrDone, ScannerEOF, ScannerDone,
        DrainLine, DrainDone
  <2>2. /\ logStderr' \in {logStderr, [logStderr EXCEPT ![r] = "done"]}
        /\ scanner' \in {scanner, [scanner EXCEPT ![r] = "done"]}
        /\ drain' \in {drain, [drain EXCEPT ![r] = "done"]}
    BY <1>3, Zenon
    DEF PipeStep, LogStderrEOF, LogStderrDone, ScannerEOF, ScannerDone,
        DrainLine, DrainDone
  <2>3. /\ logStderr[1] # "run" => logStderr'[1] # "run"
        /\ scanner[1] # "run" => scanner'[1] # "run"
        /\ drain[1] # "run" => drain'[1] # "run"
    BY <1>1, <1>2, <2>2, Zenon
  <2>. QED
    BY <2>1, <2>3, Zenon DEF Quiet, Attaching
<1>4. CASE WaiterStep(r)
  <2>1. UNCHANGED <<l, address, runner, killOnce, mode, pc, kill, launches, proc,
                    logStderr, scanner, drain>>
    BY <1>4, ZenonT(40)
    DEF WaiterStep, WaiterBegin, WaiterPipes, WaiterWait, WaiterExited,
        WaiterCount, WaiterCancel
  <2>2. PICK to :
          /\ waiter[r] \notin {"off", "done"}
          /\ waiter[r] = "cancel" /\ ~Attaching => to = "done"
          /\ waiter' = [waiter EXCEPT ![r] = to]
    <3>1. PICK from \in {"new", "pipes", "wait", "exit", "count", "cancel"},
               to \in {"pipes", "wait", "exit", "count", "cancel", "done"} :
            /\ WaiterGoto(r, from, to)
            /\ from = "cancel" /\ ~Attaching => to = "done"
      <4>1. CASE WaiterBegin(r) \/ WaiterPipes(r) \/ WaiterWait(r)
        BY <4>1, ZenonT(40) DEF WaiterBegin, WaiterPipes, WaiterWait
      <4>2. CASE WaiterExited(r) \/ WaiterCount(r)
        BY <4>2, ZenonT(40) DEF WaiterExited, WaiterCount
      <4>3. CASE WaiterCancel(r)
        BY <4>3, ZenonT(40) DEF WaiterCancel
      <4> QED
        BY <1>4, <4>1, <4>2, <4>3, Zenon DEF WaiterStep
    <3>2. waiter[r] = from /\ waiter' = [waiter EXCEPT ![r] = to]
      BY <3>1, Zenon DEF WaiterGoto
    <3> QED
      BY <3>1, <3>2, ZenonT(40)
  <2>3. waiter'[1] = IF r = 1 THEN to ELSE waiter[1]
    BY <1>1, <1>2, <2>2, Zenon
  <2>. QED
    BY <2>1, <2>2, <2>3, SMT, Z3, SMTT(20) DEF Quiet, Attaching
<1>5. CASE PluginStep(r)
  <2>1. UNCHANGED <<l, address, runner, killOnce, mode, pc, kill, launches,
                    drain, waiter>>
    BY <1>5, Zenon
    DEF PluginStep, PluginPrint, PluginExit, PluginKilled, PluginFork,
        DescendantExit, LogStderrAbort, LogStderrDone, ScannerAbort, ScannerDone
  <2>2. /\ logStderr' \in {logStderr, [logStderr EXCEPT ![r] = "done"]}
        /\ scanner' \in {scanner, [scanner EXCEPT ![r] = "done"]}
        /\ proc' \in {proc, [proc EXCEPT ![r] = "dead"]}
    BY <1>5, Zenon
    DEF PluginStep, PluginPrint, PluginExit, PluginKilled, PluginFork,
        DescendantExit, LogStderrAbort, LogStderrDone, ScannerAbort, ScannerDone
  <2>3. /\ logStderr[1] # "run" => logStderr'[1] # "run"
        /\ scanner[1] # "run" => scanner'[1] # "run"
        /\ proc'[1] \in {proc[1], "dead"}
    BY <1>1, <1>2, <2>2, ZenonT(40)
  <2>. QED
    BY <2>1, <2>3, SMT, Z3, SMTT(20) DEF Quiet, Attaching
<1> QED
  BY <1>3, <1>4, <1>5, Zenon

\* What the exit waiter's progress tells about the process stays true.
LEMMA WaiterPreserved ==
  ASSUME mode # "runnerFunc", TypeOK, OwnerInv, SoleInv, LaunchInv, StartInv,
         WaiterInv, [Next]_vars
  PROVE  WaiterInv'
<1>0. 1 \in Launches
  BY MaxLaunchAssumption, SMT, Z3, SMTT(20)
<1>d. /\ DOMAIN proc = Launches /\ DOMAIN waiter = Launches
      /\ DOMAIN waiterCtx = Launches /\ DOMAIN ctx = Launches
  BY Zenon DEF TypeOK, LaunchOK
<1>f. ASSUME UNCHANGED <<mode, exited>>, waiter'[1] = waiter[1],
             waiterCtx'[1] = waiterCtx[1], ctx'[1] = ctx[1],
             proc[1] = "dead" => proc'[1] = "dead"
      PROVE  WaiterInv'
  BY <1>f, Zenon DEF WaiterInv, Attaching
<1>n. ASSUME UNCHANGED <<mode, exited, ctx>>, waiter[1] = "off",
             waiter'[1] = "new"
      PROVE  WaiterInv'
  <2>1. exited = FALSE /\ ctx[1] # "cancelled"
    BY <1>n, Zenon DEF WaiterInv, TypeOK, ClientOK
  <2>2. exited' = FALSE /\ ctx'[1] # "cancelled"
    BY <1>n, <2>1, Zenon
  <2>. QED
    BY <1>n, <2>2, Zenon DEF WaiterInv
<1>1. ASSUME NEW k \in Callers, Call(k) PROVE WaiterInv'
  <2>1. CASE StartReattach(k)
    <3>1. /\ Attaching /\ address = "nil" /\ UNCHANGED <<mode, exited, ctx>>
          /\ waiter' = [waiter EXCEPT ![1] = "new"]
      BY <2>1, Zenon DEF StartReattach
    <3>2. waiter[1] = "off"
      BY <3>1, Zenon DEF LaunchInv
    <3>3. waiter'[1] = "new"
      BY <1>0, <1>d, <3>1, Zenon
    <3>. QED
      BY <1>n, <3>1, <3>2, <3>3, Zenon
  <2>2. CASE ~StartReattach(k)
    <3>1. UNCHANGED <<mode, exited, waiter, waiterCtx, ctx, proc>>
      BY <1>1, <2>2, CallFrame, Zenon DEF StartLaunch
    <3>. QED
      BY <1>f, <3>1, Zenon
  <2> QED
    BY <2>1, <2>2, Zenon
<1>2. ASSUME NEW k \in Callers, StartStep(k) PROVE WaiterInv'
  <2>1. CASE RunnerStart(k)
    <3>1. /\ pc[k] = "launch" /\ UNCHANGED <<mode, exited, ctx>>
          /\ waiter' = [waiter EXCEPT ![launches] = "new"]
      BY <2>1, Zenon DEF RunnerStart, Goto
    <3>2. waiter[1] = "off" /\ launches = 1
      BY <3>1, Zenon DEF StartInv, OwnerInv, InStart, LaunchInv
    <3>3. waiter'[1] = "new"
      BY <1>0, <1>d, <3>1, <3>2, Zenon
    <3>. QED
      BY <1>n, <3>1, <3>2, <3>3, Zenon
  <2>2. CASE ~RunnerStart(k)
    <3>1. UNCHANGED <<mode, exited, waiter, waiterCtx, ctx>>
      BY <1>2, <2>2, Zenon
      DEF StartStep, RunnerStartError, SelectHandshake, SelectBadLine,
          SelectTimeout, StartFail, GetClient
    <3>2. UNCHANGED proc \/ proc' = [proc EXCEPT ![launches] =
                                       IF @ = "running" THEN "signalled" ELSE @]
      BY <1>2, <2>2, Zenon
      DEF StartStep, RunnerStartError, SelectHandshake, SelectBadLine,
          SelectTimeout, StartFail, RunnerKill, GetClient
    <3>3. proc[1] = "dead" => proc'[1] = "dead"
      BY <1>0, <1>d, <3>2, Zenon
    <3>. QED
      BY <1>f, <3>1, <3>3, Zenon
  <2> QED
    BY <2>1, <2>2, Zenon
<1>3. ASSUME NEW k \in Callers, KillStep(k) PROVE WaiterInv'
  <2>1. /\ UNCHANGED <<mode, exited, waiter, waiterCtx, ctx>>
        /\ \/ proc'[1] = proc[1]
           \/ proc[1] = "running"
    BY <1>0, <1>3, KillFrame, Zenon DEF TypeOK
  <2>2. proc[1] = "dead" => proc'[1] = "dead"
    BY <2>1, SMT, Z3, SMTT(20)
  <2>. QED
    BY <1>f, <2>1, <2>2, Zenon
<1>4. ASSUME NEW r \in Launches, PipeStep(r) PROVE WaiterInv'
  <2>1. UNCHANGED <<mode, exited, waiter, waiterCtx, ctx, proc>>
    BY <1>4, Zenon
    DEF PipeStep, LogStderrEOF, LogStderrDone, ScannerEOF, ScannerDone,
        DrainLine, DrainDone
  <2>. QED
    BY <1>f, <2>1, Zenon
<1>5. ASSUME NEW r \in Launches, WaiterStep(r) PROVE WaiterInv'
  <2>1. UNCHANGED <<mode, proc>> /\ waiter[r] # "off"
    BY <1>5, SMT, Z3, SMTT(20)
    DEF WaiterStep, WaiterBegin, WaiterPipes, WaiterWait, WaiterExited,
        WaiterCount, WaiterCancel, WaiterGoto
  <2>2. r = 1
    BY <2>1, Zenon DEF SoleInv
  <2>3. CASE WaiterBegin(r)
    <3>1. /\ waiter' = [waiter EXCEPT ![1] = IF Attaching THEN "wait" ELSE "pipes"]
          /\ waiterCtx' = [waiterCtx EXCEPT ![1] = doneCtx]
          /\ waiter[1] = "new" /\ UNCHANGED <<exited, ctx>>
      BY <2>2, <2>3, Zenon DEF WaiterBegin, WaiterGoto
    <3>2. doneCtx = 1
      BY <2>1, <2>2, Zenon DEF LaunchInv
    <3>3. waiter'[1] \in {"wait", "pipes"} /\ waiterCtx'[1] = 1
      BY <1>0, <1>d, <3>1, <3>2, SMT, Z3, SMTT(20)
    <3>4. exited = FALSE /\ ctx[1] # "cancelled"
      BY <3>1, Zenon DEF WaiterInv, TypeOK, ClientOK
    <3>. QED
      BY <3>1, <3>3, <3>4, Zenon DEF WaiterInv
  <2>4. CASE WaiterPipes(r) \/ WaiterWait(r)
    <3>1. PICK to \in {"wait", "exit"} :
            /\ waiter' = [waiter EXCEPT ![1] = to]
            /\ waiter[1] \in {"pipes", "wait"} /\ (to = "exit" => proc[1] = "dead")
            /\ UNCHANGED <<exited, ctx, waiterCtx>>
      BY <2>2, <2>4, Zenon DEF WaiterPipes, WaiterWait, WaiterGoto
    <3>2. waiter'[1] = to
      BY <1>0, <1>d, <3>1, Zenon
    <3>3. exited = FALSE /\ ctx[1] # "cancelled" /\ waiterCtx[1] = 1
      BY <3>1, Zenon DEF WaiterInv, TypeOK, ClientOK
    <3>. QED
      BY <2>1, <3>1, <3>2, <3>3, Zenon DEF WaiterInv
  <2>5. CASE WaiterExited(r)
    <3>1. /\ waiter' = [waiter EXCEPT ![1] = IF Attaching THEN "cancel" ELSE "count"]
          /\ waiter[1] = "exit" /\ exited' = TRUE /\ UNCHANGED <<ctx, waiterCtx>>
      BY <2>2, <2>5, Zenon DEF WaiterExited, WaiterGoto
    <3>2. waiter'[1] \in {"cancel", "count"}
      BY <1>0, <1>d, <3>1, SMT, Z3, SMTT(20)
    <3>3. proc[1] = "dead" /\ ctx[1] # "cancelled" /\ waiterCtx[1] = 1
      BY <3>1, Zenon DEF WaiterInv
    <3>. QED
      BY <2>1, <3>1, <3>2, <3>3, Zenon DEF WaiterInv
  <2>6. CASE WaiterCount(r)
    <3>1. /\ waiter' = [waiter EXCEPT ![1] = IF Attaching THEN "done" ELSE "cancel"]
          /\ waiter[1] = "count" /\ UNCHANGED <<exited, ctx, waiterCtx>>
      BY <2>2, <2>6, Zenon DEF WaiterCount, WaiterGoto
    <3>2. /\ Attaching => waiter'[1] = "done"
          /\ ~Attaching => waiter'[1] = "cancel"
      BY <1>0, <1>d, <3>1, Zenon
    <3>3. /\ proc[1] = "dead" /\ exited
          /\ ctx[1] = "cancelled" => Attaching
          /\ ~Attaching => waiterCtx[1] = 1
      BY <3>1, Zenon DEF WaiterInv
    <3>. QED
      BY <2>1, <3>1, <3>2, <3>3, Zenon DEF WaiterInv, Attaching
  <2>7. CASE WaiterCancel(r)
    <3>1. /\ waiter' = [waiter EXCEPT ![1] = IF Attaching THEN "count" ELSE "done"]
          /\ waiter[1] = "cancel" /\ UNCHANGED exited
      BY <2>2, <2>7, Zenon DEF WaiterCancel, WaiterGoto
    <3>2. /\ Attaching => waiter'[1] = "count"
          /\ ~Attaching => waiter'[1] = "done"
      BY <1>0, <1>d, <3>1, Zenon
    <3>3. proc[1] = "dead" /\ exited
      BY <3>1, Zenon DEF WaiterInv
    <3>. QED
      BY <2>1, <3>1, <3>2, <3>3, Zenon DEF WaiterInv, Attaching
  <2> QED
    BY <1>5, <2>3, <2>4, <2>5, <2>6, <2>7, ZenonT(40) DEF WaiterStep
<1>6. ASSUME NEW r \in Launches, PluginStep(r) PROVE WaiterInv'
  <2>1. /\ UNCHANGED <<mode, exited, waiter, waiterCtx, ctx>>
        /\ proc' \in {proc, [proc EXCEPT ![r] = "dead"]}
    BY <1>6, Zenon
    DEF PluginStep, PluginPrint, PluginExit, PluginKilled, PluginFork,
        DescendantExit, LogStderrAbort, LogStderrDone, ScannerAbort, ScannerDone
  <2>2. proc[1] = "dead" => proc'[1] = "dead"
    BY <1>0, <1>d, <2>1, Zenon
  <2> QED
    BY <1>f, <2>1, <2>2, Zenon
<1>7. CASE UNCHANGED vars
  BY <1>f, <1>7, Zenon DEF vars
<1> QED
  BY <1>1, <1>2, <1>3, <1>4, <1>5, <1>6, <1>7, Zenon DEF Next

\* When the wait group of the client is down to zero, launch 1 has ended.
LEMMA WaitedFor ==
  ASSUME mode # "runnerFunc", TypeOK, LaunchInv, WaiterInv, CountInv,
         launches = 1, clientWaitGroup = 0
  PROVE  Quiet
<1>0. LaunchOK /\ 1 \in Launches
  BY MaxLaunchAssumption, SMT, Z3, SMTT(20) DEF TypeOK
<1>1. /\ Running(logStderr) = {} /\ Running(scanner) = {}
      /\ NotDrained = {} /\ NotWaited = {}
  <2>1. /\ Running(logStderr) \subseteq Launches
        /\ Running(scanner) \subseteq Launches
        /\ NotDrained \subseteq Launches /\ NotWaited \subseteq Launches
    BY Zenon DEF Running, NotDrained, NotWaited
  <2> DEFINE e == Cardinality(Running(logStderr))
             s == Cardinality(Running(scanner))
             d == Cardinality(NotDrained)
             w == Cardinality(NotWaited)
  <2>2. e = 0 /\ s = 0 /\ d = 0 /\ w = 0
    <3>1. pipesWaitGroup = e + s /\ clientWaitGroup = pipesWaitGroup + d + w
      BY Zenon DEF CountInv
    <3>2. e \in Nat /\ s \in Nat /\ d \in Nat /\ w \in Nat
      BY CountedAll, Zenon
    <3> HIDE DEF e, s, d, w
    <3> QED
      BY <3>1, <3>2, SMT, Z3, SMTT(20)
  <2> QED
    BY <2>1, <2>2, Counted, Zenon
<1>2. logStderr[1] # "run" /\ scanner[1] # "run"
  BY <1>0, <1>1, Zenon DEF Running
<1>3. waiter[1] \in {"off", "cancel", "done"} /\ (Attaching => waiter[1] # "cancel")
  BY <1>0, <1>1, Zenon DEF NotWaited, LaunchOK, WaiterPC
<1>4. drain[1] # "run"
  BY <1>0, <1>1, Zenon DEF NotDrained, LaunchInv
<1>5. proc[1] \in {"none", "dead"}
  <2>1. CASE waiter[1] = "off"
    <3>1. address # "set" /\ ~Attaching
      BY <2>1, SMT, Z3, SMTT(20) DEF LaunchInv
    <3> QED
      BY <2>1, <3>1, Zenon DEF LaunchInv
  <2>2. CASE waiter[1] \in {"cancel", "done"}
    BY <2>2, Zenon DEF WaiterInv
  <2> QED
    BY <1>3, <2>1, <2>2, Zenon
<1> QED
  BY <1>2, <1>3, <1>4, <1>5, Zenon DEF Quiet

\* killOnce is not used up while there is something to kill.
LEMMA OncePreserved ==
  ASSUME mode # "runnerFunc", TypeOK, OwnerInv, SoleInv, LaunchInv, StartInv,
         OnceInv, KillInv, [Next]_vars
  PROVE  OnceInv'
<1>0. 1 \in Launches /\ DOMAIN proc = Launches
  BY MaxLaunchAssumption, SMT, Z3, SMTT(20) DEF TypeOK, LaunchOK
<1>f. ASSUME UNCHANGED <<l, address, runner, killOnce, mode, launches>>,
             Quiet => Quiet', proc[1] # "running" => proc'[1] # "running"
      PROVE  OnceInv'
  BY <1>f, Zenon DEF OnceInv, Attaching
<1>u. ASSUME UNCHANGED <<l, address, runner, killOnce, mode, launches, proc,
                         logStderr, scanner, drain, waiter>>
      PROVE  OnceInv'
  BY <1>f, <1>u, Zenon DEF Quiet, Attaching
<1>q. ASSUME killOnce = "unused", UNCHANGED <<killOnce, mode>>,
             mode # "reattachTest" /\ launches' = 1 => runner' = 1,
             mode = "reattachTest" => runner' = 0,
             proc'[1] = "running" /\ ~Attaching => l' = "held" \/ address' = "set"
      PROVE  OnceInv'
  BY <1>q, Zenon DEF OnceInv, Attaching
<1>1. ASSUME NEW k \in Callers, Call(k) PROVE OnceInv'
  <2>1. CASE StartLaunch(k)
    <3>1. /\ mode = "cmd" /\ launches = 0 /\ l' = "held"
          /\ runner' = launches + 1 /\ UNCHANGED <<killOnce, mode>>
      BY <2>1, Zenon DEF StartLaunch
    <3>2. killOnce = "unused" /\ runner' = 1
      BY <3>1, SMT, Z3, SMTT(20) DEF LaunchInv
    <3>. QED
      BY <1>q, <3>1, <3>2, Zenon
  <2>2. CASE StartReattach(k)
    <3>1. /\ Attaching /\ address = "nil" /\ UNCHANGED <<killOnce, mode>>
          /\ runner' = IF mode = "reattach" THEN 1 ELSE runner
      BY <2>2, Zenon DEF StartReattach
    <3>2. killOnce = "unused" /\ runner = 0
      BY <3>1, Zenon DEF LaunchInv
    <3>3. /\ mode # "reattachTest" => runner' = 1
          /\ mode = "reattachTest" => runner' = 0
      BY <3>1, <3>2, Zenon DEF Attaching
    <3>. QED
      BY <1>q, <3>1, <3>2, <3>3, Zenon
  <2>3. CASE ~StartLaunch(k) /\ ~StartReattach(k)
    BY <1>1, <1>u, <2>3, CallFrame, Zenon
  <2> QED
    BY <2>1, <2>2, <2>3, Zenon
<1>2. ASSUME NEW k \in Callers, StartStep(k) PROVE OnceInv'
  <2>1. CASE GetClient(k)
    BY <1>u, <2>1, Zenon DEF GetClient
  <2>2. ASSUME ~GetClient(k)
        PROVE  /\ InStart(k) /\ UNCHANGED <<killOnce, mode, runner, launches>>
               /\ RunnerStart(k) => UNCHANGED l
               /\ SelectHandshake(k) => address' = "set"
               /\ RunnerStartError(k) => pc[k] = "launch" /\ UNCHANGED proc
               /\ SelectBadLine(k) \/ SelectTimeout(k) =>
                    proc' = [proc EXCEPT ![launches] = IF @ = "running"
                                                       THEN "signalled" ELSE @]
    BY <1>2, <2>2, Zenon
    DEF StartStep, RunnerStart, RunnerStartError, SelectHandshake,
        SelectBadLine, SelectTimeout, StartFail, RunnerKill, Goto, InStart
  <2>3. ASSUME ~GetClient(k)
        PROVE  OnceInv'
    <3>1. l = "held" /\ killOnce = "unused" /\ launches = 1 /\ ~Attaching
      BY <2>2, <2>3, Zenon DEF OwnerInv, LaunchInv
    <3>2. RunnerStartError(k) => proc'[1] # "running"
      <4>1. RunnerStartError(k) => proc[1] = "none" /\ UNCHANGED proc
        BY <2>2, <2>3, <3>1, Zenon DEF StartInv, LaunchInv
      <4>. QED
        BY <4>1, SMT, Z3, SMTT(20)
    <3>3. SelectBadLine(k) \/ SelectTimeout(k) => proc'[1] # "running"
      BY <1>0, <2>2, <2>3, <3>1, Zenon
    <3>4. proc'[1] = "running" => l' = "held" \/ address' = "set"
      BY <1>2, <2>2, <2>3, <3>1, <3>2, <3>3, Zenon DEF StartStep
    <3>5. /\ mode # "reattachTest" => runner = 1
          /\ mode = "reattachTest" => runner = 0
      BY <3>1, Zenon DEF OnceInv
    <3>. QED
      BY <1>q, <2>2, <2>3, <3>1, <3>4, <3>5, Zenon
  <2> QED
    BY <2>1, <2>3, Zenon
<1>3. ASSUME NEW k \in Callers, KillStep(k) PROVE OnceInv'
  <2>0. KillStage(k)
    BY Zenon DEF KillInv
  <2>1. CASE KillOnce(k)
    <3>1. CASE UNCHANGED killOnce
      BY <1>u, <2>1, <3>1, Zenon DEF KillOnce
    <3>2. CASE killOnce' # killOnce
      <4>1. /\ pc[k] = "once" /\ killOnce = "unused" /\ killOnce' = "running"
            /\ UNCHANGED <<l, address, runner, mode, launches, proc>>
        BY <2>1, <3>2, Zenon DEF KillOnce, Goto
      <4>2. launches = 1 /\ mode # "reattachTest"
        BY <2>0, <4>1, Zenon DEF KillStage
      <4>3. runner = 1
        BY <4>1, <4>2, Zenon DEF OnceInv
      <4>. QED
        BY <4>1, <4>2, <4>3, SMT, Z3, SMTT(20) DEF OnceInv, Attaching
    <3>. QED
      BY <3>1, <3>2, Zenon
  <2>2. CASE KillNothing(k)
    <3>1. pc[k] = "body" /\ runner = 0
      BY <2>2, Zenon DEF KillNothing, Goto
    <3>2. runner = 1
      BY <2>0, <3>1, SMT, Z3, SMTT(20) DEF KillStage, InKill
    <3>. QED
      BY <3>1, <3>2, SMT, Z3, SMTT(20)
  <2>3. CASE KillForce(k)
    <3>1. /\ proc' = [proc EXCEPT ![kill.runner] = IF @ = "running"
                                                  THEN "signalled" ELSE @]
          /\ UNCHANGED <<l, address, runner, killOnce, mode, launches, logStderr,
                         scanner, drain, waiter>>
      BY <2>3, Zenon DEF KillForce, RunnerKill
    <3>2. \/ proc'[1] = proc[1]
          \/ proc[1] = "running" /\ proc'[1] = "signalled"
      BY <1>0, <3>1, Zenon
    <3>. QED
      BY <1>f, <3>1, <3>2, SMT, Z3, SMTT(20) DEF Quiet, Attaching
  <2>4. CASE KillReset(k) \/ KillUnmanage(k)
    <3>1. /\ pc[k] \in {"reset", "unmanage"}
          /\ UNCHANGED <<l, address, mode, launches, proc, logStderr, scanner,
                         drain, waiter>>
      BY <2>4, Zenon DEF KillReset, KillUnmanage, Goto
    <3>2. /\ KillReset(k) => killOnce' = killOnce
          /\ KillUnmanage(k) => killOnce' = "done"
      BY Zenon DEF KillReset, KillUnmanage
    <3>3. InKill(k)
      BY <3>1, Zenon DEF InKill
    <3>4. Quiet /\ launches = 1 /\ mode # "reattachTest" /\ killOnce = "running"
      BY <2>0, <3>1, <3>3, Zenon DEF KillStage, OwnerInv
    <3>5. Quiet'
      BY <3>1, <3>4, Zenon DEF Quiet, Attaching
    <3>6. killOnce' \in {"running", "done"}
      BY <2>4, <3>2, <3>4, Zenon
    <3>7. proc[1] # "running"
      BY <3>4, SMT, Z3, SMTT(20) DEF Quiet
    <3>. QED
      BY <3>1, <3>4, <3>5, <3>6, <3>7, SMT, Z3, SMTT(20) DEF OnceInv
  <2>5. CASE KillGate(k) \/ KillSnapshot(k) \/ KillClose(k) \/ KillGrace(k)
             \/ KillMark(k) \/ KillWait(k)
    BY <1>u, <2>5, Zenon
    DEF KillGate, KillSnapshot, KillClose, KillGrace, KillMark, KillWait
  <2> QED
    BY <1>3, <2>1, <2>2, <2>3, <2>4, <2>5, Zenon DEF KillStep
<1>4. ASSUME NEW r \in Launches, PipeStep(r) \/ WaiterStep(r) \/ PluginStep(r)
      PROVE  OnceInv'
  BY <1>4, <1>f, QuietIsStable, Zenon DEF TypeOK
<1>5. CASE UNCHANGED vars
  BY <1>5, <1>u, Zenon DEF vars
<1> QED
  BY <1>1, <1>2, <1>3, <1>4, <1>5, Zenon DEF Next

\* Each stage of Kill keeps what it has established, whoever takes a step.
LEMMA KillPreserved ==
  ASSUME mode # "runnerFunc", TypeOK, OwnerInv, SoleInv, LaunchInv, WaiterInv,
         CountInv, OnceInv, KillInv, [Next]_vars
  PROVE  KillInv'
<1> SUFFICES ASSUME NEW j \in Callers PROVE KillStage(j)'
  BY Zenon DEF KillInv
<1>0. KillStage(j)
  BY Zenon DEF KillInv
<1>1. ASSUME NEW k \in Callers, Call(k) PROVE KillStage(j)'
  <2> USE <1>0 DEF KillStage, InKill, TypeOK, CallerOK, Goto, Quiet, AfterStart
  <2>1. CASE StartAgain(k)
    BY <2>1, Zenon DEF StartAgain
  <2>2. CASE StartLaunch(k)
    BY <2>2, SMT, Z3, SMTT(20) DEF StartLaunch
  <2>3. CASE StartRunnerFuncError(k) \/ StartMkdirError(k)
    BY <2>3, Zenon DEF StartRunnerFuncError, StartMkdirError
  <2>4. CASE StartReattach(k)
    BY <2>4, ZenonT(40) DEF StartReattach, LaunchInv
  <2>5. CASE KillCall(k) \/ CleanupClients(k)
    BY <2>5, ZenonT(40) DEF KillCall, CleanupClients
  <2> QED
    BY <1>1, <2>1, <2>2, <2>3, <2>4, <2>5, Zenon DEF Call
<1>2. ASSUME NEW k \in Callers, StartStep(k) PROVE KillStage(j)'
  <2> USE <1>0 DEF KillStage, InKill, TypeOK, CallerOK, Goto, Quiet, AfterStart
  <2>1. CASE RunnerStartError(k)
    BY <2>1, Zenon DEF RunnerStartError
  <2>2. CASE RunnerStart(k)
    BY <2>2, Zenon DEF RunnerStart, OwnerInv, InStart
  <2>3. CASE SelectHandshake(k)
    BY <2>3, Zenon DEF SelectHandshake, OwnerInv, InStart
  <2>4. CASE SelectBadLine(k) \/ SelectTimeout(k)
    BY <2>4, SMT, Z3, SMTT(20)
    DEF SelectBadLine, SelectTimeout, StartFail, OwnerInv, InStart
  <2>5. CASE GetClient(k)
    BY <2>5, Zenon DEF GetClient
  <2> QED
    BY <1>2, <2>1, <2>2, <2>3, <2>4, <2>5, Zenon DEF StartStep
<1>3. ASSUME NEW k \in Callers, KillStep(k) PROVE KillStage(j)'
  <2>0. j # k => ~InKill(j) \/ ~InKill(k)
    BY ZenonT(40) DEF OwnerInv
  <2> USE <1>0 DEF KillStage, InKill, TypeOK, CallerOK, Goto
  <2>1. CASE KillGate(k)
    BY <2>1, SMT, Z3, SMTT(20)
    DEF KillGate, Quiet, LaunchInv, ClientOK, SoleInv, OnceInv
  <2>2. CASE KillOnce(k)
    <3>1. pc[k] = "once" /\ UNCHANGED <<l, address, runner, mode, kill,
                                         launches, procVars, goVars>>
      BY <2>2, Zenon DEF KillOnce
    <3>2. \/ killOnce = "unused" /\ pc' = [pc EXCEPT ![k] = "body"]
          \/ pc' = [pc EXCEPT ![k] = "idle"]
      BY <2>2, Zenon DEF KillOnce
    <3>3. CASE killOnce = "unused" /\ pc' = [pc EXCEPT ![k] = "body"]
      <4>1. KillStage(k) /\ ~InKill(j)
        BY <3>3, Zenon DEF KillInv, OwnerInv
      <4> QED
        BY <3>1, <3>3, <4>1, Zenon DEF OnceInv
    <3>4. CASE pc' = [pc EXCEPT ![k] = "idle"]
      BY <3>1, <3>4, Zenon DEF Quiet
    <3> QED
      BY <3>2, <3>3, <3>4, Zenon
  <2>3. CASE KillNothing(k)
    BY <2>0, <2>3, Zenon DEF KillNothing, Quiet
  <2>4. CASE KillSnapshot(k)
    BY <2>0, <2>4, Zenon DEF KillSnapshot, Quiet
  <2>5. CASE KillClose(k) \/ KillGrace(k)
    <3>1. /\ pc[k] \in {"close", "grace"}
          /\ UNCHANGED <<l, address, runner, mode, kill, launches, procVars, goVars>>
      BY <2>5, Zenon DEF KillClose, KillGrace
    <3>2. CASE \E next \in {"grace", "force"} : pc' = [pc EXCEPT ![k] = next]
      BY <2>0, <3>1, <3>2, Zenon DEF Quiet, KillInv
    <3>3. CASE pc' = [pc EXCEPT ![k] = "wait"] /\ ctx[doneCtx] = "cancelled"
      <4>1. doneCtx = 1
        BY <3>1, Zenon DEF KillInv, LaunchInv
      <4>2. proc[1] = "dead"
        BY <3>3, <4>1, Zenon DEF WaiterInv
      <4> QED
        BY <2>0, <3>1, <3>3, <4>2, Zenon DEF Quiet, KillInv
    <3> QED
      BY <2>5, <3>2, <3>3, Zenon DEF KillClose, KillGrace
  <2>6. CASE KillForce(k)
    <3>1. kill.runner = 1
      BY <2>6, Zenon DEF KillForce, KillInv
    <3>2. proc'[1] # "running" /\ (proc[1] # "running" => proc'[1] = proc[1])
      BY <2>6, <3>1, MaxLaunchAssumption, SMT, Z3, SMTT(20)
      DEF KillForce, RunnerKill, LaunchOK
    <3>3. /\ pc[k] = "force" /\ pc' = [pc EXCEPT ![k] = "mark"]
          /\ UNCHANGED <<l, address, runner, mode, kill, launches, goVars>>
      BY <2>6, Zenon DEF KillForce
    <3> QED
      BY <2>0, <3>2, <3>3, Zenon DEF Quiet
  <2>7. CASE KillMark(k)
    BY <2>0, <2>7, Zenon DEF KillMark, Quiet
  <2>8. CASE KillWait(k)
    BY <2>0, <2>8, WaitedFor, ZenonT(40) DEF KillWait, Quiet, KillInv
  <2>9. CASE KillReset(k) \/ KillUnmanage(k)
    BY <2>0, <2>9, SMT, Z3, SMTT(20) DEF KillReset, KillUnmanage, Quiet
  <2> QED
    BY <1>3, <2>1, <2>2, <2>3, <2>4, <2>5, <2>6, <2>7, <2>8, <2>9, Zenon DEF
         KillStep
<1>4. ASSUME NEW r \in Launches, PipeStep(r) \/ WaiterStep(r) \/ PluginStep(r)
      PROVE  KillStage(j)'
  BY <1>0, <1>4, QuietIsStable, Zenon DEF TypeOK, KillStage, InKill
<1>5. CASE UNCHANGED vars
  BY <1>0, <1>5, Zenon DEF vars, KillStage, InKill, Quiet
<1> QED
  BY <1>1, <1>2, <1>3, <1>4, <1>5, Zenon DEF Next

\* No method changes which of Cmd, RunnerFunc and Reattach the config sets.
LEMMA ModeFixed == [Next]_vars => mode' = mode
<1> SUFFICES ASSUME [Next]_vars PROVE mode' = mode
  BY Zenon
<1>1. ASSUME NEW k \in Callers, Call(k) PROVE mode' = mode
  BY <1>1, Zenon DEF Call, StartAgain, StartLaunch, StartRunnerFuncError,
     StartMkdirError, StartReattach, KillCall, CleanupClients
<1>2. ASSUME NEW k \in Callers, StartStep(k) PROVE mode' = mode
  BY <1>2, Zenon DEF StartStep, RunnerStartError, RunnerStart, SelectHandshake,
     SelectBadLine, SelectTimeout, StartFail, GetClient
<1>3. ASSUME NEW k \in Callers, KillStep(k) PROVE mode' = mode
  BY <1>3, Zenon DEF KillStep, KillGate, KillOnce, KillNothing, KillSnapshot,
     KillClose, KillGrace, KillForce, KillMark, KillWait, KillReset,
     KillUnmanage
<1>4. ASSUME NEW r \in Launches, PipeStep(r) \/ WaiterStep(r)
      PROVE  mode' = mode
  BY <1>4, Zenon DEF PipeStep, LogStderrEOF, LogStderrDone, ScannerEOF,
       ScannerDone, DrainLine, DrainDone, WaiterStep, WaiterBegin, WaiterPipes,
       WaiterWait, WaiterExited, WaiterCount, WaiterCancel
<1>5. ASSUME NEW r \in Launches, PluginStep(r) PROVE mode' = mode
  BY <1>5, Zenon DEF PluginStep, PluginPrint, PluginExit, PluginKilled,
       PluginFork, DescendantExit, LogStderrAbort, LogStderrDone, ScannerAbort,
       ScannerDone
<1>6. CASE UNCHANGED vars
  BY <1>6, Zenon DEF vars
<1> QED
  BY <1>1, <1>2, <1>3, <1>4, <1>5, <1>6, Zenon DEF Next

\* The relations between the mutex, killOnce, the wait groups, the recorded exit
\* and the process that Start, Kill and the exit waiter rely on hold in every
\* reachable state: of any client, and more of one with Cmd or Reattach.
THEOREM SingleLaunch == Spec => []SingleLaunchInv
<1>1. Init => OneLaunchInv
  <2> SUFFICES ASSUME Init, mode # "runnerFunc"
               PROVE  /\ SoleInv /\ LaunchInv /\ StartInv /\ WaiterInv
                      /\ OnceInv /\ KillInv
    BY Zenon DEF OneLaunchInv
  <2> USE MaxLaunchAssumption DEF Init
  <2>1. StartInv /\ KillInv
    BY Zenon DEF StartInv, KillInv, KillStage, InKill
  <2>2. SoleInv
    BY Zenon DEF SoleInv
  <2>3. LaunchInv
    BY SMT, Z3, SMTT(20) DEF LaunchInv
  <2>4. WaiterInv
    BY SMT, Z3, SMTT(20) DEF WaiterInv
  <2>5. OnceInv
    BY SMT, Z3, SMTT(20) DEF OnceInv
  <2> QED
    BY <2>1, <2>2, <2>3, <2>4, <2>5, Zenon
<1>2. TypeOK /\ AnyLaunchInv /\ OneLaunchInv /\ [Next]_vars => OneLaunchInv'
  BY SolePreserved, LaunchPreserved, StartPreserved, WaiterPreserved,
     OncePreserved, KillPreserved, ModeFixed, Zenon
     DEF OneLaunchInv, AnyLaunchInv
<1>3. AnyLaunchInv /\ OneLaunchInv => SingleLaunchInv
  BY Zenon DEF SingleLaunchInv
<1> QED
  BY <1>1, <1>2, <1>3, TypeCorrect, AnyLaunch, PTL DEF Spec

\* With Cmd or Reattach, no order of Start, Kill and CleanupClients uses up
\* killOnce, or loses c.runner, while the process is alive.
THEOREM Killable ==
  ASSUME "runnerFunc" \notin Configs
  PROVE  Spec => []ProcessIsKillable
<1>1. TypeOK /\ SingleLaunchInv => ProcessIsKillable
  <2> SUFFICES ASSUME TypeOK, SoleInv, LaunchInv, OnceInv,
                      NEW r \in Launches, proc[r] = "running",
                      Attaching => address = "set" /\ mode = "reattach"
               PROVE  runner = r /\ killOnce # "done"
    BY Zenon DEF TypeOK, ClientOK, SingleLaunchInv, OneLaunchInv,
                 ProcessIsKillable
  <2>1. r = 1
    BY Zenon DEF SoleInv
  <2>2. launches = 1
    BY <2>1, ModeAssumption, Zenon DEF LaunchInv, SoleInv, Attaching, Modes
  <2> QED
    BY <2>1, <2>2, ModeAssumption, Zenon
       DEF SoleInv, OnceInv, Quiet, TypeOK, ClientOK, Attaching, Modes
<1> QED
  BY <1>1, TypeCorrect, SingleLaunch, PTL

\* With Cmd or Reattach, once kill() has run, no process and no goroutine
\* of the launch is left running in the host.
THEOREM NothingLeft ==
  ASSUME "runnerFunc" \notin Configs
  PROVE  Spec => []KillLeavesNothing
<1>1. TypeOK /\ SingleLaunchInv => KillLeavesNothing
  BY MaxLaunchAssumption, Zenon
     DEF TypeOK, ClientOK, SingleLaunchInv, OneLaunchInv, SoleInv, LaunchInv,
         WaiterInv, OnceInv, Quiet, KillLeavesNothing
<1> QED
  BY <1>1, TypeCorrect, SingleLaunch, PTL

\* With Cmd or Reattach, Exited and doneCtx never report the exit of a live
\* process.
THEOREM TrueReports ==
  ASSUME "runnerFunc" \notin Configs
  PROVE  Spec => []ExitReportsAreTrue
<1>1. TypeOK /\ SingleLaunchInv => ExitReportsAreTrue
  BY MaxLaunchAssumption, Zenon
     DEF TypeOK, ClientOK, SingleLaunchInv, OneLaunchInv, LaunchInv, WaiterInv,
         ExitReportsAreTrue
<1> QED
  BY <1>1, TypeCorrect, SingleLaunch, PTL
=============================================================================
