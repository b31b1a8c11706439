--------------------------- MODULE ClientLifecycle ---------------------------
(***************************************************************************)
(* The host-side Client of client.go: Start, Client, Kill and              *)
(* CleanupClients called by concurrent goroutines, the plugin subprocess,  *)
(* and the goroutines one launch leaves behind (stderr pump, stdout        *)
(* scanner, stdout drain, exit waiter).                                    *)
(*                                                                         *)
(* A launch is one attempt of Start that got as far as creating a runner   *)
(* (or, for RunnerFunc, its socket directory); launches are numbered from  *)
(* 1 and 0 stands for nil.  The mutex c.l is a variable only because Start *)
(* keeps it across blocking calls; every other critical section is short   *)
(* and is one step that needs the mutex free.                              *)
(***************************************************************************)
EXTENDS Integers, FiniteSets

CONSTANTS
  Callers,          \* host goroutines that use the Client
  Configs,          \* the configurations the client may have, see Modes
  GroupKill,        \* ~DisableProcessGroupKill
  Managed,          \* ClientConfig.Managed
  Descendants,      \* the plugin may fork children that inherit its pipes
  MaxLaunch         \* bound on the launches of a behaviour

\* Which of Cmd, RunnerFunc and Reattach the config sets, exactly one of them;
\* the last one is Reattach with Test.
Modes == {"cmd", "runnerFunc", "reattach", "reattachTest"}

ASSUME ModeAssumption == Configs \subseteq Modes
ASSUME MaxLaunchAssumption == MaxLaunch \in Nat \ {0}
ASSUME FlagAssumption ==
  GroupKill \in BOOLEAN /\ Managed \in BOOLEAN /\ Descendants \in BOOLEAN

Launches == 1 .. MaxLaunch

VARIABLES
  \* fields of the Client struct
  l,                \* "held": a Start is between Lock and Unlock of c.l
  address,          \* "nil" or "set"
  runner,           \* the launch c.runner belongs to, or 0
  client,           \* "nil" or "set"
  exited,
  doneCtx,          \* the launch that created the current c.doneCtx, or 0
  clientWaitGroup,
  pipesWaitGroup,
  killOnce,         \* "unused", "running" or "done"
  processKilled,
  socketDir,        \* the launch that created unixSocketCfg.socketDir, or 0
  \* the config, the package variable managedClients, and the file system
  mode,             \* which of Cmd, RunnerFunc, Reattach c.config sets
  managed,          \* this client is in managedClients
  dirs,             \* launches whose socket directory exists
  \* callers
  pc,               \* where each caller is
  op,               \* the method that launched: Start, or Client calling it
  kill,             \* the locals of the one execution of kill()
  \* launches
  launches,         \* how many there have been
  proc,             \* "none", "running", "signalled" or "dead"
  descendants,      \* launches with a child that holds stdout and stderr
  line,             \* the line waiting in stdout: "none", "good" or "bad"
  logStderr,        \* goroutine: "off", "run" or "done"
  scanner,          \* goroutine: "off", "run" or "done" (linesCh closed)
  drain,            \* goroutine: "off", "run" or "done"
  waiter,           \* where the exit waiter is
  waiterCtx,        \* the launch whose ctxCancel the exit waiter deferred
  ctx               \* "live" or "cancelled"

structVars == <<l, address, runner, client, exited, doneCtx, clientWaitGroup,
                pipesWaitGroup, killOnce, processKilled, socketDir>>
globalVars == <<mode, managed, dirs>>
callerVars == <<pc, op, kill>>
procVars   == <<proc, descendants, line>>
goVars     == <<logStderr, scanner, drain, waiter, waiterCtx, ctx>>
vars == <<structVars, globalVars, callerVars, launches, procVars, goVars>>

Attaching == mode \in {"reattach", "reattachTest"}

CallerPC == {"idle", "launch", "select", "client", "kill", "once", "body",
             "close", "grace", "force", "mark", "wait", "reset", "unmanage"}
WaiterPC == {"off", "new", "pipes", "wait", "exit", "count", "cancel", "done"}
Goroutine == {"off", "run", "done"}

ClientOK ==
  /\ l \in {"free", "held"}
  /\ address \in {"nil", "set"}
  /\ client \in {"nil", "set"}
  /\ runner \in 0 .. MaxLaunch /\ doneCtx \in 0 .. MaxLaunch
  /\ socketDir \in 0 .. MaxLaunch /\ launches \in 0 .. MaxLaunch
  /\ exited \in BOOLEAN /\ processKilled \in BOOLEAN /\ managed \in BOOLEAN
  /\ clientWaitGroup \in Int /\ pipesWaitGroup \in Int
  /\ killOnce \in {"unused", "running", "done"}
  /\ mode \in Configs

CallerOK ==
  /\ pc \in [Callers -> CallerPC]
  /\ op \in [Callers -> {"Start", "Client"}]
  /\ kill \in [runner : 0 .. MaxLaunch, dir : 0 .. MaxLaunch]

LaunchOK ==
  /\ proc \in [Launches -> {"none", "running", "signalled", "dead"}]
  /\ line \in [Launches -> {"none", "good", "bad"}]
  /\ logStderr \in [Launches -> Goroutine]
  /\ scanner \in [Launches -> Goroutine]
  /\ drain \in [Launches -> Goroutine]
  /\ waiter \in [Launches -> WaiterPC]
  /\ waiterCtx \in [Launches -> 0 .. MaxLaunch]
  /\ ctx \in [Launches -> {"live", "cancelled"}]

SetsOK == dirs \in SUBSET Launches /\ descendants \in SUBSET Launches

TypeOK == ClientOK /\ CallerOK /\ LaunchOK /\ SetsOK

\* NewClient.  A plugin to reattach to is running before the client exists.
Init ==
  /\ l = "free" /\ address = "nil" /\ runner = 0 /\ client = "nil"
  /\ exited = FALSE /\ doneCtx = 0 /\ clientWaitGroup = 0
  /\ pipesWaitGroup = 0 /\ killOnce = "unused" /\ processKilled = FALSE
  /\ socketDir = 0
  /\ mode \in Configs /\ managed = Managed /\ dirs = {}
  /\ pc = [k \in Callers |-> "idle"]
  /\ op = [k \in Callers |-> "Start"]
  /\ kill = [runner |-> 0, dir |-> 0]
  /\ launches = 0
  /\ proc = [r \in Launches |-> IF Attaching /\ r = 1 THEN "running" ELSE "none"]
  /\ descendants = {}
  /\ line = [r \in Launches |-> "none"]
  /\ logStderr = [r \in Launches |-> "off"]
  /\ scanner = [r \in Launches |-> "off"]
  /\ drain = [r \in Launches |-> "off"]
  /\ waiter = [r \in Launches |-> "off"]
  /\ waiterCtx = [r \in Launches |-> 0]
  /\ ctx = [r \in Launches |-> "live"]

Goto(k, from, to) ==
  /\ pc[k] = from
  /\ pc' = [pc EXCEPT ![k] = to]

\* Start returned without an error: Client() goes on, Start's caller is done.
AfterStart(o) == IF o = "Client" THEN "client" ELSE "idle"

\* Mutant of RunnerKill: only the plugin's PID is signalled.
RunnerKillPidOnly(r) ==
  /\ proc' = [proc EXCEPT ![r] = IF @ = "running" THEN "signalled" ELSE @]
  /\ UNCHANGED descendants

\* runner.Kill: SIGKILL to the plugin, and to its process group unless the
\* config opted out.  Killing a process that is gone is no error.
RunnerKill(r) ==
  /\ proc' = [proc EXCEPT ![r] = IF @ = "running" THEN "signalled" ELSE @]
  /\ descendants' = IF GroupKill THEN descendants \ {r} ELSE descendants

-----------------------------------------------------------------------------
(* Start and Client                                                        *)

\* The client has been started: Start returns the address it has.
StartAgain(k) ==
  /\ l = "free" /\ address = "set"
  /\ \E o \in {"Start", "Client"} : Goto(k, "idle", AfterStart(o))
  /\ UNCHANGED <<structVars, globalVars, op, kill, launches, procVars, goVars>>

\* Start creates a runner and publishes it in c.runner.  An exec.Cmd can be
\* given its pipes once, so with Cmd only the first attempt gets this far;
\* RunnerFunc is asked again every time, for a new socket directory.
StartLaunch(k) ==
  /\ l = "free" /\ address = "nil"
  /\ \/ mode = "cmd" /\ launches = 0
     \/ mode = "runnerFunc" /\ launches < MaxLaunch
  /\ launches' = launches + 1
  /\ runner' = launches + 1
  /\ l' = "held"
  /\ IF mode = "runnerFunc"
     THEN socketDir' = launches + 1 /\ dirs' = dirs \cup {launches + 1}
     ELSE UNCHANGED <<socketDir, dirs>>
  /\ Goto(k, "idle", "launch")
  /\ \E o \in {"Start", "Client"} : op' = [op EXCEPT ![k] = o]
  /\ UNCHANGED <<address, client, exited, doneCtx, clientWaitGroup,
                 pipesWaitGroup, killOnce, processKilled, mode, managed, kill,
                 procVars, goVars>>

\* No temporary directory can be made: Start forgets the one it had.  The
\* errors before this point change nothing.
StartMkdirError(k) ==
  /\ l = "free" /\ address = "nil" /\ pc[k] = "idle"
  /\ mode = "runnerFunc" /\ launches < MaxLaunch
  /\ socketDir' = 0
  /\ UNCHANGED <<l, address, runner, client, exited, doneCtx, clientWaitGroup,
                 pipesWaitGroup, killOnce, processKilled, globalVars,
                 callerVars, launches, procVars, goVars>>

\* setGroupWritable or RunnerFunc fails after the directory was made: Start
\* returns the error and keeps the directory.
StartRunnerFuncError(k) ==
  /\ l = "free" /\ address = "nil" /\ pc[k] = "idle"
  /\ mode = "runnerFunc" /\ launches < MaxLaunch
  /\ launches' = launches + 1
  /\ socketDir' = launches + 1
  /\ dirs' = dirs \cup {launches + 1}
  /\ UNCHANGED <<l, address, runner, client, exited, doneCtx, clientWaitGroup,
                 pipesWaitGroup, killOnce, processKilled, mode, managed,
                 callerVars, procVars, goVars>>

\* runner.Start fails: there is no process and nothing to undo.
RunnerStartError(k) ==
  /\ Goto(k, "launch", "idle")
  /\ op' = [op EXCEPT ![k] = "Start"]
  /\ l' = "free"
  /\ UNCHANGED <<address, runner, client, exited, doneCtx, clientWaitGroup,
                 pipesWaitGroup, killOnce, processKilled, socketDir,
                 globalVars, kill, launches, procVars, goVars>>

\* Mutant of RunnerStart: the Add for the drain is missing.
RunnerStartAddThree(k) ==
  /\ Goto(k, "launch", "select")
  /\ proc' = [proc EXCEPT ![launches] = "running"]
  /\ doneCtx' = launches
  /\ pipesWaitGroup' = pipesWaitGroup + 2
  /\ clientWaitGroup' = clientWaitGroup + 3
  /\ logStderr' = [logStderr EXCEPT ![launches] = "run"]
  /\ scanner' = [scanner EXCEPT ![launches] = "run"]
  /\ waiter' = [waiter EXCEPT ![launches] = "new"]
  /\ UNCHANGED <<l, address, runner, client, exited, killOnce, processKilled,
                 socketDir, globalVars, op, kill, launches, descendants, line,
                 drain, waiterCtx, ctx>>

\* runner.Start succeeds: the context and the goroutines of the launch.  The
\* fourth Add is for the drain, which Start only starts when it returns.
RunnerStart(k) ==
  /\ Goto(k, "launch", "select")
  /\ proc' = [proc EXCEPT ![launches] = "running"]
  /\ doneCtx' = launches
  /\ pipesWaitGroup' = pipesWaitGroup + 2
  /\ clientWaitGroup' = clientWaitGroup + 4
  /\ logStderr' = [logStderr EXCEPT ![launches] = "run"]
  /\ scanner' = [scanner EXCEPT ![launches] = "run"]
  /\ waiter' = [waiter EXCEPT ![launches] = "new"]
  /\ UNCHANGED <<l, address, runner, client, exited, killOnce, processKilled,
                 socketDir, globalVars, op, kill, launches, descendants, line,
                 drain, waiterCtx, ctx>>

\* The first line is a handshake Start accepts: it records the address.
SelectHandshake(k) ==
  /\ Goto(k, "select", AfterStart(op[k]))
  /\ op' = [op EXCEPT ![k] = "Start"]
  /\ scanner[launches] = "run" /\ line[launches] = "good"
  /\ line' = [line EXCEPT ![launches] = "none"]
  /\ address' = "set"
  /\ drain' = [drain EXCEPT ![launches] = "run"]
  /\ l' = "free"
  /\ UNCHANGED <<runner, client, exited, doneCtx, clientWaitGroup,
                 pipesWaitGroup, killOnce, processKilled, socketDir,
                 globalVars, kill, launches, proc, descendants, logStderr,
                 scanner, waiter, waiterCtx, ctx>>

\* Mutant of StartFail: the deferred runner.Kill is missing.
StartFailNoKill(k) ==
  /\ Goto(k, "select", "idle")
  /\ op' = [op EXCEPT ![k] = "Start"]
  /\ drain' = [drain EXCEPT ![launches] = "run"]
  /\ l' = "free"
  /\ UNCHANGED <<address, runner, client, exited, doneCtx, clientWaitGroup,
                 pipesWaitGroup, killOnce, processKilled, socketDir,
                 globalVars, kill, launches, logStderr, scanner, waiter,
                 waiterCtx, ctx, proc, descendants>>

\* Mutant of StartFail: stdout is drained after a successful Start only.
StartFailNoDrain(k) ==
  /\ Goto(k, "select", "idle")
  /\ op' = [op EXCEPT ![k] = "Start"]
  /\ RunnerKill(launches)
  /\ l' = "free"
  /\ UNCHANGED <<address, runner, client, exited, doneCtx, clientWaitGroup,
                 pipesWaitGroup, killOnce, processKilled, socketDir,
                 globalVars, kill, launches, logStderr, scanner, drain, waiter,
                 waiterCtx, ctx>>

\* Every other way out of the select, with the deferred calls of an error:
\* start the drain, kill the runner, unlock.
StartFail(k) ==
  /\ Goto(k, "select", "idle")
  /\ op' = [op EXCEPT ![k] = "Start"]
  /\ drain' = [drain EXCEPT ![launches] = "run"]
  /\ RunnerKill(launches)
  /\ l' = "free"
  /\ UNCHANGED <<address, runner, client, exited, doneCtx, clientWaitGroup,
                 pipesWaitGroup, killOnce, processKilled, socketDir,
                 globalVars, kill, launches, logStderr, scanner, waiter,
                 waiterCtx, ctx>>

\* A line that is no handshake, or linesCh closed.
SelectBadLine(k) ==
  /\ StartFail(k)
  /\ \/ /\ scanner[launches] = "run" /\ line[launches] = "bad"
        /\ line' = [line EXCEPT ![launches] = "none"]
     \/ /\ scanner[launches] = "done"
        /\ UNCHANGED line

\* The timer, or doneCtx: both can fire only with the same effect.
SelectTimeout(k) ==
  /\ StartFail(k)
  /\ UNCHANGED line

\* reattach(): the exit waiter is the only goroutine; in test mode the runner
\* is not recorded.
StartReattach(k) ==
  /\ l = "free" /\ address = "nil"
  /\ Attaching /\ proc[1] = "running"
  /\ \E o \in {"Start", "Client"} : Goto(k, "idle", AfterStart(o))
  /\ launches' = 1
  /\ doneCtx' = 1
  /\ clientWaitGroup' = clientWaitGroup + 1
  /\ waiter' = [waiter EXCEPT ![1] = "new"]
  /\ address' = "set"
  /\ runner' = IF mode = "reattach" THEN 1 ELSE runner
  /\ UNCHANGED <<l, client, exited, pipesWaitGroup, killOnce, processKilled,
                 socketDir, globalVars, op, kill, procVars, logStderr,
                 scanner, drain, waiterCtx, ctx>>

\* The rest of Client(): return the protocol client, or try to create it.
GetClient(k) ==
  /\ l = "free"
  /\ Goto(k, "client", "idle")
  /\ client' \in {client, "set"}
  /\ UNCHANGED <<l, address, runner, exited, doneCtx, clientWaitGroup,
                 pipesWaitGroup, killOnce, processKilled, socketDir,
                 globalVars, op, kill, launches, procVars, goVars>>

-----------------------------------------------------------------------------
(* Kill and CleanupClients                                                 *)

KillCall(k) ==
  /\ Goto(k, "idle", "kill")
  /\ UNCHANGED <<structVars, globalVars, op, kill, launches, procVars, goVars>>

\* CleanupClients kills the clients it finds in managedClients.
CleanupClients(k) ==
  /\ managed
  /\ KillCall(k)

\* Mutant of KillGate: Kill goes for killOnce without looking for a runner.
KillGateOpen(k) ==
  /\ Goto(k, "kill", "once")
  /\ UNCHANGED <<structVars, globalVars, op, kill, launches, procVars, goVars>>

\* Kill's gate: without a runner it returns and leaves killOnce alone.
KillGate(k) ==
  /\ l = "free"
  /\ Goto(k, "kill", IF runner = 0 THEN "idle" ELSE "once")
  /\ UNCHANGED <<structVars, globalVars, op, kill, launches, procVars, goVars>>

\* killOnce.Do: the first caller runs kill, the others wait for its end.
KillOnce(k) ==
  /\ \/ /\ killOnce = "unused"
        /\ killOnce' = "running"
        /\ Goto(k, "once", "body")
     \/ /\ killOnce = "done"
        /\ UNCHANGED killOnce
        /\ Goto(k, "once", "idle")
  /\ UNCHANGED <<l, address, runner, client, exited, doneCtx, clientWaitGroup,
                 pipesWaitGroup, processKilled, socketDir, globalVars, op,
                 kill, launches, procVars, goVars>>

\* A runner that was never started may have no ID: there is nothing to kill.
\* (cmdrunner's ID is the pid printed in decimal, "0" before Start.)
KillNothing(k) ==
  /\ l = "free"
  /\ runner # 0 => mode = "runnerFunc" /\ proc[runner] = "none"
  /\ Goto(k, "body", "idle")
  /\ killOnce' = "done"
  /\ UNCHANGED <<l, address, runner, client, exited, doneCtx, clientWaitGroup,
                 pipesWaitGroup, processKilled, socketDir, globalVars, op,
                 kill, launches, procVars, goVars>>

\* kill() reads the fields it works on.
KillSnapshot(k) ==
  /\ l = "free" /\ runner # 0
  /\ kill' = [runner |-> runner, dir |-> socketDir]
  /\ Goto(k, "body", IF address = "set" THEN "close" ELSE "force")
  /\ UNCHANGED <<structVars, globalVars, op, launches, procVars, goVars>>

\* c.Client() and client.Close(): a graceful exit is expected if both succeed.
KillClose(k) ==
  /\ l = "free"
  /\ \E next \in {"grace", "force"} :
       /\ Goto(k, "close", next)
       /\ client' = "set" \/ (next = "force" /\ client' = client)
  /\ UNCHANGED <<l, address, runner, exited, doneCtx, clientWaitGroup,
                 pipesWaitGroup, killOnce, processKilled, socketDir,
                 globalVars, op, kill, launches, procVars, goVars>>

\* The plugin exits within the grace window, or the window ends.
KillGrace(k) ==
  /\ \/ Goto(k, "grace", "wait") /\ ctx[doneCtx] = "cancelled"
     \/ Goto(k, "grace", "force")
  /\ UNCHANGED <<structVars, globalVars, op, kill, launches, procVars, goVars>>

KillForce(k) ==
  /\ Goto(k, "force", "mark")
  /\ RunnerKill(kill.runner)
  /\ UNCHANGED <<structVars, globalVars, op, kill, launches, line, goVars>>

KillMark(k) ==
  /\ l = "free"
  /\ Goto(k, "mark", "wait")
  /\ processKilled' = TRUE
  /\ UNCHANGED <<l, address, runner, client, exited, doneCtx, clientWaitGroup,
                 pipesWaitGroup, killOnce, socketDir, globalVars, op, kill,
                 launches, procVars, goVars>>

\* Mutant of KillWait: clientWaitGroup.Wait is missing.
KillWaitNot(k) ==
  /\ Goto(k, "wait", "reset")
  /\ dirs' = dirs \ {kill.dir}
  /\ UNCHANGED <<structVars, mode, managed, op, kill, launches, procVars,
                 goVars>>

\* The deferred cleanup: wait for the goroutines, remove the directory ...
KillWait(k) ==
  /\ clientWaitGroup = 0
  /\ Goto(k, "wait", "reset")
  /\ dirs' = dirs \ {kill.dir}
  /\ UNCHANGED <<structVars, mode, managed, op, kill, launches, procVars,
                 goVars>>

\* ... forget the runner ...
KillReset(k) ==
  /\ l = "free"
  /\ Goto(k, "reset", "unmanage")
  /\ runner' = 0
  /\ UNCHANGED <<l, address, client, exited, doneCtx, clientWaitGroup,
                 pipesWaitGroup, killOnce, processKilled, socketDir,
                 globalVars, op, kill, launches, procVars, goVars>>

\* ... and leave managedClients.  kill() returns and killOnce is done.
KillUnmanage(k) ==
  /\ Goto(k, "unmanage", "idle")
  /\ kill' = [runner |-> 0, dir |-> 0]
  /\ managed' = FALSE
  /\ killOnce' = "done"
  /\ UNCHANGED <<l, address, runner, client, exited, doneCtx, clientWaitGroup,
                 pipesWaitGroup, processKilled, socketDir, mode, dirs,
                 op, launches, procVars, goVars>>

-----------------------------------------------------------------------------
(* The goroutines of a launch                                              *)

\* The pipes deliver EOF once nobody holds their write ends.
EOF(r) == proc[r] = "dead" /\ r \notin descendants

LogStderrDone(r) ==
  /\ logStderr[r] = "run"
  /\ logStderr' = [logStderr EXCEPT ![r] = "done"]
  /\ pipesWaitGroup' = pipesWaitGroup - 1
  /\ clientWaitGroup' = clientWaitGroup - 1
  /\ UNCHANGED <<l, address, runner, client, exited, doneCtx, killOnce,
                 processKilled, socketDir, globalVars, callerVars, launches,
                 procVars, scanner, drain, waiter, waiterCtx, ctx>>

\* The stderr pump ends at EOF ...
LogStderrEOF(r) == EOF(r) /\ LogStderrDone(r)

\* ... or earlier, on a read error or a panic it recovers from.
LogStderrAbort(r) == LogStderrDone(r)

ScannerDone(r) ==
  /\ scanner[r] = "run"
  /\ scanner' = [scanner EXCEPT ![r] = "done"]
  /\ pipesWaitGroup' = pipesWaitGroup - 1
  /\ clientWaitGroup' = clientWaitGroup - 1
  /\ UNCHANGED <<l, address, runner, client, exited, doneCtx, killOnce,
                 processKilled, socketDir, globalVars, callerVars, launches,
                 procVars, logStderr, drain, waiter, waiterCtx, ctx>>

\* The scanner closes linesCh at EOF, when every line has been received ...
ScannerEOF(r) == EOF(r) /\ line[r] = "none" /\ ScannerDone(r)

\* ... or earlier, on a line too long for it or a panic it recovers from.
ScannerAbort(r) == ScannerDone(r)

\* The drain receives and drops what the scanner sends ...
DrainLine(r) ==
  /\ drain[r] = "run" /\ scanner[r] = "run" /\ line[r] # "none"
  /\ line' = [line EXCEPT ![r] = "none"]
  /\ UNCHANGED <<structVars, globalVars, callerVars, launches, proc,
                 descendants, goVars>>

\* ... until linesCh is closed.
DrainDone(r) ==
  /\ drain[r] = "run" /\ scanner[r] = "done"
  /\ drain' = [drain EXCEPT ![r] = "done"]
  /\ clientWaitGroup' = clientWaitGroup - 1
  /\ UNCHANGED <<l, address, runner, client, exited, doneCtx, pipesWaitGroup,
                 killOnce, processKilled, socketDir, globalVars, callerVars,
                 launches, procVars, logStderr, scanner, waiter, waiterCtx,
                 ctx>>

WaiterGoto(r, from, to) ==
  /\ waiter[r] = from
  /\ waiter' = [waiter EXCEPT ![r] = to]

\* The exit waiter evaluates c.ctxCancel when it first runs, not when Start
\* created the context.  A reattached plugin has no pipes to wait for.
WaiterBegin(r) ==
  /\ WaiterGoto(r, "new", IF Attaching THEN "wait" ELSE "pipes")
  /\ waiterCtx' = [waiterCtx EXCEPT ![r] = doneCtx]
  /\ UNCHANGED <<structVars, globalVars, callerVars, launches, procVars,
                 logStderr, scanner, drain, ctx>>

\* Mutant of WaiterPipes: the end of the pipes is taken for the exit.
WaiterPipesExit(r) ==
  /\ pipesWaitGroup = 0
  /\ WaiterGoto(r, "pipes", "exit")
  /\ UNCHANGED <<structVars, globalVars, callerVars, launches, procVars,
                 logStderr, scanner, drain, waiterCtx, ctx>>

\* The pipes are read to their end before runner.Wait closes them.
WaiterPipes(r) ==
  /\ pipesWaitGroup = 0
  /\ WaiterGoto(r, "pipes", "wait")
  /\ UNCHANGED <<structVars, globalVars, callerVars, launches, procVars,
                 logStderr, scanner, drain, waiterCtx, ctx>>

\* runner.Wait returns.
WaiterWait(r) ==
  /\ proc[r] = "dead"
  /\ WaiterGoto(r, "wait", "exit")
  /\ UNCHANGED <<structVars, globalVars, callerVars, launches, procVars,
                 logStderr, scanner, drain, waiterCtx, ctx>>

\* Mutant of WaiterExited: the exit is recorded without the mutex.
WaiterExitedUnlocked(r) ==
  /\ WaiterGoto(r, "exit", IF Attaching THEN "cancel" ELSE "count")
  /\ exited' = TRUE
  /\ UNCHANGED <<l, address, runner, client, doneCtx, clientWaitGroup,
                 pipesWaitGroup, killOnce, processKilled, socketDir,
                 globalVars, callerVars, launches, procVars, logStderr,
                 scanner, drain, waiterCtx, ctx>>

\* It needs c.l to record the exit.  Its deferred calls then run in the order
\* Done, ctxCancel after Start, and ctxCancel, Done after reattach.
WaiterExited(r) ==
  /\ l = "free"
  /\ WaiterGoto(r, "exit", IF Attaching THEN "cancel" ELSE "count")
  /\ exited' = TRUE
  /\ UNCHANGED <<l, address, runner, client, doneCtx, clientWaitGroup,
                 pipesWaitGroup, killOnce, processKilled, socketDir,
                 globalVars, callerVars, launches, procVars, logStderr,
                 scanner, drain, waiterCtx, ctx>>

WaiterCount(r) ==
  /\ WaiterGoto(r, "count", IF Attaching THEN "done" ELSE "cancel")
  /\ clientWaitGroup' = clientWaitGroup - 1
  /\ UNCHANGED <<l, address, runner, client, exited, doneCtx, pipesWaitGroup,
                 killOnce, processKilled, socketDir, globalVars, callerVars,
                 launches, procVars, logStderr, scanner, drain, waiterCtx, ctx>>

WaiterCancel(r) ==
  /\ WaiterGoto(r, "cancel", IF Attaching THEN "count" ELSE "done")
  /\ ctx' = [ctx EXCEPT ![waiterCtx[r]] = "cancelled"]
  /\ waiterCtx' = [waiterCtx EXCEPT ![r] = 0]
  /\ UNCHANGED <<structVars, globalVars, callerVars, launches, procVars,
                 logStderr, scanner, drain>>

-----------------------------------------------------------------------------
(* The plugin process, as the host sees it                                 *)

\* The plugin writes a line to stdout; the pipe holds one.
PluginPrint(r) ==
  /\ proc[r] = "running" /\ line[r] = "none" /\ ~Attaching
  /\ \E s \in {"good", "bad"} : line' = [line EXCEPT ![r] = s]
  /\ UNCHANGED <<structVars, globalVars, callerVars, launches, proc,
                 descendants, goVars>>

\* It exits by itself: on a shutdown request, on an error, in a crash.
PluginExit(r) ==
  /\ proc[r] = "running"
  /\ proc' = [proc EXCEPT ![r] = "dead"]
  /\ UNCHANGED <<structVars, globalVars, callerVars, launches, descendants,
                 line, goVars>>

\* SIGKILL takes effect.
PluginKilled(r) ==
  /\ proc[r] = "signalled"
  /\ proc' = [proc EXCEPT ![r] = "dead"]
  /\ UNCHANGED <<structVars, globalVars, callerVars, launches, descendants,
                 line, goVars>>

\* It forks a child that inherits its pipes, which may outlive it.
PluginFork(r) ==
  /\ Descendants /\ proc[r] = "running" /\ ~Attaching
  /\ descendants' = descendants \cup {r}
  /\ UNCHANGED <<structVars, globalVars, callerVars, launches, proc, line,
                 goVars>>

DescendantExit(r) ==
  /\ r \in descendants
  /\ descendants' = descendants \ {r}
  /\ UNCHANGED <<structVars, globalVars, callerVars, launches, proc, line,
                 goVars>>

-----------------------------------------------------------------------------
StartStep(k) ==
  \/ RunnerStartError(k) \/ RunnerStart(k)
  \/ SelectHandshake(k) \/ SelectBadLine(k) \/ SelectTimeout(k)
  \/ GetClient(k)

KillStep(k) ==
  \/ KillGate(k) \/ KillOnce(k) \/ KillNothing(k) \/ KillSnapshot(k)
  \/ KillClose(k) \/ KillGrace(k) \/ KillForce(k) \/ KillMark(k)
  \/ KillWait(k) \/ KillReset(k) \/ KillUnmanage(k)

Call(k) ==
  \/ StartAgain(k) \/ StartLaunch(k) \/ StartRunnerFuncError(k)
  \/ StartMkdirError(k) \/ StartReattach(k)
  \/ KillCall(k) \/ CleanupClients(k)

PipeStep(r) ==
  \/ LogStderrEOF(r) \/ ScannerEOF(r) \/ DrainLine(r) \/ DrainDone(r)

WaiterStep(r) ==
  \/ WaiterBegin(r) \/ WaiterPipes(r) \/ WaiterWait(r) \/ WaiterExited(r)
  \/ WaiterCount(r) \/ WaiterCancel(r)

PluginStep(r) ==
  \/ PluginPrint(r) \/ PluginExit(r) \/ PluginKilled(r) \/ PluginFork(r)
  \/ DescendantExit(r) \/ LogStderrAbort(r) \/ ScannerAbort(r)

Next ==
  \/ \E k \in Callers : Call(k) \/ StartStep(k) \/ KillStep(k)
  \/ \E r \in Launches : PipeStep(r) \/ WaiterStep(r) \/ PluginStep(r)

\* Goroutines that can run do run, timers fire and SIGKILL takes effect.
\* Nothing forces the host to call a method or the plugin to do anything.
Fairness ==
  /\ \A k \in Callers : WF_vars(StartStep(k)) /\ WF_vars(KillStep(k))
  /\ \A r \in Launches :
       /\ WF_vars(LogStderrEOF(r)) /\ WF_vars(ScannerEOF(r))
       /\ WF_vars(DrainLine(r)) /\ WF_vars(DrainDone(r))
       /\ WF_vars(WaiterStep(r)) /\ WF_vars(PluginKilled(r))

Spec == Init /\ [][Next]_vars
FairSpec == Spec /\ Fairness

-----------------------------------------------------------------------------
(* Properties                                                              *)

\* A plugin process that nobody has signalled belongs to a Start that is
\* still running or to a client that knows its address: a Start that fails,
\* by an error, a timeout or a closed stdout, never leaves its process behind
\* (the deferred runner.Kill of Start).
FailedStartKillsProcess ==
  \A r \in Launches :
    proc[r] = "running" /\ ~Attaching => l = "held" \/ address = "set"

\* A plugin process that was launched and not signalled can be reached by Kill:
\* it is the one c.runner names, and killOnce has not been used up.  This is
\* what Kill's gate is for: consuming the once too early would "orphan the
\* subprocess if Start subsequently succeeded".
ProcessIsKillable ==
  \A r \in Launches :
    proc[r] = "running" /\ (Attaching => address = "set" /\ mode = "reattach")
      => runner = r /\ killOnce # "done"

\* When the one execution of kill() has ended, so that every later Kill returns
\* at once, no process is left, its exit was recorded in c.exited, and none of
\* the goroutines it waits for is running: "this method blocks until the
\* process successfully exits".
KillLeavesNothing ==
  killOnce = "done" =>
    \A r \in Launches :
      /\ proc[r] \in {"none", "dead"}
      /\ proc[r] = "dead" => exited
      /\ "run" \notin {logStderr[r], scanner[r], drain[r]}
      /\ waiter[r] \in {"off", "cancel", "done"}

\* Exited() and the cancellation of doneCtx, which ends the gRPC client's
\* streams and the graceful wait of kill(), are only ever seen after the
\* process is dead; the cancellation only after Exited() tells so.
ExitReportsAreTrue ==
  doneCtx # 0 =>
    /\ exited => proc[doneCtx] = "dead"
    /\ ctx[doneCtx] = "cancelled" => exited

\* No goroutine calls Done more often than Start called Add, on whichever path
\* it ends: a negative WaitGroup counter is a panic in the host.
NoNegativeWaitGroup == clientWaitGroup >= 0 /\ pipesWaitGroup >= 0

\* While Start waits for the handshake line, doneCtx cannot be cancelled: the
\* exit waiter needs the mutex that Start holds.  A plugin that dies at
\* startup is noticed through the closed linesCh, never through the
\* "plugin exited before we could connect" case.
StartNeverSeesDoneCtx ==
  \A k \in Callers : pc[k] = "select" => ctx[doneCtx] = "live"

\* Every call of Kill returns, also if the plugin ignores the request to quit,
\* never exits by itself or has forked children that keep its pipes open.
KillReturns ==
  \A k \in Callers : pc[k] = "kill" ~> pc[k] = "idle"

\* The exit of a plugin without surviving children is reported to whoever
\* waits on doneCtx, also if Start and Kill compete for the mutex.
ExitIsReported ==
  \A r \in Launches : (waiter[r] # "off" /\ EOF(r)) ~> ctx[r] = "cancelled"

-----------------------------------------------------------------------------
(* The inductive invariants: of every client, and of one that launches or   *)
(* attaches once                                                           *)

InStart(k) == pc[k] \in {"launch", "select"}
InKill(k) == pc[k] \in {"body", "close", "grace", "force", "mark", "wait",
                        "reset", "unmanage"}

\* c.l and killOnce are held by one caller at a time.
OwnerInv ==
  /\ \A k \in Callers : InStart(k) => l = "held"
  /\ \A j, k \in Callers : InStart(j) /\ InStart(k) => j = k
  /\ \A k \in Callers : InKill(k) => killOnce = "running"
  /\ \A j, k \in Callers : InKill(j) /\ InKill(k) => j = k

\* The goroutines that have not called Done, of all launches.
Running(goroutine) == {r \in Launches : goroutine[r] = "run"}
NotDrained ==
  {r \in Launches : ~Attaching /\ waiter[r] # "off" /\ drain[r] # "done"}
NotWaited ==
  {r \in Launches : \/ waiter[r] \in {"new", "pipes", "wait", "exit", "count"}
                    \/ Attaching /\ waiter[r] = "cancel"}

\* The wait groups count them.
CountInv ==
  /\ pipesWaitGroup =
       Cardinality(Running(logStderr)) + Cardinality(Running(scanner))
  /\ clientWaitGroup =
       pipesWaitGroup + Cardinality(NotDrained) + Cardinality(NotWaited)

\* A launch has no goroutine and no process before runner.Start, and the only
\* process nobody has signalled is that of a Start that has not failed.
LaunchStage(r) ==
  /\ r > launches => waiter[r] = "off"
  /\ waiter[r] = "off" => /\ logStderr[r] = "off" /\ scanner[r] = "off"
                          /\ drain[r] = "off"
                          /\ ~Attaching => proc[r] = "none"
  /\ drain[r] # "off" => ~Attaching
  /\ proc[r] = "running" /\ ~Attaching
       => address = "set" \/ (l = "held" /\ r = launches)

EveryLaunchInv == \A r \in Launches : LaunchStage(r)

\* Exit waiters cancel contexts that exist, and while Start waits for the
\* handshake those that would cancel its own are kept off by the mutex.
EveryCtxInv ==
  /\ doneCtx <= launches
  /\ \A r \in Launches : /\ waiterCtx[r] <= doneCtx
                         /\ r > doneCtx => ctx[r] = "live"
  /\ \A k \in Callers :
       /\ pc[k] = "launch" => doneCtx < launches
       /\ pc[k] = "select" =>
            /\ doneCtx = launches /\ ctx[launches] = "live"
            /\ \A r \in Launches : waiterCtx[r] = launches =>
                 waiter[r] \in {"pipes", "wait", "exit"}

\* What the caller that holds c.l in Start knows of the launch it makes.
EveryStartInv ==
  /\ Attaching /\ address = "nil" => launches = 0
  /\ \A k \in Callers :
       /\ InStart(k) => ~Attaching /\ launches \in Launches
       /\ pc[k] = "launch" => waiter[launches] = "off"
       /\ pc[k] = "select" =>
            waiter[launches] # "off" /\ drain[launches] = "off"

\* In every configuration, for any number of launches.
AnyLaunchInv ==
  OwnerInv /\ CountInv /\ EveryLaunchInv /\ EveryCtxInv /\ EveryStartInv

\* Nothing of launch 1 is left for Kill to wait for.
Quiet ==
  /\ proc[1] \in {"none", "dead"}
  /\ logStderr[1] # "run" /\ scanner[1] # "run" /\ drain[1] # "run"
  /\ waiter[1] \in {"off", "done"} \/ (waiter[1] = "cancel" /\ ~Attaching)

\* Launch 1 is the only one.
SoleInv ==
  /\ launches \in {0, 1} /\ runner \in {0, 1}
  /\ \A r \in Launches :
       r # 1 => /\ proc[r] = "none" /\ waiter[r] = "off"
                /\ logStderr[r] = "off" /\ scanner[r] = "off"
                /\ drain[r] = "off"

\* What exists before launch 1, during it and after it.
LaunchInv ==
  /\ launches = 0 => /\ l = "free" /\ address = "nil" /\ runner = 0
                     /\ killOnce = "unused" /\ waiter[1] = "off"
  /\ l = "held" => /\ ~Attaching /\ launches = 1 /\ address = "nil"
                   /\ killOnce = "unused"
  /\ Attaching => \/ launches = 0 /\ address = "nil"
                  \/ launches = 1 /\ address = "set"
  /\ address = "set" => waiter[1] # "off"
  /\ waiter[1] = "off" => /\ doneCtx = 0 /\ logStderr[1] = "off"
                          /\ scanner[1] = "off" /\ drain[1] = "off"
                          /\ ~Attaching => proc[1] = "none"
  /\ waiter[1] # "off" => doneCtx = 1 /\ launches = 1 /\ proc[1] # "none"
  /\ Attaching => logStderr[1] = "off" /\ scanner[1] = "off" /\ drain[1] = "off"
  /\ l = "free" /\ waiter[1] # "off" /\ ~Attaching => drain[1] # "off"

\* What the caller that holds c.l in Start knows.
StartInv ==
  \A k \in Callers :
    /\ pc[k] = "launch" => waiter[1] = "off"
    /\ pc[k] = "select" => /\ waiter[1] \in {"new", "pipes", "wait", "exit"}
                           /\ drain[1] = "off"

\* How far the exit waiter is tells what is known about the process.
WaiterInv ==
  /\ waiter[1] \in {"pipes", "wait", "exit", "cancel"} => waiterCtx[1] = 1
  /\ waiter[1] = "count" /\ ~Attaching => waiterCtx[1] = 1
  /\ waiter[1] \in {"exit", "count", "cancel", "done"} => proc[1] = "dead"
  /\ exited <=> waiter[1] \in {"count", "cancel", "done"}
  /\ ctx[1] = "cancelled" => \/ waiter[1] = "done"
                             \/ Attaching /\ waiter[1] = "count"

\* killOnce is used up only when there is nothing left to kill.
OnceInv ==
  /\ mode # "reattachTest" /\ launches = 1 /\ killOnce = "unused" => runner = 1
  /\ killOnce = "running" /\ runner = 0 => Quiet
  /\ killOnce = "done" => Quiet /\ launches = 1
  /\ mode = "reattachTest" => runner = 0 /\ killOnce = "unused"
  /\ proc[1] = "running" /\ ~Attaching => l = "held" \/ address = "set"

\* What each stage of Kill has established.
KillStage(k) ==
  /\ pc[k] = "once" \/ InKill(k)
       => launches = 1 /\ l = "free" /\ mode # "reattachTest"
  /\ InKill(k) /\ pc[k] # "unmanage" => runner = 1
  /\ pc[k] \in {"close", "grace", "force", "mark", "wait"} => kill.runner = 1
  /\ pc[k] \in {"close", "grace"} => address = "set"
  /\ pc[k] \in {"mark", "wait"} => proc[1] # "running"
  /\ pc[k] \in {"reset", "unmanage"} => Quiet

KillInv == \A k \in Callers : KillStage(k)

\* With Cmd or Reattach there is at most one launch.
OneLaunchInv ==
  mode # "runnerFunc" =>
    SoleInv /\ LaunchInv /\ StartInv /\ WaiterInv /\ OnceInv /\ KillInv

\* At every step of Start, Kill and the exit waiter the relation between the
\* mutex, killOnce, the wait groups, the recorded exit and the process that the
\* code relies on, for one launch or several.
SingleLaunchInv == AnyLaunchInv /\ OneLaunchInv
=============================================================================
