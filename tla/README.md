# A TLA+ verification of go-plugin

go-plugin lets a host program start another program as a plugin and talk to it
over net/rpc or gRPC.  This directory models its concurrent parts in TLA+,
checks the models with TLC on small instances, and proves with TLAPS, for every
value of the constants, each safety property that a passing run checks.

    tlc -config ClientSingle.cfg MCClientLifecycle     # one run
    tlapm ClientLifecycleProofs.tla                    # one proof module

Sections: 1 the system, 2 the modules, 3 the runs, 4 the proofs, 5 what the
models show the code to do against its comments, 6 what is not modelled.

## 1. The system

Paths are relative to `src/`.

| Part | Operations | What is hard about it | Module |
|---|---|---|---|
| Client lifecycle, `client.go` | NewClient, Start, Client, Exited, Kill, CleanupClients, reattach; goroutines: stderr pump, stdout scanner, stdout drain, exit waiter | Start keeps the mutex while it blocks; Kill may come before, during or after Start; the plugin may die, hang or fork at any time; a failed Start leaves goroutines behind | ClientLifecycle |
| Command and reattached runner, `internal/cmdrunner/`, `runner/` | Start, Wait, Kill, pipes | process-group kill, children that keep pipes open | ClientLifecycle |
| Handshake and negotiation, `client.go`, `server.go` | protocolVersion, checkProtoVersion, Serve up to the handshake line, Start after it, the first connection, ReattachConfig | both ends decide by themselves on version, protocol, TLS and multiplexing, and must agree | Negotiation |
| net/rpc stream broker, `mux_broker.go` | Accept, Dial, Run, timeoutWait, Close | Accept and Dial come in any order; two timeouts delete by id; Dial has no deadline | MuxBroker |
| gRPC broker, `grpc_broker.go` | Accept, Dial, Run, StartStream, Send, Recv, timeoutWait, Close | goroutines on both ends of a stream that may break; entries deleted by id | GRPCBroker |
| its multiplexed mode, `grpc_broker.go`, `internal/grpcmux/` | knock, listenForKnocks, muxDial, the two muxers and their listeners | streams carry no id: the order of knocks and Accepts decides who gets them | GRPCMux |
| Plugin server, `server.go`, `grpc_server.go`, `grpc_controller.go`, `rpc_server.go` | Serve, Stop, GracefulStop, Shutdown, ServeConn, Dispense, Quit | several hosts, running calls, a drain window, a done channel with several closers | PluginServer |
| Hosts' clients, `grpc_client.go`, `rpc_client.go` | connect, Dispense, Close | Close is where Kill begins | PluginServer |
| Stdio streaming, `grpc_stdio.go`, `stream.go` | copyChan, StreamStdio, newGRPCStdioClient, Run, copyStream | two channels shared by all hosts; streams and writers that fail | PluginServer |
| Stderr and log parsing, `client.go`, `log_entry.go` | logStderr, parseJSON | long lines come in pieces, with carriage returns at their ends; the level depends on earlier lines | LogStderr |
| Server mux, discovery, errors, test helpers, generated code | | no state that changes | none |

How they interact: `Start` runs the command through the runner, reads the
handshake line and records the address (ClientLifecycle, and Negotiation for
what is in the line).  `Client` connects the gRPC or net/rpc client, which owns
a broker.  `Kill` asks that client to close, which asks the server to shut down
(PluginServer); waits for the exit waiter to cancel doneCtx; and kills the
runner if that does not happen within the grace window.  Meanwhile the plugin's
output reaches the host through logStderr and the stdio streams, and both sides
open further connections through the broker.

What should be true of it, most important first:

1. The host can always kill the plugin it has launched; a failed Start and a
   finished Kill leave no process and no goroutine.
2. Kill returns, and the exit of the plugin is noticed, without deadlock
   between Start, Kill and the exit waiter.
3. Exits are reported only when they happened.
4. A brokered Dial and an Accept of the same id are connected to each other and
   to nobody else, nobody waits for ever, and nothing panics.
5. Host and plugin agree on version, plugin set and transport, or Start fails.
6. A request to shut down ends the server, lets running calls finish for as
   long as it promises, and loses no output it need not lose.
7. What the plugin writes to stderr arrives, up to the ends of its lines, and is
   logged at its level.

PROJECT.json lists the hazards behind these with the lines where they bite.

## 2. Modules

| Module | What it is |
|---|---|
| `ClientLifecycle` | the Client, its callers, its goroutines and the plugin process; properties; inductive invariants |
| `ClientLifecycleProofs` | its proofs: types, the invariant of any number of launches, that of a single launch, and what they give |
| `Rendezvous` | what a stream broker promises: the abstract specification of both brokers |
| `MuxBroker` | the net/rpc broker, one direction; properties; inductive invariants |
| `MuxBrokerProofs` | its proofs: the invariants for any ids; what unique ids give; that it implements Rendezvous |
| `GRPCBroker` | the gRPC broker without multiplexing, one direction; properties; inductive invariant |
| `GRPCBrokerProofs` | its proofs, laid out in the same way, and that no call or entry is left over |
| `GRPCMux` | the gRPC broker over one multiplexed connection, composed with the muxers of both sides |
| `GRPCMuxProofs`, `GRPCMuxWaits` | its proofs: types, where the plugin's muxer takes a stream, the pending entries; that nobody is left waiting |
| `PluginServer` | the plugin process from the handshake to its end, composed with the hosts' clients and stdio |
| `PluginServerProofs` | its proofs: types and every property that its run checks |
| `Negotiation` | the host's Start and the plugin's Serve around the handshake line |
| `NegotiationProofs` | its proofs: types and every property that its run checks |
| `LogStderr` | the goroutine that reads the plugin's stderr |
| `LogStderrProofs` | its proofs: both properties |
| `MC...` | instances for TLC: symmetry sets, and the enumerated configurations of Negotiation and lines of LogStderr |

Operators whose comment begins with "Mutant" are wrong variants of the
definition they name.  Nothing uses them; put in that definition's place, each
must make TLC report the property it is listed with in PROJECT.json.

### 2.1 ClientLifecycle

*State.*  The variables of the first group are the fields of the struct.
`address` and `client` are only nil or set.  `runner`, `doneCtx` and
`socketDir` hold the number of the launch that made them, so that a field that
belongs to an earlier launch can be told from one of the current launch.  A
launch is an attempt of Start that got as far as a runner or, for RunnerFunc,
its socket directory.  `mode`, chosen at Init from the constant set `Configs`,
says which of Cmd, RunnerFunc and Reattach the config sets; NewClient's callers
may set one only.  `pc` is where each caller is, `proc`, `line` and
`descendants` are the processes, the rest are the goroutines of each launch.

*Atomicity.*  Start keeps `c.l` across runner.Start and the wait for the
handshake, so it is several actions between which `l = "held"`.  Every other
critical section is short and is one action that needs `l = "free"`.  What
happens outside the mutex (the reads and writes of wait groups, contexts,
channels and processes) is an action per blocking call, so that every
interleaving the mutex allows is explored.

| Code | Actions |
|---|---|
| Start: already started | StartAgain |
| Start: create the runner | StartLaunch, StartMkdirError, StartRunnerFuncError |
| Start: run it | RunnerStart, RunnerStartError |
| Start: select and deferred calls | SelectHandshake, SelectBadLine, SelectTimeout (StartFail) |
| reattach | StartReattach |
| Client after Start | GetClient |
| Kill, CleanupClients | KillCall, CleanupClients, KillGate, KillOnce |
| kill | KillNothing, KillSnapshot, KillClose, KillGrace, KillForce, KillMark |
| kill, deferred | KillWait, KillReset, KillUnmanage |
| logStderr, stdout scanner, drain | LogStderrEOF/Abort, ScannerEOF/Abort, DrainLine/Done |
| exit waiter | WaiterBegin, WaiterPipes, WaiterWait, WaiterExited, WaiterCount, WaiterCancel |
| plugin (external) | PluginPrint, PluginExit, PluginKilled, PluginFork, DescendantExit |

*Abstractions.*  A line of stdout is a handshake that Start accepts or one it
rejects; the pipe holds one.  No clock: a timeout may fire whenever its select
is waiting.  Errors of Start that change no state (checks of the config, the
checksum, certificates) are not actions.  client.Close is one action that
succeeds or fails.  A pid is never recycled.

### 2.2 The brokers: Rendezvous, MuxBroker, GRPCBroker

`Rendezvous` is what both brokers are for: a call of Dial and a call of Accept
name an id; a Dial and an Accept of the same id may be joined, each with one
partner at most; what is joined stays joined; a Dial succeeds only if it is
joined.  Nothing is said of how, and calls may fail.  Both brokers are shown to
implement it (`INSTANCE Rendezvous`, property ImplementsRendezvous).

*MuxBroker* is one direction of the net/rpc broker: the peer dials, this end
runs `Run` and accepts.  The two ends run the same program on the same session,
and the directions share nothing but the session.  A call of Dial and the
stream it opens have the same name.  An entry (`muxBrokerPending`) is named
after the call or stream for which getStream allocated it, so allocation needs
no bound.

| Code | Actions |
|---|---|
| Dial | DialOpen, DialWrite, DialReadAck, DialReadError, DialFails |
| Run | RunAccept, RunRead, RunQueue, RunDuplicate, RunReadError, RunExit |
| getStream | EntryOf, GetStream, part of AcceptCall and RunRead |
| Accept | AcceptCall, AcceptReceive, AcceptCloseDone, AcceptAck, AcceptAckError, AcceptExpire, AcceptTimeout |
| timeoutWait | ReaperDone, ReaperExpire, Reap |
| Close | Close |

A timer and what follows it are two actions (AcceptExpire then AcceptTimeout,
ReaperExpire then Reap), because the deletion needs the mutex and others may
take it first.  `close(p.doneCh)` of a closed channel sets `panicked`, after
which nothing moves.

`Policy` is how callers pick ids.  NextId hands each id out once until the
counter wraps, which is `"unique"`: one Dial and one Accept per id.  Accept's
comment asks only that an id is not used "multiple times ... at one time":
`"sequential"` lets an id be used again once the earlier call has returned.
`"duplicate"` puts no limit on Dial.

*GRPCBroker* is one direction of the gRPC broker.  Here the two ends do
different things: the accepting end opens a listener and sends its address (a
ConnInfo, named after its Accept) down a gRPC stream, and the dialling end
leaves it in a pending entry for Dial.

| Code | Actions |
|---|---|
| StartStream at either end | StreamOpen, StreamOpenFails, AcceptEndReturns, SenderSend, SenderExit, ReaderRecv, ReaderReturns |
| Accept, Send | AcceptCall, SendQuit, SendHand |
| Run, Recv, getClientStream | RunRecv, RunQueue, RunDrop, RunExit, EntryOf |
| timeoutWait | ReaperDone, ReaperExpire, Reap |
| DialWithOptions | DialCall, DialReceive, DialCloseDone, DialExpire, DialTimeout |
| Close; a broken stream (external) | Close; StreamBreaks |

When the stream has ended, what is on it may still be received or be lost, and
a Send on it may or may not give an error, as in grpc-go.

### 2.3 GRPCMux

The gRPC broker when one yamux connection carries everything.  The dialling end
knocks with an id, waits for the ack and opens a stream; the stream does not say
whose it is.  `side` says which end accepts, because the muxers differ: on the
host every unblocked listener accepts from the session by itself; on the plugin
one loop accepts and looks at `knockCh`.  `fault` is "none", "timers" (any timer
may fire at any time) or "closes" (listeners are closed, their ids accepted
again).  The broker's own stream is reliable here; GRPCBroker has its failures.

| Code | Actions |
|---|---|
| knock, muxDial | DialKnock, DialWait, DialAck, DialExpire, DialTimeout, DialOpen |
| Run, timeoutWait | RunAck, RunAckQueue, RunKnock, RunKnockQueue, Reap |
| Accept, Listener, the listener's Close | AcceptCall, AcceptRegister, ListenerClose |
| listenForKnocks | ListenStart, ListenKnock, ListenAck, ListenDone |
| AcceptKnock | AcceptKnockHost, AcceptKnockUnblock, AcceptKnockPlugin |
| blocked listeners, the servers on them | Serve, ServeEOF, HostUnblocked, HostAccept |
| GRPCServerMuxer.Accept | MainAccept, MainRoute, MainHandoff |

### 2.4 PluginServer

The plugin process from the moment it serves, with the hosts connected to it:
the one that started it and others that have reattached.

| Code | Actions |
|---|---|
| newGRPCClient with newGRPCStdioClient | GRPCConnect |
| newRPCClient with SyncStreams and ServeConn | RPCConnect |
| calls of a plugin; net/rpc Dispense | GRPCCall, CallEnd; DispenseCall, Dispense, DispenseServe, DispenseTimeout |
| GRPCClient.Close, RPCClient.Close | CloseCall, CloseRequestFails, QuitAnswer, CloseConn |
| grpcControllerServer.Shutdown, GracefulStop, Stop | Shutdown, GracefulStop, GracefulReturns, DrainTimeout |
| controlServer.Quit, RPCServer.done | Quit, Done |
| GRPCServer.Serve, RPCServer.Serve | GRPCServeReturns, RPCServeReturns, AcceptFails |
| broker's AcceptAndServe | SideInterrupt, SideReturns |
| Serve's select | MainDone, MainCancel |
| stdio, the plugin | Write, CopyChan, StreamStdioTake, CopyStreamRead, StreamSend, StreamDone |
| grpcStdioClient.Run and the host's copyStream | HostWrite, HostWriteFails, HostWritePanics, HostRecvError |
| lost connections (external) | SessionFails, Disconnect |

Of grpc.Server the model keeps what the code relies on: GracefulStop refuses
new calls and returns when no handler runs; Stop closes the connections; Serve
returns after either has finished, also if a handler ignores its context (the
handler's goroutine is left behind).  Once Serve has returned the process ends,
except in test mode.

A host of a gRPC plugin has one stream, "stdio", which carries both channels; a
host of a net/rpc plugin has one for each.  `streamer[h]` are the streams on
which the plugin goes on sending to h, `recv[h]` those that the host goes on
reading.  The two differ when something goes wrong on the host's side, and the
model has each way the code lets that happen.  If StreamStdio is Unavailable or
Unimplemented, newGRPCStdioClient goes on without and Run returns at once: no
stream.  A writer that returns an error loses the chunk (`refused`); Run goes on
with the next one, copyStream returns.  A writer that panics is recovered in Run,
which returns, while StreamStdio still sends to a stream that nobody reads; in
copyStream nobody recovers, the host dies and its connection with it
(SessionFails).  An error of Recv on a connection that stands (`reset`) ends Run
and, as its context is done, StreamStdio.

### 2.5 Negotiation

The state is one client's fields and one plugin's variables of Serve.  The
scenario, a configuration of each, is chosen in Init.  The host's steps are
StartChecksum, StartLaunch and one action for each way Start can end
(StartNoLine, StartVersionRefused, StartTranslateFails, StartProtocolRefused,
StartMuxRefused, StartCertPanics, StartOK); the plugin's are the stages of
Serve (ServeCookie, protocolVersion, ServeListenUnix or ServeListenTCP and
ServeBindTCP, ServeTLS, ServePipeFails, ServeInit, ServeAnnounce,
ServeReturns).  Connect,
NewGRPCClientMuxer and SessionTimeout are the first connection; Reattach is
another client with this one's ReattachConfig; NewClient is another client with
the same SecureConfig. `protocolVersion` is the loop over the plugin's
versions, a pass at a time: `untried` are the versions it has yet to come to,
and `Record` is what it keeps of the one it is at.  `Check` is an operator.
`MinPort` and `MaxPort` are what NewClient makes of the configured range, the
default one if both are zero; ServeListenTCP reads it from the environment, and
ServeBindTCP is a pass of the loop over its ports, in which net.Listen may fail
for any port (`refused` records for which it did).
Plugin sets are named by how they were registered, so that the wrong set can
be told from the right one.

### 2.6 LogStderr

One goroutine, a line at a time.  A line is its form (plain, tagged, JSON, JSON
that does not parse, the start of a stack trace) with its level, its length,
which may be zero, and the places of its carriage returns.  The last line may
have no newline.  ReadLine returns a line in pieces of Buffer bytes; it strips
"\n" and "\r\n", and puts a carriage return at the end of a full buffer back.
LogPiece is the branch for pieces of a long line, LogLine the one for whole
lines, LogEnd the end of the stream, LogReadError its other errors, WriterPanics
the recovered panic of the host's own writer.  `EntryLevel` is the switch over the
level of a JSON entry: one without a level, or with the level "off", which
hclog parses as well, is logged at Debug.  The properties say where each byte
and each entry has to be: byte b of line i at position Start(i) + b of the
copy, Start(i) being the number of bytes of the lines before it and their
newlines, and for a line that fits the buffer one entry or none.  The copy is not
the original byte for byte: "\r\n" becomes "\n", and a last line without a newline
gets one, unless it ended with a full buffer.  StderrCopied says that this is all.

## 3. Runs

| Run | Instance | Checks | Result |
|---|---|---|---|
| client_single | Cmd, Reattach, Reattach in test mode; 2 callers; plugin may fork | ProcessIsKillable, KillLeavesNothing, ExitReportsAreTrue, SingleLaunchInv, KillReturns, ExitIsReported | pass, 29 008 states |
| client_runnerfunc | RunnerFunc, 2 callers, 2 launches | FailedStartKillsProcess, StartNeverSeesDoneCtx, NoNegativeWaitGroup | pass, 2 584 094 states |
| client_orphan | RunnerFunc, 1 caller, 2 launches | ProcessIsKillable | violated |
| mux | 2 Dials, 2 Accepts, 2 ids, unique; FairSpec | NoDoubleClose, QueuedIsReaped, Meet, DialReturns | pass, 280 443 states |
| mux_reuse | 3 Dials, 2 Accepts, 1 id, duplicate | SoleOwner, ImplementsRendezvous | pass, 603 198 states |
| grpc_broker | 2 Dials, 2 Accepts, 2 ids, 3 calls; unique and duplicate | UniqueIdsNeverCollide, ImplementsRendezvous, EntriesReaped, Meet, AcceptReturns | pass, 183 762 states |
| grpc_mux | 2 Dials, 2 Accepts, 2 ids; both sides; each kind of fault | TypeOK, PluginRoutesById, NobodyLeftWaiting, EntriesReaped | pass, 2 371 336 states |
| grpc_mux_host_routes | the host's side, ids dialled one after the other, no faults | HostRoutesById | violated |
| plugin_server | 2 hosts, 2 channels, 2 chunks, 3 events; gRPC and net/rpc; test mode or not | TypeOK, DoneOnce, ServerEnds, DrainBeforeCut, QuitReported, NothingLeftBehind, OutputInOrder, OutputArrives | pass, 1 869 648 states |
| negotiation | 3 versions: every registration of the host with every registration of the plugin, first Start and retry; every mixture of transport options; every range of ports up to 6, with 4 ports and the default 2 to 4 | TypeOK, NegotiatesHighest, TransportAgrees, ReattachSame, SocketRemoved, PortInRange | pass, 3 410 241 states |
| negotiation_secure | a checksum, two Starts or two clients | RightIsFoundRight | violated |
| log_stderr | up to 3 lines of 7 forms, lengths 0 to 4, with and without carriage returns, the last one ended or not; io.EOF or an error; buffer of 2, 3 levels of the logger | StderrCopied, LoggedAsWanted | pass, 1 224 312 states |

What each property says is in the comment above it.  The property of a violated
run is what a comment of the code says; the comment is quoted under "findings"
in PROJECT.json, and section 5 tells the story of each.

### Bounds

* Client: two callers are one in Start against one in Kill, two Kills, two
  Starts.  The safety properties are proved for any number.  MaxLaunch is 1
  with Cmd or Reattach (an exec.Cmd cannot be started twice, and reattach sets
  the address) and 2 with RunnerFunc, the least number at which the goroutines
  of an earlier launch meet a later one.
* Brokers: two Dials and two Accepts are one pair that meets and one that times
  out on another or the same id.  mux_reuse has three Dials, so that one is
  queued, one is turned away as a duplicate, and one comes after the first was
  taken.  GRPCBroker's MaxCalls bounds the calls that are made in one
  behaviour; of its three, two compete for the partner of the third.  The same
  properties hold with all four calls (1 493 512 states).
* GRPCMux: two Dials and two Accepts, so that two ids compete, or one id is
  used twice.
* PluginServer: two hosts, one that closes and one that has a call running; two
  chunks, on one channel (their order) or on both.  MaxEvents bounds what comes
  from outside in one behaviour: calls, chunks, and failures of those who read
  the output, together at most three, any three (a call of each host and a chunk,
  two chunks and a writer that fails, ...).  The same properties hold without it
  (10 030 254 states), and the proofs have no such bound.
* Negotiation: three versions, 0 included, which is what an unset
  ProtocolVersion is; two of them common leave one that is not.  Versions,
  transport, ports and checksum are varied one family at a time; the protocol,
  which the versions and the transport share, is varied in both.  MaxStarts is
  2: a first Start and one after it.  DefaultMin and DefaultMax stand for 10000
  and 25000, IntMax for the largest int32: 2, 4 and 5 leave ports below, in and
  above the default range, and values that do not parse.
* LogStderr: lengths from none over the size of the buffer to twice that;
  carriage returns at the end of the line and of the buffer; three lines, so that
  a stack trace can be interrupted and go on; a logger at Debug, at Info, so that
  something is below, at and above its level, and one that is off.
* Symmetry sets are used only in runs without liveness properties
  (ImplementsRendezvous, in mux_reuse, is a safety property).  GRPCBroker and
  GRPCMux number calls and ids and use them in order instead.
* Only the client's runs check for deadlock: a client can always be called
  again.  In the other models calls, chunks and lines are finitely many, and
  when all are done nothing is left to do.

### Fairness, and liveness without it

* Client: weak fairness of each caller inside Start and Kill, of the pipe
  readers once there is something to read or EOF, of the exit waiter, and of
  SIGKILL taking effect.  All are goroutines that the Go scheduler runs when
  they can; the steps that wait for a timeout (SelectTimeout, KillGrace) are
  bounded by timers in the code.  That client.Close returns is part of the
  assumption; the gRPC one has a deadline, the net/rpc one does not (a
  listed hazard).  Nothing is assumed of the plugin or of the host's callers:
  the plugin may hang for ever, and nobody has to call Kill.
* MuxBroker: weak fairness of each goroutine's next step (`Progress`) and of
  each armed timer (`TimersFire`), for DialReturns.  A Dial that has opened its
  stream writes its id: Run reads it before it takes the next stream.
* Elsewhere every call takes finitely many steps of `Work` and timers, so what
  must eventually happen is stated of the states in which no such step is left
  (`Quiescent`), or none but timers (`OnlyTimersLeft`): Meet of both brokers and
  AcceptReturns hold without any timer firing.  This is weak fairness of those
  steps without the cost of a temporal property, and TLC finds a deadlock as a
  plain invariant violation.  The two predicates are written out goroutine by
  goroutine (what each waits for) so that they can be reasoned about; on the
  instances of the runs TLC has found them equal to "no step of Work is
  enabled".

## 4. Proofs

All theorems hold for every value of the constants.  The only assumptions are
the ASSUMEs of the modules (MaxLaunch is a positive natural number and Buffer at
least 2, which is less than bufio allows; other bounds, lengths, versions and
ports are natural numbers; the default range of ports lies in an int32; the
configurations and the forms of lines are those the module gives, flags are
Booleans, calls, ids, chunks and None are distinct) and, where a theorem says
so, that RunnerFunc is not among the configurations or that ids are unique.

A leaf that is left to Z3 names three tactics, `SMT, Z3, SMTT(20)`.  They are
tried in turn: tlapm cuts off the encoding of a leaf after five seconds, and a
second attempt makes the proofs independent of how busy the machine is.

### ClientLifecycle

| Theorem | States | Configurations |
|---|---|---|
| TypeCorrect | TypeOK | all |
| AnyLaunch | AnyLaunchInv | all |
| NoWaitGroupPanic | NoNegativeWaitGroup | all |
| NoProcessLeftByStart | FailedStartKillsProcess | all |
| DoneCtxLive | StartNeverSeesDoneCtx | all |
| SingleLaunch | SingleLaunchInv | all; its second part is about Cmd and Reattach |
| Killable | ProcessIsKillable | Cmd, Reattach |
| NothingLeft | KillLeavesNothing | Cmd, Reattach |
| TrueReports | ExitReportsAreTrue | Cmd, Reattach |

With RunnerFunc ProcessIsKillable is false (client_orphan).

None of the properties is inductive.  `AnyLaunchInv` is, with TypeOK, for any
number of launches, whose goroutines share the fields and the wait groups:

* OwnerInv: one caller in Start's critical section, one in kill();
* CountInv: the wait groups count the goroutines that have not called Done, of
  all launches together (as cardinalities), the fourth Add (for the drain)
  included;
* EveryLaunchInv: a launch has no goroutine before runner.Start, and the only
  process nobody has signalled is that of a Start that has not failed;
* EveryCtxInv: the exit waiters that would cancel the context of a Start that
  waits for its handshake are kept off by the mutex it holds;
* EveryStartInv: what the caller in Start knows of the launch it makes.

`OneLaunchInv` adds, for a client that launches or attaches once, what Kill
relies on; SingleLaunchInv is both:

* SoleInv, LaunchInv: there is one launch, and what exists before, during and
  after it;
* StartInv: while Start waits for the handshake the exit waiter has not passed
  the mutex and the drain is not running;
* WaiterInv: how far the exit waiter is tells whether the process is dead, the
  exit recorded and the context cancelled;
* OnceInv: killOnce is used up only when nothing is left to kill;
* KillInv: what each stage of kill() has established.

KillLeavesNothing, for example, is CountInv at the moment KillWait sees zero
(lemma WaitedFor: no goroutine left, so the waiter is past runner.Wait and the
process is dead), carried to the end of kill() by KillInv and kept by OnceInv
because nothing restarts an ended launch (lemma QuietIsStable).  There is one
lemma per conjunct, with one step per action.

### MuxBroker

| Theorem | States |
|---|---|
| TypeCorrect | TypeOK |
| Ownership | SoleOwner, with IdInv and AckInv, for any ids |
| PairedAlways | Paired, for any ids |
| BrokerIsRendezvous | ImplementsRendezvous, for any ids |
| Unique | UniqueInv, if ids are unique |
| NoPanic, Reaped, Reachable | NoDoubleClose, QueuedIsReaped, AcceptIsReachable, if ids are unique |
| DialsMeet | Meet, if ids are unique |

SoleOwner needs IdInv (an entry is reached only by the id it was made for, a
stream only by the id written on it) to know that a stream that moves had one
owner before.  Paired follows from AckInv: an ack was written by the Accept
that holds the stream.  UniqueInv adds that every id has one Dial and one
Accept, that a doneCh was closed by an Accept of that entry, and that a waiting
Accept's entry stays in the map until its stream has been queued: the deletion
by id in timeoutWait can then only hit its own entry.

DialsMeet follows a stream to where it must be when only timers are left: it is
in one of the places a stream can be (PlaceInv), while the session is open Run
takes it out of the backlog (OpenInv), a queued stream is in the entry on which
the Accept of its id waits (QueuedInv), and an Accept that has it has
acknowledged it (AckedInv).

In the refinement, DialOpen is the abstract Dial, AcceptCall the abstract
Accept, AcceptReceive the Join and a DialReadAck whose ack agrees the Connect;
all other steps stutter.  IdInv, SoleOwner and AckInv give the abstract guards.

### GRPCBroker

| Theorem | States |
|---|---|
| Correct | TypeOK, IdInv and SoleOwner, for any ids |
| BrokerIsRendezvous | ImplementsRendezvous, for any ids |
| NeverCollide | UniqueIdsNeverCollide |
| NoEntryLeft | EntriesReaped, for any ids |
| AcceptsReturn | AcceptReturns, for any ids |
| DialsMeet | Meet |

IdInv: an entry is reached, through the map, by Run and by Dial, only by the id
it was allocated for.  SoleOwner: a ConnInfo is on the wire, in the hands of
the receive loop or of Run, in one channel or with one Dial, and in one of them
only.  DialReceive is the abstract Join: IdInv gives the id and SoleOwner that
neither end is joined yet.  The three are inductive only together.
NeverCollide adds DoneInv, that a closed doneCh was closed by a Dial of that
entry, and UniqueInv, that each id has one Dial and one Accept: an entry is then
closed by one Dial only, and the channel that Run finds full would hold a second
ConnInfo of the same Accept.

NoEntryLeft rests on CareInv: every entry in the map has a Dial that waits on
it, a timeoutWait that will delete its id, or is in the hands of Run.  FreshInv
(an entry that Run may allocate is not in use) and ReapInv (a queued ConnInfo
has its own timeoutWait) keep it.  AcceptsReturn rests on StreamInv, which says
why each goroutine of the stream may have left.  DialsMeet adds that with unique
ids a Dial, Run and timeoutWait of one id hold the same entry until a partner
has deleted it (PairInv), and that no ConnInfo is lost after Run (HeldInv) or
before it (NoLossInv).

### GRPCMux

| Theorem | States |
|---|---|
| TypeCorrect | TypeOK, on both sides and with every kind of fault |
| RoutesById | PluginRoutesById |
| NoEntryLeft | EntriesReaped |
| NobodyWaits | NobodyLeftWaiting, on both sides |

IdInv is the bookkeeping: an entry of either map is reached only by the id it was
made for, and what its channel holds has that id.  RouteInv is the argument.  A
stream carries no id, so the plugin's loop trusts `knockCh`, and OneAck says why
it may: from the moment a knock's id is put there until its stream is routed there
is one acknowledgement or stream in the whole system, and it is of that id.  It is
being sent, on the wire, in the hands of Run, queued in an entry, with a Dial that
opens its stream, in the session's backlog or with the loop (one disjunct for
each, `Elsewhere` says that the other places are empty).  A late ack that waits in
an entry counts, which is what keeps the next knock out of knockCh.  Delivered
carries the result to the connections.  On the host there is no such invariant,
and the property is false (grpc_mux_host_routes).

NoEntryLeft: a knock, and the ack that answers it, is in one place at a time
(PassInv); a new entry was never used before (FreshInv); dialMutex is held by
the one Dial that is between its knock and its stream (HoldInv); and every entry
in the map has a Dial, Run or a timeoutWait that will delete it (KeepInv).

NobodyWaits, in GRPCMuxWaits, is about behaviours without faults.  Entries stay
where a knock's two ends will look (ClientStay, ServerStay), so that the message
of a waiting Dial is on its way or queued where somebody takes it (OnItsWay).
What is left is that a Dial's stream finds a taker.  On the host TokenInv counts:
the tokens, in a waitCh or with a listener that goes on to session.Accept, are as
many as the streams in the backlog and the one that a granted Dial is to open; so
a stream that waits has a listener that is about to accept.  On the plugin
KnockInv says that a full knockCh has a stream on its way, so that no listener
stays in AcceptKnock.  GrantInv, RegisterInv and StreamInv connect the grants,
the listeners and the streams to the Dials.

### PluginServer

| Theorem | States |
|---|---|
| TypeCorrect | TypeOK |
| ClosedOnce | DoneOnce |
| QuitIsReported | QuitReported |
| DrainsFirst | DrainBeforeCut |
| OutputOrdered | OutputInOrder |
| ServeEnds | ServerEnds |
| NothingLeft | NothingLeftBehind |
| OutputComplete | OutputArrives |

DoneInv says that a gRPC server closes DoneCh only as it ends and that
RPCServer.done forgets a channel it has closed; QuitInv that a Close past its
request has a Quit or an error behind it; DrainInv that a server that has
stopped has drained its calls or run out of time.  OutputInOrder looks at the
hosts' output only, and is inductive with three facts about everything
upstream: a chunk stays with its channel, travels on that channel's stream
(LaneInv) and was written (PlaceInv), each place
is in order and ahead of those behind it (OrderInv), and what one host's stream
has taken no other has (ApartInv).

EndInv is the argument of ServeEnds and NothingLeft: whatever has ended Serve or
stopped the server has left its mark (DoneCh, the listener, the broker, the
stage of the Shutdown), so that a state with a mark in which everyone waits is
one in which Serve has returned.  OutputComplete needs StreamInv (whoever holds a
chunk for a host is one of its streams; while the host stays these are all the
streams of the protocol or none, and nothing is on its way on one that does not
exist) and NoLossInv: until a connection or a StreamStdio ends, a chunk that was
written is at one of the places it passes, or a writer has refused it.  When
everyone waits and the hosts read the streams they have, all these places are
empty but the hosts' output.

### Negotiation

| Theorem | States |
|---|---|
| TypeCorrect | TypeOK |
| HighestNegotiated | NegotiatesHighest |
| TransportSettled | TransportAgrees |
| ReattachesAlike | ReattachSame |
| SocketGone | SocketRemoved |
| PortFits | PortInRange |

The versions are any set of natural numbers, and the configurations any.  TriedInv
is the loop's invariant (the versions tried are not the host's, and the last of
them is the result); ChosenInv is what it leaves; StartInv says that the
environment of a first Start lists what the host's author registered, in whichever
field, and that what is adopted comes from there.  TransportInv follows TLS and
multiplexing from the host's configuration through the environment, Serve's
decisions, the line and Start's: each conjunct is one end's knowledge of the
other, and lemma Agree puts them together at the connection.  SocketInv says where
Serve must be for there to be a socket.  PortInv is the invariant of the loop over
the ports: those below the one to be tried, or listened on, were refused, and no
others.

### LogStderr

| Theorem | States |
|---|---|
| Copied | StderrCopied |
| LogsLines | LoggedAsWanted |

For any number of lines, their lengths, forms, levels and carriage returns, any
size of the buffer and any level of the logger.  ReaderInv is where ReadLine is:
`continuation` holds exactly in the middle of a line that does not fit the buffer,
and the reader never stands behind a carriage return that the end of the line may
take with it.  BytesInv
says that what has been written is what has been read, byte by byte; the start of
a line is a cardinality, so that the lemmas about it need no induction.  LogInv
says that inPanic remembers a stack trace among the lines before this one, and
that each of these has its entry if the logger puts it out; ErrorInv is about the
entry for an error of the reader.

### Only model-checked

KillReturns, ExitIsReported and DialReturns are liveness under fairness, out of
the prover's reach; TLC checks them on the instances above.  That `Quiescent` and
`OnlyTimersLeft` describe the states in which no step is enabled is ENABLED, and
is checked by TLC as well (section 3).

## 5. Where the code differs from its comments

Three differences are runs of their own.

* **client_orphan.**  With RunnerFunc a Start that fails leaves `c.address`
  nil and `c.runner` set.  Kill then runs and uses up killOnce.  The next Start
  launches again and succeeds, and every Kill after that returns at once.
* **grpc_mux_host_routes.**  On the host every unblocked listener accepts from
  the shared session, and a stream carries no id.  A listener that has been
  unblocked but has not reached session.Accept when the next id is dialled can
  take that id's stream, although the ids are used one after the other.
* **negotiation_secure.**  SecureConfig.Check writes the file into a hash that
  is never reset: a second check of the right file fails.

The others are seen in the models' behaviours and kept out of the properties by
a premise; each takes a configuration or a use that the passing runs exclude.

* With RunnerFunc the exit waiter of a failed launch sets `c.exited`, which
  nothing resets, so that Exited() is true while a second launch runs
  (client.go:914); and `socketDir` of the failed attempt is overwritten and
  never removed (client.go:826).
* With DisableProcessGroupKill a child that inherited the pipes keeps their
  readers, and so clientWaitGroup.Wait in kill, blocked after the plugin is
  dead (client.go:605).
* A net/rpc broker id that is used again, after its first Accept and Dial have
  returned but before its timeoutWait has run, meets the old entry: Accept
  closes a closed channel (mux_broker.go:59), or the stream is queued where
  timeoutWait leaves it unread and Dial waits for ever (mux_broker.go:213).
  With ids from NextId neither can happen: NoDoubleClose and DialReturns.
* The plugin's muxer acknowledges a knock before its listener exists
  (grpc_server_muxer.go:202), where the interface's comment promises an error;
  the stream that follows then ends the accept loop (`main = "failed"`).  A
  listener closed between the lookup and the handoff blocks the loop
  (grpc_server_muxer.go:146).
* In multiplexed mode the timeoutWait of an earlier ack deletes the entry a
  later knock of the id waits on (grpc_broker.go:680); that knock times out.
* A Start that fails after it has adopted a version leaves Plugins set, and the
  next Start registers that set under the unversioned number (client.go:1009).
* A host that is itself a plugin passes PLUGIN_CLIENT_CERT on: its plugin
  answers with a certificate, and without AutoMTLS loadServerCert writes to a
  nil TLSConfig (client.go:1092).
* A multiplexing plugin does not remove its socket file: the muxer takes the
  listener's place and its Close closes the session only
  (grpc_server_muxer.go:161).  Nor is it removed if a host asks for a socket group
  and the chown or chmod fails.
* DrainBeforeCut is about plugins outside of tests and servers whose Accept has
  not failed: a test's cancelled context calls Stop, which cuts calls at once
  (server.go:531).  When Accept fails in a test, Serve returns without a Stop and
  leaves the broker open (server.go:536); NothingLeftBehind excludes that.
* A multiplexing plugin gives a host five seconds to connect
  (grpc_server_muxer.go:98).  The first connection of one that comes later is
  refused although both agree, which TransportAgrees allows.
* A host whose stdio writer has panicked stops reading, and its StreamStdio goes
  on taking chunks that other hosts could have had (grpc_stdio.go:136).

## 6. Not modelled

* The operating system beyond what the code sees: recycled pids, the size of
  pipes, the interval at which the reattached runner polls.
* yamux, grpc-go, net/rpc, bufio and crypto/tls, which are external: they are
  actions modelled from how the code uses them.  The loss of a multiplexed
  session after it is up.
* Generating certificates, encoding and decoding of JSON and base64.
* Ping, which changes no state.
* Listeners that Accept of the gRPC broker leaves open when it fails
  (grpc_broker.go:350).
* NextId's counter: the id policies stand for it.
* Many clients in managedClients: the model has one.
* Server mux, discovery, error values, test helpers and generated code: no
  state that changes.
