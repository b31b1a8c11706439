---------------------------- MODULE PluginServer ----------------------------
(***************************************************************************)
(* The plugin process: Serve, the gRPC and the net/rpc server with their   *)
(* controllers, the stdio streams and the end of it all, with the hosts'   *)
(* Close (one host started the plugin, others have reattached to it).      *)
(*                                                                         *)
(* grpc-go and yamux are external.  Of grpc.Server the model keeps what    *)
(* the code relies on: GracefulStop and Stop close the listener and refuse *)
(* new calls; GracefulStop returns when no handler runs; Stop closes the   *)
(* connections at once; Serve returns after either has finished.           *)
(*                                                                         *)
(* A chunk of output is its channel and its number, in the order the       *)
(* plugin writes them.  gRPC carries it to a host in one stream, which one *)
(* StreamStdio writes and one Run reads; net/rpc in a stream per channel,  *)
(* each with a copyStream at either end.                                   *)
(***************************************************************************)
EXTENDS Naturals, Sequences, FiniteSets

CONSTANTS Hosts, Channels, None,
          Protos,     \* subset of {"grpc", "netrpc"}
          Tests,      \* subset of BOOLEAN: ServeConfig.Test is set
          MaxWrites   \* bound on the chunks of output

ASSUME ProtosAssumption == Protos \subseteq {"grpc", "netrpc"} /\ Tests \subseteq BOOLEAN
ASSUME WritesAssumption == MaxWrites \in Nat

\* A chunk of output: its channel and its number.
Chunks == Channels \X (1..MaxWrites)

ASSUME NoneAssumption == None \notin Chunks

\* The names of the streams of a connection.
Streams == Channels \cup {"stdio"}

VARIABLES
  proto, test,
  main,       \* Serve: "select", "wait" or "returned"
  serving,    \* the goroutine `server.Serve(listener)' runs
  listening,  \* the listener is open
  doneCh, doneNil, panicked,  \* DoneCh closed; RPCServer.DoneCh nil; closed twice
  stopped,    \* grpc.Server: Stop or GracefulStop has finished
  failed,     \* the listener's Accept has failed
  broker,     \* GRPCServer.broker: "open" or "closed" (and nil)
  side,       \* a server run by the broker's AcceptAndServe
  conn,       \* the connection of each host: "none", "open" or "closed"
  close, closeErr,  \* each host's Close, and the hosts to which it gave an error
  shutdown,   \* the goroutine that Shutdown starts for a host
  call, handler,    \* a plugin's call of each host, and the goroutine for it
  \* stdio
  writes,     \* chunks written so far
  pipe,       \* what each pipe holds
  copyBuf,    \* copyChan's chunk, of each channel, or None
  streamer,   \* the streams of each host that StreamStdio or copyStream writes
  held,       \* the chunk it has read, by stream, or None
  reset,      \* the hosts whose StreamStdio call has failed
  wire,       \* chunks on the way to each host, by stream
  recv,       \* the streams that the host's Run or copyStream reads
  out,        \* chunks each host has written to SyncStdout and SyncStderr
  refused     \* chunks that the host's writer did not take

srvVars  == <<main, serving, listening, doneCh, doneNil, panicked, stopped,
              failed>>
brkVars  == <<broker, side>>
hostVars == <<conn, close, closeErr, shutdown>>
callVars == <<call, handler>>
outVars  == <<out, refused>>
ownVars  == <<writes, pipe, copyBuf, streamer, held, reset, outVars>>
ioVars   == <<ownVars, wire, recv>>
vars == <<proto, test, srvVars, brkVars, hostVars, callVars, ioVars>>

Init ==
  /\ proto \in Protos /\ test \in Tests
  /\ main = "select" /\ serving = TRUE /\ listening = TRUE
  /\ doneCh = FALSE /\ doneNil = FALSE /\ panicked = FALSE /\ stopped = FALSE
  /\ failed = FALSE
  /\ broker = "open" /\ side = "serve"
  /\ conn = [h \in Hosts |-> "none"]
  /\ close = [h \in Hosts |-> "idle"] /\ closeErr = {}
  /\ shutdown = [h \in Hosts |-> "none"]
  /\ call = [h \in Hosts |-> "none"] /\ handler = [h \in Hosts |-> "none"]
  /\ writes = 0
  /\ pipe = [c \in Channels |-> <<>>]
  /\ copyBuf = [c \in Channels |-> None]
  /\ streamer = [h \in Hosts |-> {}] /\ recv = [h \in Hosts |-> {}]
  /\ held = [h \in Hosts |-> [s \in Streams |-> None]] /\ reset = {}
  /\ wire = [h \in Hosts |-> [s \in Streams |-> <<>>]]
  /\ out = [h \in Hosts |-> <<>>] /\ refused = {}

\* A plugin process ends with its main function; a test's Serve does not.
Alive == ~panicked /\ (main = "returned" => test)

-----------------------------------------------------------------------------
(* Connections and calls.                                                  *)

Dialled(h) == /\ conn[h] = "none" /\ listening /\ serving
              /\ conn' = [conn EXCEPT ![h] = "open"]

\* The host asks for the stdio.  If that is Unavailable it goes on without, and
\* Run returns at once (another error leaves the same connection, with nobody to
\* use it).
newGRPCStdioClient(h) ==
  \/ /\ streamer' = [streamer EXCEPT ![h] = {"stdio"}]
     /\ recv' = [recv EXCEPT ![h] = {"stdio"}]
  \/ UNCHANGED <<streamer, recv>>

\* newGRPCClient: the host connects, starts the broker and the stdio.
GRPCConnect(h) ==
  /\ proto = "grpc" /\ Dialled(h) /\ newGRPCStdioClient(h)
  /\ UNCHANGED <<proto, test, srvVars, brkVars, close, closeErr, shutdown,
                 callVars, writes, pipe, copyBuf, held, reset, wire, outVars>>

\* ServeConn: the plugin accepts the control stream and the two for stdio, and
\* starts to copy.
ServeConn(h) == streamer' = [streamer EXCEPT ![h] = Channels]

\* The host starts to copy them to its own.
SyncStreams(h) == recv' = [recv EXCEPT ![h] = Channels]

\* newRPCClient.
RPCConnect(h) ==
  /\ proto = "netrpc" /\ Dialled(h) /\ ServeConn(h) /\ SyncStreams(h)
  /\ UNCHANGED <<proto, test, srvVars, brkVars, close, closeErr, shutdown,
                 callVars, writes, pipe, copyBuf, held, reset, wire, outVars>>

\* GRPCClient.Dispense is a lookup: what it returns calls the plugin over the
\* connection itself.
GRPCCall(h) ==
  /\ proto = "grpc" /\ conn[h] = "open" /\ listening /\ close[h] = "idle"
  /\ call[h] = "none"
  /\ call' = [call EXCEPT ![h] = "running"]
  /\ handler' = [handler EXCEPT ![h] = "running"]
  /\ UNCHANGED <<proto, test, srvVars, brkVars, hostVars, ioVars>>

\* RPCClient.Dispense asks the plugin for an id, without a deadline, ...
DispenseCall(h) ==
  /\ proto = "netrpc" /\ conn[h] = "open" /\ close[h] = "idle"
  /\ call[h] = "none"
  /\ call' = [call EXCEPT ![h] = "dispense"]
  /\ UNCHANGED <<proto, test, srvVars, brkVars, hostVars, handler, ioVars>>

\* ... which dispenseServer.Dispense refuses, or reserves and has a goroutine
\* Accept on, and dials it.
Dispense(h) ==
  /\ call[h] = "dispense"
  /\ \/ call' = [call EXCEPT ![h] = "error"] /\ UNCHANGED handler
     \/ /\ call' = [call EXCEPT ![h] = "dial"]
        /\ handler' = [handler EXCEPT ![h] = "accept"]
  /\ UNCHANGED <<proto, test, srvVars, brkVars, hostVars, ioVars>>

\* Dial and Accept meet (MuxBroker), `serve' runs, and the host makes its call.
DispenseServe(h) ==
  /\ call[h] = "dial" /\ handler[h] = "accept"
  /\ call' = [call EXCEPT ![h] = "running"]
  /\ handler' = [handler EXCEPT ![h] = "running"]
  /\ UNCHANGED <<proto, test, srvVars, brkVars, hostVars, ioVars>>

\* The goroutine's Accept times out, and the Dial finds nobody.
DispenseTimeout(h) ==
  /\ handler[h] = "accept"
  /\ handler' = [handler EXCEPT ![h] = "ended"]
  /\ call' = [call EXCEPT ![h] = "error"]
  /\ UNCHANGED <<proto, test, srvVars, brkVars, hostVars, ioVars>>

\* The plugin's handler returns, to a host that is still there or not.
CallEnd(h) ==
  /\ handler[h] = "running"
  /\ handler' = [handler EXCEPT ![h] = "ended"]
  /\ call' = [call EXCEPT ![h] = IF @ = "running" THEN "ok" ELSE @]
  /\ UNCHANGED <<proto, test, srvVars, brkVars, hostVars, ioVars>>

\* The connections of the hosts in S are closed: what was running on them or
\* on its way is lost, and those who read them end.
Disconnect(S) ==
  /\ conn' = [h \in Hosts |-> IF h \in S /\ conn[h] = "open" THEN "closed"
                              ELSE conn[h]]
  /\ call' = [h \in Hosts |-> IF h \in S /\ call[h] = "running" THEN "cut"
                              ELSE IF h \in S /\ call[h] \in {"dispense", "dial"}
                              THEN "error" ELSE call[h]]
  /\ wire' = [h \in Hosts |-> IF h \in S THEN [s \in Streams |-> <<>>] ELSE wire[h]]
  /\ recv' = [h \in Hosts |-> IF h \in S THEN {} ELSE recv[h]]

\* The yamux session of a net/rpc connection fails (its keep-alive is lost).
SessionFails(h) ==
  /\ proto = "netrpc" /\ conn[h] = "open"
  /\ Disconnect({h})
  /\ UNCHANGED <<proto, test, srvVars, brkVars, close, closeErr, shutdown,
                 handler, ownVars>>

-----------------------------------------------------------------------------
(* The hosts' Close.                                                       *)

\* GRPCClient.Close calls Shutdown, RPCClient.Close calls Control.Quit.
CloseCall(h) ==
  /\ conn[h] # "none" /\ close[h] = "idle"
  /\ close' = [close EXCEPT ![h] = "request"]
  /\ UNCHANGED <<proto, test, srvVars, brkVars, conn, closeErr, shutdown,
                 callVars, ioVars>>

\* Shutdown starts its goroutine and answers at once.
Shutdown(h) ==
  /\ proto = "grpc" /\ conn[h] = "open" /\ close[h] = "request" /\ listening
  /\ shutdown' = [shutdown EXCEPT ![h] = "start"]
  /\ close' = [close EXCEPT ![h] = "close"]
  /\ UNCHANGED <<proto, test, srvVars, brkVars, conn, closeErr, callVars,
                 ioVars>>

\* Mutant of Done: DoneCh is not set to nil.
DoneAgain == doneCh' = TRUE /\ panicked' = doneCh /\ UNCHANGED doneNil

\* RPCServer.done
Done ==
  /\ doneNil' = TRUE
  /\ doneCh' = TRUE
  /\ panicked' = (doneCh /\ ~doneNil)

\* controlServer.Quit
Quit(h) ==
  /\ proto = "netrpc" /\ conn[h] = "open" /\ close[h] = "request"
  /\ Done
  /\ close' = [close EXCEPT ![h] = "answer"]
  /\ UNCHANGED <<proto, test, main, serving, listening, stopped, failed,
                 brkVars, conn, closeErr, shutdown, callVars, ioVars>>

QuitAnswer(h) ==
  /\ close[h] = "answer" /\ conn[h] = "open"
  /\ close' = [close EXCEPT ![h] = "close"]
  /\ UNCHANGED <<proto, test, srvVars, brkVars, conn, closeErr, shutdown,
                 callVars, ioVars>>

\* The request or its answer does not get through: the server is stopping, the
\* connection is gone, or (Shutdown only) the call times out.
CloseRequestFails(h) ==
  /\ close[h] \in {"request", "answer"}
  /\ conn[h] = "closed" \/ proto = "grpc"
  /\ close' = [close EXCEPT ![h] = "close"]
  /\ closeErr' = closeErr \cup {h}
  /\ UNCHANGED <<proto, test, srvVars, brkVars, conn, shutdown, callVars,
                 ioVars>>

\* Mutant of CloseConn: net/rpc's Close drops the error of Quit.
CloseConnNil(h) ==
  /\ close[h] = "close"
  /\ close' = [close EXCEPT ![h] = "closed"]
  /\ Disconnect({h})
  /\ closeErr' = closeErr \ {h}
  /\ UNCHANGED <<proto, test, srvVars, brkVars, shutdown, handler, ownVars>>

\* The connection and its streams are closed.  The error of Shutdown is
\* dropped, that of Quit is returned.
CloseConn(h) ==
  /\ close[h] = "close"
  /\ close' = [close EXCEPT ![h] = "closed"]
  /\ Disconnect({h})
  /\ closeErr' = IF proto = "grpc" THEN closeErr \ {h} ELSE closeErr
  /\ UNCHANGED <<proto, test, srvVars, brkVars, shutdown, handler, ownVars>>

-----------------------------------------------------------------------------
(* The goroutine of Shutdown, grpc.Server and the broker.                  *)

\* Mutant of GracefulStop: the server is stopped at once.
GracefulStopHard(h) ==
  /\ shutdown[h] = "start"
  /\ listening' = FALSE /\ stopped' = TRUE
  /\ Disconnect(Hosts)
  /\ shutdown' = [shutdown EXCEPT ![h] = "drain"]
  /\ UNCHANGED <<proto, test, main, serving, doneCh, doneNil, failed, panicked,
                 brkVars, close, closeErr, handler, ownVars>>

GracefulStop(h) ==
  /\ shutdown[h] = "start"
  /\ listening' = FALSE
  /\ shutdown' = [shutdown EXCEPT ![h] = "drain"]
  /\ UNCHANGED <<proto, test, main, serving, doneCh, doneNil, failed, panicked,
                 stopped, brkVars, conn, close, closeErr, callVars, ioVars>>

\* No handler runs: the plugin's own, StreamStdio, the broker's StartStream
\* (which lasts as long as its connection).
Drained == \A h \in Hosts : /\ handler[h] # "running"
                            /\ streamer[h] = {}
                            /\ conn[h] # "open"

\* GracefulStop returns; then closeBroker, and `stopped' is closed.
GracefulReturns(h) ==
  /\ shutdown[h] \in {"drain", "forced"} /\ Drained
  /\ stopped' = TRUE /\ broker' = "closed"
  /\ shutdown' = [shutdown EXCEPT ![h] = IF @ = "drain" THEN "done" ELSE "late"]
  /\ UNCHANGED <<proto, test, main, serving, listening, doneCh, doneNil, failed,
                 panicked, side, conn, close, closeErr, callVars,
                 ioVars>>

\* time.After(gracefulStopTimeout()): s.server.Stop(), which also closes
\* the broker, then <-stopped.
DrainTimeout(h) ==
  /\ shutdown[h] = "drain"
  /\ stopped' = TRUE /\ broker' = "closed"
  /\ Disconnect(Hosts)
  /\ shutdown' = [shutdown EXCEPT ![h] = "forced"]
  /\ UNCHANGED <<proto, test, main, serving, listening, doneCh, doneNil, failed,
                 panicked, side, close, closeErr, handler, ownVars>>

\* AcceptAndServe: the run group ends on the broker's doneCh with a
\* GracefulStop, which waits for the calls of the server it runs.
SideInterrupt ==
  /\ side = "serve" /\ broker = "closed"
  /\ side' = "stopping"
  /\ UNCHANGED <<proto, test, srvVars, broker, hostVars, callVars,
                 ioVars>>

\* The calls of the server have ended.
SideReturns ==
  /\ side = "stopping"
  /\ side' = "closed"
  /\ UNCHANGED <<proto, test, srvVars, broker, hostVars, callVars, ioVars>>

-----------------------------------------------------------------------------
(* Serve.                                                                  *)

\* Mutant of GRPCServeReturns: DoneCh is not closed.
GRPCServeReturnsOpen ==
  /\ proto = "grpc" /\ serving /\ ~listening /\ stopped
  /\ serving' = FALSE
  /\ UNCHANGED <<proto, test, main, listening, doneCh, doneNil, panicked, failed,
                 stopped, brkVars, hostVars, callVars, ioVars>>

\* grpc.Server.Serve returns and GRPCServer.Serve closes DoneCh ...
GRPCServeReturns ==
  /\ proto = "grpc" /\ serving /\ ~listening /\ stopped
  /\ serving' = FALSE
  /\ doneCh' = TRUE /\ panicked' = doneCh
  /\ UNCHANGED <<proto, test, main, listening, doneNil, failed, stopped, brkVars,
                 hostVars, callVars, ioVars>>

\* ... RPCServer.Serve's Accept fails on the closed listener ...
RPCServeReturns ==
  /\ proto = "netrpc" /\ serving /\ ~listening
  /\ serving' = FALSE
  /\ Done
  /\ UNCHANGED <<proto, test, main, listening, failed, stopped, brkVars,
                 hostVars, callVars, ioVars>>

\* ... or Accept fails by itself.
AcceptFails ==
  /\ serving /\ listening
  /\ serving' = FALSE /\ failed' = TRUE
  /\ \/ proto = "netrpc" /\ Done
     \/ proto = "grpc" /\ doneCh' = TRUE /\ panicked' = doneCh /\ UNCHANGED doneNil
  /\ UNCHANGED <<proto, test, main, listening, stopped, brkVars, hostVars,
                 callVars, ioVars>>

\* case <-doneCh: Serve returns, and its deferred function closes the listener.
MainDone ==
  /\ main \in {"select", "wait"} /\ doneCh
  /\ main' = "returned" /\ listening' = FALSE
  /\ IF test THEN UNCHANGED <<conn, call, wire, recv>> ELSE Disconnect(Hosts)
  /\ UNCHANGED <<proto, test, serving, doneCh, doneNil, failed, panicked, stopped,
                 brkVars, close, closeErr, shutdown, handler, ownVars>>

\* Mutant of MainCancel: grpc.Server.Stop, without closeBroker.
MainCancelStop ==
  /\ test /\ main = "select"
  /\ main' = "wait" /\ listening' = FALSE
  /\ \/ proto = "grpc" /\ stopped' = TRUE /\ Disconnect(Hosts)
     \/ proto = "netrpc" /\ UNCHANGED <<stopped, conn, call, wire, recv>>
  /\ UNCHANGED <<proto, test, serving, doneCh, doneNil, failed, panicked,
                 brkVars, close, closeErr, shutdown, handler, ownVars>>

\* case <-ctx.Done(): the listener is closed, and a gRPC server is stopped.
MainCancel ==
  /\ test /\ main = "select"
  /\ main' = "wait" /\ listening' = FALSE
  /\ \/ /\ proto = "grpc"
        /\ stopped' = TRUE /\ broker' = "closed"
        /\ Disconnect(Hosts)
     \/ proto = "netrpc" /\ UNCHANGED <<stopped, broker, conn, call, wire, recv>>
  /\ UNCHANGED <<proto, test, serving, doneCh, doneNil, failed, panicked, side,
                 close, closeErr, shutdown, handler, ownVars>>

-----------------------------------------------------------------------------
(* stdio.  With gRPC copyChan reads a pipe and StreamStdio takes from it;  *)
(* with net/rpc a copyStream per connection reads the pipe itself.         *)

\* The plugin writes to os.Stdout or os.Stderr, which Serve has replaced by the
\* pipes (in a test it does so only with SyncStdio, which is left out).
Write(c) ==
  /\ ~test /\ writes < MaxWrites
  /\ writes' = writes + 1
  /\ pipe' = [pipe EXCEPT ![c] = Append(@, <<c, writes + 1>>)]
  /\ UNCHANGED <<proto, test, srvVars, brkVars, hostVars, callVars, copyBuf,
                 streamer, held, reset, wire, recv, outVars>>

\* Mutant of CopyChan: a chunk nobody has taken is overwritten.
CopyChanDrop(c) ==
  /\ proto = "grpc" /\ pipe[c] # <<>>
  /\ copyBuf' = [copyBuf EXCEPT ![c] = Head(pipe[c])]
  /\ pipe' = [pipe EXCEPT ![c] = Tail(@)]
  /\ UNCHANGED <<proto, test, srvVars, brkVars, hostVars, callVars, writes,
                 streamer, held, reset, wire, recv, outVars>>

CopyChan(c) ==
  /\ proto = "grpc" /\ copyBuf[c] = None /\ pipe[c] # <<>>
  /\ copyBuf' = [copyBuf EXCEPT ![c] = Head(pipe[c])]
  /\ pipe' = [pipe EXCEPT ![c] = Tail(@)]
  /\ UNCHANGED <<proto, test, srvVars, brkVars, hostVars, callVars, writes,
                 streamer, held, reset, wire, recv, outVars>>

\* Mutant of StreamStdioTake: the channel keeps the chunk.
StreamStdioTakeKeep(h, c) ==
  /\ proto = "grpc" /\ "stdio" \in streamer[h] /\ held[h]["stdio"] = None
  /\ copyBuf[c] # None
  /\ held' = [held EXCEPT ![h]["stdio"] = copyBuf[c]]
  /\ UNCHANGED <<proto, test, srvVars, brkVars, hostVars, callVars, writes,
                 pipe, copyBuf, streamer, reset, wire, recv, outVars>>

\* StreamStdio's select takes a chunk, also when its context is done.
StreamStdioTake(h, c) ==
  /\ proto = "grpc" /\ "stdio" \in streamer[h] /\ held[h]["stdio"] = None
  /\ copyBuf[c] # None
  /\ held' = [held EXCEPT ![h]["stdio"] = copyBuf[c]]
  /\ copyBuf' = [copyBuf EXCEPT ![c] = None]
  /\ UNCHANGED <<proto, test, srvVars, brkVars, hostVars, callVars, writes,
                 pipe, streamer, reset, wire, recv, outVars>>

\* copyStream reads the pipe, whether or not its connection still stands.
CopyStreamRead(h, c) ==
  /\ proto = "netrpc" /\ c \in streamer[h] /\ held[h][c] = None
  /\ pipe[c] # <<>>
  /\ held' = [held EXCEPT ![h][c] = Head(pipe[c])]
  /\ pipe' = [pipe EXCEPT ![c] = Tail(@)]
  /\ UNCHANGED <<proto, test, srvVars, brkVars, hostVars, callVars, writes,
                 copyBuf, streamer, reset, wire, recv, outVars>>

\* A Send or Write to the host fails.
StreamOver(h) == conn[h] = "closed" \/ h \in reset

\* Mutant of StreamSend: it does not wait for a chunk.
StreamSendEmpty(h, s) ==
  /\ s \in streamer[h] /\ ~StreamOver(h)
  /\ held' = [held EXCEPT ![h][s] = None]
  /\ wire' = [wire EXCEPT ![h][s] = Append(@, held[h][s])]
  /\ UNCHANGED <<proto, test, srvVars, brkVars, hostVars, callVars, writes,
                 pipe, copyBuf, streamer, reset, recv, outVars>>

\* Send or Write: when it fails, the chunk is lost.
StreamSend(h, s) ==
  /\ s \in streamer[h] /\ held[h][s] # None
  /\ held' = [held EXCEPT ![h][s] = None]
  /\ \/ /\ ~StreamOver(h)
        /\ wire' = [wire EXCEPT ![h][s] = Append(@, held[h][s])]
        /\ UNCHANGED streamer
     \/ /\ StreamOver(h)
        /\ streamer' = [streamer EXCEPT ![h] = @ \ {s}]
        /\ UNCHANGED wire
  /\ UNCHANGED <<proto, test, srvVars, brkVars, hostVars, callVars, writes,
                 pipe, copyBuf, reset, recv, outVars>>

\* <-srv.Context().Done()
StreamDone(h) ==
  /\ proto = "grpc" /\ "stdio" \in streamer[h] /\ held[h]["stdio"] = None
  /\ StreamOver(h)
  /\ streamer' = [streamer EXCEPT ![h] = {}]
  /\ UNCHANGED <<proto, test, srvVars, brkVars, hostVars, callVars, writes,
                 pipe, copyBuf, held, reset, wire, recv, outVars>>

\* The host's Run, or its copyStream, has the next chunk of its stream ...
Received(h, s) ==
  /\ s \in recv[h] /\ wire[h][s] # <<>>
  /\ wire' = [wire EXCEPT ![h][s] = Tail(@)]

\* ... and writes it, ...
HostWrite(h, s) ==
  /\ Received(h, s)
  /\ out' = [out EXCEPT ![h] = Append(@, Head(wire[h][s]))]
  /\ UNCHANGED <<proto, test, srvVars, brkVars, hostVars, callVars, writes,
                 pipe, copyBuf, streamer, held, reset, recv, refused>>

\* ... or the writer fails: Run goes on with the next, copyStream returns; ...
HostWriteFails(h, s) ==
  /\ Received(h, s)
  /\ refused' = refused \cup {Head(wire[h][s])}
  /\ recv' = IF proto = "grpc" THEN recv ELSE [recv EXCEPT ![h] = @ \ {s}]
  /\ UNCHANGED <<proto, test, srvVars, brkVars, hostVars, callVars, writes,
                 pipe, copyBuf, streamer, held, reset, out>>

\* ... or it panics: Run recovers and returns, and nobody reads the stream from
\* then on (a panic of net/rpc's copyStream ends the host, as SessionFails).
HostWritePanics(h) ==
  /\ proto = "grpc" /\ Received(h, "stdio")
  /\ refused' = refused \cup {Head(wire[h]["stdio"])}
  /\ recv' = [recv EXCEPT ![h] = {}]
  /\ UNCHANGED <<proto, test, srvVars, brkVars, hostVars, callVars, writes,
                 pipe, copyBuf, streamer, held, reset, out>>

\* Recv fails on a connection that stands: Run returns, and the context of
\* StreamStdio is done.
HostRecvError(h) ==
  /\ proto = "grpc" /\ conn[h] = "open" /\ "stdio" \in recv[h]
  /\ recv' = [recv EXCEPT ![h] = {}] /\ reset' = reset \cup {h}
  /\ wire' = [wire EXCEPT ![h]["stdio"] = <<>>]
  /\ UNCHANGED <<proto, test, srvVars, brkVars, hostVars, callVars, writes,
                 pipe, copyBuf, streamer, held, outVars>>

-----------------------------------------------------------------------------
PluginWork ==
  \/ GRPCServeReturns \/ RPCServeReturns \/ MainDone
  \/ SideInterrupt
  \/ \E h \in Hosts : \/ Shutdown(h) \/ Quit(h) \/ QuitAnswer(h)
                      \/ GracefulStop(h) \/ GracefulReturns(h)
                      \/ DrainTimeout(h) \/ StreamDone(h)
                      \/ Dispense(h) \/ DispenseServe(h) \/ DispenseTimeout(h)
                      \/ \E s \in Streams : StreamSend(h, s)
  \/ \E c \in Channels : \/ CopyChan(c)
                         \/ \E h \in Hosts : \/ StreamStdioTake(h, c)
                                             \/ CopyStreamRead(h, c)
HostWork ==
  \E h \in Hosts : \/ CloseRequestFails(h) \/ CloseConn(h)
                  \/ \E s \in Streams : HostWrite(h, s)

\* What happens without a new request: goroutines run, armed timers fire.
Work == (Alive /\ PluginWork) \/ HostWork

Next ==
  \/ Work
  \/ Alive /\ \/ MainCancel \/ AcceptFails \/ SideReturns
              \/ \E h \in Hosts : \/ GRPCConnect(h) \/ RPCConnect(h)
                                  \/ GRPCCall(h) \/ DispenseCall(h)
                                  \/ CallEnd(h)
              \/ \E c \in Channels : Write(c)
  \/ \E h \in Hosts : \/ CloseCall(h) \/ SessionFails(h)
                      \/ HostWritePanics(h) \/ HostRecvError(h)
                      \/ \E s \in Streams : HostWriteFails(h, s)

Spec == Init /\ [][Next]_vars

-----------------------------------------------------------------------------
(* Properties.                                                             *)

(* No execution has infinitely many Work steps, so what must eventually    *)
(* happen is stated of the states in which none is left: everyone waits.   *)

ServeWaits ==
  /\ serving /\ ~listening => proto = "grpc" /\ ~stopped
  /\ main # "returned" => ~doneCh
  /\ side = "serve" => broker = "open"
PluginWaits(h) ==
  /\ conn[h] = "open" => /\ close[h] # "answer"
                         /\ close[h] = "request" => proto = "grpc" /\ ~listening
  /\ shutdown[h] \notin {"start", "drain"} /\ (shutdown[h] = "forced" => ~Drained)
  /\ call[h] # "dispense" /\ handler[h] # "accept"
StdioWaits(h) ==
  \A s \in streamer[h] :
    /\ held[h][s] = None
    /\ IF proto = "grpc" THEN ~StreamOver(h) /\ \A c \in Channels : copyBuf[c] = None
                         ELSE pipe[s] = <<>>
CopyWaits(c) == proto = "grpc" /\ copyBuf[c] = None => pipe[c] = <<>>
HostWaits(h) ==
  /\ close[h] \in {"request", "answer"} => conn[h] # "closed" /\ proto # "grpc"
  /\ close[h] # "close"
  /\ \A s \in recv[h] : wire[h][s] = <<>>

\* No step of Work can be taken.
Quiescent ==
  /\ Alive => /\ ServeWaits /\ \A c \in Channels : CopyWaits(c)
              /\ \A h \in Hosts : PluginWaits(h) /\ StdioWaits(h)
  /\ \A h \in Hosts : HostWaits(h)

\* The type of the state.
TypeOK ==
  /\ proto \in Protos /\ test \in Tests
  /\ main \in {"select", "wait", "returned"}
  /\ serving \in BOOLEAN /\ listening \in BOOLEAN /\ stopped \in BOOLEAN
  /\ doneCh \in BOOLEAN /\ doneNil \in BOOLEAN /\ panicked \in BOOLEAN
  /\ failed \in BOOLEAN
  /\ broker \in {"open", "closed"} /\ side \in {"serve", "stopping", "closed"}
  /\ conn \in [Hosts -> {"none", "open", "closed"}]
  /\ close \in [Hosts -> {"idle", "request", "answer", "close", "closed"}]
  /\ closeErr \subseteq Hosts
  /\ shutdown \in [Hosts -> {"none", "start", "drain", "forced", "done", "late"}]
  /\ call \in [Hosts -> {"none", "dispense", "dial", "running", "ok",
                       "error", "cut"}]
  /\ handler \in [Hosts -> {"none", "accept", "running", "ended"}]
  /\ writes \in 0..MaxWrites
  /\ pipe \in [Channels -> Seq(Chunks)]
  /\ copyBuf \in [Channels -> Chunks \cup {None}]
  /\ streamer \in [Hosts -> SUBSET Streams] /\ recv \in [Hosts -> SUBSET Streams]
  /\ held \in [Hosts -> [Streams -> Chunks \cup {None}]] /\ reset \subseteq Hosts
  /\ wire \in [Hosts -> [Streams -> Seq(Chunks)]]
  /\ out \in [Hosts -> Seq(Chunks)] /\ refused \subseteq Chunks

\* DoneCh is closed once, whoever gets there first: the Quit of any host, or
\* the end of RPCServer.Serve or GRPCServer.Serve.
DoneOnce == ~panicked

\* Serve returns once a host has called Shutdown or Quit, the listener has
\* failed or a test's context is cancelled, also when a call of the plugin
\* never returns or another host stays connected.
ServerEnds ==
  (/\ Quiescent
   /\ main = "wait" \/ doneCh \/ \E h \in Hosts : shutdown[h] # "none")
  => main = "returned"

\* A call is cut only when its own host closes the connection or the drain
\* window of a Shutdown has passed: a Shutdown from one host lets the calls of
\* the others finish.  (Not in a test, whose cancelled context stops the server
\* at once, nor after a failed Accept, with which the process ends.)
DrainBeforeCut ==
  (proto = "grpc" /\ ~test /\ ~failed) =>
    \A h \in Hosts : call[h] = "cut" =>
      \/ close[h] = "closed"
      \/ \E g \in Hosts : shutdown[g] \in {"forced", "late"}

\* Close of net/rpc returns no error only if Quit was executed ("we MUST return
\* non-nil error if this fails so that Client.Kill will properly try a
\* process.Kill").
QuitReported ==
  proto = "netrpc" =>
    \A h \in Hosts : close[h] = "closed" /\ h \notin closeErr => doneCh

\* A Serve that has returned in a test leaves no broker and no server of the
\* broker serving, once the calls it was handling have ended.  (Not after a
\* failed Accept: Serve then returns without a Stop, and the broker stays open.)
NothingLeftBehind ==
  (/\ proto = "grpc" /\ test /\ ~failed /\ main = "returned" /\ Quiescent
   /\ \A h \in Hosts : handler[h] # "running")
  => broker = "closed" /\ side # "serve"

\* Output keeps its order within a channel, and no chunk is written twice or
\* at two hosts, however the streams of several hosts share it.
OutputInOrder ==
  /\ \A h \in Hosts : \A i, j \in 1..Len(out[h]) :
       i < j /\ out[h][i][1] = out[h][j][1] => out[h][i][2] < out[h][j][2]
  /\ \A g, h \in Hosts : \A i \in 1..Len(out[g]), j \in 1..Len(out[h]) :
       g # h => out[g][i] # out[h][j]

\* While the server runs, no host leaves, and every stream that the plugin
\* writes has its reader, all output arrives, except what a host's own writer
\* has refused: whatever the number of hosts, those without stdio among them.
OutputArrives ==
  (/\ Quiescent /\ main = "select" /\ reset = {}
   /\ \A h \in Hosts : /\ conn[h] # "closed" /\ shutdown[h] = "none"
                       /\ recv[h] = streamer[h]
   /\ \E h \in Hosts : recv[h] # {})
  => \A n \in 1..writes :
       \/ \E h \in Hosts : \E i \in 1..Len(out[h]) : out[h][i][2] = n
       \/ \E x \in refused : x[2] = n
=============================================================================
