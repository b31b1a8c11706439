------------------------- MODULE PluginServerProofs -------------------------
(***************************************************************************)
(* PluginServer, for any number of hosts, channels and chunks of output:   *)
(* DoneCh is closed once, a Quit that was not executed is reported, calls  *)
(* are drained before they are cut, and output keeps its order; once       *)
(* everyone waits, Serve has returned if it was asked to, nothing is left  *)
(* behind, and all that was written has arrived.                           *)
(***************************************************************************)
EXTENDS PluginServer, TLAPS

(* The steps by what they leave alone.                                     *)

CallStep(h) ==
  \/ GRPCConnect(h) \/ RPCConnect(h) \/ GRPCCall(h) \/ DispenseCall(h)
  \/ Dispense(h) \/ DispenseServe(h) \/ DispenseTimeout(h) \/ CallEnd(h)
  \/ SessionFails(h)

CloseStep(h) ==
  \/ CloseCall(h) \/ Shutdown(h) \/ Quit(h) \/ QuitAnswer(h)
  \/ CloseRequestFails(h) \/ CloseConn(h)

StopStep(h) == GracefulStop(h) \/ GracefulReturns(h) \/ DrainTimeout(h)

ServeStep ==
  \/ GRPCServeReturns \/ RPCServeReturns \/ AcceptFails \/ MainDone \/ MainCancel
  \/ SideInterrupt \/ SideReturns

StdioStep ==
  \/ \E c \in Channels :
       \/ Write(c) \/ CopyChan(c)
       \/ \E h \in Hosts : StreamStdioTake(h, c) \/ CopyStreamRead(h, c)
  \/ \E h \in Hosts :
       \/ StreamDone(h) \/ HostWritePanics(h) \/ HostRecvError(h)
       \/ \E s \in Streams : \/ StreamSend(h, s) \/ HostWrite(h, s)
                             \/ HostWriteFails(h, s)

\* Every step is one of these.
LEMMA StepCases ==
  ASSUME [Next]_vars
  PROVE  \/ \E h \in Hosts : CallStep(h) \/ CloseStep(h) \/ StopStep(h)
         \/ ServeStep \/ StdioStep \/ UNCHANGED vars
BY Zenon DEF Next, Work, PluginWork, HostWork, CallStep, CloseStep, StopStep,
             ServeStep, StdioStep

\* What connections and calls leave alone.
LEMMA CallFrame ==
  ASSUME NEW h \in Hosts, CallStep(h)
  PROVE  UNCHANGED <<proto, test, srvVars, brkVars, close, closeErr, shutdown,
                     writes, pipe, copyBuf, held, reset, outVars>>
BY Zenon DEF CallStep, GRPCConnect, RPCConnect, GRPCCall, DispenseCall,
     Dispense, DispenseServe, DispenseTimeout, CallEnd, SessionFails, srvVars,
     brkVars, hostVars, ioVars, ownVars

\* What the hosts' Close leaves alone.
LEMMA CloseFrame ==
  ASSUME NEW h \in Hosts, CloseStep(h)
  PROVE  UNCHANGED <<proto, test, main, serving, listening, stopped, failed,
                     brkVars, handler, ownVars>>
BY Zenon DEF CloseStep, CloseCall, Shutdown, Quit, QuitAnswer,
     CloseRequestFails, CloseConn, srvVars, callVars, ioVars

\* What the goroutine of Shutdown leaves alone.
LEMMA StopFrame ==
  ASSUME NEW h \in Hosts, StopStep(h)
  PROVE  UNCHANGED <<proto, test, main, serving, doneCh, doneNil, panicked,
                     failed, side, close, closeErr, handler, ownVars>>
BY Zenon DEF StopStep, GracefulStop, GracefulReturns, DrainTimeout, brkVars,
     callVars, ioVars

\* What Serve leaves alone.
LEMMA ServeFrame ==
  ASSUME ServeStep
  PROVE  UNCHANGED <<proto, test, close, closeErr, shutdown, handler, ownVars>>
BY Zenon DEF ServeStep, GRPCServeReturns, RPCServeReturns, AcceptFails,
     MainDone, MainCancel, SideInterrupt, SideReturns, hostVars, callVars,
     ioVars

\* What the stdio streams leave alone.
LEMMA StdioFrame ==
  ASSUME StdioStep
  PROVE  UNCHANGED <<proto, test, srvVars, brkVars, hostVars, callVars>>
BY ZenonT(40) DEF StdioStep, Write, CopyChan, StreamStdioTake, CopyStreamRead,
     StreamSend, StreamDone, HostWrite, HostWriteFails, HostWritePanics,
     HostRecvError

-----------------------------------------------------------------------------
(* Types.                                                                  *)

ServerOK ==
  /\ proto \in Protos /\ test \in Tests
  /\ main \in {"select", "wait", "returned"}
  /\ serving \in BOOLEAN /\ listening \in BOOLEAN /\ stopped \in BOOLEAN
  /\ doneCh \in BOOLEAN /\ doneNil \in BOOLEAN /\ panicked \in BOOLEAN
  /\ failed \in BOOLEAN
  /\ broker \in {"open", "closed"} /\ side \in {"serve", "stopping", "closed"}

HostsOK ==
  /\ conn \in [Hosts -> {"none", "open", "closed"}]
  /\ close \in [Hosts -> {"idle", "request", "answer", "close", "closed"}]
  /\ closeErr \subseteq Hosts
  /\ shutdown \in [Hosts -> {"none", "start", "drain", "forced", "done", "late"}]
  /\ call \in [Hosts -> {"none", "dispense", "dial", "running", "ok",
                         "error", "cut"}]
  /\ handler \in [Hosts -> {"none", "accept", "running", "ended"}]

StdioOK ==
  /\ writes \in 0..MaxWrites
  /\ pipe \in [Channels -> Seq(Chunks)]
  /\ copyBuf \in [Channels -> Chunks \cup {None}]
  /\ streamer \in [Hosts -> SUBSET Streams] /\ recv \in [Hosts -> SUBSET Streams]
  /\ held \in [Hosts -> [Streams -> Chunks \cup {None}]] /\ reset \subseteq Hosts
  /\ wire \in [Hosts -> [Streams -> Seq(Chunks)]]
  /\ out \in [Hosts -> Seq(Chunks)] /\ refused \subseteq Chunks

\* A stream with nothing on its way.
NoChunks == [s \in Streams |-> <<>>]

\* The fields of the servers and of Serve keep their types.
LEMMA ServerTypes == ASSUME ServerOK, [Next]_vars PROVE ServerOK'
<1> USE DEF ServerOK
<1>1. ASSUME NEW h \in Hosts, CallStep(h) PROVE ServerOK'
  BY <1>1, CallFrame, SMT, Z3, SMTT(20) DEF srvVars, brkVars
<1>2. ASSUME NEW h \in Hosts, CloseStep(h) PROVE ServerOK'
  <2>1. doneCh' \in BOOLEAN /\ doneNil' \in BOOLEAN /\ panicked' \in BOOLEAN
    BY <1>2, Zenon DEF CloseStep, CloseCall, Shutdown, Quit, Done, QuitAnswer,
                       CloseRequestFails, CloseConn, srvVars
  <2> QED
    BY <1>2, <2>1, CloseFrame, Zenon DEF brkVars
<1>3. ASSUME NEW h \in Hosts, StopStep(h) PROVE ServerOK'
  <2>1. /\ listening' \in BOOLEAN /\ stopped' \in BOOLEAN
        /\ broker' \in {"open", "closed"}
    BY <1>3, Zenon DEF StopStep, GracefulStop, GracefulReturns, DrainTimeout,
                       brkVars
  <2> QED
    BY <1>3, <2>1, StopFrame, Zenon
<1>4. CASE ServeStep
  <2>1. main' \in {"select", "wait", "returned"}
    BY <1>4, Zenon DEF ServeStep, GRPCServeReturns, RPCServeReturns,
         AcceptFails, MainDone, MainCancel, SideInterrupt, SideReturns, srvVars
  <2>2. serving' \in BOOLEAN /\ listening' \in BOOLEAN /\ stopped' \in BOOLEAN
    BY <1>4, Zenon DEF ServeStep, GRPCServeReturns, RPCServeReturns,
         AcceptFails, MainDone, MainCancel, SideInterrupt, SideReturns, srvVars
  <2>3. doneCh' \in BOOLEAN /\ doneNil' \in BOOLEAN /\ panicked' \in BOOLEAN
    BY <1>4, Zenon DEF ServeStep, GRPCServeReturns, RPCServeReturns,
         AcceptFails, Done, MainDone, MainCancel, SideInterrupt, SideReturns,
         srvVars
  <2>4. /\ failed' \in BOOLEAN /\ broker' \in {"open", "closed"}
        /\ side' \in {"serve", "stopping", "closed"}
    BY <1>4, Zenon DEF ServeStep, GRPCServeReturns, RPCServeReturns,
         AcceptFails, MainDone, MainCancel, SideInterrupt, SideReturns,
         srvVars, brkVars
  <2> QED
    BY <1>4, <2>1, <2>2, <2>3, <2>4, ServeFrame, Zenon
<1>5. CASE StdioStep
  BY <1>5, StdioFrame, SMT, Z3, SMTT(20) DEF srvVars, brkVars
<1>6. CASE UNCHANGED vars
  BY <1>6, SMT, Z3, SMTT(20) DEF vars, srvVars, brkVars
<1> QED
  BY <1>1, <1>2, <1>3, <1>4, <1>5, <1>6, StepCases, Zenon

\* A closed connection keeps the types of what it carried.
LEMMA DisconnectTypes ==
  ASSUME HostsOK, StdioOK, NEW S, Disconnect(S)
  PROVE  /\ conn' \in [Hosts -> {"none", "open", "closed"}]
         /\ call' \in [Hosts -> {"none", "dispense", "dial", "running", "ok",
                                 "error", "cut"}]
         /\ wire' \in [Hosts -> [Streams -> Seq(Chunks)]]
         /\ recv' \in [Hosts -> SUBSET Streams]
         /\ \A h \in Hosts : wire'[h] \in {wire[h], NoChunks}
<1>1. NoChunks \in [Streams -> Seq(Chunks)]
  BY SMT, Z3, SMTT(20) DEF NoChunks
<1>2. /\ conn' \in [Hosts -> {"none", "open", "closed"}]
      /\ call' \in [Hosts -> {"none", "dispense", "dial", "running", "ok",
                              "error", "cut"}]
  BY SMT, Z3, SMTT(20) DEF HostsOK, Disconnect
<1>3. \A h \in Hosts : wire[h] \in [Streams -> Seq(Chunks)] /\ recv[h] \in SUBSET Streams
  BY Zenon DEF StdioOK
<1>4. /\ wire' = [h \in Hosts |-> IF h \in S THEN NoChunks ELSE wire[h]]
      /\ recv' = [h \in Hosts |-> IF h \in S THEN {} ELSE recv[h]]
  BY Zenon DEF Disconnect, NoChunks
<1> HIDE DEF NoChunks
<1>5. \A h \in Hosts : /\ wire'[h] \in {wire[h], NoChunks}
                       /\ recv'[h] \in SUBSET Streams
  BY <1>3, <1>4, Zenon
<1> QED
  BY <1>1, <1>2, <1>3, <1>4, <1>5, Zenon

\* So do the hosts' connections, calls and Closes.
LEMMA HostTypes == ASSUME HostsOK, StdioOK, [Next]_vars PROVE HostsOK'
<1> USE DEF HostsOK
<1>1. ASSUME NEW h \in Hosts, CallStep(h) PROVE HostsOK'
  <2>1. CASE SessionFails(h)
    BY <2>1, DisconnectTypes, Zenon DEF SessionFails
  <2>2. CASE ~SessionFails(h)
    BY <1>1, <2>2, SMT, Z3, SMTT(20)
    DEF CallStep, GRPCConnect, RPCConnect, Dialled, GRPCCall, DispenseCall,
        Dispense, DispenseServe, DispenseTimeout, CallEnd, hostVars, callVars
  <2> QED
    BY <2>1, <2>2, Zenon
<1>2. ASSUME NEW h \in Hosts, CloseStep(h) PROVE HostsOK'
  <2>1. CASE CloseConn(h)
    BY <2>1, DisconnectTypes, Zenon DEF CloseConn
  <2>2. CASE ~CloseConn(h)
    BY <1>2, <2>2, Zenon DEF CloseStep, CloseCall, Shutdown, Quit, QuitAnswer,
         CloseRequestFails, callVars
  <2> QED
    BY <2>1, <2>2, Zenon
<1>3. ASSUME NEW h \in Hosts, StopStep(h) PROVE HostsOK'
  <2>1. CASE DrainTimeout(h)
    BY <2>1, DisconnectTypes, Zenon DEF DrainTimeout
  <2>2. CASE ~DrainTimeout(h)
    BY <1>3, <2>2, Zenon DEF StopStep, GracefulStop, GracefulReturns, callVars
  <2> QED
    BY <2>1, <2>2, Zenon
<1>4. CASE ServeStep
  <2>1. Disconnect(Hosts) \/ UNCHANGED <<conn, call>>
    BY <1>4, Zenon DEF ServeStep, GRPCServeReturns, RPCServeReturns,
         AcceptFails, MainDone, MainCancel, SideInterrupt, SideReturns,
         hostVars, callVars
  <2> QED
    BY <1>4, <2>1, ServeFrame, DisconnectTypes, Zenon
<1>5. CASE StdioStep
  BY <1>5, StdioFrame, Zenon DEF hostVars, callVars
<1>6. CASE UNCHANGED vars
  BY <1>6, Zenon DEF vars, hostVars, callVars
<1> QED
  BY <1>1, <1>2, <1>3, <1>4, <1>5, <1>6, StepCases, Zenon

\* Steps that are not of the stdio streams start a stream or drop what is on a
\* wire.
LEMMA WireFrame ==
  ASSUME HostsOK, StdioOK, [Next]_vars, ~StdioStep
  PROVE  /\ UNCHANGED <<writes, pipe, copyBuf, held, reset, out, refused>>
         /\ wire' \in [Hosts -> [Streams -> Seq(Chunks)]]
         /\ \A h \in Hosts : wire'[h] \in {wire[h], NoChunks}
         /\ streamer' \in [Hosts -> SUBSET Streams]
         /\ recv' \in [Hosts -> SUBSET Streams]
<1>0. /\ wire \in [Hosts -> [Streams -> Seq(Chunks)]]
      /\ streamer \in [Hosts -> SUBSET Streams]
      /\ recv \in [Hosts -> SUBSET Streams]
  BY Zenon DEF StdioOK
<1> DEFINE Kept == /\ wire' \in [Hosts -> [Streams -> Seq(Chunks)]]
                   /\ \A h \in Hosts : wire'[h] \in {wire[h], NoChunks}
                   /\ recv' \in [Hosts -> SUBSET Streams]
<1>1. ASSUME (\E S : Disconnect(S)) \/ UNCHANGED <<wire, recv>> PROVE Kept
  BY <1>0, <1>1, DisconnectTypes, Zenon
<1>2. ASSUME NEW h \in Hosts, CallStep(h)
      PROVE  Kept /\ streamer' \in [Hosts -> SUBSET Streams]
  <2>1. CASE GRPCConnect(h) \/ RPCConnect(h)
    <3>1. /\ UNCHANGED wire
          /\ \/ UNCHANGED <<streamer, recv>>
             \/ \E T \in SUBSET Streams : /\ streamer' = [streamer EXCEPT ![h] = T]
                                         /\ recv' = [recv EXCEPT ![h] = T]
      BY <2>1, Zenon DEF GRPCConnect, newGRPCStdioClient, RPCConnect,
           SyncStreams, ServeConn, Streams
    <3> QED
      BY <1>0, <3>1, Zenon
  <2>2. CASE ~(GRPCConnect(h) \/ RPCConnect(h))
    <3>1. Disconnect({h}) \/ UNCHANGED <<wire, recv>>
      BY <1>2, <2>2, Zenon DEF CallStep, GRPCCall, DispenseCall, Dispense,
           DispenseServe, DispenseTimeout, CallEnd, SessionFails, ioVars
    <3>2. UNCHANGED streamer
      BY <1>2, <2>2, Zenon DEF CallStep, GRPCCall, DispenseCall, Dispense,
           DispenseServe, DispenseTimeout, CallEnd, SessionFails, ioVars, ownVars
    <3> QED
      BY <1>0, <1>1, <3>1, <3>2, Zenon
  <2> QED
    BY <2>1, <2>2, Zenon
<1>3. ASSUME NEW h \in Hosts, CloseStep(h) PROVE Kept
  <2>1. Disconnect({h}) \/ UNCHANGED <<wire, recv>>
    BY <1>3, Zenon DEF CloseStep, CloseCall, Shutdown, Quit, QuitAnswer,
         CloseRequestFails, CloseConn, ioVars
  <2> QED
    BY <1>1, <2>1, Zenon
<1>4. ASSUME NEW h \in Hosts, StopStep(h) PROVE Kept
  <2>1. Disconnect(Hosts) \/ UNCHANGED <<wire, recv>>
    BY <1>4, Zenon DEF StopStep, GracefulStop, GracefulReturns, DrainTimeout,
         ioVars
  <2> QED
    BY <1>1, <2>1, Zenon
<1>5. ASSUME ServeStep PROVE Kept
  <2>1. Disconnect(Hosts) \/ UNCHANGED <<wire, recv>>
    BY <1>5, Zenon DEF ServeStep, GRPCServeReturns, RPCServeReturns, AcceptFails,
         MainDone, MainCancel, SideInterrupt, SideReturns, ioVars
  <2> QED
    BY <1>1, <2>1, Zenon
<1>6. CASE UNCHANGED vars
  BY <1>0, <1>1, <1>6, Zenon DEF vars, ioVars, ownVars, outVars
<1> HIDE DEF Kept
<1>7. CASE \E h \in Hosts : CallStep(h)
  BY <1>2, <1>7, CallFrame, Zenon DEF Kept, outVars
<1>8. CASE \E h \in Hosts : CloseStep(h)
  BY <1>0, <1>3, <1>8, CloseFrame, Zenon DEF Kept, ownVars, outVars
<1>9. CASE \E h \in Hosts : StopStep(h)
  BY <1>0, <1>4, <1>9, StopFrame, Zenon DEF Kept, ownVars, outVars
<1>10. CASE ServeStep
  BY <1>0, <1>5, <1>10, ServeFrame, Zenon DEF Kept, ownVars, outVars
<1> QED
  BY <1>6, <1>7, <1>8, <1>9, <1>10, StepCases, Zenon

\* The first element of a sequence, and the others.
LEMMA HeadTail ==
  ASSUME NEW S, NEW s \in Seq(S), s # <<>>
  PROVE  Head(s) \in S /\ Tail(s) \in Seq(S)
OBVIOUS

\* One chunk is put into one host's hands.
LEMMA HeldTypes ==
  ASSUME StdioOK, NEW h \in Hosts, NEW s \in Streams,
         NEW x \in Chunks \cup {None}, held' = [held EXCEPT ![h][s] = x]
  PROVE  held' \in [Hosts -> [Streams -> Chunks \cup {None}]]
<1>1. [held[h] EXCEPT ![s] = x] \in [Streams -> Chunks \cup {None}]
  BY Zenon DEF StdioOK
<1> QED
  BY <1>1, Zenon DEF StdioOK

\* One stream of a host changes.
LEMMA WireTypes ==
  ASSUME StdioOK, NEW h \in Hosts, NEW s \in Streams,
         NEW w \in Seq(Chunks), wire' = [wire EXCEPT ![h][s] = w]
  PROVE  /\ wire' \in [Hosts -> [Streams -> Seq(Chunks)]]
         /\ \A g \in Hosts : \A t \in Streams :
              wire'[g][t] = IF g = h /\ t = s THEN w ELSE wire[g][t]
<1>1. [wire[h] EXCEPT ![s] = w] \in [Streams -> Seq(Chunks)]
  BY Zenon DEF StdioOK
<1> QED
  BY <1>1, Zenon DEF StdioOK

\* A host takes the next chunk from one of its streams.
LEMMA ReceivedTypes ==
  ASSUME StdioOK, NEW h \in Hosts, NEW s \in Streams, Received(h, s)
  PROVE  /\ wire[h][s] \in Seq(Chunks) /\ wire[h][s] # <<>>
         /\ Head(wire[h][s]) \in Chunks
         /\ wire' \in [Hosts -> [Streams -> Seq(Chunks)]]
         /\ \A g \in Hosts : \A t \in Streams :
              wire'[g][t] = IF g = h /\ t = s THEN Tail(wire[h][s]) ELSE wire[g][t]
<1>1. wire[h][s] \in Seq(Chunks) /\ wire[h][s] # <<>>
  BY Zenon DEF StdioOK, Received
<1>2. Head(wire[h][s]) \in Chunks /\ Tail(wire[h][s]) \in Seq(Chunks)
  BY <1>1, HeadTail, Zenon
<1>3. wire' = [wire EXCEPT ![h][s] = Tail(wire[h][s])]
  BY Zenon DEF Received
<1> QED
  BY <1>1, <1>2, <1>3, WireTypes, ZenonT(40)

\* So do the pipes, the streams and what they carry.
LEMMA StdioTypes == ASSUME HostsOK, StdioOK, [Next]_vars PROVE StdioOK'
<1> USE DEF StdioOK
<1>1. CASE StdioStep
  <2>1. ASSUME NEW c \in Channels, Write(c) PROVE StdioOK'
    <3>1. writes' \in 0..MaxWrites /\ pipe' \in [Channels -> Seq(Chunks)]
      BY <2>1, WritesAssumption, SMT, Z3, SMTT(20) DEF Write, Chunks
    <3> QED
      BY <2>1, <3>1, Zenon DEF Write, outVars
  <2>2. ASSUME NEW c \in Channels, CopyChan(c) PROVE StdioOK'
    <3>1. Head(pipe[c]) \in Chunks /\ Tail(pipe[c]) \in Seq(Chunks)
      BY <2>2, HeadTail, Zenon DEF CopyChan
    <3>2. /\ copyBuf' \in [Channels -> Chunks \cup {None}]
          /\ pipe' \in [Channels -> Seq(Chunks)]
      BY <2>2, <3>1, Zenon DEF CopyChan
    <3> QED
      BY <2>2, <3>2, Zenon DEF CopyChan, outVars
  <2>3. ASSUME NEW c \in Channels, NEW h \in Hosts, StreamStdioTake(h, c)
        PROVE  StdioOK'
    <3>1. held' \in [Hosts -> [Streams -> Chunks \cup {None}]]
      BY <2>3, HeldTypes, Zenon DEF StreamStdioTake, Streams
    <3>2. copyBuf' \in [Channels -> Chunks \cup {None}]
      BY <2>3, Zenon DEF StreamStdioTake
    <3> QED
      BY <2>3, <3>1, <3>2, Zenon DEF StreamStdioTake, outVars
  <2>4. ASSUME NEW c \in Channels, NEW h \in Hosts, CopyStreamRead(h, c)
        PROVE  StdioOK'
    <3>1. Head(pipe[c]) \in Chunks /\ Tail(pipe[c]) \in Seq(Chunks)
      BY <2>4, HeadTail, Zenon DEF CopyStreamRead
    <3>2. held' \in [Hosts -> [Streams -> Chunks \cup {None}]]
      BY <2>4, <3>1, HeldTypes, Zenon DEF CopyStreamRead, Streams
    <3>3. pipe' \in [Channels -> Seq(Chunks)]
      BY <2>4, <3>1, Zenon DEF CopyStreamRead
    <3> QED
      BY <2>4, <3>2, <3>3, Zenon DEF CopyStreamRead, outVars
  <2>5. ASSUME NEW s \in Streams, NEW h \in Hosts, StreamSend(h, s)
        PROVE  StdioOK'
    <3>1. held' \in [Hosts -> [Streams -> Chunks \cup {None}]]
      BY <2>5, HeldTypes, Zenon DEF StreamSend
    <3>2. held[h][s] \in Chunks
      BY <2>5, SMT, Z3, SMTT(20) DEF StreamSend
    <3>3. wire' \in [Hosts -> [Streams -> Seq(Chunks)]]
      <4>1. wire[h][s] \in Seq(Chunks)
        BY Zenon
      <4>2. Append(wire[h][s], held[h][s]) \in Seq(Chunks)
        BY <3>2, <4>1, SMT, Z3, SMTT(20)
      <4> QED
        BY <2>5, <4>2, WireTypes, Zenon DEF StreamSend
    <3>4. streamer' \in [Hosts -> SUBSET Streams]
      <4>1. streamer[h] \ {s} \in SUBSET Streams
        BY Zenon
      <4>2. \/ UNCHANGED streamer
            \/ streamer' = [streamer EXCEPT ![h] = streamer[h] \ {s}]
        BY <2>5, Zenon DEF StreamSend
      <4> QED
        BY <4>1, <4>2, Zenon
    <3> QED
      BY <2>5, <3>1, <3>3, <3>4, Zenon DEF StreamSend, outVars
  <2>6. ASSUME NEW h \in Hosts, StreamDone(h) PROVE StdioOK'
    BY <2>6, Zenon DEF StreamDone, outVars
  <2>7. ASSUME NEW h \in Hosts, NEW s \in Streams, HostWrite(h, s) PROVE StdioOK'
    <3>1. /\ wire' \in [Hosts -> [Streams -> Seq(Chunks)]]
          /\ Head(wire[h][s]) \in Chunks /\ out[h] \in Seq(Chunks)
      BY <2>7, ReceivedTypes, Zenon DEF HostWrite
    <3>2. Append(out[h], Head(wire[h][s])) \in Seq(Chunks)
      BY <3>1, SMT, Z3, SMTT(20)
    <3>3. out' \in [Hosts -> Seq(Chunks)]
      BY <2>7, <3>2, Zenon DEF HostWrite
    <3> QED
      BY <2>7, <3>1, <3>3, Zenon DEF HostWrite
  <2>8. ASSUME NEW h \in Hosts, NEW s \in Streams, HostWriteFails(h, s)
        PROVE  StdioOK'
    <3>1. /\ wire' \in [Hosts -> [Streams -> Seq(Chunks)]]
          /\ Head(wire[h][s]) \in Chunks
      BY <2>8, ReceivedTypes, Zenon DEF HostWriteFails
    <3>2. recv' \in [Hosts -> SUBSET Streams]
      BY <2>8, Zenon DEF HostWriteFails
    <3> QED
      BY <2>8, <3>1, <3>2, Zenon DEF HostWriteFails
  <2>9. ASSUME NEW h \in Hosts, HostWritePanics(h) PROVE StdioOK'
    <3>1. /\ wire' \in [Hosts -> [Streams -> Seq(Chunks)]]
          /\ Head(wire[h]["stdio"]) \in Chunks
      BY <2>9, ReceivedTypes, Zenon DEF HostWritePanics, Streams
    <3>2. recv' \in [Hosts -> SUBSET Streams]
      BY <2>9, Zenon DEF HostWritePanics
    <3> QED
      BY <2>9, <3>1, <3>2, Zenon DEF HostWritePanics
  <2>10. ASSUME NEW h \in Hosts, HostRecvError(h) PROVE StdioOK'
    <3>1. <<>> \in Seq(Chunks) /\ "stdio" \in Streams
      BY SMT, Z3, SMTT(20) DEF Streams
    <3>2. wire' \in [Hosts -> [Streams -> Seq(Chunks)]]
      BY <2>10, <3>1, WireTypes, Zenon DEF HostRecvError
    <3>3. recv' \in [Hosts -> SUBSET Streams] /\ reset' \subseteq Hosts
      BY <2>10, Zenon DEF HostRecvError
    <3> QED
      BY <2>10, <3>2, <3>3, Zenon DEF HostRecvError, outVars
  <2> QED
    BY <1>1, <2>1, <2>2, <2>3, <2>4, <2>5, <2>6, <2>7, <2>8, <2>9, <2>10, Zenon
       DEF StdioStep
<1>2. CASE ~StdioStep
  BY <1>2, WireFrame, Zenon
<1> QED
  BY <1>1, <1>2, Zenon

\* Every variable keeps its type.
THEOREM TypeCorrect == Spec => []TypeOK
<1>1. TypeOK <=> ServerOK /\ HostsOK /\ StdioOK
  BY Zenon DEF TypeOK, ServerOK, HostsOK, StdioOK
<1>2. Init => ServerOK /\ HostsOK /\ StdioOK
  <2>1. Init => ServerOK
    BY Zenon DEF Init, ServerOK
  <2>2. Init => HostsOK
    BY SMT, Z3, SMTT(20) DEF Init, HostsOK
  <2>3. Init => StdioOK
    BY WritesAssumption, SMT, Z3, SMTT(20) DEF Init, StdioOK
  <2> QED
    BY <2>1, <2>2, <2>3, Zenon
<1>3. ServerOK /\ HostsOK /\ StdioOK /\ [Next]_vars
        => (ServerOK /\ HostsOK /\ StdioOK)'
  BY ServerTypes, HostTypes, StdioTypes, Zenon
<1> QED
  BY <1>1, <1>2, <1>3, PTL DEF Spec

-----------------------------------------------------------------------------
(* DoneCh, Quit and the end of the calls.                                  *)

\* GRPCServer.Serve closes DoneCh as it ends, and RPCServer.done forgets it.
DoneInv ==
  /\ ~panicked
  /\ proto = "grpc" /\ serving => ~doneCh
  /\ proto = "netrpc" /\ doneCh => doneNil

\* What a Close of net/rpc has behind it is a Quit or an error.
QuitInv ==
  proto = "netrpc" =>
    \A h \in Hosts :
      /\ close[h] = "answer" => doneCh
      /\ close[h] \in {"close", "closed"} => doneCh \/ h \in closeErr

\* DoneCh stays closed, and is closed by those who may.
LEMMA DonePreserved ==
  ASSUME DoneInv, [Next]_vars
  PROVE  DoneInv' /\ (doneCh => doneCh')
<1> USE ProtosAssumption DEF DoneInv
<1>1. ASSUME NEW h \in Hosts, CallStep(h) PROVE DoneInv' /\ (doneCh => doneCh')
  BY <1>1, CallFrame, Zenon DEF srvVars
<1>2. ASSUME NEW h \in Hosts, CloseStep(h) PROVE DoneInv' /\ (doneCh => doneCh')
  <2>1. CASE Quit(h)
    BY <2>1, Zenon DEF Quit, Done
  <2>2. CASE ~Quit(h)
    BY <1>2, <2>2, SMT, Z3, SMTT(20)
    DEF CloseStep, CloseCall, Shutdown, QuitAnswer, CloseRequestFails,
        CloseConn, srvVars
  <2> QED
    BY <2>1, <2>2, Zenon
<1>3. ASSUME NEW h \in Hosts, StopStep(h) PROVE DoneInv' /\ (doneCh => doneCh')
  BY <1>3, StopFrame, Zenon
<1>4. CASE ServeStep
  <2>1. CASE GRPCServeReturns
    BY <2>1, Zenon DEF GRPCServeReturns
  <2>2. CASE RPCServeReturns
    BY <2>2, Zenon DEF RPCServeReturns, Done
  <2>3. CASE AcceptFails
    <3>1. CASE proto = "netrpc" /\ Done
      BY <2>3, <3>1, Zenon DEF AcceptFails, Done
    <3>2. CASE proto = "grpc" /\ doneCh' = TRUE /\ panicked' = doneCh
      BY <2>3, <3>2, Zenon DEF AcceptFails
    <3> QED
      BY <2>3, <3>1, <3>2, Zenon DEF AcceptFails
  <2>4. CASE ~(GRPCServeReturns \/ RPCServeReturns \/ AcceptFails)
    BY <1>4, <2>4, SMT, Z3, SMTT(20)
    DEF ServeStep, MainDone, MainCancel, SideInterrupt, SideReturns, srvVars
  <2> QED
    BY <2>1, <2>2, <2>3, <2>4, Zenon
<1>5. CASE StdioStep
  BY <1>5, StdioFrame, SMT, Z3, SMTT(20) DEF srvVars
<1>6. CASE UNCHANGED vars
  BY <1>6, Zenon DEF vars, srvVars
<1> QED
  BY <1>1, <1>2, <1>3, <1>4, <1>5, <1>6, StepCases, Zenon

\* DoneCh is closed once, whatever the Quits of the hosts and the end of Serve.
THEOREM ClosedOnce == Spec => []DoneOnce
<1>1. Init => DoneInv
  BY Zenon DEF Init, DoneInv
<1>2. DoneInv => DoneOnce
  BY Zenon DEF DoneInv, DoneOnce
<1> QED
  BY <1>1, <1>2, DonePreserved, PTL DEF Spec

\* A Close gets past Quit with DoneCh closed or an error to return.
LEMMA QuitPreserved ==
  ASSUME HostsOK, DoneInv, QuitInv, [Next]_vars PROVE QuitInv'
<1> USE DonePreserved DEF QuitInv, HostsOK
<1>1. ASSUME NEW h \in Hosts, CallStep(h) PROVE QuitInv'
  BY <1>1, CallFrame, Zenon
<1>2. ASSUME NEW h \in Hosts, CloseStep(h) PROVE QuitInv'
  <2>1. CASE Quit(h)
    BY <2>1, Zenon DEF Quit, Done
  <2>2. CASE CloseConn(h)
    BY <2>2, Zenon DEF CloseConn
  <2>3. CASE ~Quit(h) /\ ~CloseConn(h)
    BY <1>2, <2>3, SMT, Z3, SMTT(20)
    DEF CloseStep, CloseCall, Shutdown, QuitAnswer, CloseRequestFails
  <2> QED
    BY <2>1, <2>2, <2>3, Zenon
<1>3. ASSUME NEW h \in Hosts, StopStep(h) PROVE QuitInv'
  BY <1>3, StopFrame, Zenon
<1>4. CASE ServeStep
  BY <1>4, ServeFrame, Zenon
<1>5. CASE StdioStep
  BY <1>5, StdioFrame, Zenon DEF hostVars
<1>6. CASE UNCHANGED vars
  BY <1>6, Zenon DEF vars, hostVars
<1> QED
  BY <1>1, <1>2, <1>3, <1>4, <1>5, <1>6, StepCases, Zenon

\* The Close of a net/rpc host is silent only after a Quit that was executed.
THEOREM QuitIsReported == Spec => []QuitReported
<1>1. Init => DoneInv /\ QuitInv
  BY Zenon DEF Init, DoneInv, QuitInv
<1>2. TypeOK /\ DoneInv /\ QuitInv /\ [Next]_vars => DoneInv' /\ QuitInv'
  <2>1. TypeOK => HostsOK
    BY Zenon DEF TypeOK, HostsOK
  <2> QED
    BY <2>1, DonePreserved, QuitPreserved, Zenon
<1>3. TypeOK /\ QuitInv => QuitReported
  BY Zenon DEF QuitInv, QuitReported
<1> QED
  BY <1>1, <1>2, <1>3, TypeCorrect, PTL DEF Spec

\* The drain window of some Shutdown has passed.
Forced == \E g \in Hosts : shutdown[g] \in {"forced", "late"}

\* A gRPC server that has stopped has drained its calls, or run out of time.
DrainInv ==
  /\ \A h \in Hosts :
       shutdown[h] \in {"drain", "forced", "done", "late"} => ~listening
  /\ proto = "grpc" =>
       /\ \A h \in Hosts :
            /\ call[h] \notin {"dispense", "dial"} /\ handler[h] # "accept"
            /\ call[h] = "running" => handler[h] = "running"
       /\ doneCh => stopped \/ failed
       /\ ~test /\ stopped =>
            ~listening /\ (Forced \/ \A h \in Hosts : call[h] # "running")
  /\ DrainBeforeCut

\* It stays so, whoever calls, closes or stops.
LEMMA DrainPreserved ==
  ASSUME HostsOK, DrainInv, [Next]_vars PROVE DrainInv'
<1> USE DEF DrainInv, DrainBeforeCut, Forced, HostsOK
<1>1. ASSUME NEW h \in Hosts, CallStep(h) PROVE DrainInv'
  <2>1. CASE SessionFails(h)
    BY <2>1, ProtosAssumption, Zenon DEF SessionFails, srvVars
  <2>2. CASE GRPCConnect(h) \/ RPCConnect(h)
    BY <2>2, SMT, Z3, SMTT(20) DEF GRPCConnect, RPCConnect, srvVars, callVars
  <2>3. CASE GRPCCall(h)
    BY <2>3, ZenonT(40) DEF GRPCCall, srvVars, hostVars
  <2>4. CASE CallEnd(h)
    BY <2>4, SMT, Z3, SMTT(20) DEF CallEnd, srvVars, hostVars
  <2>5. CASE DispenseCall(h) \/ Dispense(h) \/ DispenseServe(h)
               \/ DispenseTimeout(h)
    BY <2>5, SMT, Z3, SMTT(20)
    DEF DispenseCall, Dispense, DispenseServe, DispenseTimeout, srvVars,
        hostVars
  <2> QED
    BY <1>1, <2>1, <2>2, <2>3, <2>4, <2>5, Zenon DEF CallStep
<1>2. ASSUME NEW h \in Hosts, CloseStep(h) PROVE DrainInv'
  <2>1. CASE CloseConn(h)
    BY <2>1, Zenon DEF CloseConn, Disconnect, srvVars
  <2>2. CASE Shutdown(h)
    BY <2>2, Zenon DEF Shutdown, srvVars, callVars
  <2>3. CASE Quit(h)
    BY <2>3, Zenon DEF Quit, callVars
  <2>4. CASE CloseCall(h) \/ QuitAnswer(h) \/ CloseRequestFails(h)
    BY <2>4, SMT, Z3, SMTT(20)
    DEF CloseCall, QuitAnswer, CloseRequestFails, srvVars, callVars
  <2> QED
    BY <1>2, <2>1, <2>2, <2>3, <2>4, Zenon DEF CloseStep
<1>3. ASSUME NEW h \in Hosts, StopStep(h) PROVE DrainInv'
  <2>1. CASE GracefulStop(h)
    BY <2>1, Zenon DEF GracefulStop, callVars
  <2>2. CASE GracefulReturns(h)
    BY <2>2, Zenon DEF GracefulReturns, Drained, callVars
  <2>3. CASE DrainTimeout(h)
    BY <2>3, Zenon DEF DrainTimeout, Disconnect
  <2> QED
    BY <1>3, <2>1, <2>2, <2>3, Zenon DEF StopStep
<1>4. CASE ServeStep
  <2>1. CASE GRPCServeReturns \/ RPCServeReturns \/ AcceptFails
    BY <2>1, ProtosAssumption, SMT, Z3, SMTT(20)
       DEF GRPCServeReturns, RPCServeReturns, AcceptFails, hostVars, callVars
  <2>2. CASE MainDone
    BY <2>2, SMT, Z3, SMTT(20) DEF MainDone, Disconnect
  <2>3. CASE MainCancel
    BY <2>3, SMT, Z3, SMTT(20) DEF MainCancel, Disconnect
  <2>4. CASE SideInterrupt \/ SideReturns
    BY <2>4, SMT, Z3, SMTT(20)
    DEF SideInterrupt, SideReturns, srvVars, hostVars, callVars
  <2> QED
    BY <1>4, <2>1, <2>2, <2>3, <2>4, Zenon DEF ServeStep
<1>5. CASE StdioStep
  BY <1>5, StdioFrame, SMT, Z3, SMTT(20) DEF srvVars, hostVars, callVars
<1>6. CASE UNCHANGED vars
  BY <1>6, Zenon DEF vars, srvVars, hostVars, callVars
<1> QED
  BY <1>1, <1>2, <1>3, <1>4, <1>5, <1>6, StepCases, Zenon

\* A Shutdown lets the calls of every host finish within the drain window.
THEOREM DrainsFirst == Spec => []DrainBeforeCut
<1>1. Init => DrainInv
  BY Zenon DEF Init, DrainInv, DrainBeforeCut
<1>2. TypeOK /\ DrainInv /\ [Next]_vars => DrainInv'
  <2>1. TypeOK => HostsOK
    BY Zenon DEF TypeOK, HostsOK
  <2> QED
    BY <2>1, DrainPreserved, Zenon
<1>3. DrainInv => DrainBeforeCut
  BY Zenon DEF DrainInv
<1> QED
  BY <1>1, <1>2, <1>3, TypeCorrect, PTL DEF Spec

-----------------------------------------------------------------------------
(* The order of the output.                                                *)

Elems(s) == {s[i] : i \in 1..Len(s)}

\* Within each channel, what is in S was written before what is in T.
Before(S, T) == \A x \in S, y \in T : x[1] = y[1] => x[2] < y[2]

Sorted(s) ==
  \A i, j \in 1..Len(s) : i < j /\ s[i][1] = s[j][1] => s[i][2] < s[j][2]

\* A sequence that grows by a later chunk stays sorted.
LEMMA AppendSorted ==
  ASSUME NEW s \in Seq(Chunks), NEW e \in Chunks
  PROVE  /\ Elems(Append(s, e)) = Elems(s) \cup {e}
         /\ Sorted(s) /\ Before(Elems(s), {e}) => Sorted(Append(s, e))
<1>1. /\ Append(s, e) \in Seq(Chunks) /\ Len(Append(s, e)) = Len(s) + 1
      /\ \A i \in 1..Len(s) : Append(s, e)[i] = s[i]
      /\ Append(s, e)[Len(s) + 1] = e
  OBVIOUS
<1>2. Elems(Append(s, e)) = Elems(s) \cup {e}
  BY <1>1, SMT, Z3, SMTT(20) DEF Elems
<1>3. ASSUME Sorted(s), Before(Elems(s), {e}) PROVE Sorted(Append(s, e))
  BY <1>1, <1>3, SMT, Z3, SMTT(20) DEF Sorted, Before, Elems
<1> QED
  BY <1>2, <1>3, Zenon

\* The head of a sorted sequence comes before the others of its channel.
LEMMA TailSorted ==
  ASSUME NEW s \in Seq(Chunks), s # <<>>
  PROVE  /\ Head(s) \in Elems(s) /\ Elems(Tail(s)) \subseteq Elems(s)
         /\ Sorted(s) => Sorted(Tail(s)) /\ Before({Head(s)}, Elems(Tail(s)))
<1>1. /\ Tail(s) \in Seq(Chunks) /\ Len(Tail(s)) = Len(s) - 1
      /\ Len(s) \in Nat \ {0} /\ Head(s) = s[1]
      /\ \A i \in 1..Len(s) - 1 : Tail(s)[i] = s[i + 1]
  OBVIOUS
<1>2. Head(s) \in Elems(s) /\ Elems(Tail(s)) \subseteq Elems(s)
  BY <1>1, SMT, Z3, SMTT(20) DEF Elems
<1>3. ASSUME Sorted(s)
      PROVE  Sorted(Tail(s)) /\ Before({Head(s)}, Elems(Tail(s)))
  BY <1>1, <1>3, SMT, Z3, SMTT(20) DEF Sorted, Before, Elems
<1> QED
  BY <1>2, <1>3, Zenon

\* Where chunks are, from the plugin to a host.
Piped == {x \in Chunks : \E c \in Channels : x \in Elems(pipe[c])}
Buffered == {x \in Chunks : \E c \in Channels : x = copyBuf[c]}
Held(h) == {x \in Chunks : \E s \in Streams : x = held[h][s]}
Sent(h) == {x \in Chunks : \E s \in Streams : x \in Elems(wire[h][s])}
Shown(h) == Elems(out[h])

\* The stream that carries a channel.
Stream(c) == IF proto = "grpc" THEN "stdio" ELSE c

\* A chunk goes to its host on the stream of its channel.
LaneInv ==
  \A h \in Hosts : \A s \in Streams :
    /\ held[h][s] # None => s = Stream(held[h][s][1])
    /\ \A x \in Elems(wire[h][s]) : s = Stream(x[1])

\* A chunk keeps its channel and its stream; none is numbered beyond what was
\* written.
PlaceInv ==
  /\ LaneInv
  /\ \A c \in Channels :
       /\ \A x \in Elems(pipe[c]) : x[1] = c
       /\ copyBuf[c] # None => copyBuf[c][1] = c
       /\ proto = "netrpc" => copyBuf[c] = None
  /\ \A x \in Piped \cup Buffered : x[2] <= writes
  /\ \A h \in Hosts : \A x \in Held(h) \cup Sent(h) \cup Shown(h) : x[2] <= writes

\* At each place chunks are in order, and ahead of those further back.
OrderInv ==
  /\ \A c \in Channels : Sorted(pipe[c])
  /\ Before(Buffered, Piped)
  /\ \A h \in Hosts :
       /\ \A s \in Streams : Sorted(wire[h][s])
       /\ Sorted(out[h])
       /\ Before(Held(h), Buffered \cup Piped)
       /\ Before(Sent(h), Held(h) \cup Buffered \cup Piped)
       /\ Before(Shown(h), Sent(h) \cup Held(h) \cup Buffered \cup Piped)

\* What one host's stream has taken, another's has not.
ApartInv ==
  \A g, h \in Hosts : g # h =>
    \A x \in Held(g) \cup Sent(g) \cup Shown(g) :
      x \notin Held(h) \cup Sent(h) \cup Shown(h)

\* The head of a pipe is taken: it is ahead of all that stays in the pipes.
LEMMA PipeHead ==
  ASSUME StdioOK, PlaceInv, OrderInv, NEW c \in Channels, pipe[c] # <<>>,
         pipe' = [pipe EXCEPT ![c] = Tail(pipe[c])]
  PROVE  /\ Head(pipe[c]) \in Piped /\ Head(pipe[c])[1] = c
         /\ \A d \in Channels : /\ Elems(pipe'[d]) \subseteq Elems(pipe[d])
                                /\ Sorted(pipe'[d])
         /\ Piped' \subseteq Piped /\ Before({Head(pipe[c])}, Piped')
<1>1. pipe[c] \in Seq(Chunks) /\ Sorted(pipe[c])
  BY Zenon DEF StdioOK, OrderInv
<1>2. /\ Head(pipe[c]) \in Chunks /\ Head(pipe[c]) \in Elems(pipe[c])
      /\ Elems(Tail(pipe[c])) \subseteq Elems(pipe[c])
      /\ Sorted(Tail(pipe[c])) /\ Before({Head(pipe[c])}, Elems(Tail(pipe[c])))
  BY <1>1, HeadTail, TailSorted, Zenon
<1>3. Head(pipe[c]) \in Piped /\ Head(pipe[c])[1] = c
  BY <1>2, Zenon DEF Piped, PlaceInv
<1>4. \A d \in Channels : pipe'[d] = IF d = c THEN Tail(pipe[c]) ELSE pipe[d]
  BY Zenon DEF StdioOK
<1>5. \A d \in Channels : /\ Elems(pipe'[d]) \subseteq Elems(pipe[d])
                          /\ Sorted(pipe'[d])
  BY <1>2, <1>4, Zenon DEF OrderInv
<1>6. Piped' \subseteq Piped
  BY <1>5, Zenon DEF Piped
<1>7. ASSUME NEW x \in Piped', x[1] = c PROVE Head(pipe[c])[2] < x[2]
  <2>1. PICK d \in Channels : x \in Elems(pipe'[d])
    BY <1>7, Zenon DEF Piped
  <2>2. d = c
    BY <1>5, <1>7, <2>1, Zenon DEF PlaceInv
  <2> QED
    BY <1>2, <1>3, <1>4, <1>7, <2>1, <2>2, Zenon DEF Before
<1> QED
  BY <1>3, <1>5, <1>6, <1>7, Zenon DEF Before

\* copyChan takes a chunk.
LEMMA CopyChanOrder ==
  ASSUME StdioOK, PlaceInv, OrderInv, ApartInv, NEW c \in Channels, CopyChan(c)
  PROVE  (PlaceInv /\ OrderInv /\ ApartInv)'
<1>1. /\ Head(pipe[c]) \in Piped /\ Head(pipe[c])[1] = c
      /\ \A d \in Channels : /\ Elems(pipe'[d]) \subseteq Elems(pipe[d])
                             /\ Sorted(pipe'[d])
      /\ Piped' \subseteq Piped /\ Before({Head(pipe[c])}, Piped')
  BY PipeHead, Zenon DEF CopyChan
<1>2. Head(pipe[c]) \in Chunks
  BY <1>1, Zenon DEF Piped
<1>3. \A d \in Channels :
        copyBuf'[d] = IF d = c THEN Head(pipe[c]) ELSE copyBuf[d]
  BY Zenon DEF CopyChan, StdioOK
<1>4. Buffered' \subseteq Buffered \cup {Head(pipe[c])}
  BY <1>3, Zenon DEF Buffered
<1>5. /\ UNCHANGED <<proto, writes, held, wire, out>> /\ proto = "grpc"
      /\ \A h \in Hosts : /\ Held(h)' = Held(h) /\ Sent(h)' = Sent(h)
                          /\ Shown(h)' = Shown(h)
      /\ LaneInv' = LaneInv
  BY Zenon DEF CopyChan, Held, Sent, Shown, outVars, LaneInv, Stream
<1>6. PlaceInv'
  BY <1>1, <1>3, <1>4, <1>5, SMT, Z3, SMTT(20) DEF PlaceInv
<1>7. OrderInv'
  BY <1>1, <1>4, <1>5, SMT, Z3, SMTT(20) DEF OrderInv, Before
<1>8. ApartInv'
  BY <1>5, Zenon DEF ApartInv
<1> QED
  BY <1>6, <1>7, <1>8, Zenon

\* A chunk is written to a pipe, with a number of its own.
LEMMA WriteOrder ==
  ASSUME StdioOK, PlaceInv, OrderInv, ApartInv, NEW c \in Channels, Write(c)
  PROVE  (PlaceInv /\ OrderInv /\ ApartInv)'
<1> DEFINE e == <<c, writes + 1>>
<1>1. /\ e \in Chunks /\ e[1] = c /\ e[2] = writes + 1 /\ writes' = writes + 1
      /\ writes \in Nat
  BY WritesAssumption, SMT, Z3, SMTT(20) DEF Write, StdioOK, Chunks
<1>2. \A d \in Channels : pipe'[d] = IF d = c THEN Append(pipe[c], e) ELSE pipe[d]
  BY Zenon DEF Write, StdioOK
<1>3. /\ UNCHANGED <<proto, copyBuf, held, wire, out>> /\ Buffered' = Buffered
      /\ \A h \in Hosts : /\ Held(h)' = Held(h) /\ Sent(h)' = Sent(h)
                          /\ Shown(h)' = Shown(h)
      /\ LaneInv' = LaneInv
  BY Zenon DEF Write, Buffered, Held, Sent, Shown, outVars, LaneInv, Stream
<1> HIDE DEF e
<1>4. /\ Elems(Append(pipe[c], e)) = Elems(pipe[c]) \cup {e}
      /\ Before(Elems(pipe[c]), {e}) => Sorted(Append(pipe[c], e))
  BY <1>1, AppendSorted, Zenon DEF StdioOK, OrderInv
<1>5. \A d \in Channels : Elems(pipe'[d]) \subseteq Elems(pipe[d]) \cup {e}
  BY <1>2, <1>4, Zenon
<1>6. Piped' \subseteq Piped \cup {e}
  BY <1>5, Zenon DEF Piped
<1>7. \A x \in Elems(pipe[c]) : x \in Piped
  <2>1. \A x \in Elems(pipe[c]) : x \in Chunks
    BY SMT, Z3, SMTT(20) DEF Elems, StdioOK
  <2> QED
    BY <2>1, Zenon DEF Piped
<1>8. /\ \A x \in Chunks : x[2] \in Nat
      /\ \A h \in Hosts : /\ Held(h) \subseteq Chunks /\ Sent(h) \subseteq Chunks
                          /\ Shown(h) \subseteq Chunks
  BY SMT, Z3, SMTT(20) DEF Chunks, Held, Sent, Shown, Elems, StdioOK
<1>9. /\ Before(Piped \cup Buffered, {e})
      /\ \A h \in Hosts : Before(Held(h) \cup Sent(h) \cup Shown(h), {e})
  BY <1>1, <1>8, SMT, Z3, SMTT(20) DEF Before, PlaceInv, Piped, Buffered
<1>10. PlaceInv'
  <2>1. \A d \in Channels : \A x \in Elems(pipe'[d]) : x[1] = d
    BY <1>1, <1>2, <1>4, SMT, Z3, SMTT(20) DEF PlaceInv
  <2>2. \A x \in Piped' \cup Buffered' : x[2] <= writes'
    BY <1>1, <1>3, <1>6, <1>8, SMT, Z3, SMTT(20) DEF PlaceInv, Piped, Buffered
  <2>3. \A h \in Hosts :
          \A x \in Held(h)' \cup Sent(h)' \cup Shown(h)' : x[2] <= writes'
    BY <1>1, <1>3, <1>8, SMT, Z3, SMTT(20) DEF PlaceInv
  <2> QED
    BY <1>3, <2>1, <2>2, <2>3, Zenon DEF PlaceInv
<1>11. OrderInv'
  <2>1. \A d \in Channels : Sorted(pipe'[d])
    BY <1>2, <1>4, <1>7, <1>9, Zenon DEF OrderInv, Before
  <2>2. Before(Buffered', Piped')
    BY <1>3, <1>6, <1>9, Zenon DEF OrderInv, Before
  <2> QED
    BY <1>3, <1>6, <1>9, <2>1, <2>2, Zenon DEF OrderInv, Before
<1>12. ApartInv'
  BY <1>3, Zenon DEF ApartInv
<1> QED
  BY <1>10, <1>11, <1>12, Zenon

\* A host's stream takes a chunk that is ahead of all that wait.
LEMMA TakeOrder ==
  ASSUME StdioOK, PlaceInv, OrderInv, ApartInv,
         NEW s \in Streams, NEW h \in Hosts, NEW e \in Buffered \cup Piped,
         s = Stream(e[1]), held' = [held EXCEPT ![h][s] = e],
         UNCHANGED <<proto, writes, wire, out>>,
         \A d \in Channels : /\ copyBuf'[d] \in {copyBuf[d], None}
                             /\ Elems(pipe'[d]) \subseteq Elems(pipe[d])
                             /\ Sorted(pipe'[d]),
         Before({e}, Buffered' \cup Piped')
  PROVE  (PlaceInv /\ OrderInv /\ ApartInv)'
<1>1. e \in Chunks
  BY Zenon DEF Buffered, Piped
<1>2. \A g \in Hosts : \A t \in Streams :
        held'[g][t] = IF g = h /\ t = s THEN e ELSE held[g][t]
  BY Zenon DEF StdioOK
<1>3. Buffered' \subseteq Buffered /\ Piped' \subseteq Piped
  BY NoneAssumption, Zenon DEF Buffered, Piped
<1>4. /\ Held(h)' \subseteq Held(h) \cup {e}
      /\ \A g \in Hosts : g # h => Held(g)' = Held(g)
      /\ \A g \in Hosts : Sent(g)' = Sent(g) /\ Shown(g)' = Shown(g)
  BY <1>2, SMT, Z3, SMTT(20) DEF Held, Sent, Shown
<1>5. \A g \in Hosts : Before(Held(g) \cup Sent(g) \cup Shown(g), {e})
  BY Zenon DEF OrderInv, Before
<1>6. \A g \in Hosts : e \notin Held(g) \cup Sent(g) \cup Shown(g)
  BY <1>1, <1>5, SMT, Z3, SMTT(20) DEF Before, Chunks
<1>7. PlaceInv'
  <2>1. \A d \in Channels : \A x \in Elems(pipe'[d]) : x[1] = d
    BY Zenon DEF PlaceInv
  <2>2. \A d \in Channels : /\ copyBuf'[d] # None => copyBuf'[d][1] = d
                            /\ proto' = "netrpc" => copyBuf'[d] = None
    BY Zenon DEF PlaceInv
  <2>3. LaneInv'
    <3>1. \A d : Stream(d)' = Stream(d)
      BY Zenon DEF Stream
    <3>2. LaneInv
      BY Zenon DEF PlaceInv
    <3> SUFFICES ASSUME NEW g \in Hosts, NEW t \in Streams
                 PROVE  /\ held'[g][t] # None => t = Stream(held'[g][t][1])
                        /\ \A x \in Elems(wire[g][t]) : t = Stream(x[1])
      BY <3>1, ZenonT(40) DEF LaneInv
    <3>3. held'[g][t] # None => t = Stream(held'[g][t][1])
      <4>1. CASE g = h /\ t = s
        <5>1. held'[g][t] = e
          BY <1>2, <4>1, Zenon
        <5> QED
          BY <4>1, <5>1, Zenon
      <4>2. CASE ~(g = h /\ t = s)
        <5>1. held'[g][t] = held[g][t]
          BY <1>2, <4>2, Zenon
        <5> QED
          BY <3>2, <5>1, Zenon DEF LaneInv
      <4> QED
        BY <4>1, <4>2, Zenon
    <3> QED
      BY <3>2, <3>3, Zenon DEF LaneInv
  <2>4. \A g \in Hosts :
          \A x \in Held(g)' \cup Sent(g)' \cup Shown(g)' : x[2] <= writes'
    BY <1>4, SMT, Z3, SMTT(20) DEF PlaceInv
  <2> QED
    BY <1>3, <2>1, <2>2, <2>3, <2>4, Zenon DEF PlaceInv
<1>8. OrderInv'
  BY <1>3, <1>4, <1>5, SMT, Z3, SMTT(20) DEF OrderInv, Before
<1>9. ApartInv'
  BY <1>4, <1>6, SMT, Z3, SMTT(20) DEF ApartInv
<1> QED
  BY <1>7, <1>8, <1>9, Zenon

\* StreamStdio takes the chunk of copyChan, copyStream the head of the pipe.
LEMMA StreamTakes ==
  ASSUME StdioOK, PlaceInv, OrderInv, ApartInv,
         NEW c \in Channels, NEW h \in Hosts,
         StreamStdioTake(h, c) \/ CopyStreamRead(h, c)
  PROVE  (PlaceInv /\ OrderInv /\ ApartInv)'
<1>0. c \in Streams /\ "stdio" \in Streams
  BY Zenon DEF Streams
<1>1. CASE StreamStdioTake(h, c)
  <2>1. /\ copyBuf[c] \in Buffered /\ copyBuf[c][1] = c
        /\ "stdio" = Stream(copyBuf[c][1])
    BY <1>1, Zenon DEF StreamStdioTake, StdioOK, Buffered, PlaceInv, Stream
  <2>2. \A d \in Channels : copyBuf'[d] = IF d = c THEN None ELSE copyBuf[d]
    BY <1>1, Zenon DEF StreamStdioTake, StdioOK
  <2>3. UNCHANGED <<proto, writes, pipe, wire, out>> /\ Piped' = Piped
    BY <1>1, Zenon DEF StreamStdioTake, Piped, outVars
  <2>4. \A x \in Buffered' : x[1] # c
    BY <2>2, NoneAssumption, SMT, Z3, SMTT(20) DEF Buffered, PlaceInv
  <2>5. Before({copyBuf[c]}, Buffered' \cup Piped')
    BY <2>1, <2>3, <2>4, Zenon DEF OrderInv, Before
  <2>6. held' = [held EXCEPT ![h]["stdio"] = copyBuf[c]]
    BY <1>1, Zenon DEF StreamStdioTake
  <2> QED
    BY <1>0, <2>1, <2>2, <2>3, <2>5, <2>6, TakeOrder, Zenon DEF OrderInv
<1>2. CASE CopyStreamRead(h, c)
  <2>1. /\ Head(pipe[c]) \in Piped /\ Head(pipe[c])[1] = c
        /\ \A d \in Channels : /\ Elems(pipe'[d]) \subseteq Elems(pipe[d])
                               /\ Sorted(pipe'[d])
        /\ Piped' \subseteq Piped /\ Before({Head(pipe[c])}, Piped')
    BY <1>2, PipeHead, Zenon DEF CopyStreamRead
  <2>2. c = Stream(Head(pipe[c])[1])
    BY <1>2, <2>1, SMT, Z3, SMTT(20) DEF CopyStreamRead, Stream
  <2>3. UNCHANGED <<proto, writes, copyBuf, wire, out>> /\ Buffered' = {}
    BY <1>2, NoneAssumption, SMT, Z3, SMTT(20)
    DEF CopyStreamRead, Buffered, PlaceInv, outVars
  <2>4. Before({Head(pipe[c])}, Buffered' \cup Piped')
    BY <2>1, <2>3, Zenon DEF Before
  <2>5. held' = [held EXCEPT ![h][c] = Head(pipe[c])]
    BY <1>2, Zenon DEF CopyStreamRead
  <2> QED
    BY <1>0, <2>1, <2>2, <2>3, <2>4, <2>5, TakeOrder, Zenon
<1> QED
  BY <1>1, <1>2, Zenon

\* What is on a stream of a host is sent, and nothing else.
LEMMA OnStream ==
  ASSUME StdioOK, NEW h \in Hosts, NEW s \in Streams
  PROVE  wire[h][s] \in Seq(Chunks) /\ Elems(wire[h][s]) \subseteq Sent(h)
<1>1. wire[h][s] \in Seq(Chunks)
  BY Zenon DEF StdioOK
<1>2. Elems(wire[h][s]) \subseteq Chunks
  BY <1>1, SMT, Z3, SMTT(20) DEF Elems
<1> QED
  BY <1>1, <1>2, Zenon DEF Sent

\* The stream sends its chunk, or loses it.
LEMMA SendOrder ==
  ASSUME StdioOK, PlaceInv, OrderInv, ApartInv,
         NEW s \in Streams, NEW h \in Hosts, StreamSend(h, s)
  PROVE  (PlaceInv /\ OrderInv /\ ApartInv)'
<1> DEFINE e == held[h][s]
<1>1. /\ e \in Chunks /\ e \in Held(h) /\ s = Stream(e[1])
      /\ wire[h][s] \in Seq(Chunks) /\ Elems(wire[h][s]) \subseteq Sent(h)
  <2>1. e # None /\ e \in Chunks \cup {None}
    BY Zenon DEF StreamSend, StdioOK
  <2> QED
    BY <2>1, OnStream, Zenon DEF Held, PlaceInv, LaneInv
<1>2. \A g \in Hosts : \A t \in Streams :
        held'[g][t] = IF g = h /\ t = s THEN None ELSE held[g][t]
  BY Zenon DEF StreamSend, StdioOK
<1>3. /\ UNCHANGED <<proto, writes, pipe, copyBuf, out>>
      /\ Buffered' = Buffered /\ Piped' = Piped
      /\ \A g \in Hosts : Shown(g)' = Shown(g)
      /\ \A d : Stream(d)' = Stream(d)
  BY Zenon DEF StreamSend, Buffered, Piped, Shown, outVars, Stream
<1>4. \A g \in Hosts : \A t \in Streams :
        \/ wire'[g][t] = wire[g][t]
        \/ g = h /\ t = s /\ wire'[g][t] = Append(wire[h][s], e)
  <2>1. Append(wire[h][s], e) \in Seq(Chunks)
    BY <1>1, SMT, Z3, SMTT(20)
  <2>2. \/ UNCHANGED wire
        \/ wire' = [wire EXCEPT ![h][s] = Append(wire[h][s], e)]
    BY Zenon DEF StreamSend
  <2>3. PICK w \in Seq(Chunks) : w = Append(wire[h][s], e)
    BY <2>1, Zenon
  <2> HIDE DEF e
  <2>4. CASE wire' = [wire EXCEPT ![h][s] = w]
    <3>1. \A g \in Hosts : \A t \in Streams :
            wire'[g][t] = IF g = h /\ t = s THEN w ELSE wire[g][t]
      BY <2>4, WireTypes, Zenon
    <3> QED
      BY <2>3, <3>1, Zenon
  <2> QED
    BY <2>2, <2>3, <2>4, Zenon
<1>5. \A x \in Held(h)' : x \in Held(h) /\ x[1] # e[1]
  <2> TAKE x \in Held(h)'
  <2>1. PICK t \in Streams : x = held'[h][t]
    BY Zenon DEF Held
  <2>2. x \in Chunks /\ x # None
    BY NoneAssumption, Zenon DEF Held
  <2>3. t # s /\ x = held[h][t]
    BY <1>2, <2>1, <2>2, Zenon
  <2>4. t = Stream(x[1])
    BY <2>2, <2>3, Zenon DEF PlaceInv, LaneInv
  <2> QED
    BY <1>1, <2>2, <2>3, <2>4, Zenon DEF Held
<1>6. \A g \in Hosts : g # h => Held(g)' = Held(g)
  BY <1>2, Zenon DEF Held
<1> HIDE DEF e
<1>7. /\ Elems(Append(wire[h][s], e)) = Elems(wire[h][s]) \cup {e}
      /\ Sorted(Append(wire[h][s], e))
  <2>1. Before(Elems(wire[h][s]), {e}) /\ Sorted(wire[h][s])
    BY <1>1, Zenon DEF OrderInv, Before
  <2> QED
    BY <1>1, <2>1, AppendSorted, Zenon
<1>8. /\ \A g \in Hosts : \A t \in Streams : Sorted(wire'[g][t])
      /\ \A g \in Hosts : g # h => Sent(g)' = Sent(g)
      /\ Sent(h)' \subseteq Sent(h) \cup {e}
  BY <1>4, <1>7, Zenon DEF Sent, OrderInv
<1>9. PlaceInv'
  <2>1. LaneInv'
    <3>1. LaneInv
      BY Zenon DEF PlaceInv
    <3> SUFFICES ASSUME NEW g \in Hosts, NEW t \in Streams
                 PROVE  /\ held'[g][t] # None => t = Stream(held'[g][t][1])
                        /\ \A x \in Elems(wire'[g][t]) : t = Stream(x[1])
      BY <1>3, Zenon DEF LaneInv
    <3>2. held'[g][t] # None => held'[g][t] = held[g][t]
      BY <1>2, Zenon
    <3>3. held'[g][t] # None => t = Stream(held'[g][t][1])
      BY <3>1, <3>2, Zenon DEF LaneInv
    <3>4. \A x \in Elems(wire'[g][t]) : x \in Elems(wire[g][t]) \/ (t = s /\ x = e)
      <4>1. CASE g = h /\ t = s /\ wire'[g][t] = Append(wire[h][s], e)
        <5>1. Elems(wire'[g][t]) = Elems(wire[g][t]) \cup {e}
          BY <1>7, <4>1, Zenon
        <5> QED
          BY <4>1, <5>1, Zenon
      <4>2. CASE wire'[g][t] = wire[g][t]
        BY <4>2, Zenon
      <4> QED
        BY <1>4, <4>1, <4>2, Zenon
    <3>5. \A x \in Elems(wire'[g][t]) : t = Stream(x[1])
      BY <1>1, <3>1, <3>4, Zenon DEF LaneInv
    <3> QED
      BY <3>3, <3>5, Zenon
  <2>2. \A g \in Hosts :
          \A x \in Held(g)' \cup Sent(g)' \cup Shown(g)' : x[2] <= writes'
    BY <1>1, <1>3, <1>5, <1>6, <1>8, SMT, Z3, SMTT(20) DEF PlaceInv
  <2> QED
    BY <1>3, <2>1, <2>2, Zenon DEF PlaceInv
<1>10. OrderInv'
  <2>1. Before(Sent(h)', Held(h)' \cup Buffered' \cup Piped')
    BY <1>1, <1>3, <1>5, <1>8, Zenon DEF OrderInv, Before
  <2>2. Before(Shown(h)', Sent(h)' \cup Held(h)' \cup Buffered' \cup Piped')
    BY <1>1, <1>3, <1>5, <1>8, ZenonT(40) DEF OrderInv, Before
  <2>3. Before(Held(h)', Buffered' \cup Piped')
    BY <1>3, <1>5, Zenon DEF OrderInv, Before
  <2> QED
    BY <1>3, <1>6, <1>8, <2>1, <2>2, <2>3, Zenon DEF OrderInv
<1>11. ApartInv'
  BY <1>1, <1>3, <1>5, <1>6, <1>8, SMT, Z3, SMTT(20) DEF ApartInv
<1> QED
  BY <1>9, <1>10, <1>11, Zenon

\* A host takes the next chunk of a stream: it is ahead of all that stays on its
\* streams.
LEMMA StreamHead ==
  ASSUME StdioOK, PlaceInv, OrderInv, NEW h \in Hosts, NEW s \in Streams,
         Received(h, s)
  PROVE  /\ Head(wire[h][s]) \in Sent(h) /\ Before({Head(wire[h][s])}, Sent(h)')
         /\ \A g \in Hosts : \A t \in Streams :
              Elems(wire'[g][t]) \subseteq Elems(wire[g][t]) /\ Sorted(wire'[g][t])
<1> DEFINE e == Head(wire[h][s])
<1>1. /\ wire[h][s] \in Seq(Chunks) /\ wire[h][s] # <<>> /\ e \in Chunks
      /\ \A g \in Hosts : \A t \in Streams :
           wire'[g][t] = IF g = h /\ t = s THEN Tail(wire[h][s]) ELSE wire[g][t]
  BY ReceivedTypes, ZenonT(40)
<1>2. /\ e \in Elems(wire[h][s]) /\ Elems(Tail(wire[h][s])) \subseteq Elems(wire[h][s])
      /\ Sorted(Tail(wire[h][s])) /\ Before({e}, Elems(Tail(wire[h][s])))
  BY <1>1, TailSorted, Zenon DEF OrderInv
<1> HIDE DEF e
<1>3. e \in Sent(h)
  BY <1>2, OnStream, Zenon
<1>4. \A g \in Hosts : \A t \in Streams :
        Elems(wire'[g][t]) \subseteq Elems(wire[g][t]) /\ Sorted(wire'[g][t])
  BY <1>1, <1>2, Zenon DEF OrderInv
<1>5. ASSUME NEW x \in Sent(h)', x[1] = e[1] PROVE e[2] < x[2]
  <2>1. PICK t \in Streams : x \in Elems(wire'[h][t])
    BY <1>5, Zenon DEF Sent
  <2>2. t = Stream(x[1]) /\ s = Stream(e[1])
    <3>1. LaneInv /\ x \in Elems(wire[h][t])
      BY <1>4, <2>1, Zenon DEF PlaceInv
    <3> QED
      BY <1>2, <3>1, Zenon DEF LaneInv
  <2>3. x \in Elems(Tail(wire[h][s]))
    BY <1>1, <1>5, <2>1, <2>2, Zenon
  <2> QED
    BY <1>2, <1>5, <2>3, Zenon DEF Before
<1>6. Before({e}, Sent(h)')
  BY <1>5, Zenon DEF Before
<1> QED
  BY <1>3, <1>4, <1>6, Zenon DEF e

\* The host writes what has arrived.
LEMMA HostWriteOrder ==
  ASSUME StdioOK, PlaceInv, OrderInv, ApartInv, NEW h \in Hosts,
         NEW s \in Streams, HostWrite(h, s)
  PROVE  (PlaceInv /\ OrderInv /\ ApartInv)'
<1> DEFINE e == Head(wire[h][s])
<1>1. /\ e \in Sent(h) /\ Before({e}, Sent(h)')
      /\ \A g \in Hosts : \A t \in Streams :
           Elems(wire'[g][t]) \subseteq Elems(wire[g][t]) /\ Sorted(wire'[g][t])
  BY StreamHead, Zenon DEF HostWrite
<1>2. e \in Chunks /\ out[h] \in Seq(Chunks)
  BY <1>1, Zenon DEF Sent, StdioOK
<1>3. /\ UNCHANGED <<proto, writes, pipe, copyBuf, held>>
      /\ Buffered' = Buffered /\ Piped' = Piped
      /\ \A g \in Hosts : Held(g)' = Held(g)
      /\ \A d : Stream(d)' = Stream(d)
  BY Zenon DEF HostWrite, Buffered, Piped, Held, Stream
<1>4. \A g \in Hosts : out'[g] = IF g = h THEN Append(out[h], e) ELSE out[g]
  BY Zenon DEF HostWrite, StdioOK
<1> HIDE DEF e
<1>5. Elems(Append(out[h], e)) = Shown(h) \cup {e} /\ Sorted(Append(out[h], e))
  BY <1>1, <1>2, AppendSorted, SMT, Z3, SMTT(20) DEF Shown, OrderInv, Before
<1>6. /\ \A g \in Hosts : Sorted(out'[g])
      /\ \A g \in Hosts : g # h => Shown(g)' = Shown(g)
      /\ \A g \in Hosts : Sent(g)' \subseteq Sent(g)
      /\ Shown(h)' = Shown(h) \cup {e}
  BY <1>1, <1>4, <1>5, Zenon DEF Sent, Shown, OrderInv
<1>7. PlaceInv'
  <2>1. \A g \in Hosts :
          \A x \in Held(g)' \cup Sent(g)' \cup Shown(g)' : x[2] <= writes'
    BY <1>1, <1>3, <1>6, SMT, Z3, SMTT(20) DEF PlaceInv
  <2>2. LaneInv'
    BY <1>1, <1>3, Zenon DEF PlaceInv, LaneInv
  <2> QED
    BY <1>3, <2>1, <2>2, Zenon DEF PlaceInv
<1>8. OrderInv'
  <2>1. Before(Shown(h)', Sent(h)' \cup Held(h)' \cup Buffered' \cup Piped')
    BY <1>1, <1>3, <1>6, Zenon DEF OrderInv, Before
  <2>2. \A g \in Hosts : Before(Sent(g)', Held(g)' \cup Buffered' \cup Piped')
    BY <1>3, <1>6, Zenon DEF OrderInv, Before
  <2>3. ASSUME NEW g \in Hosts, g # h
        PROVE  Before(Shown(g)', Sent(g)' \cup Held(g)' \cup Buffered' \cup Piped')
    BY <1>3, <1>6, <2>3, Zenon DEF OrderInv, Before
  <2> QED
    BY <1>1, <1>3, <1>6, <2>1, <2>2, <2>3, Zenon DEF OrderInv
<1>9. ApartInv'
  BY <1>1, <1>3, <1>6, SMT, Z3, SMTT(20) DEF ApartInv
<1> QED
  BY <1>7, <1>8, <1>9, Zenon

\* What leaves a wire and is not written disturbs nothing.
LEMMA WireLost ==
  ASSUME StdioOK, PlaceInv, OrderInv, ApartInv,
         UNCHANGED <<proto, writes, pipe, copyBuf, held, out>>,
         \A h \in Hosts : \A s \in Streams :
           Elems(wire'[h][s]) \subseteq Elems(wire[h][s]) /\ Sorted(wire'[h][s])
  PROVE  (PlaceInv /\ OrderInv /\ ApartInv)'
<1>1. /\ Buffered' = Buffered /\ Piped' = Piped
      /\ \A h \in Hosts : Held(h)' = Held(h) /\ Shown(h)' = Shown(h)
      /\ \A d : Stream(d)' = Stream(d)
  BY Zenon DEF Buffered, Piped, Held, Shown, Stream
<1>2. \A h \in Hosts : Sent(h)' \subseteq Sent(h)
  BY Zenon DEF Sent
<1>3. PlaceInv'
  <2>1. LaneInv
    BY Zenon DEF PlaceInv
  <2>2. LaneInv'
    BY <1>1, <2>1, Zenon DEF LaneInv
  <2>3. \A h \in Hosts :
          \A x \in Held(h)' \cup Sent(h)' \cup Shown(h)' : x[2] <= writes'
    BY <1>1, <1>2, SMT, Z3, SMTT(20) DEF PlaceInv
  <2> QED
    BY <1>1, <2>2, <2>3, Zenon DEF PlaceInv
<1>4. OrderInv'
  BY <1>1, <1>2, SMT, Z3, SMTT(20) DEF OrderInv, Before
<1>5. ApartInv'
  BY <1>1, <1>2, SMT, Z3, SMTT(20) DEF ApartInv
<1> QED
  BY <1>3, <1>4, <1>5, Zenon

\* Nothing is on a wire that has been cleared.
LEMMA NothingSent == Elems(<<>>) = {} /\ Sorted(<<>>)
BY SMT, Z3, SMTT(20) DEF Elems, Sorted

\* Output stays in order, whoever takes a step.
LEMMA OutputPreserved ==
  ASSUME ServerOK, HostsOK, StdioOK, PlaceInv, OrderInv, ApartInv, [Next]_vars
  PROVE  (PlaceInv /\ OrderInv /\ ApartInv)'
<1>1. CASE StdioStep
  <2>1. ASSUME NEW h \in Hosts, StreamDone(h)
        PROVE  (PlaceInv /\ OrderInv /\ ApartInv)'
    <3>1. UNCHANGED <<proto, writes, pipe, copyBuf, held, out, wire>>
      BY <2>1, Zenon DEF StreamDone, outVars
    <3> QED
      BY <3>1, WireLost, Zenon DEF OrderInv
  <2>2. ASSUME NEW h \in Hosts, NEW s \in Streams, Received(h, s),
               UNCHANGED <<proto, writes, pipe, copyBuf, held, out>>
        PROVE  (PlaceInv /\ OrderInv /\ ApartInv)'
    BY <2>2, StreamHead, WireLost, Zenon
  <2>3. ASSUME NEW h \in Hosts, NEW s \in Streams, HostWriteFails(h, s)
        PROVE  (PlaceInv /\ OrderInv /\ ApartInv)'
    BY <2>2, <2>3, Zenon DEF HostWriteFails
  <2>4. ASSUME NEW h \in Hosts, HostWritePanics(h)
        PROVE  (PlaceInv /\ OrderInv /\ ApartInv)'
    BY <2>2, <2>4, Zenon DEF HostWritePanics, Streams
  <2>5. ASSUME NEW h \in Hosts, HostRecvError(h)
        PROVE  (PlaceInv /\ OrderInv /\ ApartInv)'
    <3>1. /\ UNCHANGED <<proto, writes, pipe, copyBuf, held, out>>
          /\ \A g \in Hosts : \A s \in Streams :
               wire'[g][s] = wire[g][s] \/ wire'[g][s] = <<>>
      BY <2>5, Zenon DEF HostRecvError, outVars, StdioOK
    <3> QED
      BY <3>1, NothingSent, WireLost, Zenon DEF OrderInv
  <2> QED
    BY <1>1, <2>1, <2>3, <2>4, <2>5, WriteOrder, CopyChanOrder, StreamTakes,
       SendOrder, HostWriteOrder, Zenon DEF StdioStep
<1>2. CASE ~StdioStep
  <2>1. UNCHANGED proto
    BY <1>2, StepCases, CallFrame, CloseFrame, StopFrame, ServeFrame, Zenon DEF
         vars
  <2>2. /\ UNCHANGED <<writes, pipe, copyBuf, held, out>>
        /\ \A h \in Hosts : wire'[h] \in {wire[h], NoChunks}
    BY <1>2, WireFrame, Zenon
  <2>3. \A h \in Hosts : \A s \in Streams :
          wire'[h][s] = wire[h][s] \/ wire'[h][s] = <<>>
    BY <2>2, Zenon DEF NoChunks
  <2> QED
    BY <2>1, <2>2, <2>3, NothingSent, WireLost, Zenon DEF OrderInv
<1> QED
  BY <1>1, <1>2, Zenon

\* At the start no chunk is anywhere.
LEMMA OutputInit == Init => PlaceInv /\ OrderInv /\ ApartInv
<1> SUFFICES ASSUME Init PROVE PlaceInv /\ OrderInv /\ ApartInv
  BY Zenon
<1>1. /\ Piped = {} /\ Buffered = {}
      /\ \A h \in Hosts : Held(h) = {} /\ Sent(h) = {} /\ Shown(h) = {}
  BY NothingSent, NoneAssumption, Zenon DEF Init, Piped, Buffered, Held, Sent, Shown
<1>2. PlaceInv
  BY <1>1, NothingSent, Zenon DEF Init, PlaceInv, LaneInv
<1>3. OrderInv /\ ApartInv
  BY <1>1, NothingSent, Zenon DEF Init, OrderInv, ApartInv, Before
<1> QED
  BY <1>2, <1>3, Zenon

\* However the streams of the hosts share the output, each chunk is written
\* once, and a channel's chunks in the order of the plugin's writes.
THEOREM OutputOrdered == Spec => []OutputInOrder
<1>1. Init => PlaceInv /\ OrderInv /\ ApartInv
  BY OutputInit, Zenon
<1>2. TypeOK => ServerOK /\ HostsOK /\ StdioOK
  BY Zenon DEF TypeOK, ServerOK, HostsOK, StdioOK
<1>3. TypeOK /\ PlaceInv /\ OrderInv /\ ApartInv /\ [Next]_vars
        => (PlaceInv /\ OrderInv /\ ApartInv)'
  BY <1>2, OutputPreserved, Zenon
<1>4. TypeOK /\ OrderInv /\ ApartInv => OutputInOrder
  <2> SUFFICES ASSUME TypeOK, OrderInv, ApartInv PROVE OutputInOrder
    BY Zenon
  <2>1. \A h \in Hosts : Sorted(out[h])
    BY Zenon DEF OrderInv
  <2>2. \A h \in Hosts : \A i \in 1..Len(out[h]) : out[h][i] \in Shown(h)
    BY Zenon DEF Shown, Elems
  <2> QED
    BY <2>1, <2>2, Zenon DEF OutputInOrder, Sorted, ApartInv
<1> QED
  BY <1>1, <1>3, <1>4, TypeCorrect, PTL DEF Spec

-----------------------------------------------------------------------------
(* The end of Serve, once everyone waits.                                  *)

\* What has ended Serve or stopped the server has left its mark: Serve's
\* goroutine closes DoneCh, a Shutdown past its window has stopped the server,
\* and a server that stops closes the broker.
EndInv ==
  /\ ~serving => doneCh
  /\ main = "returned" => doneCh
  /\ main = "wait" => ~listening /\ (proto = "grpc" => stopped)
  /\ proto = "grpc" /\ doneCh => stopped \/ failed
  /\ stopped => broker = "closed"
  /\ \A h \in Hosts :
       /\ shutdown[h] # "none" => proto = "grpc"
       /\ shutdown[h] \in {"drain", "forced", "done", "late"} => ~listening
       /\ shutdown[h] \in {"forced", "done", "late"} => stopped

\* The marks stay, whoever takes a step.
LEMMA EndPreserved ==
  ASSUME ServerOK, HostsOK, DoneInv, EndInv, [Next]_vars PROVE EndInv'
<1>1. doneCh => doneCh'
  BY DonePreserved, Zenon
<1>2. shutdown \in [Hosts -> {"none", "start", "drain", "forced", "done", "late"}]
  BY Zenon DEF HostsOK
<1> USE DEF EndInv
<1>3. ASSUME NEW h \in Hosts, CallStep(h) PROVE EndInv'
  BY <1>3, CallFrame, Zenon DEF srvVars, brkVars
<1>4. ASSUME NEW h \in Hosts, CloseStep(h) PROVE EndInv'
  <2>1. CASE Shutdown(h)
    <3>1. /\ proto = "grpc" /\ UNCHANGED <<proto, srvVars, brkVars>>
          /\ \A g \in Hosts : shutdown'[g] = IF g = h THEN "start" ELSE shutdown[g]
      BY <1>2, <2>1, Zenon DEF Shutdown
    <3> QED
      BY <3>1, SMT, Z3, SMTT(20) DEF srvVars, brkVars
  <2>2. CASE Quit(h)
    BY <1>1, <2>2, Zenon DEF Quit, brkVars
  <2>3. CASE ~Shutdown(h) /\ ~Quit(h)
    <3>1. UNCHANGED <<proto, srvVars, brkVars, shutdown>>
      BY <1>4, <2>3, Zenon DEF CloseStep, CloseCall, QuitAnswer,
                               CloseRequestFails, CloseConn
    <3> QED
      BY <3>1, Zenon DEF srvVars, brkVars
  <2> QED
    BY <2>1, <2>2, <2>3, ZenonT(40)
<1>5. ASSUME NEW h \in Hosts, StopStep(h) PROVE EndInv'
  <2>1. CASE GracefulStop(h)
    <3>1. /\ shutdown[h] # "none" /\ listening' = FALSE
          /\ UNCHANGED <<proto, main, serving, doneCh, failed, stopped, brkVars>>
          /\ \A g \in Hosts : shutdown'[g] = IF g = h THEN "drain" ELSE shutdown[g]
      BY <1>2, <2>1, Zenon DEF GracefulStop
    <3> QED
      BY <3>1, SMT, Z3, SMTT(20) DEF brkVars
  <2>2. CASE GracefulReturns(h) \/ DrainTimeout(h)
    <3>1. /\ shutdown[h] \in {"drain", "forced"}
          /\ stopped' = TRUE /\ broker' = "closed"
          /\ UNCHANGED <<proto, main, serving, listening, doneCh, failed>>
          /\ \A g \in Hosts : g # h => shutdown'[g] = shutdown[g]
          /\ shutdown'[h] \in {"done", "late", "forced"}
      BY <1>2, <2>2, Zenon DEF GracefulReturns, DrainTimeout
    <3> QED
      BY <3>1, SMT, Z3, SMTT(20)
  <2> QED
    BY <1>5, <2>1, <2>2, Zenon DEF StopStep
<1>6. CASE ServeStep
  <2>1. CASE GRPCServeReturns
    BY <2>1, Zenon DEF GRPCServeReturns, brkVars, hostVars
  <2>2. CASE RPCServeReturns
    BY <2>2, Zenon DEF RPCServeReturns, Done, brkVars, hostVars
  <2>3. CASE AcceptFails
    BY <2>3, Zenon DEF AcceptFails, Done, brkVars, hostVars
  <2>4. CASE MainDone
    BY <2>4, Zenon DEF MainDone, brkVars
  <2>5. CASE MainCancel
    <3>1. /\ main' = "wait" /\ listening' = FALSE
          /\ UNCHANGED <<proto, serving, doneCh, failed, shutdown>>
          /\ \/ stopped' = TRUE /\ broker' = "closed"
             \/ proto = "netrpc" /\ UNCHANGED <<stopped, broker>>
      BY <2>5, Zenon DEF MainCancel
    <3> QED
      BY <3>1, SMT, Z3, SMTT(20)
  <2>6. CASE SideInterrupt \/ SideReturns
    <3>1. UNCHANGED <<proto, main, serving, listening, doneCh, stopped, failed,
                      broker, shutdown>>
      BY <2>6, Zenon DEF SideInterrupt, SideReturns, srvVars, hostVars
    <3> QED
      BY <3>1, Zenon
  <2> QED
    BY <1>6, <2>1, <2>2, <2>3, <2>4, <2>5, <2>6, Zenon DEF ServeStep
<1>7. CASE StdioStep
  <2>1. UNCHANGED <<proto, main, serving, listening, doneCh, stopped, failed,
                    broker, shutdown>>
    BY <1>7, StdioFrame, Zenon DEF srvVars, brkVars, hostVars
  <2> QED
    BY <2>1, Zenon
<1>8. CASE UNCHANGED vars
  BY <1>8, Zenon DEF vars, srvVars, brkVars, hostVars
<1> QED
  BY <1>3, <1>4, <1>5, <1>6, <1>7, <1>8, StepCases, Zenon

\* It holds of every execution.
LEMMA EndInvariant == Spec => [](TypeOK /\ DoneInv /\ EndInv)
<1>1. Init => DoneInv /\ EndInv
  BY Zenon DEF Init, DoneInv, EndInv
<1>2. TypeOK => ServerOK /\ HostsOK
  BY Zenon DEF TypeOK, ServerOK, HostsOK
<1>3. TypeOK /\ DoneInv /\ EndInv /\ [Next]_vars => DoneInv' /\ EndInv'
  BY <1>2, DonePreserved, EndPreserved, Zenon
<1> QED
  BY <1>1, <1>3, TypeCorrect, PTL DEF Spec

\* Serve returns once a host has called Shutdown or Quit, its listener has
\* failed or a test's context is cancelled, though a call of the plugin never
\* returns: when everyone waits, nobody waits for that.
THEOREM ServeEnds == Spec => []ServerEnds
<1>1. TypeOK /\ DoneInv /\ EndInv => ServerEnds
  <2> SUFFICES ASSUME TypeOK, DoneInv, EndInv, Quiescent, main # "returned",
                      main = "wait" \/ doneCh \/ \E h \in Hosts : shutdown[h] # "none"
               PROVE  FALSE
    BY Zenon DEF ServerEnds
  <2>1. ServeWaits /\ \A h \in Hosts : PluginWaits(h)
    BY Zenon DEF Quiescent, Alive, DoneInv
  <2>2. ~doneCh /\ serving
    BY <2>1, Zenon DEF ServeWaits, EndInv
  <2>3. listening \/ (proto = "grpc" /\ ~stopped)
    BY <2>1, <2>2, Zenon DEF ServeWaits
  <2>4. main # "wait"
    BY <2>3, Zenon DEF EndInv
  <2>5. ASSUME NEW h \in Hosts, shutdown[h] # "none" PROVE FALSE
    <3>1. shutdown[h] \in {"forced", "done", "late"}
      BY <2>1, <2>5, Zenon DEF PluginWaits, TypeOK
    <3> QED
      BY <2>3, <3>1, Zenon DEF EndInv
  <2> QED
    BY <2>2, <2>4, <2>5, Zenon
<1> QED
  BY <1>1, EndInvariant, PTL

\* A gRPC Serve that has returned in a test has closed its broker, and the
\* servers the broker ran have been told to stop.
THEOREM NothingLeft == Spec => []NothingLeftBehind
<1>1. TypeOK /\ DoneInv /\ EndInv => NothingLeftBehind
  <2> SUFFICES ASSUME TypeOK, DoneInv, EndInv, Quiescent, proto = "grpc", test,
                      ~failed, main = "returned"
               PROVE  broker = "closed" /\ side # "serve"
    BY Zenon DEF NothingLeftBehind
  <2>1. ServeWaits
    BY Zenon DEF Quiescent, Alive, DoneInv
  <2>2. broker = "closed"
    BY Zenon DEF EndInv
  <2> QED
    BY <2>1, <2>2, SMT, Z3, SMTT(20) DEF ServeWaits
<1> QED
  BY <1>1, EndInvariant, PTL

-----------------------------------------------------------------------------
(* The output arrives, once everyone waits.                                *)

\* The streams that a protocol has.
Own == IF proto = "grpc" THEN {"stdio"} ELSE Channels

\* Whoever holds a chunk for a host is one of its streams; while the host and
\* its StreamStdio stay, the streams do, and nothing is on its way to a host
\* that has none.
HostStreams(h) ==
  /\ conn[h] = "none" => streamer[h] = {} /\ h \notin reset
  /\ \A s \in Streams : held[h][s] # None => s \in streamer[h]
  /\ ~StreamOver(h) => /\ streamer[h] \in {{}, Own}
                       /\ \A s \in Streams : wire[h][s] # <<>> => s \in streamer[h]

StreamInv == \A h \in Hosts : HostStreams(h)

\* The chunk x is at one of the places it passes, or a host's writer refused it.
Somewhere(x) ==
  \/ x \in Piped \/ x \in Buffered \/ x \in refused
  \/ \E h \in Hosts : x \in Held(h) \/ x \in Sent(h) \/ x \in Shown(h)

Connected == reset = {} /\ \A h \in Hosts : conn[h] # "closed"

\* Until a connection or a StreamStdio ends, no chunk that was written is lost.
NoLossInv ==
  Connected => \A n \in 1..writes : \E c \in Channels : Somewhere(<<c, n>>)

\* What steps other than those of the stdio streams do to a host's connection:
\* they make it, close it or leave it, and only one that is down loses what is
\* on its wire.
Linked(h) ==
  \/ /\ conn[h] = "none" /\ conn'[h] = "open" /\ streamer'[h] \in {streamer[h], Own}
     /\ wire'[h] = wire[h]
  \/ /\ conn'[h] = "closed" /\ conn[h] # "none" /\ streamer'[h] = streamer[h]
  \/ /\ conn'[h] = conn[h] /\ streamer'[h] = streamer[h]
     /\ wire'[h] = wire[h] \/ (conn[h] # "open" /\ wire'[h] = NoChunks)

LEMMA LinkSteps ==
  ASSUME HostsOK, StdioOK, [Next]_vars, ~StdioStep
  PROVE  \A h \in Hosts : Linked(h)
<1>1. /\ conn \in [Hosts -> {"none", "open", "closed"}]
      /\ streamer \in [Hosts -> SUBSET Streams]
      /\ wire \in [Hosts -> [Streams -> Seq(Chunks)]]
  BY Zenon DEF HostsOK, StdioOK
<1>2. ASSUME NEW S, Disconnect(S), UNCHANGED streamer
      PROVE  \A g \in Hosts : Linked(g)
  <2> TAKE g \in Hosts
  <2>1. /\ conn'[g] = IF g \in S /\ conn[g] = "open" THEN "closed" ELSE conn[g]
        /\ wire'[g] = IF g \in S THEN NoChunks ELSE wire[g]
    BY <1>2, Zenon DEF Disconnect, NoChunks
  <2> QED
    BY <1>2, <2>1, SMT, Z3, SMTT(20) DEF Linked
<1>3. ASSUME UNCHANGED <<conn, streamer, wire>>
      PROVE  \A g \in Hosts : Linked(g)
  BY <1>3, Zenon DEF Linked
<1>4. ASSUME NEW h \in Hosts, CallStep(h) PROVE \A g \in Hosts : Linked(g)
  <2>1. CASE GRPCConnect(h) \/ RPCConnect(h)
    <3>1. /\ conn[h] = "none" /\ UNCHANGED wire
          /\ conn' = [conn EXCEPT ![h] = "open"]
      BY <2>1, Zenon DEF GRPCConnect, RPCConnect, Dialled
    <3>2. UNCHANGED streamer \/ streamer' = [streamer EXCEPT ![h] = Own]
      <4>1. CASE GRPCConnect(h)
        <5>1. Own = {"stdio"}
          BY <4>1, Zenon DEF GRPCConnect, Own
        <5> QED
          BY <4>1, <5>1, Zenon DEF GRPCConnect, newGRPCStdioClient
      <4>2. CASE RPCConnect(h)
        <5>1. Own = Channels
          BY <4>2, SMT, Z3, SMTT(20) DEF RPCConnect, Own
        <5> QED
          BY <4>2, <5>1, Zenon DEF RPCConnect, ServeConn
      <4> QED
        BY <2>1, <4>1, <4>2, Zenon
    <3>3. \A g \in Hosts :
            /\ conn'[g] = IF g = h THEN "open" ELSE conn[g]
            /\ streamer'[g] = streamer[g] \/ (g = h /\ streamer'[g] = Own)
      BY <1>1, <3>1, <3>2, Zenon
    <3> QED
      BY <3>1, <3>3, Zenon DEF Linked
  <2>2. CASE ~(GRPCConnect(h) \/ RPCConnect(h))
    <3>1. (Disconnect({h}) /\ UNCHANGED streamer) \/ UNCHANGED <<conn, streamer, wire>>
      BY <1>4, <2>2, Zenon DEF CallStep, GRPCCall, DispenseCall, Dispense,
           DispenseServe, DispenseTimeout, CallEnd, SessionFails, hostVars,
           ioVars, ownVars
    <3> QED
      BY <1>2, <1>3, <3>1, Zenon
  <2> QED
    BY <2>1, <2>2, Zenon
<1>5. ASSUME NEW h \in Hosts, CloseStep(h) PROVE \A g \in Hosts : Linked(g)
  <2>1. (Disconnect({h}) /\ UNCHANGED streamer) \/ UNCHANGED <<conn, streamer, wire>>
    BY <1>5, Zenon DEF CloseStep, CloseCall, Shutdown, Quit, QuitAnswer,
         CloseRequestFails, CloseConn, ioVars, ownVars
  <2> QED
    BY <1>2, <1>3, <2>1, Zenon
<1>6. ASSUME NEW h \in Hosts, StopStep(h) PROVE \A g \in Hosts : Linked(g)
  <2>1. (Disconnect(Hosts) /\ UNCHANGED streamer) \/ UNCHANGED <<conn, streamer, wire>>
    BY <1>6, Zenon DEF StopStep, GracefulStop, GracefulReturns, DrainTimeout,
         ioVars, ownVars
  <2> QED
    BY <1>2, <1>3, <2>1, Zenon
<1>7. ASSUME ServeStep PROVE \A g \in Hosts : Linked(g)
  <2>1. (Disconnect(Hosts) /\ UNCHANGED streamer) \/ UNCHANGED <<conn, streamer, wire>>
    BY <1>7, Zenon DEF ServeStep, GRPCServeReturns, RPCServeReturns,
         AcceptFails, MainDone, MainCancel, SideInterrupt, SideReturns,
         hostVars, ioVars, ownVars
  <2> QED
    BY <1>2, <1>3, <2>1, Zenon
<1>8. CASE UNCHANGED vars
  BY <1>3, <1>8, Zenon DEF vars, hostVars, ioVars, ownVars
<1> QED
  BY <1>4, <1>5, <1>6, <1>7, <1>8, StepCases, Zenon

\* The streams stay with the connections.
LEMMA StreamPreserved ==
  ASSUME HostsOK, StdioOK, PlaceInv, StreamInv, [Next]_vars PROVE StreamInv'
<1>0. UNCHANGED proto
  BY StepCases, CallFrame, CloseFrame, StopFrame, ServeFrame, StdioFrame, Zenon
     DEF vars
<1> SUFFICES ASSUME NEW g \in Hosts PROVE HostStreams(g)'
  BY Zenon DEF StreamInv
<1>1. HostStreams(g)
  BY Zenon DEF StreamInv
<1>2. CASE ~StdioStep
  <2>1. Linked(g) /\ UNCHANGED <<held, reset>>
    BY <1>2, LinkSteps, WireFrame, Zenon
  <2>2. CASE conn[g] = "none" /\ conn'[g] = "open"
    <3>1. streamer[g] = {} /\ ~StreamOver(g)
      BY <1>1, <2>2, SMT, Z3, SMTT(20) DEF HostStreams, StreamOver
    <3>2. \A s \in Streams : held[g][s] = None /\ wire[g][s] = <<>>
      BY <1>1, <3>1, SMT, Z3, SMTT(20) DEF HostStreams
    <3>3. /\ streamer'[g] \in {{}, Own} /\ wire'[g] = wire[g]
      BY <2>1, <2>2, <3>1, SMT, Z3, SMTT(20) DEF Linked
    <3>4. Own' = Own
      BY <1>0, Zenon DEF Own
    <3> QED
      BY <2>1, <2>2, <3>2, <3>3, <3>4, SMT, Z3, SMTT(20) DEF HostStreams
  <2>3. CASE conn'[g] = "closed" /\ conn[g] # "none" /\ streamer'[g] = streamer[g]
    BY <1>1, <2>1, <2>3, SMT, Z3, SMTT(20) DEF HostStreams, StreamOver
  <2>4. CASE /\ conn'[g] = conn[g] /\ streamer'[g] = streamer[g]
             /\ wire'[g] = wire[g] \/ (conn[g] # "open" /\ wire'[g] = NoChunks)
    <3>1. \A s \in Streams : wire'[g][s] # <<>> => wire[g][s] # <<>>
      BY <2>4, Zenon DEF NoChunks
    <3>2. Own' = Own /\ StreamOver(g)' = StreamOver(g)
      BY <1>0, <2>1, <2>4, Zenon DEF Own, StreamOver
    <3> QED
      BY <1>1, <2>1, <2>4, <3>1, <3>2, Zenon DEF HostStreams
  <2> QED
    BY <2>1, <2>2, <2>3, <2>4, Zenon DEF Linked
<1>3. CASE StdioStep
  <2>0. UNCHANGED conn /\ Own' = Own
    BY <1>0, <1>3, StdioFrame, Zenon DEF hostVars, Own
  <2>1. ASSUME UNCHANGED reset, streamer'[g] = streamer[g],
               \A s \in Streams : /\ held'[g][s] # None =>
                                       held[g][s] # None \/ s \in streamer[g]
                                  /\ wire'[g][s] # <<>> =>
                                       wire[g][s] # <<>> \/ s \in streamer[g]
        PROVE  HostStreams(g)'
    <3>1. StreamOver(g)' = StreamOver(g)
      BY <2>0, <2>1, Zenon DEF StreamOver
    <3> QED
      BY <1>1, <2>0, <2>1, <3>1, Zenon DEF HostStreams
  <2>2. ASSUME NEW c \in Channels, Write(c) \/ CopyChan(c) PROVE HostStreams(g)'
    <3>1. UNCHANGED <<held, wire, streamer, reset>>
      BY <2>2, Zenon DEF Write, CopyChan
    <3> QED
      BY <2>1, <3>1, Zenon
  <2>3. ASSUME NEW c \in Channels, NEW h \in Hosts,
               StreamStdioTake(h, c) \/ CopyStreamRead(h, c)
        PROVE  HostStreams(g)'
    <3>1. UNCHANGED <<wire, streamer, reset>>
      BY <2>3, Zenon DEF StreamStdioTake, CopyStreamRead
    <3>2. PICK s \in Streams, e \in Chunks \cup {None} :
            s \in streamer[h] /\ held' = [held EXCEPT ![h][s] = e]
      <4>1. CASE StreamStdioTake(h, c)
        BY <4>1, Zenon DEF StreamStdioTake, Streams, StdioOK
      <4>2. CASE CopyStreamRead(h, c)
        <5>1. Head(pipe[c]) \in Chunks
          BY <4>2, HeadTail, Zenon DEF CopyStreamRead, StdioOK
        <5> QED
          BY <4>2, <5>1, Zenon DEF CopyStreamRead, Streams
      <4> QED
        BY <2>3, <4>1, <4>2, Zenon
    <3>3. \A t \in Streams : held'[g][t] = held[g][t] \/ (g = h /\ t = s)
      BY <3>2, Zenon DEF StdioOK
    <3> QED
      BY <2>1, <3>1, <3>2, <3>3, Zenon
  <2>4. ASSUME NEW s \in Streams, NEW h \in Hosts, StreamSend(h, s)
        PROVE  HostStreams(g)'
    <3>1. /\ s \in streamer[h] /\ UNCHANGED reset
          /\ \A t \in Streams :
               held'[g][t] = IF g = h /\ t = s THEN None ELSE held[g][t]
      BY <2>4, Zenon DEF StreamSend, StdioOK
    <3>2. CASE ~StreamOver(h)
      <4>1. /\ UNCHANGED streamer
            /\ wire' = [wire EXCEPT ![h][s] = Append(wire[h][s], held[h][s])]
        BY <2>4, <3>2, Zenon DEF StreamSend
      <4>2. \A t \in Streams : wire'[g][t] = wire[g][t] \/ (g = h /\ t = s)
        BY <4>1, Zenon DEF StdioOK
      <4> QED
        BY <2>1, <3>1, <4>1, <4>2, Zenon
    <3>3. CASE StreamOver(h)
      <4>1. UNCHANGED wire /\ streamer' = [streamer EXCEPT ![h] = streamer[h] \ {s}]
        BY <2>4, <3>3, Zenon DEF StreamSend
      <4>2. CASE g # h
        <5>1. streamer'[g] = streamer[g] /\ \A t \in Streams : held'[g][t] = held[g][t]
          BY <3>1, <4>1, <4>2, Zenon DEF StdioOK
        <5> QED
          BY <2>1, <3>1, <4>1, <5>1, Zenon
      <4>3. CASE g = h
        <5>1. streamer'[g] = streamer[g] \ {s}
          BY <4>1, <4>3, Zenon DEF StdioOK
        <5>2. conn[g] # "none"
          BY <1>1, <3>1, <4>3, SMT, Z3, SMTT(20) DEF HostStreams
        <5>3. StreamOver(g)'
          BY <2>0, <3>1, <3>3, <4>3, Zenon DEF StreamOver
        <5>4. \A t \in Streams : held'[g][t] # None => t \in streamer'[g]
          BY <1>1, <3>1, <4>3, <5>1, SMT, Z3, SMTT(20) DEF HostStreams
        <5> QED
          BY <2>0, <5>2, <5>3, <5>4, Zenon DEF HostStreams
      <4> QED
        BY <4>2, <4>3, Zenon
    <3> QED
      BY <3>2, <3>3, Zenon
  <2>5. ASSUME NEW h \in Hosts, StreamDone(h) PROVE HostStreams(g)'
    <3>1. /\ proto = "grpc" /\ "stdio" \in streamer[h] /\ held[h]["stdio"] = None
          /\ StreamOver(h) /\ UNCHANGED <<held, wire, reset>>
          /\ streamer' = [streamer EXCEPT ![h] = {}]
      BY <2>5, Zenon DEF StreamDone
    <3>2. CASE g # h
      <4>1. streamer'[g] = streamer[g]
        BY <3>1, <3>2, Zenon DEF StdioOK
      <4> QED
        BY <2>1, <3>1, <4>1, Zenon
    <3>3. CASE g = h
      <4>1. conn[g] # "none"
        BY <1>1, <3>1, <3>3, SMT, Z3, SMTT(20) DEF HostStreams
      <4>2. \A t \in Streams : held[g][t] = None
        <5>1. LaneInv
          BY Zenon DEF PlaceInv
        <5>2. \A c : Stream(c) = "stdio"
          BY <3>1, Zenon DEF Stream
        <5>3. \A t \in Streams : held[g][t] # None => t = "stdio"
          BY <5>1, <5>2, Zenon DEF LaneInv
        <5> QED
          BY <3>1, <3>3, <5>3, Zenon
      <4>3. StreamOver(g)'
        BY <2>0, <3>1, <3>3, Zenon DEF StreamOver
      <4> QED
        BY <2>0, <3>1, <4>1, <4>2, <4>3, Zenon DEF HostStreams
    <3> QED
      BY <3>2, <3>3, Zenon
  <2>6. ASSUME NEW h \in Hosts, NEW s \in Streams, Received(h, s),
               UNCHANGED <<held, streamer, reset>>
        PROVE  HostStreams(g)'
    <3>1. /\ wire[h][s] # <<>>
          /\ \A f \in Hosts : \A t \in Streams :
               wire'[f][t] = IF f = h /\ t = s THEN Tail(wire[h][s]) ELSE wire[f][t]
      BY <2>6, ReceivedTypes, ZenonT(40)
    <3>2. \A t \in Streams : wire'[g][t] # <<>> => wire[g][t] # <<>>
      BY <3>1, SMT, Z3, SMTT(20)
    <3> QED
      BY <2>1, <2>6, <3>2, Zenon
  <2>7. ASSUME NEW h \in Hosts, NEW s \in Streams,
               HostWrite(h, s) \/ HostWriteFails(h, s)
        PROVE  HostStreams(g)'
    BY <2>6, <2>7, Zenon DEF HostWrite, HostWriteFails
  <2>8. ASSUME NEW h \in Hosts, HostWritePanics(h) PROVE HostStreams(g)'
    BY <2>6, <2>8, Zenon DEF HostWritePanics, Streams
  <2>9. ASSUME NEW h \in Hosts, HostRecvError(h) PROVE HostStreams(g)'
    <3>1. /\ conn[h] = "open" /\ UNCHANGED <<held, streamer>>
          /\ reset' = reset \cup {h}
          /\ wire' = [wire EXCEPT ![h]["stdio"] = <<>>]
      BY <2>9, Zenon DEF HostRecvError
    <3>2. CASE g # h
      <4>1. wire'[g] = wire[g] /\ (g \in reset' <=> g \in reset)
        BY <3>1, <3>2, Zenon DEF StdioOK
      <4>2. StreamOver(g)' <=> StreamOver(g)
        BY <2>0, <4>1, Zenon DEF StreamOver
      <4> QED
        BY <1>1, <2>0, <3>1, <4>1, <4>2, Zenon DEF HostStreams
    <3>3. CASE g = h
      <4>1. StreamOver(g)' /\ conn'[g] # "none"
        BY <2>0, <3>1, <3>3, SMT, Z3, SMTT(20) DEF StreamOver
      <4> QED
        BY <1>1, <3>1, <4>1, Zenon DEF HostStreams
    <3> QED
      BY <3>2, <3>3, Zenon
  <2> QED
    BY <1>3, <2>2, <2>3, <2>4, <2>5, <2>7, <2>8, <2>9, Zenon DEF StdioStep
<1> QED
  BY <1>2, <1>3, Zenon

\* A sequence is its head and the others.
LEMMA TailElems ==
  ASSUME NEW s \in Seq(Chunks), s # <<>>
  PROVE  \A x \in Elems(s) : x = Head(s) \/ x \in Elems(Tail(s))
<1>1. /\ Tail(s) \in Seq(Chunks) /\ Len(Tail(s)) = Len(s) - 1
      /\ Len(s) \in Nat \ {0} /\ Head(s) = s[1]
      /\ \A i \in 1..Len(s) - 1 : Tail(s)[i] = s[i + 1]
  OBVIOUS
<1> TAKE x \in Elems(s)
<1>2. PICK i \in 1..Len(s) : x = s[i]
  BY Zenon DEF Elems
<1>3. CASE i # 1
  <2>1. i - 1 \in 1..Len(Tail(s)) /\ Tail(s)[i - 1] = x
    BY <1>1, <1>2, <1>3, SMT, Z3, SMTT(20)
  <2> QED
    BY <2>1, Zenon DEF Elems
<1> QED
  BY <1>1, <1>2, <1>3, Zenon

\* Until its connection or its stream ends, a chunk that moves arrives at its
\* next place.
LEMMA ChunksStay ==
  ASSUME StdioOK, StdioStep, Connected, Connected', NEW x \in Chunks, Somewhere(x)
  PROVE  Somewhere(x)'
<1>1. /\ pipe \in [Channels -> Seq(Chunks)]
      /\ copyBuf \in [Channels -> Chunks \cup {None}]
      /\ out \in [Hosts -> Seq(Chunks)]
  BY Zenon DEF StdioOK
<1>2. x # None
  BY NoneAssumption, Zenon
<1> USE DEF Somewhere
<1>3. ASSUME NEW c \in Channels, Write(c) PROVE Somewhere(x)'
  <2>1. UNCHANGED <<copyBuf, held, wire, out, refused>>
    BY <1>3, Zenon DEF Write, outVars
  <2>2. \A d \in Channels : pipe'[d] = IF d = c THEN Append(pipe[c], <<c, writes + 1>>)
                                       ELSE pipe[d]
    BY <1>1, <1>3, Zenon DEF Write
  <2>3. <<c, writes + 1>> \in Chunks
    BY <1>3, WritesAssumption, SMT, Z3, SMTT(20) DEF Write, StdioOK, Chunks
  <2>4. \A d \in Channels : Elems(pipe[d]) \subseteq Elems(pipe'[d])
    <3>1. PICK y \in Chunks : y = <<c, writes + 1>>
      BY <2>3, Zenon
    <3>2. pipe[c] \in Seq(Chunks)
      BY <1>1, Zenon
    <3>3. Elems(Append(pipe[c], y)) = Elems(pipe[c]) \cup {y}
      BY <3>2, AppendSorted, Zenon
    <3> QED
      BY <2>2, <3>1, <3>3, Zenon
  <2> QED
    BY <2>1, <2>4, Zenon DEF Piped, Buffered, Held, Sent, Shown
<1>4. ASSUME NEW c \in Channels, pipe[c] # <<>>,
             pipe' = [pipe EXCEPT ![c] = Tail(pipe[c])]
      PROVE  x \in Piped => x \in Piped' \/ x = Head(pipe[c])
  <2>1. \A d \in Channels : pipe'[d] = IF d = c THEN Tail(pipe[c]) ELSE pipe[d]
    BY <1>1, <1>4, Zenon
  <2>2. \A y \in Elems(pipe[c]) : y = Head(pipe[c]) \/ y \in Elems(Tail(pipe[c]))
    BY <1>1, <1>4, TailElems, Zenon
  <2> QED
    BY <2>1, <2>2, Zenon DEF Piped
<1>5. ASSUME NEW c \in Channels, CopyChan(c) PROVE Somewhere(x)'
  <2>1. x \in Piped => x \in Piped' \/ x = Head(pipe[c])
    BY <1>4, <1>5, Zenon DEF CopyChan
  <2>2. \A d \in Channels : copyBuf'[d] = IF d = c THEN Head(pipe[c]) ELSE copyBuf[d]
    BY <1>1, <1>5, Zenon DEF CopyChan
  <2>3. copyBuf[c] = None /\ UNCHANGED <<held, wire, out, refused>>
    BY <1>5, Zenon DEF CopyChan, outVars
  <2>4. /\ x \in Buffered => x \in Buffered'
        /\ x = Head(pipe[c]) => x \in Buffered'
    BY <1>2, <2>2, <2>3, Zenon DEF Buffered
  <2> QED
    BY <2>1, <2>3, <2>4, Zenon DEF Held, Sent, Shown
<1>6. ASSUME NEW h \in Hosts, NEW s \in Streams, NEW y \in Chunks \cup {None},
             held[h][s] = None, held' = [held EXCEPT ![h][s] = y]
      PROVE  /\ \A g \in Hosts : x \in Held(g) => x \in Held(g)'
             /\ x = y => x \in Held(h)'
  <2>1. \A g \in Hosts : \A t \in Streams :
          held'[g][t] = IF g = h /\ t = s THEN y ELSE held[g][t]
    BY <1>6, Zenon DEF StdioOK
  <2>2. /\ \A g \in Hosts : \A t \in Streams : x = held[g][t] => x = held'[g][t]
        /\ x = y => x = held'[h][s]
    BY <1>2, <1>6, <2>1, SMT, Z3, SMTT(20)
  <2> QED
    BY <2>2, Zenon DEF Held
<1>7. ASSUME NEW c \in Channels, NEW h \in Hosts, StreamStdioTake(h, c)
      PROVE  Somewhere(x)'
  <2>1. /\ UNCHANGED <<pipe, wire, out, refused>>
        /\ \A d \in Channels : copyBuf'[d] = IF d = c THEN None ELSE copyBuf[d]
    BY <1>1, <1>7, Zenon DEF StreamStdioTake, outVars
  <2>2. PICK y \in Chunks \cup {None} : y = copyBuf[c]
    BY <1>1, Zenon
  <2>3. held[h]["stdio"] = None /\ held' = [held EXCEPT ![h]["stdio"] = y]
    BY <1>7, <2>2, Zenon DEF StreamStdioTake
  <2>4. "stdio" \in Streams
    BY Zenon DEF Streams
  <2>5. /\ \A g \in Hosts : x \in Held(g) => x \in Held(g)'
        /\ x = y => x \in Held(h)'
    BY <1>6, <2>3, <2>4, Zenon
  <2>6. x \in Buffered => x \in Buffered' \/ x = y
    BY <2>1, <2>2, Zenon DEF Buffered
  <2> QED
    BY <2>1, <2>5, <2>6, Zenon DEF Piped, Sent, Shown
<1>8. ASSUME NEW c \in Channels, NEW h \in Hosts, CopyStreamRead(h, c)
      PROVE  Somewhere(x)'
  <2>1. UNCHANGED <<copyBuf, wire, out, refused>>
    BY <1>8, Zenon DEF CopyStreamRead, outVars
  <2>2. PICK y \in Chunks \cup {None} : y = Head(pipe[c])
    BY <1>1, <1>8, HeadTail, Zenon DEF CopyStreamRead
  <2>3. held[h][c] = None /\ held' = [held EXCEPT ![h][c] = y]
    BY <1>8, <2>2, Zenon DEF CopyStreamRead
  <2>4. c \in Streams
    BY Zenon DEF Streams
  <2>5. /\ \A g \in Hosts : x \in Held(g) => x \in Held(g)'
        /\ x = y => x \in Held(h)'
    BY <1>6, <2>3, <2>4, Zenon
  <2>6. x \in Piped => x \in Piped' \/ x = y
    BY <1>4, <1>8, <2>2, Zenon DEF CopyStreamRead
  <2> QED
    BY <2>1, <2>5, <2>6, Zenon DEF Buffered, Sent, Shown
<1>9. ASSUME NEW s \in Streams, NEW h \in Hosts, StreamSend(h, s)
      PROVE  Somewhere(x)'
  <2>1. ~StreamOver(h)
    BY Zenon DEF Connected, StreamOver
  <2>2. /\ held[h][s] # None /\ held' = [held EXCEPT ![h][s] = None]
        /\ UNCHANGED <<pipe, copyBuf, out, refused>>
        /\ wire' = [wire EXCEPT ![h][s] = Append(wire[h][s], held[h][s])]
    BY <1>9, <2>1, Zenon DEF StreamSend, outVars
  <2>3. wire[h][s] \in Seq(Chunks) /\ held[h][s] \in Chunks
    BY <2>2, SMT, Z3, SMTT(20) DEF StdioOK
  <2>4. PICK w \in Seq(Chunks) : w = Append(wire[h][s], held[h][s])
    <3>1. Append(wire[h][s], held[h][s]) \in Seq(Chunks)
      BY <2>3, SMT, Z3, SMTT(20)
    <3> QED
      BY <3>1, Zenon
  <2>5. Elems(w) = Elems(wire[h][s]) \cup {held[h][s]}
    BY <2>3, <2>4, AppendSorted, Zenon
  <2>6. \A g \in Hosts : \A t \in Streams :
          wire'[g][t] = IF g = h /\ t = s THEN w ELSE wire[g][t]
    BY <2>2, <2>4, WireTypes, ZenonT(40)
  <2>7. \A g \in Hosts : \A t \in Streams :
          held'[g][t] = IF g = h /\ t = s THEN None ELSE held[g][t]
    BY <2>2, Zenon DEF StdioOK
  <2>8. \A g \in Hosts : x \in Held(g) => x \in Held(g)' \/ (g = h /\ x = held[h][s])
    BY <2>7, Zenon DEF Held
  <2>9. \A g \in Hosts : x \in Sent(g) \/ (g = h /\ x = held[h][s]) => x \in Sent(g)'
    <3>1. \A g \in Hosts : \A t \in Streams :
            x \in Elems(wire[g][t]) => x \in Elems(wire'[g][t])
      BY <2>5, <2>6, SMT, Z3, SMTT(20)
    <3>2. x = held[h][s] => x \in Elems(wire'[h][s])
      BY <2>5, <2>6, SMT, Z3, SMTT(20)
    <3> QED
      BY <3>1, <3>2, Zenon DEF Sent
  <2> QED
    BY <2>2, <2>8, <2>9, Zenon DEF Piped, Buffered, Shown
<1>10. ASSUME NEW h \in Hosts, StreamDone(h) PROVE Somewhere(x)'
  <2>1. UNCHANGED <<pipe, copyBuf, held, wire, out, refused>>
    BY <1>10, Zenon DEF StreamDone, outVars
  <2> QED
    BY <2>1, Zenon DEF Piped, Buffered, Held, Sent, Shown
<1>11. ASSUME NEW h \in Hosts, NEW s \in Streams, Received(h, s)
       PROVE  \A g \in Hosts :
                x \in Sent(g) => x \in Sent(g)' \/ (g = h /\ x = Head(wire[h][s]))
  <2>1. /\ wire[h][s] \in Seq(Chunks) /\ wire[h][s] # <<>>
        /\ \A g \in Hosts : \A t \in Streams :
             wire'[g][t] = IF g = h /\ t = s THEN Tail(wire[h][s]) ELSE wire[g][t]
    BY <1>11, ReceivedTypes, ZenonT(40)
  <2>2. \A y \in Elems(wire[h][s]) : y = Head(wire[h][s]) \/ y \in Elems(Tail(wire[h][s]))
    BY <2>1, TailElems, Zenon
  <2>3. \A g \in Hosts : \A t \in Streams : x \in Elems(wire[g][t]) =>
          x \in Elems(wire'[g][t]) \/ (g = h /\ x = Head(wire[h][s]))
    BY <2>1, <2>2, SMT, Z3, SMTT(20)
  <2> QED
    BY <2>3, Zenon DEF Sent
<1>12. ASSUME NEW h \in Hosts, NEW s \in Streams, HostWrite(h, s)
       PROVE  Somewhere(x)'
  <2>1. Received(h, s) /\ UNCHANGED <<pipe, copyBuf, held, refused>>
    BY <1>12, Zenon DEF HostWrite
  <2>2. /\ out[h] \in Seq(Chunks) /\ Head(wire[h][s]) \in Chunks
        /\ \A g \in Hosts : out'[g] = IF g = h THEN Append(out[h], Head(wire[h][s]))
                                       ELSE out[g]
    BY <1>1, <1>12, <2>1, ReceivedTypes, Zenon DEF HostWrite
  <2>3. Elems(Append(out[h], Head(wire[h][s]))) = Elems(out[h]) \cup {Head(wire[h][s])}
    BY <2>2, AppendSorted, Zenon
  <2>4. \A g \in Hosts :
          x \in Shown(g) \/ (g = h /\ x = Head(wire[h][s])) => x \in Shown(g)'
    BY <2>2, <2>3, Zenon DEF Shown
  <2> QED
    BY <1>11, <2>1, <2>4, Zenon DEF Piped, Buffered, Held
<1>13. ASSUME NEW h \in Hosts, NEW s \in Streams, Received(h, s),
              refused' = refused \cup {Head(wire[h][s])},
              UNCHANGED <<pipe, copyBuf, held, out>>
       PROVE  Somewhere(x)'
  BY <1>11, <1>13, Zenon DEF Piped, Buffered, Held, Shown
<1>14. ASSUME NEW h \in Hosts, NEW s \in Streams, HostWriteFails(h, s)
       PROVE  Somewhere(x)'
  BY <1>13, <1>14, Zenon DEF HostWriteFails
<1>15. ASSUME NEW h \in Hosts, HostWritePanics(h) PROVE Somewhere(x)'
  BY <1>13, <1>15, Zenon DEF HostWritePanics, Streams
<1>16. ASSUME NEW h \in Hosts, HostRecvError(h) PROVE Somewhere(x)'
  BY <1>16, Zenon DEF HostRecvError, Connected
<1> QED
  BY <1>3, <1>5, <1>7, <1>8, <1>9, <1>10, <1>12, <1>14, <1>15, <1>16, Zenon
     DEF StdioStep

\* No chunk is lost before a connection or a stream ends.
LEMMA NoLossPreserved ==
  ASSUME HostsOK, StdioOK, StreamInv, NoLossInv, [Next]_vars PROVE NoLossInv'
<1> SUFFICES ASSUME Connected'
             PROVE  (\A n \in 1..writes : \E c \in Channels : Somewhere(<<c, n>>))'
  BY Zenon DEF NoLossInv
<1>1. CASE ~StdioStep
  <2>1. /\ \A h \in Hosts : Linked(h)
        /\ UNCHANGED <<writes, pipe, copyBuf, held, reset, out, refused>>
    BY <1>1, LinkSteps, WireFrame, Zenon
  <2>2. ASSUME NEW h \in Hosts
        PROVE  conn[h] # "closed" /\ \A s \in Streams : wire'[h][s] = wire[h][s]
    <3>1. Linked(h) /\ conn'[h] # "closed" /\ conn[h] \in {"none", "open", "closed"}
      BY <2>1, Zenon DEF Connected, HostsOK
    <3>2. CASE wire'[h] = wire[h]
      BY <3>1, <3>2, SMT, Z3, SMTT(20) DEF Linked
    <3>3. CASE wire'[h] # wire[h]
      <4>1. conn[h] = "none" /\ wire'[h] = NoChunks
        BY <3>1, <3>3, SMT, Z3, SMTT(20) DEF Linked
      <4>2. \A s \in Streams : wire[h][s] = <<>>
        <5>1. HostStreams(h)
          BY Zenon DEF StreamInv
        <5> QED
          BY <4>1, <5>1, SMT, Z3, SMTT(20) DEF HostStreams, StreamOver
      <4> QED
        BY <4>1, <4>2, Zenon DEF NoChunks
    <3> QED
      BY <3>2, <3>3, Zenon
  <2>3. \A n \in 1..writes : \E c \in Channels : Somewhere(<<c, n>>)
    BY <2>1, <2>2, Zenon DEF NoLossInv, Connected
  <2>4. ASSUME NEW c \in Channels, NEW n, Somewhere(<<c, n>>)
        PROVE  Somewhere(<<c, n>>)'
    BY <2>1, <2>2, <2>4, Zenon DEF Somewhere, Piped, Buffered, Held, Sent, Shown
  <2> QED
    BY <2>1, <2>3, <2>4, Zenon
<1>2. CASE StdioStep
  <2>1. Connected
    <3>1. UNCHANGED conn
      BY <1>2, StdioFrame, Zenon DEF hostVars
    <3>2. reset' = {} => reset = {}
      BY <1>2, Zenon DEF StdioStep, Write, CopyChan, StreamStdioTake,
           CopyStreamRead, StreamSend, StreamDone, HostWrite, HostWriteFails,
           HostWritePanics, HostRecvError
    <3> QED
      BY <3>1, <3>2, Zenon DEF Connected
  <2>2. \A n \in 1..writes : \E c \in Channels : Somewhere(<<c, n>>)
    BY <2>1, Zenon DEF NoLossInv
  <2>3. writes \in 0..MaxWrites /\ writes' \in 0..MaxWrites
    BY StdioTypes, Zenon DEF StdioOK
  <2>4. \A n \in 1..writes : \E c \in Channels : Somewhere(<<c, n>>)'
    <3> TAKE n \in 1..writes
    <3>1. PICK c \in Channels : Somewhere(<<c, n>>)
      BY <2>2, Zenon
    <3>2. <<c, n>> \in Chunks
      BY <2>3, WritesAssumption, SMT, Z3, SMTT(20) DEF Chunks
    <3> QED
      BY <1>2, <2>1, <3>1, <3>2, ChunksStay, Zenon
  <2>5. CASE \E c \in Channels : Write(c)
    <3>1. PICK c \in Channels : Write(c)
      BY <2>5, Zenon
    <3>2. writes' = writes + 1 /\ pipe'[c] = Append(pipe[c], <<c, writes + 1>>)
      BY <3>1, Zenon DEF Write, StdioOK
    <3>3. <<c, writes + 1>> \in Chunks /\ pipe[c] \in Seq(Chunks)
      BY <2>3, <3>2, WritesAssumption, SMT, Z3, SMTT(20) DEF Chunks, StdioOK
    <3>4. <<c, writes + 1>> \in Elems(pipe'[c])
      BY <3>2, <3>3, AppendSorted, Zenon
    <3>5. PICK m : m = writes + 1
      BY Zenon
    <3>6. Somewhere(<<c, m>>)'
      BY <3>3, <3>4, <3>5, Zenon DEF Somewhere, Piped
    <3>7. \A n \in 1..writes' : n \in 1..writes \/ n = m
      BY <2>3, <3>2, <3>5, WritesAssumption, SMT, Z3, SMTT(20)
    <3> QED
      BY <2>4, <3>6, <3>7, Zenon
  <2>6. CASE ~\E c \in Channels : Write(c)
    <3>1. UNCHANGED writes
      BY <1>2, <2>6, Zenon DEF StdioStep, CopyChan, StreamStdioTake,
           CopyStreamRead, StreamSend, StreamDone, HostWrite, HostWriteFails,
           HostWritePanics, HostRecvError
    <3> QED
      BY <2>4, <3>1, Zenon
  <2> QED
    BY <2>5, <2>6, Zenon
<1> QED
  BY <1>1, <1>2, Zenon

\* While no host leaves or stops reading and the server runs, all that the
\* plugin has written arrives: when everyone waits no chunk is on its way, each
\* is with a host, or was refused by the writer of one.
THEOREM OutputComplete == Spec => []OutputArrives
<1>1. Init => PlaceInv /\ OrderInv /\ ApartInv /\ StreamInv /\ NoLossInv
  <2> SUFFICES ASSUME Init PROVE StreamInv /\ NoLossInv
    BY OutputInit, Zenon
  <2>1. StreamInv
    BY Zenon DEF Init, StreamInv, HostStreams, NoChunks
  <2>2. NoLossInv
    BY SMT, Z3, SMTT(20) DEF Init, NoLossInv
  <2> QED
    BY <2>1, <2>2, Zenon
<1>2. TypeOK => ServerOK /\ HostsOK /\ StdioOK
  BY Zenon DEF TypeOK, ServerOK, HostsOK, StdioOK
<1>3. /\ TypeOK /\ PlaceInv /\ OrderInv /\ ApartInv /\ StreamInv /\ NoLossInv
      /\ [Next]_vars
      => (PlaceInv /\ OrderInv /\ ApartInv /\ StreamInv /\ NoLossInv)'
  BY <1>2, OutputPreserved, StreamPreserved, NoLossPreserved, Zenon
<1>4. TypeOK /\ DoneOnce /\ PlaceInv /\ StreamInv /\ NoLossInv => OutputArrives
  <2> SUFFICES ASSUME TypeOK, DoneOnce, PlaceInv, StreamInv, NoLossInv, Quiescent,
                      main = "select", Connected,
                      \A g \in Hosts : recv[g] = streamer[g],
                      NEW h \in Hosts, recv[h] # {}, NEW n \in 1..writes
               PROVE  \/ \E g \in Hosts : \E i \in 1..Len(out[g]) : out[g][i][2] = n
                      \/ \E x \in refused : x[2] = n
    BY Zenon DEF OutputArrives, Connected
  <2>1. proto = "grpc" \/ proto = "netrpc"
    BY ProtosAssumption, Zenon DEF TypeOK
  <2>2. /\ \A c \in Channels : CopyWaits(c)
        /\ \A g \in Hosts : StdioWaits(g) /\ \A s \in streamer[g] : wire[g][s] = <<>>
    BY Zenon DEF Quiescent, Alive, DoneOnce, HostWaits
  <2>3. ASSUME NEW g \in Hosts
        PROVE  /\ streamer[g] \in {{}, Own}
               /\ \A s \in Streams : held[g][s] = None /\ wire[g][s] = <<>>
    <3>1. HostStreams(g) /\ ~StreamOver(g)
      BY Zenon DEF StreamInv, Connected, StreamOver
    <3>2. \A s \in streamer[g] : held[g][s] = None /\ wire[g][s] = <<>>
      BY <2>2, Zenon DEF StdioWaits
    <3> QED
      BY <3>1, <3>2, Zenon DEF HostStreams
  <2>4. streamer[h] = Own
    BY <2>3, SMT, Z3, SMTT(20)
  <2>5. ASSUME NEW c \in Channels PROVE copyBuf[c] = None /\ pipe[c] = <<>>
    <3>1. CASE proto = "grpc"
      <4>1. "stdio" \in streamer[h]
        BY <2>4, <3>1, Zenon DEF Own
      <4>2. copyBuf[c] = None
        BY <2>2, <3>1, <4>1, Zenon DEF StdioWaits
      <4> QED
        BY <2>2, <3>1, <4>2, Zenon DEF CopyWaits
    <3>2. CASE proto = "netrpc"
      <4>1. proto # "grpc" /\ c \in streamer[h]
        BY <2>4, <3>2, SMT, Z3, SMTT(20) DEF Own
      <4>2. pipe[c] = <<>>
        BY <2>2, <4>1, Zenon DEF StdioWaits
      <4> QED
        BY <3>2, <4>2, Zenon DEF PlaceInv
    <3> QED
      BY <2>1, <3>1, <3>2, Zenon
  <2>6. Elems(<<>>) = {}
    BY NothingSent, Zenon
  <2>7. PICK c \in Channels : Somewhere(<<c, n>>)
    BY Zenon DEF NoLossInv
  <2>8. <<c, n>> \in refused \/ \E g \in Hosts : <<c, n>> \in Shown(g)
    <3>1. <<c, n>> \notin Piped
      BY <2>5, <2>6, Zenon DEF Piped
    <3>2. <<c, n>> \notin Buffered
      BY <2>5, NoneAssumption, Zenon DEF Buffered
    <3>3. \A g \in Hosts : <<c, n>> \notin Held(g) /\ <<c, n>> \notin Sent(g)
      BY <2>3, <2>6, NoneAssumption, Zenon DEF Held, Sent
    <3> QED
      BY <2>7, <3>1, <3>2, <3>3, Zenon DEF Somewhere
  <2>9. CASE <<c, n>> \in refused
    BY <2>9, SMT, Z3, SMTT(20)
  <2>10. CASE \E g \in Hosts : <<c, n>> \in Shown(g)
    <3>1. PICK g \in Hosts : <<c, n>> \in Shown(g)
      BY <2>10, Zenon
    <3>2. PICK i \in 1..Len(out[g]) : out[g][i] = <<c, n>>
      BY <3>1, Zenon DEF Shown, Elems
    <3> QED
      BY <3>2, SMT, Z3, SMTT(20)
  <2> QED
    BY <2>8, <2>9, <2>10, Zenon
<1> QED
  BY <1>1, <1>3, <1>4, TypeCorrect, ClosedOnce, PTL DEF Spec

=============================================================================
