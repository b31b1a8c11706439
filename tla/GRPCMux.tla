------------------------------ MODULE GRPCMux ------------------------------
(***************************************************************************)
(* The multiplexed gRPC broker: GRPCBroker's Accept, muxDial, knock,       *)
(* listenForKnocks and Run over internal/grpcmux, in one direction.  The   *)
(* dialling end knocks with an id, waits for the acknowledgement and opens *)
(* a yamux stream; the accepting end must hand that stream to the listener *)
(* of the id.  The accepting end is the host (GRPCClientMuxer) or the      *)
(* plugin (GRPCServerMuxer): `side'.                                       *)
(*                                                                         *)
(* A Dial is one run of the function muxDial returns, which grpc calls for *)
(* each connection attempt.  The broker's stream delivers in order and     *)
(* stays up (GRPCBroker models its failures); yamux gives streams to       *)
(* Accept in the order they were opened.  `fault' says whether timers may   *)
(* fire, or listeners be closed and their ids accepted again.              *)
(***************************************************************************)
EXTENDS Naturals, Sequences

CONSTANTS Dials, Accepts, Ids, None,
          Sides,      \* subset of {"host", "plugin"}
          Faults,     \* subset of {"none", "timers", "closes"}
          Sequential  \* an Accept waits for the Dials of the earlier ones

ASSUME NumbersAssumption == Dials \cup Accepts \cup Ids \subseteq Nat
ASSUME NoneAssumption == None \notin Nat
ASSUME KindsAssumption == /\ Sides \subseteq {"host", "plugin"}
                          /\ Faults \subseteq {"none", "timers", "closes"}
                          /\ Sequential \in BOOLEAN

ClientEntries == {"knock", "ack"} \X Dials
ServerEntries == ({"accept", "listen"} \X Accepts) \cup ({"run"} \X Dials)

VARIABLES
  side, fault,
  knocks, acks,      \* the messages on the broker's stream, both ways
  \* the dialling end
  dialMutex,         \* GRPCBroker.dialMutex: its holder or None
  dial, dialId, dialEntry,   \* knock and muxDial: counter, id and p
  clientStreams, clientCh,   \* the pending entries and their channels
  ackRun,            \* Run's msg and p, or <<>>
  reaper,            \* the timeoutWait of each acknowledgement
  \* the accepting end
  accept, acceptId, acceptEntry,   \* Accept: counter, id and p
  serverStreams, serverCh, serverDone,  \* pending entries, ch and doneCh
  knockRun,          \* Run's msg and p, or <<>>
  listen, listenEntry, listenMsg,  \* listenForKnocks: counter, p and msg
  ackOK,             \* the Dials whose acknowledgement carries no error
  listeners,         \* acceptListeners or acceptChannels, by id
  serve,             \* the grpc server of each listener: its Accept loop
  waitCh,            \* host: listeners whose waitCh holds its token
  knockCh,           \* plugin: the id in knockCh or None
  main, mainConn, mainTo,  \* plugin: GRPCServerMuxer.Accept and its locals
  backlog,           \* streams opened and not accepted
  conn,              \* the listener that was given the stream of a Dial
  astray             \* streams given to the default listener or closed

wires     == <<knocks, acks>>
dialVars  == <<dialMutex, dial, dialId, dialEntry>>
pendVars  == <<clientStreams, clientCh, ackRun, reaper>>
accVars   == <<accept, acceptId, acceptEntry>>
knockVars == <<serverStreams, serverCh, serverDone, knockRun>>
lfkVars   == <<listen, listenEntry, listenMsg, ackOK>>
hostVars  == <<waitCh>>
mainVars  == <<knockCh, main, mainConn, mainTo>>
connVars  == <<backlog, conn, astray>>
vars == <<side, fault, wires, dialVars, pendVars, accVars, knockVars, lfkVars,
          listeners, serve, hostVars, mainVars, connVars>>

Init ==
  /\ side \in Sides /\ fault \in Faults
  /\ knocks = <<>> /\ acks = <<>>
  /\ dialMutex = None
  /\ dial = [d \in Dials |-> "idle"]
  /\ dialId = [d \in Dials |-> None]
  /\ dialEntry = [d \in Dials |-> <<>>]
  /\ clientStreams = [id \in Ids |-> <<>>]
  /\ clientCh = [e \in ClientEntries |-> None]
  /\ ackRun = <<>> /\ reaper = [d \in Dials |-> "none"]
  /\ accept = [a \in Accepts |-> "idle"]
  /\ acceptId = [a \in Accepts |-> None]
  /\ acceptEntry = [a \in Accepts |-> <<>>]
  /\ serverStreams = [id \in Ids |-> <<>>]
  /\ serverCh = [e \in ServerEntries |-> None]
  /\ serverDone = {} /\ knockRun = <<>>
  /\ listen = [a \in Accepts |-> "none"]
  /\ listenEntry = [a \in Accepts |-> <<>>]
  /\ listenMsg = [a \in Accepts |-> None]
  /\ ackOK = {}
  /\ listeners = [id \in Ids |-> None]
  /\ serve = [a \in Accepts |-> "none"]
  /\ waitCh = {} /\ knockCh = None
  /\ main = "accept" /\ mainConn = None /\ mainTo = None
  /\ backlog = <<>> /\ conn = [d \in Dials |-> None] /\ astray = {}

-----------------------------------------------------------------------------
(* The dialling end: muxDial, knock, Run, timeoutWait.                     *)

EntryOf(streams, id, fresh) == IF streams[id] = <<>> THEN fresh ELSE streams[id]

\* Dials, Accepts and ids are numbered in the order of their first use.
InOrder(id) ==
  \A i \in Ids : i < id => \/ \E d \in Dials : dialId[d] = i
                          \/ \E a \in Accepts : acceptId[a] = i

\* dialMutex.Lock() and the Send of the knock.
DialKnock(d, id) ==
  /\ dial[d] = "idle" /\ dialMutex = None /\ InOrder(id)
  /\ \A x \in Dials : x < d => dial[x] # "idle"
  /\ dialMutex' = d
  /\ dialId' = [dialId EXCEPT ![d] = id]
  /\ knocks' = Append(knocks, d)
  /\ dial' = [dial EXCEPT ![d] = "knocked"]
  /\ UNCHANGED <<side, fault, acks, dialEntry, pendVars, accVars, knockVars,
                 lfkVars, listeners, serve, hostVars, mainVars, connVars>>

\* p := b.getClientStream(id)
DialWait(d) ==
  /\ dial[d] = "knocked"
  /\ LET e == EntryOf(clientStreams, dialId[d], <<"knock", d>>) IN
       /\ clientStreams' = [clientStreams EXCEPT ![dialId[d]] = e]
       /\ dialEntry' = [dialEntry EXCEPT ![d] = e]
  /\ dial' = [dial EXCEPT ![d] = "ack"]
  /\ UNCHANGED <<side, fault, wires, dialMutex, dialId, clientCh, ackRun, reaper,
                 accVars, knockVars, lfkVars, listeners, serve, hostVars,
                 mainVars, connVars>>

\* case msg := <-p.ch; an acknowledgement with an error ends the attempt.
DialAck(d) ==
  /\ dial[d] = "ack" /\ clientCh[dialEntry[d]] # None
  /\ clientCh' = [clientCh EXCEPT ![dialEntry[d]] = None]
  /\ \/ /\ clientCh[dialEntry[d]] \in ackOK
        /\ dial' = [dial EXCEPT ![d] = "open"]
        /\ UNCHANGED dialMutex
     \/ /\ clientCh[dialEntry[d]] \notin ackOK
        /\ dial' = [dial EXCEPT ![d] = "error"]
        /\ dialMutex' = None
  /\ UNCHANGED <<side, fault, wires, dialId, dialEntry, clientStreams, ackRun,
                 reaper, accVars, knockVars, lfkVars, listeners, serve,
                 hostVars, mainVars, connVars>>

DialExpire(d) ==
  /\ fault = "timers" /\ dial[d] = "ack"
  /\ dial' = [dial EXCEPT ![d] = "expired"]
  /\ UNCHANGED <<side, fault, wires, dialMutex, dialId, dialEntry, pendVars,
                 accVars, knockVars, lfkVars, listeners, serve, hostVars,
                 mainVars, connVars>>

\* Mutant of DialTimeout: the entry is not deleted.
DialTimeoutLeave(d) ==
  /\ dial[d] = "expired"
  /\ dial' = [dial EXCEPT ![d] = "error"]
  /\ dialMutex' = None
  /\ UNCHANGED <<side, fault, wires, dialId, dialEntry, pendVars, accVars,
                 knockVars, lfkVars, listeners, serve, hostVars, mainVars,
                 connVars>>

DialTimeout(d) ==
  /\ dial[d] = "expired"
  /\ clientStreams' = [clientStreams EXCEPT ![dialId[d]] = <<>>]
  /\ dial' = [dial EXCEPT ![d] = "error"]
  /\ dialMutex' = None
  /\ UNCHANGED <<side, fault, wires, dialId, dialEntry, clientCh, ackRun, reaper,
                 accVars, knockVars, lfkVars, listeners, serve, hostVars,
                 mainVars, connVars>>

\* muxer.Dial() opens a stream, and dialMutex is released.
DialOpen(d) ==
  /\ dial[d] = "open"
  /\ backlog' = Append(backlog, d)
  /\ dial' = [dial EXCEPT ![d] = "ok"]
  /\ dialMutex' = None
  /\ UNCHANGED <<side, fault, wires, dialId, dialEntry, pendVars, accVars,
                 knockVars, lfkVars, listeners, serve, hostVars, mainVars,
                 conn, astray>>

\* Run: an acknowledgement, named after the Dial whose knock it answers.
RunAck ==
  /\ ackRun = <<>> /\ acks # <<>>
  /\ LET d == Head(acks)
         e == EntryOf(clientStreams, dialId[d], <<"ack", d>>) IN
       /\ clientStreams' = [clientStreams EXCEPT ![dialId[d]] = e]
       /\ ackRun' = <<d, e>>
  /\ acks' = Tail(acks)
  /\ UNCHANGED <<side, fault, knocks, dialVars, clientCh, reaper, accVars,
                 knockVars, lfkVars, listeners, serve, hostVars, mainVars,
                 connVars>>

\* It is queued, and timeoutWait started, or dropped.
RunAckQueue ==
  /\ ackRun # <<>>
  /\ ackRun' = <<>>
  /\ \/ /\ clientCh[ackRun[2]] = None
        /\ clientCh' = [clientCh EXCEPT ![ackRun[2]] = ackRun[1]]
        /\ reaper' = [reaper EXCEPT ![ackRun[1]] = "wait"]
     \/ /\ clientCh[ackRun[2]] # None
        /\ UNCHANGED <<clientCh, reaper>>
  /\ UNCHANGED <<side, fault, wires, dialVars, clientStreams, accVars, knockVars,
                 lfkVars, listeners, serve, hostVars, mainVars, connVars>>

\* timeoutWait: nobody closes the doneCh of a knock's entry, so it is the timer
\* that lets it delete the entry of the id, whichever that is by then.
Reap(d) ==
  /\ fault = "timers" /\ reaper[d] = "wait"
  /\ clientStreams' = [clientStreams EXCEPT ![dialId[d]] = <<>>]
  /\ reaper' = [reaper EXCEPT ![d] = "gone"]
  /\ UNCHANGED <<side, fault, wires, dialVars, clientCh, ackRun, accVars,
                 knockVars, lfkVars, listeners, serve, hostVars, mainVars,
                 connVars>>

-----------------------------------------------------------------------------
(* The accepting end: Accept, Run, listenForKnocks.                        *)

\* "after calling AcceptAndServe from one side, wait for the other side to Dial
\* before calling AcceptAndServe again" (ClientConfig.GRPCBrokerMultiplex)
MayAccept(id) ==
  /\ \A x \in Accepts : acceptId[x] = id => accept[x] = "closed"
  /\ Sequential => \A x \in Accepts : accept[x] \in {"register", "open"} =>
       \E d \in Dials : dialId[d] = acceptId[x] /\ dial[d] = "ok"

\* getServerStream(id) and `go listenForKnocks'.  An id has one listener at a
\* time, as Accept's comment asks.
AcceptCall(a, id) ==
  /\ accept[a] = "idle" /\ InOrder(id) /\ MayAccept(id)
  /\ \A x \in Accepts : x < a => accept[x] # "idle"
  /\ LET e == EntryOf(serverStreams, id, <<"accept", a>>) IN
       /\ serverStreams' = [serverStreams EXCEPT ![id] = e]
       /\ acceptEntry' = [acceptEntry EXCEPT ![a] = e]
  /\ acceptId' = [acceptId EXCEPT ![a] = id]
  /\ listen' = [listen EXCEPT ![a] = "start"]
  /\ accept' = [accept EXCEPT ![a] = "register"]
  /\ UNCHANGED <<side, fault, wires, dialVars, pendVars, serverCh, serverDone,
                 knockRun, listenEntry, listenMsg, ackOK, listeners, serve,
                 hostVars, mainVars, connVars>>

\* acceptMutex of the host is held across a blocked unblock().
AcceptMutexFree == \A a \in Accepts : listen[a] # "unblock"

\* b.muxer.Listener(id, p.doneCh)
AcceptRegister(a) ==
  /\ accept[a] = "register" /\ AcceptMutexFree
  /\ listeners' = [listeners EXCEPT ![acceptId[a]] = a]
  /\ accept' = [accept EXCEPT ![a] = "open"]
  /\ UNCHANGED <<side, fault, wires, dialVars, pendVars, acceptId, acceptEntry,
                 knockVars, lfkVars, serve, hostVars, mainVars, connVars>>

\* The rmListener's close.
ListenerClose(a) ==
  /\ fault = "closes" /\ accept[a] = "open"
  /\ serverDone' = serverDone \cup {acceptEntry[a]}
  /\ serverStreams' = [serverStreams EXCEPT ![acceptId[a]] = <<>>]
  /\ accept' = [accept EXCEPT ![a] = "closed"]
  /\ UNCHANGED <<side, fault, wires, dialVars, pendVars, acceptId, acceptEntry,
                 serverCh, knockRun, lfkVars, listeners, serve, hostVars,
                 mainVars, connVars>>

\* Run: a knock.
RunKnock ==
  /\ knockRun = <<>> /\ knocks # <<>>
  /\ LET d == Head(knocks)
         e == EntryOf(serverStreams, dialId[d], <<"run", d>>) IN
       /\ serverStreams' = [serverStreams EXCEPT ![dialId[d]] = e]
       /\ knockRun' = <<d, e>>
  /\ knocks' = Tail(knocks)
  /\ UNCHANGED <<side, fault, acks, dialVars, pendVars, accVars, serverCh,
                 serverDone, lfkVars, listeners, serve, hostVars, mainVars,
                 connVars>>

RunKnockQueue ==
  /\ knockRun # <<>>
  /\ knockRun' = <<>>
  /\ \/ /\ serverCh[knockRun[2]] = None
        /\ serverCh' = [serverCh EXCEPT ![knockRun[2]] = knockRun[1]]
     \/ serverCh[knockRun[2]] # None /\ UNCHANGED serverCh
  /\ UNCHANGED <<side, fault, wires, dialVars, pendVars, accVars, serverStreams,
                 serverDone, lfkVars, listeners, serve, hostVars, mainVars,
                 connVars>>

\* listenForKnocks looks its entry up for itself.
ListenStart(a) ==
  /\ listen[a] = "start"
  /\ LET e == EntryOf(serverStreams, acceptId[a], <<"listen", a>>) IN
       /\ serverStreams' = [serverStreams EXCEPT ![acceptId[a]] = e]
       /\ listenEntry' = [listenEntry EXCEPT ![a] = e]
  /\ listen' = [listen EXCEPT ![a] = "select"]
  /\ UNCHANGED <<side, fault, wires, dialVars, pendVars, accVars, serverCh,
                 serverDone, knockRun, listenMsg, ackOK, listeners, serve,
                 hostVars, mainVars, connVars>>

ListenKnock(a) ==
  /\ listen[a] = "select" /\ serverCh[listenEntry[a]] # None
  /\ listenMsg' = [listenMsg EXCEPT ![a] = serverCh[listenEntry[a]]]
  /\ serverCh' = [serverCh EXCEPT ![listenEntry[a]] = None]
  /\ listen' = [listen EXCEPT ![a] = "knock"]
  /\ UNCHANGED <<side, fault, wires, dialVars, pendVars, accVars, serverStreams,
                 serverDone, knockRun, listenEntry, ackOK, listeners, serve,
                 hostVars, mainVars, connVars>>

ListenDone(a) ==
  /\ listen[a] = "select" /\ listenEntry[a] \in serverDone
  /\ listen' = [listen EXCEPT ![a] = "gone"]
  /\ UNCHANGED <<side, fault, wires, dialVars, pendVars, accVars, knockVars,
                 listenEntry, listenMsg, ackOK, listeners, serve, hostVars,
                 mainVars, connVars>>

\* Mutant of AcceptKnockHost: a listener that has its token is not given another.
AcceptKnockHostOnce(a) ==
  /\ side = "host" /\ listen[a] = "knock" /\ AcceptMutexFree
  /\ LET ln == listeners[acceptId[a]] IN
       /\ waitCh' = waitCh \cup ({ln} \ {None})
       /\ ackOK' = IF ln = None THEN ackOK ELSE ackOK \cup {listenMsg[a]}
  /\ listen' = [listen EXCEPT ![a] = "ack"]
  /\ UNCHANGED <<side, fault, wires, dialVars, pendVars, accVars, knockVars,
                 listenEntry, listenMsg, listeners, serve, mainVars, connVars>>

\* GRPCClientMuxer.AcceptKnock: no listener is an error; a full waitCh blocks.
AcceptKnockHost(a) ==
  /\ side = "host" /\ listen[a] = "knock" /\ AcceptMutexFree
  /\ LET ln == listeners[acceptId[a]] IN
       \/ /\ ln = None
          /\ listen' = [listen EXCEPT ![a] = "ack"]
          /\ UNCHANGED <<ackOK, waitCh>>
       \/ /\ ln # None /\ ln \notin waitCh
          /\ waitCh' = waitCh \cup {ln}
          /\ ackOK' = ackOK \cup {listenMsg[a]}
          /\ listen' = [listen EXCEPT ![a] = "ack"]
       \/ /\ ln \in waitCh
          /\ listen' = [listen EXCEPT ![a] = "unblock"]
          /\ UNCHANGED <<ackOK, waitCh>>
  /\ UNCHANGED <<side, fault, wires, dialVars, pendVars, accVars, knockVars,
                 listenEntry, listenMsg, listeners, serve, mainVars, connVars>>

AcceptKnockUnblock(a) ==
  /\ listen[a] = "unblock" /\ listeners[acceptId[a]] \notin waitCh
  /\ waitCh' = waitCh \cup {listeners[acceptId[a]]}
  /\ ackOK' = ackOK \cup {listenMsg[a]}
  /\ listen' = [listen EXCEPT ![a] = "ack"]
  /\ UNCHANGED <<side, fault, wires, dialVars, pendVars, accVars, knockVars,
                 listenEntry, listenMsg, listeners, serve, mainVars, connVars>>

\* Mutant of AcceptKnockPlugin: a knock is dropped when knockCh is full.
AcceptKnockPluginDrop(a) ==
  /\ side = "plugin" /\ listen[a] = "knock"
  /\ knockCh' = IF knockCh = None THEN acceptId[a] ELSE knockCh
  /\ ackOK' = ackOK \cup {listenMsg[a]}
  /\ listen' = [listen EXCEPT ![a] = "ack"]
  /\ UNCHANGED <<side, fault, wires, dialVars, pendVars, accVars, knockVars,
                 listenEntry, listenMsg, listeners, serve, hostVars, main,
                 mainConn, mainTo, connVars>>

\* GRPCServerMuxer.AcceptKnock: m.knockCh <- id
AcceptKnockPlugin(a) ==
  /\ side = "plugin" /\ listen[a] = "knock" /\ knockCh = None
  /\ knockCh' = acceptId[a]
  /\ ackOK' = ackOK \cup {listenMsg[a]}
  /\ listen' = [listen EXCEPT ![a] = "ack"]
  /\ UNCHANGED <<side, fault, wires, dialVars, pendVars, accVars, knockVars,
                 listenEntry, listenMsg, listeners, serve, hostVars, main,
                 mainConn, mainTo, connVars>>

\* Mutant of ListenAck: the message is forgotten before it is answered.
ListenAckEmpty(a) ==
  /\ listen[a] = "ack"
  /\ acks' = Append(acks, None)
  /\ listen' = [listen EXCEPT ![a] = "select"]
  /\ listenMsg' = [listenMsg EXCEPT ![a] = None]
  /\ UNCHANGED <<side, fault, knocks, dialVars, pendVars, accVars, knockVars,
                 listenEntry, ackOK, listeners, serve, hostVars, mainVars,
                 connVars>>

\* The Send of the acknowledgement.
ListenAck(a) ==
  /\ listen[a] = "ack"
  /\ acks' = Append(acks, listenMsg[a])
  /\ listen' = [listen EXCEPT ![a] = "select"]
  /\ listenMsg' = [listenMsg EXCEPT ![a] = None]
  /\ UNCHANGED <<side, fault, knocks, dialVars, pendVars, accVars, knockVars,
                 listenEntry, ackOK, listeners, serve, hostVars, mainVars,
                 connVars>>

-----------------------------------------------------------------------------
(* The Accept loops: blockedClientListener, GRPCServerMuxer.Accept and     *)
(* blockedServerListener.                                                  *)

\* The grpc server of the listener calls its Accept for the first time.
Serve(a) ==
  /\ accept[a] \in {"open", "closed"} /\ serve[a] = "none"
  /\ serve' = [serve EXCEPT ![a] = "accept"]
  /\ UNCHANGED <<side, fault, wires, dialVars, pendVars, accVars, knockVars,
                 lfkVars, listeners, hostVars, mainVars, connVars>>

\* <-doneCh: Accept returns io.EOF.
ServeEOF(a) ==
  /\ serve[a] = "accept" /\ acceptEntry[a] \in serverDone
  /\ serve' = [serve EXCEPT ![a] = "eof"]
  /\ UNCHANGED <<side, fault, wires, dialVars, pendVars, accVars, knockVars,
                 lfkVars, listeners, hostVars, mainVars, connVars>>

\* <-waitCh: the listener goes on to session.Accept.
HostUnblocked(a) ==
  /\ serve[a] = "accept" /\ a \in waitCh
  /\ waitCh' = waitCh \ {a}
  /\ serve' = [serve EXCEPT ![a] = "session"]
  /\ UNCHANGED <<side, fault, wires, dialVars, pendVars, accVars, knockVars,
                 lfkVars, listeners, mainVars, connVars>>

HostAccept(a) ==
  /\ serve[a] = "session" /\ backlog # <<>>
  /\ conn' = [conn EXCEPT ![Head(backlog)] = a]
  /\ backlog' = Tail(backlog)
  /\ serve' = [serve EXCEPT ![a] = "accept"]
  /\ UNCHANGED <<side, fault, wires, dialVars, pendVars, accVars, knockVars,
                 lfkVars, listeners, hostVars, mainVars, astray>>

\* session.Accept in the plugin's only accept loop ...
MainAccept ==
  /\ side = "plugin" /\ main = "accept" /\ backlog # <<>>
  /\ mainConn' = Head(backlog) /\ backlog' = Tail(backlog)
  /\ main' = "route"
  /\ UNCHANGED <<side, fault, wires, dialVars, pendVars, accVars, knockVars,
                 lfkVars, listeners, serve, hostVars, knockCh, mainTo, conn,
                 astray>>

\* ... and the stream's way: by the id in knockCh, to the default listener if
\* there is none, and an error that ends the loop if the id has no listener.
MainRoute ==
  /\ main = "route"
  /\ knockCh' = None
  /\ \/ /\ knockCh # None /\ listeners[knockCh] # None
        /\ main' = "handoff" /\ mainTo' = listeners[knockCh]
        /\ UNCHANGED <<mainConn, astray>>
     \/ /\ knockCh # None /\ listeners[knockCh] = None
        /\ main' = "failed" /\ mainConn' = None
        /\ astray' = astray \cup {mainConn}
        /\ UNCHANGED mainTo
     \/ /\ knockCh = None
        /\ main' = "accept" /\ mainConn' = None
        /\ astray' = astray \cup {mainConn}
        /\ UNCHANGED mainTo
  /\ UNCHANGED <<side, fault, wires, dialVars, pendVars, accVars, knockVars,
                 lfkVars, listeners, serve, hostVars, backlog, conn>>

\* acceptCh <- acceptResult, received by the listener's Accept.
MainHandoff(a) ==
  /\ main = "handoff" /\ mainTo = a /\ serve[a] = "accept"
  /\ conn' = [conn EXCEPT ![mainConn] = a]
  /\ main' = "accept" /\ mainConn' = None /\ mainTo' = None
  /\ UNCHANGED <<side, fault, wires, dialVars, pendVars, accVars, knockVars,
                 lfkVars, listeners, serve, hostVars, knockCh, backlog, astray>>

-----------------------------------------------------------------------------
DialStep(d) == DialWait(d) \/ DialAck(d) \/ DialTimeout(d) \/ DialOpen(d)
RunStep == RunAck \/ RunAckQueue \/ RunKnock \/ RunKnockQueue
ListenStep(a) == ListenStart(a) \/ ListenKnock(a) \/ ListenDone(a)
                 \/ AcceptKnockHost(a) \/ AcceptKnockUnblock(a)
                 \/ AcceptKnockPlugin(a) \/ ListenAck(a)
ServeStep(a) == Serve(a) \/ ServeEOF(a) \/ HostUnblocked(a) \/ HostAccept(a)
                \/ MainHandoff(a)
Timer == \E d \in Dials : DialExpire(d) \/ Reap(d)

\* What happens without a new call: goroutines run, armed timers fire.
Work ==
  \/ \E d \in Dials : DialStep(d)
  \/ \E a \in Accepts : AcceptRegister(a) \/ ListenStep(a) \/ ServeStep(a)
  \/ RunStep \/ MainAccept \/ MainRoute \/ Timer

Next ==
  \/ \E d \in Dials, id \in Ids : DialKnock(d, id)
  \/ \E a \in Accepts, id \in Ids : AcceptCall(a, id)
  \/ \E a \in Accepts : ListenerClose(a)
  \/ Work

Spec == Init /\ [][Next]_vars

-----------------------------------------------------------------------------
(* Properties.  Every Dial and Accept takes finitely many steps, so what    *)
(* must eventually happen is stated of the states in which nothing moves.  *)

\* Who waits, and for what: the select of a Dial and the reaper's timer, Run for
\* the stream, ...
DialWaits(d) ==
  /\ dial[d] \notin {"knocked", "expired", "open"}
  /\ dial[d] = "ack" => fault # "timers" /\ clientCh[dialEntry[d]] = None
  /\ reaper[d] = "wait" => fault # "timers"

RunWaits == ackRun = <<>> /\ acks = <<>> /\ knockRun = <<>> /\ knocks = <<>>

\* ... listenForKnocks for a knock, acceptMutex, the listener's token or a place
\* in knockCh, Accept for acceptMutex, ...
ListenWaits(a) ==
  /\ listen[a] \notin {"start", "ack"}
  /\ listen[a] = "select" => /\ serverCh[listenEntry[a]] = None
                            /\ listenEntry[a] \notin serverDone
  /\ listen[a] = "knock" => IF side = "host" THEN ~AcceptMutexFree
                                           ELSE knockCh # None
  /\ listen[a] = "unblock" => listeners[acceptId[a]] \in waitCh
  /\ accept[a] = "register" => ~AcceptMutexFree

\* ... a listener's Accept for a token, a stream or the end, and the plugin's
\* accept loop for a stream or a listener.
ServeWaits(a) ==
  /\ accept[a] \in {"open", "closed"} => serve[a] # "none"
  /\ serve[a] = "accept" => /\ acceptEntry[a] \notin serverDone
                           /\ a \notin waitCh
                           /\ ~(main = "handoff" /\ mainTo = a)
  /\ serve[a] = "session" => backlog = <<>>

MainWaits == /\ main # "route"
             /\ side = "plugin" /\ main = "accept" => backlog = <<>>

Quiescent ==
  /\ \A d \in Dials : DialWaits(d)
  /\ \A a \in Accepts : ListenWaits(a) /\ ServeWaits(a)
  /\ RunWaits /\ MainWaits

\* The type of the state.
TypeOK ==
  /\ side \in Sides /\ fault \in Faults
  /\ knocks \in Seq(Dials) /\ acks \in Seq(Dials)
  /\ dialMutex \in Dials \cup {None}
  /\ dial \in [Dials -> {"idle", "knocked", "ack", "expired", "open", "ok",
                        "error"}]
  /\ dialId \in [Dials -> Ids \cup {None}]
  /\ dialEntry \in [Dials -> ClientEntries \cup {<<>>}]
  /\ clientStreams \in [Ids -> ClientEntries \cup {<<>>}]
  /\ clientCh \in [ClientEntries -> Dials \cup {None}]
  /\ ackRun \in (Dials \X ClientEntries) \cup {<<>>}
  /\ reaper \in [Dials -> {"none", "wait", "gone"}]
  /\ accept \in [Accepts -> {"idle", "register", "open", "closed"}]
  /\ acceptId \in [Accepts -> Ids \cup {None}]
  /\ acceptEntry \in [Accepts -> ServerEntries \cup {<<>>}]
  /\ serverStreams \in [Ids -> ServerEntries \cup {<<>>}]
  /\ serverCh \in [ServerEntries -> Dials \cup {None}]
  /\ serverDone \subseteq ServerEntries
  /\ knockRun \in (Dials \X ServerEntries) \cup {<<>>}
  /\ listen \in [Accepts -> {"none", "start", "select", "knock", "unblock",
                            "ack", "gone"}]
  /\ listenEntry \in [Accepts -> ServerEntries \cup {<<>>}]
  /\ listenMsg \in [Accepts -> Dials \cup {None}]
  /\ ackOK \subseteq Dials /\ astray \subseteq Dials
  /\ listeners \in [Ids -> Accepts \cup {None}]
  /\ serve \in [Accepts -> {"none", "accept", "session", "eof"}]
  /\ waitCh \subseteq Accepts
  /\ knockCh \in Ids \cup {None}
  /\ main \in {"accept", "route", "handoff", "failed"}
  /\ mainConn \in Dials \cup {None} /\ mainTo \in Accepts \cup {None}
  /\ backlog \in Seq(Dials)
  /\ conn \in [Dials -> Accepts \cup {None}]

ToItsId(d) == conn[d] # None => acceptId[conn[d]] = dialId[d]

\* When the plugin accepts, a stream reaches only a listener of the id that
\* was knocked for, and never the plugin's main server, also when knocks time
\* out, acknowledgements come late and listeners come and go: knockCh holds
\* one id, and dialMutex is held from the knock to the opening of the stream.
PluginRoutesById ==
  side = "plugin" => /\ \A d \in Dials : ToItsId(d)
                     /\ astray # {} => main = "failed"

\* The same of the host, also when a listener is only made once the Dials of the
\* earlier ones have returned ("Clients must knock before dialling, to tell the
\* server side that the next net.Conn should be accepted onto a specific stream
\* ID").
HostRoutesById == side = "host" => \A d \in Dials : ToItsId(d)

\* Without faults nobody is left waiting: every Dial of an id that is accepted
\* ends, none holds dialMutex, no listener stays blocked in AcceptKnock with
\* acceptMutex, and every opened stream is in the hands of a listener.  Only a
\* plugin whose accept loop has failed is excepted.
NobodyLeftWaiting ==
  (fault = "none" /\ main # "failed" /\ Quiescent) =>
    /\ \A d \in Dials :
         /\ dial[d] \in {"idle", "ok", "error"}
            \/ \A a \in Accepts : acceptId[a] # dialId[d]
         /\ dial[d] = "ok" => conn[d] # None
    /\ AcceptMutexFree

\* A pending entry does not outlive its knock: once the timers have fired the
\* map is empty and dialMutex is free ("if the ack never arrives, Run() never
\* spawns a timeoutWait for it and the entry would otherwise leak").
EntriesReaped ==
  (fault = "timers" /\ Quiescent) =>
    dialMutex = None /\ \A id \in Ids : clientStreams[id] = <<>>

=============================================================================
