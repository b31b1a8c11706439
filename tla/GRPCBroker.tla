----------------------------- MODULE GRPCBroker -----------------------------
(***************************************************************************)
(* The gRPC broker of grpc_broker.go without multiplexing, in one          *)
(* direction.  The accepting end opens a listener per Accept and sends its *)
(* address (a ConnInfo) down the broker's gRPC stream; at the dialling end *)
(* StartStream hands the message to Run, which leaves it in the pending    *)
(* entry of its id for Dial.  The other direction is the same program on   *)
(* the same stream; its messages are not modelled, but either end of the   *)
(* stream may end it at any time, as one of them would on a closed broker. *)
(*                                                                         *)
(* A ConnInfo is named after its Accept; an entry (gRPCBrokerPending) is   *)
(* named after the Dial or the ConnInfo that it was allocated for.  No     *)
(* clock: time.After(BrokerTimeout) may fire whenever it is waited for.    *)
(* grpc-go is external: the stream is a queue that may break; what it      *)
(* holds then is received or lost, and a Send on it may or may not fail.   *)
(***************************************************************************)
EXTENDS Naturals, Sequences, FiniteSets

CONSTANTS Dials, Accepts, Ids, None,
          MaxCalls,  \* bound on the calls of Accept and Dial
          Policies   \* how callers may choose ids, see MayDial and MayAccept

ASSUME NoneAssumption == None \notin Dials \cup Accepts \cup Ids
ASSUME CallsAssumption == Dials \cap Accepts = {}
ASSUME OrderAssumption == Dials \cup Accepts \cup Ids \subseteq Nat
ASSUME PolicyAssumption == Policies \subseteq {"unique", "duplicate"}

Entries == Dials \cup Accepts

VARIABLES
  policy,         \* the callers' choice of ids
  stream,         \* the broker's gRPC stream: "none", "open" or "ended"
  wire,           \* the ConnInfos on it
  quit,           \* ends whose streamer.quit is closed: "accept", "dial"
  \* the accepting end
  accept, acceptId,  \* Accept's program counter and argument
  sender, sending,   \* the send goroutine of StartStream and its `se'
  \* the dialling end
  reader, received,  \* the receive loop of StartStream and its `i'
  run, runMsg, runEntry,  \* Run and its locals msg and p
  clientStreams,  \* GRPCBroker.clientStreams
  ch,             \* gRPCBrokerPending.ch, a channel of capacity one
  pendingDone,    \* the entries whose doneCh is closed
  panicked,       \* Dial closed a closed channel
  dial, dialId, dialEntry, conn,  \* Dial and its locals id, p and c
  reaper, reaperEntry  \* the timeoutWait started for a ConnInfo

streamVars == <<stream, wire, quit>>
acceptVars == <<accept, acceptId, sender, sending>>
readVars   == <<reader, received>>
runVars    == <<run, runMsg, runEntry>>
dialVars   == <<dial, dialId, dialEntry, conn>>
pendVars   == <<clientStreams, ch, pendingDone, panicked>>
reapVars   == <<reaper, reaperEntry>>
vars == <<policy, streamVars, acceptVars, readVars, runVars, pendVars,
          dialVars, reapVars>>

Init ==
  /\ policy \in Policies
  /\ stream = "none" /\ wire = <<>> /\ quit = {}
  /\ accept = [a \in Accepts |-> "idle"]
  /\ acceptId = [a \in Accepts |-> None]
  /\ sender = "off" /\ sending = None
  /\ reader = "off" /\ received = None
  /\ run = "recv" /\ runMsg = None /\ runEntry = None
  /\ clientStreams = [id \in Ids |-> None]
  /\ ch = [e \in Entries |-> None]
  /\ pendingDone = {} /\ panicked = FALSE
  /\ dial = [d \in Dials |-> "idle"]
  /\ dialId = [d \in Dials |-> None]
  /\ dialEntry = [d \in Dials |-> None]
  /\ conn = [d \in Dials |-> None]
  /\ reaper = [a \in Accepts |-> "none"]
  /\ reaperEntry = [a \in Accepts |-> None]

\* Ids and calls are numbered in the order in which they are first used.
\* NextId hands out each id once until its counter wraps: "unique".
MayCall(id) ==
  /\ Cardinality({d \in Dials : dialId[d] # None})
     + Cardinality({a \in Accepts : acceptId[a] # None}) < MaxCalls
  /\ \A i \in Ids : i < id => \/ \E d \in Dials : dialId[d] = i
                             \/ \E a \in Accepts : acceptId[a] = i
MayDial(d, id) ==
  /\ MayCall(id) /\ \A x \in Dials : x < d => dialId[x] # None
  /\ policy = "unique" => \A x \in Dials : dialId[x] # id
MayAccept(a, id) ==
  /\ MayCall(id) /\ \A x \in Accepts : x < a => acceptId[x] # None
  /\ policy = "unique" => \A x \in Accepts : acceptId[x] # id

-----------------------------------------------------------------------------
(* The stream: StartStream at both ends.                                   *)

StreamOpen ==
  /\ stream = "none"
  /\ stream' = "open" /\ sender' = "idle" /\ reader' = "recv"
  /\ UNCHANGED <<policy, wire, quit, accept, acceptId, sending,
                 received, runVars, pendVars, dialVars, reapVars>>

\* The host's call of StartStream fails: its own end quits, and the plugin's
\* never gets a stream.
StreamOpenFails ==
  /\ stream = "none"
  /\ stream' = "ended"
  /\ \E host \in {"accept", "dial"} : quit' = quit \cup {host}
  /\ UNCHANGED <<policy, wire, acceptVars, readVars, runVars, pendVars,
                 dialVars, reapVars>>

\* The connection is lost, or an end whose quit is closed leaves StartStream
\* on a message of the other direction.
StreamBreaks ==
  /\ stream = "open"
  /\ stream' = "ended"
  /\ UNCHANGED <<policy, wire, quit, acceptVars, readVars, runVars, pendVars,
                 dialVars, reapVars>>

\* The accepting end's receive loop sees the end and closes quit on its way.
AcceptEndReturns ==
  /\ stream = "ended" /\ sender # "off" /\ "accept" \notin quit
  /\ quit' = quit \cup {"accept"}
  /\ UNCHANGED <<policy, stream, wire, acceptVars, readVars, runVars,
                 pendVars, dialVars, reapVars>>

\* Mutant of SenderSend: on an error the goroutine returns without an answer.
SenderSendSilent ==
  /\ sender = "send"
  /\ \/ /\ stream = "open"
        /\ wire' = Append(wire, sending)
        /\ accept' = [accept EXCEPT ![sending] = "ok"]
        /\ sender' = "idle"
     \/ stream = "ended" /\ sender' = "gone" /\ UNCHANGED <<wire, accept>>
  /\ sending' = None
  /\ UNCHANGED <<policy, stream, quit, acceptId,
                 readVars, runVars, pendVars, dialVars, reapVars>>

\* stream.Send(se.i), and se.ch <- err to the Send that waits for it.  On a
\* stream that has ended the message is lost, with or without an error.
SenderSend ==
  /\ sender = "send"
  /\ \/ /\ stream = "open"
        /\ wire' = Append(wire, sending)
        /\ accept' = [accept EXCEPT ![sending] = "ok"]
     \/ /\ stream = "ended"
        /\ \E r \in {"ok", "error"} : accept' = [accept EXCEPT ![sending] = r]
        /\ UNCHANGED wire
  /\ sender' = "idle" /\ sending' = None
  /\ UNCHANGED <<policy, stream, quit, acceptId,
                 readVars, runVars, pendVars, dialVars, reapVars>>

SenderExit ==
  /\ sender = "idle"
  /\ stream = "ended" \/ "accept" \in quit
  /\ sender' = "gone"
  /\ UNCHANGED <<policy, streamVars, accept, acceptId, sending,
                 readVars, runVars, pendVars, dialVars, reapVars>>

ReaderRecv ==
  /\ reader = "recv" /\ wire # <<>>
  /\ received' = Head(wire) /\ wire' = Tail(wire)
  /\ reader' = "hand"
  /\ UNCHANGED <<policy, stream, quit, acceptVars, runVars, pendVars, dialVars,
                 reapVars>>

\* StartStream returns, which ends the stream and closes quit.  While it waits
\* in stream.Recv it does not look at quit.
ReaderReturns ==
  /\ \/ reader \in {"recv", "hand"} /\ stream = "ended"
     \/ reader = "hand" /\ "dial" \in quit
  /\ reader' = "gone" /\ received' = None
  /\ stream' = "ended" /\ quit' = quit \cup {"dial"}
  /\ UNCHANGED <<policy, wire, acceptVars, runVars, pendVars, dialVars,
                 reapVars>>

-----------------------------------------------------------------------------
(* Accept.                                                                 *)

\* A listener is opened, its address translated; streamer.Send comes next.
AcceptCall(a, id) ==
  /\ accept[a] = "idle" /\ MayAccept(a, id)
  /\ acceptId' = [acceptId EXCEPT ![a] = id]
  /\ \E to \in {"send", "error"} : accept' = [accept EXCEPT ![a] = to]
  /\ UNCHANGED <<policy, streamVars, sender, sending, readVars,
                 runVars, pendVars, dialVars, reapVars>>

\* Send, first select: the broker is closed ...
SendQuit(a) ==
  /\ accept[a] = "send" /\ "accept" \in quit
  /\ accept' = [accept EXCEPT ![a] = "error"]
  /\ UNCHANGED <<policy, streamVars, acceptId, sender, sending,
                 readVars, runVars, pendVars, dialVars, reapVars>>

\* ... or the send goroutine takes the message, and Send waits for its error.
SendHand(a) ==
  /\ accept[a] = "send" /\ sender = "idle"
  /\ accept' = [accept EXCEPT ![a] = "wait"]
  /\ sender' = "send" /\ sending' = a
  /\ UNCHANGED <<policy, streamVars, acceptId,
                 readVars, runVars, pendVars, dialVars, reapVars>>

\* Close, at either end; the once of quit makes it idempotent.
Close(end) ==
  /\ quit' = quit \cup {end}
  /\ UNCHANGED <<policy, stream, wire, acceptVars, readVars, runVars, pendVars,
                 dialVars, reapVars>>

-----------------------------------------------------------------------------
(* Run, getClientStream and timeoutWait at the dialling end.               *)

\* Mutant of EntryOf: the entry in the map is replaced by a new one.
EntryOfFresh(id, fresh) == fresh

\* getClientStream(id): the entry of id, allocated if missing.
EntryOf(id, fresh) ==
  IF clientStreams[id] = None THEN fresh ELSE clientStreams[id]

GetClientStream(id, fresh) ==
  clientStreams' = [clientStreams EXCEPT ![id] = EntryOf(id, fresh)]

\* streamer.Recv takes the message from the receive loop, Run looks its id up.
RunRecv ==
  /\ run = "recv" /\ reader = "hand"
  /\ GetClientStream(acceptId[received], received)
  /\ runEntry' = EntryOf(acceptId[received], received)
  /\ runMsg' = received /\ run' = "route"
  /\ reader' = "recv" /\ received' = None
  /\ UNCHANGED <<policy, streamVars, acceptVars, ch, pendingDone, panicked,
                 dialVars, reapVars>>

RunExit ==
  /\ run = "recv" /\ "dial" \in quit
  /\ run' = "exited"
  /\ UNCHANGED <<policy, streamVars, acceptVars, readVars, runMsg, runEntry,
                 pendVars, dialVars, reapVars>>

RunNext == run' = "recv" /\ runMsg' = None /\ runEntry' = None

\* Mutant of RunQueue: the loop goes on with the same message.
RunQueueTwice ==
  /\ run = "route" /\ ch[runEntry] = None
  /\ ch' = [ch EXCEPT ![runEntry] = runMsg]
  /\ reaper' = [reaper EXCEPT ![runMsg] = "wait"]
  /\ reaperEntry' = [reaperEntry EXCEPT ![runMsg] = runEntry]
  /\ UNCHANGED <<policy, streamVars, acceptVars, readVars, runVars,
                 clientStreams, pendingDone, panicked, dialVars>>

\* Mutant of RunQueue: nobody waits to delete the entry.
RunQueueNoReaper ==
  /\ run = "route" /\ ch[runEntry] = None
  /\ ch' = [ch EXCEPT ![runEntry] = runMsg]
  /\ RunNext
  /\ UNCHANGED <<policy, streamVars, acceptVars, readVars, clientStreams,
                 pendingDone, panicked, dialVars, reapVars>>

\* p.ch <- msg and `go b.timeoutWait(id, p)'.
RunQueue ==
  /\ run = "route" /\ ch[runEntry] = None
  /\ ch' = [ch EXCEPT ![runEntry] = runMsg]
  /\ reaper' = [reaper EXCEPT ![runMsg] = "wait"]
  /\ reaperEntry' = [reaperEntry EXCEPT ![runMsg] = runEntry]
  /\ RunNext
  /\ UNCHANGED <<policy, streamVars, acceptVars, readVars, clientStreams,
                 pendingDone, panicked, dialVars>>

\* The slot is full: the message is dropped, with a log line.
RunDrop ==
  /\ run = "route" /\ ch[runEntry] # None
  /\ RunNext
  /\ UNCHANGED <<policy, streamVars, acceptVars, readVars, pendVars, dialVars,
                 reapVars>>

ReaperDone(a) ==
  /\ reaper[a] = "wait" /\ reaperEntry[a] \in pendingDone
  /\ reaper' = [reaper EXCEPT ![a] = "delete"]
  /\ UNCHANGED <<policy, streamVars, acceptVars, readVars, runVars, pendVars,
                 dialVars, reaperEntry>>

ReaperExpire(a) ==
  /\ reaper[a] = "wait"
  /\ reaper' = [reaper EXCEPT ![a] = "delete"]
  /\ UNCHANGED <<policy, streamVars, acceptVars, readVars, runVars, pendVars,
                 dialVars, reaperEntry>>

\* delete(b.clientStreams, id), whatever entry the map holds for id.
Reap(a) ==
  /\ reaper[a] = "delete"
  /\ clientStreams' = [clientStreams EXCEPT ![acceptId[a]] = None]
  /\ reaper' = [reaper EXCEPT ![a] = "gone"]
  /\ UNCHANGED <<policy, streamVars, acceptVars, readVars, runVars, ch,
                 pendingDone, panicked, dialVars, reaperEntry>>

-----------------------------------------------------------------------------
(* DialWithOptions.                                                        *)

DialCall(d, id) ==
  /\ dial[d] = "idle" /\ MayDial(d, id)
  /\ GetClientStream(id, d)
  /\ dialEntry' = [dialEntry EXCEPT ![d] = EntryOf(id, d)]
  /\ dialId' = [dialId EXCEPT ![d] = id]
  /\ dial' = [dial EXCEPT ![d] = "select"]
  /\ UNCHANGED <<policy, streamVars, acceptVars, readVars, runVars, ch,
                 pendingDone, panicked, conn, reapVars>>

\* Mutant of DialReceive: the ConnInfo stays in the channel.
DialReceivePeek(d) ==
  /\ dial[d] = "select" /\ ch[dialEntry[d]] # None
  /\ conn' = [conn EXCEPT ![d] = ch[dialEntry[d]]]
  /\ dial' = [dial EXCEPT ![d] = "close"]
  /\ UNCHANGED <<policy, streamVars, acceptVars, readVars, runVars,
                 clientStreams, ch, pendingDone, panicked, dialId, dialEntry,
                 reapVars>>

DialReceive(d) ==
  /\ dial[d] = "select" /\ ch[dialEntry[d]] # None
  /\ conn' = [conn EXCEPT ![d] = ch[dialEntry[d]]]
  /\ ch' = [ch EXCEPT ![dialEntry[d]] = None]
  /\ dial' = [dial EXCEPT ![d] = "close"]
  /\ UNCHANGED <<policy, streamVars, acceptVars, readVars, runVars,
                 clientStreams, pendingDone, panicked, dialId, dialEntry,
                 reapVars>>

\* close(p.doneCh), which panics on a closed channel; then the address is
\* translated and resolved, or is not.
DialCloseDone(d) ==
  /\ dial[d] = "close"
  /\ panicked' = (dialEntry[d] \in pendingDone)
  /\ pendingDone' = pendingDone \cup {dialEntry[d]}
  /\ \E r \in {"ok", "error"} : dial' = [dial EXCEPT ![d] = r]
  /\ UNCHANGED <<policy, streamVars, acceptVars, readVars, runVars,
                 clientStreams, ch, dialId, dialEntry, conn, reapVars>>

DialExpire(d) ==
  /\ dial[d] = "select"
  /\ dial' = [dial EXCEPT ![d] = "expired"]
  /\ UNCHANGED <<policy, streamVars, acceptVars, readVars, runVars, pendVars,
                 dialId, dialEntry, conn, reapVars>>

DialTimeout(d) ==
  /\ dial[d] = "expired"
  /\ clientStreams' = [clientStreams EXCEPT ![dialId[d]] = None]
  /\ dial' = [dial EXCEPT ![d] = "timeout"]
  /\ UNCHANGED <<policy, streamVars, acceptVars, readVars, runVars, ch,
                 pendingDone, panicked, dialId, dialEntry, conn, reapVars>>

-----------------------------------------------------------------------------
StreamStep == AcceptEndReturns \/ SenderSend \/ SenderExit \/ ReaderRecv
              \/ ReaderReturns
AcceptStep(a) == SendQuit(a) \/ SendHand(a)
RunStep == RunRecv \/ RunExit \/ RunQueue \/ RunDrop
DialStep(d) == DialReceive(d) \/ DialCloseDone(d) \/ DialTimeout(d)
ReapStep(a) == ReaperDone(a) \/ Reap(a)
Calls == \/ \E a \in Accepts, id \in Ids : AcceptCall(a, id)
         \/ \E d \in Dials, id \in Ids : DialCall(d, id)
         \/ \E end \in {"accept", "dial"} : Close(end)
Timer == \/ \E d \in Dials : DialExpire(d)
         \/ \E a \in Accepts : ReaperExpire(a)

\* What happens without a new call, a failure or a timer.
Work == \/ StreamStep \/ RunStep
        \/ \E a \in Accepts : AcceptStep(a) \/ ReapStep(a)
        \/ \E d \in Dials : DialStep(d)

\* A panic ends the process at the dialling end, and with it every step.
Next ==
  /\ ~panicked
  /\ \/ Calls \/ StreamOpen \/ StreamOpenFails \/ StreamBreaks
     \/ Work \/ Timer

Spec == Init /\ [][Next]_vars

-----------------------------------------------------------------------------
(* Properties.  No execution has infinitely many steps of Work or Timer, so *)
(* what must eventually happen is stated of the states in which none is     *)
(* left, or none but timers: there every goroutine waits.                   *)

StreamWaits ==
  /\ sender # "send"
  /\ sender = "idle" => stream # "ended" /\ "accept" \notin quit
  /\ sender # "off" /\ stream = "ended" => "accept" \in quit
  /\ reader = "recv" => stream # "ended" /\ wire = <<>>
  /\ reader = "hand" => stream # "ended" /\ "dial" \notin quit
RunWaits ==
  run # "route" /\ (run = "recv" => reader # "hand" /\ "dial" \notin quit)
AcceptWaits(a) == accept[a] = "send" => sender # "idle" /\ "accept" \notin quit
DialWaits(d) ==
  /\ dial[d] \notin {"close", "expired"}
  /\ dial[d] = "select" => ch[dialEntry[d]] = None
ReaperWaits(a) ==
  /\ reaper[a] # "delete"
  /\ reaper[a] = "wait" => reaperEntry[a] \notin pendingDone

\* No step of Work can be taken ...
OnlyTimersLeft ==
  \/ panicked
  \/ /\ StreamWaits /\ RunWaits
     /\ \A a \in Accepts : AcceptWaits(a) /\ ReaperWaits(a)
     /\ \A d \in Dials : DialWaits(d)

\* ... and no timer is waited for.
Quiescent ==
  /\ OnlyTimersLeft
  /\ panicked \/ ("select" \notin {dial[d] : d \in Dials}
                  /\ "wait" \notin {reaper[a] : a \in Accepts})

\* The type of the state.
TypeOK ==
  /\ policy \in Policies
  /\ stream \in {"none", "open", "ended"}
  /\ wire \in Seq(Accepts)
  /\ quit \subseteq {"accept", "dial"}
  /\ accept \in [Accepts -> {"idle", "send", "wait", "ok", "error"}]
  /\ acceptId \in [Accepts -> Ids \cup {None}]
  /\ sender \in {"off", "idle", "send", "gone"}
  /\ sending \in Accepts \cup {None}
  /\ panicked \in BOOLEAN
  /\ reader \in {"off", "recv", "hand", "gone"}
  /\ received \in Accepts \cup {None}
  /\ run \in {"recv", "route", "exited"}
  /\ runMsg \in Accepts \cup {None}
  /\ runEntry \in Entries \cup {None}
  /\ clientStreams \in [Ids -> Entries \cup {None}]
  /\ ch \in [Entries -> Accepts \cup {None}]
  /\ pendingDone \subseteq Entries
  /\ dial \in [Dials -> {"idle", "select", "close", "ok", "error", "expired",
                        "timeout"}]
  /\ dialId \in [Dials -> Ids \cup {None}]
  /\ dialEntry \in [Dials -> Entries \cup {None}]
  /\ conn \in [Dials -> Accepts \cup {None}]
  /\ reaper \in [Accepts -> {"none", "wait", "delete", "gone"}]
  /\ reaperEntry \in [Accepts -> Entries \cup {None}]

joined == {<<d, conn[d]>> : d \in {x \in Dials : conn[x] # None}}
connected == {d \in Dials : dial[d] = "ok"}
R == INSTANCE Rendezvous WITH dialled <- dialId, accepted <- acceptId

\* The broker implements a rendezvous by id, for every choice of ids: a Dial
\* succeeds only with the address of an Accept of its own id, no address
\* reaches two Dials, and a Dial keeps the one it has (Run routes by
\* ServiceId, p.ch hands each ConnInfo over once).
ImplementsRendezvous == R!Spec

\* With ids from NextId no pending entry is used twice: Dial closes each doneCh
\* once, and Run never finds the slot of a ConnInfo taken and drops it.
UniqueIdsNeverCollide ==
  policy = "unique" => /\ ~panicked
                       /\ run = "route" => ch[runEntry] = None

\* Entries do not pile up: when every timer has fired, no id has one (the
\* timeoutWait that Run starts, or the timeout of Dial, deletes it).
EntriesReaped ==
  (\E id \in Ids : clientStreams[id] # None) => panicked \/ ~Quiescent

\* An Accept whose message is under way and a Dial of its id meet before any
\* timer has to fire, unless an end of the stream is closed: no ConnInfo is
\* lost between StartStream, Run and the pending entry.
Meet ==
  policy = "unique" /\ quit = {} /\ stream = "open" /\ OnlyTimersLeft =>
    \A a \in Accepts, d \in Dials :
      accept[a] \in {"send", "wait", "ok"} /\ dialId[d] = acceptId[a]
      /\ reaper[a] # "gone" => dial[d] # "select"

\* Accept returns: its Send cannot be left between a send goroutine that has
\* gone and a quit nobody closes.  It waits only for a stream that the peer
\* has not opened.
AcceptReturns ==
  (\E a \in Accepts : accept[a] \in {"send", "wait"}) /\ sender # "off" =>
    panicked \/ ~OnlyTimersLeft
-----------------------------------------------------------------------------
(* The inductive invariant.                                                *)

OnWire == {wire[i] : i \in 1..Len(wire)}
WireDistinct == \A i, j \in 1..Len(wire) : wire[i] = wire[j] => i = j

\* The id of the Dial or ConnInfo an entry was allocated for.
IdOf(e) == IF e \in Dials THEN dialId[e] ELSE acceptId[e]

\* Locals are set where they are used, and an entry is reached only by the id
\* it was allocated for: through the map, by Run and by Dial.
IdInv ==
  /\ \A a \in Accepts : accept[a] = "idle" <=> acceptId[a] = None
  /\ \A d \in Dials : /\ dial[d] = "idle" <=> dialId[d] = None
                      /\ dial[d] = "idle" <=> dialEntry[d] = None
                      /\ dial[d] # "idle" => IdOf(dialEntry[d]) = dialId[d]
                      /\ conn[d] # None <=> dial[d] \in {"close", "ok", "error"}
                      /\ conn[d] # None => acceptId[conn[d]] = dialId[d]
  /\ \A id \in Ids : clientStreams[id] # None => IdOf(clientStreams[id]) = id
  /\ \A e \in Entries : ch[e] # None => /\ acceptId[ch[e]] # None
                                       /\ IdOf(e) = acceptId[ch[e]]
  /\ sender = "send" => sending # None
  /\ reader = "hand" => received # None
  /\ run = "route" => /\ runMsg # None /\ runEntry # None
                      /\ IdOf(runEntry) = acceptId[runMsg]

\* A ConnInfo that was sent is in one place at most: on the wire, in a hand of
\* the receive loop or of Run, in one channel or with one Dial.
SoleOwner ==
  /\ sender = "send" => accept[sending] = "wait"
  /\ WireDistinct
  /\ \A a \in Accepts : a \in OnWire =>
       accept[a] = "ok" /\ received # a /\ runMsg # a
  /\ received # None => accept[received] = "ok" /\ runMsg # received
  /\ runMsg # None => accept[runMsg] = "ok"
  /\ \A e \in Entries : ch[e] # None =>
       /\ accept[ch[e]] = "ok" /\ ch[e] \notin OnWire
       /\ received # ch[e] /\ runMsg # ch[e]
       /\ \A f \in Entries : ch[f] = ch[e] => f = e
       /\ \A d \in Dials : conn[d] # ch[e]
  /\ \A d \in Dials : conn[d] # None =>
       /\ accept[conn[d]] = "ok" /\ conn[d] \notin OnWire
       /\ received # conn[d] /\ runMsg # conn[d]
       /\ \A c \in Dials : conn[c] = conn[d] => c = d

\* A closed doneCh was closed by a Dial of its entry.
DoneInv ==
  \A e \in pendingDone : \E d \in Dials :
    dialEntry[d] = e /\ dial[d] \in {"ok", "error"}

\* With ids from NextId, each id has one Dial and one Accept.
UniqueInv ==
  policy = "unique" =>
    /\ \A c, d \in Dials : dialId[c] = dialId[d] /\ dialId[c] # None => c = d
    /\ \A a, b \in Accepts :
         acceptId[a] = acceptId[b] /\ acceptId[a] # None => a = b
    /\ ~panicked
=============================================================================
