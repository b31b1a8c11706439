------------------------------ MODULE MuxBroker ------------------------------
(***************************************************************************)
(* The net/rpc stream broker of mux_broker.go, in one direction: the peer  *)
(* calls Dial(id), this end runs the Run loop and calls Accept(id), and    *)
(* the two meet through a pending entry (muxBrokerPending) kept in the map *)
(* `streams'.  The broker of the other direction is the same program.      *)
(*                                                                         *)
(* A member of Dials is one call of Dial and also the yamux stream that it *)
(* opens; a member of Accepts is one call of Accept.  getStream allocates  *)
(* at most one entry for a call, so an entry is named after the call or    *)
(* the stream that it was allocated for, and nothing bounds allocation.    *)
(* time.After(BrokerTimeout) may fire at any moment: no clock is modelled. *)
(* yamux itself is external: streams arrive in the order they were opened, *)
(* a close is read as EOF, and closing the session fails what is pending.  *)
(***************************************************************************)
EXTENDS Naturals, Sequences

CONSTANTS Dials,    \* calls of Dial by the peer, and the streams they open
          Accepts,  \* calls of Accept at this end
          Ids,      \* stream ids
          None,     \* no id, no stream, no entry
          Policy    \* how callers choose ids, see MayDial and MayAccept

ASSUME NoneAssumption == None \notin Dials \cup Accepts \cup Ids
ASSUME CallsAssumption == Dials \cap Accepts = {}
ASSUME PolicyAssumption == Policy \in {"unique", "sequential", "duplicate"}

Entries == Dials \cup Accepts

VARIABLES
  session,      \* the yamux session is open
  dial,         \* Dial's program counter
  dialId,       \* its argument
  wire,         \* the id Dial has written on its stream, None before
  ack,          \* the id Accept has written back, None before
  closed,       \* streams that this end has closed
  backlog,      \* streams opened and not yet returned by AcceptStream
  run,          \* Run's program counter
  runStream,    \* Run's local `stream'
  runEntry,     \* Run's local `p'
  streams,      \* MuxBroker.streams
  ch,           \* muxBrokerPending.ch, a channel of capacity one
  doneCh,       \* the entries whose doneCh is closed
  panicked,     \* a goroutine closed a closed channel
  accept,       \* Accept's program counter
  acceptId,     \* its argument
  acceptEntry,  \* its local `p'
  conn,         \* its local `c'
  reaper,       \* program counter of the timeoutWait spawned for a stream
  reaperEntry   \* its argument p

dialVars   == <<dial, dialId, wire>>
runVars    == <<run, runStream, runEntry, backlog>>
acceptVars == <<accept, acceptId, acceptEntry, conn>>
reaperVars == <<reaper, reaperEntry>>
vars == <<session, dial, dialId, wire, ack, closed, backlog, run, runStream,
          runEntry, streams, ch, doneCh, panicked, accept, acceptId,
          acceptEntry, conn, reaper, reaperEntry>>

Init ==
  /\ session = TRUE
  /\ dial = [s \in Dials |-> "idle"]
  /\ dialId = [s \in Dials |-> None]
  /\ wire = [s \in Dials |-> None]
  /\ ack = [s \in Dials |-> None]
  /\ closed = {}
  /\ backlog = <<>>
  /\ run = "accept"
  /\ runStream = None
  /\ runEntry = None
  /\ streams = [id \in Ids |-> None]
  /\ ch = [e \in Entries |-> None]
  /\ doneCh = {}
  /\ panicked = FALSE
  /\ accept = [a \in Accepts |-> "idle"]
  /\ acceptId = [a \in Accepts |-> None]
  /\ acceptEntry = [a \in Accepts |-> None]
  /\ conn = [a \in Accepts |-> None]
  /\ reaper = [s \in Dials |-> "none"]
  /\ reaperEntry = [s \in Dials |-> None]

-----------------------------------------------------------------------------
(* How callers choose ids.  NextId hands out ids that are fresh until the  *)
(* counter wraps, so an id is dialled once and accepted once: "unique".    *)
(* Accept's documentation only asks that an id has no two calls of Accept  *)
(* at one time: "sequential" allows a later call of Accept or Dial once    *)
(* the earlier one has returned, "duplicate" any number of Dials.          *)

DialReturned(s)   == dial[s] \in {"ok", "error"}
AcceptReturned(a) == accept[a] \in {"ok", "error", "timeout"}

MayDial(id) ==
  \A s \in Dials :
    dialId[s] = id =>
      Policy # "unique" /\ (Policy = "sequential" => DialReturned(s))

MayAccept(id) ==
  \A a \in Accepts :
    acceptId[a] = id => Policy # "unique" /\ AcceptReturned(a)

-----------------------------------------------------------------------------
(* Dial, at the peer. *)

DialOpen(s, id) ==
  /\ dial[s] = "idle"
  /\ session
  /\ MayDial(id)
  /\ dial' = [dial EXCEPT ![s] = "open"]
  /\ dialId' = [dialId EXCEPT ![s] = id]
  /\ backlog' = Append(backlog, s)
  /\ UNCHANGED <<session, wire, ack, closed, run, runStream, runEntry, streams,
                 ch, doneCh, panicked, acceptVars, reaperVars>>

\* OpenStream or the write of the id fails: the session is closed.
DialFails(s) ==
  /\ dial[s] \in {"idle", "open"}
  /\ ~session
  /\ dial' = [dial EXCEPT ![s] = "error"]
  /\ UNCHANGED <<session, dialId, wire, ack, closed, runVars, streams, ch,
                 doneCh, panicked, acceptVars, reaperVars>>

DialWrite(s) ==
  /\ dial[s] = "open"
  /\ session
  /\ wire' = [wire EXCEPT ![s] = dialId[s]]
  /\ dial' = [dial EXCEPT ![s] = "read"]
  /\ UNCHANGED <<session, dialId, ack, closed, runVars, streams, ch, doneCh,
                 panicked, acceptVars, reaperVars>>

\* An ack that was sent is read even when the stream was closed after it.
DialReadAck(s) ==
  /\ dial[s] = "read"
  /\ ack[s] # None
  /\ dial' = [dial EXCEPT ![s] = IF ack[s] = dialId[s] THEN "ok" ELSE "error"]
  /\ UNCHANGED <<session, dialId, wire, ack, closed, runVars, streams, ch,
                 doneCh, panicked, acceptVars, reaperVars>>

\* EOF, or a session closed with the ack lost.
DialReadError(s) ==
  /\ dial[s] = "read"
  /\ (session => s \in closed /\ ack[s] = None)
  /\ dial' = [dial EXCEPT ![s] = "error"]
  /\ UNCHANGED <<session, dialId, wire, ack, closed, runVars, streams, ch,
                 doneCh, panicked, acceptVars, reaperVars>>

-----------------------------------------------------------------------------
(* getStream(id), under the mutex: the entry of id, allocated if missing;  *)
(* `fresh' is the name of an entry that does not exist yet.                *)

EntryOfFresh(id, fresh) == fresh
EntryOf(id, fresh) == IF streams[id] = None THEN fresh ELSE streams[id]

GetStream(id, fresh) ==
  streams' = [streams EXCEPT ![id] = EntryOf(id, fresh)]

-----------------------------------------------------------------------------
(* The Run loop. *)

RunAccept ==
  /\ run = "accept"
  /\ backlog # <<>>
  /\ runStream' = Head(backlog)
  /\ backlog' = Tail(backlog)
  /\ run' = "read"
  /\ UNCHANGED <<session, dialVars, ack, closed, runEntry, streams, ch, doneCh,
                 panicked, acceptVars, reaperVars>>

RunExit ==
  /\ run = "accept"
  /\ ~session
  /\ run' = "exited"
  /\ UNCHANGED <<session, dialVars, ack, closed, backlog, runStream, runEntry,
                 streams, ch, doneCh, panicked, acceptVars, reaperVars>>

\* Run blocks here until the dialler has written its id.
RunRead ==
  /\ run = "read"
  /\ wire[runStream] # None
  /\ GetStream(wire[runStream], runStream)
  /\ runEntry' = EntryOf(wire[runStream], runStream)
  /\ run' = "select"
  /\ UNCHANGED <<session, dialVars, ack, closed, backlog, runStream, ch,
                 doneCh, panicked, acceptVars, reaperVars>>

RunReadError ==
  /\ run = "read"
  /\ ~session
  /\ closed' = closed \cup {runStream}
  /\ run' = "accept"
  /\ runStream' = None
  /\ UNCHANGED <<session, dialVars, ack, backlog, runEntry, streams, ch,
                 doneCh, panicked, acceptVars, reaperVars>>

RunNext == run' = "accept" /\ runStream' = None /\ runEntry' = None

\* Mutant: no timeoutWait is started for the queued stream.
RunQueueNoReaper ==
  /\ run = "select"
  /\ ch[runEntry] = None
  /\ ch' = [ch EXCEPT ![runEntry] = runStream]
  /\ RunNext
  /\ UNCHANGED <<session, dialVars, ack, closed, backlog, streams, doneCh,
                 panicked, acceptVars, reaperVars>>

\* p.ch <- stream and `go m.timeoutWait(id, p)'.  A goroutine that has been
\* started and not scheduled is one that waits, so the two are one step.
RunQueue ==
  /\ run = "select"
  /\ ch[runEntry] = None
  /\ ch' = [ch EXCEPT ![runEntry] = runStream]
  /\ reaper' = [reaper EXCEPT ![runStream] = "wait"]
  /\ reaperEntry' = [reaperEntry EXCEPT ![runStream] = runEntry]
  /\ RunNext
  /\ UNCHANGED <<session, dialVars, ack, closed, backlog, streams, doneCh,
                 panicked, acceptVars>>

\* The default branch of the select: the slot is full, drop the stream.
RunDuplicate ==
  /\ run = "select"
  /\ ch[runEntry] # None
  /\ closed' = closed \cup {runStream}
  /\ RunNext
  /\ UNCHANGED <<session, dialVars, ack, backlog, streams, ch, doneCh,
                 panicked, acceptVars, reaperVars>>

-----------------------------------------------------------------------------
(* Accept. *)

AcceptCall(a, id) ==
  /\ accept[a] = "idle"
  /\ MayAccept(id)
  /\ GetStream(id, a)
  /\ acceptEntry' = [acceptEntry EXCEPT ![a] = EntryOf(id, a)]
  /\ acceptId' = [acceptId EXCEPT ![a] = id]
  /\ accept' = [accept EXCEPT ![a] = "select"]
  /\ UNCHANGED <<session, dialVars, ack, closed, runVars, ch, doneCh, panicked,
                 conn, reaperVars>>

\* Mutant: the stream is looked at and stays in the channel.
AcceptPeek(a) ==
  /\ accept[a] = "select"
  /\ ch[acceptEntry[a]] # None
  /\ conn' = [conn EXCEPT ![a] = ch[acceptEntry[a]]]
  /\ accept' = [accept EXCEPT ![a] = "close"]
  /\ UNCHANGED <<session, dialVars, ack, closed, runVars, streams, ch, doneCh,
                 panicked, acceptId, acceptEntry, reaperVars>>

AcceptReceive(a) ==
  /\ accept[a] = "select"
  /\ ch[acceptEntry[a]] # None
  /\ conn' = [conn EXCEPT ![a] = ch[acceptEntry[a]]]
  /\ ch' = [ch EXCEPT ![acceptEntry[a]] = None]
  /\ accept' = [accept EXCEPT ![a] = "close"]
  /\ UNCHANGED <<session, dialVars, ack, closed, runVars, streams, doneCh,
                 panicked, acceptId, acceptEntry, reaperVars>>

\* Closing a closed channel panics.
AcceptCloseDone(a) ==
  /\ accept[a] = "close"
  /\ panicked' = (acceptEntry[a] \in doneCh)
  /\ doneCh' = doneCh \cup {acceptEntry[a]}
  /\ accept' = [accept EXCEPT ![a] = "ack"]
  /\ UNCHANGED <<session, dialVars, ack, closed, runVars, streams, ch,
                 acceptId, acceptEntry, conn, reaperVars>>

\* The write of the ack; it is kept or lost when the session is closed.
AcceptAck(a) ==
  /\ accept[a] = "ack"
  /\ session
  /\ ack' = [ack EXCEPT ![conn[a]] = acceptId[a]]
  /\ accept' = [accept EXCEPT ![a] = "ok"]
  /\ UNCHANGED <<session, dialVars, closed, runVars, streams, ch, doneCh,
                 panicked, acceptId, acceptEntry, conn, reaperVars>>

AcceptAckError(a) ==
  /\ accept[a] = "ack"
  /\ ~session
  /\ closed' = closed \cup {conn[a]}
  /\ accept' = [accept EXCEPT ![a] = "error"]
  /\ UNCHANGED <<session, dialVars, ack, runVars, streams, ch, doneCh,
                 panicked, acceptId, acceptEntry, conn, reaperVars>>

\* time.After fires; the mutex is taken in a step of its own.
AcceptExpire(a) ==
  /\ accept[a] = "select"
  /\ accept' = [accept EXCEPT ![a] = "expired"]
  /\ UNCHANGED <<session, dialVars, ack, closed, runVars, streams, ch, doneCh,
                 panicked, acceptId, acceptEntry, conn, reaperVars>>

\* delete(m.streams, id) removes whatever entry the map holds for id.
AcceptTimeout(a) ==
  /\ accept[a] = "expired"
  /\ streams' = [streams EXCEPT ![acceptId[a]] = None]
  /\ accept' = [accept EXCEPT ![a] = "timeout"]
  /\ UNCHANGED <<session, dialVars, ack, closed, runVars, ch, doneCh, panicked,
                 acceptId, acceptEntry, conn, reaperVars>>

-----------------------------------------------------------------------------
(* timeoutWait(id, p), one goroutine for every stream that Run queued. *)

ReaperDone(s) ==
  /\ reaper[s] = "wait"
  /\ reaperEntry[s] \in doneCh
  /\ reaper' = [reaper EXCEPT ![s] = "done"]
  /\ UNCHANGED <<session, dialVars, ack, closed, runVars, streams, ch, doneCh,
                 panicked, acceptVars, reaperEntry>>

ReaperExpire(s) ==
  /\ reaper[s] = "wait"
  /\ reaper' = [reaper EXCEPT ![s] = "expired"]
  /\ UNCHANGED <<session, dialVars, ack, closed, runVars, streams, ch, doneCh,
                 panicked, acceptVars, reaperEntry>>

\* Under the mutex: delete by id and, after a timeout, close what is queued.
ReapedIn(e) == IF ch[e] = None THEN {} ELSE {ch[e]}

\* Mutant: doneCh is closed to tell others that the entry is gone.
ReapClosesDone(s) ==
  /\ reaper[s] \in {"done", "expired"}
  /\ streams' = [streams EXCEPT ![wire[s]] = None]
  /\ panicked' = (reaperEntry[s] \in doneCh)
  /\ doneCh' = doneCh \cup {reaperEntry[s]}
  /\ reaper' = [reaper EXCEPT ![s] = "gone"]
  /\ UNCHANGED <<session, dialVars, ack, closed, ch, runVars,
                 acceptVars, reaperEntry>>

\* Mutant: the queued stream is left in the channel.
ReapNoDrain(s) ==
  /\ reaper[s] \in {"done", "expired"}
  /\ streams' = [streams EXCEPT ![wire[s]] = None]
  /\ reaper' = [reaper EXCEPT ![s] = "gone"]
  /\ UNCHANGED <<session, dialVars, ack, closed, ch, runVars, doneCh, panicked,
                 acceptVars, reaperEntry>>

Reap(s) ==
  /\ reaper[s] \in {"done", "expired"}
  /\ streams' = [streams EXCEPT ![wire[s]] = None]
  /\ LET e == reaperEntry[s]
         reaped == IF reaper[s] = "expired" THEN ReapedIn(e) ELSE {}
     IN  /\ closed' = closed \cup reaped
         /\ ch' = [ch EXCEPT ![e] = IF @ \in reaped THEN None ELSE @]
  /\ reaper' = [reaper EXCEPT ![s] = "gone"]
  /\ UNCHANGED <<session, dialVars, ack, runVars, doneCh, panicked,
                 acceptVars, reaperEntry>>

-----------------------------------------------------------------------------
(* Close, by either end. *)

Close ==
  /\ session
  /\ session' = FALSE
  /\ UNCHANGED <<dialVars, ack, closed, runVars, streams, ch, doneCh, panicked,
                 acceptVars, reaperVars>>

-----------------------------------------------------------------------------
DialStep(s) == DialFails(s) \/ DialWrite(s) \/ DialReadAck(s)
               \/ DialReadError(s)
RunStep == RunAccept \/ RunExit \/ RunRead \/ RunReadError \/ RunQueue
           \/ RunDuplicate
AcceptStep(a) == AcceptReceive(a) \/ AcceptCloseDone(a) \/ AcceptAck(a)
                 \/ AcceptAckError(a) \/ AcceptTimeout(a)
ReaperStep(s) == ReaperDone(s) \/ Reap(s)
DialOpens   == \E s \in Dials, id \in Ids : DialOpen(s, id)
AcceptCalls == \E a \in Accepts, id \in Ids : AcceptCall(a, id)
Timer == (\E a \in Accepts : AcceptExpire(a))
         \/ (\E s \in Dials : ReaperExpire(s))

\* A panic ends the process, and with it every step.
Next ==
  /\ ~panicked
  /\ \/ DialOpens
     \/ AcceptCalls
     \/ \E s \in Dials : DialStep(s)
     \/ RunStep
     \/ \E a \in Accepts : AcceptStep(a)
     \/ \E s \in Dials : ReaperStep(s)
     \/ Timer
     \/ Close

Spec == Init /\ [][Next]_vars

\* Go schedules every goroutine that can run, the mutex is held for a bounded
\* time and the peer's Dial writes its id: weak fairness of every call.
Progress ==
  /\ \A s \in Dials : WF_vars(~panicked /\ DialStep(s))
  /\ WF_vars(~panicked /\ RunStep)
  /\ \A a \in Accepts : WF_vars(~panicked /\ AcceptStep(a))
  /\ \A s \in Dials : WF_vars(~panicked /\ ReaperStep(s))

\* A timer that stays armed fires.
TimersFire ==
  /\ \A a \in Accepts : WF_vars(~panicked /\ AcceptExpire(a))
  /\ \A s \in Dials : WF_vars(~panicked /\ ReaperExpire(s))

FairSpec == Spec /\ Progress /\ TimersFire

-----------------------------------------------------------------------------
(* Properties. *)

\* Type invariant: every call's program counter and locals, the map and the
\* channels hold values the Go types and the control flow allow.
TypeOK ==
  /\ session \in BOOLEAN /\ panicked \in BOOLEAN
  /\ dial \in [Dials -> {"idle", "open", "read", "ok", "error"}]
  /\ dialId \in [Dials -> Ids \cup {None}]
  /\ wire \in [Dials -> Ids \cup {None}]
  /\ ack \in [Dials -> Ids \cup {None}]
  /\ closed \in SUBSET Dials
  /\ backlog \in Seq(Dials)
  /\ run \in {"accept", "read", "select", "exited"}
  /\ runStream \in Dials \cup {None}
  /\ runEntry \in Entries \cup {None}
  /\ run \in {"read", "select"} => runStream \in Dials
  /\ run = "select" => runEntry \in Entries /\ wire[runStream] \in Ids
  /\ streams \in [Ids -> Entries \cup {None}]
  /\ ch \in [Entries -> Dials \cup {None}]
  /\ doneCh \in SUBSET Entries
  /\ accept \in [Accepts -> {"idle", "select", "close", "ack", "expired",
                             "ok", "error", "timeout"}]
  /\ acceptId \in [Accepts -> Ids \cup {None}]
  /\ acceptEntry \in [Accepts -> Entries \cup {None}]
  /\ conn \in [Accepts -> Dials \cup {None}]
  /\ \A a \in Accepts :
       /\ accept[a] # "idle" =>
            acceptId[a] \in Ids /\ acceptEntry[a] \in Entries
       /\ accept[a] \in {"close", "ack", "ok", "error"} => conn[a] \in Dials
  /\ reaper \in [Dials -> {"none", "wait", "done", "expired", "gone"}]
  /\ reaperEntry \in [Dials -> Entries \cup {None}]
  /\ \A s \in Dials :
       /\ dial[s] = "open" => dialId[s] \in Ids
       /\ reaper[s] # "none" => reaperEntry[s] \in Entries /\ wire[s] \in Ids

InBacklog(s) == \E i \in 1..Len(backlog) : backlog[i] = s

\* A stream has one owner at a time, under any reuse of ids: it waits in the
\* session's backlog, Run holds it, one entry's channel holds it or one Accept
\* does; one that was closed (by Run, a timeoutWait or a failed Accept) is
\* held by nobody else.
SoleOwner ==
  /\ \A i, j \in 1..Len(backlog) : backlog[i] = backlog[j] => i = j
  /\ \A i \in 1..Len(backlog) : backlog[i] # runStream
  /\ \A e \in Entries :
       ch[e] # None =>
         /\ ch[e] # runStream
         /\ ~InBacklog(ch[e])
         /\ \A f \in Entries : ch[f] = ch[e] => f = e
  /\ \A a \in Accepts :
       conn[a] # None =>
         /\ conn[a] # runStream
         /\ ~InBacklog(conn[a])
         /\ \A e \in Entries : ch[e] # conn[a]
         /\ \A b \in Accepts : conn[b] = conn[a] => b = a
  /\ \A s \in closed :
       /\ s # runStream /\ ~InBacklog(s)
       /\ \A e \in Entries : ch[e] # s
       /\ \A a \in Accepts : conn[a] = s => accept[a] = "error"

\* A Dial that returns a connection and the Accept that returns its other end
\* agree: exactly one Accept holds the stream, and it asked for the same id
\* (Dial's ack check, Accept's write of the ack).  Holds under id reuse too.
Paired ==
  \A s \in Dials :
    dial[s] = "ok" =>
      \E a \in Accepts :
        /\ accept[a] = "ok" /\ conn[a] = s /\ acceptId[a] = dialId[s]
        /\ \A b \in Accepts : conn[b] = s => b = a

\* Accept never closes a doneCh that is closed already (the run-time panic of
\* close(p.doneCh) in Accept).
NoDoubleClose == ~panicked

\* A stream waiting in a pending entry has somebody who will take it out: a
\* timeoutWait on that entry that can still only leave by closing it, or by
\* seeing a doneCh that no Accept has closed yet.
QueuedIsReaped ==
  \A e \in Entries :
    ch[e] # None =>
      /\ e \notin doneCh
      /\ reaper[ch[e]] \in {"wait", "expired"}
      /\ reaperEntry[ch[e]] = e

\* An Accept that waits for an id whose stream Run has yet to deliver waits on
\* the entry to which Run will deliver it: no deletion by id, of an Accept
\* that timed out or of a timeoutWait, has cut it off.
AcceptIsReachable ==
  \A a \in Accepts, s \in Dials :
    accept[a] = "select" /\ dialId[s] = acceptId[a] =>
      /\ InBacklog(s) \/ (run = "read" /\ runStream = s) =>
           streams[acceptId[a]] = acceptEntry[a]
      /\ run = "select" /\ runStream = s => runEntry = acceptEntry[a]

\* The connections the broker has made: an Accept with the stream it received,
\* and the Dials that returned theirs.
joined == {<<conn[a], a>> : a \in {b \in Accepts : conn[b] # None}}
connected == {s \in Dials : dial[s] = "ok"}
R == INSTANCE Rendezvous WITH dialled <- dialId, accepted <- acceptId

\* The broker implements a rendezvous by id, under any reuse of ids: what an
\* Accept receives is a stream of its own id, no stream reaches two Accepts, an
\* Accept keeps the stream it has, and a Dial succeeds only on a stream that an
\* Accept has (Run routes by the id read, p.ch hands a stream over once, Dial
\* compares the ack).
ImplementsRendezvous == R!Spec

\* Every Dial returns: its stream is acknowledged, or closed by the Run loop, a
\* timeoutWait or the session, since Dial reads the ack without a deadline.
DialReturns ==
  \A s \in Dials : dial[s] = "read" ~> (DialReturned(s) \/ panicked)

\* Who waits: Run for a stream or its id, a Dial for its ack, an Accept for a
\* stream, a timeoutWait for its timer.
RunWaits ==
  /\ run = "accept" => session /\ backlog = <<>>
  /\ run = "read" => session /\ wire[runStream] = None
  /\ run # "select"
DialWaits(s) ==
  /\ dial[s] # "open" /\ (dial[s] = "idle" => session)
  /\ dial[s] = "read" => session /\ ack[s] = None /\ s \notin closed
AcceptWaits(a) ==
  /\ accept[a] \notin {"close", "ack", "expired"}
  /\ accept[a] = "select" => ch[acceptEntry[a]] = None
ReaperWaits(s) ==
  /\ reaper[s] \notin {"done", "expired"}
  /\ reaper[s] = "wait" => reaperEntry[s] \notin doneCh

\* Nothing can move but timers, new calls and Close.
OnlyTimersLeft ==
  ~panicked => /\ RunWaits /\ \A s \in Dials : DialWaits(s) /\ ReaperWaits(s)
               /\ \A a \in Accepts : AcceptWaits(a)

\* A Dial and an Accept of one id connect to each other before any timer has to
\* fire, unless the Accept has timed out, the stream was reaped after a timeout
\* or the session is closed: no interleaving of Run, getStream and the reapers
\* parts them.
Meet ==
  session /\ OnlyTimersLeft =>
    \A s \in Dials, a \in Accepts :
      dialId[s] # None /\ dialId[s] = acceptId[a] =>
        \/ dial[s] = "ok" /\ accept[a] = "ok" /\ conn[a] = s
        \/ accept[a] = "timeout" \/ s \in closed
-----------------------------------------------------------------------------
(* The inductive invariants behind the properties. *)

\* The id an entry was allocated for.
IdOf(e) == IF e \in Accepts THEN acceptId[e] ELSE wire[e]

\* What each stream, entry and call was given: an entry is only reached by the
\* id it was allocated for, and a stream only by the id written on it.
IdInv ==
  /\ \A s \in Dials :
       /\ dial[s] = "idle" => dialId[s] = None
       /\ wire[s] # None => wire[s] = dialId[s]
       /\ dial[s] \in {"read", "ok"} => wire[s] # None
       /\ InBacklog(s) \/ s \in closed => dialId[s] # None
       /\ reaper[s] # "none" =>
            wire[s] # None /\ IdOf(reaperEntry[s]) = wire[s]
       /\ reaper[s] = "done" => reaperEntry[s] \in doneCh
       /\ reaper[s] # "none" => s # runStream /\ ~InBacklog(s)
  /\ run \in {"accept", "exited"} <=> runStream = None
  /\ runStream # None => dialId[runStream] # None
  /\ run = "select" =>
       wire[runStream] # None /\ IdOf(runEntry) = wire[runStream]
  /\ \A id \in Ids : streams[id] # None => IdOf(streams[id]) = id
  /\ \A e \in Entries :
       ch[e] # None => reaper[ch[e]] # "none" /\ reaperEntry[ch[e]] = e
  /\ \A a \in Accepts :
       /\ accept[a] = "idle" <=> acceptId[a] = None
       /\ accept[a] # "idle" => IdOf(acceptEntry[a]) = acceptId[a]
       /\ conn[a] # None <=> accept[a] \in {"close", "ack", "ok", "error"}
       /\ conn[a] # None =>
            reaper[conn[a]] # "none" /\ wire[conn[a]] = acceptId[a]

\* An ack was written by the Accept that holds the stream.
AckInv ==
  /\ \A s \in Dials :
       /\ ack[s] # None =>
            \E a \in Accepts :
              accept[a] = "ok" /\ conn[a] = s /\ acceptId[a] = ack[s]
       /\ dial[s] = "ok" => ack[s] = dialId[s]

\* With unique ids an entry serves one stream and one Accept: each id is
\* used by one call of each kind, a doneCh was closed by an Accept of that
\* entry, a waiting Accept's entry stays in the map until its stream is queued,
\* and Run's entry is the one in the map until an Accept has come.
IdsAreUnique ==
  /\ \A s, t \in Dials : dialId[s] = dialId[t] /\ dialId[s] # None => s = t
  /\ \A a, b \in Accepts :
       acceptId[a] = acceptId[b] /\ acceptId[a] # None => a = b
DoneByAccept ==
  \A e \in doneCh :
    \E a \in Accepts :
      acceptEntry[a] = e /\ accept[a] \in {"ack", "ok", "error"}
AcceptInMap ==
  \A a \in Accepts :
    accept[a] = "select" =>
      \/ streams[acceptId[a]] = acceptEntry[a]
      \/ \E s \in Dials : reaper[s] # "none" /\ wire[s] = acceptId[a]
RunEntryInMap ==
  run = "select" =>
    \/ \E a \in Accepts : acceptId[a] = wire[runStream]
    \/ streams[wire[runStream]] = runEntry
UniqueInv ==
  /\ IdsAreUnique /\ DoneByAccept /\ AcceptInMap /\ RunEntryInMap
  /\ NoDoubleClose /\ QueuedIsReaped /\ AcceptIsReachable
=============================================================================
