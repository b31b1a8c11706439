--------------------------- MODULE GRPCMuxProofs ---------------------------
(***************************************************************************)
(* GRPCMux, for any sets of Dials, Accepts and ids, any faults and either  *)
(* accepting end: type correctness; when the plugin accepts, that a stream *)
(* reaches only a listener of the id that was knocked for; and that no     *)
(* pending entry outlives its knock.  The rest is what GRPCMuxWaits needs  *)
(* of the Dials, the listeners and the messages between them.              *)
(***************************************************************************)
EXTENDS GRPCMux, TLAPS

(* The steps by what they leave alone.                                     *)

DialEndStep(d) ==
  \/ DialWait(d) \/ DialAck(d) \/ DialExpire(d) \/ DialTimeout(d)
  \/ DialOpen(d) \/ Reap(d)

AcceptEndStep(a) ==
  \/ AcceptRegister(a) \/ ListenerClose(a) \/ ListenStep(a)

LoopStep ==
  \/ \E a \in Accepts : ServeStep(a)
  \/ MainAccept \/ MainRoute

\* Every step is one of these.
LEMMA StepCases ==
  ASSUME [Next]_vars
  PROVE  \/ \E d \in Dials, id \in Ids : DialKnock(d, id)
         \/ \E a \in Accepts, id \in Ids : AcceptCall(a, id)
         \/ \E d \in Dials : DialEndStep(d)
         \/ \E a \in Accepts : AcceptEndStep(a)
         \/ RunStep \/ LoopStep \/ UNCHANGED vars
BY Zenon DEF Next, Work, DialStep, Timer, DialEndStep, AcceptEndStep, LoopStep

\* What a knock leaves alone.
LEMMA KnockFrame ==
  ASSUME NEW d \in Dials, NEW id \in Ids, DialKnock(d, id)
  PROVE  UNCHANGED <<side, fault, acks, dialEntry, pendVars, accVars,
                     knockVars, lfkVars, listeners, serve, hostVars, mainVars,
                     connVars>>
BY Zenon DEF DialKnock

\* What the rest of the dialling end leaves alone.
LEMMA DialFrame ==
  ASSUME NEW d \in Dials, DialEndStep(d)
  PROVE  UNCHANGED <<side, fault, wires, dialId, ackRun, accVars, knockVars,
                     lfkVars, listeners, serve, hostVars, mainVars, conn,
                     astray>>
BY Zenon DEF DialEndStep, DialWait, DialAck, DialExpire, DialTimeout, DialOpen,
     Reap, dialVars, pendVars, connVars

\* What Run leaves alone, at either end.
LEMMA RunFrame ==
  ASSUME RunStep
  PROVE  UNCHANGED <<side, fault, dialVars, accVars, serverDone, lfkVars,
                     listeners, serve, hostVars, mainVars, connVars>>
BY Zenon DEF RunStep, RunAck, RunAckQueue, RunKnock, RunKnockQueue, knockVars

\* What a call of Accept leaves alone.
LEMMA CallFrame ==
  ASSUME NEW a \in Accepts, NEW id \in Ids, AcceptCall(a, id)
  PROVE  UNCHANGED <<side, fault, wires, dialVars, pendVars, serverCh,
                     serverDone, knockRun, listenEntry, listenMsg, ackOK,
                     listeners, serve, hostVars, mainVars, connVars>>
BY Zenon DEF AcceptCall

\* What the rest of the accepting end leaves alone.
LEMMA AcceptFrame ==
  ASSUME NEW a \in Accepts, AcceptEndStep(a)
  PROVE  UNCHANGED <<side, fault, knocks, dialVars, pendVars, acceptId,
                     acceptEntry, knockRun, serve, main, mainConn, mainTo,
                     connVars>>
BY Zenon DEF AcceptEndStep, AcceptRegister, ListenerClose, ListenStep,
     ListenStart, ListenKnock, ListenDone, AcceptKnockHost, AcceptKnockUnblock,
     AcceptKnockPlugin, ListenAck, wires, accVars, knockVars, mainVars

\* What the accept loops leave alone.
LEMMA LoopFrame ==
  ASSUME LoopStep
  PROVE  UNCHANGED <<side, fault, wires, dialVars, pendVars, accVars,
                     knockVars, lfkVars, listeners>>
BY Zenon DEF LoopStep, ServeStep, Serve, ServeEOF, HostUnblocked, HostAccept,
     MainHandoff, MainAccept, MainRoute

-----------------------------------------------------------------------------
(* Types.  They are inductive with what links the program counters to the  *)
(* locals: TypeOK alone does not say that an id is known when it is used.  *)

Known == {d \in Dials : dialId[d] # None}

DialsOK ==
  /\ dialMutex \in Dials \cup {None}
  /\ dial \in [Dials -> {"idle", "knocked", "ack", "expired", "open", "ok",
                        "error"}]
  /\ dialId \in [Dials -> Ids \cup {None}]
  /\ dialEntry \in [Dials -> ClientEntries \cup {<<>>}]
  /\ reaper \in [Dials -> {"none", "wait", "gone"}]
  /\ \A d \in Dials : /\ dial[d] = "idle" <=> dialId[d] = None
                      /\ dialEntry[d] # <<>> => dialId[d] # None
                      /\ dial[d] = "ack" => dialEntry[d] # <<>>

PendingOK ==
  /\ clientStreams \in [Ids -> ClientEntries \cup {<<>>}]
  /\ clientCh \in [ClientEntries -> Known \cup {None}]
  /\ ackRun \in (Known \X ClientEntries) \cup {<<>>}

AcceptsOK ==
  /\ accept \in [Accepts -> {"idle", "register", "open", "closed"}]
  /\ acceptId \in [Accepts -> Ids \cup {None}]
  /\ acceptEntry \in [Accepts -> ServerEntries \cup {<<>>}]
  /\ \A a \in Accepts : /\ accept[a] = "idle" <=> acceptId[a] = None
                        /\ acceptEntry[a] = <<>> <=> acceptId[a] = None

KnocksOK ==
  /\ serverStreams \in [Ids -> ServerEntries \cup {<<>>}]
  /\ serverCh \in [ServerEntries -> Known \cup {None}]
  /\ serverDone \subseteq ServerEntries
  /\ knockRun \in (Known \X ServerEntries) \cup {<<>>}

ListensOK ==
  /\ listen \in [Accepts -> {"none", "start", "select", "knock", "unblock",
                            "ack", "gone"}]
  /\ listenEntry \in [Accepts -> ServerEntries \cup {<<>>}]
  /\ listenMsg \in [Accepts -> Known \cup {None}]
  /\ ackOK \subseteq Dials
  /\ listeners \in [Ids -> Accepts \cup {None}]
  /\ \A a \in Accepts :
       /\ listen[a] = "none" <=> acceptId[a] = None
       /\ listenEntry[a] = <<>> <=> listen[a] \in {"none", "start"}
       /\ listenMsg[a] # None <=> listen[a] \in {"knock", "unblock", "ack"}
       /\ listen[a] = "unblock" => listeners[acceptId[a]] # None

LoopsOK ==
  /\ side \in Sides /\ fault \in Faults
  /\ serve \in [Accepts -> {"none", "accept", "session", "eof"}]
  /\ waitCh \subseteq Accepts /\ knockCh \in Ids \cup {None}
  /\ main \in {"accept", "route", "handoff", "failed"}
  /\ mainConn \in Known \cup {None} /\ mainTo \in Accepts \cup {None}
  /\ conn \in [Dials -> Accepts \cup {None}] /\ astray \subseteq Dials
  /\ mainConn = None <=> main \in {"accept", "failed"}
  /\ mainTo = None <=> main # "handoff"

WiresOK == knocks \in Seq(Known) /\ acks \in Seq(Known) /\ backlog \in Seq(Known)

StateOK == /\ DialsOK /\ PendingOK /\ AcceptsOK /\ KnocksOK /\ ListensOK
           /\ LoopsOK /\ WiresOK

\* None is neither a call nor an id.
LEMMA NoneIsNothing == None \notin Dials /\ None \notin Accepts /\ None \notin Ids
BY NumbersAssumption, NoneAssumption, Zenon

\* The names of the entries.
LEMMA EntryNames ==
  /\ <<>> \notin ClientEntries /\ <<>> \notin ServerEntries
  /\ \A d \in Dials : /\ <<"knock", d>> \in ClientEntries
                      /\ <<"ack", d>> \in ClientEntries
                      /\ <<"run", d>> \in ServerEntries
  /\ \A a \in Accepts : /\ <<"accept", a>> \in ServerEntries
                        /\ <<"listen", a>> \in ServerEntries
BY SMT, Z3, SMTT(20) DEF ClientEntries, ServerEntries

\* getClientStream and getServerStream return an entry.
LEMMA EntryType ==
  ASSUME NEW S, NEW streams \in [Ids -> S \cup {<<>>}], NEW id \in Ids,
         NEW fresh \in S
  PROVE  EntryOf(streams, id, fresh) \in S
BY Zenon DEF EntryOf

\* An id, once given to a Dial, stays.
LEMMA KnownGrows ==
  ASSUME DialsOK, [Next]_vars
  PROVE  /\ Known \subseteq Known'
         /\ \A d \in Known : dialId'[d] = dialId[d]
<1> USE DEF dialVars
<1>1. ASSUME NEW d \in Dials, NEW id \in Ids, DialKnock(d, id)
      PROVE  \A x \in Known : dialId'[x] = dialId[x]
  BY <1>1, Zenon DEF DialKnock, DialsOK, Known
<1>2. CASE dialId' = dialId
  BY <1>2, Zenon DEF Known
<1>3. ASSUME NEW d \in Dials, DialEndStep(d) PROVE dialId' = dialId
  BY <1>3, DialFrame, Zenon
<1>4. ASSUME NEW a \in Accepts, AcceptEndStep(a) PROVE dialId' = dialId
  BY <1>4, AcceptFrame, Zenon
<1>5. ASSUME NEW a \in Accepts, NEW id \in Ids, AcceptCall(a, id)
      PROVE  dialId' = dialId
  BY <1>5, CallFrame, Zenon
<1>6. RunStep \/ LoopStep \/ UNCHANGED vars => dialId' = dialId
  BY RunFrame, LoopFrame, Zenon DEF vars
<1>7. \A x \in Known : dialId'[x] = dialId[x]
  BY <1>1, <1>2, <1>3, <1>4, <1>5, <1>6, StepCases, Zenon
<1> QED
  BY <1>7, Zenon DEF Known

\* Sequences of Dials with an id stay that when more get one.
LEMMA SeqGrows ==
  ASSUME NEW S, NEW T, S \subseteq T, NEW s \in Seq(S)
  PROVE  s \in Seq(T)
OBVIOUS

\* The head and the tail of a sequence.
LEMMA SeqParts ==
  ASSUME NEW S, NEW s \in Seq(S), s # <<>>
  PROVE  Head(s) \in S /\ Tail(s) \in Seq(S)
OBVIOUS

\* The dialling calls keep their types.
LEMMA DialTypes ==
  ASSUME StateOK, [Next]_vars
  PROVE  DialsOK'
<1> USE NoneIsNothing, EntryNames DEF dialVars, pendVars
<1>0. DialsOK /\ PendingOK
  BY Zenon DEF StateOK
<1>1. ASSUME NEW d \in Dials, NEW id \in Ids, DialKnock(d, id) PROVE DialsOK'
  BY <1>0, <1>1, Zenon DEF DialKnock, DialsOK
<1>2. ASSUME NEW d \in Dials, DialEndStep(d) PROVE DialsOK'
  <2>1. CASE DialWait(d)
    <3>1. dialId[d] \in Ids
      BY <1>0, <2>1, Zenon DEF DialWait, DialsOK
    <3>2. EntryOf(clientStreams, dialId[d], <<"knock", d>>) \in ClientEntries
      BY <1>0, <3>1, EntryType, Zenon DEF PendingOK
    <3> QED
      BY <1>0, <2>1, <3>1, <3>2, Zenon DEF DialWait, DialsOK
  <2>2. CASE DialAck(d)
    BY <1>0, <2>2, SMT, Z3, SMTT(20) DEF DialAck, DialsOK
  <2>3. CASE DialExpire(d) \/ DialTimeout(d) \/ DialOpen(d)
    BY <1>0, <2>3, SMT, Z3, SMTT(20)
    DEF DialExpire, DialTimeout, DialOpen, DialsOK
  <2>4. CASE Reap(d)
    BY <1>0, <2>4, Zenon DEF Reap, DialsOK
  <2> QED
    BY <1>2, <2>1, <2>2, <2>3, <2>4, Zenon DEF DialEndStep
<1>3. CASE RunStep
  <2>1. reaper' \in [Dials -> {"none", "wait", "gone"}]
    BY <1>0, <1>3, Zenon DEF RunStep, RunAck, RunAckQueue, RunKnock,
         RunKnockQueue, DialsOK
  <2> QED
    BY <1>0, <1>3, <2>1, RunFrame, SMT, Z3, SMTT(20) DEF DialsOK
<1>4. ASSUME NEW a \in Accepts, NEW id \in Ids, AcceptCall(a, id)
      PROVE  DialsOK'
  BY <1>0, <1>4, CallFrame, SMT, Z3, SMTT(20) DEF DialsOK
<1>5. ASSUME NEW a \in Accepts, AcceptEndStep(a) PROVE DialsOK'
  BY <1>0, <1>5, AcceptFrame, SMT, Z3, SMTT(20) DEF DialsOK
<1>6. CASE LoopStep
  BY <1>0, <1>6, LoopFrame, SMT, Z3, SMTT(20) DEF DialsOK
<1>7. CASE UNCHANGED vars
  BY <1>0, <1>7, Zenon DEF DialsOK, vars
<1> QED
  BY <1>1, <1>2, <1>3, <1>4, <1>5, <1>6, <1>7, StepCases, Zenon

\* The pending entries of the dialling end keep their types.
LEMMA PendingTypes ==
  ASSUME StateOK, [Next]_vars
  PROVE  PendingOK'
<1> USE NoneIsNothing, EntryNames DEF dialVars, pendVars
<1>0. /\ DialsOK /\ PendingOK /\ WiresOK /\ Known \subseteq Known'
      /\ Known \subseteq Dials /\ \A d \in Known : dialId[d] \in Ids
  BY KnownGrows, Zenon DEF StateOK, Known, DialsOK
<1>1. CASE UNCHANGED pendVars
  BY <1>0, <1>1, Zenon DEF PendingOK
<1>2. ASSUME NEW d \in Dials, DialEndStep(d) PROVE PendingOK'
  <2>0. Known' = Known
    BY <1>2, DialFrame, Zenon DEF Known
  <2>1. CASE DialWait(d)
    <3>1. dialId[d] \in Ids
      BY <1>0, <2>1, Zenon DEF DialWait, DialsOK
    <3>2. EntryOf(clientStreams, dialId[d], <<"knock", d>>) \in ClientEntries
      BY <1>0, <3>1, EntryType, Zenon DEF PendingOK
    <3> QED
      BY <1>0, <2>0, <2>1, <3>1, <3>2, Zenon DEF DialWait, PendingOK
  <2>2. CASE DialAck(d)
    BY <1>0, <2>0, <2>2, Zenon DEF DialAck, PendingOK
  <2>3. CASE DialTimeout(d) \/ Reap(d)
    BY <1>0, <2>0, <2>3, Zenon DEF DialTimeout, Reap, PendingOK
  <2>4. CASE DialExpire(d) \/ DialOpen(d)
    BY <1>1, <2>4, Zenon DEF DialExpire, DialOpen
  <2> QED
    BY <1>2, <2>1, <2>2, <2>3, <2>4, Zenon DEF DialEndStep
<1>3. CASE RunStep
  <2>0. Known' = Known
    BY <1>3, RunFrame, Zenon DEF Known
  <2>1. CASE RunAck
    <3> DEFINE d == Head(acks)
    <3>1. d \in Known
      BY <1>0, <2>1, SMT, Z3, SMTT(20) DEF RunAck, WiresOK
    <3>2. EntryOf(clientStreams, dialId[d], <<"ack", d>>) \in ClientEntries
      BY <1>0, <3>1, EntryType, Zenon DEF PendingOK
    <3> QED
      BY <1>0, <2>0, <2>1, <3>1, <3>2, Zenon DEF RunAck, PendingOK
  <2>2. CASE RunAckQueue
    BY <1>0, <2>0, <2>2, Zenon DEF RunAckQueue, PendingOK
  <2>3. CASE RunKnock \/ RunKnockQueue
    BY <1>1, <2>3, Zenon DEF RunKnock, RunKnockQueue
  <2> QED
    BY <1>3, <2>1, <2>2, <2>3, Zenon DEF RunStep
<1>4. ASSUME NEW d \in Dials, NEW id \in Ids, DialKnock(d, id)
      PROVE  UNCHANGED pendVars
  BY <1>4, KnockFrame, Zenon
<1>5. ASSUME NEW a \in Accepts, NEW id \in Ids, AcceptCall(a, id)
      PROVE  UNCHANGED pendVars
  BY <1>5, CallFrame, Zenon
<1>6. ASSUME NEW a \in Accepts, AcceptEndStep(a) PROVE UNCHANGED pendVars
  BY <1>6, AcceptFrame, Zenon
<1>7. LoopStep \/ UNCHANGED vars => UNCHANGED pendVars
  BY LoopFrame, Zenon DEF vars
<1> QED
  BY <1>1, <1>2, <1>3, <1>4, <1>5, <1>6, <1>7, StepCases, Zenon

\* The accepting calls keep their types.
LEMMA AcceptTypes ==
  ASSUME StateOK, [Next]_vars
  PROVE  AcceptsOK'
<1> USE NoneIsNothing, EntryNames DEF accVars
<1>0. AcceptsOK /\ KnocksOK
  BY Zenon DEF StateOK
<1>1. CASE UNCHANGED accVars
  BY <1>0, <1>1, Zenon DEF AcceptsOK
<1>2. ASSUME NEW a \in Accepts, NEW id \in Ids, AcceptCall(a, id)
      PROVE  AcceptsOK'
  <2>1. EntryOf(serverStreams, id, <<"accept", a>>) \in ServerEntries
    BY <1>0, EntryType, Zenon DEF KnocksOK
  <2> QED
    BY <1>0, <1>2, <2>1, Zenon DEF AcceptCall, AcceptsOK
<1>3. ASSUME NEW a \in Accepts, AcceptEndStep(a) PROVE AcceptsOK'
  <2>1. CASE AcceptRegister(a) \/ ListenerClose(a)
    BY <1>0, <2>1, Zenon DEF AcceptRegister, ListenerClose, AcceptsOK
  <2>2. CASE ListenStep(a)
    BY <1>1, <2>2, Zenon DEF ListenStep, ListenStart, ListenKnock, ListenDone,
         AcceptKnockHost, AcceptKnockUnblock, AcceptKnockPlugin, ListenAck
  <2> QED
    BY <1>3, <2>1, <2>2, Zenon DEF AcceptEndStep
<1>4. ASSUME NEW d \in Dials, NEW id \in Ids, DialKnock(d, id)
      PROVE  UNCHANGED accVars
  BY <1>4, KnockFrame, Zenon
<1>5. ASSUME NEW d \in Dials, DialEndStep(d) PROVE UNCHANGED accVars
  BY <1>5, DialFrame, Zenon
<1>6. RunStep \/ LoopStep \/ UNCHANGED vars => UNCHANGED accVars
  BY RunFrame, LoopFrame, Zenon DEF vars
<1> QED
  BY <1>1, <1>2, <1>3, <1>4, <1>5, <1>6, StepCases, Zenon

\* The pending entries of the accepting end keep their types.
LEMMA KnockTypes ==
  ASSUME StateOK, [Next]_vars
  PROVE  KnocksOK'
<1> USE NoneIsNothing, EntryNames DEF dialVars, knockVars
<1>0. /\ DialsOK /\ AcceptsOK /\ KnocksOK /\ ListensOK /\ WiresOK
      /\ Known \subseteq Known'
      /\ Known \subseteq Dials /\ \A d \in Known : dialId[d] \in Ids
  BY KnownGrows, Zenon DEF StateOK, Known, DialsOK
<1>1. CASE UNCHANGED knockVars
  BY <1>0, <1>1, Zenon DEF KnocksOK
<1>2. CASE RunStep
  <2>0. Known' = Known
    BY <1>2, RunFrame, Zenon DEF Known
  <2>1. CASE RunKnock
    <3> DEFINE d == Head(knocks)
    <3>1. d \in Known
      BY <1>0, <2>1, SMT, Z3, SMTT(20) DEF RunKnock, WiresOK
    <3>2. EntryOf(serverStreams, dialId[d], <<"run", d>>) \in ServerEntries
      BY <1>0, <3>1, EntryType, Zenon DEF KnocksOK
    <3> QED
      BY <1>0, <2>0, <2>1, <3>1, <3>2, Zenon DEF RunKnock, KnocksOK
  <2>2. CASE RunKnockQueue
    BY <1>0, <2>0, <2>2, Zenon DEF RunKnockQueue, KnocksOK
  <2>3. CASE RunAck \/ RunAckQueue
    BY <1>1, <2>3, Zenon DEF RunAck, RunAckQueue
  <2> QED
    BY <1>2, <2>1, <2>2, <2>3, Zenon DEF RunStep
<1>3. ASSUME NEW a \in Accepts, NEW id \in Ids, AcceptCall(a, id)
      PROVE  KnocksOK'
  <2>1. EntryOf(serverStreams, id, <<"accept", a>>) \in ServerEntries
    BY <1>0, EntryType, Zenon DEF KnocksOK
  <2> QED
    BY <1>0, <1>3, <2>1, Zenon DEF AcceptCall, KnocksOK
<1>4. ASSUME NEW a \in Accepts, AcceptEndStep(a) PROVE KnocksOK'
  <2>0. Known' = Known
    BY <1>4, AcceptFrame, Zenon DEF Known
  <2>1. CASE ListenerClose(a)
    <3>1. acceptEntry[a] \in ServerEntries
      BY <1>0, <2>1, Zenon DEF ListenerClose, AcceptsOK
    <3> QED
      BY <1>0, <2>0, <2>1, <3>1, Zenon DEF ListenerClose, KnocksOK
  <2>2. CASE ListenStart(a)
    <3>1. acceptId[a] \in Ids
      BY <1>0, <2>2, SMT, Z3, SMTT(20) DEF ListenStart, ListensOK, AcceptsOK
    <3>2. EntryOf(serverStreams, acceptId[a], <<"listen", a>>) \in ServerEntries
      BY <1>0, <3>1, EntryType, Zenon DEF KnocksOK
    <3> QED
      BY <1>0, <2>0, <2>2, <3>1, <3>2, Zenon DEF ListenStart, KnocksOK
  <2>3. CASE ListenKnock(a)
    BY <1>0, <2>0, <2>3, Zenon DEF ListenKnock, KnocksOK
  <2>4. CASE \/ AcceptRegister(a) \/ ListenDone(a) \/ AcceptKnockHost(a)
             \/ AcceptKnockUnblock(a) \/ AcceptKnockPlugin(a) \/ ListenAck(a)
    BY <1>1, <2>4, Zenon DEF AcceptRegister, ListenDone, AcceptKnockHost,
         AcceptKnockUnblock, AcceptKnockPlugin, ListenAck
  <2> QED
    BY <1>4, <2>1, <2>2, <2>3, <2>4, Zenon DEF AcceptEndStep, ListenStep
<1>5. ASSUME NEW d \in Dials, NEW id \in Ids, DialKnock(d, id)
      PROVE  UNCHANGED knockVars
  BY <1>5, KnockFrame, Zenon
<1>6. ASSUME NEW d \in Dials, DialEndStep(d) PROVE UNCHANGED knockVars
  BY <1>6, DialFrame, Zenon
<1>7. LoopStep \/ UNCHANGED vars => UNCHANGED knockVars
  BY LoopFrame, Zenon DEF vars
<1> QED
  BY <1>1, <1>2, <1>3, <1>4, <1>5, <1>6, <1>7, StepCases, Zenon

\* listenForKnocks and the table of listeners keep their types.
LEMMA ListenTypes ==
  ASSUME StateOK, [Next]_vars
  PROVE  ListensOK'
<1> USE NoneIsNothing, EntryNames DEF dialVars, accVars, lfkVars
<1>0. /\ AcceptsOK /\ KnocksOK /\ ListensOK
      /\ Known \subseteq Known' /\ Known \subseteq Dials
  BY KnownGrows, Zenon DEF StateOK, Known
<1>1. CASE UNCHANGED <<acceptId, lfkVars, listeners>>
  BY <1>0, <1>1, Zenon DEF ListensOK
<1>2. ASSUME NEW a \in Accepts, NEW id \in Ids, AcceptCall(a, id)
      PROVE  ListensOK'
  <2>1. acceptId[a] = None /\ listen[a] = "none"
    BY <1>0, <1>2, Zenon DEF AcceptCall, AcceptsOK, ListensOK
  <2> QED
    BY <1>0, <1>2, <2>1, CallFrame, SMT, Z3, SMTT(20)
    DEF AcceptCall, AcceptsOK, ListensOK
<1>3. ASSUME NEW a \in Accepts, AcceptEndStep(a) PROVE ListensOK'
  <2>0. Known' = Known /\ acceptId' = acceptId
    BY <1>3, AcceptFrame, Zenon DEF Known
  <2>1. CASE AcceptRegister(a)
    BY <1>0, <2>0, <2>1, SMT, Z3, SMTT(20)
    DEF AcceptRegister, ListensOK, AcceptsOK
  <2>2. CASE ListenStart(a)
    <3>1. acceptId[a] \in Ids
      BY <1>0, <2>2, SMT, Z3, SMTT(20) DEF ListenStart, ListensOK, AcceptsOK
    <3>2. EntryOf(serverStreams, acceptId[a], <<"listen", a>>) \in ServerEntries
      BY <1>0, <3>1, EntryType, Zenon DEF KnocksOK
    <3> QED
      BY <1>0, <2>0, <2>2, <3>1, <3>2, Zenon DEF ListenStart, ListensOK
  <2>3. CASE ListenKnock(a)
    <3>1. serverCh[listenEntry[a]] \in Known
      BY <1>0, <2>3, SMT, Z3, SMTT(20) DEF ListenKnock, ListensOK, KnocksOK
    <3> QED
      BY <1>0, <2>0, <2>3, <3>1, Zenon DEF ListenKnock, ListensOK
  <2>4. CASE ListenDone(a)
    BY <1>0, <2>0, <2>4, Zenon DEF ListenDone, ListensOK
  <2>5. CASE ListenAck(a)
    BY <1>0, <2>0, <2>5, Zenon DEF ListenAck, ListensOK
  <2>6. CASE AcceptKnockHost(a)
    <3>1. /\ listenMsg[a] \in Dials /\ acceptId[a] \in Ids
          /\ waitCh \subseteq Accepts
      BY <1>0, <2>6, SMT, Z3, SMTT(20)
      DEF AcceptKnockHost, ListensOK, AcceptsOK, StateOK, LoopsOK
    <3> QED
      BY <1>0, <2>0, <2>6, <3>1, SMT, Z3, SMTT(20) DEF AcceptKnockHost, ListensOK
  <2>7. CASE AcceptKnockUnblock(a) \/ AcceptKnockPlugin(a)
    <3>1. listenMsg[a] \in Dials
      BY <1>0, <2>7, Zenon DEF AcceptKnockUnblock, AcceptKnockPlugin, ListensOK
    <3> QED
      BY <1>0, <2>0, <2>7, <3>1, SMT, Z3, SMTT(20)
      DEF AcceptKnockUnblock, AcceptKnockPlugin, ListensOK
  <2>8. CASE ListenerClose(a)
    BY <1>1, <2>8, Zenon DEF ListenerClose
  <2> QED
    BY <1>3, <2>1, <2>2, <2>3, <2>4, <2>5, <2>6, <2>7, <2>8, Zenon
    DEF AcceptEndStep, ListenStep
<1>4. ASSUME NEW d \in Dials, NEW id \in Ids, DialKnock(d, id)
      PROVE  UNCHANGED <<acceptId, lfkVars, listeners>>
  BY <1>4, KnockFrame, Zenon
<1>5. ASSUME NEW d \in Dials, DialEndStep(d)
      PROVE  UNCHANGED <<acceptId, lfkVars, listeners>>
  BY <1>5, DialFrame, Zenon
<1>6. RunStep \/ LoopStep \/ UNCHANGED vars
      => UNCHANGED <<acceptId, lfkVars, listeners>>
  BY RunFrame, LoopFrame, Zenon DEF vars
<1> QED
  BY <1>1, <1>2, <1>3, <1>4, <1>5, <1>6, StepCases, Zenon

\* The accept loops keep their types.
LEMMA LoopTypes ==
  ASSUME StateOK, [Next]_vars
  PROVE  LoopsOK'
<1> USE NoneIsNothing DEF hostVars, mainVars, connVars
<1>0. /\ AcceptsOK /\ ListensOK /\ LoopsOK /\ WiresOK
      /\ Known \subseteq Known' /\ Known \subseteq Dials
  BY KnownGrows, Zenon DEF StateOK, Known
<1>1. CASE UNCHANGED <<side, fault, serve, hostVars, mainVars, conn, astray>>
  BY <1>0, <1>1, Zenon DEF LoopsOK
<1>2. CASE LoopStep
  <2>0. Known' = Known /\ side' = side /\ fault' = fault
    BY <1>2, LoopFrame, Zenon DEF dialVars, Known
  <2>1. ASSUME NEW a \in Accepts, Serve(a) \/ ServeEOF(a) PROVE LoopsOK'
    BY <1>0, <2>0, <2>1, Zenon DEF Serve, ServeEOF, LoopsOK
  <2>2. ASSUME NEW a \in Accepts, HostUnblocked(a) PROVE LoopsOK'
    BY <1>0, <2>0, <2>2, Zenon DEF HostUnblocked, LoopsOK
  <2>3. ASSUME NEW a \in Accepts, HostAccept(a) PROVE LoopsOK'
    BY <1>0, <2>0, <2>3, Zenon DEF HostAccept, LoopsOK
  <2>4. ASSUME NEW a \in Accepts, MainHandoff(a) PROVE LoopsOK'
    BY <1>0, <2>0, <2>4, Zenon DEF MainHandoff, LoopsOK
  <2>5. CASE MainAccept
    <3>1. Head(backlog) \in Known
      BY <1>0, <2>5, SMT, Z3, SMTT(20) DEF MainAccept, WiresOK
    <3> QED
      BY <1>0, <2>0, <2>5, <3>1, Zenon DEF MainAccept, LoopsOK
  <2>6. CASE MainRoute
    <3>1. /\ mainConn \in Dials
          /\ knockCh # None => listeners[knockCh] \in Accepts \cup {None}
      BY <1>0, <2>6, Zenon DEF MainRoute, LoopsOK, ListensOK
    <3> QED
      BY <1>0, <2>0, <2>6, <3>1, Zenon DEF MainRoute, LoopsOK
  <2> QED
    BY <1>2, <2>1, <2>2, <2>3, <2>4, <2>5, <2>6, Zenon DEF LoopStep, ServeStep
<1>3. ASSUME NEW a \in Accepts, AcceptEndStep(a) PROVE LoopsOK'
  <2>0. /\ Known' = Known
        /\ UNCHANGED <<side, fault, serve, main, mainConn, mainTo, conn, astray>>
    BY <1>3, AcceptFrame, Zenon DEF dialVars, Known
  <2>1. CASE AcceptKnockHost(a)
    <3>1. acceptId[a] \in Ids
      BY <1>0, <2>1, SMT, Z3, SMTT(20)
      DEF AcceptKnockHost, ListensOK, AcceptsOK
    <3> QED
      BY <1>0, <2>0, <2>1, <3>1, SMT, Z3, SMTT(20)
      DEF AcceptKnockHost, ListensOK, LoopsOK
  <2>2. CASE AcceptKnockUnblock(a)
    <3>1. acceptId[a] \in Ids /\ listeners[acceptId[a]] # None
      BY <1>0, <2>2, SMT, Z3, SMTT(20)
      DEF AcceptKnockUnblock, ListensOK, AcceptsOK
    <3> QED
      BY <1>0, <2>0, <2>2, <3>1, SMT, Z3, SMTT(20)
      DEF AcceptKnockUnblock, ListensOK, LoopsOK
  <2>3. CASE AcceptKnockPlugin(a)
    <3>1. acceptId[a] \in Ids
      BY <1>0, <2>3, SMT, Z3, SMTT(20)
      DEF AcceptKnockPlugin, ListensOK, AcceptsOK
    <3> QED
      BY <1>0, <2>0, <2>3, <3>1, Zenon DEF AcceptKnockPlugin, LoopsOK
  <2>4. CASE \/ AcceptRegister(a) \/ ListenerClose(a) \/ ListenStart(a)
             \/ ListenKnock(a) \/ ListenDone(a) \/ ListenAck(a)
    BY <1>1, <2>4, Zenon DEF AcceptRegister, ListenerClose, ListenStart,
         ListenKnock, ListenDone, ListenAck
  <2> QED
    BY <1>3, <2>1, <2>2, <2>3, <2>4, Zenon DEF AcceptEndStep, ListenStep
<1>4. ASSUME NEW d \in Dials, NEW id \in Ids, DialKnock(d, id) PROVE LoopsOK'
  BY <1>1, <1>4, KnockFrame, Zenon
<1>5. ASSUME NEW d \in Dials, DialEndStep(d) PROVE LoopsOK'
  BY <1>1, <1>5, DialFrame, Zenon
<1>6. ASSUME NEW a \in Accepts, NEW id \in Ids, AcceptCall(a, id)
      PROVE  LoopsOK'
  BY <1>1, <1>6, CallFrame, Zenon
<1>7. CASE RunStep
  BY <1>1, <1>7, RunFrame, Zenon
<1>8. CASE UNCHANGED vars
  BY <1>1, <1>8, Zenon DEF vars
<1> QED
  BY <1>2, <1>3, <1>4, <1>5, <1>6, <1>7, <1>8, StepCases, Zenon

\* What is on the wires, or opened and not accepted, has an id.
LEMMA WireTypes ==
  ASSUME StateOK, [Next]_vars
  PROVE  WiresOK'
<1> USE NoneIsNothing DEF wires, connVars, dialVars
<1>0. DialsOK /\ ListensOK /\ WiresOK /\ Known \subseteq Known'
  BY KnownGrows, Zenon DEF StateOK
<1>1. /\ knocks \in Seq(Known') /\ acks \in Seq(Known')
      /\ backlog \in Seq(Known')
  BY <1>0, SeqGrows, Zenon DEF WiresOK
<1>2. ASSUME NEW d \in Dials, NEW id \in Ids, DialKnock(d, id) PROVE WiresOK'
  <2>1. d \in Known'
    BY <1>0, <1>2, Zenon DEF DialKnock, DialsOK, Known
  <2>2. knocks' \in Seq(Known')
    BY <1>1, <1>2, <2>1, SMT, Z3, SMTT(20) DEF DialKnock
  <2> QED
    BY <1>1, <1>2, <2>2, KnockFrame, Zenon DEF WiresOK
<1>3. ASSUME NEW d \in Dials, DialEndStep(d) PROVE WiresOK'
  <2>1. CASE DialOpen(d)
    <3>1. d \in Known'
      BY <1>0, <2>1, Zenon DEF DialOpen, DialsOK, Known
    <3>2. backlog' \in Seq(Known')
      BY <1>1, <2>1, <3>1, SMT, Z3, SMTT(20) DEF DialOpen
    <3> QED
      BY <1>1, <1>3, <3>2, DialFrame, Zenon DEF WiresOK
  <2>2. CASE ~DialOpen(d)
    BY <1>1, <1>3, <2>2, DialFrame, Zenon DEF DialEndStep, DialWait, DialAck,
         DialExpire, DialTimeout, Reap, WiresOK
  <2> QED
    BY <2>1, <2>2, Zenon
<1>4. CASE RunStep
  <2>1. CASE RunAck
    BY <1>1, <1>4, <2>1, RunFrame, SMT, Z3, SMTT(20) DEF RunAck, WiresOK
  <2>2. CASE RunKnock
    BY <1>1, <1>4, <2>2, RunFrame, SMT, Z3, SMTT(20) DEF RunKnock, WiresOK
  <2>3. CASE RunAckQueue \/ RunKnockQueue
    BY <1>1, <1>4, <2>3, RunFrame, Zenon DEF RunAckQueue, RunKnockQueue,
         WiresOK
  <2> QED
    BY <1>4, <2>1, <2>2, <2>3, Zenon DEF RunStep
<1>5. ASSUME NEW a \in Accepts, AcceptEndStep(a) PROVE WiresOK'
  <2>1. CASE ListenAck(a)
    <3>1. listenMsg[a] \in Known'
      BY <1>0, <2>1, Zenon DEF ListenAck, ListensOK
    <3>2. acks' \in Seq(Known')
      BY <1>1, <2>1, <3>1, SMT, Z3, SMTT(20) DEF ListenAck
    <3> QED
      BY <1>1, <1>5, <3>2, AcceptFrame, Zenon DEF WiresOK
  <2>2. CASE ~ListenAck(a)
    <3>1. acks' = acks
      BY <1>5, <2>2, Zenon DEF AcceptEndStep, AcceptRegister, ListenerClose,
           ListenStep, ListenStart, ListenKnock, ListenDone, AcceptKnockHost,
           AcceptKnockUnblock, AcceptKnockPlugin
    <3> QED
      BY <1>1, <1>5, <3>1, AcceptFrame, Zenon DEF WiresOK
  <2> QED
    BY <2>1, <2>2, Zenon
<1>6. CASE LoopStep
  <2>1. \/ backlog' = backlog
        \/ backlog # <<>> /\ backlog' = Tail(backlog)
    BY <1>6, Zenon DEF LoopStep, ServeStep, Serve, ServeEOF, HostUnblocked,
         HostAccept, MainHandoff, MainAccept, MainRoute
  <2>2. backlog' \in Seq(Known')
    <3>1. backlog # <<>> => Tail(backlog) \in Seq(Known')
      BY <1>1, SeqParts, Zenon
    <3> QED
      BY <1>1, <2>1, <3>1, Zenon
  <2> QED
    BY <1>1, <1>6, <2>2, LoopFrame, Zenon DEF WiresOK
<1>7. ASSUME NEW a \in Accepts, NEW id \in Ids, AcceptCall(a, id)
      PROVE  WiresOK'
  BY <1>1, <1>7, CallFrame, Zenon DEF WiresOK
<1>8. CASE UNCHANGED vars
  BY <1>1, <1>8, Zenon DEF WiresOK, vars
<1> QED
  BY <1>2, <1>3, <1>4, <1>5, <1>6, <1>7, <1>8, StepCases, Zenon

\* No id is given, and nothing is on its way, at first.
LEMMA InitTypes == Init => StateOK
<1> SUFFICES ASSUME Init PROVE StateOK
  BY Zenon
<1> USE NoneIsNothing
<1>1. DialsOK
  BY Zenon DEF Init, DialsOK
<1>2. PendingOK
  BY Zenon DEF Init, PendingOK
<1>3. AcceptsOK
  BY Zenon DEF Init, AcceptsOK
<1>4. KnocksOK
  BY Zenon DEF Init, KnocksOK
<1>5. ListensOK
  BY Zenon DEF Init, ListensOK
<1>6. LoopsOK
  BY Zenon DEF Init, LoopsOK
<1>7. WiresOK
  BY SMT, Z3, SMTT(20) DEF Init, WiresOK
<1> QED
  BY <1>1, <1>2, <1>3, <1>4, <1>5, <1>6, <1>7, Zenon DEF StateOK

\* Every step keeps the types.
LEMMA TypesPreserved == StateOK /\ [Next]_vars => StateOK'
BY DialTypes, PendingTypes, AcceptTypes, KnockTypes, ListenTypes, LoopTypes,
   WireTypes, Zenon DEF StateOK

\* StateOK is TypeOK and more.
LEMMA StateTypes == StateOK => TypeOK
<1> SUFFICES ASSUME StateOK PROVE TypeOK
  BY Zenon
<1>0. Known \subseteq Dials
  BY Zenon DEF Known
<1>1. knocks \in Seq(Dials) /\ acks \in Seq(Dials) /\ backlog \in Seq(Dials)
  BY <1>0, SeqGrows, Zenon DEF StateOK, WiresOK
<1>2. /\ clientCh \in [ClientEntries -> Dials \cup {None}]
      /\ ackRun \in (Dials \X ClientEntries) \cup {<<>>}
  BY <1>0, Zenon DEF StateOK, PendingOK
<1>3. /\ serverCh \in [ServerEntries -> Dials \cup {None}]
      /\ knockRun \in (Dials \X ServerEntries) \cup {<<>>}
  BY <1>0, Zenon DEF StateOK, KnocksOK
<1>4. /\ listenMsg \in [Accepts -> Dials \cup {None}]
      /\ mainConn \in Dials \cup {None}
  BY <1>0, Zenon DEF StateOK, ListensOK, LoopsOK
<1> QED
  BY <1>1, <1>2, <1>3, <1>4, Zenon DEF StateOK, DialsOK, PendingOK, AcceptsOK,
     KnocksOK, ListensOK, LoopsOK, TypeOK

\* Type correctness: every channel, entry and local of the broker and the
\* muxers holds what its type says, whichever end accepts and whatever times
\* out or is closed.
THEOREM TypeCorrect == Spec => []TypeOK
BY InitTypes, TypesPreserved, StateTypes, PTL DEF Spec

-----------------------------------------------------------------------------
(* Ids.  An entry is named after the call that made it, whose id it has;   *)
(* what an entry's channel holds, and what is taken from it, has that id.  *)

ClientId(e) == dialId[e[2]]
ServerId(e) == IF e[1] = "run" THEN dialId[e[2]] ELSE acceptId[e[2]]

ClientIds ==
  /\ \A id \in Ids : clientStreams[id] # <<>> => ClientId(clientStreams[id]) = id
  /\ \A d \in Dials : dialEntry[d] # <<>> => ClientId(dialEntry[d]) = dialId[d]
  /\ ackRun # <<>> => ClientId(ackRun[2]) = dialId[ackRun[1]]
  /\ \A e \in ClientEntries :
       clientCh[e] # None => ClientId(e) = dialId[clientCh[e]]

ServerIds ==
  /\ \A id \in Ids : serverStreams[id] # <<>> => ServerId(serverStreams[id]) = id
  /\ \A a \in Accepts :
       listenEntry[a] # <<>> => ServerId(listenEntry[a]) = acceptId[a]
  /\ knockRun # <<>> => ServerId(knockRun[2]) = dialId[knockRun[1]]
  /\ \A e \in ServerEntries :
       serverCh[e] # None => ServerId(e) = dialId[serverCh[e]]
  /\ \A a \in Accepts : listenMsg[a] # None => dialId[listenMsg[a]] = acceptId[a]
  /\ \A id \in Ids : listeners[id] # None => acceptId[listeners[id]] = id

\* The entry that getClientStream returns has the id it was asked for.
LEMMA ClientEntryId ==
  ASSUME PendingOK, ClientIds, NEW d \in Known, dialId[d] \in Ids,
         NEW k \in {"knock", "ack"}
  PROVE  /\ EntryOf(clientStreams, dialId[d], <<k, d>>) \in ClientEntries
         /\ ClientId(EntryOf(clientStreams, dialId[d], <<k, d>>)) = dialId[d]
<1>1. <<k, d>> \in ClientEntries /\ ClientId(<<k, d>>) = dialId[d]
  BY Zenon DEF ClientEntries, ClientId, Known
<1> QED
  BY <1>1, Zenon DEF PendingOK, ClientIds, EntryOf

\* The ids of the dialling end are kept by every step.
LEMMA ClientIdsPreserved ==
  ASSUME StateOK, ClientIds, [Next]_vars
  PROVE  ClientIds'
<1> USE NoneIsNothing, EntryNames DEF dialVars, pendVars
<1>0. /\ DialsOK /\ PendingOK /\ WiresOK
      /\ Known \subseteq Dials /\ \A d \in Known : dialId[d] \in Ids
      /\ \A d \in Known : dialId'[d] = dialId[d]
  BY KnownGrows, Zenon DEF StateOK, Known, DialsOK
<1>1. CASE UNCHANGED <<dialId, dialEntry, pendVars>>
  BY <1>1, Zenon DEF ClientIds, ClientId
<1>2. ASSUME NEW d \in Dials, NEW id \in Ids, DialKnock(d, id)
      PROVE  ClientIds'
  <2>1. UNCHANGED <<dialEntry, pendVars>>
    BY <1>2, KnockFrame, Zenon
  <2>2. ASSUME NEW e \in ClientEntries, ClientId(e) \in Ids
        PROVE  dialId'[e[2]] = ClientId(e)
    BY <1>0, <2>2, Zenon DEF ClientId, ClientEntries, Known
  <2>3. \A i \in Ids : clientStreams[i] # <<>> =>
          dialId'[clientStreams[i][2]] = i
    BY <1>0, <2>2, SMT, Z3, SMTT(20) DEF ClientIds, PendingOK
  <2>4. \A x \in Dials : dialEntry[x] # <<>> =>
          dialId'[dialEntry[x][2]] = dialId'[x]
    BY <1>0, <2>2, SMT, Z3, SMTT(20) DEF ClientIds, DialsOK, Known
  <2>5. ackRun # <<>> => dialId'[ackRun[2][2]] = dialId'[ackRun[1]]
    BY <1>0, <2>2, Zenon DEF ClientIds, PendingOK
  <2>6. \A e \in ClientEntries :
          clientCh[e] # None => dialId'[e[2]] = dialId'[clientCh[e]]
    BY <1>0, <2>2, SMT, Z3, SMTT(20) DEF ClientIds, PendingOK
  <2> QED
    BY <2>1, <2>3, <2>4, <2>5, <2>6, Zenon DEF ClientIds, ClientId
<1>3. ASSUME NEW d \in Dials, DialEndStep(d) PROVE ClientIds'
  <2>0. dialId' = dialId
    BY <1>3, DialFrame, Zenon
  <2>1. CASE DialWait(d)
    <3> DEFINE e == EntryOf(clientStreams, dialId[d], <<"knock", d>>)
    <3>1. d \in Known
      BY <1>0, <2>1, Zenon DEF DialWait, DialsOK, Known
    <3>2. e \in ClientEntries /\ ClientId(e) = dialId[d]
      BY <1>0, <3>1, ClientEntryId, Zenon
    <3>3. /\ clientStreams' = [clientStreams EXCEPT ![dialId[d]] = e]
          /\ dialEntry' = [dialEntry EXCEPT ![d] = e]
          /\ UNCHANGED <<clientCh, ackRun>>
      BY <2>1, Zenon DEF DialWait
    <3> HIDE DEF e
    <3> QED
      BY <1>0, <2>0, <3>2, <3>3, SMT, Z3, SMTT(20)
      DEF ClientIds, ClientId, DialsOK, PendingOK
  <2>2. CASE DialAck(d)
    BY <1>0, <2>0, <2>2, SMT, Z3, SMTT(20) DEF DialAck, ClientIds, ClientId, PendingOK
  <2>3. CASE DialTimeout(d) \/ Reap(d)
    BY <1>0, <2>0, <2>3, SMT, Z3, SMTT(20)
    DEF DialTimeout, Reap, ClientIds, ClientId, PendingOK
  <2>4. CASE DialExpire(d) \/ DialOpen(d)
    BY <1>1, <2>4, Zenon DEF DialExpire, DialOpen
  <2> QED
    BY <1>3, <2>1, <2>2, <2>3, <2>4, Zenon DEF DialEndStep
<1>4. CASE RunStep
  <2>0. dialId' = dialId /\ dialEntry' = dialEntry
    BY <1>4, RunFrame, Zenon
  <2>1. CASE RunAck
    <3> DEFINE d == Head(acks)
               e == EntryOf(clientStreams, dialId[d], <<"ack", d>>)
    <3>1. d \in Known
      BY <1>0, <2>1, SMT, Z3, SMTT(20) DEF RunAck, WiresOK
    <3>2. e \in ClientEntries /\ ClientId(e) = dialId[d]
      BY <1>0, <3>1, ClientEntryId, Zenon
    <3>3. /\ clientStreams' = [clientStreams EXCEPT ![dialId[d]] = e]
          /\ ackRun' = <<d, e>> /\ clientCh' = clientCh
      BY <2>1, Zenon DEF RunAck
    <3> HIDE DEF d, e
    <3> QED
      BY <1>0, <2>0, <3>1, <3>2, <3>3, Zenon DEF ClientIds, ClientId, PendingOK
  <2>2. CASE RunAckQueue
    BY <1>0, <2>0, <2>2, SMT, Z3, SMTT(20)
    DEF RunAckQueue, ClientIds, ClientId, PendingOK
  <2>3. CASE RunKnock \/ RunKnockQueue
    BY <1>1, <2>3, Zenon DEF RunKnock, RunKnockQueue
  <2> QED
    BY <1>4, <2>1, <2>2, <2>3, Zenon DEF RunStep
<1>5. ASSUME NEW a \in Accepts, NEW id \in Ids, AcceptCall(a, id)
      PROVE  ClientIds'
  BY <1>1, <1>5, CallFrame, Zenon
<1>6. ASSUME NEW a \in Accepts, AcceptEndStep(a) PROVE ClientIds'
  BY <1>1, <1>6, AcceptFrame, Zenon
<1>7. CASE LoopStep \/ UNCHANGED vars
  BY <1>1, <1>7, LoopFrame, Zenon DEF vars
<1> QED
  BY <1>2, <1>3, <1>4, <1>5, <1>6, <1>7, StepCases, Zenon

\* The entry that getServerStream returns has the id it was asked for.
LEMMA ServerEntryId ==
  ASSUME KnocksOK, ServerIds, NEW id \in Ids, NEW e \in ServerEntries,
         ServerId(e) = id
  PROVE  /\ EntryOf(serverStreams, id, e) \in ServerEntries
         /\ ServerId(EntryOf(serverStreams, id, e)) = id
BY SMT, Z3, SMTT(20) DEF KnocksOK, ServerIds, EntryOf

\* When a call is given its id, no entry changes the one it has.
LEMMA ServerIdStays ==
  ASSUME DialsOK, AcceptsOK, NEW e \in ServerEntries, ServerId(e) # None,
         \/ \E d \in Dials, id \in Ids : DialKnock(d, id)
         \/ \E a \in Accepts, id \in Ids : AcceptCall(a, id)
  PROVE  ServerId(e)' = ServerId(e)
<1> USE DEF dialVars, accVars
<1>1. \/ e[1] = "run" /\ e[2] \in Dials
      \/ e[1] # "run" /\ e[2] \in Accepts
  BY Zenon DEF ServerEntries
<1>2. ASSUME NEW d \in Dials, NEW id \in Ids, DialKnock(d, id)
      PROVE  ServerId(e)' = ServerId(e)
  <2>1. /\ acceptId' = acceptId /\ dialId[d] = None
        /\ dialId' = [dialId EXCEPT ![d] = id]
    BY <1>2, Zenon DEF DialKnock, DialsOK
  <2> QED
    BY <1>1, <2>1, Zenon DEF ServerId, DialsOK
<1>3. ASSUME NEW a \in Accepts, NEW id \in Ids, AcceptCall(a, id)
      PROVE  ServerId(e)' = ServerId(e)
  <2>1. /\ dialId' = dialId /\ acceptId[a] = None
        /\ acceptId' = [acceptId EXCEPT ![a] = id]
    BY <1>3, Zenon DEF AcceptCall, AcceptsOK
  <2> QED
    BY <1>1, <2>1, Zenon DEF ServerId, AcceptsOK
<1> QED
  BY <1>2, <1>3, Zenon

\* The ids of the accepting end are kept when a call is given its own.
LEMMA ServerIdsStay ==
  ASSUME StateOK, ServerIds, [Next]_vars,
         \/ \E d \in Dials, id \in Ids : DialKnock(d, id)
         \/ \E a \in Accepts, id \in Ids : AcceptCall(a, id),
         UNCHANGED <<serverCh, knockRun, listenEntry, listenMsg, listeners>>,
         \A id \in Ids : serverStreams'[id] # <<>> =>
           serverStreams'[id] \in ServerEntries /\ ServerId(serverStreams[id])' = id
  PROVE  ServerIds'
<1> USE NoneIsNothing, EntryNames
<1>0. /\ DialsOK /\ AcceptsOK /\ KnocksOK /\ ListensOK /\ Known \subseteq Dials
      /\ \A d \in Known : dialId[d] \in Ids /\ dialId'[d] = dialId[d]
  BY KnownGrows, Zenon DEF StateOK, Known, DialsOK
<1>1. \A a \in Accepts : acceptId[a] # None => acceptId'[a] = acceptId[a]
  BY <1>0, KnockFrame, ZenonT(40) DEF AcceptCall, AcceptsOK, accVars
<1>2. \A e \in ServerEntries : ServerId(e) # None => ServerId(e)' = ServerId(e)
  BY <1>0, ServerIdStays, Zenon
<1>3. \A a \in Accepts : listenEntry'[a] # <<>> =>
        ServerId(listenEntry[a])' = acceptId'[a]
  <2> SUFFICES ASSUME NEW a \in Accepts, listenEntry[a] # <<>>
               PROVE  ServerId(listenEntry[a])' = acceptId'[a]
    BY Zenon
  <2>1. /\ listenEntry[a] \in ServerEntries /\ acceptId[a] # None
        /\ ServerId(listenEntry[a]) = acceptId[a]
    BY <1>0, SMT, Z3, SMTT(20) DEF ListensOK, ServerIds
  <2> QED
    BY <1>1, <1>2, <2>1, Zenon DEF ServerId
<1>4. knockRun' # <<>> => ServerId(knockRun[2])' = dialId'[knockRun'[1]]
  <2> SUFFICES ASSUME knockRun # <<>>
               PROVE  ServerId(knockRun[2])' = dialId'[knockRun[1]]
    BY Zenon
  <2>1. /\ knockRun[2] \in ServerEntries /\ knockRun[1] \in Known
        /\ ServerId(knockRun[2]) = dialId[knockRun[1]]
    BY <1>0, Zenon DEF KnocksOK, ServerIds
  <2> QED
    BY <1>0, <1>2, <2>1, SMT, Z3, SMTT(20) DEF ServerId
<1>5. \A e \in ServerEntries :
        serverCh'[e] # None => ServerId(e)' = dialId'[serverCh'[e]]
  BY <1>0, <1>2, SMT, Z3, SMTT(20) DEF KnocksOK, ServerIds
<1>6. \A a \in Accepts :
        listenMsg'[a] # None => dialId'[listenMsg'[a]] = acceptId'[a]
  BY <1>0, <1>1, SMT, Z3, SMTT(20) DEF ListensOK, ServerIds
<1>7. \A id \in Ids :
        listeners'[id] # None => acceptId'[listeners'[id]] = id
  BY <1>0, <1>1, SMT, Z3, SMTT(20) DEF ListensOK, ServerIds
<1> QED
  BY <1>3, <1>4, <1>5, <1>6, <1>7, Zenon DEF ServerIds

\* The ids of the accepting end are kept by every step.
LEMMA ServerIdsPreserved ==
  ASSUME StateOK, ServerIds, [Next]_vars
  PROVE  ServerIds'
<1> USE NoneIsNothing, EntryNames DEF dialVars, accVars, knockVars, lfkVars
<1>0. /\ DialsOK /\ AcceptsOK /\ KnocksOK /\ ListensOK /\ WiresOK
      /\ Known \subseteq Dials /\ \A d \in Known : dialId[d] \in Ids
  BY Zenon DEF StateOK, Known, DialsOK
<1>1. CASE UNCHANGED <<dialId, acceptId, knockVars, lfkVars, listeners>>
  BY <1>1, Zenon DEF ServerIds, ServerId
<1>2. ASSUME NEW d \in Dials, NEW id \in Ids, DialKnock(d, id)
      PROVE  ServerIds'
  <2>1. UNCHANGED <<knockVars, lfkVars, listeners>>
    BY <1>2, KnockFrame, Zenon
  <2>2. \A i \in Ids : serverStreams[i] # <<>> =>
          serverStreams[i] \in ServerEntries /\ ServerId(serverStreams[i]) = i
    BY <1>0, SMT, Z3, SMTT(20) DEF KnocksOK, ServerIds
  <2>3. \A e \in ServerEntries : ServerId(e) # None => ServerId(e)' = ServerId(e)
    BY <1>0, <1>2, ServerIdStays, Zenon
  <2>4. \A i \in Ids : serverStreams'[i] # <<>> =>
          serverStreams'[i] \in ServerEntries /\ ServerId(serverStreams[i])' = i
    BY <2>1, <2>2, <2>3, SMT, Z3, SMTT(20) DEF ServerId
  <2> QED
    BY <1>2, <2>1, <2>4, ServerIdsStay, Zenon
<1>3. ASSUME NEW a \in Accepts, NEW id \in Ids, AcceptCall(a, id)
      PROVE  ServerIds'
  <2>1. \A i \in Ids : serverStreams[i] # <<>> =>
          serverStreams[i] \in ServerEntries /\ ServerId(serverStreams[i]) = i
    BY <1>0, SMT, Z3, SMTT(20) DEF KnocksOK, ServerIds
  <2>2. \A f \in ServerEntries : ServerId(f) # None => ServerId(f)' = ServerId(f)
    BY <1>0, <1>3, ServerIdStays, Zenon
  <2>3. ServerId(<<"accept", a>>)' = id
    BY <1>0, <1>3, Zenon DEF AcceptCall, AcceptsOK, ServerId
  <2>4. PICK e \in ServerEntries :
          /\ e = EntryOf(serverStreams, id, <<"accept", a>>)
          /\ ServerId(e)' = id
    <3>1. CASE serverStreams[id] = <<>>
      BY <2>3, <3>1, Zenon DEF EntryOf
    <3>2. CASE serverStreams[id] # <<>>
      BY <2>1, <2>2, <3>2, Zenon DEF EntryOf
    <3> QED
      BY <3>1, <3>2, Zenon
  <2>5. serverStreams' = [serverStreams EXCEPT ![id] = e]
    BY <1>3, <2>4, Zenon DEF AcceptCall
  <2>6. ASSUME NEW i \in Ids, serverStreams'[i] # <<>>
        PROVE  /\ serverStreams'[i] \in ServerEntries
               /\ ServerId(serverStreams[i])' = i
    <3>1. PICK f \in ServerEntries : f = serverStreams'[i] /\ ServerId(f)' = i
      <4>1. CASE i = id
        BY <1>0, <2>4, <2>5, <4>1, Zenon DEF KnocksOK
      <4>2. CASE i # id
        BY <1>0, <2>1, <2>2, <2>5, <2>6, <4>2, Zenon DEF KnocksOK
      <4> QED
        BY <4>1, <4>2, Zenon
    <3> QED
      BY <3>1, Zenon DEF ServerId
  <2> QED
    BY <1>3, <2>6, CallFrame, ServerIdsStay, Zenon
<1>4. CASE RunStep
  <2>0. UNCHANGED <<dialId, acceptId, lfkVars, listeners>>
    BY <1>4, RunFrame, Zenon
  <2>1. CASE RunKnock
    <3> DEFINE d == Head(knocks)
               e == EntryOf(serverStreams, dialId[d], <<"run", d>>)
    <3>1. d \in Known
      BY <1>0, <2>1, SMT, Z3, SMTT(20) DEF RunKnock, WiresOK
    <3>2. e \in ServerEntries /\ ServerId(e) = dialId[d]
      <4>1. ServerId(<<"run", d>>) = dialId[d]
        BY Zenon DEF ServerId
      <4> QED
        BY <1>0, <3>1, <4>1, ServerEntryId, Zenon
    <3>3. /\ serverStreams' = [serverStreams EXCEPT ![dialId[d]] = e]
          /\ knockRun' = <<d, e>> /\ serverCh' = serverCh
      BY <2>1, Zenon DEF RunKnock
    <3> HIDE DEF d, e
    <3> QED
      BY <1>0, <2>0, <3>1, <3>2, <3>3, Zenon DEF ServerIds, ServerId, KnocksOK
  <2>2. CASE RunKnockQueue
    BY <1>0, <2>0, <2>2, SMT, Z3, SMTT(20)
    DEF RunKnockQueue, ServerIds, ServerId, KnocksOK
  <2>3. CASE RunAck \/ RunAckQueue
    BY <1>1, <2>0, <2>3, Zenon DEF RunAck, RunAckQueue
  <2> QED
    BY <1>4, <2>1, <2>2, <2>3, Zenon DEF RunStep
<1>5. ASSUME NEW a \in Accepts, AcceptEndStep(a) PROVE ServerIds'
  <2>0. UNCHANGED <<dialId, acceptId, knockRun>>
    BY <1>5, AcceptFrame, ZenonT(40)
  <2>1. CASE AcceptRegister(a)
    BY <1>0, <2>0, <2>1, SMT, Z3, SMTT(20)
       DEF AcceptRegister, AcceptsOK, ListensOK, ServerIds,
                            ServerId
  <2>2. CASE ListenerClose(a)
    BY <1>0, <2>0, <2>2, SMT, Z3, SMTT(20)
       DEF ListenerClose, KnocksOK, ServerIds, ServerId
  <2>3. CASE ListenStart(a)
    <3> DEFINE e == EntryOf(serverStreams, acceptId[a], <<"listen", a>>)
    <3>1. acceptId[a] \in Ids
      BY <1>0, <2>3, SMT, Z3, SMTT(20) DEF ListenStart, ListensOK, AcceptsOK
    <3>2. e \in ServerEntries /\ ServerId(e) = acceptId[a]
      <4>1. ServerId(<<"listen", a>>) = acceptId[a]
        BY Zenon DEF ServerId
      <4> QED
        BY <1>0, <3>1, <4>1, ServerEntryId, Zenon
    <3>3. /\ serverStreams' = [serverStreams EXCEPT ![acceptId[a]] = e]
          /\ listenEntry' = [listenEntry EXCEPT ![a] = e]
          /\ UNCHANGED <<serverCh, listenMsg, listeners>>
      BY <2>3, ZenonT(40) DEF ListenStart
    <3> HIDE DEF e
    <3> QED
      BY <1>0, <2>0, <3>1, <3>2, <3>3, SMT, Z3, SMTT(20)
         DEF ServerIds, ServerId, KnocksOK,
                                          ListensOK
  <2>4. CASE ListenKnock(a)
    <3>1. /\ listenEntry[a] \in ServerEntries
          /\ dialId[serverCh[listenEntry[a]]] = acceptId[a]
      BY <1>0, <2>4, SMT, Z3, SMTT(20) DEF ListenKnock, ListensOK, ServerIds
    <3> QED
      BY <1>0, <2>0, <2>4, <3>1, SMT, Z3, SMTT(20) DEF ListenKnock, KnocksOK, ListensOK,
                                    ServerIds, ServerId
  <2>5. CASE ListenAck(a)
    BY <1>0, <2>0, <2>5, SMT, Z3, SMTT(20)
    DEF ListenAck, ListensOK, ServerIds, ServerId
  <2>6. CASE \/ ListenDone(a) \/ AcceptKnockHost(a) \/ AcceptKnockUnblock(a)
             \/ AcceptKnockPlugin(a)
    <3>1. UNCHANGED <<knockVars, listenEntry, listenMsg, listeners>>
      BY <2>6, Zenon DEF ListenDone, AcceptKnockHost, AcceptKnockUnblock,
                  AcceptKnockPlugin
    <3> QED
      BY <2>0, <3>1, Zenon DEF ServerIds, ServerId
  <2> QED
    BY <1>5, <2>1, <2>2, <2>3, <2>4, <2>5, <2>6, Zenon DEF AcceptEndStep,
         ListenStep
<1>6. ASSUME NEW d \in Dials, DialEndStep(d) PROVE ServerIds'
  BY <1>1, <1>6, DialFrame, Zenon
<1>7. CASE LoopStep \/ UNCHANGED vars
  BY <1>1, <1>7, LoopFrame, Zenon DEF vars
<1> QED
  BY <1>2, <1>3, <1>4, <1>5, <1>6, <1>7, StepCases, Zenon

-----------------------------------------------------------------------------
(* Routing by the plugin.  An id stays in knockCh from AcceptKnock until    *)
(* the stream it is for is routed, and meanwhile there is one              *)
(* acknowledgement or stream in the system, and it has that id: it is being *)
(* sent, on the wire, held by Run, queued in an entry, received by a Dial  *)
(* that opens a stream, or it is that stream.                              *)

Elsewhere(place) ==
  /\ place # "send" => \A a \in Accepts : listen[a] # "ack"
  /\ place # "wire" => acks = <<>>
  /\ place # "run" => ackRun = <<>>
  /\ place # "queue" => \A e \in ClientEntries : clientCh[e] = None
  /\ place # "open" => \A d \in Dials : dial[d] # "open"
  /\ place # "backlog" => backlog = <<>>
  /\ place # "route" => main # "route"

AckSend == /\ Elsewhere("send") /\ knockCh # None
           /\ \E a \in Accepts : /\ acceptId[a] = knockCh
                                 /\ \A b \in Accepts : listen[b] = "ack" => b = a
AckWire == /\ Elsewhere("wire")
           /\ \E d \in Known : acks = <<d>> /\ dialId[d] = knockCh
AckRun == /\ Elsewhere("run")
          /\ \E d \in Known, e \in ClientEntries :
               ackRun = <<d, e>> /\ dialId[d] = knockCh
AckQueue == /\ Elsewhere("queue") /\ knockCh # None
            /\ \E e \in ClientEntries :
                 /\ ClientId(e) = knockCh
                 /\ \A f \in ClientEntries : clientCh[f] # None => f = e
StreamOpen == /\ Elsewhere("open")
              /\ \E d \in Known : /\ dialId[d] = knockCh
                                  /\ \A x \in Dials : dial[x] = "open" => x = d
StreamBacklog == /\ Elsewhere("backlog")
                 /\ \E d \in Known : backlog = <<d>> /\ dialId[d] = knockCh
StreamRoute == /\ Elsewhere("route")
               /\ mainConn \in Known /\ dialId[mainConn] = knockCh

OneAck == \/ Elsewhere("nowhere") \/ AckSend \/ AckWire \/ AckRun \/ AckQueue
          \/ StreamOpen \/ StreamBacklog \/ StreamRoute

\* Where the acknowledgement or the stream is, nothing else is.
LEMMA OneAckAt ==
  ASSUME OneAck
  PROVE  /\ \A a \in Accepts : listen[a] = "ack" => AckSend
         /\ acks # <<>> => AckWire
         /\ ackRun # <<>> => AckRun
         /\ \A e \in ClientEntries : clientCh[e] # None => AckQueue
         /\ \A d \in Dials : dial[d] = "open" => StreamOpen
         /\ backlog # <<>> => StreamBacklog
         /\ main = "route" => StreamRoute
         /\ knockCh = None => Elsewhere("nowhere")
<1>1. AckSend => Elsewhere("send") /\ knockCh # None
  BY Zenon DEF AckSend
<1>2. AckWire => Elsewhere("wire") /\ knockCh # None
  BY Zenon DEF AckWire, Known
<1>3. AckRun => Elsewhere("run") /\ knockCh # None
  BY Zenon DEF AckRun, Known
<1>4. AckQueue => Elsewhere("queue") /\ knockCh # None
  BY Zenon DEF AckQueue
<1>5. StreamOpen => Elsewhere("open") /\ knockCh # None
  BY Zenon DEF StreamOpen, Known
<1>6. StreamBacklog => Elsewhere("backlog") /\ knockCh # None
  BY Zenon DEF StreamBacklog, Known
<1>7. StreamRoute => Elsewhere("route") /\ knockCh # None
  BY Zenon DEF StreamRoute, Known
<1> QED
  BY <1>1, <1>2, <1>3, <1>4, <1>5, <1>6, <1>7, Zenon DEF OneAck, Elsewhere

\* A step that moves neither keeps the invariant.
LEMMA OneAckStays ==
  ASSUME StateOK, OneAck, [Next]_vars,
         UNCHANGED <<acks, ackRun, clientCh, backlog, knockCh>>,
         main' = "route" => main = "route" /\ mainConn' = mainConn,
         \A a \in Accepts : listen'[a] = "ack" => listen[a] = "ack",
         \A a \in Accepts : acceptId[a] # None => acceptId'[a] = acceptId[a],
         \A d \in Dials : dial'[d] = "open" => dial[d] = "open"
  PROVE  OneAck'
<1>0. /\ Known \subseteq Known' /\ Known \subseteq Dials
      /\ \A d \in Known : dialId'[d] = dialId[d]
  BY KnownGrows, Zenon DEF StateOK, Known
<1>1. ASSUME NEW place, Elsewhere(place) PROVE Elsewhere(place)'
  BY <1>1, Zenon DEF Elsewhere
<1>2. CASE Elsewhere("nowhere")
  BY <1>1, <1>2, Zenon DEF OneAck
<1>3. CASE AckSend
  BY <1>1, <1>3, Zenon DEF OneAck, AckSend
<1>4. CASE AckWire
  BY <1>0, <1>1, <1>4, Zenon DEF OneAck, AckWire
<1>5. CASE AckRun
  BY <1>0, <1>1, <1>5, Zenon DEF OneAck, AckRun
<1>6. CASE AckQueue
  <2>1. \A e \in ClientEntries : ClientId(e) # None => ClientId(e)' = ClientId(e)
    BY <1>0, Zenon DEF ClientId, ClientEntries, Known
  <2> QED
    BY <1>1, <1>6, <2>1, Zenon DEF OneAck, AckQueue
<1>7. CASE StreamOpen
  BY <1>0, <1>1, <1>7, Zenon DEF OneAck, StreamOpen
<1>8. CASE StreamBacklog
  BY <1>0, <1>1, <1>8, Zenon DEF OneAck, StreamBacklog
<1>9. CASE StreamRoute
  <2>1. CASE main' = "route"
    BY <1>0, <1>1, <1>9, <2>1, Zenon DEF OneAck, StreamRoute
  <2>2. CASE main' # "route"
    BY <1>1, <1>9, <2>2, Zenon DEF OneAck, StreamRoute, Elsewhere
  <2> QED
    BY <2>1, <2>2, Zenon
<1> QED
  BY <1>2, <1>3, <1>4, <1>5, <1>6, <1>7, <1>8, <1>9, Zenon DEF OneAck

\* The plugin's listeners wait for no token of their own.
NotHost == /\ waitCh = {}
           /\ \A a \in Accepts : serve[a] # "session" /\ listen[a] # "unblock"

\* No step of a plugin that accepts takes a host's path.
LEMMA NotHostPreserved ==
  ASSUME StateOK, side = "plugin", NotHost, [Next]_vars
  PROVE  NotHost'
<1> USE DEF lfkVars, hostVars
<1>0. ListensOK /\ LoopsOK
  BY Zenon DEF StateOK
<1>1. CASE UNCHANGED <<waitCh, serve, listen>>
  BY <1>1, Zenon DEF NotHost
<1>2. ASSUME NEW a \in Accepts, NEW id \in Ids, AcceptCall(a, id)
      PROVE  NotHost'
  BY <1>0, <1>2, Zenon DEF AcceptCall, NotHost, ListensOK
<1>3. ASSUME NEW a \in Accepts, AcceptEndStep(a) PROVE NotHost'
  <2>1. ~AcceptKnockHost(a) /\ ~AcceptKnockUnblock(a)
    BY Zenon DEF AcceptKnockHost, AcceptKnockUnblock, NotHost
  <2>2. CASE AcceptRegister(a) \/ ListenerClose(a)
    BY <1>1, <2>2, Zenon DEF AcceptRegister, ListenerClose
  <2>3. CASE ListenStep(a)
    <3>1. \E l \in {"select", "knock", "gone", "ack"} :
            listen' = [listen EXCEPT ![a] = l]
      BY <2>1, <2>3, Zenon
         DEF ListenStep, ListenStart, ListenKnock, ListenDone,
           AcceptKnockPlugin, ListenAck
    <3>2. UNCHANGED <<waitCh, serve>>
      BY <2>1, <2>3, Zenon
         DEF ListenStep, ListenStart, ListenKnock, ListenDone,
           AcceptKnockPlugin, ListenAck
    <3>3. \A b \in Accepts : listen'[b] # "unblock"
      BY <1>0, <3>1, SMT, Z3, SMTT(20) DEF NotHost, ListensOK
    <3> QED
      BY <3>2, <3>3, Zenon DEF NotHost
  <2> QED
    BY <1>3, <2>2, <2>3, Zenon DEF AcceptEndStep
<1>4. CASE LoopStep
  <2>1. ASSUME NEW a \in Accepts, ServeStep(a) PROVE NotHost'
    BY <1>0, <2>1, Zenon DEF ServeStep, Serve, ServeEOF, HostUnblocked,
         HostAccept, MainHandoff, NotHost, LoopsOK
  <2>2. CASE MainAccept \/ MainRoute
    BY <1>1, <2>2, Zenon DEF MainAccept, MainRoute
  <2> QED
    BY <1>4, <2>1, <2>2, Zenon DEF LoopStep
<1>5. ASSUME NEW d \in Dials, NEW id \in Ids, DialKnock(d, id) PROVE NotHost'
  BY <1>1, <1>5, KnockFrame, Zenon
<1>6. ASSUME NEW d \in Dials, DialEndStep(d) PROVE NotHost'
  BY <1>1, <1>6, DialFrame, Zenon
<1>7. CASE RunStep \/ UNCHANGED vars
  BY <1>1, <1>7, RunFrame, Zenon DEF vars
<1> QED
  BY <1>2, <1>3, <1>4, <1>5, <1>6, <1>7, StepCases, Zenon

\* AcceptKnock puts the id in knockCh, and the acknowledgement is sent.
LEMMA AckSent ==
  ASSUME StateOK, ServerIds, OneAck, NEW a \in Accepts,
         AcceptKnockPlugin(a) \/ ListenAck(a)
  PROVE  OneAck'
<1> USE NoneIsNothing DEF wires, dialVars, pendVars, accVars, mainVars, connVars
<1>0. AcceptsOK /\ ListensOK
  BY Zenon DEF StateOK
<1>1. CASE AcceptKnockPlugin(a)
  <2>1. /\ Elsewhere("nowhere") /\ acceptId[a] \in Ids
        /\ listen' = [listen EXCEPT ![a] = "ack"]
    BY <1>0, <1>1, OneAckAt, SMT, Z3, SMTT(20)
    DEF AcceptKnockPlugin, AcceptsOK, ListensOK
  <2>2. Elsewhere("send")'
    BY <1>1, <2>1, Zenon DEF AcceptKnockPlugin, Elsewhere
  <2>3. \A b \in Accepts : listen'[b] = "ack" => b = a
    BY <1>0, <2>1, Zenon DEF Elsewhere, ListensOK
  <2> QED
    BY <1>1, <2>1, <2>2, <2>3, ZenonT(40)
       DEF AcceptKnockPlugin, AckSend, OneAck
<1>2. CASE ListenAck(a)
  <2>1. AckSend
    BY <1>2, OneAckAt, Zenon DEF ListenAck
  <2>2. /\ acceptId[a] = knockCh
        /\ \A b \in Accepts : listen[b] = "ack" => b = a
    BY <1>2, <2>1, ZenonT(40) DEF ListenAck, AckSend
  <2>3. listenMsg[a] \in Known /\ dialId[listenMsg[a]] = acceptId[a]
    BY <1>0, <1>2, SMT, Z3, SMTT(20) DEF ListenAck, ListensOK, ServerIds
  <2>4. acks' = <<listenMsg[a]>>
    BY <1>2, <2>1, SMT, Z3, SMTT(20) DEF ListenAck, AckSend, Elsewhere
  <2>5. \A b \in Accepts : listen'[b] # "ack"
    BY <1>0, <1>2, <2>2, Zenon DEF ListenAck, ListensOK
  <2>6. Elsewhere("wire")'
    BY <1>2, <2>1, <2>5, Zenon DEF ListenAck, AckSend, Elsewhere
  <2>7. UNCHANGED <<dialId, knockCh>> /\ Known' = Known
    BY <1>2, Zenon DEF ListenAck, Known
  <2> QED
    BY <2>2, <2>3, <2>4, <2>6, <2>7, Zenon DEF AckWire, OneAck
<1> QED
  BY <1>1, <1>2, Zenon

\* Run takes it from the wire and queues it in the entry of its id.
LEMMA AckReceived ==
  ASSUME StateOK, ClientIds, OneAck, RunAck \/ RunAckQueue
  PROVE  OneAck'
<1> USE NoneIsNothing DEF wires, dialVars, lfkVars, mainVars, connVars
<1>0. /\ DialsOK /\ PendingOK /\ WiresOK /\ Known' = Known
      /\ \A d \in Known : d \in Dials /\ dialId[d] \in Ids
  BY RunFrame, Zenon DEF StateOK, RunStep, Known, DialsOK
<1>1. CASE RunAck
  <2>1. AckWire
    BY <1>1, OneAckAt, Zenon DEF RunAck
  <2>2. PICK d \in Known : acks = <<d>> /\ dialId[d] = knockCh
    BY <2>1, Zenon DEF AckWire
  <2>3. PICK e : e = EntryOf(clientStreams, dialId[d], <<"ack", d>>)
    BY Zenon
  <2>4. e \in ClientEntries
    BY <1>0, <2>3, ClientEntryId, Zenon
  <2>5. ackRun' = <<d, e>> /\ acks' = <<>>
    BY <1>1, <2>2, <2>3, SMT, Z3, SMTT(20) DEF RunAck
  <2>6. Elsewhere("run")'
    BY <1>1, <2>1, <2>5, Zenon DEF RunAck, AckWire, Elsewhere
  <2> QED
    BY <1>0, <1>1, <2>2, <2>4, <2>5, <2>6, Zenon DEF RunAck, AckRun, OneAck
<1>2. CASE RunAckQueue
  <2>1. AckRun
    BY <1>2, OneAckAt, Zenon DEF RunAckQueue
  <2>2. PICK d \in Known, e \in ClientEntries :
          ackRun = <<d, e>> /\ dialId[d] = knockCh
    BY <2>1, Zenon DEF AckRun
  <2>3. ClientId(e) = knockCh /\ knockCh # None
    BY <1>0, <2>2, Zenon DEF ClientIds
  <2>4. clientCh' = [clientCh EXCEPT ![e] = d] /\ ackRun' = <<>>
    BY <1>2, <2>1, <2>2, Zenon DEF RunAckQueue, AckRun, Elsewhere
  <2>5. \A f \in ClientEntries : clientCh'[f] # None => f = e
    BY <1>0, <2>1, <2>4, Zenon DEF AckRun, Elsewhere, PendingOK
  <2>6. Elsewhere("queue")'
    BY <1>2, <2>1, <2>4, Zenon DEF RunAckQueue, AckRun, Elsewhere
  <2>7. ClientId(e)' = ClientId(e) /\ knockCh' = knockCh
    BY <1>2, Zenon DEF RunAckQueue, ClientId
  <2> QED
    BY <2>3, <2>5, <2>6, <2>7, Zenon DEF AckQueue, OneAck
<1> QED
  BY <1>1, <1>2, Zenon

\* A Dial that waits for its id takes it, and opens the stream.
LEMMA StreamOpened ==
  ASSUME StateOK, ClientIds, OneAck, NEW d \in Dials, DialAck(d) \/ DialOpen(d)
  PROVE  OneAck'
<1> USE NoneIsNothing DEF wires, lfkVars, mainVars, connVars, pendVars
<1>0. /\ DialsOK /\ PendingOK /\ Known' = Known /\ dialId' = dialId
      /\ dial[d] # "idle" => d \in Known
  BY DialFrame, ZenonT(40) DEF StateOK, DialEndStep, Known, DialsOK
<1>1. CASE DialAck(d)
  <2>1. /\ dialEntry[d] \in ClientEntries /\ d \in Known
        /\ ClientId(dialEntry[d]) = dialId[d]
    BY <1>0, <1>1, SMT, Z3, SMTT(20) DEF DialAck, DialsOK, ClientIds
  <2>2. AckQueue
    BY <1>1, <2>1, OneAckAt, Zenon DEF DialAck
  <2>3. /\ dialId[d] = knockCh
        /\ \A f \in ClientEntries : clientCh[f] # None => f = dialEntry[d]
    BY <1>1, <2>1, <2>2, Zenon DEF DialAck, AckQueue
  <2>4. \A f \in ClientEntries : clientCh'[f] = None
    BY <1>0, <1>1, <2>3, Zenon DEF DialAck, PendingOK
  <2>5. CASE dial' = [dial EXCEPT ![d] = "open"]
    <3>1. \A x \in Dials : dial'[x] = "open" => x = d
      BY <1>0, <2>2, <2>5, Zenon DEF AckQueue, Elsewhere, DialsOK
    <3>2. Elsewhere("open")'
      BY <1>1, <2>2, <2>4, Zenon DEF DialAck, AckQueue, Elsewhere
    <3> QED
      BY <1>0, <1>1, <2>1, <2>3, <3>1, <3>2, Zenon DEF DialAck, StreamOpen,
           OneAck
  <2>6. CASE dial' = [dial EXCEPT ![d] = "error"]
    <3>1. \A x \in Dials : dial'[x] # "open"
      BY <1>0, <2>2, <2>6, ZenonT(40) DEF AckQueue, Elsewhere, DialsOK
    <3>2. Elsewhere("nowhere")'
      BY <1>1, <2>2, <2>4, <3>1, Zenon DEF DialAck, AckQueue, Elsewhere
    <3> QED
      BY <3>2, Zenon DEF OneAck
  <2> QED
    BY <1>1, <2>5, <2>6, Zenon DEF DialAck
<1>2. CASE DialOpen(d)
  <2>1. StreamOpen /\ d \in Known
    BY <1>0, <1>2, OneAckAt, Zenon DEF DialOpen
  <2>2. /\ dialId[d] = knockCh
        /\ \A x \in Dials : dial[x] = "open" => x = d
    BY <1>2, <2>1, Zenon DEF DialOpen, StreamOpen
  <2>3. backlog' = <<d>>
    <3>1. backlog = <<>>
      BY <2>1, Zenon DEF StreamOpen, Elsewhere
    <3>2. backlog' = Append(backlog, d)
      BY <1>2, Zenon DEF DialOpen
    <3> QED
      BY <3>1, <3>2, SMT, Z3, SMTT(20)
  <2>4. \A x \in Dials : dial'[x] # "open"
    BY <1>0, <1>2, <2>2, Zenon DEF DialOpen, DialsOK
  <2>5. Elsewhere("backlog")'
    BY <1>2, <2>1, <2>4, Zenon DEF DialOpen, StreamOpen, Elsewhere
  <2> QED
    BY <1>0, <1>2, <2>1, <2>2, <2>3, <2>5, Zenon DEF DialOpen, StreamBacklog,
         OneAck
<1> QED
  BY <1>1, <1>2, Zenon

\* The accept loop takes the stream, and the id from knockCh.
LEMMA StreamRouted ==
  ASSUME StateOK, OneAck, MainAccept \/ MainRoute
  PROVE  OneAck'
<1> USE DEF wires, dialVars, pendVars, lfkVars, mainVars, connVars
<1>0. Known' = Known
  BY LoopFrame, Zenon DEF LoopStep, Known
<1>1. CASE MainAccept
  <2>1. StreamBacklog
    BY <1>1, OneAckAt, Zenon DEF MainAccept
  <2>2. PICK d \in Known : backlog = <<d>> /\ dialId[d] = knockCh
    BY <2>1, Zenon DEF StreamBacklog
  <2>3. backlog' = <<>> /\ mainConn' = d
    BY <1>1, <2>2, SMT, Z3, SMTT(20) DEF MainAccept
  <2>4. Elsewhere("route")'
    BY <1>1, <2>1, <2>3, Zenon DEF MainAccept, StreamBacklog, Elsewhere
  <2> QED
    BY <1>0, <1>1, <2>2, <2>3, <2>4, Zenon DEF MainAccept, StreamRoute, OneAck
<1>2. CASE MainRoute
  <2>1. StreamRoute /\ main' # "route"
    BY <1>2, OneAckAt, Zenon DEF MainRoute
  <2>2. Elsewhere("nowhere")'
    BY <1>2, <2>1, Zenon DEF MainRoute, StreamRoute, Elsewhere
  <2> QED
    BY <2>2, Zenon DEF OneAck
<1> QED
  BY <1>1, <1>2, Zenon

\* Every step of a plugin that accepts keeps it.
LEMMA OneAckPreserved ==
  ASSUME StateOK, ClientIds, ServerIds, side = "plugin", NotHost, OneAck,
         [Next]_vars
  PROVE  OneAck'
<1> USE DEF wires, dialVars, pendVars, accVars, lfkVars, mainVars, connVars
<1>0. DialsOK /\ AcceptsOK /\ ListensOK
  BY Zenon DEF StateOK
<1>1. CASE UNCHANGED <<acks, ackRun, clientCh, backlog, knockCh, main, mainConn,
                       listen, acceptId, dial>>
  BY <1>1, OneAckStays, Zenon
<1>2. ASSUME NEW d \in Dials, NEW id \in Ids, DialKnock(d, id) PROVE OneAck'
  <2>1. \A x \in Dials : dial'[x] = "open" => dial[x] = "open"
    BY <1>0, <1>2, Zenon DEF DialKnock, DialsOK
  <2> QED
    BY <1>2, <2>1, KnockFrame, OneAckStays, Zenon
<1>3. ASSUME NEW d \in Dials, DialEndStep(d) PROVE OneAck'
  <2>1. CASE DialWait(d) \/ DialExpire(d) \/ DialTimeout(d)
    <3>1. \A x \in Dials : dial'[x] = "open" => dial[x] = "open"
      BY <1>0, <2>1, Zenon DEF DialWait, DialExpire, DialTimeout, DialsOK
    <3>2. UNCHANGED <<ackRun, clientCh, backlog>>
      BY <2>1, Zenon DEF DialWait, DialExpire, DialTimeout
    <3> QED
      BY <1>3, <3>1, <3>2, DialFrame, OneAckStays, Zenon
  <2>2. CASE Reap(d)
    BY <1>1, <2>2, Zenon DEF Reap
  <2> QED
    BY <1>3, <2>1, <2>2, StreamOpened, Zenon DEF DialEndStep
<1>4. CASE RunStep
  <2>1. CASE RunKnock \/ RunKnockQueue
    BY <1>1, <2>1, Zenon DEF RunKnock, RunKnockQueue
  <2> QED
    BY <1>4, <2>1, AckReceived, Zenon DEF RunStep
<1>5. ASSUME NEW a \in Accepts, NEW id \in Ids, AcceptCall(a, id)
      PROVE  OneAck'
  <2>1. /\ \A b \in Accepts : listen'[b] = "ack" => listen[b] = "ack"
        /\ \A b \in Accepts : acceptId[b] # None => acceptId'[b] = acceptId[b]
    BY <1>0, <1>5, Zenon DEF AcceptCall, AcceptsOK, ListensOK
  <2> QED
    BY <1>5, <2>1, CallFrame, OneAckStays, Zenon
<1>6. ASSUME NEW a \in Accepts, AcceptEndStep(a) PROVE OneAck'
  <2>1. ~AcceptKnockHost(a) /\ ~AcceptKnockUnblock(a)
    BY Zenon DEF AcceptKnockHost, AcceptKnockUnblock, NotHost
  <2>2. CASE AcceptRegister(a) \/ ListenerClose(a)
    BY <1>1, <2>2, Zenon DEF AcceptRegister, ListenerClose
  <2>3. CASE ListenStart(a) \/ ListenKnock(a) \/ ListenDone(a)
    <3>1. \A b \in Accepts : listen'[b] = "ack" => listen[b] = "ack"
      BY <1>0, <2>3, Zenon DEF ListenStart, ListenKnock, ListenDone, ListensOK
    <3>2. UNCHANGED <<acks, knockCh>>
      BY <2>3, Zenon DEF ListenStart, ListenKnock, ListenDone
    <3> QED
      BY <1>6, <3>1, <3>2, AcceptFrame, OneAckStays, Zenon
  <2> QED
    BY <1>6, <2>1, <2>2, <2>3, AckSent, Zenon DEF AcceptEndStep, ListenStep
<1>7. CASE LoopStep
  <2>1. ASSUME NEW a \in Accepts, ServeStep(a) PROVE OneAck'
    <3>1. ~HostUnblocked(a) /\ ~HostAccept(a)
      BY Zenon DEF HostUnblocked, HostAccept, NotHost
    <3>2. CASE Serve(a) \/ ServeEOF(a)
      BY <1>1, <3>2, Zenon DEF Serve, ServeEOF
    <3>3. CASE MainHandoff(a)
      <4>1. main' # "route" /\ UNCHANGED <<backlog, knockCh>>
        BY <3>3, Zenon DEF MainHandoff
      <4> QED
        BY <1>7, <4>1, LoopFrame, OneAckStays, Zenon
    <3> QED
      BY <2>1, <3>1, <3>2, <3>3, Zenon DEF ServeStep
  <2> QED
    BY <1>7, <2>1, StreamRouted, Zenon DEF LoopStep
<1>8. CASE UNCHANGED vars
  BY <1>1, <1>8, Zenon DEF vars
<1> QED
  BY <1>2, <1>3, <1>4, <1>5, <1>6, <1>7, <1>8, StepCases, Zenon

\* What is handed over, or has been, went to a listener of its id.
Delivered ==
  /\ main = "handoff" => acceptId[mainTo] = dialId[mainConn]
  /\ \A d \in Dials : conn[d] # None => d \in Known /\ ToItsId(d)
  /\ astray # {} => main = "failed"

\* Every step keeps what has been delivered where it belongs.
LEMMA DeliveredPreserved ==
  ASSUME StateOK, ServerIds, side = "plugin", NotHost, OneAck, Delivered,
         [Next]_vars
  PROVE  Delivered'
<1> USE NoneIsNothing DEF wires, dialVars, accVars, mainVars, connVars
<1>0. /\ DialsOK /\ AcceptsOK /\ ListensOK /\ LoopsOK
      /\ Known \subseteq Dials /\ Known \subseteq Known'
      /\ \A d \in Known : dialId[d] \in Ids /\ dialId'[d] = dialId[d]
  BY KnownGrows, ZenonT(40) DEF StateOK, Known, DialsOK
<1>1. CASE /\ UNCHANGED <<main, mainConn, mainTo, conn, astray>>
           /\ \A a \in Accepts : acceptId[a] # None => acceptId'[a] = acceptId[a]
  <2>1. main' = "handoff" => acceptId'[mainTo'] = dialId'[mainConn']
    BY <1>0, <1>1, SMT, Z3, SMTT(20) DEF Delivered, LoopsOK
  <2>2. ASSUME NEW d \in Dials, conn'[d] # None PROVE d \in Known' /\ ToItsId(d)'
    <3>1. d \in Known /\ conn[d] \in Accepts /\ acceptId[conn[d]] = dialId[d]
      BY <1>0, <1>1, <2>2, Zenon DEF Delivered, ToItsId, LoopsOK
    <3> QED
      BY <1>0, <1>1, <3>1, Zenon DEF ToItsId
  <2> QED
    BY <1>1, <2>1, <2>2, Zenon DEF Delivered
<1>2. CASE LoopStep
  <2>0. Known' = Known /\ UNCHANGED <<dialId, acceptId>>
    BY <1>2, LoopFrame, Zenon DEF Known
  <2>1. ASSUME NEW a \in Accepts, ServeStep(a) PROVE Delivered'
    <3>1. ~HostUnblocked(a) /\ ~HostAccept(a)
      BY Zenon DEF HostUnblocked, HostAccept, NotHost
    <3>2. CASE Serve(a) \/ ServeEOF(a)
      BY <1>1, <2>0, <3>2, Zenon DEF Serve, ServeEOF
    <3>3. CASE MainHandoff(a)
      BY <1>0, <2>0, <3>3, Zenon DEF MainHandoff, Delivered, ToItsId, LoopsOK
    <3> QED
      BY <2>1, <3>1, <3>2, <3>3, Zenon DEF ServeStep
  <2>2. CASE MainAccept
    BY <1>0, <2>0, <2>2, Zenon DEF MainAccept, Delivered, ToItsId
  <2>3. CASE MainRoute
    <3>1. knockCh # None /\ knockCh \in Ids /\ dialId[mainConn] = knockCh
      <4>1. StreamRoute
        BY <2>3, OneAckAt, Zenon DEF MainRoute
      <4> QED
        BY <1>0, <4>1, Zenon DEF StreamRoute, LoopsOK
    <3>2. listeners[knockCh] # None => acceptId[listeners[knockCh]] = knockCh
      BY <3>1, Zenon DEF ServerIds
    <3>3. conn' = conn
      BY <2>3, Zenon DEF MainRoute
    <3>4. /\ main' = "handoff" => acceptId[mainTo'] = dialId[mainConn']
          /\ astray' # {} => main' = "failed"
      BY <2>3, <3>1, <3>2, Zenon DEF MainRoute, Delivered
    <3> QED
      BY <2>0, <3>3, <3>4, Zenon DEF Delivered, ToItsId
  <2> QED
    BY <1>2, <2>1, <2>2, <2>3, Zenon DEF LoopStep
<1>3. ASSUME NEW d \in Dials, NEW id \in Ids, DialKnock(d, id)
      PROVE  Delivered'
  BY <1>1, <1>3, KnockFrame, Zenon
<1>4. ASSUME NEW d \in Dials, DialEndStep(d) PROVE Delivered'
  BY <1>1, <1>4, DialFrame, Zenon
<1>5. CASE RunStep
  BY <1>1, <1>5, RunFrame, Zenon
<1>6. ASSUME NEW a \in Accepts, NEW id \in Ids, AcceptCall(a, id)
      PROVE  Delivered'
  <2>1. \A b \in Accepts : acceptId[b] # None => acceptId'[b] = acceptId[b]
    BY <1>0, <1>6, Zenon DEF AcceptCall, AcceptsOK
  <2> QED
    BY <1>1, <1>6, <2>1, CallFrame, Zenon
<1>7. ASSUME NEW a \in Accepts, AcceptEndStep(a) PROVE Delivered'
  BY <1>1, <1>7, AcceptFrame, Zenon
<1>8. CASE UNCHANGED vars
  BY <1>1, <1>8, Zenon DEF vars
<1> QED
  BY <1>2, <1>3, <1>4, <1>5, <1>6, <1>7, <1>8, StepCases, Zenon

IdInv == StateOK /\ ClientIds /\ ServerIds
RouteInv == side = "plugin" => NotHost /\ OneAck /\ Delivered

\* An entry, its channel and what is taken from it have one id.
LEMMA IdsKept == Spec => []IdInv
<1>1. Init => IdInv
  <2> SUFFICES ASSUME Init PROVE ClientIds /\ ServerIds
    BY InitTypes, Zenon DEF IdInv
  <2>1. ClientIds
    BY Zenon DEF Init, ClientIds
  <2>2. ServerIds
    BY Zenon DEF Init, ServerIds
  <2> QED
    BY <2>1, <2>2, Zenon
<1>2. IdInv /\ [Next]_vars => IdInv'
  BY TypesPreserved, ClientIdsPreserved, ServerIdsPreserved, Zenon DEF IdInv
<1> QED
  BY <1>1, <1>2, PTL DEF Spec

\* A plugin has one acknowledgement or stream at a time, and routes it by its id.
LEMMA RoutesKept == Spec => []RouteInv
<1>1. Init => RouteInv
  <2> SUFFICES ASSUME Init PROVE NotHost /\ OneAck /\ Delivered
    BY Zenon DEF RouteInv
  <2>1. NotHost
    BY Zenon DEF Init, NotHost
  <2>2. Elsewhere("nowhere")
    BY Zenon DEF Init, Elsewhere
  <2>3. Delivered
    BY Zenon DEF Init, Delivered
  <2> QED
    BY <2>1, <2>2, <2>3, Zenon DEF OneAck
<1>2. IdInv /\ RouteInv /\ [Next]_vars => RouteInv'
  <2> SUFFICES ASSUME IdInv, RouteInv, [Next]_vars PROVE RouteInv'
    BY Zenon
  <2>1. side' = side
    BY StepCases, KnockFrame, DialFrame, RunFrame, CallFrame, AcceptFrame,
       LoopFrame, Zenon DEF vars
  <2> QED
    BY <2>1, NotHostPreserved, OneAckPreserved, DeliveredPreserved, Zenon
    DEF IdInv, RouteInv
<1> QED
  BY <1>1, <1>2, IdsKept, PTL DEF Spec

\* When the plugin accepts, a stream reaches only a listener of the id that was
\* knocked for, and is never given to the plugin's main server, for any number
\* of Dials, Accepts and ids, also when knocks time out, acknowledgements come
\* late or are taken by another Dial of the id, and listeners are closed and
\* made again.
THEOREM RoutesById == Spec => []PluginRoutesById
<1>1. RouteInv => PluginRoutesById
  BY Zenon DEF RouteInv, Delivered, PluginRoutesById, ToItsId
<1> QED
  BY <1>1, RoutesKept, PTL

-----------------------------------------------------------------------------
(* Knocks and acknowledgements on their way.  A knock is on the broker's   *)
(* stream, held by Run, queued in an entry or held by listenForKnocks, and *)
(* its acknowledgement on the stream, held by Run or queued: each Dial's   *)
(* message is in one of these places at most, and there once.              *)

InSeq(s, d) == \E i \in 1..Len(s) : s[i] = d
Distinct(s) == \A i, j \in 1..Len(s) : s[i] = s[j] => i = j
OneEach(f, S) == \A x, y \in S : f[x] # None /\ f[x] = f[y] => x = y

KnockOnWire(d) == InSeq(knocks, d)
KnockTaken(d) == knockRun # <<>> /\ knockRun[1] = d
KnockQueued(d) == \E e \in ServerEntries : serverCh[e] = d
KnockHeard(d) == \E a \in Accepts : listenMsg[a] = d
AckOnWire(d) == InSeq(acks, d)
AckTaken(d) == ackRun # <<>> /\ ackRun[1] = d
AckQueued(d) == \E e \in ClientEntries : clientCh[e] = d

Unanswered(d) == \/ KnockOnWire(d) \/ KnockTaken(d) \/ KnockQueued(d)
                 \/ KnockHeard(d) \/ AckOnWire(d)
InPassing(d) == Unanswered(d) \/ AckTaken(d) \/ AckQueued(d)

OnePlace(d) ==
  /\ KnockOnWire(d) => ~(\/ KnockTaken(d) \/ KnockQueued(d) \/ KnockHeard(d)
                       \/ AckOnWire(d) \/ AckTaken(d) \/ AckQueued(d))
  /\ KnockTaken(d) => ~(\/ KnockQueued(d) \/ KnockHeard(d) \/ AckOnWire(d)
                        \/ AckTaken(d) \/ AckQueued(d))
  /\ KnockQueued(d) =>
       ~(KnockHeard(d) \/ AckOnWire(d) \/ AckTaken(d) \/ AckQueued(d))
  /\ KnockHeard(d) => ~(AckOnWire(d) \/ AckTaken(d) \/ AckQueued(d))
  /\ AckOnWire(d) => ~(AckTaken(d) \/ AckQueued(d))
  /\ AckTaken(d) => ~AckQueued(d)

PassInv ==
  /\ \A d \in Dials : OnePlace(d)
  /\ Distinct(knocks) /\ Distinct(acks)
  /\ OneEach(serverCh, ServerEntries) /\ OneEach(listenMsg, Accepts)
  /\ OneEach(clientCh, ClientEntries)

passVars == <<knocks, knockRun, serverCh, listenMsg, acks, ackRun, clientCh>>

\* What is in a sequence after an Append ...
LEMMA SeqAppended ==
  ASSUME NEW S, NEW s \in Seq(S), NEW d \in S
  PROVE  /\ \A x : InSeq(Append(s, d), x) <=> InSeq(s, x) \/ x = d
         /\ Distinct(s) /\ ~InSeq(s, d) => Distinct(Append(s, d))
<1>1. /\ Len(Append(s, d)) = Len(s) + 1 /\ Len(s) \in Nat
      /\ Append(s, d)[Len(s) + 1] = d
      /\ \A i \in 1..Len(s) : Append(s, d)[i] = s[i]
  OBVIOUS
<1>2. \A i \in 1..Len(Append(s, d)) : i \in 1..Len(s) \/ i = Len(s) + 1
  BY <1>1, SMT, Z3, SMTT(20)
<1>3. /\ 1..Len(s) \subseteq 1..Len(Append(s, d))
      /\ Len(s) + 1 \in 1..Len(Append(s, d))
  BY <1>1, SMT, Z3, SMTT(20)
<1>4. \A x : InSeq(Append(s, d), x) <=> InSeq(s, x) \/ x = d
  BY <1>1, <1>2, <1>3, Zenon DEF InSeq
<1>5. ASSUME Distinct(s), ~InSeq(s, d) PROVE Distinct(Append(s, d))
  BY <1>1, <1>2, <1>5, Zenon DEF InSeq, Distinct
<1> QED
  BY <1>4, <1>5, Zenon

\* ... and when its head has been taken.
LEMMA SeqTaken ==
  ASSUME NEW S, NEW s \in Seq(S), s # <<>>, Distinct(s)
  PROVE  /\ Head(s) \in S /\ InSeq(s, Head(s))
         /\ \A x : InSeq(Tail(s), x) <=> InSeq(s, x) /\ x # Head(s)
         /\ Distinct(Tail(s))
<1>1. /\ Len(s) \in Nat \ {0} /\ Head(s) = s[1] /\ Head(s) \in S
      /\ Len(Tail(s)) = Len(s) - 1
      /\ \A i \in 1..Len(Tail(s)) : Tail(s)[i] = s[i + 1]
  OBVIOUS
<1>2. /\ 1 \in 1..Len(s)
      /\ \A i \in 1..Len(Tail(s)) : i + 1 \in 1..Len(s) /\ i + 1 # 1
      /\ \A i \in 1..Len(s) : i = 1 \/ \E j \in 1..Len(Tail(s)) : i = j + 1
      /\ \A i, j \in 1..Len(Tail(s)) : i + 1 = j + 1 => i = j
  <2>1. \A i \in 1..Len(s) : i # 1 => i - 1 \in 1..Len(Tail(s)) /\ i = (i - 1) + 1
    BY <1>1, SMT, Z3, SMTT(20)
  <2>2. \A i \in 1..Len(s) : i = 1 \/ \E j \in 1..Len(Tail(s)) : i = j + 1
    BY <2>1, Zenon
  <2> QED
    BY <1>1, <2>2, SMT, Z3, SMTT(20)
<1>3. InSeq(s, Head(s))
  BY <1>1, <1>2, Zenon DEF InSeq
<1>4. ASSUME NEW x, InSeq(Tail(s), x) PROVE InSeq(s, x) /\ x # Head(s)
  <2>1. PICK i \in 1..Len(Tail(s)) : Tail(s)[i] = x
    BY <1>4, Zenon DEF InSeq
  <2>2. s[i + 1] = x /\ i + 1 \in 1..Len(s) /\ i + 1 # 1
    BY <1>1, <1>2, <2>1, Zenon
  <2> QED
    BY <1>1, <1>2, <2>2, Zenon DEF InSeq, Distinct
<1>5. ASSUME NEW x, InSeq(s, x), x # Head(s) PROVE InSeq(Tail(s), x)
  <2>1. PICK i \in 1..Len(s) : s[i] = x
    BY <1>5, Zenon DEF InSeq
  <2>2. PICK j \in 1..Len(Tail(s)) : i = j + 1
    BY <1>1, <1>2, <1>5, <2>1, Zenon
  <2> QED
    BY <1>1, <2>1, <2>2, Zenon DEF InSeq
<1>6. Distinct(Tail(s))
  <2> SUFFICES ASSUME NEW i \in 1..Len(Tail(s)), NEW j \in 1..Len(Tail(s)),
                      Tail(s)[i] = Tail(s)[j]
               PROVE  i = j
    BY Zenon DEF Distinct
  <2>1. s[i + 1] = s[j + 1] /\ i + 1 \in 1..Len(s) /\ j + 1 \in 1..Len(s)
    BY <1>1, <1>2, Zenon
  <2>2. i + 1 = j + 1
    BY <2>1, Zenon DEF Distinct
  <2> QED
    BY <1>2, <2>2, Zenon
<1> QED
  BY <1>1, <1>3, <1>4, <1>5, <1>6, Zenon

\* A place that a step leaves alone.
LEMMA PlacesKept ==
  /\ knocks' = knocks => \A x : KnockOnWire(x)' <=> KnockOnWire(x)
  /\ knockRun' = knockRun => \A x : KnockTaken(x)' <=> KnockTaken(x)
  /\ serverCh' = serverCh => \A x : KnockQueued(x)' <=> KnockQueued(x)
  /\ listenMsg' = listenMsg => \A x : KnockHeard(x)' <=> KnockHeard(x)
  /\ acks' = acks => \A x : AckOnWire(x)' <=> AckOnWire(x)
  /\ ackRun' = ackRun => \A x : AckTaken(x)' <=> AckTaken(x)
  /\ clientCh' = clientCh => \A x : AckQueued(x)' <=> AckQueued(x)
BY Zenon DEF KnockOnWire, KnockTaken, KnockQueued, KnockHeard, AckOnWire,
     AckTaken, AckQueued

\* A slot that takes a new message, or is emptied, leaves one of each.
LEMMA OneEachKept ==
  ASSUME NEW S, NEW f, NEW g, OneEach(f, S), NEW d, NEW e \in S,
         \A x \in S : x # e => g[x] = f[x],
         g[e] = None \/ g[e] = f[e] \/ (g[e] = d /\ \A x \in S : f[x] # d)
  PROVE  OneEach(g, S)
<1> SUFFICES ASSUME NEW x \in S, NEW y \in S, g[x] # None, g[x] = g[y]
             PROVE  x = y
  BY Zenon DEF OneEach
<1>1. \A u, v \in S : f[u] # None /\ f[u] = f[v] => u = v
  BY Zenon DEF OneEach
<1>2. CASE x = e \/ y = e
  BY <1>1, <1>2, Zenon
<1>3. CASE x # e /\ y # e
  BY <1>1, <1>3, Zenon
<1> QED
  BY <1>2, <1>3, Zenon

\* Only the message of one Dial moves.
OnlyMoves(d) ==
  \A x \in Dials : x # d =>
    /\ KnockOnWire(x)' => KnockOnWire(x)
    /\ KnockTaken(x)' => KnockTaken(x)
    /\ KnockQueued(x)' => KnockQueued(x)
    /\ KnockHeard(x)' => KnockHeard(x)
    /\ AckOnWire(x)' => AckOnWire(x)
    /\ AckTaken(x)' => AckTaken(x)
    /\ AckQueued(x)' => AckQueued(x)

\* The other messages stay in one place.
LEMMA OthersStay ==
  ASSUME PassInv, NEW d \in Dials, OnlyMoves(d), OnePlace(d)'
  PROVE  \A x \in Dials : OnePlace(x)'
<1> SUFFICES ASSUME NEW x \in Dials, x # d PROVE OnePlace(x)'
  BY Zenon
<1>1. OnePlace(x)
  BY Zenon DEF PassInv
<1> QED
  BY <1>1, Zenon DEF OnlyMoves, OnePlace

\* The steps that move a message.
LEMMA PassSteps ==
  ASSUME [Next]_vars
  PROVE  \/ \E d \in Dials, id \in Ids : DialKnock(d, id)
         \/ \E d \in Dials : DialAck(d)
         \/ RunAck \/ RunAckQueue \/ RunKnock \/ RunKnockQueue
         \/ \E a \in Accepts : ListenKnock(a) \/ ListenAck(a)
         \/ UNCHANGED passVars
<1> USE DEF passVars, wires, pendVars, knockVars, lfkVars
<1>1. ASSUME NEW d \in Dials, DialEndStep(d)
      PROVE  DialAck(d) \/ UNCHANGED passVars
  BY <1>1, Zenon DEF DialEndStep, DialWait, DialExpire, DialTimeout, DialOpen,
       Reap
<1>2. ASSUME NEW a \in Accepts, AcceptEndStep(a)
      PROVE  ListenKnock(a) \/ ListenAck(a) \/ UNCHANGED passVars
  BY <1>2, Zenon DEF AcceptEndStep, AcceptRegister, ListenerClose, ListenStep,
       ListenStart, ListenDone, AcceptKnockHost, AcceptKnockUnblock,
       AcceptKnockPlugin
<1>3. ASSUME NEW a \in Accepts, NEW id \in Ids, AcceptCall(a, id)
      PROVE  UNCHANGED passVars
  BY <1>3, CallFrame, Zenon
<1>4. LoopStep \/ UNCHANGED vars => UNCHANGED passVars
  BY LoopFrame, Zenon DEF vars
<1> QED
  BY <1>1, <1>2, <1>3, <1>4, StepCases, Zenon DEF RunStep

\* A message that has not been sent is nowhere.
LEMMA IdleNowhere ==
  ASSUME StateOK, NEW d \in Dials, dial[d] = "idle"
  PROVE  ~InPassing(d) /\ d \notin Known
<1>1. d \notin Known /\ d # None
  BY NoneIsNothing, Zenon DEF StateOK, DialsOK, Known
<1>2. ~KnockOnWire(d) /\ ~AckOnWire(d)
  <2>1. \A i \in 1..Len(knocks) : knocks[i] \in Known
    BY SMT, Z3, SMTT(20) DEF StateOK, WiresOK
  <2>2. \A i \in 1..Len(acks) : acks[i] \in Known
    BY SMT, Z3, SMTT(20) DEF StateOK, WiresOK
  <2> QED
    BY <1>1, <2>1, <2>2, Zenon DEF KnockOnWire, AckOnWire, InSeq
<1>3. ~KnockTaken(d) /\ ~AckTaken(d)
  BY <1>1, SMT, Z3, SMTT(20)
  DEF StateOK, KnocksOK, PendingOK, KnockTaken, AckTaken
<1>4. ~KnockQueued(d) /\ ~KnockHeard(d) /\ ~AckQueued(d)
  <2>1. \A e \in ServerEntries : serverCh[e] # d
    BY <1>1, Zenon DEF StateOK, KnocksOK
  <2>2. \A a \in Accepts : listenMsg[a] # d
    BY <1>1, Zenon DEF StateOK, ListensOK
  <2>3. \A e \in ClientEntries : clientCh[e] # d
    BY <1>1, Zenon DEF StateOK, PendingOK
  <2> QED
    BY <2>1, <2>2, <2>3, Zenon DEF KnockQueued, KnockHeard, AckQueued
<1> QED
  BY <1>1, <1>2, <1>3, <1>4, Zenon DEF InPassing, Unanswered

\* A Dial that was idle sends its knock.
LEMMA KnockSends ==
  ASSUME StateOK, PassInv, NEW d \in Dials, NEW id \in Ids, DialKnock(d, id)
  PROVE  /\ PassInv'
         /\ OnlyMoves(d) /\ ~InPassing(d) /\ KnockOnWire(d)'
<1> USE NoneIsNothing DEF wires, dialVars, pendVars, accVars, knockVars, lfkVars
<1>t. /\ DialsOK /\ PendingOK /\ AcceptsOK /\ KnocksOK /\ ListensOK /\ WiresOK
      /\ Known \subseteq Dials
  BY Zenon DEF StateOK, Known
<1>k. knocks \in Seq(Known) /\ Distinct(knocks)
  BY <1>t, Zenon DEF WiresOK, PassInv
<1>1. ~InPassing(d)
  BY IdleNowhere, Zenon DEF DialKnock
<1>2. /\ knocks' = Append(knocks, d)
      /\ UNCHANGED <<knockRun, serverCh, listenMsg, acks, ackRun, clientCh>>
  BY Zenon DEF DialKnock
<1>3. knocks \in Seq(Dials)
  BY <1>t, <1>k, SeqGrows, Zenon
<1>4. /\ \A x : KnockOnWire(x)' <=> KnockOnWire(x) \/ x = d
      /\ Distinct(knocks')
  BY <1>k, <1>1, <1>2, <1>3, SeqAppended, Zenon
     DEF KnockOnWire, InPassing, Unanswered
<1>5. OnlyMoves(d) /\ OnePlace(d)'
  BY <1>1, <1>2, <1>4, PlacesKept, Zenon DEF OnlyMoves, OnePlace,
       InPassing, Unanswered
<1>9. PassInv'
  BY <1>2, <1>4, <1>5, OthersStay, Zenon DEF PassInv
<1> QED
  BY <1>1, <1>4, <1>5, <1>9, Zenon

\* Run takes a knock from the stream, ...
LEMMA RunTakesKnock ==
  ASSUME StateOK, PassInv, RunKnock
  PROVE  PassInv' /\ \E d \in Dials :
           /\ d = Head(knocks) /\ OnlyMoves(d)
           /\ KnockOnWire(d) /\ KnockTaken(d)'
<1> USE NoneIsNothing DEF wires, dialVars, pendVars, accVars, knockVars, lfkVars
<1>t. /\ DialsOK /\ PendingOK /\ AcceptsOK /\ KnocksOK /\ ListensOK /\ WiresOK
      /\ Known \subseteq Dials
  BY Zenon DEF StateOK, Known
<1>k. knocks \in Seq(Known) /\ Distinct(knocks)
  BY <1>t, Zenon DEF WiresOK, PassInv
<1>0. PICK d : d = Head(knocks)
  BY Zenon
<1>1. /\ knockRun = <<>> /\ knocks # <<>> /\ knocks' = Tail(knocks)
      /\ \E e : knockRun' = <<d, e>>
      /\ UNCHANGED <<serverCh, listenMsg, acks, ackRun, clientCh>>
  BY <1>0, Zenon DEF RunKnock
<1>2. /\ d \in Dials /\ KnockOnWire(d) /\ Distinct(knocks')
      /\ \A x : KnockOnWire(x)' <=> KnockOnWire(x) /\ x # d
  BY <1>t, <1>k, <1>0, <1>1, SeqTaken, Zenon DEF KnockOnWire
<1>3. \A x : KnockTaken(x)' => x = d
  BY <1>1, SMT, Z3, SMTT(20) DEF KnockTaken
<1>4. OnePlace(d)
  BY <1>2, Zenon DEF PassInv
<1>5. OnlyMoves(d) /\ OnePlace(d)'
  <2>1. /\ \A x : KnockQueued(x)' <=> KnockQueued(x)
        /\ \A x : KnockHeard(x)' <=> KnockHeard(x)
        /\ \A x : AckQueued(x)' <=> AckQueued(x)
    BY <1>1, PlacesKept, Zenon
  <2>2. /\ \A x : AckOnWire(x)' <=> AckOnWire(x)
        /\ \A x : AckTaken(x)' <=> AckTaken(x)
    BY <1>1, PlacesKept, Zenon
  <2> QED
    BY <1>2, <1>3, <1>4, <2>1, <2>2, Zenon DEF OnlyMoves, OnePlace
<1>9. PassInv'
  <2>1. \A x \in Dials : OnePlace(x)'
    BY <1>2, <1>5, OthersStay, Zenon
  <2> QED
    BY <1>1, <1>2, <2>1, Zenon DEF PassInv
<1>8. KnockTaken(d)'
  BY <1>1, SMT, Z3, SMTT(20) DEF KnockTaken
<1> QED
  BY <1>0, <1>2, <1>3, <1>5, <1>8, <1>9, Zenon

\* ... and queues it in its entry or drops it.
LEMMA RunQueuesKnock ==
  ASSUME StateOK, PassInv, RunKnockQueue
  PROVE  PassInv' /\ \E d \in Dials :
           /\ d = knockRun[1] /\ OnlyMoves(d)
           /\ KnockTaken(d) /\ ~KnockTaken(d)'
           /\ serverCh[knockRun[2]] = None => KnockQueued(d)'
<1> USE NoneIsNothing DEF wires, dialVars, pendVars, accVars, knockVars, lfkVars
<1>t. /\ DialsOK /\ PendingOK /\ AcceptsOK /\ KnocksOK /\ ListensOK /\ WiresOK
      /\ Known \subseteq Dials
  BY Zenon DEF StateOK, Known
<1>1. PICK d \in Known, e \in ServerEntries : knockRun = <<d, e>>
  BY <1>t, SMT, Z3, SMTT(20) DEF RunKnockQueue, KnocksOK
<1>2. /\ knockRun[1] = d /\ knockRun[2] = e /\ knockRun # <<>> /\ d \in Dials
  BY <1>t, <1>1, SMT, Z3, SMTT(20)
<1>3. /\ KnockTaken(d) /\ knockRun' = <<>>
      /\ \A x \in ServerEntries : x # e => serverCh'[x] = serverCh[x]
      /\ serverCh'[e] \in {serverCh[e], d}
      /\ UNCHANGED <<knocks, listenMsg, acks, ackRun, clientCh>>
  BY <1>t, <1>2, Zenon DEF RunKnockQueue, KnockTaken, KnocksOK
<1>4. OnePlace(d)
  BY <1>2, Zenon DEF PassInv
<1>5. \A x : x # d /\ KnockQueued(x)' => KnockQueued(x)
  BY <1>3, Zenon DEF KnockQueued
<1>6. OnlyMoves(d) /\ OnePlace(d)'
  <2>1. \A x : ~KnockTaken(x)'
    BY <1>3, Zenon DEF KnockTaken
  <2> QED
    BY <1>3, <1>4, <1>5, <2>1, PlacesKept, Zenon DEF OnlyMoves, OnePlace
<1>7. \A x \in ServerEntries : serverCh[x] # d
  BY <1>3, <1>4, Zenon DEF OnePlace, KnockQueued
<1>8. OneEach(serverCh', ServerEntries)
  <2>1. \/ serverCh'[e] = serverCh[e]
        \/ serverCh'[e] = d /\ \A x \in ServerEntries : serverCh[x] # d
    BY <1>3, <1>7, Zenon
  <2>2. OneEach(serverCh, ServerEntries)
    BY Zenon DEF PassInv
  <2> QED
    BY <1>3, <2>1, <2>2, OneEachKept, SMT, Z3, SMTT(20)
<1>9. PassInv'
  BY <1>2, <1>3, <1>6, <1>8, OthersStay, Zenon DEF PassInv
<1>10. serverCh[e] = None => KnockQueued(d)'
  BY <1>t, <1>2, Zenon DEF RunKnockQueue, KnockQueued, KnocksOK
<1> QED
  BY <1>2, <1>3, <1>6, <1>9, <1>10, Zenon DEF KnockTaken

\* listenForKnocks takes it, ...
LEMMA ListenTakesKnock ==
  ASSUME StateOK, PassInv, NEW a \in Accepts, ListenKnock(a)
  PROVE  PassInv' /\ \E d \in Dials :
           /\ d = serverCh[listenEntry[a]] /\ OnlyMoves(d)
           /\ KnockQueued(d) /\ KnockHeard(d)'
<1> USE NoneIsNothing DEF wires, dialVars, pendVars, accVars, knockVars, lfkVars
<1>t. /\ DialsOK /\ PendingOK /\ AcceptsOK /\ KnocksOK /\ ListensOK /\ WiresOK
      /\ Known \subseteq Dials
  BY Zenon DEF StateOK, Known
<1>1. PICK d \in Known, e \in ServerEntries :
        e = listenEntry[a] /\ d = serverCh[e]
  BY <1>t, SMT, Z3, SMTT(20) DEF ListenKnock, ListensOK, KnocksOK
<1>2. /\ d \in Dials /\ d # None /\ KnockQueued(d)
  BY <1>t, <1>1, Zenon DEF KnockQueued
<1>3. /\ serverCh'[e] = None
      /\ \A x \in ServerEntries : x # e => serverCh'[x] = serverCh[x]
      /\ listenMsg'[a] = d
      /\ \A b \in Accepts : b # a => listenMsg'[b] = listenMsg[b]
      /\ UNCHANGED <<knocks, knockRun, acks, ackRun, clientCh>>
  BY <1>t, <1>1, Zenon DEF ListenKnock, KnocksOK, ListensOK
<1>4. OnePlace(d)
  BY <1>2, Zenon DEF PassInv
<1>5. ~KnockQueued(d)' /\ \A x \in Dials : KnockQueued(x)' => KnockQueued(x)
  <2>1. \A x \in ServerEntries : serverCh[x] = d => x = e
    BY <1>1, <1>2, Zenon DEF PassInv, OneEach
  <2>2. \A x \in ServerEntries : serverCh'[x] # d
    BY <1>2, <1>3, <2>1, Zenon
  <2>3. \A x \in ServerEntries : serverCh'[x] = None \/ serverCh'[x] = serverCh[x]
    BY <1>3, Zenon
  <2> QED
    BY <2>2, <2>3, Zenon DEF KnockQueued
<1>6. \A x : x # d /\ KnockHeard(x)' => KnockHeard(x)
  BY <1>3, Zenon DEF KnockHeard
<1>7. OnlyMoves(d) /\ OnePlace(d)'
  BY <1>2, <1>3, <1>4, <1>5, <1>6, PlacesKept, Zenon DEF OnlyMoves, OnePlace
<1>8. OneEach(serverCh', ServerEntries)
  BY <1>3, OneEachKept, Zenon DEF PassInv
<1>9. OneEach(listenMsg', Accepts)
  <2>1. \A b \in Accepts : listenMsg[b] # d
    BY <1>2, <1>4, Zenon DEF OnePlace, KnockHeard
  <2>2. OneEach(listenMsg, Accepts)
    BY Zenon DEF PassInv
  <2> QED
    BY <1>3, <2>1, <2>2, OneEachKept, SMT, Z3, SMTT(20)
<1>10. PassInv'
  BY <1>2, <1>3, <1>7, <1>8, <1>9, OthersStay, Zenon DEF PassInv
<1>11. KnockHeard(d)'
  BY <1>3, Zenon DEF KnockHeard
<1> QED
  BY <1>1, <1>2, <1>7, <1>10, <1>11, Zenon

\* ... and answers it.
LEMMA ListenAnswers ==
  ASSUME StateOK, PassInv, NEW a \in Accepts, ListenAck(a)
  PROVE  PassInv' /\ \E d \in Dials :
           /\ d = listenMsg[a] /\ OnlyMoves(d)
           /\ KnockHeard(d) /\ AckOnWire(d)'
<1> USE NoneIsNothing DEF wires, dialVars, pendVars, accVars, knockVars, lfkVars
<1>t. /\ DialsOK /\ PendingOK /\ AcceptsOK /\ KnocksOK /\ ListensOK /\ WiresOK
      /\ Known \subseteq Dials
  BY Zenon DEF StateOK, Known
<1>a. acks \in Seq(Known) /\ Distinct(acks)
  BY <1>t, Zenon DEF WiresOK, PassInv
<1>1. PICK d \in Known : d = listenMsg[a]
  BY <1>t, Zenon DEF ListenAck, ListensOK
<1>2. /\ d \in Dials /\ d # None /\ KnockHeard(d)
  BY <1>t, <1>1, Zenon DEF KnockHeard
<1>3. /\ acks' = Append(acks, d)
      /\ listenMsg'[a] = None
      /\ \A b \in Accepts : b # a => listenMsg'[b] = listenMsg[b]
      /\ UNCHANGED <<knocks, knockRun, serverCh, ackRun, clientCh>>
  BY <1>t, <1>1, Zenon DEF ListenAck, ListensOK
<1>4. OnePlace(d)
  BY <1>2, Zenon DEF PassInv
<1>5. ~KnockHeard(d)' /\ \A x \in Dials : KnockHeard(x)' => KnockHeard(x)
  <2>1. \A b \in Accepts : listenMsg[b] = d => b = a
    BY <1>1, <1>2, Zenon DEF PassInv, OneEach
  <2>2. \A b \in Accepts : listenMsg'[b] # d
    BY <1>2, <1>3, <2>1, Zenon
  <2>3. \A b \in Accepts : listenMsg'[b] = None \/ listenMsg'[b] = listenMsg[b]
    BY <1>3, Zenon
  <2> QED
    BY <2>2, <2>3, Zenon DEF KnockHeard
<1>6. /\ \A x : AckOnWire(x)' <=> AckOnWire(x) \/ x = d
      /\ Distinct(acks')
  BY <1>a, <1>2, <1>3, <1>4, SeqAppended, Zenon DEF AckOnWire, OnePlace
<1>7. OnlyMoves(d) /\ OnePlace(d)'
  BY <1>2, <1>3, <1>4, <1>5, <1>6, PlacesKept, Zenon DEF OnlyMoves, OnePlace
<1>8. OneEach(listenMsg', Accepts)
  BY <1>3, OneEachKept, Zenon DEF PassInv
<1>9. PassInv'
  BY <1>2, <1>3, <1>6, <1>7, <1>8, OthersStay, Zenon DEF PassInv
<1> QED
  BY <1>1, <1>2, <1>6, <1>7, <1>9, Zenon

\* Run takes the acknowledgement, ...
LEMMA RunTakesAck ==
  ASSUME StateOK, PassInv, RunAck
  PROVE  PassInv' /\ \E d \in Dials :
           /\ d = Head(acks) /\ OnlyMoves(d)
           /\ AckOnWire(d) /\ AckTaken(d)'
<1> USE NoneIsNothing DEF wires, dialVars, pendVars, accVars, knockVars, lfkVars
<1>t. /\ DialsOK /\ PendingOK /\ AcceptsOK /\ KnocksOK /\ ListensOK /\ WiresOK
      /\ Known \subseteq Dials
  BY Zenon DEF StateOK, Known
<1>a. acks \in Seq(Known) /\ Distinct(acks)
  BY <1>t, Zenon DEF WiresOK, PassInv
<1>0. PICK d : d = Head(acks)
  BY Zenon
<1>1. /\ ackRun = <<>> /\ acks # <<>> /\ acks' = Tail(acks)
      /\ \E e : ackRun' = <<d, e>>
      /\ UNCHANGED <<knocks, serverCh, listenMsg, knockRun, clientCh>>
  BY <1>0, Zenon DEF RunAck
<1>2. /\ d \in Dials /\ AckOnWire(d) /\ Distinct(acks')
      /\ \A x : AckOnWire(x)' <=> AckOnWire(x) /\ x # d
  BY <1>t, <1>a, <1>0, <1>1, SeqTaken, Zenon DEF AckOnWire
<1>3. \A x : AckTaken(x)' => x = d
  BY <1>1, SMT, Z3, SMTT(20) DEF AckTaken
<1>4. OnePlace(d)
  BY <1>2, Zenon DEF PassInv
<1>5. OnlyMoves(d) /\ OnePlace(d)'
  <2>1. /\ \A x : KnockQueued(x)' <=> KnockQueued(x)
        /\ \A x : KnockHeard(x)' <=> KnockHeard(x)
        /\ \A x : AckQueued(x)' <=> AckQueued(x)
    BY <1>1, PlacesKept, Zenon
  <2>2. /\ \A x : KnockOnWire(x)' <=> KnockOnWire(x)
        /\ \A x : KnockTaken(x)' <=> KnockTaken(x)
    BY <1>1, PlacesKept, Zenon
  <2> QED
    BY <1>2, <1>3, <1>4, <2>1, <2>2, Zenon DEF OnlyMoves, OnePlace
<1>9. PassInv'
  <2>1. \A x \in Dials : OnePlace(x)'
    BY <1>2, <1>5, OthersStay, Zenon
  <2> QED
    BY <1>1, <1>2, <2>1, ZenonT(40) DEF PassInv
<1>8. AckTaken(d)'
  BY <1>1, SMT, Z3, SMTT(20) DEF AckTaken
<1> QED
  BY <1>0, <1>2, <1>3, <1>5, <1>8, <1>9, Zenon

\* ... and queues it or drops it, ...
LEMMA RunQueuesAck ==
  ASSUME StateOK, PassInv, RunAckQueue
  PROVE  PassInv' /\ \E d \in Dials :
           /\ d = ackRun[1] /\ OnlyMoves(d)
           /\ AckTaken(d) /\ ~AckTaken(d)'
           /\ clientCh[ackRun[2]] = None => AckQueued(d)'
<1> USE NoneIsNothing DEF wires, dialVars, pendVars, accVars, knockVars, lfkVars
<1>t. /\ DialsOK /\ PendingOK /\ AcceptsOK /\ KnocksOK /\ ListensOK /\ WiresOK
      /\ Known \subseteq Dials
  BY Zenon DEF StateOK, Known
<1>1. PICK d \in Known, e \in ClientEntries : ackRun = <<d, e>>
  BY <1>t, SMT, Z3, SMTT(20) DEF RunAckQueue, PendingOK
<1>2. /\ ackRun[1] = d /\ ackRun[2] = e /\ ackRun # <<>> /\ d \in Dials
  BY <1>t, <1>1, SMT, Z3, SMTT(20)
<1>3. /\ AckTaken(d) /\ ackRun' = <<>>
      /\ \A x \in ClientEntries : x # e => clientCh'[x] = clientCh[x]
      /\ clientCh'[e] \in {clientCh[e], d}
      /\ UNCHANGED <<knocks, listenMsg, acks, knockRun, serverCh>>
  BY <1>t, <1>2, Zenon DEF RunAckQueue, AckTaken, PendingOK
<1>4. OnePlace(d)
  BY <1>2, Zenon DEF PassInv
<1>5. \A x : x # d /\ AckQueued(x)' => AckQueued(x)
  BY <1>3, Zenon DEF AckQueued
<1>6. OnlyMoves(d) /\ OnePlace(d)'
  <2>1. \A x : ~AckTaken(x)'
    BY <1>3, Zenon DEF AckTaken
  <2> QED
    BY <1>3, <1>4, <1>5, <2>1, PlacesKept, Zenon DEF OnlyMoves, OnePlace
<1>7. \A x \in ClientEntries : clientCh[x] # d
  BY <1>3, <1>4, Zenon DEF OnePlace, AckQueued
<1>8. OneEach(clientCh', ClientEntries)
  <2>1. \/ clientCh'[e] = clientCh[e]
        \/ clientCh'[e] = d /\ \A x \in ClientEntries : clientCh[x] # d
    BY <1>3, <1>7, Zenon
  <2>2. OneEach(clientCh, ClientEntries)
    BY Zenon DEF PassInv
  <2> QED
    BY <1>3, <2>1, <2>2, OneEachKept, SMT, Z3, SMTT(20)
<1>9. PassInv'
  BY <1>2, <1>3, <1>6, <1>8, OthersStay, Zenon DEF PassInv
<1>10. clientCh[e] = None => AckQueued(d)'
  BY <1>t, <1>2, Zenon DEF RunAckQueue, AckQueued, PendingOK
<1> QED
  BY <1>2, <1>3, <1>6, <1>9, <1>10, Zenon DEF AckTaken

\* ... and a Dial of the id takes it.
LEMMA DialTakesAck ==
  ASSUME StateOK, PassInv, NEW x \in Dials, DialAck(x)
  PROVE  PassInv' /\ \E d \in Dials :
           /\ d = clientCh[dialEntry[x]] /\ OnlyMoves(d)
           /\ AckQueued(d) /\ ~InPassing(d)'
<1> USE NoneIsNothing DEF wires, dialVars, pendVars, accVars, knockVars, lfkVars
<1>t. /\ DialsOK /\ PendingOK /\ AcceptsOK /\ KnocksOK /\ ListensOK /\ WiresOK
      /\ Known \subseteq Dials
  BY ZenonT(40) DEF StateOK, Known
<1>1. PICK d \in Known, e \in ClientEntries :
        e = dialEntry[x] /\ d = clientCh[e]
  BY <1>t, SMT, Z3, SMTT(20) DEF DialAck, DialsOK, PendingOK
<1>2. /\ d \in Dials /\ d # None /\ AckQueued(d)
  BY <1>t, <1>1, Zenon DEF AckQueued
<1>3. /\ clientCh'[e] = None
      /\ \A f \in ClientEntries : f # e => clientCh'[f] = clientCh[f]
      /\ UNCHANGED <<knocks, knockRun, serverCh, listenMsg, acks, ackRun>>
  BY <1>t, <1>1, Zenon DEF DialAck, PendingOK
<1>4. OnePlace(d)
  BY <1>2, Zenon DEF PassInv
<1>5. \A y \in Dials : AckQueued(y)' => AckQueued(y)
  BY <1>3, Zenon DEF AckQueued
<1>6. OnlyMoves(d) /\ OnePlace(d)'
  BY <1>2, <1>3, <1>4, <1>5, PlacesKept, Zenon DEF OnlyMoves, OnePlace
<1>7. OneEach(clientCh', ClientEntries)
  BY <1>3, OneEachKept, Zenon DEF PassInv
<1>8. PassInv'
  BY <1>2, <1>3, <1>6, <1>7, OthersStay, Zenon DEF PassInv
<1>9. ~InPassing(d)'
  <2>1. \A f \in ClientEntries : clientCh[f] = d => f = e
    BY <1>1, <1>2, Zenon DEF PassInv, OneEach
  <2>2. ~AckQueued(d)'
    BY <1>2, <1>3, <2>1, Zenon DEF AckQueued
  <2>3. /\ ~KnockOnWire(d)' /\ ~KnockTaken(d)' /\ ~KnockQueued(d)'
        /\ ~KnockHeard(d)' /\ ~AckOnWire(d)' /\ ~AckTaken(d)'
    BY <1>2, <1>3, <1>4, PlacesKept, Zenon DEF OnePlace
  <2> QED
    BY <2>2, <2>3, Zenon DEF InPassing, Unanswered
<1> QED
  BY <1>1, <1>2, <1>6, <1>8, <1>9, Zenon

\* A step keeps every message in one place.
LEMMA PassPreserved ==
  ASSUME StateOK, PassInv, [Next]_vars
  PROVE  PassInv'
<1>1. CASE UNCHANGED passVars
  <2>1. UNCHANGED <<knocks, knockRun, serverCh, listenMsg, acks, ackRun, clientCh>>
    BY <1>1, Zenon DEF passVars
  <2> QED
    BY <2>1, Zenon DEF PassInv, OnePlace, KnockOnWire, KnockTaken, KnockQueued,
         KnockHeard, AckOnWire, AckTaken, AckQueued
<1> QED
  BY <1>1, PassSteps, KnockSends, RunTakesKnock, RunQueuesKnock,
     ListenTakesKnock, ListenAnswers, RunTakesAck, RunQueuesAck, DialTakesAck,
     Zenon

\* Only a knock that is sent becomes unanswered, and an acknowledgement that Run
\* has taken no longer is.
LEMMA UnansweredStays ==
  ASSUME StateOK, PassInv, [Next]_vars, NEW x \in Dials, Unanswered(x)'
  PROVE  /\ Unanswered(x) \/ dial[x] = "idle"
         /\ RunAck => x # Head(acks)
<1>0. \A d \in Dials : d # x /\ OnlyMoves(d) => Unanswered(x)
  BY Zenon DEF OnlyMoves, Unanswered
<1>1. ASSUME NEW d \in Dials, NEW id \in Ids, DialKnock(d, id)
      PROVE  Unanswered(x) \/ dial[x] = "idle"
  BY <1>0, <1>1, KnockSends, Zenon DEF DialKnock
<1>2. RunKnock => Unanswered(x)
  BY <1>0, RunTakesKnock, Zenon DEF Unanswered
<1>3. RunKnockQueue => Unanswered(x)
  BY <1>0, RunQueuesKnock, Zenon DEF Unanswered
<1>4. ASSUME NEW a \in Accepts, ListenKnock(a) \/ ListenAck(a)
      PROVE  Unanswered(x)
  BY <1>0, <1>4, ListenTakesKnock, ListenAnswers, Zenon DEF Unanswered
<1>5. RunAck => Unanswered(x) /\ x # Head(acks)
  <2> SUFFICES ASSUME RunAck PROVE Unanswered(x) /\ x # Head(acks)
    BY Zenon
  <2>1. PICK d \in Dials : d = Head(acks) /\ OnlyMoves(d) /\ AckTaken(d)'
    BY RunTakesAck, Zenon
  <2>2. OnePlace(d)'
    BY RunTakesAck, Zenon DEF PassInv
  <2>3. ~Unanswered(d)'
    BY <2>1, <2>2, Zenon DEF Unanswered, OnePlace
  <2> QED
    BY <1>0, <2>1, <2>3, Zenon
<1>6. ASSUME UNCHANGED <<knocks, knockRun, serverCh, listenMsg, acks>>
      PROVE  Unanswered(x)
  BY <1>6, PlacesKept, Zenon DEF Unanswered
<1>7. RunAckQueue => UNCHANGED <<knocks, knockRun, serverCh, listenMsg, acks>>
  BY Zenon DEF RunAckQueue, wires, knockVars, lfkVars
<1>8. ASSUME NEW d \in Dials, DialAck(d)
      PROVE  UNCHANGED <<knocks, knockRun, serverCh, listenMsg, acks>>
  BY <1>8, Zenon DEF DialAck, wires, knockVars, lfkVars
<1>9. UNCHANGED passVars => UNCHANGED <<knocks, knockRun, serverCh, listenMsg, acks>>
  BY Zenon DEF passVars
<1> QED
  BY <1>1, <1>2, <1>3, <1>4, <1>5, <1>6, <1>7, <1>8, <1>9, PassSteps, Zenon

-----------------------------------------------------------------------------
(* The pending entries of the dialling end.  A fresh entry was never used   *)
(* before; one that is in the map has a Dial that waits on it, or Run has   *)
(* it in its hands, or a timeoutWait will delete it, and one that holds an  *)
(* acknowledgement has a timeoutWait.                                       *)

Unused(y) == /\ clientCh[y] = None
             /\ ackRun # <<>> => ackRun[2] # y
             /\ \A id \in Ids : clientStreams[id] # y
             /\ \A d \in Dials : dialEntry[d] # y

FreshInv ==
  \A d \in Dials :
    /\ dial[d] = "idle" \/ Unanswered(d) => Unused(<<"ack", d>>)
    /\ dial[d] \in {"idle", "knocked"} => Unused(<<"knock", d>>)

Holding == {"knocked", "ack", "expired", "open"}

HoldInv == /\ dialMutex # None => dial[dialMutex] \in Holding
           /\ \A d \in Dials : dial[d] \in Holding => dialMutex = d

Timed(id) == \E d \in Dials : reaper[d] = "wait" /\ dialId[d] = id

Kept(id, e) == \/ \E d \in Dials : /\ dial[d] \in {"ack", "expired"}
                                   /\ dialEntry[d] = e
               \/ ackRun # <<>> /\ ackRun[2] = e
               \/ Timed(id)

KeepInv ==
  \A id \in Ids : clientStreams[id] # <<>> =>
    /\ Kept(id, clientStreams[id])
    /\ clientCh[clientStreams[id]] # None => Timed(id)

\* An entry that is not in use is taken up by the step that makes it only.
LEMMA UnusedStays ==
  ASSUME StateOK, [Next]_vars, NEW y \in ClientEntries, Unused(y),
         \A d \in Dials : DialWait(d) => y # <<"knock", d>>,
         RunAck => y # <<"ack", Head(acks)>>
  PROVE  Unused(y)'
<1> USE EntryNames DEF dialVars, pendVars
<1>0. DialsOK /\ PendingOK /\ WiresOK /\ y # <<>>
  BY Zenon DEF StateOK
<1>1. CASE UNCHANGED <<dialEntry, clientStreams, clientCh, ackRun>>
  BY <1>1, Zenon DEF Unused
<1>2. ASSUME NEW d \in Dials, DialWait(d) PROVE Unused(y)'
  <2>1. PICK e : e = EntryOf(clientStreams, dialId[d], <<"knock", d>>)
    BY Zenon
  <2>2. dialId[d] \in Ids
    BY <1>0, <1>2, SMT, Z3, SMTT(20) DEF DialWait, DialsOK
  <2>3. e # y
    BY <1>2, <2>1, <2>2, Zenon DEF EntryOf, Unused
  <2>4. /\ clientStreams' = [clientStreams EXCEPT ![dialId[d]] = e]
        /\ dialEntry' = [dialEntry EXCEPT ![d] = e]
        /\ UNCHANGED <<clientCh, ackRun>>
    BY <1>2, <2>1, Zenon DEF DialWait
  <2> QED
    BY <1>0, <2>3, <2>4, ZenonT(40) DEF DialsOK, PendingOK, Unused
<1>3. CASE RunAck
  <2>0. PICK d : d = Head(acks)
    BY Zenon
  <2>1. PICK e : e = EntryOf(clientStreams, dialId[d], <<"ack", d>>)
    BY Zenon
  <2>2. d \in Known /\ dialId[d] \in Ids
    <3>1. d \in Known
      BY <1>0, <1>3, <2>0, SeqParts, Zenon DEF RunAck, WiresOK
    <3> QED
      BY <1>0, <3>1, Zenon DEF Known, DialsOK
  <2>3. e # y
    BY <1>3, <2>0, <2>1, <2>2, Zenon DEF EntryOf, Unused
  <2>4. /\ clientStreams' = [clientStreams EXCEPT ![dialId[d]] = e]
        /\ ackRun' = <<d, e>>
        /\ UNCHANGED <<clientCh, dialEntry>>
    BY <1>3, <2>0, <2>1, Zenon DEF RunAck
  <2>5. ackRun'[2] # y
    BY <2>3, <2>4, SMT, Z3, SMTT(20)
  <2> QED
    BY <1>0, <2>3, <2>4, <2>5, Zenon DEF PendingOK, Unused
<1>4. CASE RunAckQueue
  <2>1. /\ ackRun # <<>> /\ ackRun' = <<>>
        /\ UNCHANGED <<clientStreams, dialEntry>>
    BY <1>4, Zenon DEF RunAckQueue
  <2>2. clientCh'[y] = clientCh[y]
    BY <1>0, <1>4, <2>1, Zenon DEF RunAckQueue, PendingOK, Unused
  <2> QED
    BY <2>1, <2>2, Zenon DEF Unused
<1>5. ASSUME NEW d \in Dials, DialAck(d) PROVE Unused(y)'
  <2>1. UNCHANGED <<clientStreams, dialEntry, ackRun>>
    BY <1>5, Zenon DEF DialAck
  <2>2. clientCh'[y] = None
    BY <1>0, <1>5, Zenon DEF DialAck, PendingOK, Unused
  <2> QED
    BY <2>1, <2>2, Zenon DEF Unused
<1>6. ASSUME NEW d \in Dials, DialTimeout(d) \/ Reap(d) PROVE Unused(y)'
  <2>1. /\ clientStreams' = [clientStreams EXCEPT ![dialId[d]] = <<>>]
        /\ UNCHANGED <<clientCh, dialEntry, ackRun>>
    BY <1>6, Zenon DEF DialTimeout, Reap
  <2>2. \A id \in Ids : clientStreams'[id] # y
    BY <1>0, <2>1, Zenon DEF PendingOK, Unused
  <2> QED
    BY <2>1, <2>2, Zenon DEF Unused
<1>7. ASSUME NEW d \in Dials, DialExpire(d) \/ DialOpen(d) PROVE Unused(y)'
  BY <1>1, <1>7, Zenon DEF DialExpire, DialOpen
<1>8. ASSUME NEW d \in Dials, DialEndStep(d) PROVE Unused(y)'
  BY <1>2, <1>5, <1>6, <1>7, <1>8, Zenon DEF DialEndStep
<1>9. CASE RunKnock \/ RunKnockQueue
  BY <1>1, <1>9, Zenon DEF RunKnock, RunKnockQueue
<1>10. ASSUME NEW d \in Dials, NEW id \in Ids, DialKnock(d, id)
       PROVE  Unused(y)'
  BY <1>1, <1>10, KnockFrame, Zenon
<1>11. ASSUME NEW a \in Accepts, AcceptEndStep(a) PROVE Unused(y)'
  BY <1>1, <1>11, AcceptFrame, Zenon
<1>12. ASSUME NEW a \in Accepts, NEW id \in Ids, AcceptCall(a, id)
       PROVE  Unused(y)'
  BY <1>1, <1>12, CallFrame, Zenon
<1>13. CASE LoopStep \/ UNCHANGED vars
  BY <1>1, <1>13, LoopFrame, Zenon DEF vars
<1> QED
  BY <1>3, <1>4, <1>8, <1>9, <1>10, <1>11, <1>12, <1>13, StepCases, Zenon
     DEF RunStep

\* A Dial is idle, then knocks, then waits.
LEMMA DialPhases ==
  ASSUME DialsOK, [Next]_vars, NEW x \in Dials
  PROVE  /\ dial'[x] = "idle" => dial[x] = "idle"
         /\ dial'[x] = "knocked" => dial[x] \in {"idle", "knocked"} /\ ~DialWait(x)
<1>0. dial \in [Dials -> {"idle", "knocked", "ack", "expired", "open", "ok",
                          "error"}]
  BY Zenon DEF DialsOK
<1>1. ASSUME NEW d \in Dials, NEW id \in Ids, DialKnock(d, id)
      PROVE  /\ dial'[x] = "idle" => dial[x] = "idle"
             /\ dial'[x] = "knocked" => dial[x] \in {"idle", "knocked"}
  BY <1>0, <1>1, Zenon DEF DialKnock
<1>2. ASSUME NEW d \in Dials, DialEndStep(d)
      PROVE  dial'[x] \in {"idle", "knocked"} => dial'[x] = dial[x]
  <2>1. \/ dial' = dial
        \/ \E s \in {"ack", "expired", "error", "open", "ok"} :
             dial' = [dial EXCEPT ![d] = s]
    BY <1>2, Zenon DEF DialEndStep, DialWait, DialAck, DialExpire, DialTimeout,
         DialOpen, Reap, dialVars
  <2> QED
    BY <1>0, <2>1, SMT, Z3, SMTT(20)
<1>3. ASSUME NEW a \in Accepts, AcceptEndStep(a) PROVE dial' = dial
  BY <1>3, AcceptFrame, Zenon DEF dialVars
<1>4. ASSUME NEW a \in Accepts, NEW id \in Ids, AcceptCall(a, id)
      PROVE  dial' = dial
  BY <1>4, CallFrame, Zenon DEF dialVars
<1>5. RunStep \/ LoopStep \/ UNCHANGED vars => dial' = dial
  BY RunFrame, LoopFrame, Zenon DEF dialVars, vars
<1>6. DialWait(x) => dial'[x] = "ack"
  BY <1>0, Zenon DEF DialWait
<1> QED
  BY <1>1, <1>2, <1>3, <1>4, <1>5, <1>6, StepCases, SMT, Z3, SMTT(20)

\* A step that makes an entry makes one that was never used.
LEMMA FreshPreserved ==
  ASSUME StateOK, PassInv, FreshInv, [Next]_vars
  PROVE  FreshInv'
<1> SUFFICES ASSUME NEW d \in Dials
             PROVE  /\ dial'[d] = "idle" \/ Unanswered(d)' => Unused(<<"ack", d>>)'
                    /\ dial'[d] \in {"idle", "knocked"} => Unused(<<"knock", d>>)'
  BY Zenon DEF FreshInv
<1>0. DialsOK
  BY Zenon DEF StateOK
<1>1. ASSUME dial'[d] = "idle" \/ Unanswered(d)' PROVE Unused(<<"ack", d>>)'
  <2>1. dial[d] = "idle" \/ Unanswered(d)
    BY <1>0, <1>1, DialPhases, UnansweredStays, Zenon
  <2>2. Unused(<<"ack", d>>) /\ <<"ack", d>> \in ClientEntries
    BY <2>1, EntryNames, Zenon DEF FreshInv
  <2>3. ASSUME RunAck PROVE d # Head(acks)
    <3>1. Head(acks) \in Known
      BY <2>3, SeqParts, Zenon DEF RunAck, StateOK, WiresOK
    <3>2. dial'[d] = "idle" => d \notin Known
      BY <1>0, DialPhases, IdleNowhere, Zenon
    <3> QED
      BY <1>1, <2>3, <3>1, <3>2, UnansweredStays, Zenon
  <2>4. \A x \in Dials : <<"ack", d>> # <<"knock", x>>
    OBVIOUS
  <2>5. RunAck => <<"ack", d>> # <<"ack", Head(acks)>>
    BY <2>3, SMT, Z3, SMTT(20)
  <2> QED
    BY <2>2, <2>4, <2>5, UnusedStays, Zenon
<1>2. ASSUME dial'[d] \in {"idle", "knocked"} PROVE Unused(<<"knock", d>>)'
  <2>1. dial[d] \in {"idle", "knocked"} /\ ~DialWait(d)
    BY <1>0, <1>2, DialPhases, SMT, Z3, SMTT(20) DEF DialWait
  <2>2. Unused(<<"knock", d>>) /\ <<"knock", d>> \in ClientEntries
    BY <2>1, EntryNames, Zenon DEF FreshInv
  <2>3. \A x \in Dials : DialWait(x) => <<"knock", d>> # <<"knock", x>>
    BY <2>1, SMT, Z3, SMTT(20)
  <2>4. <<"knock", d>> # <<"ack", Head(acks)>>
    OBVIOUS
  <2> QED
    BY <2>2, <2>3, <2>4, UnusedStays, Zenon
<1> QED
  BY <1>1, <1>2, Zenon

\* One Dial at a time has dialMutex, from its knock to its end.
LEMMA HoldPreserved ==
  ASSUME StateOK, HoldInv, [Next]_vars
  PROVE  HoldInv'
<1> USE NoneIsNothing DEF dialVars
<1>0. /\ dialMutex \in Dials \cup {None}
      /\ dial \in [Dials -> {"idle", "knocked", "ack", "expired", "open", "ok",
                             "error"}]
  BY Zenon DEF StateOK, DialsOK
<1>1. CASE UNCHANGED <<dialMutex, dial>>
  BY <1>1, Zenon DEF HoldInv
<1>2. ASSUME NEW d \in Dials, NEW id \in Ids, DialKnock(d, id) PROVE HoldInv'
  <2>1. \A x \in Dials : dial[x] \notin Holding
    BY <1>2, Zenon DEF DialKnock, HoldInv
  <2>2. dialMutex' = d /\ dial' = [dial EXCEPT ![d] = "knocked"]
    BY <1>2, Zenon DEF DialKnock
  <2> QED
    BY <1>0, <2>1, <2>2, Zenon DEF HoldInv, Holding
<1>3. ASSUME NEW d \in Dials, dial[d] \in Holding,
             \/ /\ \E s \in Holding : dial' = [dial EXCEPT ![d] = s]
                /\ dialMutex' = dialMutex
             \/ /\ \E s \in {"ok", "error"} : dial' = [dial EXCEPT ![d] = s]
                /\ dialMutex' = None
      PROVE  HoldInv'
  <2>1. dialMutex = d
    BY <1>3, Zenon DEF HoldInv
  <2>2. \A x \in Dials : x # d => dial'[x] = dial[x] /\ dial[x] \notin Holding
    BY <1>0, <1>3, <2>1, Zenon DEF HoldInv
  <2>3. \/ dialMutex' = d /\ dial'[d] \in Holding
        \/ dialMutex' = None /\ dial'[d] \in {"ok", "error"}
    BY <1>0, <1>3, <2>1, Zenon
  <2> QED
    BY <2>2, <2>3, SMT, Z3, SMTT(20) DEF HoldInv, Holding
<1>4. ASSUME NEW d \in Dials, DialEndStep(d) PROVE HoldInv'
  <2>1. CASE Reap(d)
    BY <1>1, <2>1, Zenon DEF Reap
  <2>2. CASE ~Reap(d)
    <3>1. dial[d] \in Holding
      BY <1>4, <2>2, Zenon DEF DialEndStep, DialWait, DialAck, DialExpire,
           DialTimeout, DialOpen, Holding
    <3>2. \/ /\ \E s \in Holding : dial' = [dial EXCEPT ![d] = s]
             /\ dialMutex' = dialMutex
          \/ /\ \E s \in {"ok", "error"} : dial' = [dial EXCEPT ![d] = s]
             /\ dialMutex' = None
      BY <1>4, <2>2, Zenon DEF DialEndStep, DialWait, DialAck, DialExpire,
           DialTimeout, DialOpen, Holding
    <3> QED
      BY <1>3, <3>1, <3>2, Zenon
  <2> QED
    BY <2>1, <2>2, Zenon
<1>5. ASSUME NEW a \in Accepts, AcceptEndStep(a) PROVE HoldInv'
  BY <1>1, <1>5, AcceptFrame, Zenon
<1>6. ASSUME NEW a \in Accepts, NEW id \in Ids, AcceptCall(a, id) PROVE HoldInv'
  BY <1>1, <1>6, CallFrame, Zenon
<1>7. CASE RunStep \/ LoopStep \/ UNCHANGED vars
  BY <1>1, <1>7, RunFrame, LoopFrame, Zenon DEF vars
<1> QED
  BY <1>2, <1>4, <1>5, <1>6, <1>7, StepCases, Zenon

\* Every step leaves the entries in somebody's care.
LEMMA KeepPreserved ==
  ASSUME StateOK, ClientIds, PassInv, FreshInv, KeepInv, [Next]_vars
  PROVE  KeepInv'
<1> USE NoneIsNothing, EntryNames DEF dialVars, pendVars
<1>0. /\ DialsOK /\ PendingOK /\ WiresOK /\ Known \subseteq Dials
      /\ \A d \in Known : dialId[d] \in Ids /\ dialId'[d] = dialId[d]
  BY KnownGrows, Zenon DEF StateOK, Known, DialsOK
<1>a. \A i \in Ids : clientStreams'[i] # <<>> =>
        clientStreams'[i] \in ClientEntries
  BY TypesPreserved, Zenon DEF StateOK, PendingOK
<1> SUFFICES ASSUME NEW id \in Ids, NEW f \in ClientEntries, clientStreams'[id] = f
             PROVE  Kept(id, f)' /\ (clientCh'[f] # None => Timed(id)')
  BY <1>a, Zenon DEF KeepInv
<1>b. clientStreams[id] = f =>
        Kept(id, f) /\ ClientId(f) = id /\ (clientCh[f] # None => Timed(id))
  BY Zenon DEF KeepInv, ClientIds
<1>1. ASSUME \A d \in Dials : reaper[d] = "wait" => reaper'[d] = "wait"
      PROVE  Timed(id) => Timed(id)'
  <2>1. \A d \in Dials : dialId[d] # None => d \in Known
    BY Zenon DEF Known
  <2> QED
    BY <1>0, <1>1, <2>1, Zenon DEF Timed
<1>2. ASSUME UNCHANGED <<clientStreams, clientCh, ackRun, reaper, dialEntry>>,
             \A d \in Dials : dial[d] \in {"ack", "expired"} =>
               dial'[d] \in {"ack", "expired"}
      PROVE  Kept(id, f)' /\ (clientCh'[f] # None => Timed(id)')
  BY <1>b, <1>1, <1>2, Zenon DEF Kept
<1>3. ASSUME NEW d \in Dials, DialWait(d)
      PROVE  Kept(id, f)' /\ (clientCh'[f] # None => Timed(id)')
  <2>1. PICK e : e = EntryOf(clientStreams, dialId[d], <<"knock", d>>)
    BY ZenonT(40)
  <2>2. dialId[d] \in Ids /\ dial[d] = "knocked"
    BY <1>0, <1>3, SMT, Z3, SMTT(20) DEF DialWait, DialsOK
  <2>3. /\ clientStreams'[dialId[d]] = e /\ dialEntry'[d] = e /\ dial'[d] = "ack"
        /\ \A i \in Ids : i # dialId[d] => clientStreams'[i] = clientStreams[i]
        /\ \A x \in Dials : x # d => /\ dialEntry'[x] = dialEntry[x]
                                    /\ dial'[x] = dial[x]
        /\ UNCHANGED <<clientCh, ackRun, reaper>>
    BY <1>0, <1>3, <2>1, <2>2, Zenon DEF DialWait, DialsOK, PendingOK
  <2>4. Timed(id) => Timed(id)'
    BY <1>1, <2>3, Zenon
  <2>5. CASE id = dialId[d]
    <3>1. clientCh[e] # None => clientStreams[id] = e
      BY <2>1, <2>2, <2>5, Zenon DEF EntryOf, FreshInv, Unused
    <3> QED
      BY <1>b, <2>3, <2>4, <2>5, <3>1, Zenon DEF Kept
  <2>6. CASE id # dialId[d]
    <3>1. Kept(id, f) /\ (clientCh[f] # None => Timed(id))
      BY <1>b, <2>3, <2>6, Zenon
    <3>2. Kept(id, f)'
      BY <2>2, <2>3, <2>4, <3>1, SMT, Z3, SMTT(20) DEF Kept
    <3> QED
      BY <2>3, <2>4, <3>1, <3>2, Zenon
  <2> QED
    BY <2>5, <2>6, Zenon
<1>4. ASSUME NEW d \in Dials, DialAck(d)
      PROVE  Kept(id, f)' /\ (clientCh'[f] # None => Timed(id)')
  <2>1. /\ clientCh[dialEntry[d]] # None /\ dialEntry[d] \in ClientEntries
        /\ \A x \in Dials : x # d => dial'[x] = dial[x]
        /\ \A e \in ClientEntries : clientCh'[e] # None => clientCh[e] # None
        /\ UNCHANGED <<clientStreams, ackRun, reaper, dialEntry>>
    BY <1>0, <1>4, SMT, Z3, SMTT(20) DEF DialAck, DialsOK, PendingOK
  <2>2. Timed(id) => Timed(id)'
    BY <1>1, <2>1, Zenon
  <2>3. f = dialEntry[d] => Timed(id)
    BY <1>b, <2>1, Zenon
  <2> QED
    BY <1>b, <2>1, <2>2, <2>3, ZenonT(40) DEF Kept
<1>5. ASSUME NEW d \in Dials, DialTimeout(d) \/ Reap(d)
      PROVE  Kept(id, f)' /\ (clientCh'[f] # None => Timed(id)')
  <2>1. /\ clientStreams' = [clientStreams EXCEPT ![dialId[d]] = <<>>]
        /\ UNCHANGED <<clientCh, ackRun, dialEntry, dialId>>
        /\ \A x \in Dials : x # d => reaper'[x] = reaper[x] /\ dial'[x] = dial[x]
    BY <1>0, <1>5, Zenon DEF DialTimeout, Reap, DialsOK
  <2>2. id # dialId[d] /\ clientStreams[id] = f
    BY <1>0, <2>1, Zenon DEF PendingOK
  <2>3. Timed(id) => Timed(id)'
    BY <2>1, <2>2, Zenon DEF Timed
  <2>4. dialEntry[d] # f
    BY <1>b, <2>2, Zenon DEF ClientIds
  <2> QED
    BY <1>b, <2>1, <2>2, <2>3, <2>4, Zenon DEF Kept
<1>6. CASE RunAck
  <2>0. PICK d : d = Head(acks)
    BY Zenon
  <2>1. PICK e : e = EntryOf(clientStreams, dialId[d], <<"ack", d>>)
    BY Zenon
  <2>2. d \in Known /\ AckOnWire(d) /\ ackRun = <<>>
    <3>1. d \in Known
      BY <1>0, <1>6, <2>0, SeqParts, Zenon DEF RunAck, WiresOK
    <3> QED
      BY <1>6, <2>0, <3>1, RunTakesAck, Zenon DEF RunAck
  <2>3. /\ clientStreams'[dialId[d]] = e /\ ackRun' = <<d, e>>
        /\ \A i \in Ids : i # dialId[d] => clientStreams'[i] = clientStreams[i]
        /\ UNCHANGED <<clientCh, reaper, dial, dialEntry>>
    BY <1>0, <1>6, <2>0, <2>1, <2>2, Zenon DEF RunAck, PendingOK
  <2>4. Timed(id) => Timed(id)'
    BY <1>1, <2>3, Zenon
  <2>5. CASE id = dialId[d]
    <3>1. clientCh[e] # None => clientStreams[id] = e
      BY <1>0, <2>1, <2>2, <2>5, Zenon
         DEF EntryOf, FreshInv, Unused, Unanswered
    <3>2. ackRun' # <<>> /\ ackRun'[2] = e
      BY <2>3, SMT, Z3, SMTT(20)
    <3> QED
      BY <1>b, <2>3, <2>4, <2>5, <3>1, <3>2, Zenon DEF Kept
  <2>6. CASE id # dialId[d]
    BY <1>b, <2>2, <2>3, <2>4, <2>6, Zenon DEF Kept
  <2> QED
    BY <2>5, <2>6, Zenon
<1>7. CASE RunAckQueue
  <2>1. PICK d \in Known, e \in ClientEntries : ackRun = <<d, e>>
    BY <1>0, <1>7, SMT, Z3, SMTT(20) DEF RunAckQueue, PendingOK
  <2>2. /\ ackRun[1] = d /\ ackRun[2] = e /\ ackRun # <<>> /\ d \in Dials
    BY <1>0, <2>1, SMT, Z3, SMTT(20)
  <2>3. /\ \A x \in ClientEntries : x # e => clientCh'[x] = clientCh[x]
        /\ \A x \in Dials : reaper[x] = "wait" => reaper'[x] = "wait"
        /\ clientCh[e] = None => reaper'[d] = "wait"
        /\ clientCh[e] # None => clientCh'[e] = clientCh[e]
        /\ UNCHANGED <<clientStreams, dial, dialEntry, dialId>>
    <3>1. UNCHANGED <<clientStreams, dial, dialEntry, dialId>>
      BY <1>7, Zenon DEF RunAckQueue
    <3>2. clientCh \in [ClientEntries -> Known \cup {None}]
      BY <1>0, Zenon DEF PendingOK
    <3>3. reaper \in [Dials -> {"none", "wait", "gone"}]
      BY <1>0, Zenon DEF DialsOK
    <3>4. CASE clientCh[e] = None
      <4>1. /\ clientCh' = [clientCh EXCEPT ![e] = d]
            /\ reaper' = [reaper EXCEPT ![d] = "wait"]
        BY <1>7, <2>2, <3>4, Zenon DEF RunAckQueue
      <4> QED
        BY <2>2, <3>1, <3>2, <3>3, <3>4, <4>1, Zenon
    <3>5. CASE clientCh[e] # None
      BY <1>7, <2>2, <3>1, <3>5, Zenon DEF RunAckQueue
    <3> QED
      BY <3>4, <3>5, Zenon
  <2>4. Timed(id) => Timed(id)'
    BY <1>1, <2>3, Zenon
  <2>5. CASE f = e
    <3>1. dialId[d] = id
      BY <1>b, <2>2, <2>3, <2>5, Zenon DEF ClientIds
    <3>2. Timed(id)'
      BY <1>b, <2>2, <2>3, <2>4, <2>5, <3>1, Zenon DEF Timed
    <3> QED
      BY <3>2, Zenon DEF Kept
  <2>6. CASE f # e
    BY <1>b, <2>2, <2>3, <2>4, <2>6, Zenon DEF Kept
  <2> QED
    BY <2>5, <2>6, ZenonT(40)
<1>8. ASSUME NEW d \in Dials, DialExpire(d) \/ DialOpen(d)
      PROVE  Kept(id, f)' /\ (clientCh'[f] # None => Timed(id)')
  <2>1. UNCHANGED <<clientStreams, clientCh, ackRun, reaper, dialEntry>>
    BY <1>8, ZenonT(40) DEF DialExpire, DialOpen
  <2>2. \A x \in Dials : dial[x] \in {"ack", "expired"} =>
          dial'[x] \in {"ack", "expired"}
    BY <1>0, <1>8, SMT, Z3, SMTT(20) DEF DialExpire, DialOpen, DialsOK
  <2> QED
    BY <1>2, <2>1, <2>2, Zenon
<1>9. ASSUME NEW d \in Dials, DialEndStep(d)
      PROVE  Kept(id, f)' /\ (clientCh'[f] # None => Timed(id)')
  BY <1>3, <1>4, <1>5, <1>8, <1>9, Zenon DEF DialEndStep
<1>10. ASSUME NEW d \in Dials, NEW i \in Ids, DialKnock(d, i)
       PROVE  Kept(id, f)' /\ (clientCh'[f] # None => Timed(id)')
  <2>1. UNCHANGED <<clientStreams, clientCh, ackRun, reaper, dialEntry>>
    BY <1>10, KnockFrame, ZenonT(40)
  <2>2. \A x \in Dials : dial[x] \in {"ack", "expired"} => dial'[x] = dial[x]
    BY <1>0, <1>10, SMT, Z3, SMTT(20) DEF DialKnock, DialsOK
  <2> QED
    BY <1>2, <2>1, <2>2, Zenon
<1>11. ASSUME UNCHANGED <<dialVars, pendVars>>
       PROVE  Kept(id, f)' /\ (clientCh'[f] # None => Timed(id)')
  BY <1>2, <1>11, Zenon
<1>12. RunKnock \/ RunKnockQueue => UNCHANGED <<dialVars, pendVars>>
  BY Zenon DEF RunKnock, RunKnockQueue
<1>13. ASSUME NEW a \in Accepts, AcceptEndStep(a)
       PROVE  UNCHANGED <<dialVars, pendVars>>
  BY <1>13, AcceptFrame, Zenon
<1>14. ASSUME NEW a \in Accepts, NEW i \in Ids, AcceptCall(a, i)
       PROVE  UNCHANGED <<dialVars, pendVars>>
  BY <1>14, CallFrame, Zenon
<1>15. LoopStep \/ UNCHANGED vars => UNCHANGED <<dialVars, pendVars>>
  BY LoopFrame, Zenon DEF vars
<1> QED
  BY <1>6, <1>7, <1>9, <1>10, <1>11, <1>12, <1>13, <1>14, <1>15, StepCases,
     Zenon DEF RunStep

DialEndInv == IdInv /\ PassInv /\ FreshInv /\ HoldInv /\ KeepInv

\* Knocks, acknowledgements and pending entries are where they belong.
LEMMA DialEndInvariant == Spec => []DialEndInv
<1>1. Init => PassInv /\ FreshInv /\ HoldInv /\ KeepInv
  <2> SUFFICES ASSUME Init PROVE PassInv /\ FreshInv /\ HoldInv /\ KeepInv
    BY Zenon
  <2> USE NoneIsNothing, EntryNames
  <2>1. /\ knocks = <<>> /\ acks = <<>> /\ ackRun = <<>> /\ dialMutex = None
        /\ \A e \in ServerEntries : serverCh[e] = None
        /\ \A e \in ClientEntries : clientCh[e] = None
        /\ \A a \in Accepts : listenMsg[a] = None
        /\ \A d \in Dials : dialEntry[d] = <<>> /\ dial[d] = "idle"
        /\ \A id \in Ids : clientStreams[id] = <<>>
    BY Zenon DEF Init
  <2>2. \A d \in Dials : ~InPassing(d)
    BY InitTypes, IdleNowhere, <2>1, Zenon
  <2>3. PassInv
    <3>1. Distinct(knocks) /\ Distinct(acks)
      BY <2>1, SMT, Z3, SMTT(20) DEF Distinct
    <3>2. \A d \in Dials : OnePlace(d)
      BY <2>2, Zenon DEF OnePlace, InPassing, Unanswered
    <3> QED
      BY <2>1, <3>1, <3>2, ZenonT(40) DEF PassInv, OneEach
  <2>4. FreshInv
    BY <2>1, Zenon DEF FreshInv, Unused
  <2>5. HoldInv
    BY <2>1, SMT, Z3, SMTT(20) DEF HoldInv, Holding
  <2>6. KeepInv
    BY <2>1, Zenon DEF KeepInv
  <2> QED
    BY <2>3, <2>4, <2>5, <2>6, Zenon
<1>2. IdInv /\ PassInv /\ FreshInv /\ HoldInv /\ KeepInv /\ [Next]_vars =>
        PassInv' /\ FreshInv' /\ HoldInv' /\ KeepInv'
  BY PassPreserved, FreshPreserved, HoldPreserved, KeepPreserved, Zenon
     DEF IdInv
<1> QED
  BY <1>1, <1>2, IdsKept, PTL DEF Spec, DialEndInv

\* No pending entry leaks: once the timers of the knocks and of their
\* acknowledgements have fired the map of clientStreams is empty, whether the
\* acknowledgement came, came late or never came, and dialMutex is free.
THEOREM NoEntryLeft == Spec => []EntriesReaped
<1>1. DialEndInv => EntriesReaped
  <2> SUFFICES ASSUME DialEndInv, fault = "timers", Quiescent
               PROVE  dialMutex = None /\ \A id \in Ids : clientStreams[id] = <<>>
    BY Zenon DEF EntriesReaped
  <2>1. \A d \in Dials : /\ dial[d] \notin Holding
                         /\ reaper[d] # "wait"
    BY Zenon DEF Quiescent, DialWaits, Holding
  <2>2. ackRun = <<>>
    BY Zenon DEF Quiescent, RunWaits
  <2>3. dialMutex = None
    BY <2>1, Zenon DEF DialEndInv, IdInv, StateOK, DialsOK, HoldInv
  <2>4. \A d \in Dials : dial[d] \notin {"ack", "expired"}
    BY <2>1, Zenon DEF Holding
  <2> QED
    BY <2>1, <2>2, <2>3, <2>4, Zenon DEF DialEndInv, KeepInv, Kept, Timed
<1> QED
  BY <1>1, DialEndInvariant, PTL

-----------------------------------------------------------------------------
(* Without faults.  Nothing expires or is closed, so an id keeps its        *)
(* entries, and the one message on its way is that of the Dial that has     *)
(* dialMutex, from its knock until it has the acknowledgement.              *)

Calm == /\ serverDone = {}
        /\ \A a \in Accepts : /\ accept[a] # "closed" /\ listen[a] # "gone"
                              /\ serve[a] # "eof"
        /\ \A d \in Dials : dial[d] # "expired"

ClientStay ==
  /\ \A d \in Dials :
       dialEntry[d] # <<>> => clientStreams[dialId[d]] = dialEntry[d]
  /\ ackRun # <<>> => clientStreams[dialId[ackRun[1]]] = ackRun[2]
  /\ \A e \in ClientEntries :
       clientCh[e] # None => clientStreams[dialId[clientCh[e]]] = e

ServerStay ==
  /\ \A a \in Accepts :
       listenEntry[a] # <<>> => serverStreams[acceptId[a]] = listenEntry[a]
  /\ knockRun # <<>> => serverStreams[dialId[knockRun[1]]] = knockRun[2]
  /\ \A e \in ServerEntries :
       serverCh[e] # None => serverStreams[dialId[serverCh[e]]] = e

OnItsWay == \A d \in Dials : InPassing(d) <=> dial[d] \in {"knocked", "ack"}

\* A run without faults stays one.
LEMMA FaultStays == [Next]_vars => UNCHANGED <<side, fault>>
BY StepCases, KnockFrame, DialFrame, RunFrame, CallFrame, AcceptFrame,
   LoopFrame, Zenon DEF vars

\* Nothing expires or is closed.
LEMMA CalmPreserved ==
  ASSUME StateOK, fault = "none", Calm, [Next]_vars
  PROVE  Calm'
<1> USE DEF dialVars, accVars, knockVars, lfkVars
<1>0. DialsOK /\ AcceptsOK /\ ListensOK /\ LoopsOK
  BY Zenon DEF StateOK
<1>1. \A a \in Accepts : ~ListenerClose(a) /\ ~ListenDone(a) /\ ~ServeEOF(a)
  <2>1. \A a \in Accepts : ~ListenerClose(a)
    BY SMT, Z3, SMTT(20) DEF ListenerClose
  <2>2. \A a \in Accepts : ~ListenDone(a) /\ ~ServeEOF(a)
    BY Zenon DEF ListenDone, ServeEOF, Calm
  <2> QED
    BY <2>1, <2>2, Zenon
<1>2. serverDone' = {}
  <2>1. ASSUME NEW a \in Accepts, AcceptEndStep(a) PROVE serverDone' = serverDone
    BY <1>1, <2>1, Zenon DEF AcceptEndStep, AcceptRegister, ListenStep,
         ListenStart, ListenKnock, AcceptKnockHost, AcceptKnockUnblock,
         AcceptKnockPlugin, ListenAck
  <2> QED
    BY <2>1, StepCases, KnockFrame, DialFrame, RunFrame, CallFrame, LoopFrame,
       Zenon DEF vars, Calm
<1>3. \A a \in Accepts : accept'[a] # "closed"
  <2>1. ASSUME NEW a \in Accepts, AcceptEndStep(a)
        PROVE  accept' = accept \/ accept' = [accept EXCEPT ![a] = "open"]
    BY <1>1, <2>1, Zenon DEF AcceptEndStep, AcceptRegister, ListenStep,
         ListenStart, ListenKnock, AcceptKnockHost, AcceptKnockUnblock,
         AcceptKnockPlugin, ListenAck
  <2>2. \/ accept' = accept
        \/ \E a \in Accepts, s \in {"register", "open"} :
             accept' = [accept EXCEPT ![a] = s]
    BY <2>1, StepCases, KnockFrame, DialFrame, RunFrame, LoopFrame,
       ZenonT(40) DEF vars, AcceptCall
  <2> QED
    BY <1>0, <2>2, SMT, Z3, SMTT(20) DEF Calm, AcceptsOK
<1>4. \A a \in Accepts : listen'[a] # "gone"
  <2>1. ASSUME NEW a \in Accepts, AcceptEndStep(a)
        PROVE  \/ listen' = listen
               \/ \E s \in {"select", "knock", "unblock", "ack"} :
                    listen' = [listen EXCEPT ![a] = s]
    BY <1>1, <2>1, Zenon DEF AcceptEndStep, AcceptRegister, ListenStep,
         ListenStart, ListenKnock, AcceptKnockHost, AcceptKnockUnblock,
         AcceptKnockPlugin, ListenAck
  <2>2. \/ listen' = listen
        \/ \E a \in Accepts, s \in {"start", "select", "knock", "unblock", "ack"} :
             listen' = [listen EXCEPT ![a] = s]
    BY <2>1, StepCases, KnockFrame, DialFrame, RunFrame, LoopFrame,
       ZenonT(40) DEF vars, AcceptCall
  <2> QED
    BY <1>0, <2>2, SMT, Z3, SMTT(20) DEF Calm, ListensOK
<1>5. \A a \in Accepts : serve'[a] # "eof"
  <2>1. LoopStep => \/ serve' = serve
                    \/ \E a \in Accepts, s \in {"accept", "session"} :
                         serve' = [serve EXCEPT ![a] = s]
    BY <1>1, ZenonT(40) DEF LoopStep, ServeStep, Serve, HostUnblocked, HostAccept,
         MainHandoff, MainAccept, MainRoute
  <2>2. \/ serve' = serve
        \/ \E a \in Accepts, s \in {"accept", "session"} :
             serve' = [serve EXCEPT ![a] = s]
    BY <2>1, StepCases, KnockFrame, DialFrame, RunFrame, CallFrame,
       AcceptFrame,
       Zenon DEF vars
  <2> QED
    BY <1>0, <2>2, SMT, Z3, SMTT(20) DEF Calm, LoopsOK
<1>6. \A d \in Dials : dial'[d] # "expired"
  <2>1. ASSUME NEW d \in Dials, DialEndStep(d)
        PROVE  \/ dial' = dial
               \/ \E s \in {"ack", "open", "ok", "error"} :
                    dial' = [dial EXCEPT ![d] = s]
    <3>1. ~DialExpire(d)
      BY SMT, Z3, SMTT(20) DEF DialExpire
    <3> QED
      BY <2>1, <3>1, Zenon DEF DialEndStep, DialWait, DialAck, DialTimeout,
           DialOpen, Reap
  <2>2. \/ dial' = dial
        \/ \E d \in Dials, s \in {"knocked", "ack", "open", "ok", "error"} :
             dial' = [dial EXCEPT ![d] = s]
    BY <2>1, StepCases, RunFrame, CallFrame, AcceptFrame, LoopFrame,
       Zenon DEF vars, DialKnock
  <2> QED
    BY <1>0, <2>2, SMT, Z3, SMTT(20) DEF Calm, DialsOK
<1> QED
  BY <1>2, <1>3, <1>4, <1>5, <1>6, Zenon DEF Calm

\* The dialling end keeps the entry of an id.
LEMMA ClientStayPreserved ==
  ASSUME StateOK, fault = "none", Calm, ClientStay, [Next]_vars
  PROVE  ClientStay'
<1> USE NoneIsNothing, EntryNames DEF dialVars, pendVars
<1>0. /\ DialsOK /\ PendingOK /\ WiresOK /\ Known \subseteq Dials
      /\ \A d \in Known : dialId[d] \in Ids /\ dialId'[d] = dialId[d]
      /\ \A d \in Dials : dialEntry[d] # <<>> => d \in Known
  BY KnownGrows, Zenon DEF StateOK, Known, DialsOK
<1>a. \A d \in Dials : dialEntry[d] # <<>> =>
        dialId[d] \in Ids /\ dialId'[d] = dialId[d] /\ clientStreams[dialId[d]] # <<>>
  BY <1>0, Zenon DEF ClientStay
<1>b. ASSUME ackRun # <<>>
      PROVE  LET i == dialId[ackRun[1]] IN
             i \in Ids /\ dialId'[ackRun[1]] = i /\ clientStreams[i] # <<>>
  <2>1. ackRun[1] \in Known /\ ackRun[2] \in ClientEntries
    BY <1>0, <1>b, SMT, Z3, SMTT(20) DEF PendingOK
  <2> QED
    BY <1>0, <1>b, <2>1, Zenon DEF ClientStay
<1>c. ASSUME NEW e \in ClientEntries, clientCh[e] # None
      PROVE  LET i == dialId[clientCh[e]] IN
             i \in Ids /\ dialId'[clientCh[e]] = i /\ clientStreams[i] # <<>>
  <2>1. clientCh[e] \in Known
    BY <1>0, <1>c, Zenon DEF PendingOK
  <2> QED
    BY <1>0, <1>c, <2>1, ZenonT(40) DEF ClientStay
<1>d. ASSUME \A i \in Ids : clientStreams[i] # <<>> =>
               clientStreams'[i] = clientStreams[i],
             UNCHANGED clientCh
      PROVE  \A e \in ClientEntries :
               clientCh'[e] # None => clientStreams'[dialId'[clientCh'[e]]] = e
  <2> SUFFICES ASSUME NEW e \in ClientEntries, clientCh[e] # None
               PROVE  clientStreams'[dialId'[clientCh[e]]] = e
    BY <1>d, Zenon
  <2>1. /\ dialId[clientCh[e]] \in Ids /\ dialId'[clientCh[e]] = dialId[clientCh[e]]
        /\ clientStreams[dialId[clientCh[e]]] # <<>>
    BY <1>c, Zenon
  <2>2. clientStreams[dialId[clientCh[e]]] = e
    BY Zenon DEF ClientStay
  <2> QED
    BY <1>d, <2>1, <2>2, Zenon
<1>1. ASSUME \A i \in Ids : clientStreams[i] # <<>> =>
               clientStreams'[i] = clientStreams[i],
             UNCHANGED <<dialEntry, ackRun, clientCh>>
      PROVE  ClientStay'
  <2>1. \A d \in Dials : dialEntry'[d] # <<>> =>
          clientStreams'[dialId'[d]] = dialEntry'[d]
    BY <1>a, <1>1, ZenonT(40) DEF ClientStay
  <2>2. ackRun' # <<>> => clientStreams'[dialId'[ackRun'[1]]] = ackRun'[2]
    BY <1>b, <1>1, Zenon DEF ClientStay
  <2>3. \A e \in ClientEntries :
          clientCh'[e] # None => clientStreams'[dialId'[clientCh'[e]]] = e
    BY <1>d, <1>1, Zenon
  <2> QED
    BY <2>1, <2>2, <2>3, Zenon DEF ClientStay
<1>2. ASSUME NEW d \in Dials, DialWait(d) PROVE ClientStay'
  <2>1. PICK e : e = EntryOf(clientStreams, dialId[d], <<"knock", d>>)
    BY Zenon
  <2>2. dialId[d] \in Ids
    BY <1>0, <1>2, SMT, Z3, SMTT(20) DEF DialWait, DialsOK
  <2>3. /\ clientStreams'[dialId[d]] = e /\ dialEntry'[d] = e
        /\ \A i \in Ids : i # dialId[d] => clientStreams'[i] = clientStreams[i]
        /\ \A x \in Dials : x # d => dialEntry'[x] = dialEntry[x]
        /\ UNCHANGED <<clientCh, ackRun, dialId>>
    BY <1>0, <1>2, <2>1, <2>2, Zenon DEF DialWait, DialsOK, PendingOK
  <2>4. \A i \in Ids : clientStreams[i] # <<>> =>
          clientStreams'[i] = clientStreams[i]
    BY <2>1, <2>3, Zenon DEF EntryOf
  <2>5. \A x \in Dials : dialEntry'[x] # <<>> =>
          clientStreams'[dialId'[x]] = dialEntry'[x]
    BY <1>a, <2>3, <2>4, ZenonT(40) DEF ClientStay
  <2>6. ackRun' # <<>> => clientStreams'[dialId'[ackRun'[1]]] = ackRun'[2]
    BY <1>0, <1>b, <2>3, <2>4, Zenon DEF ClientStay
  <2>7. \A f \in ClientEntries :
          clientCh'[f] # None => clientStreams'[dialId'[clientCh'[f]]] = f
    BY <1>d, <2>3, <2>4, Zenon
  <2> QED
    BY <2>5, <2>6, <2>7, Zenon DEF ClientStay
<1>3. CASE RunAck
  <2>0. PICK d : d = Head(acks)
    BY Zenon
  <2>1. PICK e : e = EntryOf(clientStreams, dialId[d], <<"ack", d>>)
    BY Zenon
  <2>2. d \in Known
    BY <1>0, <1>3, <2>0, SeqParts, Zenon DEF RunAck, WiresOK
  <2>3. /\ clientStreams'[dialId[d]] = e /\ ackRun' = <<d, e>>
        /\ \A i \in Ids : i # dialId[d] => clientStreams'[i] = clientStreams[i]
        /\ UNCHANGED <<clientCh, dialEntry, dialId>>
    BY <1>0, <1>3, <2>0, <2>1, <2>2, Zenon DEF RunAck, PendingOK
  <2>4. \A i \in Ids : clientStreams[i] # <<>> =>
          clientStreams'[i] = clientStreams[i]
    BY <2>1, <2>3, Zenon DEF EntryOf
  <2>5. \A x \in Dials : dialEntry'[x] # <<>> =>
          clientStreams'[dialId'[x]] = dialEntry'[x]
    BY <1>a, <2>3, <2>4, Zenon DEF ClientStay
  <2>6. ackRun'[1] = d /\ ackRun'[2] = e
    BY <2>3, SMT, Z3, SMTT(20)
  <2>7. \A f \in ClientEntries :
          clientCh'[f] # None => clientStreams'[dialId'[clientCh'[f]]] = f
    BY <1>d, <2>3, <2>4, Zenon
  <2> QED
    BY <2>3, <2>5, <2>6, <2>7, Zenon DEF ClientStay
<1>4. CASE RunAckQueue
  <2>1. /\ ackRun # <<>> /\ ackRun' = <<>>
        /\ UNCHANGED <<clientStreams, dialEntry, dialId>>
    BY <1>4, Zenon DEF RunAckQueue
  <2>2. \A e \in ClientEntries :
          clientCh'[e] = clientCh[e] \/ (e = ackRun[2] /\ clientCh'[e] = ackRun[1])
    BY <1>0, <1>4, Zenon DEF RunAckQueue, PendingOK
  <2> QED
    BY <2>1, <2>2, Zenon DEF ClientStay
<1>5. ASSUME NEW d \in Dials, DialAck(d) PROVE ClientStay'
  <2>1. UNCHANGED <<clientStreams, dialEntry, dialId, ackRun>>
    BY <1>5, Zenon DEF DialAck
  <2>2. \A e \in ClientEntries : clientCh'[e] = clientCh[e] \/ clientCh'[e] = None
    BY <1>0, <1>5, Zenon DEF DialAck, PendingOK
  <2> QED
    BY <2>1, <2>2, Zenon DEF ClientStay
<1>6. ASSUME NEW d \in Dials, DialEndStep(d) PROVE ClientStay'
  <2>1. ~DialTimeout(d) /\ ~Reap(d)
    BY SMT, Z3, SMTT(20) DEF DialTimeout, Reap, Calm
  <2>2. DialExpire(d) \/ DialOpen(d) => UNCHANGED pendVars /\ dialEntry' = dialEntry
    BY Zenon DEF DialExpire, DialOpen
  <2> QED
    BY <1>1, <1>2, <1>5, <1>6, <2>1, <2>2, ZenonT(40) DEF DialEndStep
<1>7. ASSUME UNCHANGED <<dialEntry, pendVars>> PROVE ClientStay'
  BY <1>1, <1>7, Zenon
<1>8. ASSUME NEW d \in Dials, NEW i \in Ids, DialKnock(d, i) PROVE ClientStay'
  BY <1>7, <1>8, KnockFrame, Zenon
<1>9. CASE RunKnock \/ RunKnockQueue
  BY <1>7, <1>9, Zenon DEF RunKnock, RunKnockQueue
<1>10. ASSUME NEW a \in Accepts, AcceptEndStep(a) PROVE ClientStay'
  BY <1>7, <1>10, AcceptFrame, Zenon
<1>11. ASSUME NEW a \in Accepts, NEW i \in Ids, AcceptCall(a, i)
       PROVE ClientStay'
  BY <1>7, <1>11, CallFrame, Zenon
<1>12. CASE LoopStep \/ UNCHANGED vars
  BY <1>7, <1>12, LoopFrame, Zenon DEF vars
<1> QED
  BY <1>3, <1>4, <1>6, <1>8, <1>9, <1>10, <1>11, <1>12, StepCases, Zenon
     DEF RunStep

\* The accepting end keeps the entry of an id.
LEMMA ServerStayPreserved ==
  ASSUME StateOK, fault = "none", Calm, ServerStay, [Next]_vars
  PROVE  ServerStay'
<1> USE NoneIsNothing, EntryNames DEF dialVars, accVars, knockVars, lfkVars
<1>0. /\ DialsOK /\ AcceptsOK /\ KnocksOK /\ ListensOK /\ WiresOK
      /\ Known \subseteq Dials
      /\ \A d \in Known : dialId[d] \in Ids /\ dialId'[d] = dialId[d]
  BY KnownGrows, Zenon DEF StateOK, Known, DialsOK
<1>i. \A a \in Accepts : acceptId[a] # None => acceptId'[a] = acceptId[a]
  <2>1. ASSUME NEW a \in Accepts, NEW id \in Ids, AcceptCall(a, id)
        PROVE  \A b \in Accepts : acceptId[b] # None => acceptId'[b] = acceptId[b]
    BY <1>0, <2>1, Zenon DEF AcceptCall, AcceptsOK
  <2> QED
    BY <2>1, StepCases, KnockFrame, DialFrame, RunFrame, AcceptFrame,
       LoopFrame,
       Zenon DEF vars
<1>d. ASSUME \A i \in Ids : serverStreams[i] # <<>> =>
               serverStreams'[i] = serverStreams[i]
      PROVE  /\ \A a \in Accepts : listenEntry[a] # <<>> =>
                  serverStreams'[acceptId'[a]] = listenEntry[a]
             /\ knockRun # <<>> =>
                  serverStreams'[dialId'[knockRun[1]]] = knockRun[2]
             /\ \A e \in ServerEntries : serverCh[e] # None =>
                  serverStreams'[dialId'[serverCh[e]]] = e
  <2>1. ASSUME NEW a \in Accepts, listenEntry[a] # <<>>
        PROVE  serverStreams'[acceptId'[a]] = listenEntry[a]
    <3>1. acceptId[a] \in Ids
      BY <1>0, <2>1, SMT, Z3, SMTT(20) DEF ListensOK, AcceptsOK
    <3>2. serverStreams[acceptId[a]] = listenEntry[a]
      BY <2>1, Zenon DEF ServerStay
    <3> QED
      BY <1>d, <1>i, <2>1, <3>1, <3>2, ZenonT(40)
  <2>2. ASSUME knockRun # <<>>
        PROVE  serverStreams'[dialId'[knockRun[1]]] = knockRun[2]
    <3>1. knockRun[1] \in Known /\ knockRun[2] \in ServerEntries
      BY <1>0, <2>2, SMT, Z3, SMTT(20) DEF KnocksOK
    <3>2. serverStreams[dialId[knockRun[1]]] = knockRun[2]
      BY <2>2, Zenon DEF ServerStay
    <3> QED
      BY <1>0, <1>d, <3>1, <3>2, ZenonT(40)
  <2>3. ASSUME NEW e \in ServerEntries, serverCh[e] # None
        PROVE  serverStreams'[dialId'[serverCh[e]]] = e
    <3>1. serverCh[e] \in Known
      BY <1>0, <2>3, Zenon DEF KnocksOK
    <3>2. serverStreams[dialId[serverCh[e]]] = e
      BY <2>3, Zenon DEF ServerStay
    <3> QED
      BY <1>0, <1>d, <3>1, <3>2, Zenon
  <2> QED
    BY <2>1, <2>2, <2>3, Zenon
<1>1. ASSUME UNCHANGED <<serverStreams, listenEntry, knockRun, serverCh>>
      PROVE  ServerStay'
  BY <1>d, <1>1, Zenon DEF ServerStay
<1>2. ASSUME NEW a \in Accepts, NEW id \in Ids, AcceptCall(a, id)
      PROVE  ServerStay'
  <2>1. PICK e : e = EntryOf(serverStreams, id, <<"accept", a>>)
    BY Zenon
  <2>2. /\ serverStreams' = [serverStreams EXCEPT ![id] = e]
        /\ UNCHANGED <<listenEntry, knockRun, serverCh>>
    BY <1>2, <2>1, Zenon DEF AcceptCall
  <2>3. \A i \in Ids : serverStreams[i] # <<>> =>
          serverStreams'[i] = serverStreams[i]
    BY <1>0, <2>1, <2>2, Zenon DEF EntryOf, KnocksOK
  <2> QED
    BY <1>d, <2>2, <2>3, Zenon DEF ServerStay
<1>3. CASE RunKnock
  <2>0. PICK d : d = Head(knocks)
    BY Zenon
  <2>1. PICK e : e = EntryOf(serverStreams, dialId[d], <<"run", d>>)
    BY Zenon
  <2>2. d \in Known
    BY <1>0, <1>3, <2>0, SeqParts, Zenon DEF RunKnock, WiresOK
  <2>3. /\ serverStreams' = [serverStreams EXCEPT ![dialId[d]] = e]
        /\ knockRun' = <<d, e>>
        /\ UNCHANGED <<listenEntry, serverCh>>
    BY <1>3, <2>0, <2>1, Zenon DEF RunKnock
  <2>4. \A i \in Ids : serverStreams[i] # <<>> =>
          serverStreams'[i] = serverStreams[i]
    BY <1>0, <2>1, <2>3, Zenon DEF EntryOf, KnocksOK
  <2>5. knockRun'[1] = d /\ knockRun'[2] = e /\ serverStreams'[dialId'[d]] = e
    <3>1. serverStreams'[dialId[d]] = e
      BY <1>0, <2>2, <2>3, Zenon DEF KnocksOK
    <3> QED
      BY <1>0, <2>2, <2>3, <3>1, SMT, Z3, SMTT(20)
  <2> QED
    BY <1>d, <2>3, <2>4, <2>5, Zenon DEF ServerStay
<1>4. CASE RunKnockQueue
  <2>1. /\ knockRun # <<>> /\ knockRun' = <<>>
        /\ UNCHANGED <<serverStreams, listenEntry>>
    BY <1>4, Zenon DEF RunKnockQueue
  <2>2. \A e \in ServerEntries :
          serverCh'[e] = serverCh[e] \/ (e = knockRun[2] /\ serverCh'[e] = knockRun[1])
    BY <1>0, <1>4, Zenon DEF RunKnockQueue, KnocksOK
  <2>3. /\ knockRun # <<>> =>
             serverStreams'[dialId'[knockRun[1]]] = knockRun[2]
        /\ \A a \in Accepts : listenEntry'[a] # <<>> =>
                  serverStreams'[acceptId'[a]] = listenEntry'[a]
        /\ \A e \in ServerEntries : serverCh[e] # None =>
             serverStreams'[dialId'[serverCh[e]]] = e
    BY <1>d, <2>1, Zenon
  <2> QED
    BY <2>1, <2>2, <2>3, Zenon DEF ServerStay
<1>5. ASSUME NEW a \in Accepts, ListenStart(a) PROVE ServerStay'
  <2>1. PICK e : e = EntryOf(serverStreams, acceptId[a], <<"listen", a>>)
    BY Zenon
  <2>2. acceptId[a] \in Ids
    BY <1>0, <1>5, SMT, Z3, SMTT(20) DEF ListenStart, ListensOK, AcceptsOK
  <2>3. /\ serverStreams' = [serverStreams EXCEPT ![acceptId[a]] = e]
        /\ listenEntry' = [listenEntry EXCEPT ![a] = e]
        /\ UNCHANGED <<knockRun, serverCh, acceptId>>
    BY <1>5, <2>1, Zenon DEF ListenStart
  <2>4. \A i \in Ids : serverStreams[i] # <<>> =>
          serverStreams'[i] = serverStreams[i]
    BY <1>0, <2>1, <2>3, Zenon DEF EntryOf, KnocksOK
  <2>5. /\ serverStreams'[acceptId'[a]] = e /\ listenEntry'[a] = e
        /\ \A b \in Accepts : b # a => listenEntry'[b] = listenEntry[b]
    BY <1>0, <2>2, <2>3, Zenon DEF KnocksOK, ListensOK
  <2> QED
    BY <1>d, <2>3, <2>4, <2>5, ZenonT(40) DEF ServerStay
<1>6. ASSUME NEW a \in Accepts, ListenKnock(a) PROVE ServerStay'
  <2>1. UNCHANGED <<serverStreams, listenEntry, knockRun>>
    BY <1>6, Zenon DEF ListenKnock
  <2>2. \A e \in ServerEntries : serverCh'[e] = serverCh[e] \/ serverCh'[e] = None
    BY <1>0, <1>6, Zenon DEF ListenKnock, KnocksOK
  <2> QED
    BY <1>d, <2>1, <2>2, Zenon DEF ServerStay
<1>7. ASSUME NEW a \in Accepts, AcceptEndStep(a) PROVE ServerStay'
  <2>1. ~ListenerClose(a)
    BY SMT, Z3, SMTT(20) DEF ListenerClose
  <2>2. \/ ListenStart(a) \/ ListenKnock(a)
        \/ UNCHANGED <<serverStreams, listenEntry, knockRun, serverCh>>
    BY <1>7, <2>1, Zenon DEF AcceptEndStep, AcceptRegister, ListenStep,
         ListenDone, AcceptKnockHost, AcceptKnockUnblock, AcceptKnockPlugin,
         ListenAck
  <2> QED
    BY <1>1, <1>5, <1>6, <2>2, ZenonT(40)
<1>8. CASE RunAck \/ RunAckQueue
  BY <1>1, <1>8, Zenon DEF RunAck, RunAckQueue
<1>9. ASSUME NEW d \in Dials, NEW i \in Ids, DialKnock(d, i) PROVE ServerStay'
  BY <1>1, <1>9, KnockFrame, Zenon
<1>10. ASSUME NEW d \in Dials, DialEndStep(d) PROVE ServerStay'
  BY <1>1, <1>10, DialFrame, Zenon
<1>11. CASE LoopStep \/ UNCHANGED vars
  BY <1>1, <1>11, LoopFrame, Zenon DEF vars
<1> QED
  BY <1>2, <1>3, <1>4, <1>7, <1>8, <1>9, <1>10, <1>11, StepCases, Zenon
     DEF RunStep

\* The message on its way is that of the Dial that has dialMutex.
LEMMA OneInPassing ==
  ASSUME HoldInv, OnItsWay, NEW d \in Dials, InPassing(d)
  PROVE  dialMutex = d /\ \A x \in Dials : x # d => ~InPassing(x)
<1>1. \A x \in Dials : InPassing(x) => dialMutex = x
  BY SMT, Z3, SMTT(20) DEF OnItsWay, HoldInv, Holding
<1> QED
  BY <1>1, Zenon

\* No knock and no acknowledgement is lost or dropped.
LEMMA OnItsWayPreserved ==
  ASSUME StateOK, PassInv, HoldInv, fault = "none", Calm, OnItsWay, [Next]_vars
  PROVE  OnItsWay'
<1> USE NoneIsNothing DEF dialVars
<1>0. /\ DialsOK /\ PendingOK /\ KnocksOK
      /\ dial \in [Dials -> {"idle", "knocked", "ack", "expired", "open", "ok",
                             "error"}]
  BY Zenon DEF StateOK, DialsOK
<1>o. \A x \in Dials : OnePlace(x)
  BY Zenon DEF PassInv
\* A step that moves the message of d and leaves it on its way.
<1>1. ASSUME NEW d \in Dials, OnlyMoves(d), InPassing(d), InPassing(d)',
             UNCHANGED dial
      PROVE  OnItsWay'
  <2>1. \A x \in Dials : x # d => ~InPassing(x)
    BY <1>1, OneInPassing, Zenon
  <2>2. \A x \in Dials : x # d => ~InPassing(x)'
    BY <1>1, <2>1, Zenon DEF OnlyMoves, InPassing, Unanswered
  <2> QED
    BY <1>1, <2>1, <2>2, Zenon DEF OnItsWay
<1>2. CASE RunKnock
  <2>1. PICK d \in Dials : OnlyMoves(d) /\ KnockOnWire(d) /\ KnockTaken(d)'
    BY <1>2, RunTakesKnock, Zenon
  <2> QED
    BY <1>1, <1>2, <2>1, Zenon DEF RunKnock, InPassing, Unanswered
<1>3. CASE RunKnockQueue
  <2>1. PICK d \in Dials :
          /\ OnlyMoves(d) /\ KnockTaken(d)
          /\ serverCh[knockRun[2]] = None => KnockQueued(d)'
    BY <1>3, RunQueuesKnock, Zenon
  <2>2. InPassing(d)
    BY <2>1, Zenon DEF InPassing, Unanswered
  <2>3. serverCh[knockRun[2]] = None
    <3>1. knockRun[2] \in ServerEntries
      BY <1>0, <1>3, SMT, Z3, SMTT(20) DEF RunKnockQueue, KnocksOK
    <3> SUFFICES ASSUME serverCh[knockRun[2]] # None PROVE FALSE
      BY Zenon
    <3>2. PICK m \in Dials : m = serverCh[knockRun[2]]
      BY <1>0, <3>1, Zenon DEF KnocksOK, Known
    <3>3. KnockQueued(m)
      BY <3>1, <3>2, Zenon DEF KnockQueued
    <3>4. m = d
      BY <2>2, <3>3, OneInPassing, Zenon DEF InPassing, Unanswered
    <3> QED
      BY <1>o, <2>1, <3>3, <3>4, Zenon DEF OnePlace
  <2> QED
    BY <1>1, <1>3, <2>1, <2>2, <2>3, Zenon DEF RunKnockQueue, InPassing,
         Unanswered
<1>4. ASSUME NEW a \in Accepts, ListenKnock(a) \/ ListenAck(a) PROVE OnItsWay'
  <2>1. PICK d \in Dials : /\ OnlyMoves(d)
                           /\ \/ KnockQueued(d) /\ KnockHeard(d)'
                              \/ KnockHeard(d) /\ AckOnWire(d)'
    BY <1>4, ListenTakesKnock, ListenAnswers, Zenon
  <2>2. dial' = dial
    BY <1>4, Zenon DEF ListenKnock, ListenAck
  <2> QED
    BY <1>1, <2>1, <2>2, Zenon DEF InPassing, Unanswered
<1>5. CASE RunAck
  <2>1. PICK d \in Dials : OnlyMoves(d) /\ AckOnWire(d) /\ AckTaken(d)'
    BY <1>5, RunTakesAck, Zenon
  <2> QED
    BY <1>1, <1>5, <2>1, Zenon DEF RunAck, InPassing, Unanswered
<1>6. CASE RunAckQueue
  <2>1. PICK d \in Dials :
          /\ OnlyMoves(d) /\ AckTaken(d)
          /\ clientCh[ackRun[2]] = None => AckQueued(d)'
    BY <1>6, RunQueuesAck, Zenon
  <2>2. InPassing(d)
    BY <2>1, Zenon DEF InPassing
  <2>3. clientCh[ackRun[2]] = None
    <3>1. ackRun[2] \in ClientEntries
      BY <1>0, <1>6, SMT, Z3, SMTT(20) DEF RunAckQueue, PendingOK
    <3> SUFFICES ASSUME clientCh[ackRun[2]] # None PROVE FALSE
      BY Zenon
    <3>2. PICK m \in Dials : m = clientCh[ackRun[2]]
      BY <1>0, <3>1, Zenon DEF PendingOK, Known
    <3>3. AckQueued(m)
      BY <3>1, <3>2, Zenon DEF AckQueued
    <3>4. m = d
      BY <2>2, <3>3, OneInPassing, Zenon DEF InPassing
    <3> QED
      BY <1>o, <2>1, <3>3, <3>4, Zenon DEF OnePlace
  <2> QED
    BY <1>1, <1>6, <2>1, <2>2, <2>3, Zenon DEF RunAckQueue, InPassing
<1>7. ASSUME NEW x \in Dials, DialAck(x) PROVE OnItsWay'
  <2>1. PICK d \in Dials : OnlyMoves(d) /\ AckQueued(d) /\ ~InPassing(d)'
    BY <1>7, DialTakesAck, Zenon
  <2>2. InPassing(d) /\ dialMutex = d /\ \A y \in Dials : y # d => ~InPassing(y)
    BY <2>1, OneInPassing, Zenon DEF InPassing
  <2>3. x = d
    BY <1>7, <2>2, Zenon DEF DialAck, HoldInv, Holding
  <2>4. \A y \in Dials : ~InPassing(y)'
    BY <2>1, <2>2, Zenon DEF OnlyMoves, InPassing, Unanswered
  <2>5. /\ dial'[x] \in {"open", "error"}
        /\ \A y \in Dials : y # x => dial'[y] = dial[y]
    BY <1>0, <1>7, Zenon DEF DialAck
  <2>6. \A y \in Dials : dial'[y] \notin {"knocked", "ack"}
    BY <2>2, <2>3, <2>5, SMT, Z3, SMTT(20) DEF OnItsWay
  <2> QED
    BY <2>4, <2>6, Zenon DEF OnItsWay
<1>8. ASSUME NEW d \in Dials, NEW id \in Ids, DialKnock(d, id) PROVE OnItsWay'
  <2>1. OnlyMoves(d) /\ KnockOnWire(d)'
    BY <1>8, KnockSends, Zenon
  <2>2. \A y \in Dials : dial[y] \notin Holding
    BY <1>8, Zenon DEF DialKnock, HoldInv
  <2>3. \A y \in Dials : ~InPassing(y)
    BY <2>2, Zenon DEF OnItsWay, Holding
  <2>4. /\ dial'[d] = "knocked"
        /\ \A y \in Dials : y # d => dial'[y] = dial[y]
    BY <1>0, <1>8, Zenon DEF DialKnock
  <2>5. \A y \in Dials : y # d => ~InPassing(y)'
    BY <2>1, <2>3, Zenon DEF OnlyMoves, InPassing, Unanswered
  <2>6. InPassing(d)'
    BY <2>1, Zenon DEF InPassing, Unanswered
  <2> QED
    BY <2>2, <2>4, <2>5, <2>6, Zenon DEF OnItsWay, Holding
<1>9. ASSUME UNCHANGED passVars,
             \A y \in Dials : dial'[y] \in {"knocked", "ack"} <=>
               dial[y] \in {"knocked", "ack"}
      PROVE  OnItsWay'
  <2>1. UNCHANGED <<knocks, knockRun, serverCh, listenMsg, acks, ackRun, clientCh>>
    BY <1>9, Zenon DEF passVars
  <2>2. \A y \in Dials : InPassing(y)' <=> InPassing(y)
    BY <2>1, PlacesKept, Zenon DEF InPassing, Unanswered
  <2> QED
    BY <1>9, <2>2, Zenon DEF OnItsWay
<1>10. ASSUME NEW d \in Dials, DialEndStep(d), ~DialAck(d) PROVE OnItsWay'
  <2>1. ~DialExpire(d) /\ ~DialTimeout(d)
    BY SMT, Z3, SMTT(20) DEF DialExpire, DialTimeout, Calm
  <2>2. UNCHANGED passVars
    BY <1>10, <2>1, Zenon DEF DialEndStep, DialWait, DialOpen, Reap, passVars,
         wires, pendVars, knockVars, lfkVars
  <2>3. \/ dial' = dial
        \/ dial[d] = "knocked" /\ dial' = [dial EXCEPT ![d] = "ack"]
        \/ dial[d] = "open" /\ dial' = [dial EXCEPT ![d] = "ok"]
    BY <1>10, <2>1, Zenon DEF DialEndStep, DialWait, DialOpen, Reap
  <2>4. \A y \in Dials : dial'[y] \in {"knocked", "ack"} <=>
               dial[y] \in {"knocked", "ack"}
    BY <1>0, <2>3, SMT, Z3, SMTT(20)
  <2> QED
    BY <1>9, <2>2, <2>4, ZenonT(40)
<1>11. ASSUME NEW a \in Accepts, AcceptEndStep(a) PROVE dial' = dial
  BY <1>11, AcceptFrame, Zenon
<1>12. ASSUME NEW a \in Accepts, NEW id \in Ids, AcceptCall(a, id)
       PROVE  dial' = dial
  BY <1>12, CallFrame, Zenon
<1>13. RunStep \/ LoopStep \/ UNCHANGED vars => dial' = dial
  BY RunFrame, LoopFrame, Zenon DEF vars
<1>14. CASE UNCHANGED passVars
  <2>1. ASSUME dial' = dial PROVE OnItsWay'
    BY <1>9, <1>14, <2>1, Zenon
  <2> QED
    BY <1>7, <1>8, <1>10, <1>11, <1>12, <1>13, <2>1, StepCases, Zenon
<1> QED
  BY <1>2, <1>3, <1>4, <1>5, <1>6, <1>7, <1>8, <1>14, PassSteps, Zenon

-----------------------------------------------------------------------------
(* Tokens and streams.  A knock that AcceptKnock has granted has a token,   *)
(* the host's waitCh and the listener that goes on to session.Accept with   *)
(* it, or the id in the plugin's knockCh, until its stream is accepted.     *)

Ungranted(d) == \/ KnockOnWire(d) \/ KnockTaken(d) \/ KnockQueued(d)
                \/ \E a \in Accepts : /\ listenMsg[a] = d
                                      /\ listen[a] \in {"knock", "unblock"}

GrantInv == \A d \in Dials : dial[d] = "idle" \/ Ungranted(d) => d \notin ackOK

Registered(a) == accept[a] \in {"open", "closed"}

RegisterInv ==
  /\ \A id \in Ids : listeners[id] # None => Registered(listeners[id])
  /\ \A a \in waitCh : Registered(a)
  /\ main = "handoff" => Registered(mainTo)

StreamInv == \A d \in Dials : dial[d] = "ok" =>
  InSeq(backlog, d) \/ mainConn = d \/ conn[d] # None \/ d \in astray

NotPlugin == main = "accept" /\ astray = {}

Opening(d) == dial[d] = "open" \/ (d \in ackOK /\ dial[d] \in {"knocked", "ack"})
Granted == \E d \in Dials : Opening(d)
KnockInv == knockCh # None => Granted \/ backlog # <<>> \/ main = "route"

\* A message that is not granted was not before.
LEMMA UngrantedStays ==
  ASSUME StateOK, PassInv, [Next]_vars, NEW x \in Dials, Ungranted(x)'
  PROVE  Ungranted(x) \/ dial[x] = "idle"
<1> USE DEF lfkVars
<1>0. ListensOK
  BY Zenon DEF StateOK
<1>1. ASSUME NEW d \in Dials, d # x, OnlyMoves(d), UNCHANGED <<listenMsg, listen>>
      PROVE  Ungranted(x)
  BY <1>1, Zenon DEF OnlyMoves, Ungranted
<1>2. ASSUME NEW d \in Dials, NEW id \in Ids, DialKnock(d, id)
      PROVE  Ungranted(x) \/ dial[x] = "idle"
  BY <1>1, <1>2, KnockSends, KnockFrame, Zenon DEF DialKnock
<1>3. CASE RunKnock
  BY <1>1, <1>3, RunTakesKnock, Zenon DEF Ungranted, RunKnock
<1>4. CASE RunKnockQueue
  BY <1>1, <1>4, RunQueuesKnock, Zenon DEF Ungranted, RunKnockQueue
<1>5. ASSUME NEW a \in Accepts, ListenKnock(a) PROVE Ungranted(x)
  <2>1. PICK d \in Dials :
          d = serverCh[listenEntry[a]] /\ OnlyMoves(d) /\ KnockQueued(d)
    BY <1>5, ListenTakesKnock, Zenon
  <2>2. \A b \in Accepts : b # a =>
          listen'[b] = listen[b] /\ listenMsg'[b] = listenMsg[b]
    BY <1>0, <1>5, Zenon DEF ListenKnock, ListensOK
  <2>3. listenMsg'[a] = d
    BY <1>0, <1>5, <2>1, Zenon DEF ListenKnock, ListensOK
  <2> QED
    BY <2>1, <2>2, <2>3, Zenon DEF Ungranted, OnlyMoves
<1>6. ASSUME UNCHANGED <<knocks, knockRun, serverCh>>,
             \A b \in Accepts : listen'[b] \in {"knock", "unblock"} =>
               listen[b] \in {"knock", "unblock"} /\ listenMsg'[b] = listenMsg[b]
      PROVE  Ungranted(x)
  <2>1. /\ KnockOnWire(x)' => KnockOnWire(x)
        /\ KnockTaken(x)' => KnockTaken(x)
        /\ KnockQueued(x)' => KnockQueued(x)
    BY <1>6, PlacesKept, Zenon
  <2> QED
    BY <1>6, <2>1, Zenon DEF Ungranted
<1>7. ASSUME NEW a \in Accepts, AcceptEndStep(a), ~ListenKnock(a)
      PROVE  Ungranted(x)
  <2>1. UNCHANGED <<knocks, knockRun, serverCh>>
    BY <1>7, Zenon
       DEF AcceptEndStep, AcceptRegister, ListenerClose, ListenStep,
         ListenStart, ListenDone, AcceptKnockHost, AcceptKnockUnblock,
         AcceptKnockPlugin, ListenAck, wires, knockVars
  <2>2. \/ UNCHANGED <<listen, listenMsg>>
        \/ /\ \E s \in {"select", "gone"} : listen' = [listen EXCEPT ![a] = s]
           /\ listenMsg' = listenMsg
        \/ listen[a] \in {"knock", "unblock"} /\ listenMsg' = listenMsg
           /\ \E s \in {"unblock", "ack"} : listen' = [listen EXCEPT ![a] = s]
        \/ /\ listen' = [listen EXCEPT ![a] = "select"]
           /\ listenMsg' = [listenMsg EXCEPT ![a] = None]
    BY <1>7, ZenonT(40)
       DEF AcceptEndStep, AcceptRegister, ListenerClose, ListenStep,
         ListenStart, ListenDone, AcceptKnockHost, AcceptKnockUnblock,
         AcceptKnockPlugin, ListenAck
  <2>3. \A b \in Accepts : listen'[b] \in {"knock", "unblock"} =>
          listen[b] \in {"knock", "unblock"} /\ listenMsg'[b] = listenMsg[b]
    BY <1>0, <2>2, SMT, Z3, SMTT(20) DEF ListensOK
  <2> QED
    BY <1>6, <2>1, <2>3, Zenon
<1>8. ASSUME NEW a \in Accepts, NEW id \in Ids, AcceptCall(a, id)
      PROVE  Ungranted(x)
  <2>1. UNCHANGED <<knocks, knockRun, serverCh, listenMsg>>
    BY <1>8, CallFrame, ZenonT(40) DEF wires
  <2>2. \A b \in Accepts : listen'[b] \in {"knock", "unblock"} =>
          listen[b] \in {"knock", "unblock"}
    BY <1>0, <1>8, SMT, Z3, SMTT(20) DEF AcceptCall, ListensOK
  <2> QED
    BY <1>6, <2>1, <2>2, Zenon
<1>9. ASSUME UNCHANGED <<knocks, knockRun, serverCh, listenMsg, listen>>
      PROVE  Ungranted(x)
  BY <1>6, <1>9, Zenon
<1>10. ASSUME NEW d \in Dials, DialEndStep(d) PROVE Ungranted(x)
  BY <1>9, <1>10, DialFrame, Zenon DEF wires, knockVars
<1>11. CASE RunAck \/ RunAckQueue
  BY <1>9, <1>11, Zenon DEF RunAck, RunAckQueue, wires, knockVars
<1>12. CASE LoopStep \/ UNCHANGED vars
  BY <1>9, <1>12, LoopFrame, Zenon DEF vars, wires, knockVars
<1> QED
  BY <1>2, <1>3, <1>4, <1>5, <1>7, <1>8, <1>10, <1>11, <1>12, StepCases, Zenon
     DEF RunStep

\* What AcceptKnock grants.
LEMMA Grants ==
  ASSUME [Next]_vars
  PROVE  \/ ackOK' = ackOK
         \/ \E a \in Accepts :
              /\ listen[a] \in {"knock", "unblock"}
              /\ ackOK' = ackOK \cup {listenMsg[a]}
              /\ listen' = [listen EXCEPT ![a] = "ack"] /\ UNCHANGED passVars
<1> USE DEF passVars, wires, pendVars, knockVars, lfkVars
<1>1. ASSUME NEW a \in Accepts, AcceptEndStep(a)
      PROVE  \/ ackOK' = ackOK
             \/ /\ listen[a] \in {"knock", "unblock"}
                /\ ackOK' = ackOK \cup {listenMsg[a]}
                /\ listen' = [listen EXCEPT ![a] = "ack"] /\ UNCHANGED passVars
  <2>1. CASE AcceptKnockHost(a)
    BY <2>1, Zenon DEF AcceptKnockHost
  <2>2. CASE AcceptKnockUnblock(a)
    BY <2>2, Zenon DEF AcceptKnockUnblock
  <2>3. CASE AcceptKnockPlugin(a)
    BY <2>3, Zenon DEF AcceptKnockPlugin
  <2> QED
    BY <1>1, <2>1, <2>2, <2>3, Zenon DEF AcceptEndStep, AcceptRegister,
         ListenerClose, ListenStep, ListenStart, ListenKnock, ListenDone, ListenAck
<1> QED
  BY <1>1, StepCases, KnockFrame, DialFrame, RunFrame, CallFrame, LoopFrame,
     Zenon DEF vars

\* A knock is granted once it has been heard.
LEMMA GrantPreserved ==
  ASSUME StateOK, PassInv, GrantInv, [Next]_vars
  PROVE  GrantInv'
<1> USE NoneIsNothing
<1>0. DialsOK /\ ListensOK
  BY Zenon DEF StateOK
<1> SUFFICES ASSUME NEW d \in Dials, dial'[d] = "idle" \/ Ungranted(d)'
             PROVE  d \notin ackOK'
  BY Zenon DEF GrantInv
<1>1. dial[d] = "idle" \/ Ungranted(d)
  BY <1>0, DialPhases, UngrantedStays, Zenon
<1>2. d \notin ackOK
  BY <1>1, ZenonT(40) DEF GrantInv
<1>3. ASSUME NEW a \in Accepts, listen[a] \in {"knock", "unblock"}, d = listenMsg[a],
             listen' = [listen EXCEPT ![a] = "ack"], UNCHANGED passVars
      PROVE  FALSE
  <2>1. KnockHeard(d)
    BY <1>3, Zenon DEF KnockHeard
  <2>2. dial'[d] # "idle"
    BY <1>0, <2>1, DialPhases, IdleNowhere, Zenon DEF InPassing, Unanswered
  <2>3. UNCHANGED <<knocks, knockRun, serverCh, listenMsg>>
    BY <1>3, Zenon DEF passVars
  <2>4. ~KnockOnWire(d)' /\ ~KnockTaken(d)' /\ ~KnockQueued(d)'
    BY <2>1, <2>3, PlacesKept, Zenon DEF PassInv, OnePlace
  <2>5. PICK b \in Accepts : listenMsg[b] = d /\ listen'[b] \in {"knock", "unblock"}
    BY <2>2, <2>3, <2>4, Zenon DEF Ungranted
  <2>6. b = a
    BY <1>3, <2>5, Zenon DEF PassInv, OneEach
  <2> QED
    BY <1>0, <1>3, <2>5, <2>6, SMT, Z3, SMTT(20) DEF ListensOK
<1> QED
  BY <1>2, <1>3, Grants, Zenon

\* Tokens and streams go to listeners that are registered.
LEMMA RegisterPreserved ==
  ASSUME StateOK, RegisterInv, [Next]_vars
  PROVE  RegisterInv'
<1> USE NoneIsNothing DEF accVars, hostVars, mainVars
<1>0. /\ AcceptsOK /\ ListensOK /\ LoopsOK
      /\ \A id \in Ids : listeners[id] # None => listeners[id] \in Accepts
      /\ waitCh \subseteq Accepts
      /\ main = "handoff" => mainTo \in Accepts
  BY ZenonT(40) DEF StateOK, ListensOK, LoopsOK
<1>1. \A a \in Accepts : Registered(a) => Registered(a)'
  <2>1. ASSUME NEW a \in Accepts, AcceptEndStep(a)
        PROVE  \/ accept' = accept
               \/ \E s \in {"open", "closed"} : accept' = [accept EXCEPT ![a] = s]
    BY <2>1, Zenon
       DEF AcceptEndStep, AcceptRegister, ListenerClose, ListenStep,
         ListenStart, ListenKnock, ListenDone, AcceptKnockHost,
         AcceptKnockUnblock, AcceptKnockPlugin, ListenAck
  <2>2. ASSUME NEW a \in Accepts, NEW id \in Ids, AcceptCall(a, id)
        PROVE  accept[a] = "idle" /\ accept' = [accept EXCEPT ![a] = "register"]
    BY <2>2, Zenon DEF AcceptCall
  <2>3. \/ accept' = accept
        \/ \E a \in Accepts, s \in {"open", "closed"} :
             accept' = [accept EXCEPT ![a] = s]
        \/ \E a \in Accepts :
             accept[a] = "idle" /\ accept' = [accept EXCEPT ![a] = "register"]
    BY <2>1, <2>2, StepCases, KnockFrame, DialFrame, RunFrame, LoopFrame, Zenon
       DEF vars
  <2> QED
    BY <1>0, <2>3, SMT, Z3, SMTT(20) DEF AcceptsOK, Registered
<1>2. ASSUME UNCHANGED <<listeners, waitCh, main, mainTo>> PROVE RegisterInv'
  BY <1>0, <1>1, <1>2, Zenon DEF RegisterInv
<1>3. ASSUME NEW a \in Accepts, AcceptRegister(a) PROVE RegisterInv'
  <2>1. /\ listeners' = [listeners EXCEPT ![acceptId[a]] = a]
        /\ UNCHANGED <<waitCh, main, mainTo>>
    BY <1>3, Zenon DEF AcceptRegister
  <2>2. Registered(a)'
    BY <1>0, <1>3, Zenon DEF AcceptRegister, AcceptsOK, Registered
  <2>3. \A id \in Ids : listeners'[id] \in {listeners[id], a}
    BY <1>0, <2>1, Zenon DEF ListensOK
  <2> QED
    BY <1>0, <1>1, <2>1, <2>2, <2>3, Zenon DEF RegisterInv
<1>4. ASSUME NEW a \in Accepts, AcceptKnockHost(a) \/ AcceptKnockUnblock(a)
      PROVE  RegisterInv'
  <2>1. acceptId[a] \in Ids
    BY <1>0, <1>4, SMT, Z3, SMTT(20)
    DEF AcceptKnockHost, AcceptKnockUnblock, AcceptsOK, ListensOK
  <2>2. listen[a] = "unblock" => listeners[acceptId[a]] # None
    BY <1>0, Zenon DEF ListensOK
  <2>3. /\ UNCHANGED <<listeners, main, mainTo>>
        /\ \A b \in waitCh' : \/ b \in waitCh
                              \/ b = listeners[acceptId[a]] /\ b # None
    BY <1>4, <2>2, Zenon DEF AcceptKnockHost, AcceptKnockUnblock
  <2> QED
    BY <1>0, <1>1, <2>1, <2>3, ZenonT(40) DEF RegisterInv
<1>5. ASSUME NEW a \in Accepts, AcceptEndStep(a) PROVE RegisterInv'
  <2>1. \/ AcceptRegister(a) \/ AcceptKnockHost(a) \/ AcceptKnockUnblock(a)
        \/ UNCHANGED <<listeners, waitCh, main, mainTo>>
    BY <1>5, Zenon DEF AcceptEndStep, ListenerClose, ListenStep, ListenStart,
         ListenKnock, ListenDone, AcceptKnockPlugin, ListenAck
  <2> QED
    BY <1>2, <1>3, <1>4, <2>1, Zenon
<1>6. CASE LoopStep
  <2>1. listeners' = listeners
    BY <1>6, LoopFrame, Zenon
  <2>2. \A a \in waitCh' : a \in waitCh
    BY <1>6, Zenon DEF LoopStep, ServeStep, Serve, ServeEOF, HostUnblocked,
         HostAccept, MainHandoff, MainAccept, MainRoute
  <2>3. main' = "handoff" =>
          \/ main = "handoff" /\ mainTo' = mainTo
          \/ knockCh # None /\ listeners[knockCh] # None /\ mainTo' = listeners[knockCh]
    BY <1>6, Zenon DEF LoopStep, ServeStep, Serve, ServeEOF, HostUnblocked,
         HostAccept, MainHandoff, MainAccept, MainRoute
  <2>4. knockCh # None => knockCh \in Ids
    BY <1>0, Zenon DEF LoopsOK
  <2> QED
    BY <1>0, <1>1, <2>1, <2>2, <2>3, <2>4, Zenon DEF RegisterInv
<1>7. ASSUME NEW d \in Dials, NEW i \in Ids, DialKnock(d, i) PROVE RegisterInv'
  BY <1>2, <1>7, KnockFrame, Zenon
<1>8. ASSUME NEW d \in Dials, DialEndStep(d) PROVE RegisterInv'
  BY <1>2, <1>8, DialFrame, Zenon
<1>9. ASSUME NEW a \in Accepts, NEW i \in Ids, AcceptCall(a, i)
      PROVE  RegisterInv'
  BY <1>2, <1>9, CallFrame, Zenon
<1>10. CASE RunStep \/ UNCHANGED vars
  BY <1>2, <1>10, RunFrame, Zenon DEF vars
<1> QED
  BY <1>5, <1>6, <1>7, <1>8, <1>9, <1>10, StepCases, Zenon

\* What was in a sequence is its head or still there.
LEMMA SeqRest ==
  ASSUME NEW S, NEW s \in Seq(S), s # <<>>, NEW x, InSeq(s, x)
  PROVE  x = Head(s) \/ InSeq(Tail(s), x)
<1>1. PICK i \in 1..Len(s) : s[i] = x
  BY Zenon DEF InSeq
<1>2. CASE i = 1
  BY <1>1, <1>2, SMT, Z3, SMTT(20)
<1>3. CASE i # 1
  <2>1. i - 1 \in 1..Len(Tail(s)) /\ Tail(s)[i - 1] = x
    BY <1>1, <1>3, SMT, Z3, SMTT(20)
  <2> QED
    BY <2>1, Zenon DEF InSeq
<1> QED
  BY <1>2, <1>3, Zenon

\* A stream that was opened is in the backlog, in the accept loop's hands, with a
\* listener or astray.
LEMMA StreamsPreserved ==
  ASSUME StateOK, StreamInv, [Next]_vars
  PROVE  StreamInv'
<1> USE NoneIsNothing DEF dialVars, connVars, mainVars
<1>0. /\ DialsOK /\ LoopsOK /\ backlog \in Seq(Known)
      /\ conn \in [Dials -> Accepts \cup {None}]
  BY Zenon DEF StateOK, WiresOK, LoopsOK
<1>1. ASSUME UNCHANGED <<backlog, mainConn, conn, astray>>,
             \A d \in Dials : dial'[d] = "ok" => dial[d] = "ok"
      PROVE  StreamInv'
  BY <1>1, Zenon DEF StreamInv
<1>2. ASSUME NEW d \in Dials, DialEndStep(d) PROVE StreamInv'
  <2>1. CASE DialOpen(d)
    <3>1. /\ backlog' = Append(backlog, d)
          /\ UNCHANGED <<mainConn, conn, astray>>
      BY <2>1, Zenon DEF DialOpen
    <3>2. backlog \in Seq(Dials)
      BY <1>0, SeqGrows, Zenon DEF Known
    <3>3. \A x : InSeq(backlog', x) <=> InSeq(backlog, x) \/ x = d
      BY <3>1, <3>2, SeqAppended, Zenon
    <3>4. \A x \in Dials : x # d => dial'[x] = dial[x]
      BY <1>0, <2>1, Zenon DEF DialOpen, DialsOK
    <3> QED
      BY <3>1, <3>3, <3>4, Zenon DEF StreamInv
  <2>2. CASE ~DialOpen(d)
    <3>1. UNCHANGED <<backlog, mainConn, conn, astray>>
      BY <1>2, <2>2, Zenon DEF DialEndStep, DialWait, DialAck, DialExpire,
           DialTimeout, Reap
    <3>2. \/ dial' = dial
          \/ \E s \in {"ack", "expired", "error", "open"} :
               dial' = [dial EXCEPT ![d] = s]
      BY <1>2, <2>2, Zenon DEF DialEndStep, DialWait, DialAck, DialExpire,
           DialTimeout, Reap
    <3>3. \A x \in Dials : dial'[x] = "ok" => dial[x] = "ok"
      BY <1>0, <3>2, SMT, Z3, SMTT(20) DEF DialsOK
    <3> QED
      BY <1>1, <3>1, <3>3, Zenon
  <2> QED
    BY <2>1, <2>2, Zenon
<1>3. CASE LoopStep
  <2>0. dial' = dial
    BY <1>3, LoopFrame, Zenon
  <2>1. ASSUME NEW a \in Accepts, HostAccept(a) PROVE StreamInv'
    <3>1. /\ backlog # <<>> /\ backlog' = Tail(backlog)
          /\ conn' = [conn EXCEPT ![Head(backlog)] = a]
          /\ UNCHANGED <<mainConn, astray>>
      BY <2>1, Zenon DEF HostAccept
    <3>2. \A x : InSeq(backlog, x) => x = Head(backlog) \/ InSeq(backlog', x)
      BY <1>0, <3>1, SeqRest, Zenon
    <3>3. \A x \in Dials : /\ x = Head(backlog) => conn'[x] = a
                           /\ conn[x] # None => conn'[x] # None
      BY <1>0, <3>1, Zenon
    <3> QED
      BY <2>0, <3>1, <3>2, <3>3, Zenon DEF StreamInv
  <2>2. CASE MainAccept
    <3>1. /\ backlog # <<>> /\ backlog' = Tail(backlog)
          /\ mainConn' = Head(backlog) /\ main = "accept"
          /\ UNCHANGED <<conn, astray>>
      BY <2>2, Zenon DEF MainAccept
    <3>2. \A x : InSeq(backlog, x) => x = Head(backlog) \/ InSeq(backlog', x)
      BY <1>0, <3>1, SeqRest, Zenon
    <3>3. mainConn = None
      BY <1>0, <3>1, Zenon DEF LoopsOK
    <3> QED
      BY <2>0, <3>1, <3>2, <3>3, Zenon DEF StreamInv
  <2>3. CASE MainRoute
    <3>1. /\ UNCHANGED <<backlog, conn>>
          /\ mainConn' = mainConn \/ mainConn \in astray'
          /\ astray \subseteq astray'
      BY <2>3, Zenon DEF MainRoute
    <3> QED
      BY <2>0, <3>1, Zenon DEF StreamInv
  <2>4. ASSUME NEW a \in Accepts, MainHandoff(a) PROVE StreamInv'
    <3>1. /\ conn' = [conn EXCEPT ![mainConn] = a]
          /\ UNCHANGED <<backlog, astray>>
      BY <2>4, Zenon DEF MainHandoff
    <3>2. \A x \in Dials : /\ x = mainConn => conn'[x] = a
                           /\ conn[x] # None => conn'[x] # None
      BY <1>0, <3>1, Zenon
    <3> QED
      BY <2>0, <3>1, <3>2, Zenon DEF StreamInv
  <2>5. ASSUME NEW a \in Accepts, Serve(a) \/ ServeEOF(a) \/ HostUnblocked(a)
        PROVE  StreamInv'
    BY <1>1, <2>0, <2>5, Zenon DEF Serve, ServeEOF, HostUnblocked
  <2> QED
    BY <1>3, <2>1, <2>2, <2>3, <2>4, <2>5, Zenon DEF LoopStep, ServeStep
<1>4. ASSUME NEW d \in Dials, NEW i \in Ids, DialKnock(d, i) PROVE StreamInv'
  <2>1. UNCHANGED <<backlog, mainConn, conn, astray>>
    BY <1>4, KnockFrame, ZenonT(40)
  <2>2. \A x \in Dials : dial'[x] = "ok" => dial[x] = "ok"
    BY <1>0, <1>4, SMT, Z3, SMTT(20) DEF DialKnock, DialsOK
  <2> QED
    BY <1>1, <2>1, <2>2, Zenon
<1>5. ASSUME NEW a \in Accepts, AcceptEndStep(a) PROVE StreamInv'
  BY <1>1, <1>5, AcceptFrame, Zenon
<1>6. ASSUME NEW a \in Accepts, NEW i \in Ids, AcceptCall(a, i) PROVE StreamInv'
  BY <1>1, <1>6, CallFrame, Zenon
<1>7. CASE RunStep \/ UNCHANGED vars
  BY <1>1, <1>7, RunFrame, Zenon DEF vars
<1> QED
  BY <1>2, <1>3, <1>4, <1>5, <1>6, <1>7, StepCases, Zenon

\* A host has no accept loop of its own.
LEMMA NotPluginPreserved ==
  ASSUME side = "host", NotPlugin, [Next]_vars
  PROVE  NotPlugin'
<1> USE DEF mainVars, connVars
<1>1. LoopStep => UNCHANGED <<main, astray>>
  <2>1. ~MainAccept /\ ~MainRoute
    BY Zenon DEF MainAccept, MainRoute, NotPlugin
  <2>2. \A a \in Accepts : ~MainHandoff(a)
    BY SMT, Z3, SMTT(20) DEF MainHandoff, NotPlugin
  <2> QED
    BY <2>1, <2>2, Zenon DEF LoopStep, ServeStep, Serve, ServeEOF,
         HostUnblocked, HostAccept
<1> QED
  BY <1>1, StepCases, KnockFrame, DialFrame, RunFrame, CallFrame, AcceptFrame,
     Zenon DEF vars, NotPlugin

\* A Dial whose knock has been granted has dialMutex.
LEMMA OpeningHolds ==
  ASSUME HoldInv, NEW d \in Dials, Opening(d)
  PROVE  dialMutex = d
BY SMT, Z3, SMTT(20) DEF HoldInv, Holding, Opening

\* While AcceptKnock holds a knock nothing is granted, and the Dial waits for it.
LEMMA HeardUngranted ==
  ASSUME StateOK, HoldInv, GrantInv, OnItsWay,
         NEW a \in Accepts, listen[a] \in {"knock", "unblock"}
  PROVE  /\ ~Granted /\ listenMsg[a] \in Dials
         /\ dial[listenMsg[a]] \in {"knocked", "ack"}
<1>1. listenMsg[a] \in Dials
  BY NoneIsNothing, SMT, Z3, SMTT(20) DEF StateOK, ListensOK, Known
<1>2. Ungranted(listenMsg[a]) /\ InPassing(listenMsg[a])
  BY Zenon DEF Ungranted, InPassing, Unanswered, KnockHeard
<1>3. listenMsg[a] \notin ackOK /\ dial[listenMsg[a]] \in {"knocked", "ack"}
  BY <1>1, <1>2, Zenon DEF GrantInv, OnItsWay
<1>4. dialMutex = listenMsg[a]
  <2>1. PICK d \in Dials : d = listenMsg[a]
    BY <1>1, Zenon
  <2>2. dial[d] \in Holding
    BY <1>3, <2>1, ZenonT(40) DEF Holding
  <2> QED
    BY <2>1, <2>2, Zenon DEF HoldInv
<1>5. ~Granted
  <2> SUFFICES ASSUME NEW d \in Dials, Opening(d) PROVE FALSE
    BY Zenon DEF Granted
  <2>1. d = listenMsg[a]
    BY <1>4, OpeningHolds, Zenon
  <2> QED
    BY <1>3, <2>1, SMT, Z3, SMTT(20) DEF Opening
<1> QED
  BY <1>1, <1>3, <1>5, ZenonT(40)

\* A Dial's steps keep what is granted until its stream is opened.
LEMMA DialsGranted ==
  ASSUME StateOK, HoldInv, GrantInv, fault = "none", Calm, OnItsWay,
         NEW d \in Dials, DialEndStep(d) \/ \E id \in Ids : DialKnock(d, id)
  PROVE  \/ backlog' = backlog /\ (Granted' <=> Granted)
         \/ backlog' = Append(backlog, d) /\ Granted /\ ~Granted'
<1> USE NoneIsNothing DEF dialVars, connVars, lfkVars
<1>0. DialsOK /\ PendingOK
  BY Zenon DEF StateOK
<1>1. ackOK' = ackOK
  BY KnockFrame, DialFrame, Zenon
<1>2. ASSUME \A x \in Dials : x # d => dial'[x] = dial[x],
             Opening(d)' <=> Opening(d)
      PROVE  Granted' <=> Granted
  <2>1. \A x \in Dials : Opening(x)' <=> Opening(x)
    BY <1>1, <1>2, Zenon DEF Opening
  <2> QED
    BY <2>1, Zenon DEF Granted
<1>3. ASSUME NEW id \in Ids, DialKnock(d, id)
      PROVE  backlog' = backlog /\ (Granted' <=> Granted)
  <2>1. /\ backlog' = backlog /\ dial[d] = "idle" /\ dial'[d] = "knocked"
        /\ \A x \in Dials : x # d => dial'[x] = dial[x]
    BY <1>0, <1>3, Zenon DEF DialKnock, DialsOK
  <2>2. d \notin ackOK
    BY <2>1, ZenonT(40) DEF GrantInv
  <2>3. Opening(d)' <=> Opening(d)
    BY <1>1, <2>1, <2>2, SMT, Z3, SMTT(20) DEF Opening
  <2> QED
    BY <1>2, <2>1, <2>3, Zenon
<1>4. CASE DialWait(d)
  <2>1. /\ backlog' = backlog /\ dial[d] = "knocked" /\ dial'[d] = "ack"
        /\ \A x \in Dials : x # d => dial'[x] = dial[x]
    BY <1>0, <1>4, Zenon DEF DialWait, DialsOK
  <2>2. Opening(d)' <=> Opening(d)
    BY <1>1, <2>1, SMT, Z3, SMTT(20) DEF Opening
  <2> QED
    BY <1>2, <2>1, <2>2, Zenon
<1>5. CASE DialAck(d)
  <2>1. /\ backlog' = backlog /\ dial[d] = "ack"
        /\ \A x \in Dials : x # d => dial'[x] = dial[x]
        /\ clientCh[dialEntry[d]] # None
        /\ \/ clientCh[dialEntry[d]] \in ackOK /\ dial'[d] = "open"
           \/ clientCh[dialEntry[d]] \notin ackOK /\ dial'[d] = "error"
    BY <1>0, <1>5, Zenon DEF DialAck, DialsOK
  <2>2. dialEntry[d] \in ClientEntries
    BY <1>0, <2>1, Zenon DEF DialsOK
  <2>3. clientCh[dialEntry[d]] \in Dials /\ AckQueued(clientCh[dialEntry[d]])
    BY <1>0, <2>1, <2>2, Zenon DEF PendingOK, Known, AckQueued
  <2>4. clientCh[dialEntry[d]] = d
    <3>1. dialMutex = clientCh[dialEntry[d]]
      BY <2>3, OneInPassing, ZenonT(40) DEF InPassing
    <3>2. dialMutex = d
      BY <2>1, SMT, Z3, SMTT(20) DEF HoldInv, Holding
    <3> QED
      BY <3>1, <3>2, Zenon
  <2>5. Opening(d)' <=> Opening(d)
    BY <1>1, <2>1, <2>4, SMT, Z3, SMTT(20) DEF Opening
  <2> QED
    BY <1>2, <2>1, <2>5, Zenon
<1>6. CASE DialOpen(d)
  <2>1. /\ backlog' = Append(backlog, d) /\ dial[d] = "open" /\ dial'[d] = "ok"
        /\ \A x \in Dials : x # d => dial'[x] = dial[x]
    BY <1>0, <1>6, Zenon DEF DialOpen, DialsOK
  <2>2. Granted
    BY <2>1, Zenon DEF Granted, Opening
  <2>3. dialMutex = d
    BY <2>1, SMT, Z3, SMTT(20) DEF HoldInv, Holding
  <2>4. \A x \in Dials : x # d => ~Opening(x)
    BY <2>3, OpeningHolds, Zenon
  <2>5. \A x \in Dials : x # d => ~Opening(x)'
    BY <1>1, <2>1, <2>4, Zenon DEF Opening
  <2>6. ~Opening(d)'
    BY <2>1, SMT, Z3, SMTT(20) DEF Opening
  <2> QED
    BY <2>1, <2>2, <2>5, <2>6, Zenon DEF Granted
<1>7. ~DialTimeout(d)
  BY Zenon DEF Calm, DialTimeout
<1>8. ~DialExpire(d) /\ ~Reap(d)
  BY SMT, Z3, SMTT(20) DEF DialExpire, Reap
<1> QED
  BY <1>3, <1>4, <1>5, <1>6, <1>7, <1>8, Zenon DEF DialEndStep

\* Granting a knock.
LEMMA KnockGranted ==
  ASSUME StateOK, HoldInv, GrantInv, OnItsWay, NEW a \in Accepts,
         listen[a] \in {"knock", "unblock"}, ackOK' = ackOK \cup {listenMsg[a]},
         dial' = dial
  PROVE  ~Granted /\ Granted'
<1>1. PICK m \in Dials : m = listenMsg[a] /\ dial[m] \in {"knocked", "ack"}
  BY HeardUngranted, Zenon
<1>2. Opening(m)'
  BY <1>1, SMT, Z3, SMTT(20) DEF Opening
<1> QED
  BY <1>2, HeardUngranted, Zenon DEF Granted

\* The id in knockCh is that of a stream that is opened or will be.
LEMMA KnockChPreserved ==
  ASSUME StateOK, HoldInv, GrantInv, side = "plugin", NotHost, fault = "none",
         Calm, OnItsWay, KnockInv, [Next]_vars
  PROVE  KnockInv'
<1> USE DEF mainVars, connVars, dialVars, lfkVars
<1>1. ASSUME UNCHANGED <<knockCh, main, backlog>>, Granted => Granted'
      PROVE  KnockInv'
  BY <1>1, Zenon DEF KnockInv
<1>2. ASSUME UNCHANGED <<knockCh, main, backlog, dial, ackOK>> PROVE KnockInv'
  <2>1. Granted => Granted'
    BY <1>2, Zenon DEF Granted, Opening
  <2> QED
    BY <1>1, <1>2, <2>1, Zenon
<1>3. ASSUME NEW d \in Dials, DialEndStep(d) \/ \E id \in Ids : DialKnock(d, id)
      PROVE  KnockInv'
  <2>1. UNCHANGED <<knockCh, main>>
    BY <1>3, KnockFrame, DialFrame, Zenon
  <2>2. CASE backlog' = Append(backlog, d)
    <3>1. backlog' # <<>>
      BY <2>2, SMT, Z3, SMTT(20) DEF StateOK, WiresOK
    <3> QED
      BY <3>1, Zenon DEF KnockInv
  <2> QED
    BY <1>1, <1>3, <2>1, <2>2, DialsGranted, Zenon
<1>4. ASSUME NEW a \in Accepts, AcceptEndStep(a) PROVE KnockInv'
  <2>1. UNCHANGED <<main, backlog, dial>>
    BY <1>4, AcceptFrame, Zenon
  <2>2. CASE AcceptKnockPlugin(a)
    <3>1. listen[a] \in {"knock", "unblock"} /\ ackOK' = ackOK \cup {listenMsg[a]}
      BY <2>2, Zenon DEF AcceptKnockPlugin
    <3>2. Granted'
      BY <2>1, <3>1, KnockGranted, ZenonT(40)
    <3> QED
      BY <3>2, Zenon DEF KnockInv
  <2>3. ~AcceptKnockHost(a)
    BY SMT, Z3, SMTT(20) DEF AcceptKnockHost
  <2>4. ~AcceptKnockUnblock(a)
    BY Zenon DEF NotHost, AcceptKnockUnblock
  <2>5. CASE ~AcceptKnockPlugin(a)
    <3>1. UNCHANGED <<knockCh, ackOK>>
      BY <1>4, <2>3, <2>4, <2>5, Zenon DEF AcceptEndStep, AcceptRegister,
           ListenerClose, ListenStep, ListenStart, ListenKnock, ListenDone, ListenAck
    <3> QED
      BY <1>2, <2>1, <3>1, Zenon
  <2> QED
    BY <2>2, <2>5, Zenon
<1>5. CASE LoopStep
  <2>0. UNCHANGED <<dial, ackOK>>
    BY <1>5, LoopFrame, Zenon
  <2>1. CASE MainAccept
    BY <2>1, Zenon DEF MainAccept, KnockInv
  <2>2. CASE MainRoute
    BY <2>2, Zenon DEF MainRoute, KnockInv
  <2>3. ASSUME NEW a \in Accepts, MainHandoff(a) PROVE KnockInv'
    <3>1. UNCHANGED <<knockCh, backlog>> /\ main # "route"
      BY <2>3, SMT, Z3, SMTT(20) DEF MainHandoff
    <3>2. Granted => Granted'
      BY <2>0, Zenon DEF Granted, Opening
    <3> QED
      BY <3>1, <3>2, Zenon DEF KnockInv
  <2>4. \A a \in Accepts : ~HostAccept(a)
    BY Zenon DEF HostAccept, NotHost
  <2>5. ASSUME NEW a \in Accepts, Serve(a) \/ ServeEOF(a) \/ HostUnblocked(a)
        PROVE  KnockInv'
    BY <1>2, <2>0, <2>5, Zenon DEF Serve, ServeEOF, HostUnblocked
  <2> QED
    BY <1>5, <2>1, <2>2, <2>3, <2>4, <2>5, Zenon DEF LoopStep, ServeStep
<1>6. ASSUME NEW a \in Accepts, NEW i \in Ids, AcceptCall(a, i) PROVE KnockInv'
  BY <1>2, <1>6, CallFrame, Zenon
<1>7. CASE RunStep \/ UNCHANGED vars
  BY <1>2, <1>7, RunFrame, Zenon DEF vars
<1> QED
  BY <1>3, <1>4, <1>5, <1>6, <1>7, StepCases, Zenon

\* Without faults, a Dial waits where nothing moves for a knock that no listener
\* has heard or none has granted.
LEMMA WaitsUngranted ==
  ASSUME StateOK, ClientStay, OnItsWay, Quiescent, NEW d \in Dials,
         dial[d] = "ack"
  PROVE  /\ Ungranted(d)
         /\ KnockQueued(d) \/ \E a \in Accepts : listen[a] \in {"knock", "unblock"}
<1> USE NoneIsNothing
<1>1. InPassing(d)
  BY Zenon DEF OnItsWay
<1>2. /\ ~KnockOnWire(d) /\ ~KnockTaken(d) /\ ~AckOnWire(d) /\ ~AckTaken(d)
  BY SMT, Z3, SMTT(20)
  DEF Quiescent, RunWaits, KnockOnWire, KnockTaken, AckOnWire, AckTaken, InSeq
<1>3. ~AckQueued(d)
  <2> SUFFICES ASSUME NEW e \in ClientEntries, clientCh[e] = d PROVE FALSE
    BY Zenon DEF AckQueued
  <2>1. dialEntry[d] # <<>>
    BY Zenon DEF StateOK, DialsOK
  <2>2. e = dialEntry[d]
    BY <2>1, Zenon DEF ClientStay
  <2> QED
    BY <2>2, Zenon DEF Quiescent, DialWaits
<1>4. CASE KnockHeard(d)
  <2>1. PICK a \in Accepts : listenMsg[a] = d
    BY <1>4, ZenonT(40) DEF KnockHeard
  <2>2. listen[a] \in {"knock", "unblock"}
    BY <2>1, SMT, Z3, SMTT(20) DEF StateOK, ListensOK, Quiescent, ListenWaits
  <2> QED
    BY <2>1, <2>2, Zenon DEF Ungranted
<1> QED
  BY <1>1, <1>2, <1>3, <1>4, Zenon DEF InPassing, Unanswered, Ungranted

\* A listener's Accept that nothing moves has no token and no stream.
LEMMA ServesWait ==
  ASSUME StateOK, Calm, Quiescent, NEW a \in Accepts, Registered(a)
  PROVE  \/ serve[a] = "session" /\ backlog = <<>>
         \/ /\ serve[a] = "accept" /\ a \notin waitCh
            /\ ~(main = "handoff" /\ mainTo = a)
<1>1. serve[a] \in {"none", "accept", "session", "eof"}
  BY Zenon DEF StateOK, LoopsOK
<1> QED
  BY <1>1, Zenon DEF Calm, Quiescent, ServeWaits, Registered

============================================================================
