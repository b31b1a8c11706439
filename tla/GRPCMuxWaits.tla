---------------------------- MODULE GRPCMuxWaits ----------------------------
(***************************************************************************)
(* Without faults nobody is left waiting, for any sets of Dials, Accepts   *)
(* and ids and either accepting end.  The invariant relates the tokens     *)
(* that listeners have been given to the streams that are opened.          *)
(***************************************************************************)
EXTENDS GRPCMuxProofs, FiniteSetTheorems

(* The host: the tokens, in a waitCh or with a listener that goes on to    *)
(* session.Accept, are as many as the streams in the backlog and the one   *)
(* that a granted Dial is to open.                                         *)

Sessions == {a \in Accepts : serve[a] = "session"}

TokenInv ==
  /\ IsFiniteSet(waitCh) /\ IsFiniteSet(Sessions)
  /\ Cardinality(waitCh) + Cardinality(Sessions) =
       Len(backlog) + (IF Granted THEN 1 ELSE 0)

\* A token for every stream that is opened or will be, and no other.
LEMMA TokensPreserved ==
  ASSUME StateOK, HoldInv, GrantInv, side = "host", NotPlugin, fault = "none",
         Calm, OnItsWay, TokenInv, [Next]_vars
  PROVE  TokenInv'
<1> USE NoneIsNothing DEF hostVars, mainVars, connVars, dialVars, lfkVars
<1>0. /\ ListensOK /\ LoopsOK /\ AcceptsOK
      /\ serve \in [Accepts -> {"none", "accept", "session", "eof"}]
      /\ backlog \in Seq(Known)
  BY Zenon DEF StateOK, LoopsOK, WiresOK
<1>a. /\ Cardinality(waitCh) \in Nat /\ Cardinality(Sessions) \in Nat
      /\ Len(backlog) \in Nat
  BY <1>0, FS_CardinalityType DEF TokenInv
<1>1. ASSUME UNCHANGED <<waitCh, serve>> PROVE UNCHANGED <<waitCh, Sessions>>
  BY <1>1, Zenon DEF Sessions
<1>2. ASSUME UNCHANGED <<waitCh, serve, backlog>>, Granted' <=> Granted
      PROVE  TokenInv'
  BY <1>1, <1>2, Zenon DEF TokenInv
<1>3. ASSUME UNCHANGED <<waitCh, serve, backlog, dial, ackOK>> PROVE TokenInv'
  <2>1. Granted' <=> Granted
    BY <1>3, Zenon DEF Granted, Opening
  <2> QED
    BY <1>2, <1>3, <2>1, Zenon
<1>4. ASSUME NEW d \in Dials, DialEndStep(d) \/ \E id \in Ids : DialKnock(d, id)
      PROVE  TokenInv'
  <2>1. UNCHANGED <<waitCh, serve>>
    BY <1>4, KnockFrame, DialFrame, Zenon
  <2>2. CASE backlog' = Append(backlog, d) /\ Granted /\ ~Granted'
    <3>1. UNCHANGED <<waitCh, Sessions>>
      BY <1>1, <2>1, Zenon
    <3>2. Len(backlog') = Len(backlog) + 1
      BY <1>0, <2>2, SMT, Z3, SMTT(20)
    <3> QED
      BY <1>a, <2>2, <3>1, <3>2, SMT, Z3, SMTT(20) DEF TokenInv
  <2> QED
    BY <1>2, <1>4, <2>1, <2>2, DialsGranted, Zenon
<1>5. ASSUME NEW a \in Accepts, NEW l \in Accepts,
             listen[a] \in {"knock", "unblock"}, l \notin waitCh,
             waitCh' = waitCh \cup {l}, ackOK' = ackOK \cup {listenMsg[a]},
             UNCHANGED <<serve, backlog, dial>>
      PROVE  TokenInv'
  <2>1. ~Granted /\ Granted'
    BY <1>5, KnockGranted, Zenon
  <2>2. Sessions' = Sessions
    BY <1>5, Zenon DEF Sessions
  <2>3. /\ IsFiniteSet(waitCh')
        /\ Cardinality(waitCh') = Cardinality(waitCh) + 1
    BY <1>5, FS_AddElement, Zenon DEF TokenInv
  <2> QED
    BY <1>a, <1>5, <2>1, <2>2, <2>3, SMT, Z3, SMTT(20) DEF TokenInv
<1>6. ASSUME NEW a \in Accepts, AcceptEndStep(a) PROVE TokenInv'
  <2>1. UNCHANGED <<serve, backlog, dial>>
    BY <1>6, AcceptFrame, Zenon
  <2>2. CASE AcceptKnockHost(a)
    <3>1. acceptId[a] \in Ids
      BY <1>0, <2>2, SMT, Z3, SMTT(20)
      DEF AcceptKnockHost, AcceptsOK, ListensOK
    <3>2. listeners[acceptId[a]] \in Accepts \cup {None}
      BY <1>0, <3>1, Zenon DEF ListensOK
    <3>3. \/ UNCHANGED <<waitCh, ackOK>>
          \/ /\ listeners[acceptId[a]] # None /\ listeners[acceptId[a]] \notin waitCh
             /\ waitCh' = waitCh \cup {listeners[acceptId[a]]}
             /\ ackOK' = ackOK \cup {listenMsg[a]}
      BY <2>2, Zenon DEF AcceptKnockHost
    <3>4. listen[a] \in {"knock", "unblock"}
      BY <2>2, Zenon DEF AcceptKnockHost
    <3> QED
      BY <1>3, <1>5, <2>1, <3>2, <3>3, <3>4, ZenonT(40)
  <2>3. CASE AcceptKnockUnblock(a)
    <3>1. acceptId[a] \in Ids
      BY <1>0, <2>3, SMT, Z3, SMTT(20)
      DEF AcceptKnockUnblock, AcceptsOK, ListensOK
    <3>2. listeners[acceptId[a]] \in Accepts
      BY <1>0, <2>3, <3>1, Zenon DEF ListensOK, AcceptKnockUnblock
    <3>3. /\ listen[a] \in {"knock", "unblock"} /\ listeners[acceptId[a]] \notin waitCh
          /\ waitCh' = waitCh \cup {listeners[acceptId[a]]}
          /\ ackOK' = ackOK \cup {listenMsg[a]}
      BY <2>3, Zenon DEF AcceptKnockUnblock
    <3> QED
      BY <1>5, <2>1, <3>2, <3>3, Zenon
  <2>4. ~AcceptKnockPlugin(a)
    BY Zenon DEF AcceptKnockPlugin
  <2>5. CASE ~AcceptKnockHost(a) /\ ~AcceptKnockUnblock(a)
    <3>1. UNCHANGED <<waitCh, ackOK>>
      BY <1>6, <2>4, <2>5, Zenon
         DEF AcceptEndStep, AcceptRegister, ListenerClose,
           ListenStep, ListenStart, ListenKnock, ListenDone, ListenAck
    <3> QED
      BY <1>3, <2>1, <3>1, Zenon
  <2> QED
    BY <2>2, <2>3, <2>5, Zenon
<1>7. CASE LoopStep
  <2>0. UNCHANGED <<dial, ackOK>>
    BY <1>7, LoopFrame, Zenon
  <2>1. Granted' <=> Granted
    BY <2>0, Zenon DEF Granted, Opening
  <2>2. ~MainAccept /\ ~MainRoute
    BY Zenon DEF NotPlugin, MainAccept, MainRoute
  <2>3. \A a \in Accepts : ~MainHandoff(a)
    BY Zenon DEF NotPlugin, MainHandoff
  <2>4. \A a \in Accepts : ~ServeEOF(a)
    BY Zenon DEF Calm, ServeEOF
  <2>5. ASSUME NEW a \in Accepts, Serve(a) PROVE TokenInv'
    <3>1. UNCHANGED <<waitCh, backlog>> /\ serve[a] = "none"
          /\ serve' = [serve EXCEPT ![a] = "accept"]
      BY <2>5, Zenon DEF Serve
    <3>2. Sessions' = Sessions
      BY <1>0, <3>1, Zenon DEF Sessions
    <3> QED
      BY <2>1, <3>1, <3>2, Zenon DEF TokenInv
  <2>6. ASSUME NEW a \in Accepts, HostUnblocked(a) PROVE TokenInv'
    <3>1. /\ backlog' = backlog /\ serve[a] = "accept" /\ a \in waitCh
          /\ waitCh' = waitCh \ {a} /\ serve' = [serve EXCEPT ![a] = "session"]
      BY <2>6, Zenon DEF HostUnblocked
    <3>2. a \notin Sessions /\ Sessions' = Sessions \cup {a}
      BY <1>0, <3>1, Zenon DEF Sessions
    <3>3. /\ IsFiniteSet(waitCh')
          /\ Cardinality(waitCh') = Cardinality(waitCh) - 1
      BY <3>1, FS_RemoveElement, Zenon DEF TokenInv
    <3>4. /\ IsFiniteSet(Sessions')
          /\ Cardinality(Sessions') = Cardinality(Sessions) + 1
      BY <3>2, FS_AddElement, Zenon DEF TokenInv
    <3> QED
      BY <1>a, <2>1, <3>1, <3>3, <3>4, SMT, Z3, SMTT(20) DEF TokenInv
  <2>7. ASSUME NEW a \in Accepts, HostAccept(a) PROVE TokenInv'
    <3>1. /\ backlog # <<>> /\ backlog' = Tail(backlog) /\ waitCh' = waitCh
          /\ serve[a] = "session" /\ serve' = [serve EXCEPT ![a] = "accept"]
      BY <2>7, Zenon DEF HostAccept
    <3>2. a \in Sessions /\ Sessions' = Sessions \ {a}
      BY <1>0, <3>1, Zenon DEF Sessions
    <3>3. /\ IsFiniteSet(Sessions')
          /\ Cardinality(Sessions') = Cardinality(Sessions) - 1
      BY <3>2, FS_RemoveElement, Zenon DEF TokenInv
    <3>4. Len(backlog') = Len(backlog) - 1
      BY <1>0, <3>1, SMT, Z3, SMTT(20)
    <3> QED
      BY <1>a, <2>1, <3>1, <3>3, <3>4, SMT, Z3, SMTT(20) DEF TokenInv
  <2> QED
    BY <1>7, <2>2, <2>3, <2>4, <2>5, <2>6, <2>7, Zenon DEF LoopStep, ServeStep
<1>8. ASSUME NEW a \in Accepts, NEW i \in Ids, AcceptCall(a, i) PROVE TokenInv'
  BY <1>3, <1>8, CallFrame, Zenon
<1>9. CASE RunStep \/ UNCHANGED vars
  BY <1>3, <1>9, RunFrame, Zenon DEF vars
<1> QED
  BY <1>4, <1>6, <1>7, <1>8, <1>9, StepCases, ZenonT(40)

-----------------------------------------------------------------------------
(* Both ends, and the theorem.                                             *)

WaitInv ==
  /\ GrantInv /\ RegisterInv /\ StreamInv
  /\ side = "host" => NotPlugin
  /\ fault = "none" => /\ Calm /\ ClientStay /\ ServerStay /\ OnItsWay
                       /\ side = "host" => TokenInv
                       /\ side = "plugin" => KnockInv

\* Initially nothing is on its way.
LEMMA InitWaits == Init => WaitInv
<1> SUFFICES ASSUME Init PROVE WaitInv
  BY Zenon
<1> USE NoneIsNothing
<1>1. /\ knocks = <<>> /\ acks = <<>> /\ knockRun = <<>> /\ ackRun = <<>>
      /\ ackOK = {} /\ waitCh = {} /\ knockCh = None /\ backlog = <<>>
      /\ serverDone = {} /\ main = "accept" /\ astray = {}
      /\ \A d \in Dials : dial[d] = "idle" /\ dialEntry[d] = <<>>
      /\ \A a \in Accepts : /\ accept[a] = "idle" /\ listen[a] = "none"
                            /\ listenEntry[a] = <<>> /\ listenMsg[a] = None
                            /\ serve[a] = "none"
      /\ \A id \in Ids : listeners[id] = None
      /\ \A e \in ClientEntries : clientCh[e] = None
      /\ \A e \in ServerEntries : serverCh[e] = None
  BY Zenon DEF Init
<1>2. GrantInv /\ StreamInv
  BY <1>1, Zenon DEF GrantInv, StreamInv
<1>3. RegisterInv
  BY <1>1, Zenon DEF RegisterInv
<1>4. NotPlugin
  BY <1>1, Zenon DEF NotPlugin
<1>5. Calm
  BY <1>1, Zenon DEF Calm
<1>6. ClientStay /\ ServerStay
  BY <1>1, Zenon DEF ClientStay, ServerStay
<1>7. OnItsWay
  BY <1>1, InitTypes, IdleNowhere, Zenon DEF OnItsWay
<1>8. TokenInv
  <2>1. Sessions = {}
    BY <1>1, Zenon DEF Sessions
  <2>2. ~Granted
    BY <1>1, Zenon DEF Granted, Opening
  <2> QED
    BY <1>1, <2>1, <2>2, FS_EmptySet, Zenon DEF TokenInv
<1>9. KnockInv
  BY <1>1, Zenon DEF KnockInv
<1> QED
  BY <1>2, <1>3, <1>4, <1>5, <1>6, <1>7, <1>8, <1>9, Zenon DEF WaitInv

\* Tokens, streams, entries and messages are where they belong.
LEMMA WaitInvariant == Spec => []WaitInv
<1>1. DialEndInv /\ RouteInv /\ WaitInv /\ [Next]_vars => WaitInv'
  <2> SUFFICES ASSUME DialEndInv, RouteInv, WaitInv, [Next]_vars PROVE WaitInv'
    BY Zenon
  <2>1. StateOK /\ PassInv /\ HoldInv
    BY Zenon DEF DialEndInv, IdInv
  <2>2. UNCHANGED <<side, fault>>
    BY FaultStays, Zenon
  <2>3. GrantInv' /\ RegisterInv' /\ StreamInv'
    BY <2>1, GrantPreserved, RegisterPreserved, StreamsPreserved, Zenon
       DEF WaitInv
  <2>4. side' = "host" => NotPlugin'
    BY <2>2, NotPluginPreserved, Zenon DEF WaitInv
  <2>5. ASSUME fault = "none"
        PROVE  Calm' /\ ClientStay' /\ ServerStay' /\ OnItsWay'
    BY <2>1, <2>5, CalmPreserved, ClientStayPreserved, ServerStayPreserved,
       OnItsWayPreserved, Zenon DEF WaitInv
  <2>6. ASSUME fault = "none", side = "host" PROVE TokenInv'
    BY <2>1, <2>6, TokensPreserved, Zenon DEF WaitInv
  <2>7. ASSUME fault = "none", side = "plugin" PROVE KnockInv'
    BY <2>1, <2>7, KnockChPreserved, Zenon DEF WaitInv, RouteInv
  <2> QED
    BY <2>2, <2>3, <2>4, <2>5, <2>6, <2>7, Zenon DEF WaitInv
<1> QED
  BY <1>1, InitWaits, DialEndInvariant, RoutesKept, PTL DEF Spec

\* Where nothing moves no knock waits to be granted, and no stream to be accepted.
LEMMA NoneWaits ==
  ASSUME DialEndInv, RouteInv, WaitInv, fault = "none", main # "failed", Quiescent
  PROVE  /\ \A a \in Accepts : listen[a] \notin {"knock", "unblock"}
         /\ backlog = <<>> /\ mainConn = None /\ astray = {}
<1> USE NoneIsNothing
<1>0. /\ StateOK /\ HoldInv /\ GrantInv /\ RegisterInv
      /\ Calm /\ ClientStay /\ OnItsWay
  BY Zenon DEF DialEndInv, IdInv, WaitInv
<1>1. ~Granted
  <2> SUFFICES ASSUME NEW d \in Dials, Opening(d) PROVE FALSE
    BY Zenon DEF Granted
  <2>1. dial[d] \notin {"knocked", "open"}
    BY Zenon DEF Quiescent, DialWaits
  <2>2. dial[d] = "ack" /\ d \in ackOK
    BY <2>1, Zenon DEF Opening
  <2> QED
    BY <1>0, <2>2, WaitsUngranted, Zenon DEF GrantInv
<1>2. CASE side = "host"
  <2>1. TokenInv /\ NotPlugin
    BY <1>2, Zenon DEF WaitInv
  <2>2. ASSUME NEW a \in waitCh PROVE serve[a] = "session" /\ backlog = <<>>
    <3>1. a \in Accepts /\ Registered(a)
      BY <1>0, Zenon DEF StateOK, LoopsOK, RegisterInv
    <3> QED
      BY <1>0, <2>2, <3>1, ServesWait, Zenon
  <2>3. /\ Cardinality(waitCh) + Cardinality(Sessions) = Len(backlog)
        /\ Cardinality(waitCh) \in Nat /\ Cardinality(Sessions) \in Nat
    BY <1>1, <2>1, FS_CardinalityType, SMT, Z3, SMTT(20) DEF TokenInv
  <2>4. waitCh = {}
    <3> SUFFICES ASSUME waitCh # {} PROVE FALSE
      BY Zenon
    <3>1. Len(backlog) = 0
      BY <2>2, SMT, Z3, SMTT(20)
    <3>2. Cardinality(waitCh) = 0
      BY <2>3, <3>1, SMT, Z3, SMTT(20)
    <3> QED
      BY <2>1, <3>2, FS_EmptySet, Zenon DEF TokenInv
  <2>5. backlog = <<>>
    <3> SUFFICES ASSUME backlog # <<>> PROVE FALSE
      BY Zenon
    <3>1. Sessions = {}
      BY Zenon DEF Sessions, Quiescent, ServeWaits
    <3>2. Len(backlog) = 0
      BY <2>3, <2>4, <3>1, FS_EmptySet, SMT, Z3, SMTT(20)
    <3> QED
      BY <1>0, <3>2, SMT, Z3, SMTT(20) DEF StateOK, WiresOK
  <2>6. AcceptMutexFree
    BY <2>4, Zenon DEF Quiescent, ListenWaits, AcceptMutexFree
  <2>7. \A a \in Accepts : listen[a] # "knock"
    BY <1>2, <2>6, Zenon DEF Quiescent, ListenWaits
  <2>8. mainConn = None /\ astray = {}
    BY <1>0, <2>1, Zenon DEF NotPlugin, StateOK, LoopsOK
  <2> QED
    BY <2>5, <2>6, <2>7, <2>8, Zenon DEF AcceptMutexFree
<1>3. CASE side = "plugin"
  <2>1. KnockInv /\ NotHost /\ Delivered
    BY <1>3, Zenon DEF WaitInv, RouteInv
  <2>2. main # "handoff"
    <3> SUFFICES ASSUME main = "handoff" PROVE FALSE
      BY Zenon
    <3>1. mainTo \in Accepts /\ Registered(mainTo)
      BY <1>0, Zenon DEF StateOK, LoopsOK, RegisterInv
    <3>2. serve[mainTo] = "session"
      BY <1>0, <3>1, ServesWait, Zenon
    <3> QED
      BY <2>1, <3>1, <3>2, ZenonT(40) DEF NotHost
  <2>3. main = "accept"
    BY <1>0, <2>2, Zenon DEF StateOK, LoopsOK, Quiescent, MainWaits
  <2>4. backlog = <<>> /\ main # "route"
    BY <1>3, <2>3, Zenon DEF Quiescent, MainWaits
  <2>5. mainConn = None
    BY <1>0, <2>3, Zenon DEF StateOK, LoopsOK
  <2>6. knockCh = None
    BY <1>1, <2>1, <2>4, ZenonT(40) DEF KnockInv
  <2>7. \A a \in Accepts : listen[a] # "knock" /\ listen[a] # "unblock"
    BY <1>3, <2>1, <2>6, SMT, Z3, SMTT(20) DEF NotHost, Quiescent, ListenWaits
  <2>8. astray = {}
    BY <2>1, Zenon DEF Delivered
  <2> QED
    BY <2>4, <2>5, <2>7, <2>8, Zenon
<1> QED
  BY <1>0, <1>2, <1>3, KindsAssumption, SMT, Z3, SMTT(20) DEF StateOK, LoopsOK

\* Without faults nobody is left waiting, for any number of Dials, Accepts and
\* ids: every Dial of an id that is accepted ends and has released dialMutex, no
\* listener stays blocked in AcceptKnock, and every opened stream is accepted.
\* Every knock that is granted has a token (waitCh, or the id in knockCh) until
\* its stream is accepted, and dialMutex lets one knock be on its way.
THEOREM NobodyWaits == Spec => []NobodyLeftWaiting
<1>1. DialEndInv /\ RouteInv /\ WaitInv => NobodyLeftWaiting
  <2> SUFFICES ASSUME DialEndInv, RouteInv, WaitInv, fault = "none",
                      main # "failed", Quiescent
               PROVE  /\ \A d \in Dials :
                           /\ dial[d] \in {"idle", "ok", "error"}
                              \/ \A a \in Accepts : acceptId[a] # dialId[d]
                           /\ dial[d] = "ok" => conn[d] # None
                      /\ AcceptMutexFree
    BY Zenon DEF NobodyLeftWaiting
  <2> USE NoneIsNothing
  <2>0. StateOK /\ Calm /\ ClientStay /\ ServerStay /\ OnItsWay /\ StreamInv
    BY Zenon DEF DialEndInv, IdInv, WaitInv
  <2>1. /\ \A a \in Accepts : listen[a] \notin {"knock", "unblock"}
        /\ backlog = <<>> /\ mainConn = None /\ astray = {}
    BY NoneWaits, Zenon
  <2>2. ASSUME NEW d \in Dials, dial[d] \notin {"idle", "ok", "error"},
               NEW a \in Accepts, acceptId[a] = dialId[d]
        PROVE  FALSE
    <3>1. dial[d] = "ack"
      BY <2>0, <2>2, Zenon DEF StateOK, DialsOK, Calm, Quiescent, DialWaits
    <3>2. KnockQueued(d)
      BY <2>0, <2>1, <3>1, WaitsUngranted, ZenonT(40)
    <3>3. PICK e \in ServerEntries : serverCh[e] = d
      BY <3>2, Zenon DEF KnockQueued
    <3>4. acceptId[a] # None
      BY <2>0, <2>2, <3>1, SMT, Z3, SMTT(20) DEF StateOK, DialsOK
    <3>5. listen[a] = "select"
      BY <2>0, <2>1, <3>4, SMT, Z3, SMTT(20)
         DEF StateOK, ListensOK, Calm, Quiescent, ListenWaits
    <3>6. listenEntry[a] # <<>>
      BY <2>0, <3>5, Zenon DEF StateOK, ListensOK
    <3>7. listenEntry[a] = e
      BY <2>0, <2>2, <3>3, <3>6, Zenon DEF ServerStay
    <3> QED
      BY <3>3, <3>5, <3>7, Zenon DEF Quiescent, ListenWaits
  <2>3. ASSUME NEW d \in Dials, dial[d] = "ok" PROVE conn[d] # None
    <3>1. ~InSeq(backlog, d)
      BY <2>1, SMT, Z3, SMTT(20) DEF InSeq
    <3> QED
      BY <2>0, <2>1, <2>3, <3>1, Zenon DEF StreamInv
  <2>4. AcceptMutexFree
    BY <2>1, Zenon DEF AcceptMutexFree
  <2> QED
    BY <2>2, <2>3, <2>4, Zenon
<1> QED
  BY <1>1, DialEndInvariant, RoutesKept, WaitInvariant, PTL

============================================================================
