--------------------------- MODULE MuxBrokerProofs ---------------------------
(***************************************************************************)
(* Proofs about MuxBroker, for any sets of calls and ids.  The owner of a  *)
(* stream (SoleOwner), the ids (IdInv) and the acks (AckInv) are invariant *)
(* however ids are reused, and give Paired.  Callers whose ids are unique  *)
(* (an id is dialled once and accepted once, as with ids from NextId       *)
(* before it wraps) are promised more: UniqueInv, and that a Dial and an   *)
(* Accept of one id meet.                                                  *)
(*                                                                         *)
(* And MuxBroker implements Rendezvous, for any reuse of ids.  DialOpen is *)
(* the abstract Dial, AcceptCall the abstract Accept, AcceptReceive the    *)
(* abstract Join, a DialReadAck whose ack agrees the abstract Connect;     *)
(* every other step is a stutter.  The abstract guards follow from IdInv   *)
(* (an entry's channel holds a stream of the Accept's id), SoleOwner       *)
(* (nobody else has it) and AckInv (a stream that is acknowledged has been *)
(* received).                                                              *)
(***************************************************************************)
EXTENDS MuxBroker, TLAPS

USE NoneAssumption, CallsAssumption
USE DEF dialVars, runVars, acceptVars, reaperVars

(* OpenStream puts the stream at the end of the backlog. *)
LEMMA Appended ==
  ASSUME TypeOK, NEW s \in Dials, backlog' = Append(backlog, s)
  PROVE  /\ Len(backlog') = Len(backlog) + 1
         /\ \A i \in 1..Len(backlog) : backlog'[i] = backlog[i]
         /\ backlog'[Len(backlog) + 1] = s
         /\ \A t : InBacklog(t)' => InBacklog(t) \/ t = s
<1>1. backlog \in Seq(Dials)
  BY Zenon DEF TypeOK
<1>2. /\ Len(backlog') = Len(backlog) + 1
      /\ \A i \in 1..Len(backlog) : backlog'[i] = backlog[i]
      /\ backlog'[Len(backlog) + 1] = s
  BY <1>1, SMT, Z3, SMTT(20)
<1>3. ASSUME NEW t, InBacklog(t)'
      PROVE  InBacklog(t) \/ t = s
  <2>1. PICK i \in 1..Len(backlog') : backlog'[i] = t
    BY <1>3, Zenon DEF InBacklog
  <2>2. CASE i \in 1..Len(backlog)
    BY <1>2, <2>1, <2>2, Zenon DEF InBacklog
  <2>3. CASE i = Len(backlog) + 1
    BY <1>2, <2>1, <2>3, Zenon
  <2>. QED
    BY <1>1, <1>2, <2>2, <2>3, SMT, Z3, SMTT(20)
<1>. QED
  BY <1>2, <1>3, Zenon

(* Every step keeps the types of the locals, the map and the channels. *)
LEMMA TypesPreserved ==
  ASSUME TypeOK, Next
  PROVE  TypeOK'
<1>. USE DEF TypeOK, Entries
<1>1. ASSUME NEW s \in Dials, NEW id \in Ids, DialOpen(s, id)
      PROVE  TypeOK'
  BY <1>1, SMT, Z3, SMTT(20) DEF DialOpen
<1>2. ASSUME NEW s \in Dials, DialFails(s)
      PROVE  TypeOK'
  BY <1>2, SMT, Z3, SMTT(20) DEF DialFails
<1>3. ASSUME NEW s \in Dials, DialWrite(s)
      PROVE  TypeOK'
  BY <1>3, SMT, Z3, SMTT(20) DEF DialWrite
<1>4. ASSUME NEW s \in Dials, DialReadAck(s)
      PROVE  TypeOK'
  BY <1>4, SMT, Z3, SMTT(20) DEF DialReadAck
<1>5. ASSUME NEW s \in Dials, DialReadError(s)
      PROVE  TypeOK'
  BY <1>5, SMT, Z3, SMTT(20) DEF DialReadError
<1>6. CASE RunAccept
  BY <1>6, SMT, Z3, SMTT(20) DEF RunAccept
<1>7. CASE RunExit
  BY <1>7, Zenon DEF RunExit
<1>8. CASE RunRead
  BY <1>8, SMT, Z3, SMTT(20) DEF RunRead, GetStream, EntryOf
<1>9. CASE RunReadError
  BY <1>9, Zenon DEF RunReadError
<1>10. CASE RunQueue
  BY <1>10, SMT, Z3, SMTT(20) DEF RunQueue, RunNext
<1>11. CASE RunDuplicate
  BY <1>11, Zenon DEF RunDuplicate, RunNext
<1>12. ASSUME NEW a \in Accepts, NEW id \in Ids, AcceptCall(a, id)
      PROVE  TypeOK'
  BY <1>12, SMT, Z3, SMTT(20) DEF AcceptCall, GetStream, EntryOf
<1>13. ASSUME NEW a \in Accepts, AcceptReceive(a)
      PROVE  TypeOK'
  BY <1>13, SMT, Z3, SMTT(20) DEF AcceptReceive
<1>14. ASSUME NEW a \in Accepts, AcceptCloseDone(a)
      PROVE  TypeOK'
  BY <1>14, SMT, Z3, SMTT(20) DEF AcceptCloseDone
<1>15. ASSUME NEW a \in Accepts, AcceptAck(a)
      PROVE  TypeOK'
  BY <1>15, SMT, Z3, SMTT(20) DEF AcceptAck
<1>16. ASSUME NEW a \in Accepts, AcceptAckError(a)
      PROVE  TypeOK'
  BY <1>16, SMT, Z3, SMTT(20) DEF AcceptAckError
<1>17. ASSUME NEW a \in Accepts, AcceptTimeout(a)
      PROVE  TypeOK'
  BY <1>17, SMT, Z3, SMTT(20) DEF AcceptTimeout
<1>18. ASSUME NEW a \in Accepts, AcceptExpire(a)
      PROVE  TypeOK'
  BY <1>18, SMT, Z3, SMTT(20) DEF AcceptExpire
<1>19. ASSUME NEW s \in Dials, ReaperDone(s)
      PROVE  TypeOK'
  BY <1>19, SMT, Z3, SMTT(20) DEF ReaperDone
<1>20. ASSUME NEW s \in Dials, ReaperExpire(s)
      PROVE  TypeOK'
  BY <1>20, SMT, Z3, SMTT(20) DEF ReaperExpire
<1>21. ASSUME NEW s \in Dials, Reap(s)
      PROVE  TypeOK'
  BY <1>21, SMT, Z3, SMTT(20) DEF Reap, ReapedIn
<1>22. CASE Close
  BY <1>22, Zenon DEF Close
<1>. HIDE DEF TypeOK, Entries
<1>. QED
  BY <1>1, <1>2, <1>3, <1>4, <1>5, <1>6, <1>7, <1>8, <1>9, <1>10, <1>11, <1>12,
     <1>13, <1>14, <1>15, <1>16, <1>17, <1>18, <1>19, <1>20, <1>21, <1>22,
     SMT, Z3, SMTT(20)
  DEF Next, DialOpens, AcceptCalls, DialStep, RunStep, AcceptStep, ReaperStep,
      Timer

(* What SoleOwner depends on: no step but a failed Accept's may close a      *)
(* stream that an Accept holds. *)
LEMMA SoleFrame ==
  ASSUME SoleOwner, UNCHANGED <<backlog, runStream, ch, conn, closed>>,
         \A a \in Accepts : accept[a] = "error" => accept'[a] = "error"
  PROVE  SoleOwner'
<1>1. \A s : InBacklog(s)' = InBacklog(s)
  BY Zenon DEF InBacklog
<1>. QED
  BY <1>1, ZenonT(40) DEF SoleOwner

(* A step that only takes streams out of channels leaves the others where     *)
(* they were, each alone. *)
LEMMA ChannelsEmptied ==
  ASSUME TypeOK, SoleOwner,
         \A f \in Entries : ch'[f] # None => ch'[f] = ch[f]
  PROVE  /\ \A f \in Entries :
              ch'[f] # None =>
                /\ ch'[f] # runStream
                /\ ~InBacklog(ch'[f])
                /\ \A g \in Entries : ch'[g] = ch'[f] => g = f
         /\ \A a \in Accepts :
              conn[a] # None => \A f \in Entries : ch'[f] # conn[a]
         /\ \A t \in closed : \A f \in Entries : ch'[f] # t
<1>1. ASSUME NEW f \in Entries, ch'[f] # None
      PROVE  /\ ch'[f] # runStream
             /\ ~InBacklog(ch'[f])
             /\ \A g \in Entries : ch'[g] = ch'[f] => g = f
             /\ \A a \in Accepts : conn[a] # ch'[f]
             /\ ch'[f] \notin closed
  <2>1. ch'[f] = ch[f] /\ ch[f] # None
    BY <1>1, Zenon
  <2>2. /\ ch[f] # runStream
        /\ ~InBacklog(ch[f])
        /\ \A g \in Entries : ch[g] = ch[f] => g = f
        /\ \A a \in Accepts : conn[a] # ch[f]
        /\ ch[f] \notin closed
    BY <2>1, Zenon DEF SoleOwner
  <2>. QED
    BY <1>1, <2>1, <2>2, Zenon
<1>2. None \notin closed
  BY Zenon DEF TypeOK
<1>. QED
  BY <1>1, <1>2, Zenon

(* A stream that nobody has dialled is nowhere. *)
LEMMA UnopenedIsNowhere ==
  ASSUME TypeOK, IdInv, NEW s \in Dials, dial[s] = "idle"
  PROVE  /\ s # runStream /\ s \notin closed /\ ~InBacklog(s)
         /\ \A e \in Entries : ch[e] # s
         /\ \A a \in Accepts : conn[a] # s
<1>1. dialId[s] = None /\ s # None
  BY Zenon DEF IdInv, Entries
<1>2. wire[s] = None /\ ~InBacklog(s) /\ s \notin closed /\ s # runStream
  BY <1>1, Zenon DEF IdInv
<1>3. reaper[s] = "none"
  BY <1>2, Zenon DEF IdInv
<1>4. \A e \in Entries : ch[e] # s
  BY <1>1, <1>3, SMT, Z3, SMTT(20) DEF IdInv
<1>5. \A a \in Accepts : conn[a] # s
  BY <1>1, <1>3, SMT, Z3, SMTT(20) DEF IdInv
<1>. QED
  BY <1>2, <1>4, <1>5, Zenon

(* A stream moves from one owner to the next, never to two. *)
LEMMA SolePreserved ==
  ASSUME TypeOK, SoleOwner, IdInv, Next
  PROVE  SoleOwner'
<1>1. ASSUME NEW s \in Dials, NEW id \in Ids, DialOpen(s, id)
      PROVE  SoleOwner'
  <2>1. /\ s # runStream /\ s \notin closed /\ ~InBacklog(s)
        /\ \A e \in Entries : ch[e] # s
        /\ \A a \in Accepts : conn[a] # s
    BY <1>1, UnopenedIsNowhere, Zenon DEF DialOpen
  <2>2. /\ Len(backlog') = Len(backlog) + 1
        /\ \A i \in 1..Len(backlog) : backlog'[i] = backlog[i]
        /\ backlog'[Len(backlog) + 1] = s
        /\ \A t : InBacklog(t)' => InBacklog(t) \/ t = s
    BY <1>1, Appended, Zenon DEF DialOpen
  <2>3. UNCHANGED <<runStream, ch, conn, closed, accept>>
    BY <1>1, Zenon DEF DialOpen
  <2>4. Len(backlog) \in Nat
    BY SMT, Z3, SMTT(20) DEF TypeOK
  <2>5. ASSUME NEW i \in 1..Len(backlog')
        PROVE  i \in 1..Len(backlog) \/ i = Len(backlog) + 1
    BY <2>2, <2>4, SMT, Z3, SMTT(20)
  <2>6. \A i, j \in 1..Len(backlog') : backlog'[i] = backlog'[j] => i = j
    <3>1. \A i \in 1..Len(backlog) : backlog'[i] # s
      BY <2>1, <2>2, Zenon DEF InBacklog
    <3>. QED
      BY <2>2, <2>5, <3>1, SMT, Z3, SMTT(20) DEF SoleOwner
  <2>7. \A i \in 1..Len(backlog') : backlog'[i] # runStream
    BY <2>1, <2>2, <2>5, Zenon DEF SoleOwner
  <2>. QED
    BY <2>1, <2>2, <2>3, <2>6, <2>7, Zenon DEF SoleOwner
<1>2. CASE RunAccept
  <2>1. backlog \in Seq(Dials) /\ backlog # <<>>
    BY <1>2, Zenon DEF RunAccept, TypeOK
  <2>2. /\ runStream' = backlog[1]
        /\ Len(backlog') = Len(backlog) - 1
        /\ \A i \in 1..Len(backlog') :
             backlog'[i] = backlog[i + 1] /\ i + 1 \in 1..Len(backlog)
        /\ 1 \in 1..Len(backlog)
    BY <1>2, <2>1, SMT, Z3, SMTT(20) DEF RunAccept
  <2>3. \A s : InBacklog(s)' \/ s = runStream' => InBacklog(s)
    BY <2>2, Zenon DEF InBacklog
  <2>4. \A i, j \in 1..Len(backlog') : backlog'[i] = backlog'[j] => i = j
    BY <2>2, SMT, Z3, SMTT(20) DEF SoleOwner
  <2>5. \A i \in 1..Len(backlog') : backlog'[i] # runStream'
    BY <2>2, SMT, Z3, SMTT(20) DEF SoleOwner
  <2>6. UNCHANGED <<ch, conn, closed, accept>>
    BY <1>2, Zenon DEF RunAccept
  <2>. QED
    BY <2>3, <2>4, <2>5, <2>6, Zenon DEF SoleOwner
<1>3. CASE RunReadError \/ RunDuplicate
  <2>1. /\ closed' = closed \cup {runStream} /\ runStream' = None
        /\ UNCHANGED <<backlog, ch, conn, accept>>
    BY <1>3, Zenon DEF RunReadError, RunDuplicate, RunNext
  <2>2. runStream \in Dials /\ runStream # None
    BY <1>3, Zenon DEF RunReadError, RunDuplicate, TypeOK, Entries
  <2>3. \A s : InBacklog(s)' = InBacklog(s)
    BY <2>1, Zenon DEF InBacklog
  <2>4. /\ \A i \in 1..Len(backlog) : backlog[i] # None
        /\ ~InBacklog(runStream)
        /\ None \notin closed
    BY SMT, Z3, SMTT(20) DEF TypeOK, SoleOwner, InBacklog
  <2>. QED
    BY <2>1, <2>2, <2>3, <2>4, SMT, Z3, SMTT(20) DEF SoleOwner
<1>4. CASE RunQueue
  <2>1. /\ ch' = [ch EXCEPT ![runEntry] = runStream] /\ runStream' = None
        /\ ch[runEntry] = None
        /\ UNCHANGED <<backlog, conn, closed, accept>>
    BY <1>4, Zenon DEF RunQueue, RunNext
  <2>2. /\ runStream \in Dials /\ runStream # None /\ runEntry \in Entries
        /\ ch \in [Entries -> Dials \cup {None}]
    BY <1>4, ZenonT(40) DEF RunQueue, TypeOK, Entries
  <2>3. \A e \in Entries : ch'[e] = IF e = runEntry THEN runStream ELSE ch[e]
    BY <2>1, <2>2, Zenon
  <2>4. \A s : InBacklog(s)' = InBacklog(s)
    BY <2>1, Zenon DEF InBacklog
  <2>5. /\ \A i \in 1..Len(backlog) : backlog[i] # None
        /\ ~InBacklog(runStream)
        /\ None \notin closed /\ runStream \notin closed
    BY <2>2, SMT, Z3, SMTT(20) DEF TypeOK, SoleOwner, InBacklog
  <2>. QED
    BY <2>1, <2>2, <2>3, <2>4, <2>5, SMT, Z3, SMTT(20) DEF SoleOwner
<1>5. ASSUME NEW a \in Accepts, AcceptReceive(a)
      PROVE  SoleOwner'
  <2>1. /\ conn' = [conn EXCEPT ![a] = ch[acceptEntry[a]]]
        /\ ch' = [ch EXCEPT ![acceptEntry[a]] = None]
        /\ accept' = [accept EXCEPT ![a] = "close"]
        /\ ch[acceptEntry[a]] # None /\ accept[a] = "select"
        /\ UNCHANGED <<backlog, runStream, closed>>
    BY <1>5, Zenon DEF AcceptReceive
  <2>2. /\ acceptEntry[a] \in Entries
        /\ ch \in [Entries -> Dials \cup {None}]
        /\ conn \in [Accepts -> Dials \cup {None}]
        /\ DOMAIN accept = Accepts
    BY <2>1, Zenon DEF TypeOK
  <2>. DEFINE e == acceptEntry[a]
              s == ch[e]
  <2>3. e \in Entries /\ s # None
    BY <2>1, <2>2, Zenon
  <2>4. /\ \A b \in Accepts : conn'[b] = IF b = a THEN s ELSE conn[b]
        /\ \A b \in Accepts : accept'[b] = IF b = a THEN "close" ELSE accept[b]
        /\ \A f \in Entries : ch'[f] = IF f = e THEN None ELSE ch[f]
    BY <2>1, <2>2, <2>3, Zenon
  <2>. HIDE DEF e
  <2>5. \A t : InBacklog(t)' = InBacklog(t)
    BY <2>1, Zenon DEF InBacklog
  <2>6. /\ s # runStream /\ ~InBacklog(s) /\ s \notin closed
        /\ \A f \in Entries : ch'[f] # s
        /\ \A b \in Accepts : conn[b] # s
    BY <2>3, <2>4, SMT, Z3, SMTT(20) DEF SoleOwner
  <2>. HIDE DEF s
  <2>7. \A f \in Entries : ch'[f] # None => ch'[f] = ch[f]
    BY <2>4, Zenon
  <2>8. \A b \in Accepts :
          conn'[b] # None =>
            /\ conn'[b] # runStream
            /\ ~InBacklog(conn'[b])
            /\ \A f \in Entries : ch'[f] # conn'[b]
            /\ \A c \in Accepts : conn'[c] = conn'[b] => c = b
    BY <2>4, <2>6, <2>7, SMT, Z3, SMTT(20) DEF SoleOwner
  <2>9. \A t \in closed :
          /\ \A f \in Entries : ch'[f] # t
          /\ \A b \in Accepts : conn'[b] = t => accept'[b] = "error"
    BY <2>4, <2>6, <2>7, ChannelsEmptied, SMT, Z3, SMTT(20) DEF SoleOwner
  <2>10. \A f \in Entries :
           ch'[f] # None =>
             /\ ch'[f] # runStream
             /\ ~InBacklog(ch'[f])
             /\ \A g \in Entries : ch'[g] = ch'[f] => g = f
    BY <2>7, ChannelsEmptied, Zenon
  <2>11. \A t \in closed : t # runStream /\ ~InBacklog(t)
    BY Zenon DEF SoleOwner
  <2>. QED
    BY <2>1, <2>5, <2>8, <2>9, <2>10, <2>11, SMT, Z3, SMTT(20) DEF SoleOwner
<1>6. ASSUME NEW a \in Accepts, AcceptAckError(a)
      PROVE  SoleOwner'
  <2>1. /\ closed' = closed \cup {conn[a]}
        /\ accept' = [accept EXCEPT ![a] = "error"]
        /\ UNCHANGED <<backlog, runStream, ch, conn>>
    BY <1>6, Zenon DEF AcceptAckError
  <2>2. conn[a] # None /\ DOMAIN accept = Accepts
    BY <1>6, SMT, Z3, SMTT(20) DEF AcceptAckError, TypeOK, Entries
  <2>3. \A b \in Accepts : accept'[b] = IF b = a THEN "error" ELSE accept[b]
    BY <2>1, <2>2, Zenon
  <2>4. \A s : InBacklog(s)' = InBacklog(s)
    BY <2>1, Zenon DEF InBacklog
  <2>. QED
    BY <2>1, <2>2, <2>3, <2>4, SMT, Z3, SMTT(20) DEF SoleOwner
<1>7. ASSUME NEW s \in Dials, Reap(s)
      PROVE  SoleOwner'
  <2>1. PICK reaped :
          /\ reaped \subseteq {ch[reaperEntry[s]]} \ {None}
          /\ closed' = closed \cup reaped
          /\ ch' = [ch EXCEPT ![reaperEntry[s]] =
                      IF @ \in reaped THEN None ELSE @]
    BY <1>7, Zenon DEF Reap, ReapedIn
  <2>2. UNCHANGED <<backlog, runStream, conn, accept>>
    BY <1>7, Zenon DEF Reap
  <2>3. PICK e \in Entries : e = reaperEntry[s]
    BY <1>7, Zenon DEF Reap, TypeOK
  <2>4. \A f \in Entries :
          ch'[f] = IF f = e /\ ch[f] \in reaped THEN None ELSE ch[f]
    <3>1. ch \in [Entries -> Dials \cup {None}]
      BY Zenon DEF TypeOK
    <3>. QED
      BY <2>1, <2>3, <3>1, Zenon
  <2>5. \A t : InBacklog(t)' = InBacklog(t)
    BY <2>2, Zenon DEF InBacklog
  <2>6. \A t \in closed' : t \in closed \/ (t = ch[e] /\ t # None /\ t \in reaped)
    BY <2>1, <2>3, Zenon
  <2>7. \A f \in Entries : ch'[f] # None => ch'[f] = ch[f]
    BY <2>4, Zenon
  <2>8. \A t \in closed' :
          /\ t # runStream /\ ~InBacklog(t)
          /\ \A f \in Entries : ch'[f] # t
          /\ \A a \in Accepts : conn[a] = t => accept[a] = "error"
    <3>1. ASSUME NEW t \in closed
          PROVE  /\ t # runStream /\ ~InBacklog(t)
                 /\ \A f \in Entries : ch'[f] # t
                 /\ \A a \in Accepts : conn[a] = t => accept[a] = "error"
      BY <2>7, <3>1, ChannelsEmptied, Zenon DEF SoleOwner
    <3>2. ASSUME ch[e] \in reaped, ch[e] # None
          PROVE  /\ ch[e] # runStream /\ ~InBacklog(ch[e])
                 /\ \A f \in Entries : ch'[f] # ch[e]
                 /\ \A a \in Accepts : conn[a] # ch[e]
      BY <2>4, <3>2, Zenon DEF SoleOwner
    <3>. QED
      BY <2>6, <3>1, <3>2, Zenon
  <2>9. \A f \in Entries :
          ch'[f] # None =>
            /\ ch'[f] # runStream
            /\ ~InBacklog(ch'[f])
            /\ \A g \in Entries : ch'[g] = ch'[f] => g = f
    BY <2>7, ChannelsEmptied, Zenon
  <2>10. \A a \in Accepts :
           conn[a] # None =>
             /\ conn[a] # runStream
             /\ ~InBacklog(conn[a])
             /\ \A f \in Entries : ch'[f] # conn[a]
             /\ \A b \in Accepts : conn[b] = conn[a] => b = a
    BY <2>7, ChannelsEmptied, Zenon DEF SoleOwner
  <2>. QED
    BY <2>2, <2>5, <2>8, <2>9, <2>10, SMT, Z3, SMTT(20) DEF SoleOwner
<1>8. ASSUME NEW a \in Accepts,
             \/ AcceptCloseDone(a) \/ AcceptAck(a) \/ AcceptTimeout(a)
             \/ AcceptExpire(a) \/ \E id \in Ids : AcceptCall(a, id)
      PROVE  SoleOwner'
  <2>1. /\ UNCHANGED <<backlog, runStream, ch, conn, closed>>
        /\ \E pc : accept' = [accept EXCEPT ![a] = pc]
        /\ accept[a] \in {"idle", "select", "close", "ack", "expired"}
    BY <1>8, Zenon
    DEF AcceptCloseDone, AcceptAck, AcceptTimeout, AcceptExpire, AcceptCall
  <2>2. \A b \in Accepts : b # a => accept'[b] = accept[b]
    BY <2>1, Zenon DEF TypeOK
  <2>3. accept[a] # "error"
    BY <2>1, Zenon
  <2>. QED
    BY <2>1, <2>2, <2>3, SoleFrame, Zenon
<1>9. CASE \/ \E s \in Dials : DialStep(s) \/ ReaperDone(s) \/ ReaperExpire(s)
           \/ RunExit \/ RunRead \/ Close
  <2>1. UNCHANGED <<backlog, runStream, ch, conn, closed, accept>>
    BY <1>9, Zenon
    DEF DialStep, DialFails, DialWrite, DialReadAck, DialReadError, ReaperDone,
        ReaperExpire, RunExit, RunRead, Close
  <2>. QED
    BY <2>1, SoleFrame, Zenon
<1>. QED
  BY <1>1, <1>2, <1>3, <1>4, <1>5, <1>6, <1>7, <1>8, <1>9, Zenon
  DEF Next, DialOpens, AcceptCalls, RunStep, AcceptStep, ReaperStep, Timer

(* IdInv by the variables its parts depend on. *)
DialIds ==
  \A s \in Dials :
    /\ dial[s] = "idle" => dialId[s] = None
    /\ wire[s] # None => wire[s] = dialId[s]
    /\ dial[s] \in {"read", "ok"} => wire[s] # None
    /\ InBacklog(s) \/ s \in closed => dialId[s] # None
ReaperIds ==
  \A s \in Dials :
    /\ reaper[s] # "none" => wire[s] # None /\ IdOf(reaperEntry[s]) = wire[s]
    /\ reaper[s] = "done" => reaperEntry[s] \in doneCh
    /\ reaper[s] # "none" => s # runStream /\ ~InBacklog(s)
RunIds ==
  /\ run \in {"accept", "exited"} <=> runStream = None
  /\ runStream # None => dialId[runStream] # None
  /\ run = "select" =>
       wire[runStream] # None /\ IdOf(runEntry) = wire[runStream]
MapIds == \A id \in Ids : streams[id] # None => IdOf(streams[id]) = id
ChIds ==
  \A e \in Entries :
    ch[e] # None => reaper[ch[e]] # "none" /\ reaperEntry[ch[e]] = e
AcceptIds ==
  \A a \in Accepts :
    /\ accept[a] = "idle" <=> acceptId[a] = None
    /\ accept[a] # "idle" => IdOf(acceptEntry[a]) = acceptId[a]
    /\ conn[a] # None <=> accept[a] \in {"close", "ack", "ok", "error"}
    /\ conn[a] # None =>
         reaper[conn[a]] # "none" /\ wire[conn[a]] = acceptId[a]

LEMMA IdParts ==
  /\ IdInv => /\ DialIds /\ ReaperIds /\ RunIds /\ MapIds /\ ChIds /\ AcceptIds
  /\ DialIds' /\ ReaperIds' /\ RunIds' /\ MapIds' /\ ChIds' /\ AcceptIds'
       => IdInv'
BY Zenon DEF IdInv, DialIds, ReaperIds, RunIds, MapIds, ChIds, AcceptIds

LEMMA IdFrames ==
  ASSUME IdInv
  PROVE  /\ UNCHANGED <<dial, dialId, wire, backlog, closed>> => DialIds'
         /\ UNCHANGED <<reaper, reaperEntry, wire, acceptId, doneCh, runStream,
                        backlog>> => ReaperIds'
         /\ UNCHANGED <<run, runStream, runEntry, dialId, wire, acceptId>>
              => RunIds'
         /\ UNCHANGED <<streams, wire, acceptId>> => MapIds'
         /\ UNCHANGED <<ch, reaper, reaperEntry>> => ChIds'
         /\ UNCHANGED <<accept, acceptId, acceptEntry, conn, reaper, wire>>
              => AcceptIds'
<1>1. /\ DialIds /\ ReaperIds /\ RunIds /\ MapIds /\ ChIds /\ AcceptIds
  BY IdParts, Zenon
<1>2. UNCHANGED backlog => \A s : InBacklog(s)' = InBacklog(s)
  BY Zenon DEF InBacklog
<1>3. UNCHANGED <<wire, acceptId>> => \A e : IdOf(e)' = IdOf(e)
  BY Zenon DEF IdOf
<1>4. UNCHANGED <<dial, dialId, wire, backlog, closed>> => DialIds'
  BY <1>1, <1>2, Zenon DEF DialIds
<1>5. UNCHANGED <<reaper, reaperEntry, wire, acceptId, doneCh, runStream, backlog>>
        => ReaperIds'
  BY <1>1, <1>2, <1>3, Zenon DEF ReaperIds
<1>6. UNCHANGED <<run, runStream, runEntry, dialId, wire, acceptId>> => RunIds'
  BY <1>1, <1>3, Zenon DEF RunIds
<1>7. UNCHANGED <<streams, wire, acceptId>> => MapIds'
  BY <1>1, <1>3, Zenon DEF MapIds
<1>8. UNCHANGED <<ch, reaper, reaperEntry>> => ChIds'
  BY <1>1, Zenon DEF ChIds
<1>9. UNCHANGED <<accept, acceptId, acceptEntry, conn, reaper, wire>>
        => AcceptIds'
  BY <1>1, <1>3, Zenon DEF AcceptIds
<1>. QED
  BY <1>4, <1>5, <1>6, <1>7, <1>8, <1>9, Zenon

(* A Dial's steps: an id is written on a stream once. *)
LEMMA IdDial ==
  ASSUME TypeOK, IdInv, NEW s \in Dials,
         DialStep(s) \/ \E id \in Ids : DialOpen(s, id)
  PROVE  IdInv'
<1>1. /\ DialIds /\ ReaperIds /\ RunIds /\ MapIds /\ ChIds /\ AcceptIds
  BY IdParts, Zenon
<1>2. ASSUME NEW id \in Ids, DialOpen(s, id)
      PROVE  IdInv'
  <2>1. MapIds' /\ ChIds' /\ AcceptIds'
    BY <1>2, IdFrames, Zenon DEF DialOpen
  <2>2. /\ \A t \in Dials : t # s => dialId'[t] = dialId[t] /\ dial'[t] = dial[t]
        /\ dialId'[s] = id /\ dial'[s] = "open" /\ id # None
        /\ dial[s] = "idle" /\ dialId[s] = None
        /\ UNCHANGED <<wire, closed, run, runStream, runEntry, reaper,
                       reaperEntry, doneCh, acceptId>>
    <3>1. /\ dial' = [dial EXCEPT ![s] = "open"] /\ dial[s] = "idle"
          /\ dialId' = [dialId EXCEPT ![s] = id]
          /\ UNCHANGED <<wire, closed, run, runStream, runEntry, reaper,
                         reaperEntry, doneCh, acceptId>>
      BY <1>2, Zenon DEF DialOpen
    <3>2. DOMAIN dial = Dials /\ DOMAIN dialId = Dials
      BY Zenon DEF TypeOK
    <3>3. dialId[s] = None
      BY <1>1, <3>1, Zenon DEF DialIds
    <3>. QED
      BY <3>1, <3>2, <3>3, Zenon
  <2>3. \A t \in Dials : InBacklog(t)' => InBacklog(t) \/ t = s
    BY <1>2, Appended, Zenon DEF DialOpen
  <2>4. DialIds'
    BY <1>1, <2>2, <2>3, Zenon DEF DialIds
  <2>5. ReaperIds'
    <3>1. \A e : IdOf(e)' = IdOf(e)
      BY <2>2, Zenon DEF IdOf
    <3>2. wire[s] = None
      BY <1>1, <2>2, Zenon DEF DialIds
    <3>. QED
      BY <1>1, <2>2, <2>3, <3>1, <3>2, Zenon DEF ReaperIds
  <2>6. RunIds'
    <3>1. \A e : IdOf(e)' = IdOf(e)
      BY <2>2, Zenon DEF IdOf
    <3>2. runStream # None => runStream \in Dials
      BY Zenon DEF TypeOK
    <3>. QED
      BY <1>1, <2>2, <3>1, <3>2, Zenon DEF RunIds
  <2>. QED
    BY <2>1, <2>4, <2>5, <2>6, IdParts, Zenon
<1>3. CASE DialFails(s) \/ DialReadAck(s) \/ DialReadError(s)
  <2>1. ReaperIds' /\ RunIds' /\ MapIds' /\ ChIds' /\ AcceptIds'
    BY <1>3, IdFrames, Zenon DEF DialFails, DialReadAck, DialReadError
  <2>2. /\ UNCHANGED <<dialId, wire, backlog, closed>>
        /\ \E pc \in {"ok", "error"} :
             /\ dial' = [dial EXCEPT ![s] = pc]
             /\ pc = "ok" => dial[s] = "read"
    BY <1>3, Zenon DEF DialFails, DialReadAck, DialReadError
  <2>3. PICK pc \in {"ok", "error"} :
          /\ dial' = [dial EXCEPT ![s] = pc]
          /\ pc = "ok" => dial[s] = "read"
    BY <2>2, Zenon
  <2>4. /\ \A t \in Dials : t # s => dial'[t] = dial[t]
        /\ dial'[s] = pc
    BY <2>3, Zenon DEF TypeOK
  <2>5. \A t \in Dials : InBacklog(t)' = InBacklog(t)
    BY <2>2, Zenon DEF InBacklog
  <2>6. DialIds'
    BY <1>1, <2>2, <2>3, <2>4, <2>5, Zenon DEF DialIds
  <2>. QED
    BY <2>1, <2>6, IdParts, Zenon
<1>4. CASE DialWrite(s)
  <2>1. ChIds'
    BY <1>4, IdFrames, Zenon DEF DialWrite
  <2>2. /\ \A t \in Dials : t # s => wire'[t] = wire[t] /\ dial'[t] = dial[t]
        /\ wire'[s] = dialId[s] /\ dial'[s] = "read" /\ dial[s] = "open"
        /\ UNCHANGED <<dialId, closed, runVars, reaperVars, doneCh, acceptVars,
                       streams>>
    BY <1>4, Zenon DEF DialWrite, TypeOK
  <2>3. dialId[s] # None
    BY <2>2, SMT, Z3, SMTT(20) DEF TypeOK
  <2>4. \A t \in Dials : wire[t] # None => wire'[t] = wire[t]
    BY <1>1, <2>2, Zenon DEF DialIds
  <2>5. \A e \in Entries : IdOf(e) # None => IdOf(e)' = IdOf(e)
    BY <2>2, <2>4, Zenon DEF IdOf, Entries
  <2>6. \A t \in Dials : InBacklog(t)' = InBacklog(t)
    BY <2>2, Zenon DEF InBacklog
  <2>7. DialIds'
    BY <1>1, <2>2, <2>3, <2>6, Zenon DEF DialIds
  <2>8. ReaperIds'
    <3>1. \A t \in Dials : reaper[t] # "none" => reaperEntry[t] \in Entries
      BY Zenon DEF TypeOK
    <3>. QED
      BY <1>1, <2>2, <2>4, <2>5, <2>6, <3>1, Zenon DEF ReaperIds
  <2>9. RunIds'
    <3>1. run = "select" => runStream \in Dials /\ runEntry \in Entries
      BY Zenon DEF TypeOK
    <3>. QED
      BY <1>1, <2>2, <2>4, <2>5, <3>1, Zenon DEF RunIds
  <2>10. MapIds'
    <3>1. \A id \in Ids : id # None /\ streams[id] \in Entries \cup {None}
      BY Zenon DEF TypeOK
    <3>. QED
      BY <1>1, <2>2, <2>5, <3>1, Zenon DEF MapIds
  <2>11. AcceptIds'
    <3>1. \A a \in Accepts : /\ accept[a] # "idle" => acceptEntry[a] \in Entries
                             /\ conn[a] # None => conn[a] \in Dials
      BY Zenon DEF TypeOK
    <3>. QED
      BY <1>1, <2>2, <2>4, <2>5, <3>1, SMT, Z3, SMTT(20) DEF AcceptIds
  <2>. QED
    BY <2>1, <2>7, <2>8, <2>9, <2>10, <2>11, IdParts, Zenon
<1>. QED
  BY <1>2, <1>3, <1>4, Zenon DEF DialStep

(* The steps of Run. *)
LEMMA IdRun ==
  ASSUME TypeOK, SoleOwner, IdInv, RunStep
  PROVE  IdInv'
<1>1. /\ DialIds /\ ReaperIds /\ RunIds /\ MapIds /\ ChIds /\ AcceptIds
  BY IdParts, Zenon
<1>2. CASE RunAccept
  <2>1. MapIds' /\ ChIds' /\ AcceptIds'
    BY <1>2, IdFrames, Zenon DEF RunAccept
  <2>2. /\ run' = "read" /\ runStream' = Head(backlog)
        /\ backlog' = Tail(backlog) /\ backlog # <<>>
        /\ UNCHANGED <<dialVars, closed, reaperVars, doneCh, acceptId>>
    BY <1>2, Zenon DEF RunAccept
  <2>3. backlog \in Seq(Dials)
    BY Zenon DEF TypeOK
  <2>4. /\ \A s : InBacklog(s)' => InBacklog(s)
        /\ InBacklog(runStream') /\ runStream' \in Dials
    BY <2>2, <2>3, SMT, Z3, SMTT(20) DEF InBacklog
  <2>5. DialIds'
    BY <1>1, <2>2, <2>4, Zenon DEF DialIds
  <2>6. ReaperIds'
    <3>1. \A e : IdOf(e)' = IdOf(e)
      BY <2>2, Zenon DEF IdOf
    <3>. QED
      BY <1>1, <2>2, <2>4, <3>1, Zenon DEF ReaperIds
  <2>7. RunIds'
    BY <1>1, <2>2, <2>4, Zenon DEF RunIds, DialIds
  <2>. QED
    BY <2>1, <2>5, <2>6, <2>7, IdParts, Zenon
<1>3. CASE RunExit
  <2>1. DialIds' /\ ReaperIds' /\ MapIds' /\ ChIds' /\ AcceptIds'
    BY <1>3, IdFrames, Zenon DEF RunExit
  <2>2. RunIds'
    BY <1>1, <1>3, Zenon DEF RunExit, RunIds
  <2>. QED
    BY <2>1, <2>2, IdParts, Zenon
<1>4. CASE RunRead
  <2>1. DialIds' /\ ReaperIds' /\ ChIds' /\ AcceptIds'
    BY <1>4, IdFrames, Zenon DEF RunRead
  <2>2. /\ run = "read" /\ run' = "select" /\ runStream' = runStream
        /\ runStream \in Dials /\ wire[runStream] # None
        /\ streams' = [streams EXCEPT ![wire[runStream]] = runEntry']
        /\ runEntry' = EntryOf(wire[runStream], runStream)
        /\ UNCHANGED <<wire, acceptId, dialId>>
    BY <1>4, Zenon DEF RunRead, GetStream, TypeOK
  <2>3. /\ wire[runStream] \in Ids
        /\ streams \in [Ids -> Entries \cup {None}]
    BY <2>2, Zenon DEF TypeOK
  <2>4. \A e : IdOf(e)' = IdOf(e)
    BY <2>2, Zenon DEF IdOf
  <2>5. IdOf(runEntry') = wire[runStream]
    <3>1. CASE streams[wire[runStream]] = None
      <4>1. runEntry' = runStream
        BY <2>2, <3>1, Zenon DEF EntryOf
      <4>. QED
        BY <2>2, <4>1, Zenon DEF IdOf, CallsAssumption
    <3>2. CASE streams[wire[runStream]] # None
      BY <1>1, <2>2, <2>3, <3>2, Zenon DEF EntryOf, MapIds
    <3>. QED
      BY <3>1, <3>2, Zenon
  <2>6. RunIds'
    BY <1>1, <2>2, <2>4, <2>5, Zenon DEF RunIds
  <2>7. MapIds'
    <3>1. \A id \in Ids :
            streams'[id] = IF id = wire[runStream] THEN runEntry'
                                                   ELSE streams[id]
      BY <2>2, <2>3, Zenon
    <3>. QED
      BY <1>1, <2>4, <2>5, <3>1, Zenon DEF MapIds
  <2>. QED
    BY <2>1, <2>6, <2>7, IdParts, Zenon
<1>5. CASE RunReadError \/ RunDuplicate
  <2>1. MapIds' /\ ChIds' /\ AcceptIds'
    BY <1>5, IdFrames, Zenon DEF RunReadError, RunDuplicate
  <2>2. /\ closed' = closed \cup {runStream} /\ runStream' = None
        /\ run' = "accept"
        /\ UNCHANGED <<dialVars, backlog, reaperVars, doneCh, acceptId>>
    BY <1>5, Zenon DEF RunReadError, RunDuplicate, RunNext
  <2>3. runStream \in Dials /\ runStream # None
    BY <1>5, Zenon DEF RunReadError, RunDuplicate, TypeOK
  <2>4. \A s : InBacklog(s)' = InBacklog(s)
    BY <2>2, Zenon DEF InBacklog
  <2>5. DialIds'
    BY <1>1, <2>2, <2>3, <2>4, Zenon DEF DialIds, RunIds
  <2>6. ReaperIds'
    <3>1. \A e : IdOf(e)' = IdOf(e)
      BY <2>2, Zenon DEF IdOf
    <3>2. \A s \in Dials : s # None
      BY Zenon
    <3>. QED
      BY <1>1, <2>2, <2>4, <3>1, <3>2, Zenon DEF ReaperIds
  <2>7. RunIds'
    BY <2>2, Zenon DEF RunIds
  <2>. QED
    BY <2>1, <2>5, <2>6, <2>7, IdParts, Zenon
<1>6. CASE RunQueue
  <2>1. DialIds' /\ MapIds'
    BY <1>6, IdFrames, Zenon DEF RunQueue
  <2>2. /\ run = "select" /\ run' = "accept" /\ runStream' = None
        /\ ch' = [ch EXCEPT ![runEntry] = runStream]
        /\ reaper' = [reaper EXCEPT ![runStream] = "wait"]
        /\ reaperEntry' = [reaperEntry EXCEPT ![runStream] = runEntry]
        /\ UNCHANGED <<dialVars, backlog, doneCh, acceptVars>>
    BY <1>6, Zenon DEF RunQueue, RunNext
  <2>3. /\ runStream \in Dials /\ runStream # None /\ runEntry \in Entries
        /\ ch \in [Entries -> Dials \cup {None}]
        /\ DOMAIN reaper = Dials /\ DOMAIN reaperEntry = Dials
        /\ \A s \in Dials : s # None
    BY <2>2, Zenon DEF TypeOK
  <2>4. ~InBacklog(runStream) /\ \A e \in Entries : ch[e] # runStream
    BY <2>3, Zenon DEF SoleOwner, InBacklog
  <2>5. /\ \A e \in Entries : ch'[e] = IF e = runEntry THEN runStream ELSE ch[e]
        /\ reaper'[runStream] = "wait" /\ reaperEntry'[runStream] = runEntry
        /\ \A s \in Dials : s # runStream => reaper'[s] = reaper[s]
                                           /\ reaperEntry'[s] = reaperEntry[s]
    BY <2>2, <2>3, Zenon
  <2>6. /\ \A e : IdOf(e)' = IdOf(e)
        /\ \A s : InBacklog(s)' = InBacklog(s)
    BY <2>2, Zenon DEF IdOf, InBacklog
  <2>7. ReaperIds'
    BY <1>1, <2>2, <2>3, <2>4, <2>5, <2>6, Zenon DEF ReaperIds, RunIds
  <2>8. RunIds'
    BY <2>2, Zenon DEF RunIds
  <2>9. ChIds'
    BY <1>1, <2>3, <2>4, <2>5, SMT, Z3, SMTT(20) DEF ChIds
  <2>10. AcceptIds'
    <3>1. \A s \in Dials : reaper[s] # "none" => reaper'[s] # "none"
      BY <2>5, Zenon
    <3>2. \A a \in Accepts : conn[a] # None => conn[a] \in Dials
      BY Zenon DEF TypeOK
    <3>. QED
      BY <1>1, <2>2, <2>6, <3>1, <3>2, Zenon DEF AcceptIds
  <2>. QED
    BY <2>1, <2>7, <2>8, <2>9, <2>10, IdParts, Zenon
<1>. QED
  BY <1>2, <1>3, <1>4, <1>5, <1>6, Zenon DEF RunStep

(* The steps of an Accept: its entry has its id. *)
LEMMA IdAccept ==
  ASSUME TypeOK, IdInv, NEW a \in Accepts,
         AcceptStep(a) \/ AcceptExpire(a) \/ \E id \in Ids : AcceptCall(a, id)
  PROVE  IdInv'
<1>1. /\ DialIds /\ ReaperIds /\ RunIds /\ MapIds /\ ChIds /\ AcceptIds
  BY IdParts, Zenon
<1>2. DOMAIN accept = Accepts /\ DOMAIN acceptId = Accepts
      /\ DOMAIN acceptEntry = Accepts /\ DOMAIN conn = Accepts
  BY Zenon DEF TypeOK
<1>3. ASSUME NEW id \in Ids, AcceptCall(a, id)
      PROVE  IdInv'
  <2>1. DialIds' /\ ChIds'
    BY <1>3, IdFrames, Zenon DEF AcceptCall
  <2>2. PICK e : /\ e = EntryOf(id, a)
                 /\ streams' = [streams EXCEPT ![id] = e]
                 /\ acceptEntry' = [acceptEntry EXCEPT ![a] = e]
    BY <1>3, Zenon DEF AcceptCall, GetStream
  <2>3. /\ accept[a] = "idle" /\ acceptId[a] = None
        /\ acceptId' = [acceptId EXCEPT ![a] = id]
        /\ accept' = [accept EXCEPT ![a] = "select"]
        /\ UNCHANGED <<dialVars, runVars, reaperVars, doneCh, conn>>
    BY <1>1, <1>3, Zenon DEF AcceptCall, AcceptIds
  <2>4. /\ accept'[a] = "select" /\ acceptId'[a] = id /\ acceptEntry'[a] = e
        /\ \A b \in Accepts :
             b # a => /\ accept'[b] = accept[b] /\ acceptId'[b] = acceptId[b]
                      /\ acceptEntry'[b] = acceptEntry[b]
    BY <1>2, <2>2, <2>3, Zenon
  <2>5. \A f \in Entries : IdOf(f) # None => IdOf(f)' = IdOf(f)
    BY <2>3, <2>4, Zenon DEF IdOf
  <2>6. streams[id] \in Entries \cup {None} /\ id # None
    BY Zenon DEF TypeOK
  <2>7. IdOf(e)' = id
    <3>1. CASE streams[id] = None
      <4>1. e = a
        BY <2>2, <3>1, Zenon DEF EntryOf
      <4>. QED
        BY <2>4, <4>1, Zenon DEF IdOf
    <3>2. CASE streams[id] # None
      <4>1. e = streams[id] /\ e \in Entries
        BY <2>2, <2>6, <3>2, Zenon DEF EntryOf
      <4>2. IdOf(e) = id
        BY <1>1, <3>2, <4>1, Zenon DEF MapIds
      <4>. QED
        BY <2>5, <2>6, <4>1, <4>2, Zenon
    <3>. QED
      BY <3>1, <3>2, Zenon
  <2>8. ReaperIds'
    <3>1. \A s \in Dials : reaper[s] # "none" => reaperEntry[s] \in Entries
      BY Zenon DEF TypeOK
    <3>2. \A s : InBacklog(s)' = InBacklog(s)
      BY <2>3, Zenon DEF InBacklog
    <3>. QED
      BY <1>1, <2>3, <2>5, <3>1, <3>2, Zenon DEF ReaperIds
  <2>9. RunIds'
    <3>1. run = "select" => runEntry \in Entries
      BY Zenon DEF TypeOK
    <3>. QED
      BY <1>1, <2>3, <2>5, <3>1, Zenon DEF RunIds
  <2>10. MapIds'
    <3>1. /\ streams'[id] = e
          /\ \A j \in Ids : j # id => streams'[j] = streams[j]
      BY <2>2, Zenon DEF TypeOK
    <3>2. \A j \in Ids : j # None /\ streams[j] \in Entries \cup {None}
      BY Zenon DEF TypeOK
    <3>. QED
      BY <1>1, <2>5, <2>7, <3>1, <3>2, Zenon DEF MapIds
  <2>11. AcceptIds'
    <3>1. \A b \in Accepts : accept[b] # "idle" => acceptEntry[b] \in Entries
      BY Zenon DEF TypeOK
    <3>2. conn[a] = None
      BY <1>1, <2>3, Zenon DEF AcceptIds
    <3>. QED
      BY <1>1, <2>3, <2>4, <2>5, <2>6, <2>7, <3>1, <3>2, SMT, Z3, SMTT(20)
      DEF AcceptIds
  <2>. QED
    BY <2>1, <2>8, <2>9, <2>10, <2>11, IdParts, Zenon
<1>4. CASE AcceptReceive(a)
  <2>1. DialIds' /\ ReaperIds' /\ RunIds' /\ MapIds'
    BY <1>4, IdFrames, Zenon DEF AcceptReceive
  <2>2. /\ accept[a] = "select" /\ ch[acceptEntry[a]] # None
        /\ accept' = [accept EXCEPT ![a] = "close"]
        /\ conn' = [conn EXCEPT ![a] = ch[acceptEntry[a]]]
        /\ ch' = [ch EXCEPT ![acceptEntry[a]] = None]
        /\ UNCHANGED <<acceptId, acceptEntry, reaperVars, wire>>
    BY <1>4, Zenon DEF AcceptReceive
  <2>3. /\ accept'[a] = "close" /\ conn'[a] = ch[acceptEntry[a]]
        /\ \A b \in Accepts :
             b # a => accept'[b] = accept[b] /\ conn'[b] = conn[b]
    BY <1>2, <2>2, Zenon
  <2>4. acceptEntry[a] \in Entries /\ ch[acceptEntry[a]] \in Dials
    BY <2>2, Zenon DEF TypeOK
  <2>5. ChIds'
    <3>1. \A e \in Entries : ch'[e] # None => ch'[e] = ch[e]
      BY <2>2, Zenon DEF TypeOK
    <3>. QED
      BY <1>1, <2>2, <3>1, Zenon DEF ChIds
  <2>6. AcceptIds'
    <3>1. /\ reaper[ch[acceptEntry[a]]] # "none"
          /\ reaperEntry[ch[acceptEntry[a]]] = acceptEntry[a]
      BY <1>1, <2>2, <2>4, Zenon DEF ChIds
    <3>2. /\ IdOf(acceptEntry[a]) = acceptId[a]
          /\ wire[ch[acceptEntry[a]]] = acceptId[a]
      BY <1>1, <2>2, <2>4, <3>1, SMT, Z3, SMTT(20) DEF ReaperIds, AcceptIds
    <3>3. \A e : IdOf(e)' = IdOf(e)
      BY <2>2, Zenon DEF IdOf
    <3>. QED
      BY <1>1, <2>2, <2>3, <3>1, <3>2, <3>3, SMT, Z3, SMTT(20) DEF AcceptIds
  <2>. QED
    BY <2>1, <2>5, <2>6, IdParts, Zenon
<1>5. CASE \/ AcceptCloseDone(a) \/ AcceptAck(a) \/ AcceptAckError(a)
           \/ AcceptTimeout(a) \/ AcceptExpire(a)
  <2>1. RunIds' /\ ChIds'
    BY <1>5, IdFrames, Zenon
    DEF AcceptCloseDone, AcceptAck, AcceptAckError, AcceptTimeout, AcceptExpire
  <2>2. UNCHANGED <<acceptId, acceptEntry, conn, dialVars, runVars, reaperVars>>
    BY <1>5, Zenon
    DEF AcceptCloseDone, AcceptAck, AcceptAckError, AcceptTimeout, AcceptExpire
  <2>3. DialIds'
    <3>1. CASE UNCHANGED closed
      BY <2>2, <3>1, IdFrames, Zenon
    <3>2. CASE AcceptAckError(a)
      <4>1. closed' = closed \cup {conn[a]} /\ accept[a] = "ack"
        BY <3>2, Zenon DEF AcceptAckError
      <4>2. conn[a] \in Dials /\ dialId[conn[a]] # None
        BY <1>1, <4>1, Zenon DEF TypeOK, AcceptIds, ReaperIds, DialIds
      <4>3. \A s : InBacklog(s)' = InBacklog(s)
        BY <2>2, Zenon DEF InBacklog
      <4>. QED
        BY <1>1, <2>2, <4>1, <4>2, <4>3, Zenon DEF DialIds
    <3>. QED
      BY <1>5, <3>1, <3>2, Zenon
      DEF AcceptCloseDone, AcceptAck, AcceptTimeout, AcceptExpire
  <2>4. ReaperIds'
    <3>1. doneCh \subseteq doneCh'
      BY <1>5, Zenon
      DEF AcceptCloseDone, AcceptAck, AcceptAckError, AcceptTimeout, AcceptExpire
    <3>2. /\ \A e : IdOf(e)' = IdOf(e)
          /\ \A s : InBacklog(s)' = InBacklog(s)
      BY <2>2, Zenon DEF IdOf, InBacklog
    <3>. QED
      BY <1>1, <2>2, <3>1, <3>2, Zenon DEF ReaperIds
  <2>5. MapIds'
    <3>1. CASE UNCHANGED streams
      BY <2>2, <3>1, IdFrames, Zenon
    <3>2. CASE AcceptTimeout(a)
      <4>1. \A id \in Ids : streams'[id] # None => streams'[id] = streams[id]
        BY <3>2, Zenon DEF AcceptTimeout, TypeOK
      <4>2. \A e : IdOf(e)' = IdOf(e)
        BY <2>2, Zenon DEF IdOf
      <4>. QED
        BY <1>1, <4>1, <4>2, Zenon DEF MapIds
    <3>. QED
      BY <1>5, <3>1, <3>2, Zenon
      DEF AcceptCloseDone, AcceptAck, AcceptAckError, AcceptExpire
  <2>6. AcceptIds'
    <3>1. PICK pc : accept' = [accept EXCEPT ![a] = pc] /\
                    \/ /\ accept[a] \in {"close", "ack"}
                       /\ pc \in {"ack", "ok", "error"}
                    \/ /\ accept[a] \in {"select", "expired"}
                       /\ pc \in {"expired", "timeout"}
      BY <1>5, Zenon DEF AcceptCloseDone, AcceptAck, AcceptAckError,
           AcceptTimeout, AcceptExpire
    <3>2. accept'[a] = pc /\ \A b \in Accepts : b # a => accept'[b] = accept[b]
      BY <1>2, <3>1, Zenon
    <3>3. /\ accept[a] # "idle" /\ pc # "idle"
          /\ accept[a] \in {"close", "ack", "ok", "error"}
               <=> pc \in {"close", "ack", "ok", "error"}
      BY <3>1, Zenon
    <3>4. \A e : IdOf(e)' = IdOf(e)
      BY <2>2, Zenon DEF IdOf
    <3>. QED
      BY <1>1, <2>2, <3>2, <3>3, <3>4, Zenon DEF AcceptIds
  <2>. QED
    BY <2>1, <2>3, <2>4, <2>5, <2>6, IdParts, Zenon
<1>. QED
  BY <1>3, <1>4, <1>5, Zenon DEF AcceptStep

(* The steps of a timeoutWait. *)
LEMMA IdReaper ==
  ASSUME TypeOK, IdInv, NEW s \in Dials, ReaperStep(s) \/ ReaperExpire(s)
  PROVE  IdInv'
<1>1. /\ DialIds /\ ReaperIds /\ RunIds /\ MapIds /\ ChIds /\ AcceptIds
  BY IdParts, Zenon
<1>2. RunIds'
  BY IdFrames, Zenon DEF ReaperStep, ReaperDone, Reap, ReaperExpire
<1>3. UNCHANGED <<dialVars, runVars, acceptVars, doneCh, reaperEntry>>
  BY Zenon DEF ReaperStep, ReaperDone, Reap, ReaperExpire
<1>4. /\ \A e : IdOf(e)' = IdOf(e)
      /\ \A t : InBacklog(t)' = InBacklog(t)
  BY <1>3, Zenon DEF IdOf, InBacklog
<1>5. PICK pc \in {"done", "expired", "gone"} :
        /\ reaper' = [reaper EXCEPT ![s] = pc]
        /\ reaper[s] # "none"
        /\ pc = "done" => reaperEntry[s] \in doneCh
  BY Zenon DEF ReaperStep, ReaperDone, Reap, ReaperExpire
<1>6. reaper'[s] = pc /\ \A t \in Dials : t # s => reaper'[t] = reaper[t]
  BY <1>5, Zenon DEF TypeOK
<1>7. ReaperIds'
  BY <1>1, <1>3, <1>4, <1>5, <1>6, Zenon DEF ReaperIds
<1>8. \A t \in Dials : reaper[t] # "none" => reaper'[t] # "none"
  BY <1>5, <1>6, Zenon
<1>9. AcceptIds'
  <2>1. \A a \in Accepts : conn[a] # None => conn[a] \in Dials
    BY Zenon DEF TypeOK
  <2>. QED
    BY <1>1, <1>3, <1>4, <1>8, <2>1, Zenon DEF AcceptIds
<1>10. ASSUME \A e \in Entries : ch'[e] # None => ch'[e] = ch[e]
       PROVE  ChIds'
  <2>1. \A e \in Entries : ch[e] # None => ch[e] \in Dials
    BY Zenon DEF TypeOK
  <2>. QED
    BY <1>1, <1>3, <1>8, <1>10, <2>1, Zenon DEF ChIds
<1>11. CASE UNCHANGED <<streams, closed, ch>>
  <2>1. DialIds' /\ MapIds'
    BY <1>3, <1>11, IdFrames, Zenon
  <2>. QED
    BY <1>2, <1>7, <1>9, <1>10, <1>11, <2>1, IdParts, Zenon
<1>12. CASE Reap(s)
  <2>1. MapIds'
    <3>1. \A id \in Ids : streams'[id] # None => streams'[id] = streams[id]
      BY <1>12, Zenon DEF Reap, TypeOK
    <3>. QED
      BY <1>1, <1>4, <3>1, Zenon DEF MapIds
  <2>2. reaperEntry[s] \in Entries
    BY <1>5, Zenon DEF TypeOK
  <2>3. \A e \in Entries : ch'[e] # None => ch'[e] = ch[e]
    BY <1>12, <2>2, Zenon DEF Reap, TypeOK
  <2>4. \A t \in closed' : t \in closed \/ (t = ch[reaperEntry[s]] /\ t # None)
    BY <1>12, Zenon DEF Reap, ReapedIn
  <2>5. DialIds'
    <3>1. ch[reaperEntry[s]] # None =>
            ch[reaperEntry[s]] \in Dials /\ dialId[ch[reaperEntry[s]]] # None
      BY <1>1, <2>2, SMT, Z3, SMTT(20) DEF TypeOK, ChIds, ReaperIds, DialIds
    <3>. QED
      BY <1>1, <1>3, <1>4, <2>4, <3>1, Zenon DEF DialIds
  <2>. QED
    BY <1>2, <1>7, <1>9, <1>10, <2>1, <2>3, <2>5, IdParts, Zenon
<1>. QED
  BY <1>11, <1>12, Zenon DEF ReaperStep, ReaperDone, ReaperExpire

(* Ids are written once, and an entry keeps the id it was allocated for. *)
LEMMA IdPreserved ==
  ASSUME TypeOK, SoleOwner, IdInv, Next
  PROVE  IdInv'
<1>1. CASE Close
  BY <1>1, IdFrames, IdParts, Zenon DEF Close
<1>. QED
  BY <1>1, IdDial, IdRun, IdAccept, IdReaper, Zenon
  DEF Next, DialOpens, AcceptCalls, Timer

(* Only the Accept that holds a stream acknowledges it. *)
LEMMA AckPreserved ==
  ASSUME TypeOK, IdInv, AckInv, Next
  PROVE  AckInv'
<1>1. CASE UNCHANGED <<ack, dial, dialId, accept, acceptId, conn>>
  BY <1>1, Zenon DEF AckInv
<1>2. ASSUME NEW s \in Dials, DialStep(s) \/ \E id \in Ids : DialOpen(s, id)
      PROVE  AckInv'
  <2>1. UNCHANGED <<ack, accept, acceptId, conn>>
    BY <1>2, Zenon
    DEF DialStep, DialOpen, DialFails, DialWrite, DialReadAck, DialReadError,
        acceptVars
  <2>2. \A t \in Dials : t # s => dial'[t] = dial[t] /\ dialId'[t] = dialId[t]
    BY <1>2, Zenon
    DEF DialStep, DialOpen, DialFails, DialWrite, DialReadAck, DialReadError,
        TypeOK
  <2>3. dial'[s] = "ok" => ack[s] = dialId'[s]
    BY <1>2, Zenon
    DEF DialStep, DialOpen, DialFails, DialWrite, DialReadAck, DialReadError,
        TypeOK
  <2>. QED
    BY <2>1, <2>2, <2>3, Zenon DEF AckInv
<1>3. ASSUME NEW a \in Accepts, accept[a] # "ok", UNCHANGED <<ack, dial, dialId>>,
             \A b \in Accepts :
               b # a => /\ accept'[b] = accept[b] /\ acceptId'[b] = acceptId[b]
                        /\ conn'[b] = conn[b]
      PROVE  AckInv'
  <2>1. \A b \in Accepts :
          accept[b] = "ok" => /\ accept'[b] = "ok" /\ acceptId'[b] = acceptId[b]
                              /\ conn'[b] = conn[b]
    BY <1>3, Zenon
  <2>2. \A s \in Dials : ack'[s] = ack[s] /\ dial'[s] = dial[s]
                          /\ dialId'[s] = dialId[s]
    BY <1>3, Zenon
  <2>. QED
    BY <2>1, <2>2, SMT, Z3, SMTT(20) DEF AckInv
<1>4. ASSUME NEW a \in Accepts,
             \/ AcceptReceive(a) \/ AcceptCloseDone(a) \/ AcceptAckError(a)
             \/ AcceptTimeout(a) \/ AcceptExpire(a)
             \/ \E id \in Ids : AcceptCall(a, id)
      PROVE  AckInv'
  <2>1. accept[a] # "ok" /\ UNCHANGED <<ack, dial, dialId>>
    BY <1>4, Zenon
    DEF AcceptReceive, AcceptCloseDone, AcceptAckError, AcceptTimeout,
        AcceptExpire, AcceptCall, dialVars
  <2>2. \A b \in Accepts :
          b # a => /\ accept'[b] = accept[b] /\ acceptId'[b] = acceptId[b]
                   /\ conn'[b] = conn[b]
    BY <1>4, ZenonT(40)
    DEF AcceptReceive, AcceptCloseDone, AcceptAckError, AcceptTimeout,
        AcceptExpire, AcceptCall, TypeOK
  <2>. QED
    BY <1>3, <2>1, <2>2, Zenon
<1>5. ASSUME NEW a \in Accepts, AcceptAck(a)
      PROVE  AckInv'
  <2>1. /\ accept[a] = "ack" /\ UNCHANGED <<dial, dialId, acceptId, conn>>
        /\ accept' = [accept EXCEPT ![a] = "ok"]
        /\ ack' = [ack EXCEPT ![conn[a]] = acceptId[a]]
    BY <1>5, Zenon DEF AcceptAck, dialVars
  <2>2. conn[a] \in Dials /\ wire[conn[a]] = acceptId[a] /\ acceptId[a] # None
    BY <2>1, IdParts, Zenon DEF TypeOK, AcceptIds
  <2>3. acceptId[a] = dialId[conn[a]]
    BY <2>2, IdParts, Zenon DEF DialIds
  <2>4. /\ accept'[a] = "ok"
        /\ \A b \in Accepts : accept[b] = "ok" => accept'[b] = "ok"
    BY <2>1, Zenon DEF TypeOK
  <2>5. /\ ack'[conn[a]] = acceptId[a]
        /\ \A s \in Dials : s # conn[a] => ack'[s] = ack[s]
    BY <2>1, <2>2, Zenon DEF TypeOK
  <2>. QED
    BY <2>1, <2>2, <2>3, <2>4, <2>5, SMT, Z3, SMTT(20) DEF AckInv
<1>6. ASSUME RunStep \/ Close \/ \E s \in Dials : ReaperStep(s) \/ ReaperExpire(s)
      PROVE  UNCHANGED <<ack, dial, dialId, accept, acceptId, conn>>
  BY <1>6, Zenon
  DEF RunStep, RunAccept, RunExit, RunRead, RunReadError, RunQueue, RunDuplicate,
      Close, ReaperStep, ReaperDone, Reap, ReaperExpire, dialVars, acceptVars
<1>. QED
  BY <1>1, <1>2, <1>4, <1>5, <1>6, Zenon
  DEF Next, DialOpens, AcceptCalls, AcceptStep, Timer

-----------------------------------------------------------------------------
\* The broker's state keeps its types: TypeOK holds in every reachable state of
\* the Run loop, Accept, Dial and timeoutWait, whatever the ids.
THEOREM TypeCorrect == Spec => []TypeOK
<1>1. Init => TypeOK
  <2>. SUFFICES ASSUME Init
                PROVE  TypeOK
    BY Zenon
  <2>1. /\ dial \in [Dials -> {"idle", "open", "read", "ok", "error"}]
        /\ dialId \in [Dials -> Ids \cup {None}]
        /\ wire \in [Dials -> Ids \cup {None}]
        /\ ack \in [Dials -> Ids \cup {None}]
    BY Zenon DEF Init
  <2>2. /\ streams \in [Ids -> Entries \cup {None}]
        /\ ch \in [Entries -> Dials \cup {None}]
    BY Zenon DEF Init
  <2>3. /\ accept \in [Accepts -> {"idle", "select", "close", "ack", "expired",
                                   "ok", "error", "timeout"}]
        /\ acceptId \in [Accepts -> Ids \cup {None}]
        /\ acceptEntry \in [Accepts -> Entries \cup {None}]
        /\ conn \in [Accepts -> Dials \cup {None}]
    BY Zenon DEF Init
  <2>4. /\ reaper \in [Dials -> {"none", "wait", "done", "expired", "gone"}]
        /\ reaperEntry \in [Dials -> Entries \cup {None}]
    BY Zenon DEF Init
  <2>5. backlog \in Seq(Dials)
    BY SMT, Z3, SMTT(20) DEF Init
  <2>. QED
    BY <2>1, <2>2, <2>3, <2>4, <2>5, Zenon DEF Init, TypeOK
<1>2. TypeOK /\ [Next]_vars => TypeOK'
  <2>1. TypeOK /\ UNCHANGED vars => TypeOK'
    BY SMT, Z3, SMTT(20) DEF TypeOK, vars
  <2>. QED
    BY <2>1, TypesPreserved, Zenon
<1>. QED
  BY <1>1, <1>2, PTL DEF Spec

\* A stream is held in one place at a time (the backlog, Run, one entry's
\* channel, one Accept), and its ids and acks agree, for any reuse of ids.
THEOREM Ownership == Spec => [](SoleOwner /\ IdInv /\ AckInv)
<1>1. Init => SoleOwner /\ IdInv /\ AckInv
  BY SMT, Z3, SMTT(20)
  DEF Init, SoleOwner, IdInv, AckInv, InBacklog, IdOf, Entries
<1>2. /\ TypeOK /\ SoleOwner /\ IdInv /\ AckInv /\ [Next]_vars
      => SoleOwner' /\ IdInv' /\ AckInv'
  <2>1. SoleOwner /\ UNCHANGED vars => SoleOwner'
    BY ZenonT(40) DEF SoleOwner, InBacklog, vars
  <2>2. IdInv /\ UNCHANGED vars => IdInv'
    BY SMT, Z3, SMTT(20) DEF IdInv, InBacklog, IdOf, vars
  <2>3. AckInv /\ UNCHANGED vars => AckInv'
    BY SMT, Z3, SMTT(20) DEF AckInv, vars
  <2>. QED
    BY <2>1, <2>2, <2>3, SolePreserved, IdPreserved, AckPreserved, Zenon
<1>. QED
  BY <1>1, <1>2, TypeCorrect, PTL DEF Spec

\* A Dial that succeeds is connected to exactly one Accept, and that Accept
\* asked for the id that was dialled, for any reuse of ids.
THEOREM PairedAlways == Spec => []Paired
<1>1. TypeOK /\ SoleOwner /\ IdInv /\ AckInv => Paired
  BY SMT, Z3, SMTT(20) DEF TypeOK, SoleOwner, IdInv, AckInv, Paired
<1>. QED
  BY <1>1, TypeCorrect, Ownership, PTL

-----------------------------------------------------------------------------
(* Unique ids.                                                             *)


(* Each part of UniqueInv depends on the variables it names. *)
LEMMA UniqueFrames ==
  ASSUME UniqueInv
  PROVE  /\ UNCHANGED <<dialId, acceptId>> => IdsAreUnique'
         /\ UNCHANGED <<doneCh, acceptEntry, accept>> => DoneByAccept'
         /\ UNCHANGED <<accept, acceptId, acceptEntry, streams, reaper, wire>>
              => AcceptInMap'
         /\ UNCHANGED <<run, runStream, runEntry, acceptId, wire, streams>>
              => RunEntryInMap'
         /\ UNCHANGED panicked => NoDoubleClose'
         /\ UNCHANGED <<ch, doneCh, reaper, reaperEntry>> => QueuedIsReaped'
         /\ UNCHANGED <<accept, acceptId, acceptEntry, dialId, streams, runVars>>
              => AcceptIsReachable'
<1>. USE DEF UniqueInv
<1>1. UNCHANGED <<dialId, acceptId>> => IdsAreUnique'
  BY Zenon DEF IdsAreUnique
<1>2. UNCHANGED <<doneCh, acceptEntry, accept>> => DoneByAccept'
  BY Zenon DEF DoneByAccept
<1>3. UNCHANGED <<accept, acceptId, acceptEntry, streams, reaper, wire>>
        => AcceptInMap'
  BY Zenon DEF AcceptInMap
<1>4. UNCHANGED <<run, runStream, runEntry, acceptId, wire, streams>>
        => RunEntryInMap'
  BY Zenon DEF RunEntryInMap
<1>5. UNCHANGED panicked => NoDoubleClose'
  BY SMT, Z3, SMTT(20) DEF NoDoubleClose
<1>6. UNCHANGED <<ch, doneCh, reaper, reaperEntry>> => QueuedIsReaped'
  BY Zenon DEF QueuedIsReaped
<1>7. UNCHANGED <<accept, acceptId, acceptEntry, dialId, streams, runVars>>
        => AcceptIsReachable'
  <2>1. UNCHANGED backlog => \A s \in Dials : InBacklog(s)' = InBacklog(s)
    BY Zenon DEF InBacklog
  <2>. QED
    BY <2>1, Zenon DEF AcceptIsReachable
<1>. HIDE DEF UniqueInv
<1>. QED
  BY <1>1, <1>2, <1>3, <1>4, <1>5, <1>6, <1>7, Zenon

(* The Run loop alone moves a stream to an entry. *)
LEMMA UniqueRun ==
  ASSUME TypeOK, SoleOwner, IdInv, UniqueInv, RunStep
  PROVE  UniqueInv'
<1>1. CASE RunAccept
  <2>1. /\ IdsAreUnique' /\ DoneByAccept' /\ AcceptInMap'
        /\ NoDoubleClose' /\ QueuedIsReaped'
    BY <1>1, UniqueFrames, Zenon DEF RunAccept
  <2>2. RunEntryInMap'
    BY <1>1, Zenon DEF RunAccept, RunEntryInMap
  <2>3. AcceptIsReachable'
    <3>1. backlog \in Seq(Dials) /\ backlog # <<>>
      BY <1>1, Zenon DEF RunAccept, TypeOK
    <3>2. \A s \in Dials : InBacklog(s)' \/ s = runStream' => InBacklog(s)
      BY <1>1, <3>1, SMT, Z3, SMTT(20) DEF RunAccept, InBacklog
    <3>3. run' = "read" /\ UNCHANGED <<accept, acceptId, acceptEntry, dialId,
                                       streams>>
      BY <1>1, Zenon DEF RunAccept
    <3>. QED
      BY <3>2, <3>3, Zenon DEF UniqueInv, AcceptIsReachable
  <2>. QED
    BY <2>1, <2>2, <2>3, Zenon DEF UniqueInv
<1>2. CASE RunExit \/ RunReadError \/ RunDuplicate
  <2>1. /\ IdsAreUnique' /\ DoneByAccept' /\ AcceptInMap'
        /\ NoDoubleClose' /\ QueuedIsReaped'
    BY <1>2, UniqueFrames, Zenon DEF RunExit, RunReadError, RunDuplicate
  <2>2. /\ run' \notin {"read", "select"}
        /\ UNCHANGED <<accept, acceptId, acceptEntry, dialId, streams, backlog>>
    BY <1>2, Zenon DEF RunExit, RunReadError, RunDuplicate, RunNext
  <2>3. RunEntryInMap'
    BY <2>2, Zenon DEF RunEntryInMap
  <2>4. AcceptIsReachable'
    <3>1. \A s \in Dials : InBacklog(s)' = InBacklog(s)
      BY <2>2, Zenon DEF InBacklog
    <3>. QED
      BY <2>2, <3>1, Zenon DEF UniqueInv, AcceptIsReachable
  <2>. QED
    BY <2>1, <2>3, <2>4, Zenon DEF UniqueInv
<1>3. CASE RunRead
  <2>1. /\ IdsAreUnique' /\ DoneByAccept' /\ NoDoubleClose' /\ QueuedIsReaped'
    BY <1>3, UniqueFrames, Zenon DEF RunRead
  <2>2. PICK id \in Ids : wire[runStream] = id /\ dialId[runStream] = id
    BY <1>3, SMT, Z3, SMTT(20) DEF RunRead, TypeOK, IdInv
  <2>3. /\ \A j \in Ids : streams[j] # None => streams'[j] = streams[j]
        /\ streams'[id] = runEntry'
        /\ \A j \in Ids : j # id => streams'[j] = streams[j]
        /\ run' = "select"
        /\ UNCHANGED <<accept, acceptId, acceptEntry, dialId, reaper, wire,
                       backlog, runStream>>
    <3>1. /\ streams' = [streams EXCEPT ![id] = runEntry']
          /\ streams[id] # None => runEntry' = streams[id]
          /\ run' = "select"
          /\ UNCHANGED <<accept, acceptId, acceptEntry, dialId, reaper, wire,
                         backlog, runStream>>
      BY <1>3, <2>2, Zenon DEF RunRead, GetStream, EntryOf
    <3>2. streams \in [Ids -> Entries \cup {None}]
      BY Zenon DEF TypeOK
    <3>. QED
      BY <3>1, <3>2, Zenon
  <2>4. \A a \in Accepts :
          accept[a] # "idle" => acceptId[a] \in Ids /\ acceptEntry[a] # None
    BY SMT, Z3, SMTT(20) DEF TypeOK, Entries, NoneAssumption
  <2>5. AcceptInMap'
    BY <2>3, <2>4, SMT, Z3, SMTT(20) DEF UniqueInv, AcceptInMap
  <2>6. RunEntryInMap'
    BY <2>2, <2>3, Zenon DEF RunEntryInMap
  <2>7. AcceptIsReachable'
    <3>1. \A s \in Dials : InBacklog(s)' = InBacklog(s)
      BY <2>3, Zenon DEF InBacklog
    <3>2. run = "read"
      BY <1>3, Zenon DEF RunRead
    <3>. QED
      BY <2>2, <2>3, <2>4, <3>1, <3>2, SMT, Z3, SMTT(20)
      DEF UniqueInv, AcceptIsReachable
  <2>. QED
    BY <2>1, <2>5, <2>6, <2>7, Zenon DEF UniqueInv
<1>4. CASE RunQueue
  <2>1. /\ IdsAreUnique' /\ DoneByAccept' /\ NoDoubleClose'
    BY <1>4, UniqueFrames, Zenon DEF RunQueue
  <2>2. /\ runStream \in Dials /\ runEntry \in Entries /\ runStream # None
        /\ \A e \in Entries : ch[e] # runStream
    <3>1. runStream \in Dials /\ runEntry \in Entries
      BY <1>4, Zenon DEF RunQueue, TypeOK
    <3>. QED
      BY <3>1, Zenon DEF SoleOwner, NoneAssumption
  <2>3. /\ \A e \in Entries : ch'[e] = IF e = runEntry THEN runStream ELSE ch[e]
        /\ \A s \in Dials : s # runStream => reaper'[s] = reaper[s]
                                             /\ reaperEntry'[s] = reaperEntry[s]
        /\ reaper'[runStream] = "wait" /\ reaperEntry'[runStream] = runEntry
    <3>1. /\ ch \in [Entries -> Dials \cup {None}]
          /\ reaper \in [Dials -> {"none", "wait", "done", "expired", "gone"}]
          /\ reaperEntry \in [Dials -> Entries \cup {None}]
      BY Zenon DEF TypeOK
    <3>2. /\ ch' = [ch EXCEPT ![runEntry] = runStream]
          /\ reaper' = [reaper EXCEPT ![runStream] = "wait"]
          /\ reaperEntry' = [reaperEntry EXCEPT ![runStream] = runEntry]
      BY <1>4, Zenon DEF RunQueue
    <3>. QED
      BY <2>2, <3>1, <3>2, Zenon
  <2>4. /\ run' = "accept"
        /\ UNCHANGED <<accept, acceptId, acceptEntry, dialId, streams, backlog,
                       wire, doneCh>>
    BY <1>4, Zenon DEF RunQueue, RunNext
  <2>5. AcceptInMap'
    BY <2>3, <2>4, SMT, Z3, SMTT(20) DEF UniqueInv, AcceptInMap
  <2>6. RunEntryInMap'
    BY <2>4, Zenon DEF RunEntryInMap
  <2>7. QueuedIsReaped'
    <3>1. ASSUME runEntry \in doneCh
          PROVE  FALSE
      <4>1. PICK a \in Accepts :
              acceptEntry[a] = runEntry /\ accept[a] \in {"ack", "ok", "error"}
        BY <3>1, Zenon DEF UniqueInv, DoneByAccept
      <4>2. /\ conn[a] \in Dials /\ conn[a] # None /\ conn[a] # runStream
            /\ wire[conn[a]] = IdOf(runEntry)
        BY <4>1, ZenonT(40) DEF TypeOK, IdInv, SoleOwner
      <4>3. /\ IdOf(runEntry) = wire[runStream]
            /\ wire[runStream] # None /\ wire[runStream] = dialId[runStream]
        BY <1>4, <2>2, Zenon DEF RunQueue, IdInv
      <4>4. wire[conn[a]] = dialId[conn[a]]
        BY <4>2, <4>3, Zenon DEF IdInv
      <4>. QED
        BY <2>2, <4>2, <4>3, <4>4, Zenon DEF UniqueInv, IdsAreUnique
    <3>2. ASSUME NEW e \in Entries, ch'[e] # None, e # runEntry
          PROVE  /\ e \notin doneCh
                 /\ reaper'[ch'[e]] \in {"wait", "expired"}
                 /\ reaperEntry'[ch'[e]] = e
      <4>1. ch'[e] = ch[e] /\ ch[e] # runStream
        BY <2>2, <2>3, <3>2, Zenon
      <4>2. ch[e] \in Dials
        BY <3>2, <4>1, Zenon DEF TypeOK
      <4>. QED
        BY <2>3, <3>2, <4>1, <4>2, SMT, Z3, SMTT(20)
        DEF UniqueInv, QueuedIsReaped
    <3>. QED
      BY <2>2, <2>3, <2>4, <3>1, <3>2, Zenon DEF QueuedIsReaped
  <2>8. AcceptIsReachable'
    <3>1. \A s \in Dials : InBacklog(s)' = InBacklog(s)
      BY <2>4, Zenon DEF InBacklog
    <3>. QED
      BY <2>4, <3>1, Zenon DEF UniqueInv, AcceptIsReachable
  <2>. QED
    BY <2>1, <2>5, <2>6, <2>7, <2>8, Zenon DEF UniqueInv
<1>. QED
  BY <1>1, <1>2, <1>3, <1>4, Zenon DEF RunStep

(* A Dial uses an id that nobody dials, and writes it once. *)
LEMMA UniqueDial ==
  ASSUME Policy = "unique", TypeOK, SoleOwner, IdInv, UniqueInv,
         NEW s \in Dials, DialStep(s) \/ \E id \in Ids : DialOpen(s, id)
  PROVE  UniqueInv'
<1>1. ASSUME NEW id \in Ids, DialOpen(s, id)
      PROVE  UniqueInv'
  <2>1. \A t \in Dials : dialId[t] # id
    BY <1>1, Zenon DEF DialOpen, MayDial
  <2>2. /\ DoneByAccept' /\ AcceptInMap' /\ RunEntryInMap' /\ NoDoubleClose'
        /\ QueuedIsReaped'
    BY <1>1, UniqueFrames, Zenon DEF DialOpen
  <2>3. /\ \A t \in Dials : dialId'[t] = IF t = s THEN id ELSE dialId[t]
        /\ UNCHANGED <<accept, acceptId, acceptEntry, streams, run, runStream,
                       runEntry>>
    BY <1>1, Zenon DEF DialOpen, TypeOK
  <2>4. IdsAreUnique'
    BY <2>1, <2>3, Zenon DEF UniqueInv, IdsAreUnique
  <2>5. \A t \in Dials : InBacklog(t)' => InBacklog(t) \/ t = s
    BY <1>1, Appended, Zenon DEF DialOpen
  <2>6. AcceptIsReachable'
    <3>1. s # runStream
      BY <1>1, SMT, Z3, SMTT(20) DEF DialOpen, IdInv
    <3>2. ASSUME NEW a \in Accepts, accept[a] = "select", acceptId[a] = id
          PROVE  streams[id] = acceptEntry[a]
      BY <2>1, <3>2, SMT, Z3, SMTT(20) DEF UniqueInv, AcceptInMap, IdInv
    <3>3. ASSUME NEW a \in Accepts, NEW t \in Dials, accept[a] = "select",
                 dialId'[t] = acceptId[a]
          PROVE  /\ InBacklog(t)' \/ (run = "read" /\ runStream = t) =>
                      streams[acceptId[a]] = acceptEntry[a]
                 /\ run = "select" /\ runStream = t =>
                      runEntry = acceptEntry[a]
      <4>1. CASE t = s
        BY <2>3, <3>1, <3>2, <3>3, <4>1, Zenon
      <4>2. CASE t # s
        BY <2>3, <2>5, <3>3, <4>2, Zenon DEF UniqueInv, AcceptIsReachable
      <4>. QED
        BY <4>1, <4>2, Zenon
    <3>. QED
      BY <2>3, <3>3, Zenon DEF AcceptIsReachable
  <2>. QED
    BY <2>2, <2>4, <2>6, Zenon DEF UniqueInv
<1>2. CASE DialFails(s) \/ DialReadAck(s) \/ DialReadError(s)
  BY <1>2, UniqueFrames, Zenon
  DEF DialFails, DialReadAck, DialReadError, UniqueInv
<1>3. CASE DialWrite(s)
  <2>1. /\ IdsAreUnique' /\ DoneByAccept' /\ NoDoubleClose' /\ QueuedIsReaped'
        /\ AcceptIsReachable'
    BY <1>3, UniqueFrames, Zenon DEF DialWrite
  <2>2. \A t \in Dials : wire[t] # None => wire'[t] = wire[t]
    BY <1>3, SMT, Z3, SMTT(20) DEF DialWrite, TypeOK, IdInv
  <2>3. UNCHANGED <<accept, acceptId, acceptEntry, streams, reaper, run,
                    runStream, runEntry>>
    BY <1>3, ZenonT(40) DEF DialWrite
  <2>4. AcceptInMap'
    <3>1. \A t \in Dials : reaper[t] # "none" => wire[t] # None
      BY Zenon DEF IdInv
    <3>. QED
      BY <2>2, <2>3, <3>1, SMT, Z3, SMTT(20) DEF UniqueInv, AcceptInMap
  <2>5. RunEntryInMap'
    <3>1. run = "select" => runStream \in Dials /\ wire[runStream] # None
      BY Zenon DEF IdInv, TypeOK
    <3>. QED
      BY <2>2, <2>3, <3>1, Zenon DEF UniqueInv, RunEntryInMap
  <2>. QED
    BY <2>1, <2>4, <2>5, Zenon DEF UniqueInv
<1>. QED
  BY <1>1, <1>2, <1>3, Zenon DEF DialStep

(* An id that leaves the map is that of a stream which was queued, or of an   *)
(* Accept that has timed out. *)
LEMMA MapShrinks ==
  ASSUME TypeOK, IdInv, UniqueInv, NEW id \in Ids, Policy = "unique",
         streams' = [streams EXCEPT ![id] = None],
         UNCHANGED <<dialVars, runVars, acceptId, acceptEntry>>,
         \A a \in Accepts : accept'[a] = "select" => accept[a] = "select",
         \A s \in Dials : reaper[s] # "none" => reaper'[s] # "none",
         \/ \E s \in Dials : reaper[s] # "none" /\ wire[s] = id
         \/ \E a \in Accepts : acceptId[a] = id /\ accept[a] # "select"
  PROVE  AcceptInMap' /\ RunEntryInMap' /\ AcceptIsReachable'
<1>1. \A j \in Ids : streams'[j] = IF j = id THEN None ELSE streams[j]
  BY Zenon DEF TypeOK
<1>2. \A a \in Accepts : accept[a] = "select" => acceptId[a] \in Ids
  BY Zenon DEF TypeOK
<1>3. ASSUME NEW a \in Accepts, accept[a] = "select", acceptId[a] = id
      PROVE  \E s \in Dials : reaper[s] # "none" /\ wire[s] = id
  BY <1>2, <1>3, SMT, Z3, SMTT(20) DEF UniqueInv, IdsAreUnique, IdInv
<1>4. AcceptInMap'
  <2>1. SUFFICES ASSUME NEW a \in Accepts, accept[a] = "select"
                 PROVE  \/ streams'[acceptId[a]] = acceptEntry[a]
                        \/ \E s \in Dials :
                             reaper[s] # "none" /\ wire[s] = acceptId[a]
    BY Zenon DEF AcceptInMap
  <2>2. CASE acceptId[a] = id
    BY <1>3, <2>1, <2>2, Zenon
  <2>3. CASE acceptId[a] # id
    BY <1>1, <1>2, <2>1, <2>3, Zenon DEF UniqueInv, AcceptInMap
  <2>. QED
    BY <2>2, <2>3, Zenon
<1>5. ASSUME NEW s \in Dials, InBacklog(s) \/ runStream = s, wire[s] # None
      PROVE  ~\E t \in Dials : reaper[t] # "none" /\ wire[t] = wire[s]
  BY <1>5, SMT, Z3, SMTT(20) DEF UniqueInv, IdsAreUnique, IdInv
<1>6. RunEntryInMap'
  <2>1. SUFFICES ASSUME run = "select"
                 PROVE  \/ \E a \in Accepts : acceptId[a] = wire[runStream]
                        \/ streams'[wire[runStream]] = runEntry
    BY Zenon DEF RunEntryInMap
  <2>2. runStream \in Dials /\ wire[runStream] \in Ids
        /\ wire[runStream] # None
    BY <2>1, Zenon DEF TypeOK, IdInv
  <2>3. CASE wire[runStream] = id
    BY <1>5, <2>2, <2>3, Zenon
  <2>4. CASE wire[runStream] # id
    BY <1>1, <2>1, <2>2, <2>4, Zenon DEF UniqueInv, RunEntryInMap
  <2>. QED
    BY <2>3, <2>4, Zenon
<1>7. AcceptIsReachable'
  <2>1. SUFFICES ASSUME NEW a \in Accepts, NEW s \in Dials,
                        accept[a] = "select", dialId[s] = acceptId[a]
                 PROVE  /\ InBacklog(s) \/ (run = "read" /\ runStream = s) =>
                             streams'[acceptId[a]] = acceptEntry[a]
                        /\ run = "select" /\ runStream = s =>
                             runEntry = acceptEntry[a]
    <3>1. \A s \in Dials : InBacklog(s)' = InBacklog(s)
      BY Zenon DEF InBacklog
    <3>. QED
      BY <3>1, Zenon DEF AcceptIsReachable
  <2>2. ASSUME InBacklog(s) \/ runStream = s, acceptId[a] = id
        PROVE  FALSE
    <3>1. PICK t \in Dials : reaper[t] # "none" /\ wire[t] = id
      BY <1>3, <2>1, <2>2, Zenon
    <3>2. wire[t] = dialId[t] /\ dialId[t] # None
      BY <3>1, Zenon DEF IdInv
    <3>3. t = s
      BY <2>1, <2>2, <3>1, <3>2, Zenon DEF UniqueInv, IdsAreUnique
    <3>. QED
      BY <2>2, <3>1, <3>3, Zenon DEF IdInv
  <2>3. acceptId[a] # id => streams'[acceptId[a]] = streams[acceptId[a]]
    BY <1>1, <1>2, <2>1, Zenon
  <2>. QED
    BY <2>1, <2>2, <2>3, Zenon DEF UniqueInv, AcceptIsReachable
<1>. QED
  BY <1>4, <1>6, <1>7, Zenon

(* An Accept allocates or finds the entry of an id that is its own. *)
LEMMA UniqueAcceptCall ==
  ASSUME Policy = "unique", TypeOK, IdInv, UniqueInv, NEW a \in Accepts,
         NEW id \in Ids, AcceptCall(a, id)
  PROVE  UniqueInv'
<1>1. \A b \in Accepts : acceptId[b] # id
  BY Zenon DEF AcceptCall, MayAccept
<1>2. NoDoubleClose' /\ QueuedIsReaped'
  BY UniqueFrames, Zenon DEF AcceptCall
<1>3. /\ \A j \in Ids : streams[j] # None => streams'[j] = streams[j]
      /\ \A j \in Ids : j # id => streams'[j] = streams[j]
      /\ streams'[id] = acceptEntry'[a]
      /\ acceptId'[a] = id /\ accept'[a] = "select" /\ accept[a] = "idle"
      /\ \A b \in Accepts :
           b # a => /\ accept'[b] = accept[b] /\ acceptId'[b] = acceptId[b]
                    /\ acceptEntry'[b] = acceptEntry[b]
  <2>1. PICK e : e = EntryOf(id, a)
    BY Zenon
  <2>2. streams[id] # None => e = streams[id]
    BY <2>1, Zenon DEF EntryOf
  <2>3. /\ streams' = [streams EXCEPT ![id] = e]
        /\ acceptEntry' = [acceptEntry EXCEPT ![a] = e]
        /\ acceptId' = [acceptId EXCEPT ![a] = id]
        /\ accept' = [accept EXCEPT ![a] = "select"]
        /\ accept[a] = "idle"
    BY <2>1, Zenon DEF AcceptCall, GetStream
  <2>4. /\ streams \in [Ids -> Entries \cup {None}]
        /\ acceptEntry \in [Accepts -> Entries \cup {None}]
        /\ acceptId \in [Accepts -> Ids \cup {None}]
        /\ DOMAIN accept = Accepts
    BY Zenon DEF TypeOK
  <2>. QED
    BY <2>2, <2>3, <2>4, Zenon
<1>4. UNCHANGED <<doneCh, dialVars, reaperVars, runVars>>
  BY Zenon DEF AcceptCall
<1>5. IdsAreUnique'
  BY <1>1, <1>3, <1>4, SMT, Z3, SMTT(20) DEF UniqueInv, IdsAreUnique
<1>6. DoneByAccept'
  BY <1>3, <1>4, SMT, Z3, SMTT(20) DEF UniqueInv, DoneByAccept
<1>7. \A b \in Accepts :
        accept[b] # "idle" => acceptId[b] \in Ids /\ acceptEntry[b] # None
  BY SMT, Z3, SMTT(20) DEF TypeOK, Entries
<1>8. AcceptInMap'
  BY <1>3, <1>4, <1>7, SMT, Z3, SMTT(20) DEF UniqueInv, AcceptInMap
<1>9. RunEntryInMap'
  <2>1. SUFFICES ASSUME run = "select", wire[runStream] # id
                 PROVE  \/ \E b \in Accepts : acceptId'[b] = wire[runStream]
                        \/ streams'[wire[runStream]] = runEntry
    BY <1>3, <1>4, Zenon DEF RunEntryInMap
  <2>2. wire[runStream] \in Ids
    BY <2>1, Zenon DEF TypeOK
  <2>3. CASE streams[wire[runStream]] = runEntry
    BY <1>3, <2>1, <2>2, <2>3, Zenon
  <2>4. ASSUME NEW b \in Accepts, acceptId[b] = wire[runStream]
        PROVE  acceptId'[b] = wire[runStream]
    BY <1>3, <1>7, <2>2, <2>4, SMT, Z3, SMTT(20) DEF IdInv
  <2>. QED
    BY <2>1, <2>3, <2>4, Zenon DEF UniqueInv, RunEntryInMap
<1>10. AcceptIsReachable'
  <2>1. \A s \in Dials : InBacklog(s)' = InBacklog(s)
    BY <1>4, Zenon DEF InBacklog
  <2>2. ASSUME NEW s \in Dials, dialId[s] = id, run = "select", runStream = s
        PROVE  runEntry = acceptEntry'[a]
    <3>1. wire[s] = id
      BY <2>2, Zenon DEF IdInv
    <3>2. streams[id] = runEntry /\ runEntry # None
      BY <1>1, <2>2, <3>1, ZenonT(40) DEF UniqueInv, RunEntryInMap, TypeOK, Entries
    <3>. QED
      BY <1>3, <3>2, Zenon
  <2>3. ASSUME NEW b \in Accepts, b # a, NEW s \in Dials,
               accept[b] = "select", dialId[s] = acceptId[b]
        PROVE  /\ InBacklog(s) \/ (run = "read" /\ runStream = s) =>
                    streams'[acceptId[b]] = acceptEntry[b]
               /\ run = "select" /\ runStream = s => runEntry = acceptEntry[b]
    BY <1>3, <1>7, <2>3, SMT, Z3, SMTT(20) DEF UniqueInv, AcceptIsReachable
  <2>. QED
    BY <1>3, <1>4, <2>1, <2>2, <2>3, SMT, Z3, SMTT(20) DEF AcceptIsReachable
<1>. QED
  BY <1>2, <1>5, <1>6, <1>8, <1>9, <1>10, Zenon DEF UniqueInv

(* An Accept that goes on: what it leaves alone, and that no other Accept   *)
(* comes to wait. *)
LEMMA AcceptGoesOn ==
  ASSUME TypeOK, UniqueInv, NEW a \in Accepts, NEW pc,
         accept' = [accept EXCEPT ![a] = pc], pc # "select",
         UNCHANGED <<acceptId, acceptEntry>>
  PROVE  /\ accept'[a] = pc
         /\ \A b \in Accepts : b # a => accept'[b] = accept[b]
         /\ \A b \in Accepts : accept'[b] = "select" => accept[b] = "select"
         /\ UNCHANGED doneCh
             /\ (accept[a] \in {"ack", "ok", "error"}
                    => pc \in {"ack", "ok", "error"})
               => DoneByAccept'
         /\ UNCHANGED <<streams, reaper, wire>> => AcceptInMap'
         /\ UNCHANGED <<dialId, streams, runVars>> => AcceptIsReachable'
<1>1. /\ accept'[a] = pc
      /\ \A b \in Accepts : b # a => accept'[b] = accept[b]
  BY Zenon DEF TypeOK
<1>2. \A b \in Accepts : accept'[b] = "select" => accept[b] = "select"
  BY <1>1, Zenon
<1>3. UNCHANGED doneCh /\ (accept[a] \in {"ack", "ok", "error"}
                             => pc \in {"ack", "ok", "error"})
        => DoneByAccept'
  BY <1>1, SMT, Z3, SMTT(20) DEF UniqueInv, DoneByAccept
<1>4. UNCHANGED <<streams, reaper, wire>> => AcceptInMap'
  BY <1>2, ZenonT(40) DEF UniqueInv, AcceptInMap
<1>5. UNCHANGED <<dialId, streams, runVars>> => AcceptIsReachable'
  <2>1. UNCHANGED backlog => \A s \in Dials : InBacklog(s)' = InBacklog(s)
    BY Zenon DEF InBacklog
  <2>. QED
    BY <1>2, <2>1, ZenonT(40) DEF UniqueInv, AcceptIsReachable
<1>. QED
  BY <1>1, <1>2, <1>3, <1>4, <1>5, Zenon

(* An Accept that has received its stream closes a doneCh nobody has closed, *)
(* of an entry whose channel is empty. *)
LEMMA ClosesItsOwn ==
  ASSUME TypeOK, SoleOwner, IdInv, UniqueInv, NEW a \in Accepts,
         accept[a] = "close"
  PROVE  acceptEntry[a] \notin doneCh /\ ch[acceptEntry[a]] = None
<1>1. /\ acceptEntry[a] \in Entries /\ acceptId[a] # None
      /\ IdOf(acceptEntry[a]) = acceptId[a]
      /\ conn[a] \in Dials /\ conn[a] # None
  BY Zenon DEF TypeOK, IdInv
<1>2. wire[conn[a]] = acceptId[a] /\ dialId[conn[a]] = acceptId[a]
  BY <1>1, Zenon DEF IdInv
<1>3. acceptEntry[a] \notin doneCh
  <2>1. ASSUME NEW b \in Accepts, acceptEntry[b] = acceptEntry[a],
               accept[b] \in {"ack", "ok", "error"}
        PROVE  FALSE
    BY <1>1, <2>1, SMT, Z3, SMTT(20) DEF UniqueInv, IdsAreUnique, IdInv
  <2>. QED
    BY <2>1, ZenonT(40) DEF UniqueInv, DoneByAccept
<1>4. ASSUME ch[acceptEntry[a]] # None
      PROVE  FALSE
  <2>1. PICK s \in Dials : ch[acceptEntry[a]] = s /\ s # None
    BY <1>1, <1>4, Zenon DEF TypeOK
  <2>2. /\ wire[s] # None /\ wire[s] = acceptId[a] /\ wire[s] = dialId[s]
    BY <1>1, <2>1, SMT, Z3, SMTT(20) DEF IdInv
  <2>3. s # conn[a]
    BY <1>1, <2>1, Zenon DEF SoleOwner
  <2>. QED
    BY <1>1, <1>2, <2>2, <2>3, Zenon DEF UniqueInv, IdsAreUnique
<1>. QED
  BY <1>3, <1>4, Zenon

(* The steps of an Accept that waits or has received. *)
LEMMA UniqueAccept ==
  ASSUME Policy = "unique", TypeOK, SoleOwner, IdInv, UniqueInv,
         NEW a \in Accepts, AcceptStep(a) \/ AcceptExpire(a)
  PROVE  UniqueInv'
<1>1. CASE AcceptAck(a) \/ AcceptAckError(a) \/ AcceptExpire(a)
  <2>1. /\ IdsAreUnique' /\ RunEntryInMap' /\ NoDoubleClose' /\ QueuedIsReaped'
    BY <1>1, UniqueFrames, Zenon DEF AcceptAck, AcceptAckError, AcceptExpire
  <2>2. PICK pc \in {"ok", "error", "expired"} :
          /\ accept' = [accept EXCEPT ![a] = pc]
          /\ accept[a] = "ack" => pc \in {"ok", "error"}
          /\ accept[a] \in {"ack", "select"}
    BY <1>1, Zenon DEF AcceptAck, AcceptAckError, AcceptExpire
  <2>3. UNCHANGED <<acceptId, acceptEntry, doneCh, streams, reaper, wire, dialId,
                    runVars>>
    BY <1>1, Zenon DEF AcceptAck, AcceptAckError, AcceptExpire
  <2>4. /\ pc # "select"
        /\ (accept[a] \in {"ack", "ok", "error"}
              => pc \in {"ack", "ok", "error"})
    BY <2>2, Zenon
  <2>5. DoneByAccept' /\ AcceptInMap' /\ AcceptIsReachable'
    BY <2>2, <2>3, <2>4, AcceptGoesOn, Zenon
  <2>. QED
    BY <2>1, <2>5, Zenon DEF UniqueInv
<1>2. CASE AcceptReceive(a)
  <2>1. IdsAreUnique' /\ RunEntryInMap' /\ NoDoubleClose'
    BY <1>2, UniqueFrames, Zenon DEF AcceptReceive
  <2>2. /\ accept' = [accept EXCEPT ![a] = "close"] /\ accept[a] = "select"
        /\ ch' = [ch EXCEPT ![acceptEntry[a]] = None]
        /\ UNCHANGED <<acceptId, acceptEntry, doneCh, streams, reaper, wire,
                       dialId, runVars, reaperEntry>>
    BY <1>2, Zenon DEF AcceptReceive
  <2>3. /\ "close" # "select"
        /\ (accept[a] \in {"ack", "ok", "error"}
              => "close" \in {"ack", "ok", "error"})
    BY <2>2, Zenon
  <2>4. DoneByAccept' /\ AcceptInMap' /\ AcceptIsReachable'
    BY <2>2, <2>3, AcceptGoesOn, Zenon
  <2>5. \A e \in Entries : ch'[e] # None => ch'[e] = ch[e]
    BY <2>2, Zenon DEF TypeOK
  <2>6. QueuedIsReaped'
    BY <2>2, <2>5, Zenon DEF UniqueInv, QueuedIsReaped
  <2>. QED
    BY <2>1, <2>4, <2>6, Zenon DEF UniqueInv
<1>3. CASE AcceptCloseDone(a)
  <2>1. IdsAreUnique' /\ RunEntryInMap'
    BY <1>3, UniqueFrames, Zenon DEF AcceptCloseDone
  <2>2. /\ accept' = [accept EXCEPT ![a] = "ack"] /\ accept[a] = "close"
        /\ doneCh' = doneCh \cup {acceptEntry[a]}
        /\ panicked' = (acceptEntry[a] \in doneCh)
        /\ UNCHANGED <<acceptId, acceptEntry, ch, streams, reaper, wire,
                       dialId, runVars, reaperEntry>>
    BY <1>3, Zenon DEF AcceptCloseDone
  <2>3. "ack" # "select"
    BY Zenon
  <2>4. /\ AcceptInMap' /\ AcceptIsReachable'
        /\ accept'[a] = "ack"
        /\ \A b \in Accepts : b # a => accept'[b] = accept[b]
    BY <2>2, <2>3, AcceptGoesOn, Zenon
  <2>5. acceptEntry[a] \notin doneCh /\ ch[acceptEntry[a]] = None
    BY <2>2, ClosesItsOwn, Zenon
  <2>6. DoneByAccept'
    BY <2>2, <2>4, SMT, Z3, SMTT(20) DEF UniqueInv, DoneByAccept
  <2>7. NoDoubleClose'
    BY <2>2, <2>5, Zenon DEF NoDoubleClose
  <2>8. QueuedIsReaped'
    BY <2>2, <2>5, Zenon DEF UniqueInv, QueuedIsReaped
  <2>. QED
    BY <2>1, <2>4, <2>6, <2>7, <2>8, Zenon DEF UniqueInv
<1>4. CASE AcceptTimeout(a)
  <2>1. IdsAreUnique' /\ NoDoubleClose' /\ QueuedIsReaped'
    BY <1>4, UniqueFrames, Zenon DEF AcceptTimeout
  <2>2. /\ accept' = [accept EXCEPT ![a] = "timeout"] /\ accept[a] = "expired"
        /\ streams' = [streams EXCEPT ![acceptId[a]] = None]
        /\ UNCHANGED <<acceptId, acceptEntry, doneCh, reaper, dialVars, runVars>>
    BY <1>4, Zenon DEF AcceptTimeout
  <2>3. /\ "timeout" # "select"
        /\ (accept[a] \in {"ack", "ok", "error"}
              => "timeout" \in {"ack", "ok", "error"})
        /\ accept[a] # "select"
    BY <2>2, Zenon
  <2>4. /\ DoneByAccept'
        /\ \A b \in Accepts : accept'[b] = "select" => accept[b] = "select"
    BY <2>2, <2>3, AcceptGoesOn, Zenon
  <2>5. acceptId[a] \in Ids
    BY <2>2, Zenon DEF TypeOK
  <2>6. AcceptInMap' /\ RunEntryInMap' /\ AcceptIsReachable'
    BY <2>2, <2>3, <2>4, <2>5, MapShrinks, Zenon
  <2>. QED
    BY <2>1, <2>4, <2>6, Zenon DEF UniqueInv
<1>. QED
  BY <1>1, <1>2, <1>3, <1>4, Zenon DEF AcceptStep

(* The steps of a timeoutWait. *)
LEMMA UniqueReaper ==
  ASSUME Policy = "unique", TypeOK, IdInv, UniqueInv, NEW s \in Dials,
         ReaperStep(s) \/ ReaperExpire(s)
  PROVE  UniqueInv'
<1>1. CASE ReaperDone(s) \/ ReaperExpire(s)
  <2>1. /\ IdsAreUnique' /\ DoneByAccept' /\ RunEntryInMap' /\ NoDoubleClose'
        /\ AcceptIsReachable'
    BY <1>1, UniqueFrames, Zenon DEF ReaperDone, ReaperExpire
  <2>2. PICK pc \in {"done", "expired"} :
          /\ reaper' = [reaper EXCEPT ![s] = pc]
          /\ pc = "done" => reaperEntry[s] \in doneCh
          /\ reaper[s] = "wait"
    BY <1>1, Zenon DEF ReaperDone, ReaperExpire
  <2>3. UNCHANGED <<accept, acceptId, acceptEntry, streams, wire, ch, doneCh,
                    reaperEntry>>
    BY <1>1, Zenon DEF ReaperDone, ReaperExpire
  <2>4. /\ reaper'[s] = pc
        /\ \A t \in Dials : t # s => reaper'[t] = reaper[t]
    BY <2>2, Zenon DEF TypeOK
  <2>5. \A t \in Dials : reaper[t] # "none" => reaper'[t] # "none"
    BY <2>2, <2>4, Zenon
  <2>6. AcceptInMap'
    BY <2>3, <2>5, ZenonT(40) DEF UniqueInv, AcceptInMap
  <2>7. QueuedIsReaped'
    <3>1. \A e \in Entries : ch[e] # None => ch[e] \in Dials
      BY Zenon DEF TypeOK
    <3>. QED
      BY <2>2, <2>3, <2>4, <3>1, SMT, Z3, SMTT(20)
      DEF UniqueInv, QueuedIsReaped
  <2>. QED
    BY <2>1, <2>6, <2>7, Zenon DEF UniqueInv
<1>2. CASE Reap(s)
  <2>1. IdsAreUnique' /\ DoneByAccept' /\ NoDoubleClose'
    BY <1>2, UniqueFrames, Zenon DEF Reap
  <2>. DEFINE e == reaperEntry[s]
              reaped == IF reaper[s] = "expired" THEN ReapedIn(e) ELSE {}
  <2>2. /\ e \in Entries
        /\ ch' = [ch EXCEPT ![e] = IF @ \in reaped THEN None ELSE @]
        /\ reaper[s] = "expired" /\ ch[e] # None => ch[e] \in reaped
    <3>1. reaperEntry[s] \in Entries
      BY <1>2, Zenon DEF Reap, TypeOK
    <3>. QED
      BY <1>2, <3>1, Zenon DEF Reap, ReapedIn
  <2>. HIDE DEF reaped
  <2>3. /\ streams' = [streams EXCEPT ![wire[s]] = None]
        /\ reaper' = [reaper EXCEPT ![s] = "gone"]
        /\ reaper[s] \in {"done", "expired"}
        /\ UNCHANGED <<accept, acceptId, acceptEntry, doneCh, dialVars, runVars,
                       reaperEntry>>
    BY <1>2, Zenon DEF Reap
  <2>4. /\ reaper'[s] = "gone"
        /\ \A t \in Dials : t # s => reaper'[t] = reaper[t]
    BY <2>3, Zenon DEF TypeOK
  <2>5. \A t \in Dials : reaper[t] # "none" => reaper'[t] # "none"
    BY <2>4, Zenon
  <2>6. reaper[s] # "none" /\ wire[s] \in Ids
    BY <2>3, Zenon DEF TypeOK
  <2>7. AcceptInMap' /\ RunEntryInMap' /\ AcceptIsReachable'
    BY <2>3, <2>5, <2>6, MapShrinks, Zenon
  <2>8. QueuedIsReaped'
    <3>1. ASSUME NEW f \in Entries, ch'[f] # None
          PROVE  /\ ch'[f] = ch[f] /\ ch[f] \in Dials
                 /\ f = e => ch[f] \notin reaped
      <4>1. ch \in [Entries -> Dials \cup {None}]
        BY Zenon DEF TypeOK
      <4>. QED
        BY <2>2, <3>1, <4>1, Zenon
    <3>2. ASSUME NEW f \in Entries, ch'[f] # None
          PROVE  ch[f] # s
      <4>1. CASE reaper[s] = "expired"
        BY <2>2, <3>1, <3>2, <4>1, SMT, Z3, SMTT(20)
        DEF UniqueInv, QueuedIsReaped
      <4>2. CASE reaper[s] = "done"
        BY <3>1, <3>2, <4>2, Zenon DEF UniqueInv, QueuedIsReaped
      <4>. QED
        BY <2>3, <4>1, <4>2, Zenon
    <3>. QED
      BY <2>3, <2>4, <3>1, <3>2, SMT, Z3, SMTT(20)
      DEF UniqueInv, QueuedIsReaped
  <2>. QED
    BY <2>1, <2>7, <2>8, Zenon DEF UniqueInv
<1>. QED
  BY <1>1, <1>2, Zenon DEF ReaperStep

(* An entry serves one stream and one Accept, so its doneCh is closed once, *)
(* after the stream has left its channel. *)
LEMMA UniquePreserved ==
  ASSUME Policy = "unique", TypeOK, SoleOwner, IdInv, UniqueInv, Next
  PROVE  UniqueInv'
<1>1. CASE DialOpens \/ \E s \in Dials : DialStep(s)
  BY <1>1, UniqueDial, Zenon DEF DialOpens
<1>2. CASE AcceptCalls
  BY <1>2, UniqueAcceptCall, Zenon DEF AcceptCalls
<1>3. CASE RunStep
  BY <1>3, UniqueRun, Zenon
<1>4. CASE (\E a \in Accepts : AcceptStep(a) \/ AcceptExpire(a))
           \/ \E s \in Dials : ReaperStep(s) \/ ReaperExpire(s)
  BY <1>4, UniqueAccept, UniqueReaper, Zenon
<1>5. CASE Close
  BY <1>5, UniqueFrames, Zenon DEF Close, UniqueInv
<1>. QED
  BY <1>1, <1>2, <1>3, <1>4, <1>5, Zenon DEF Next, Timer

-----------------------------------------------------------------------------
\* With unique ids (those of NextId before it wraps) an entry serves one
\* stream and one Accept.
THEOREM Unique ==
  ASSUME Policy = "unique"
  PROVE  Spec => []UniqueInv
<1>1. Init => UniqueInv
  BY SMT, Z3, SMTT(20)
  DEF Init, UniqueInv, IdsAreUnique, DoneByAccept, AcceptInMap, RunEntryInMap,
      NoDoubleClose, QueuedIsReaped, AcceptIsReachable, InBacklog, Entries
<1>2. TypeOK /\ SoleOwner /\ IdInv /\ UniqueInv /\ [Next]_vars => UniqueInv'
  <2>1. UniqueInv /\ UNCHANGED vars => UniqueInv'
    BY UniqueFrames, Zenon DEF UniqueInv, vars
  <2>. QED
    BY <2>1, UniquePreserved, Zenon
<1>. QED
  BY <1>1, <1>2, TypeCorrect, Ownership, PTL DEF Spec

\* With unique ids close(p.doneCh) in Accept never panics.
THEOREM NoPanic ==
  ASSUME Policy = "unique"
  PROVE  Spec => []NoDoubleClose
<1>1. UniqueInv => NoDoubleClose
  BY Zenon DEF UniqueInv
<1>. QED
  BY <1>1, Unique, PTL

\* With unique ids a queued stream is always going to be taken by an Accept or
\* closed by its timeoutWait.
THEOREM Reaped ==
  ASSUME Policy = "unique"
  PROVE  Spec => []QueuedIsReaped
<1>1. UniqueInv => QueuedIsReaped
  BY Zenon DEF UniqueInv
<1>. QED
  BY <1>1, Unique, PTL

\* With unique ids a waiting Accept is never cut off from a stream that Run has
\* yet to deliver.
THEOREM Reachable ==
  ASSUME Policy = "unique"
  PROVE  Spec => []AcceptIsReachable
<1>1. UniqueInv => AcceptIsReachable
  BY Zenon DEF UniqueInv
<1>. QED
  BY <1>1, Unique, PTL
-----------------------------------------------------------------------------
(* A Dial and an Accept of one id meet. *)

\* A stream that was opened is somewhere.
Place(s) == \/ InBacklog(s) \/ runStream = s \/ s \in closed
            \/ \E e \in Entries : ch[e] = s
            \/ \E a \in Accepts : conn[a] = s
PlaceInv == \A s \in Dials : dialId[s] # None => Place(s)

\* While the session is open Run runs, no Accept fails, a Dial fails only when
\* its stream is closed, and a stream without an id is one of a Dial that is
\* about to write it.
OpenInv ==
  session =>
    /\ run # "exited" /\ \A a \in Accepts : accept[a] # "error"
    /\ \A s \in Dials : /\ dial[s] = "error" => s \in closed
                        /\ dialId[s] # None /\ wire[s] = None => dial[s] = "open"

\* An Accept that returned a stream has acknowledged it.
AckedInv == \A a \in Accepts : accept[a] = "ok" => ack[conn[a]] = acceptId[a]

\* A queued stream waits where an Accept of its id waits or will look.
QueuedInv ==
  \A e \in Entries : ch[e] # None =>
    /\ \/ streams[wire[ch[e]]] = e
       \/ \E a \in Accepts : acceptId[a] = wire[ch[e]]
    /\ \A a \in Accepts :
         accept[a] = "select" /\ acceptId[a] = wire[ch[e]] => acceptEntry[a] = e

(* AcceptStream takes the first stream of the backlog. *)
LEMMA Headed ==
  ASSUME TypeOK, backlog # <<>>, backlog' = Tail(backlog)
  PROVE  \A t : InBacklog(t) => t = Head(backlog) \/ InBacklog(t)'
<1>1. backlog \in Seq(Dials)
  BY Zenon DEF TypeOK
<1>2. /\ Len(backlog') = Len(backlog) - 1 /\ Head(backlog) = backlog[1]
      /\ Len(backlog) \in Nat
      /\ \A i \in 1..Len(backlog) - 1 : backlog'[i] = backlog[i + 1]
  BY <1>1, SMT, Z3, SMTT(20)
<1>3. ASSUME NEW t, InBacklog(t), t # Head(backlog)
      PROVE  InBacklog(t)'
  <2>1. PICK i \in 1..Len(backlog) : backlog[i] = t
    BY <1>3, Zenon DEF InBacklog
  <2>2. i - 1 \in 1..Len(backlog') /\ backlog'[i - 1] = t
    BY <1>2, <1>3, <2>1, SMT, Z3, SMTT(20)
  <2>. QED
    BY <2>2, Zenon DEF InBacklog
<1>. QED
  BY <1>3, Zenon

(* No step loses a stream. *)
LEMMA PlacePreserved ==
  ASSUME TypeOK, IdInv, PlaceInv, Next
  PROVE  PlaceInv'
<1>1. /\ dialId \in [Dials -> Ids \cup {None}]
      /\ ch \in [Entries -> Dials \cup {None}]
      /\ conn \in [Accepts -> Dials \cup {None}]
  BY Zenon DEF TypeOK
<1>2. ASSUME NEW s \in Dials, NEW id \in Ids, DialOpen(s, id)
      PROVE  PlaceInv'
  <2>1. /\ backlog' = Append(backlog, s) /\ dialId' = [dialId EXCEPT ![s] = id]
        /\ UNCHANGED <<runStream, closed, ch, conn>>
    BY <1>2, Zenon DEF DialOpen
  <2>2. /\ Len(backlog') = Len(backlog) + 1 /\ Len(backlog) \in Nat
        /\ \A i \in 1..Len(backlog) : backlog'[i] = backlog[i]
        /\ backlog'[Len(backlog) + 1] = s
    <3>1. backlog \in Seq(Dials)
      BY Zenon DEF TypeOK
    <3>. QED
      BY <2>1, <3>1, SMT, Z3, SMTT(20)
  <2>3. \A i \in 1..Len(backlog) : i \in 1..Len(backlog')
    BY <2>2, SMT, Z3, SMTT(20)
  <2>4. \A t : InBacklog(t) => InBacklog(t)'
    BY <2>2, <2>3, Zenon DEF InBacklog
  <2>5. InBacklog(s)'
    <3>1. Len(backlog) + 1 \in 1..Len(backlog')
      BY <2>2, SMT, Z3, SMTT(20)
    <3>. QED
      BY <2>2, <3>1, Zenon DEF InBacklog
  <2>6. \A t \in Dials : t # s => dialId'[t] = dialId[t]
    BY <1>1, <2>1, Zenon
  <2>. QED
    BY <2>1, <2>4, <2>5, <2>6, Zenon DEF PlaceInv, Place
<1>3. CASE RunAccept
  <2>1. /\ backlog # <<>> /\ backlog' = Tail(backlog) /\ runStream' = Head(backlog)
        /\ UNCHANGED <<dialId, closed, ch, conn>>
    BY <1>3, Zenon DEF RunAccept
  <2>2. \A t : InBacklog(t) => t = Head(backlog) \/ InBacklog(t)'
    BY <2>1, Headed, Zenon
  <2>3. runStream \notin Dials
    BY <1>3, Zenon DEF RunAccept, IdInv
  <2>. QED
    BY <2>1, <2>2, <2>3, Zenon DEF PlaceInv, Place
<1>4. CASE RunReadError \/ RunDuplicate
  <2>1. /\ UNCHANGED <<dialId, backlog, ch, conn>>
        /\ closed' = closed \cup {runStream}
    BY <1>4, Zenon DEF RunReadError, RunDuplicate, RunNext
  <2>2. \A t : InBacklog(t) => InBacklog(t)'
    BY <2>1, Zenon DEF InBacklog
  <2>. QED
    BY <2>1, <2>2, Zenon DEF PlaceInv, Place
<1>5. CASE RunQueue
  <2>1. /\ UNCHANGED <<dialId, backlog, closed, conn>> /\ runEntry \in Entries
        /\ ch[runEntry] = None /\ ch' = [ch EXCEPT ![runEntry] = runStream]
    BY <1>5, Zenon DEF RunQueue, RunNext, TypeOK
  <2>2. \A t : InBacklog(t) => InBacklog(t)'
    BY <2>1, Zenon DEF InBacklog
  <2>3. \A e \in Entries : ch'[e] = IF e = runEntry THEN runStream ELSE ch[e]
    BY <1>1, <2>1, Zenon
  <2>4. None \notin Dials
    BY Zenon
  <2>. QED
    BY <2>1, <2>2, <2>3, <2>4, Zenon DEF PlaceInv, Place
<1>6. ASSUME NEW a \in Accepts, AcceptReceive(a)
      PROVE  PlaceInv'
  <2>0. conn[a] = None
    BY <1>6, Zenon DEF AcceptReceive, IdInv
  <2>1. /\ UNCHANGED <<dialId, backlog, closed, runStream>>
        /\ acceptEntry[a] \in Entries /\ conn[a] \notin Dials
        /\ conn' = [conn EXCEPT ![a] = ch[acceptEntry[a]]]
        /\ ch' = [ch EXCEPT ![acceptEntry[a]] = None]
    BY <1>6, <2>0, Zenon DEF AcceptReceive, TypeOK
  <2>2. \A t : InBacklog(t) => InBacklog(t)'
    BY <2>1, Zenon DEF InBacklog
  <2>3. /\ \A e \in Entries : ch'[e] = IF e = acceptEntry[a] THEN None ELSE ch[e]
        /\ \A b \in Accepts : conn'[b] = IF b = a THEN ch[acceptEntry[a]] ELSE conn[b]
    BY <1>1, <2>1, Zenon
  <2>. QED
    BY <2>1, <2>2, <2>3, ZenonT(40) DEF PlaceInv, Place
<1>7. ASSUME NEW s \in Dials, Reap(s)
      PROVE  PlaceInv'
  <2>1. UNCHANGED <<dialId, backlog, runStream, conn>> /\ closed \subseteq closed'
    BY <1>7, Zenon DEF Reap
  <2>2. \A t : InBacklog(t) => InBacklog(t)'
    BY <2>1, Zenon DEF InBacklog
  <2>3. reaperEntry[s] \in Entries
    BY <1>7, Zenon DEF Reap, TypeOK
  <2>4. \A e \in Entries : ch'[e] = ch[e] \/ ch[e] \in closed'
    BY <1>1, <1>7, <2>3, Zenon DEF Reap, ReapedIn
  <2>. QED
    BY <2>1, <2>2, <2>4, Zenon DEF PlaceInv, Place
<1>8. ASSUME UNCHANGED <<dialId, backlog, runStream, ch, conn>>,
             closed \subseteq closed'
      PROVE  PlaceInv'
  <2>1. \A t : InBacklog(t) => InBacklog(t)'
    BY <1>8, Zenon DEF InBacklog
  <2>. QED
    BY <1>8, <2>1, Zenon DEF PlaceInv, Place
<1>9. ASSUME NEW s \in Dials, DialStep(s) \/ ReaperDone(s) \/ ReaperExpire(s)
      PROVE  PlaceInv'
  BY <1>8, <1>9, Zenon DEF DialStep, DialFails, DialWrite, DialReadAck,
     DialReadError, ReaperDone, ReaperExpire
<1>10. CASE RunExit \/ RunRead \/ Close
  BY <1>8, <1>10, Zenon DEF RunExit, RunRead, Close
<1>11. ASSUME NEW a \in Accepts, \/ \E id \in Ids : AcceptCall(a, id)
                                 \/ AcceptCloseDone(a) \/ AcceptAck(a)
                                 \/ AcceptAckError(a) \/ AcceptTimeout(a)
                                 \/ AcceptExpire(a)
       PROVE  PlaceInv'
  BY <1>8, <1>11, Zenon DEF AcceptCall, AcceptCloseDone, AcceptAck,
     AcceptAckError, AcceptTimeout, AcceptExpire
<1>. QED
  BY <1>2, <1>3, <1>4, <1>5, <1>6, <1>7, <1>9, <1>10, <1>11, Zenon
  DEF Next, DialOpens, AcceptCalls, RunStep, AcceptStep, ReaperStep, Timer

(* While the session is open nothing fails but for a closed stream. *)
LEMMA OpenPreserved ==
  ASSUME TypeOK, IdInv, AckInv, OpenInv, Next
  PROVE  OpenInv'
<1>1. /\ dial \in [Dials -> {"idle", "open", "read", "ok", "error"}]
      /\ dialId \in [Dials -> Ids \cup {None}]
      /\ wire \in [Dials -> Ids \cup {None}]
      /\ accept \in [Accepts -> {"idle", "select", "close", "ack", "expired",
                                 "ok", "error", "timeout"}]
  BY Zenon DEF TypeOK
<1>2. ASSUME ~session'
      PROVE  OpenInv'
  BY <1>2, Zenon DEF OpenInv
<1>3. ASSUME UNCHANGED <<session, run, accept, closed>>,
             \A s \in Dials :
               \/ dial'[s] = dial[s] /\ dialId'[s] = dialId[s] /\ wire'[s] = wire[s]
               \/ dial'[s] = "open"
               \/ wire'[s] # None /\ (dial'[s] = "error" => s \in closed)
      PROVE  OpenInv'
  BY <1>3, Zenon DEF OpenInv
<1>4. ASSUME UNCHANGED <<session, dialVars>>, closed \subseteq closed',
             run' \in {run, "accept", "read", "select"},
             \A a \in Accepts : accept'[a] \in {accept[a], "select", "close", "ack",
                                                "ok", "expired", "timeout"}
      PROVE  OpenInv'
  <2>1. session' => run' # "exited"
    BY <1>4, Zenon DEF OpenInv
  <2>2. session' => \A a \in Accepts : accept'[a] # "error"
    BY <1>4, Zenon DEF OpenInv
  <2>. QED
    BY <1>4, <2>1, <2>2, Zenon DEF OpenInv
<1>5. ASSUME NEW s \in Dials, NEW id \in Ids, DialOpen(s, id)
      PROVE  OpenInv'
  <2>1. /\ UNCHANGED <<session, run, accept, closed, wire>>
        /\ \A t \in Dials : t # s => dial'[t] = dial[t] /\ dialId'[t] = dialId[t]
        /\ dial'[s] = "open"
    BY <1>1, <1>5, Zenon DEF DialOpen
  <2>. QED
    BY <1>3, <2>1, Zenon
<1>6. ASSUME NEW s \in Dials, DialWrite(s)
      PROVE  OpenInv'
  <2>1. /\ UNCHANGED <<session, run, accept, closed, dialId>>
        /\ \A t \in Dials : t # s => dial'[t] = dial[t] /\ wire'[t] = wire[t]
        /\ dial'[s] = "read" /\ wire'[s] = dialId[s]
    BY <1>1, <1>6, Zenon DEF DialWrite
  <2>2. dialId[s] # None
    BY <1>6, SMT, Z3, SMTT(20) DEF DialWrite, TypeOK
  <2>3. dial'[s] # "error"
    BY <2>1, Zenon
  <2>. QED
    BY <1>3, <2>1, <2>2, <2>3, Zenon
<1>7. ASSUME NEW s \in Dials, DialReadAck(s)
      PROVE  OpenInv'
  <2>1. PICK a \in Accepts : conn[a] = s /\ acceptId[a] = ack[s]
    BY <1>7, Zenon DEF DialReadAck, AckInv
  <2>2. wire[s] # None /\ ack[s] = dialId[s]
    BY <1>7, <2>1, ZenonT(40) DEF DialReadAck, IdInv
  <2>3. /\ UNCHANGED <<session, run, accept, closed, dialId, wire>>
        /\ \A t \in Dials : t # s => dial'[t] = dial[t]
        /\ dial'[s] = "ok"
    BY <1>1, <1>7, <2>2, Zenon DEF DialReadAck
  <2>4. dial'[s] # "error"
    BY <2>3, Zenon
  <2>. QED
    BY <1>3, <2>2, <2>3, <2>4, Zenon
<1>8. ASSUME NEW s \in Dials, DialReadError(s), session
      PROVE  OpenInv'
  <2>1. /\ UNCHANGED <<session, run, accept, closed, dialId, wire>>
        /\ \A t \in Dials : t # s => dial'[t] = dial[t]
        /\ s \in closed
    BY <1>1, <1>8, Zenon DEF DialReadError
  <2>2. wire[s] # None
    BY <1>8, Zenon DEF DialReadError, IdInv
  <2>. QED
    BY <1>3, <2>1, <2>2, Zenon
<1>9. CASE \E s \in Dials : DialStep(s)
  <2>1. ASSUME NEW s \in Dials, DialFails(s) \/ (DialReadError(s) /\ ~session)
        PROVE  OpenInv'
    BY <1>2, <2>1, Zenon DEF DialFails, DialReadError
  <2>. QED
    BY <1>6, <1>7, <1>8, <1>9, <2>1, Zenon DEF DialStep
<1>10. CASE RunStep
  BY <1>2, <1>4, <1>10, Zenon DEF RunStep, RunAccept, RunExit, RunRead,
     RunReadError, RunQueue, RunDuplicate, RunNext
<1>11. ASSUME NEW a \in Accepts, \/ \E id \in Ids : AcceptCall(a, id)
                                 \/ AcceptStep(a) \/ AcceptExpire(a)
       PROVE  OpenInv'
  <2>1. CASE AcceptAckError(a)
    BY <1>2, <2>1, Zenon DEF AcceptAckError
  <2>2. CASE ~AcceptAckError(a)
    <3>1. /\ UNCHANGED <<session, dialVars, closed, run>>
          /\ \E v \in {"select", "close", "ack", "ok", "expired", "timeout"} :
               accept' = [accept EXCEPT ![a] = v]
      BY <1>11, <2>2, Zenon DEF AcceptCall, AcceptStep, AcceptReceive,
         AcceptCloseDone, AcceptAck, AcceptTimeout, AcceptExpire
    <3>2. \A b \in Accepts : accept'[b] \in {accept[b], "select", "close", "ack",
                                             "ok", "expired", "timeout"}
      BY <1>1, <3>1, Zenon
    <3>. QED
      BY <1>4, <3>1, <3>2, Zenon
  <2>. QED
    BY <2>1, <2>2, Zenon
<1>12. ASSUME NEW s \in Dials, ReaperStep(s) \/ ReaperExpire(s)
       PROVE  OpenInv'
  <2>1. UNCHANGED <<session, dialVars, run, accept>> /\ closed \subseteq closed'
    BY <1>12, Zenon DEF ReaperStep, ReaperDone, Reap, ReaperExpire
  <2>. QED
    BY <1>4, <2>1, Zenon
<1>13. CASE Close
  BY <1>2, <1>13, Zenon DEF Close
<1>. QED
  BY <1>5, <1>9, <1>10, <1>11, <1>12, <1>13, Zenon DEF Next, DialOpens,
     AcceptCalls, Timer

(* An ack stays as it was written, since one Accept holds the stream. *)
LEMMA AckedPreserved ==
  ASSUME TypeOK, SoleOwner, IdInv, AckedInv, Next
  PROVE  AckedInv'
<1>1. /\ accept \in [Accepts -> {"idle", "select", "close", "ack", "expired",
                                 "ok", "error", "timeout"}]
      /\ ack \in [Dials -> Ids \cup {None}]
      /\ conn \in [Accepts -> Dials \cup {None}]
      /\ acceptId \in [Accepts -> Ids \cup {None}]
  BY Zenon DEF TypeOK
<1>2. ASSUME NEW a \in Accepts, AcceptAck(a)
      PROVE  AckedInv'
  <2>1. conn[a] \in Dials
    BY <1>2, Zenon DEF AcceptAck, TypeOK
  <2>2. \A b \in Accepts : conn[b] = conn[a] => b = a
    BY <2>1, Zenon DEF SoleOwner
  <2>3. /\ UNCHANGED <<conn, acceptId>> /\ ack'[conn[a]] = acceptId[a]
        /\ \A s \in Dials : s # conn[a] => ack'[s] = ack[s]
        /\ \A b \in Accepts : b # a => accept'[b] = accept[b]
    BY <1>1, <1>2, <2>1, Zenon DEF AcceptAck
  <2>4. \A b \in Accepts : accept[b] = "ok" => conn[b] \in Dials
    BY Zenon DEF TypeOK
  <2>. QED
    BY <2>2, <2>3, <2>4, Zenon DEF AckedInv
<1>3. ASSUME UNCHANGED ack, NEW a \in Accepts, accept'[a] # "ok",
             \A b \in Accepts : b # a =>
               /\ accept'[b] = accept[b] /\ conn'[b] = conn[b]
               /\ acceptId'[b] = acceptId[b]
      PROVE  AckedInv'
  BY <1>3, Zenon DEF AckedInv
<1>4. ASSUME NEW a \in Accepts, \/ \E id \in Ids : AcceptCall(a, id)
                                \/ AcceptReceive(a) \/ AcceptCloseDone(a)
                                \/ AcceptAckError(a) \/ AcceptTimeout(a)
                                \/ AcceptExpire(a)
      PROVE  AckedInv'
  <2>1. /\ UNCHANGED ack
        /\ \A b \in Accepts : b # a => conn'[b] = conn[b] /\ acceptId'[b] = acceptId[b]
        /\ \E v \in {"select", "close", "ack", "error", "expired", "timeout"} :
             accept' = [accept EXCEPT ![a] = v]
    BY <1>1, <1>4, Zenon DEF AcceptCall, AcceptReceive, AcceptCloseDone,
       AcceptAckError, AcceptTimeout, AcceptExpire
  <2>2. /\ accept'[a] # "ok"
        /\ \A b \in Accepts : b # a => accept'[b] = accept[b]
    BY <1>1, <2>1, Zenon
  <2>. QED
    BY <1>3, <2>1, <2>2, Zenon
<1>5. ASSUME UNCHANGED <<ack, accept, conn, acceptId>>
      PROVE  AckedInv'
  BY <1>5, Zenon DEF AckedInv
<1>6. CASE DialOpens \/ RunStep \/ Close
  BY <1>5, <1>6, Zenon DEF DialOpens, DialOpen, RunStep, RunAccept, RunExit,
     RunRead, RunReadError, RunQueue, RunDuplicate, RunNext, Close
<1>7. ASSUME NEW s \in Dials, DialStep(s) \/ ReaperStep(s) \/ ReaperExpire(s)
      PROVE  AckedInv'
  BY <1>5, <1>7, Zenon DEF DialStep, DialFails, DialWrite, DialReadAck,
     DialReadError, ReaperStep, ReaperDone, Reap, ReaperExpire
<1>. QED
  BY <1>2, <1>4, <1>6, <1>7, Zenon DEF Next, AcceptCalls, AcceptStep, Timer

(* A queued stream stays where an Accept of its id waits or will look. *)
LEMMA QueuedPreserved ==
  ASSUME Policy = "unique", TypeOK, IdInv, UniqueInv, QueuedInv, Next
  PROVE  QueuedInv'
<1>1. /\ wire \in [Dials -> Ids \cup {None}]
      /\ streams \in [Ids -> Entries \cup {None}]
      /\ ch \in [Entries -> Dials \cup {None}]
      /\ accept \in [Accepts -> {"idle", "select", "close", "ack", "expired",
                                 "ok", "error", "timeout"}]
      /\ acceptId \in [Accepts -> Ids \cup {None}]
      /\ acceptEntry \in [Accepts -> Entries \cup {None}]
      /\ Accepts \subseteq Entries /\ None \notin Entries
  BY Zenon DEF TypeOK, Entries
<1>2. ASSUME NEW e \in Entries, ch[e] # None
      PROVE  /\ ch[e] \in Dials /\ wire[ch[e]] \in Ids
             /\ wire[ch[e]] = dialId[ch[e]]
             /\ reaper[ch[e]] # "none" /\ reaperEntry[ch[e]] = e
  <2>1. ch[e] \in Dials
    BY <1>1, <1>2, Zenon
  <2>2. reaper[ch[e]] # "none" /\ reaperEntry[ch[e]] = e
    BY <1>2, Zenon DEF IdInv
  <2>3. wire[ch[e]] \in Ids
    BY <2>1, <2>2, Zenon DEF TypeOK
  <2>4. wire[ch[e]] # None => wire[ch[e]] = dialId[ch[e]]
    BY <2>1, Zenon DEF IdInv
  <2>. QED
    BY <2>1, <2>2, <2>3, <2>4, Zenon
<1>3. ASSUME \A e \in Entries : ch'[e] # None => ch'[e] = ch[e],
             \A e \in Entries : ch'[e] # None => wire'[ch[e]] = wire[ch[e]],
             UNCHANGED <<acceptId, acceptEntry>>,
             \A a \in Accepts : accept'[a] = "select" => accept[a] = "select",
             \A e \in Entries :
               ch'[e] # None /\ streams[wire[ch[e]]] = e =>
                 \/ streams'[wire[ch[e]]] = e
                 \/ \E a \in Accepts : acceptId[a] = wire[ch[e]]
      PROVE  QueuedInv'
  <2>. SUFFICES ASSUME NEW e \in Entries, ch'[e] # None
                PROVE  /\ \/ streams'[wire'[ch'[e]]] = e
                          \/ \E a \in Accepts : acceptId'[a] = wire'[ch'[e]]
                       /\ \A a \in Accepts :
                            accept'[a] = "select" /\ acceptId'[a] = wire'[ch'[e]]
                              => acceptEntry'[a] = e
    BY Zenon DEF QueuedInv
  <2>1. ch'[e] = ch[e] /\ ch[e] # None /\ wire'[ch[e]] = wire[ch[e]]
    BY <1>3, Zenon
  <2>2. /\ \/ streams[wire[ch[e]]] = e
           \/ \E a \in Accepts : acceptId[a] = wire[ch[e]]
        /\ \A a \in Accepts :
             accept[a] = "select" /\ acceptId[a] = wire[ch[e]] => acceptEntry[a] = e
    BY <2>1, Zenon DEF QueuedInv
  <2>. QED
    BY <1>3, <2>1, <2>2, Zenon
<1>4. ASSUME UNCHANGED <<wire, streams, ch, acceptId, acceptEntry, accept>>
      PROVE  QueuedInv'
  BY <1>4, Zenon DEF QueuedInv
<1>5. ASSUME NEW s \in Dials, DialWrite(s)
      PROVE  QueuedInv'
  <2>1. /\ UNCHANGED <<streams, ch, acceptId, acceptEntry, accept>>
        /\ \A t \in Dials : wire'[t] = IF t = s THEN dialId[s] ELSE wire[t]
    BY <1>1, <1>5, Zenon DEF DialWrite
  <2>2. \A e \in Entries : ch'[e] # None => wire'[ch[e]] = wire[ch[e]]
    <3>1. \A e \in Entries : ch'[e] # None => ch[e] \in Dials
                                            /\ wire[ch[e]] = dialId[ch[e]]
      BY <1>2, <2>1, Zenon
    <3>. QED
      BY <2>1, <3>1, Zenon
  <2>. QED
    BY <1>3, <2>1, <2>2, Zenon
<1>6. CASE RunRead
  <2>1. /\ UNCHANGED <<wire, ch, acceptId, acceptEntry, accept>>
        /\ streams' = [streams EXCEPT ![wire[runStream]] =
                         EntryOf(wire[runStream], runStream)]
    BY <1>6, Zenon DEF RunRead, GetStream
  <2>2. \A id \in Ids : streams[id] # None => streams'[id] = streams[id]
    BY <1>1, <2>1, Zenon DEF EntryOf
  <2>3. \A e \in Entries : ch'[e] # None /\ streams[wire[ch[e]]] = e =>
                             streams'[wire[ch[e]]] = e
    <3>1. \A e \in Entries : ch'[e] # None => wire[ch[e]] \in Ids /\ e # None
      BY <1>1, <1>2, <2>1, Zenon
    <3>. QED
      BY <2>2, <3>1, Zenon
  <2>. QED
    BY <1>3, <2>1, <2>3, Zenon
<1>7. CASE RunQueue
  <2>1. /\ UNCHANGED <<wire, streams, acceptId, acceptEntry, accept>>
        /\ run = "select" /\ runEntry \in Entries /\ runStream \in Dials
        /\ \A e \in Entries : ch'[e] = IF e = runEntry THEN runStream ELSE ch[e]
    BY <1>1, <1>7, Zenon DEF RunQueue, TypeOK
  <2>2. wire[runStream] = dialId[runStream]
    BY <2>1, Zenon DEF IdInv
  <2>3. \/ streams[wire[runStream]] = runEntry
        \/ \E a \in Accepts : acceptId[a] = wire[runStream]
    BY <2>1, Zenon DEF UniqueInv, RunEntryInMap
  <2>4. \A a \in Accepts : accept[a] = "select" /\ acceptId[a] = wire[runStream] =>
                             acceptEntry[a] = runEntry
    BY <2>1, <2>2, Zenon DEF UniqueInv, AcceptIsReachable
  <2>. QED
    <3>. SUFFICES ASSUME NEW e \in Entries, ch'[e] # None
                  PROVE  /\ \/ streams[wire[ch'[e]]] = e
                            \/ \E a \in Accepts : acceptId[a] = wire[ch'[e]]
                         /\ \A a \in Accepts :
                              accept[a] = "select" /\ acceptId[a] = wire[ch'[e]]
                                => acceptEntry[a] = e
      BY <2>1, Zenon DEF QueuedInv
    <3>1. CASE e = runEntry
      BY <2>1, <2>3, <2>4, <3>1, Zenon
    <3>2. CASE e # runEntry
      <4>1. ch'[e] = ch[e]
        BY <2>1, <3>2, Zenon
      <4>2. /\ \/ streams[wire[ch[e]]] = e
               \/ \E a \in Accepts : acceptId[a] = wire[ch[e]]
            /\ \A a \in Accepts :
                 accept[a] = "select" /\ acceptId[a] = wire[ch[e]]
                   => acceptEntry[a] = e
        BY <4>1, Zenon DEF QueuedInv
      <4>. QED
        BY <4>1, <4>2, Zenon
    <3>. QED
      BY <3>1, <3>2, Zenon
<1>8. ASSUME NEW a \in Accepts, NEW id \in Ids, AcceptCall(a, id)
      PROVE  QueuedInv'
  <2>1. /\ UNCHANGED <<wire, ch>>
        /\ \A i \in Ids : streams'[i] = IF i = id THEN EntryOf(id, a) ELSE streams[i]
        /\ \A b \in Accepts : acceptId'[b] = IF b = a THEN id ELSE acceptId[b]
        /\ \A b \in Accepts :
             acceptEntry'[b] = IF b = a THEN EntryOf(id, a) ELSE acceptEntry[b]
        /\ \A b \in Accepts : b # a => accept'[b] = accept[b]
    BY <1>1, <1>8, Zenon DEF AcceptCall, GetStream
  <2>2. \A b \in Accepts : acceptId[b] # id
    BY <1>8, Zenon DEF AcceptCall, MayAccept
  <2>. SUFFICES ASSUME NEW e \in Entries, ch[e] # None
                PROVE  /\ \/ streams'[wire[ch[e]]] = e
                          \/ \E b \in Accepts : acceptId'[b] = wire[ch[e]]
                       /\ \A b \in Accepts :
                            accept'[b] = "select" /\ acceptId'[b] = wire[ch[e]]
                              => acceptEntry'[b] = e
    BY <2>1, ZenonT(40) DEF QueuedInv
  <2>3. /\ \/ streams[wire[ch[e]]] = e
           \/ \E b \in Accepts : acceptId[b] = wire[ch[e]]
        /\ \A b \in Accepts :
             accept[b] = "select" /\ acceptId[b] = wire[ch[e]] => acceptEntry[b] = e
    BY Zenon DEF QueuedInv
  <2>4. wire[ch[e]] \in Ids
    BY <1>2, Zenon
  <2>5. CASE wire[ch[e]] = id
    <3>1. EntryOf(id, a) = e
      BY <1>1, <2>2, <2>3, <2>5, Zenon DEF EntryOf
    <3>. QED
      BY <2>1, <2>2, <2>5, <3>1, Zenon
  <2>6. CASE wire[ch[e]] # id
    <3>1. /\ streams'[wire[ch[e]]] = streams[wire[ch[e]]]
          /\ \A b \in Accepts : acceptId'[b] = wire[ch[e]] =>
               b # a /\ acceptId[b] = wire[ch[e]]
          /\ \A b \in Accepts : acceptId[b] = wire[ch[e]] =>
               acceptId'[b] = wire[ch[e]] \/ b = a
      BY <2>1, <2>4, <2>6, Zenon
    <3>2. acceptId[a] = None
      BY <1>8, Zenon DEF AcceptCall, IdInv
    <3>. QED
      BY <2>1, <2>3, <2>4, <3>1, <3>2, Zenon
  <2>. QED
    BY <2>5, <2>6, Zenon
<1>9. ASSUME NEW a \in Accepts, AcceptReceive(a)
      PROVE  QueuedInv'
  <2>1. /\ UNCHANGED <<wire, streams, acceptId, acceptEntry>>
        /\ \A e \in Entries : ch'[e] = IF e = acceptEntry[a] THEN None ELSE ch[e]
        /\ \A b \in Accepts : b # a => accept'[b] = accept[b]
        /\ accept[a] = "select"
    BY <1>1, <1>9, Zenon DEF AcceptReceive
  <2>. QED
    BY <1>3, <2>1, Zenon
<1>10. ASSUME NEW a \in Accepts, AcceptTimeout(a)
       PROVE  QueuedInv'
  <2>1. /\ UNCHANGED <<wire, ch, acceptId, acceptEntry>> /\ acceptId[a] \in Ids
        /\ \A i \in Ids : i # acceptId[a] => streams'[i] = streams[i]
        /\ \A b \in Accepts : b # a => accept'[b] = accept[b]
        /\ accept'[a] = "timeout"
    BY <1>1, <1>10, Zenon DEF AcceptTimeout, TypeOK
  <2>2. \A b \in Accepts : accept'[b] = "select" => accept[b] = "select"
    BY <2>1, Zenon
  <2>3. \A e \in Entries : ch'[e] # None /\ streams[wire[ch[e]]] = e =>
          \/ streams'[wire[ch[e]]] = e
          \/ \E b \in Accepts : acceptId[b] = wire[ch[e]]
    BY <1>2, <2>1, Zenon
  <2>. QED
    BY <1>3, <2>1, <2>2, <2>3, Zenon
<1>11. ASSUME NEW a \in Accepts, \/ AcceptCloseDone(a) \/ AcceptAck(a)
                                 \/ AcceptAckError(a) \/ AcceptExpire(a)
       PROVE  QueuedInv'
  <2>1. /\ UNCHANGED <<wire, streams, ch, acceptId, acceptEntry>>
        /\ \E v \in {"ack", "ok", "error", "expired"} :
             accept' = [accept EXCEPT ![a] = v]
    BY <1>11, Zenon DEF AcceptCloseDone, AcceptAck, AcceptAckError, AcceptExpire
  <2>2. \A b \in Accepts : accept'[b] = "select" => accept[b] = "select"
    BY <1>1, <2>1, Zenon
  <2>. QED
    BY <1>3, <2>1, <2>2, Zenon
<1>12. ASSUME NEW t \in Dials, Reap(t)
       PROVE  QueuedInv'
  <2>1. /\ UNCHANGED <<wire, acceptId, acceptEntry, accept>>
        /\ \A i \in Ids : i # wire[t] => streams'[i] = streams[i]
        /\ reaperEntry[t] \in Entries /\ wire[t] \in Ids
        /\ reaper[t] \in {"done", "expired"}
    BY <1>1, <1>12, Zenon DEF Reap, TypeOK
  <2>2. \A e \in Entries : ch'[e] # None => ch'[e] = ch[e]
    BY <1>1, <1>12, <2>1, Zenon DEF Reap, ReapedIn
  <2>3. reaper[t] = "expired" => ch'[reaperEntry[t]] = None
    BY <1>1, <1>12, <2>1, Zenon DEF Reap, ReapedIn
  <2>4. ASSUME NEW e \in Entries, ch'[e] # None
        PROVE  wire[ch[e]] # wire[t]
    <3>1. SUFFICES ASSUME wire[ch[e]] = wire[t] PROVE FALSE
      BY Zenon
    <3>2. ch[e] # None /\ ch[e] \in Dials /\ wire[ch[e]] = dialId[ch[e]]
      BY <1>2, <2>2, <2>4, Zenon
    <3>3. wire[t] = dialId[t] /\ dialId[t] # None
      BY <2>1, Zenon DEF IdInv
    <3>4. ch[e] = t
      BY <3>1, <3>2, <3>3, Zenon DEF UniqueInv, IdsAreUnique
    <3>5. reaperEntry[t] = e /\ e \notin doneCh
      BY <1>2, <3>2, <3>4, Zenon DEF UniqueInv, QueuedIsReaped
    <3>6. reaper[t] # "done"
      BY <3>5, Zenon DEF IdInv
    <3>. QED
      BY <2>1, <2>3, <2>4, <3>5, <3>6, Zenon
  <2>5. \A e \in Entries : ch'[e] # None => streams'[wire[ch[e]]] = streams[wire[ch[e]]]
    BY <1>2, <2>1, <2>2, <2>4, Zenon
  <2>. QED
    BY <1>3, <2>1, <2>2, <2>5, Zenon
<1>13. CASE DialOpens \/ RunAccept \/ RunExit \/ RunReadError \/ RunDuplicate \/ Close
  BY <1>4, <1>13, Zenon DEF DialOpens, DialOpen, RunAccept, RunExit,
     RunReadError, RunDuplicate, RunNext, Close
<1>14. ASSUME NEW s \in Dials, \/ DialFails(s) \/ DialReadAck(s) \/ DialReadError(s)
                               \/ ReaperDone(s) \/ ReaperExpire(s)
       PROVE  QueuedInv'
  BY <1>4, <1>14, Zenon DEF DialFails, DialReadAck, DialReadError, ReaperDone,
     ReaperExpire
<1>. QED
  BY <1>5, <1>6, <1>7, <1>8, <1>9, <1>10, <1>11, <1>12, <1>13, <1>14, Zenon
  DEF Next, AcceptCalls, DialStep, RunStep, AcceptStep, ReaperStep, Timer

\* With unique ids a Dial and an Accept of one id meet, however Run, getStream
\* and the timeoutWaits interleave: when only timers are left, the two are
\* connected, or the Accept has timed out or the stream was closed.
THEOREM DialsMeet ==
  ASSUME Policy = "unique"
  PROVE  Spec => []Meet
<1>. DEFINE MeetInv == PlaceInv /\ OpenInv /\ AckedInv /\ QueuedInv
<1>1. Init => MeetInv
  <2>1. Init => PlaceInv /\ OpenInv
    BY Zenon DEF Init, PlaceInv, OpenInv
  <2>2. Init => AckedInv /\ QueuedInv
    BY SMT, Z3, SMTT(20) DEF Init, AckedInv, QueuedInv
  <2>. QED
    BY <2>1, <2>2, Zenon
<1>2. /\ TypeOK /\ SoleOwner /\ IdInv /\ AckInv /\ UniqueInv /\ MeetInv
      /\ [Next]_vars
      => MeetInv'
  <2>1. UNCHANGED vars /\ PlaceInv => PlaceInv'
    BY Zenon DEF PlaceInv, Place, InBacklog, vars
  <2>2. UNCHANGED vars /\ OpenInv => OpenInv'
    BY Zenon DEF OpenInv, vars
  <2>3. UNCHANGED vars /\ AckedInv => AckedInv'
    BY Zenon DEF AckedInv, vars
  <2>4. UNCHANGED vars /\ QueuedInv => QueuedInv'
    <3>. SUFFICES ASSUME UNCHANGED vars, QueuedInv PROVE QueuedInv'
      BY Zenon
    <3>1. UNCHANGED <<wire, streams, ch, acceptId, acceptEntry, accept>>
      BY Zenon DEF vars
    <3>. QED
      BY <3>1, Zenon DEF QueuedInv
  <2>. QED
    BY <2>1, <2>2, <2>3, <2>4, PlacePreserved, OpenPreserved, AckedPreserved,
       QueuedPreserved, Zenon
<1>3. TypeOK /\ SoleOwner /\ IdInv /\ UniqueInv /\ MeetInv => Meet
  <2>. SUFFICES ASSUME TypeOK, SoleOwner, IdInv, UniqueInv, MeetInv, session,
                       OnlyTimersLeft, NEW s \in Dials, NEW a \in Accepts,
                       dialId[s] # None, dialId[s] = acceptId[a],
                       accept[a] # "timeout", s \notin closed
                PROVE  dial[s] = "ok" /\ accept[a] = "ok" /\ conn[a] = s
    BY Zenon DEF Meet
  <2>1. /\ RunWaits /\ \A t \in Dials : DialWaits(t)
        /\ \A b \in Accepts : AcceptWaits(b)
    BY Zenon DEF OnlyTimersLeft, UniqueInv, NoDoubleClose
  <2>2. \A t \in Dials : dialId[t] # None => wire[t] # None
    BY <2>1, Zenon DEF OpenInv, DialWaits
  <2>3. run # "read"
    <3>1. SUFFICES ASSUME run = "read" PROVE FALSE
      BY Zenon
    <3>2. runStream \in Dials /\ wire[runStream] = None
      BY <2>1, <3>1, Zenon DEF RunWaits, TypeOK
    <3>3. dialId[runStream] # None
      BY <3>2, Zenon DEF IdInv
    <3>. QED
      BY <2>2, <3>2, <3>3, Zenon
  <2>4. run = "accept"
    BY <2>1, <2>3, Zenon DEF OpenInv, RunWaits, TypeOK
  <2>5. backlog = <<>> /\ runStream # s
    <3>1. runStream = None
      BY <2>4, Zenon DEF IdInv
    <3>. QED
      BY <2>1, <2>4, <3>1, Zenon DEF RunWaits
  <2>6. ~InBacklog(s)
    BY <2>5, SMT, Z3, SMTT(20) DEF InBacklog
  <2>7. wire[s] = dialId[s]
    BY <2>2, Zenon DEF IdInv
  <2>8. accept[a] \in {"select", "ok"}
    <3>1. accept[a] # "idle"
      BY Zenon DEF IdInv
    <3>2. accept[a] \notin {"error", "close", "ack", "expired"}
      BY <2>1, Zenon DEF OpenInv, AcceptWaits
    <3>3. accept[a] \in {"idle", "select", "close", "ack", "expired", "ok",
                         "error", "timeout"}
      BY Zenon DEF TypeOK
    <3>. QED
      BY <3>1, <3>2, <3>3, Zenon
  <2>9. ASSUME NEW e \in Entries, ch[e] = s PROVE FALSE
    <3>1. CASE accept[a] = "select"
      <4>1. acceptEntry[a] = e
        BY <2>7, <2>9, <3>1, Zenon DEF QueuedInv
      <4>. QED
        BY <2>1, <2>9, <3>1, <4>1, Zenon DEF AcceptWaits
    <3>2. CASE accept[a] = "ok"
      <4>1. conn[a] \in Dials /\ wire[conn[a]] = acceptId[a]
        BY <3>2, Zenon DEF TypeOK, IdInv
      <4>2. wire[conn[a]] = dialId[conn[a]]
        BY <4>1, Zenon DEF IdInv
      <4>3. conn[a] = s
        BY <4>1, <4>2, Zenon DEF UniqueInv, IdsAreUnique
      <4>. QED
        BY <2>9, <4>3, Zenon DEF SoleOwner
    <3>. QED
      BY <2>8, <3>1, <3>2, Zenon
  <2>10. PICK b \in Accepts : conn[b] = s
    BY <2>5, <2>6, <2>9, Zenon DEF PlaceInv, Place
  <2>11. acceptId[b] = wire[s] /\ conn[a] = s
    <3>1. acceptId[b] = wire[s]
      BY <2>10, Zenon DEF IdInv
    <3>2. b = a
      BY <2>7, <3>1, Zenon DEF UniqueInv, IdsAreUnique
    <3>. QED
      BY <2>10, <3>1, <3>2, Zenon
  <2>12. accept[a] = "ok"
    <3>1. accept[a] # "select"
      BY <2>11, Zenon DEF IdInv
    <3>. QED
      BY <2>8, <3>1, Zenon
  <2>13. ack[s] # None
    BY <2>11, <2>12, Zenon DEF AckedInv
  <2>14. dial[s] = "ok"
    <3>1. dial[s] \notin {"idle", "open", "read", "error"}
      BY <2>1, <2>13, Zenon DEF DialWaits, IdInv, OpenInv
    <3>2. dial[s] \in {"idle", "open", "read", "ok", "error"}
      BY Zenon DEF TypeOK
    <3>. QED
      BY <3>1, <3>2, Zenon
  <2>. QED
    BY <2>11, <2>12, <2>14, Zenon
<1>. QED
  BY <1>1, <1>2, <1>3, TypeCorrect, Ownership, Unique, PTL DEF Spec
-----------------------------------------------------------------------------
(* The refinement of Rendezvous. *)

(* A step that leaves the ids, the received streams and the successful     *)
(* Dials alone is a stutter of the abstract specification.                 *)
LEMMA Stutters ==
  ASSUME TypeOK, UNCHANGED <<dialId, acceptId, conn>>,
         \A s \in Dials : dial'[s] = "ok" <=> dial[s] = "ok"
  PROVE  UNCHANGED R!vars
<1>1. joined' = joined
  BY Zenon DEF joined
<1>2. connected' = connected
  BY Zenon DEF connected
<1>. QED
  BY <1>1, <1>2, Zenon DEF R!vars

(* OpenStream for an id is the abstract Dial. *)
LEMMA OpenIsDial ==
  ASSUME TypeOK, IdInv, NEW s \in Dials, NEW id \in Ids, DialOpen(s, id)
  PROVE  R!Dial(s, id)
<1>1. dialId[s] = None
  BY Zenon DEF DialOpen, IdInv
<1>2. joined' = joined
  BY Zenon DEF DialOpen, joined
<1>3. connected' = connected
  BY Zenon DEF DialOpen, connected, TypeOK
<1>. QED
  BY <1>1, <1>2, <1>3, Zenon DEF DialOpen, R!Dial

(* getStream by an Accept is the abstract Accept. *)
LEMMA CallIsAccept ==
  ASSUME TypeOK, IdInv, NEW a \in Accepts, NEW id \in Ids, AcceptCall(a, id)
  PROVE  R!Accept(a, id)
<1>1. acceptId[a] = None
  BY Zenon DEF AcceptCall, IdInv
<1>2. joined' = joined
  BY Zenon DEF AcceptCall, joined
<1>3. connected' = connected
  BY Zenon DEF AcceptCall, connected
<1>. QED
  BY <1>1, <1>2, <1>3, Zenon DEF AcceptCall, R!Accept

(* A receive from the entry's channel is the abstract Join. *)
LEMMA ReceiveIsJoin ==
  ASSUME TypeOK, IdInv, SoleOwner, NEW a \in Accepts, AcceptReceive(a)
  PROVE  \E s \in Dials : R!Join(s, a)
<1>. DEFINE s == ch[acceptEntry[a]]
<1>1. s \in Dials /\ acceptEntry[a] \in Entries
  BY Zenon DEF AcceptReceive, TypeOK
<1>2. conn[a] = None
  BY Zenon DEF AcceptReceive, IdInv, TypeOK
<1>3. dialId[s] # None /\ dialId[s] = acceptId[a]
  <2>1. reaper[s] # "none" /\ reaperEntry[s] = acceptEntry[a]
    BY <1>1, ZenonT(40) DEF IdInv
  <2>2. wire[s] # None /\ IdOf(acceptEntry[a]) = wire[s] /\ wire[s] = dialId[s]
    BY <1>1, <2>1, SMT, Z3, SMTT(20) DEF IdInv
  <2>3. IdOf(acceptEntry[a]) = acceptId[a]
    BY Zenon DEF IdInv, AcceptReceive
  <2>. QED
    BY <2>2, <2>3, Zenon
<1>4. \A p \in joined : p[1] # s /\ p[2] # a
  BY <1>1, <1>2, SMT, Z3, SMTT(20) DEF joined, SoleOwner
<1>5. joined' = joined \cup {<<s, a>>}
  <2>1. conn' = [conn EXCEPT ![a] = s] /\ conn \in [Accepts -> Dials \cup {None}]
    BY Zenon DEF AcceptReceive, TypeOK
  <2>. HIDE DEF s
  <2>2. {b \in Accepts : conn'[b] # None}
          = {b \in Accepts : conn[b] # None} \cup {a}
    BY <1>1, <2>1, Zenon
  <2>3. \A b \in Accepts : conn'[b] = IF b = a THEN s ELSE conn[b]
    BY <2>1, Zenon
  <2>. QED
    BY <1>2, <2>2, <2>3, Zenon DEF joined
<1>6. connected' = connected
  BY Zenon DEF AcceptReceive, connected
<1>7. UNCHANGED <<dialId, acceptId>>
  BY Zenon DEF AcceptReceive
<1>8. R!Join(s, a)
  BY <1>3, <1>4, <1>5, <1>6, <1>7, Zenon DEF R!Join
<1>. QED
  BY <1>1, <1>8, Zenon

(* An ack that agrees is the abstract Connect; another one is a stutter. *)
LEMMA ReadAckConnects ==
  ASSUME TypeOK, AckInv, NEW s \in Dials, DialReadAck(s)
  PROVE  R!Connect(s) \/ UNCHANGED R!vars
<1>1. CASE ack[s] = dialId[s]
  <2>1. PICK a \in Accepts : conn[a] = s
    BY Zenon DEF DialReadAck, AckInv
  <2>2. <<s, a>> \in joined
    BY <2>1, Zenon DEF joined
  <2>3. connected' = connected \cup {s}
    BY <1>1, SMT, Z3, SMTT(20) DEF DialReadAck, connected, TypeOK
  <2>4. joined' = joined
    BY Zenon DEF DialReadAck, joined
  <2>. QED
    BY <2>2, <2>3, <2>4, Zenon DEF DialReadAck, R!Connect
<1>2. CASE ack[s] # dialId[s]
  BY <1>2, Stutters, Zenon DEF DialReadAck, TypeOK
<1>. QED
  BY <1>1, <1>2, Zenon
-----------------------------------------------------------------------------
(* Every step maps to a step of Rendezvous or to a stutter. *)
LEMMA StepMaps ==
  ASSUME TypeOK, SoleOwner, IdInv, AckInv, Next
  PROVE  R!Next \/ UNCHANGED R!vars
<1>1. ASSUME NEW s \in Dials, NEW id \in Ids, DialOpen(s, id)
      PROVE  R!Next
  BY <1>1, OpenIsDial, Zenon DEF R!Next
<1>2. ASSUME NEW a \in Accepts, NEW id \in Ids, AcceptCall(a, id)
      PROVE  R!Next
  BY <1>2, CallIsAccept, Zenon DEF R!Next
<1>3. ASSUME NEW a \in Accepts, AcceptReceive(a)
      PROVE  R!Next
  BY <1>3, ReceiveIsJoin, Zenon DEF R!Next
<1>4. ASSUME NEW s \in Dials, DialReadAck(s)
      PROVE  R!Next \/ UNCHANGED R!vars
  BY <1>4, ReadAckConnects, Zenon DEF R!Next
<1>5. ASSUME NEW s \in Dials, DialFails(s) \/ DialWrite(s) \/ DialReadError(s)
      PROVE  UNCHANGED R!vars
  BY <1>5, Stutters, Zenon DEF DialFails, DialWrite, DialReadError, TypeOK
<1>6. CASE RunStep
  BY <1>6, Stutters, Zenon
  DEF RunStep, RunAccept, RunExit, RunRead, RunReadError, RunQueue,
      RunDuplicate, RunNext
<1>7. ASSUME NEW a \in Accepts, \/ AcceptCloseDone(a) \/ AcceptAck(a)
                                \/ AcceptAckError(a) \/ AcceptTimeout(a)
                                \/ AcceptExpire(a)
      PROVE  UNCHANGED R!vars
  BY <1>7, Stutters, Zenon
  DEF AcceptCloseDone, AcceptAck, AcceptAckError, AcceptTimeout, AcceptExpire
<1>8. ASSUME NEW s \in Dials, ReaperStep(s) \/ ReaperExpire(s)
      PROVE  UNCHANGED R!vars
  BY <1>8, Stutters, Zenon DEF ReaperStep, ReaperDone, Reap, ReaperExpire
<1>9. CASE Close
  BY <1>9, Stutters, Zenon DEF Close
<1>. QED
  BY <1>1, <1>2, <1>3, <1>4, <1>5, <1>6, <1>7, <1>8, <1>9, Zenon
  DEF Next, DialOpens, AcceptCalls, DialStep, AcceptStep, Timer

\* MuxBroker implements Rendezvous, whatever the calls and however ids are
\* reused: Run, Accept, Dial and timeoutWait join a Dial only to one Accept of
\* its id, never part what they joined, and no Dial succeeds unjoined.
THEOREM BrokerIsRendezvous == Spec => ImplementsRendezvous
<1>1. Init => R!Init
  BY SMT, Z3, SMTT(20) DEF Init, R!Init, joined, connected
<1>2. /\ TypeOK /\ SoleOwner /\ IdInv /\ AckInv /\ [Next]_vars
      => [R!Next]_(R!vars)
  <2>1. TypeOK /\ UNCHANGED vars => UNCHANGED R!vars
    BY Stutters, Zenon DEF vars
  <2>. QED
    BY <2>1, StepMaps, Zenon
<1>. QED
  BY <1>1, <1>2, TypeCorrect, Ownership, PTL
  DEF Spec, ImplementsRendezvous, R!Spec
==============================================================================
