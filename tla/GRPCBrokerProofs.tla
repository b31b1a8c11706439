-------------------------- MODULE GRPCBrokerProofs --------------------------
(***************************************************************************)
(* The invariant of GRPCBroker, for any sets of calls and ids: TypeOK with *)
(* IdInv (an entry is reached only by its id) and SoleOwner (a ConnInfo is *)
(* in one place at a time).  The three are inductive together only: IdInv  *)
(* needs SoleOwner for what is in transit.  The second part is what they   *)
(* give.  With ids from NextId no two calls collide, for which DoneInv and *)
(* UniqueInv are needed besides.  And GRPCBroker implements Rendezvous for *)
(* any ids: DialCall is the abstract Dial, AcceptCall the abstract Accept, *)
(* DialReceive the Join and a successful DialCloseDone the Connect.  IdInv *)
(* and SoleOwner give the abstract guards.  The last part is what must     *)
(* happen before the broker stops: StreamInv and CareInv say who still has *)
(* a step to take for an Accept and for an entry, PairInv, HeldInv and     *)
(* NoLossInv that a Dial and the ConnInfo of its id are at the same entry. *)
(***************************************************************************)
EXTENDS GRPCBroker, TLAPS

USE NoneAssumption, CallsAssumption
USE DEF streamVars, acceptVars, readVars, runVars, dialVars, pendVars, reapVars

(* A ConnInfo that is sent goes to the end of the wire. *)
LEMMA Appended ==
  ASSUME wire \in Seq(Accepts), NEW a \in Accepts, a \notin OnWire,
         wire' = Append(wire, a), WireDistinct
  PROVE  /\ wire' \in Seq(Accepts)
         /\ OnWire' = OnWire \cup {a}
         /\ WireDistinct'
<1>1. /\ wire' \in Seq(Accepts)
      /\ Len(wire) \in Nat /\ Len(wire') = Len(wire) + 1
      /\ \A i \in 1..Len(wire) : wire'[i] = wire[i]
      /\ wire'[Len(wire) + 1] = a
  OBVIOUS
<1>2. \A i \in 1..Len(wire') : i \in 1..Len(wire) \/ i = Len(wire) + 1
  BY <1>1, SMT, Z3, SMTT(20)
<1>3. \A i \in 1..Len(wire) : wire[i] # a /\ i \in 1..Len(wire')
  BY <1>1, SMT, Z3, SMTT(20) DEF OnWire
<1>4. Len(wire) + 1 \in 1..Len(wire')
  BY <1>1, SMT, Z3, SMTT(20)
<1>5. OnWire' = OnWire \cup {a}
  BY <1>1, <1>2, <1>3, <1>4, Zenon DEF OnWire
<1>6. WireDistinct'
  BY <1>1, <1>2, <1>3, SMT, Z3, SMTT(20) DEF WireDistinct
<1>. QED
  BY <1>1, <1>5, <1>6, Zenon

(* A ConnInfo that is received leaves the wire. *)
LEMMA Taken ==
  ASSUME wire \in Seq(Accepts), wire # <<>>, wire' = Tail(wire), WireDistinct
  PROVE  /\ wire' \in Seq(Accepts)
         /\ Head(wire) \in OnWire
         /\ OnWire' = OnWire \ {Head(wire)}
         /\ WireDistinct'
<1>1. /\ wire' \in Seq(Accepts) /\ Head(wire) = wire[1]
      /\ Len(wire) \in Nat \ {0} /\ Len(wire') = Len(wire) - 1
      /\ \A i \in 1..Len(wire') : wire'[i] = wire[i + 1]
  OBVIOUS
<1>2. /\ 1 \in 1..Len(wire)
      /\ \A i \in 1..Len(wire') : i + 1 \in 1..Len(wire) /\ i + 1 # 1
      /\ \A i \in 1..Len(wire) : i # 1 => i - 1 \in 1..Len(wire')
      /\ \A i \in 1..Len(wire) : i # 1 => wire[i] = wire'[i - 1]
  BY <1>1, SMT, Z3, SMTT(20)
<1>3. OnWire' = OnWire \ {Head(wire)}
  <2>1. ASSUME NEW a \in OnWire'
        PROVE  a \in OnWire /\ a # wire[1]
    <3>1. PICK i \in 1..Len(wire') : a = wire'[i]
      BY <2>1, Zenon DEF OnWire
    <3>. QED
      BY <1>1, <1>2, <3>1, SMT, Z3, SMTT(20) DEF OnWire, WireDistinct
  <2>2. ASSUME NEW a \in OnWire, a # wire[1]
        PROVE  a \in OnWire'
    <3>1. PICK i \in 1..Len(wire) : a = wire[i]
      BY <2>2, Zenon DEF OnWire
    <3>2. i - 1 \in 1..Len(wire') /\ a = wire'[i - 1]
      BY <1>2, <2>2, <3>1, Zenon
    <3>. QED
      BY <3>2, Zenon DEF OnWire
  <2>. QED
    BY <1>1, <2>1, <2>2, Zenon
<1>4. Head(wire) \in OnWire
  BY <1>1, <1>2, Zenon DEF OnWire
<1>5. WireDistinct'
  BY <1>1, <1>2, SMT, Z3, SMTT(20) DEF WireDistinct
<1>. QED
  BY <1>1, <1>3, <1>4, <1>5, Zenon

(* A step that leaves the wire alone leaves what is on it. *)
LEMMA WireKept ==
  ASSUME wire' = wire
  PROVE  OnWire' = OnWire /\ (WireDistinct <=> WireDistinct')
BY Zenon DEF OnWire, WireDistinct

(* A step that moves no ConnInfo leaves each in one place. *)
LEMMA SoleKept ==
  ASSUME SoleOwner,
         UNCHANGED <<sender, sending, accept, wire, received, runMsg, ch, conn>>
  PROVE  SoleOwner'
BY WireKept, Zenon DEF SoleOwner

(* So does one that moves nothing and allocates nothing for ids. *)
LEMMA IdsKept ==
  ASSUME IdInv,
         UNCHANGED <<acceptVars, readVars, runVars, clientStreams, ch, dialVars>>
  PROVE  IdInv'
<1>1. \A e : IdOf(e)' = IdOf(e)
  BY Zenon DEF IdOf
<1>. QED
  BY <1>1, Zenon DEF IdInv

(* What the sender, the receive loop and Run hold has been sent by an      *)
(* Accept that has its id.                                                 *)
LEMMA InHand ==
  ASSUME TypeOK, IdInv, SoleOwner
  PROVE  /\ sender = "send" => sending \in Accepts /\ accept[sending] = "wait"
         /\ reader = "hand" => received \in Accepts /\ acceptId[received] \in Ids
         /\ run = "route" => /\ runMsg \in Accepts /\ acceptId[runMsg] \in Ids
                             /\ runEntry \in Entries
         /\ \A d \in Dials : dial[d] # "idle" =>
              dialId[d] \in Ids /\ dialEntry[d] \in Entries
<1>1. sender = "send" => sending \in Accepts /\ accept[sending] = "wait"
  BY Zenon DEF TypeOK, IdInv, SoleOwner
<1>2. \A a \in Accepts : accept[a] = "ok" => acceptId[a] \in Ids
  BY SMT, Z3, SMTT(20) DEF TypeOK, IdInv
<1>3. reader = "hand" => received \in Accepts /\ accept[received] = "ok"
  BY Zenon DEF TypeOK, IdInv, SoleOwner
<1>4. run = "route" => /\ runMsg \in Accepts /\ accept[runMsg] = "ok"
                       /\ runEntry \in Entries
  BY Zenon DEF TypeOK, IdInv, SoleOwner
<1>5. \A d \in Dials : dial[d] # "idle" =>
        dialId[d] \in Ids /\ dialEntry[d] \in Entries
  BY SMT, Z3, SMTT(20) DEF TypeOK, IdInv
<1>. QED
  BY <1>1, <1>2, <1>3, <1>4, <1>5, Zenon

(* A call gives an id to an entry that had none, and changes no other.     *)
LEMMA IdsGrow ==
  ASSUME \A a \in Accepts : acceptId[a] # None => acceptId'[a] = acceptId[a],
         \A d \in Dials : dialId[d] # None => dialId'[d] = dialId[d]
  PROVE  \A e \in Entries : IdOf(e) # None => IdOf(e)' = IdOf(e)
BY Zenon DEF IdOf, Entries

(* Every step keeps the types of the state. *)
LEMMA TypesPreserved ==
  ASSUME TypeOK, IdInv, SoleOwner, Next
  PROVE  TypeOK'
<1>. USE DEF TypeOK, Entries
<1>1. ASSUME NEW a \in Accepts, NEW id \in Ids, AcceptCall(a, id)
      PROVE  TypeOK'
  BY <1>1, SMT, Z3, SMTT(20) DEF AcceptCall
<1>2. ASSUME NEW d \in Dials, NEW id \in Ids, DialCall(d, id)
      PROVE  TypeOK'
  BY <1>2, SMT, Z3, SMTT(20) DEF DialCall, GetClientStream, EntryOf
<1>3. ASSUME NEW end \in {"accept", "dial"}, Close(end)
      PROVE  TypeOK'
  BY <1>3, SMT, Z3, SMTT(20) DEF Close
<1>4. CASE StreamOpen
  BY <1>4, Zenon DEF StreamOpen
<1>5. CASE StreamOpenFails
  BY <1>5, SMT, Z3, SMTT(20) DEF StreamOpenFails
<1>6. CASE StreamBreaks
  BY <1>6, SMT, Z3, SMTT(20) DEF StreamBreaks
<1>7. CASE AcceptEndReturns
  BY <1>7, SMT, Z3, SMTT(20) DEF AcceptEndReturns
<1>8. CASE SenderSend
  <2>1. sending \in Accepts
    BY <1>8, InHand, Zenon DEF SenderSend
  <2>2. wire \in Seq(Accepts)
        /\ (wire' = wire \/ wire' = Append(wire, sending))
    BY <1>8, Zenon DEF SenderSend
  <2>. HIDE DEF TypeOK
  <2>3. wire' \in Seq(Accepts)
    BY <2>1, <2>2, SMT, Z3, SMTT(20)
  <2>4. accept' \in [Accepts -> {"idle", "send", "wait", "ok", "error"}]
    BY <1>8, Zenon DEF SenderSend, TypeOK
  <2>. QED
    BY <1>8, <2>3, <2>4, SMT, Z3, SMTT(20) DEF SenderSend, TypeOK
<1>9. CASE SenderExit
  BY <1>9, SMT, Z3, SMTT(20) DEF SenderExit
<1>10. CASE ReaderRecv
  BY <1>10, SMT, Z3, SMTT(20) DEF ReaderRecv
<1>11. CASE ReaderReturns
  BY <1>11, SMT, Z3, SMTT(20) DEF ReaderReturns
<1>12. CASE RunRecv
  BY <1>12, InHand, SMT, Z3, SMTT(20) DEF RunRecv, GetClientStream, EntryOf
<1>13. CASE RunExit
  BY <1>13, SMT, Z3, SMTT(20) DEF RunExit
<1>14. CASE RunQueue
  BY <1>14, InHand, SMT, Z3, SMTT(20) DEF RunQueue, RunNext
<1>15. CASE RunDrop
  BY <1>15, SMT, Z3, SMTT(20) DEF RunDrop, RunNext
<1>16. ASSUME NEW d \in Dials, DialExpire(d)
      PROVE  TypeOK'
  BY <1>16, SMT, Z3, SMTT(20) DEF DialExpire
<1>17. ASSUME NEW a \in Accepts, ReaperExpire(a)
      PROVE  TypeOK'
  BY <1>17, SMT, Z3, SMTT(20) DEF ReaperExpire
<1>18. ASSUME NEW a \in Accepts, SendQuit(a)
      PROVE  TypeOK'
  BY <1>18, SMT, Z3, SMTT(20) DEF SendQuit
<1>19. ASSUME NEW a \in Accepts, SendHand(a)
      PROVE  TypeOK'
  BY <1>19, SMT, Z3, SMTT(20) DEF SendHand
<1>20. ASSUME NEW a \in Accepts, ReaperDone(a)
      PROVE  TypeOK'
  BY <1>20, SMT, Z3, SMTT(20) DEF ReaperDone
<1>21. ASSUME NEW a \in Accepts, Reap(a)
      PROVE  TypeOK'
  <2>1. clientStreams' \in [Ids -> Entries \cup {None}]
    BY <1>21, Zenon DEF Reap
  <2>. QED
    BY <1>21, <2>1, SMT, Z3, SMTT(20) DEF Reap
<1>22. ASSUME NEW d \in Dials, DialReceive(d)
      PROVE  TypeOK'
  BY <1>22, InHand, SMT, Z3, SMTT(20) DEF DialReceive
<1>23. ASSUME NEW d \in Dials, DialCloseDone(d)
      PROVE  TypeOK'
  BY <1>23, InHand, SMT, Z3, SMTT(20) DEF DialCloseDone
<1>24. ASSUME NEW d \in Dials, DialTimeout(d)
      PROVE  TypeOK'
  BY <1>24, InHand, SMT, Z3, SMTT(20) DEF DialTimeout
<1>. HIDE DEF TypeOK, Entries
<1>25. Calls => TypeOK'
  BY <1>1, <1>2, <1>3, Zenon DEF Calls
<1>26. StreamStep => TypeOK'
  BY <1>7, <1>8, <1>9, <1>10, <1>11, Zenon DEF StreamStep
<1>27. RunStep => TypeOK'
  BY <1>12, <1>13, <1>14, <1>15, Zenon DEF RunStep
<1>28. Timer => TypeOK'
  BY <1>16, <1>17, Zenon DEF Timer
<1>29. \A a \in Accepts : AcceptStep(a) \/ ReapStep(a) => TypeOK'
  BY <1>18, <1>19, <1>20, <1>21, Zenon DEF AcceptStep, ReapStep
<1>30. \A d \in Dials : DialStep(d) => TypeOK'
  BY <1>22, <1>23, <1>24, Zenon DEF DialStep
<1>. QED
  BY <1>4, <1>5, <1>6, <1>25, <1>26, <1>27, <1>28, <1>29, <1>30, Zenon
  DEF Next, Work

(* Every step keeps entries with their ids. *)
LEMMA IdsPreserved ==
  ASSUME TypeOK, IdInv, SoleOwner, Next
  PROVE  IdInv'
<1>a. /\ accept \in [Accepts -> {"idle", "send", "wait", "ok", "error"}]
      /\ acceptId \in [Accepts -> Ids \cup {None}]
      /\ sending \in Accepts \cup {None} /\ received \in Accepts \cup {None}
      /\ runMsg \in Accepts \cup {None} /\ runEntry \in Entries \cup {None}
      /\ clientStreams \in [Ids -> Entries \cup {None}]
      /\ ch \in [Entries -> Accepts \cup {None}]
      /\ dial \in [Dials -> {"idle", "select", "close", "ok", "error",
                             "expired", "timeout"}]
      /\ dialId \in [Dials -> Ids \cup {None}]
      /\ dialEntry \in [Dials -> Entries \cup {None}]
      /\ conn \in [Dials -> Accepts \cup {None}]
  BY Zenon DEF TypeOK
<1>b. /\ sender = "send" => sending \in Accepts /\ accept[sending] = "wait"
      /\ reader = "hand" => received \in Accepts /\ acceptId[received] \in Ids
      /\ run = "route" => /\ runMsg \in Accepts /\ acceptId[runMsg] \in Ids
                          /\ runEntry \in Entries
      /\ \A d \in Dials : dial[d] # "idle" =>
           dialId[d] \in Ids /\ dialEntry[d] \in Entries
  BY InHand, Zenon
<1>. USE <1>a, <1>b DEF Entries, IdInv, IdOf
<1>1. ASSUME NEW a \in Accepts, NEW id \in Ids, AcceptCall(a, id)
      PROVE  IdInv'
  <2>1. \A x \in Accepts : acceptId[x] # None => acceptId'[x] = acceptId[x]
    BY <1>1, SMT, Z3, SMTT(20) DEF AcceptCall
  <2>2. \A e \in Entries : IdOf(e) # None => IdOf(e)' = IdOf(e)
    <3>. HIDE <1>a, <1>b DEF IdOf, IdInv, Entries
    <3>. QED
      BY <1>1, <2>1, IdsGrow, Zenon DEF AcceptCall
  <2>. HIDE DEF IdOf
  <2>3. \A x \in Accepts : (accept[x] = "idle" <=> acceptId[x] = None)'
    BY <1>1, SMT, Z3, SMTT(20) DEF AcceptCall
  <2>4. UNCHANGED <<sender, sending, readVars, runVars, clientStreams, ch,
                    dialVars>>
    BY <1>1, Zenon DEF AcceptCall
  <2>. QED
    BY <2>1, <2>2, <2>3, <2>4, SMT, Z3, SMTT(20)
<1>2. ASSUME NEW d \in Dials, NEW id \in Ids, DialCall(d, id)
      PROVE  IdInv'
  <2>1. \A x \in Dials : dialId[x] # None => dialId'[x] = dialId[x]
    BY <1>2, SMT, Z3, SMTT(20) DEF DialCall
  <2>2. \A e \in Entries : IdOf(e) # None => IdOf(e)' = IdOf(e)
    <3>. HIDE <1>a, <1>b DEF IdOf, IdInv, Entries
    <3>. QED
      BY <1>2, <2>1, IdsGrow, Zenon DEF DialCall
  <2>3. PICK f \in Entries : f = EntryOf(id, d) /\ IdOf(f)' = id
    BY <1>2, <2>2, SMT, Z3, SMTT(20) DEF DialCall, EntryOf
  <2>. HIDE DEF IdOf
  <2>4. clientStreams' = [clientStreams EXCEPT ![id] = f]
        /\ dialEntry' = [dialEntry EXCEPT ![d] = f]
        /\ dialId' = [dialId EXCEPT ![d] = id]
        /\ dial' = [dial EXCEPT ![d] = "select"]
        /\ UNCHANGED <<acceptVars, readVars, runVars, ch, conn>>
        /\ dial[d] = "idle"
    BY <1>2, <2>3, Zenon DEF DialCall, GetClientStream
  <2>5. \A x \in Ids : (clientStreams[x] # None => IdOf(clientStreams[x]) = x)'
    BY <2>2, <2>3, <2>4, SMT, Z3, SMTT(20)
  <2>6. \A x \in Dials : (/\ dial[x] = "idle" <=> dialId[x] = None
                          /\ dial[x] = "idle" <=> dialEntry[x] = None
                          /\ dial[x] # "idle" => IdOf(dialEntry[x]) = dialId[x])'
    BY <2>2, <2>3, <2>4, SMT, Z3, SMTT(20)
  <2>7. \A x \in Dials :
          (/\ conn[x] # None <=> dial[x] \in {"close", "ok", "error"}
           /\ conn[x] # None => acceptId[conn[x]] = dialId[x])'
    BY <2>1, <2>4, SMT, Z3, SMTT(20)
  <2>8. \A e \in Entries : (ch[e] # None => /\ acceptId[ch[e]] # None
                                            /\ IdOf(e) = acceptId[ch[e]])'
    BY <2>2, <2>4, Zenon
  <2>. QED
    BY <2>2, <2>4, <2>5, <2>6, <2>7, <2>8, SMT, Z3, SMTT(20)
<1>3. ASSUME NEW end \in {"accept", "dial"}, Close(end)
      PROVE  IdInv'
  <2>. HIDE <1>a, <1>b DEF IdInv, IdOf
  <2>. QED
    BY <1>3, IdsKept, Zenon DEF Close
<1>4. CASE StreamOpen
  BY <1>4, Zenon DEF StreamOpen
<1>5. CASE StreamOpenFails
  <2>. HIDE <1>a, <1>b DEF IdInv, IdOf
  <2>. QED
    BY <1>5, IdsKept, Zenon DEF StreamOpenFails
<1>6. CASE StreamBreaks
  <2>. HIDE <1>a, <1>b DEF IdInv, IdOf
  <2>. QED
    BY <1>6, IdsKept, Zenon DEF StreamBreaks
<1>7. CASE AcceptEndReturns
  <2>. HIDE <1>a, <1>b DEF IdInv, IdOf
  <2>. QED
    BY <1>7, IdsKept, Zenon DEF AcceptEndReturns
<1>8. CASE SenderSend
  BY <1>8, SMT, Z3, SMTT(20) DEF SenderSend
<1>9. CASE SenderExit
  BY <1>9, Zenon DEF SenderExit
<1>10. CASE ReaderRecv
  <2>1. wire \in Seq(Accepts) /\ wire # <<>>
    BY <1>10, Zenon DEF ReaderRecv, TypeOK
  <2>2. Head(wire) \in Accepts
    BY <2>1, SMT, Z3, SMTT(20)
  <2>. QED
    BY <1>10, <2>2, Zenon DEF ReaderRecv
<1>11. CASE ReaderReturns
  BY <1>11, Zenon DEF ReaderReturns
<1>12. CASE RunRecv
  BY <1>12, SMT, Z3, SMTT(20) DEF RunRecv, GetClientStream, EntryOf
<1>13. CASE RunExit
  BY <1>13, Zenon DEF RunExit
<1>14. CASE RunQueue
  BY <1>14, SMT, Z3, SMTT(20) DEF RunQueue, RunNext
<1>15. CASE RunDrop
  BY <1>15, Zenon DEF RunDrop, RunNext
<1>16. ASSUME NEW d \in Dials, DialExpire(d)
      PROVE  IdInv'
  BY <1>16, SMT, Z3, SMTT(20) DEF DialExpire
<1>17. ASSUME NEW a \in Accepts, ReaperExpire(a)
      PROVE  IdInv'
  <2>. HIDE <1>a, <1>b DEF IdInv, IdOf
  <2>. QED
    BY <1>17, IdsKept, Zenon DEF ReaperExpire
<1>18. ASSUME NEW a \in Accepts, SendQuit(a)
      PROVE  IdInv'
  BY <1>18, SMT, Z3, SMTT(20) DEF SendQuit
<1>19. ASSUME NEW a \in Accepts, SendHand(a)
      PROVE  IdInv'
  BY <1>19, SMT, Z3, SMTT(20) DEF SendHand
<1>20. ASSUME NEW a \in Accepts, ReaperDone(a)
      PROVE  IdInv'
  <2>. HIDE <1>a, <1>b DEF IdInv, IdOf
  <2>. QED
    BY <1>20, IdsKept, Zenon DEF ReaperDone
<1>21. ASSUME NEW a \in Accepts, Reap(a)
      PROVE  IdInv'
  BY <1>21, SMT, Z3, SMTT(20) DEF Reap
<1>22. ASSUME NEW d \in Dials, DialReceive(d)
      PROVE  IdInv'
  BY <1>22, SMT, Z3, SMTT(20) DEF DialReceive
<1>23. ASSUME NEW d \in Dials, DialCloseDone(d)
      PROVE  IdInv'
  BY <1>23, SMT, Z3, SMTT(20) DEF DialCloseDone
<1>24. ASSUME NEW d \in Dials, DialTimeout(d)
      PROVE  IdInv'
  BY <1>24, SMT, Z3, SMTT(20) DEF DialTimeout
<1>. HIDE <1>a, <1>b DEF Entries, IdInv, IdOf
<1>25. Calls => IdInv'
  BY <1>1, <1>2, <1>3, Zenon DEF Calls
<1>26. StreamStep => IdInv'
  BY <1>7, <1>8, <1>9, <1>10, <1>11, Zenon DEF StreamStep
<1>27. RunStep => IdInv'
  BY <1>12, <1>13, <1>14, <1>15, Zenon DEF RunStep
<1>28. Timer => IdInv'
  BY <1>16, <1>17, Zenon DEF Timer
<1>29. \A a \in Accepts : AcceptStep(a) \/ ReapStep(a) => IdInv'
  BY <1>18, <1>19, <1>20, <1>21, Zenon DEF AcceptStep, ReapStep
<1>30. \A d \in Dials : DialStep(d) => IdInv'
  BY <1>22, <1>23, <1>24, Zenon DEF DialStep
<1>. QED
  BY <1>4, <1>5, <1>6, <1>25, <1>26, <1>27, <1>28, <1>29, <1>30, Zenon
  DEF Next, Work

(* Every step keeps each ConnInfo in one place. *)
LEMMA SolePreserved ==
  ASSUME TypeOK, IdInv, SoleOwner, Next
  PROVE  SoleOwner'
<1>a. /\ accept \in [Accepts -> {"idle", "send", "wait", "ok", "error"}]
      /\ sending \in Accepts \cup {None}
      /\ received \in Accepts \cup {None} /\ runMsg \in Accepts \cup {None}
      /\ ch \in [Entries -> Accepts \cup {None}]
      /\ conn \in [Dials -> Accepts \cup {None}]
  BY Zenon DEF TypeOK
<1>b. /\ sender = "send" => sending \in Accepts /\ accept[sending] = "wait"
      /\ reader = "hand" => received \in Accepts
      /\ run = "route" => runMsg \in Accepts /\ runEntry \in Entries
      /\ \A d \in Dials : dial[d] # "idle" => dialEntry[d] \in Entries
  BY InHand, Zenon
<1>. USE <1>a, <1>b DEF Entries, SoleOwner
<1>1. ASSUME NEW a \in Accepts, NEW id \in Ids, AcceptCall(a, id)
      PROVE  SoleOwner'
  <2>1. OnWire' = OnWire /\ WireDistinct'
    BY <1>1, WireKept, Zenon DEF AcceptCall
  <2>. QED
    BY <1>1, <2>1, SMT, Z3, SMTT(20) DEF AcceptCall
<1>2. ASSUME NEW d \in Dials, NEW id \in Ids, DialCall(d, id)
      PROVE  SoleOwner'
  <2>. HIDE <1>a, <1>b DEF SoleOwner
  <2>. QED
    BY <1>2, SoleKept, Zenon DEF DialCall
<1>3. ASSUME NEW end \in {"accept", "dial"}, Close(end)
      PROVE  SoleOwner'
  <2>. HIDE <1>a, <1>b DEF SoleOwner
  <2>. QED
    BY <1>3, SoleKept, Zenon DEF Close
<1>4. CASE StreamOpen
  <2>1. OnWire' = OnWire /\ WireDistinct'
    BY <1>4, WireKept, Zenon DEF StreamOpen
  <2>. QED
    BY <1>4, <2>1, Zenon DEF StreamOpen
<1>5. CASE StreamOpenFails
  <2>. HIDE <1>a, <1>b DEF SoleOwner
  <2>. QED
    BY <1>5, SoleKept, Zenon DEF StreamOpenFails
<1>6. CASE StreamBreaks
  <2>. HIDE <1>a, <1>b DEF SoleOwner
  <2>. QED
    BY <1>6, SoleKept, Zenon DEF StreamBreaks
<1>7. CASE AcceptEndReturns
  <2>. HIDE <1>a, <1>b DEF SoleOwner
  <2>. QED
    BY <1>7, SoleKept, Zenon DEF AcceptEndReturns
<1>8. CASE SenderSend
  <2>. DEFINE b == sending
  <2>1. b \in Accepts /\ accept[b] = "wait" /\ b \notin OnWire
    BY <1>8, Zenon DEF SenderSend
  <2>2. UNCHANGED <<received, runMsg, ch, conn>> /\ sender' = "idle"
    BY <1>8, Zenon DEF SenderSend
  <2>3. CASE wire' = Append(wire, b) /\ accept' = [accept EXCEPT ![b] = "ok"]
    <3>1. /\ OnWire' = OnWire \cup {b}
          /\ WireDistinct'
      BY <2>1, <2>3, Appended, Zenon DEF TypeOK
    <3>. HIDE DEF b
    <3>. QED
      BY <2>1, <2>2, <2>3, <3>1, SMT, Z3, SMTT(20)
  <2>4. ASSUME wire' = wire, NEW r \in {"ok", "error"},
               accept' = [accept EXCEPT ![b] = r]
        PROVE  SoleOwner'
    <3>1. OnWire' = OnWire /\ WireDistinct'
      BY <2>4, WireKept, Zenon
    <3>. HIDE DEF b
    <3>. QED
      BY <2>1, <2>2, <2>4, <3>1, SMT, Z3, SMTT(20)
  <2>. HIDE DEF SoleOwner
  <2>. QED
    BY <1>8, <2>3, <2>4, Zenon DEF SenderSend
<1>9. CASE SenderExit
  <2>1. OnWire' = OnWire /\ WireDistinct'
    BY <1>9, WireKept, Zenon DEF SenderExit
  <2>. QED
    BY <1>9, <2>1, Zenon DEF SenderExit
<1>10. CASE ReaderRecv
  <2>1. /\ Head(wire) \in OnWire /\ OnWire' = OnWire \ {Head(wire)}
        /\ WireDistinct' /\ Head(wire) \in Accepts
    BY <1>10, Taken, SMT, Z3, SMTT(20) DEF ReaderRecv, TypeOK
  <2>2. received' = Head(wire)
        /\ UNCHANGED <<accept, sender, sending, runMsg, ch, conn>>
    BY <1>10, Zenon DEF ReaderRecv
  <2>. QED
    BY <2>1, <2>2, SMT, Z3, SMTT(20)
<1>11. CASE ReaderReturns
  <2>1. OnWire' = OnWire /\ WireDistinct'
    BY <1>11, WireKept, Zenon DEF ReaderReturns
  <2>. QED
    BY <1>11, <2>1, SMT, Z3, SMTT(20) DEF ReaderReturns
<1>12. CASE RunRecv
  <2>1. OnWire' = OnWire /\ WireDistinct'
    BY <1>12, WireKept, Zenon DEF RunRecv
  <2>. QED
    BY <1>12, <2>1, SMT, Z3, SMTT(20) DEF RunRecv
<1>13. CASE RunExit
  <2>. HIDE <1>a, <1>b DEF SoleOwner
  <2>. QED
    BY <1>13, SoleKept, Zenon DEF RunExit
<1>14. CASE RunQueue
  <2>1. OnWire' = OnWire /\ WireDistinct'
    BY <1>14, WireKept, Zenon DEF RunQueue
  <2>. QED
    BY <1>14, <2>1, SMT, Z3, SMTT(20) DEF RunQueue, RunNext
<1>15. CASE RunDrop
  <2>1. OnWire' = OnWire /\ WireDistinct'
    BY <1>15, WireKept, Zenon DEF RunDrop
  <2>. QED
    BY <1>15, <2>1, SMT, Z3, SMTT(20) DEF RunDrop, RunNext
<1>16. ASSUME NEW d \in Dials, DialExpire(d)
      PROVE  SoleOwner'
  <2>. HIDE <1>a, <1>b DEF SoleOwner
  <2>. QED
    BY <1>16, SoleKept, Zenon DEF DialExpire
<1>17. ASSUME NEW a \in Accepts, ReaperExpire(a)
      PROVE  SoleOwner'
  <2>. HIDE <1>a, <1>b DEF SoleOwner
  <2>. QED
    BY <1>17, SoleKept, Zenon DEF ReaperExpire
<1>18. ASSUME NEW a \in Accepts, SendQuit(a)
      PROVE  SoleOwner'
  <2>1. OnWire' = OnWire /\ WireDistinct'
    BY <1>18, WireKept, Zenon DEF SendQuit
  <2>. QED
    BY <1>18, <2>1, SMT, Z3, SMTT(20) DEF SendQuit
<1>19. ASSUME NEW a \in Accepts, SendHand(a)
      PROVE  SoleOwner'
  <2>1. OnWire' = OnWire /\ WireDistinct'
    BY <1>19, WireKept, Zenon DEF SendHand
  <2>. QED
    BY <1>19, <2>1, SMT, Z3, SMTT(20) DEF SendHand
<1>20. ASSUME NEW a \in Accepts, ReaperDone(a)
      PROVE  SoleOwner'
  <2>. HIDE <1>a, <1>b DEF SoleOwner
  <2>. QED
    BY <1>20, SoleKept, Zenon DEF ReaperDone
<1>21. ASSUME NEW a \in Accepts, Reap(a)
      PROVE  SoleOwner'
  <2>. HIDE <1>a, <1>b DEF SoleOwner
  <2>. QED
    BY <1>21, SoleKept, Zenon DEF Reap
<1>22. ASSUME NEW d \in Dials, DialReceive(d)
      PROVE  SoleOwner'
  <2>1. OnWire' = OnWire /\ WireDistinct'
    BY <1>22, WireKept, Zenon DEF DialReceive
  <2>2. PICK e \in Entries : e = dialEntry[d] /\ ch[e] # None
    BY <1>22, Zenon DEF DialReceive
  <2>3. /\ conn' = [conn EXCEPT ![d] = ch[e]] /\ ch' = [ch EXCEPT ![e] = None]
        /\ UNCHANGED <<accept, sender, sending, received, runMsg>>
    BY <1>22, <2>2, Zenon DEF DialReceive
  <2>. QED
    BY <2>1, <2>2, <2>3, SMT, Z3, SMTT(20)
<1>23. ASSUME NEW d \in Dials, DialCloseDone(d)
      PROVE  SoleOwner'
  <2>. HIDE <1>a, <1>b DEF SoleOwner
  <2>. QED
    BY <1>23, SoleKept, Zenon DEF DialCloseDone
<1>24. ASSUME NEW d \in Dials, DialTimeout(d)
      PROVE  SoleOwner'
  <2>. HIDE <1>a, <1>b DEF SoleOwner
  <2>. QED
    BY <1>24, SoleKept, Zenon DEF DialTimeout
<1>. HIDE <1>a, <1>b DEF Entries, SoleOwner
<1>25. Calls => SoleOwner'
  BY <1>1, <1>2, <1>3, Zenon DEF Calls
<1>26. StreamStep => SoleOwner'
  BY <1>7, <1>8, <1>9, <1>10, <1>11, Zenon DEF StreamStep
<1>27. RunStep => SoleOwner'
  BY <1>12, <1>13, <1>14, <1>15, Zenon DEF RunStep
<1>28. Timer => SoleOwner'
  BY <1>16, <1>17, Zenon DEF Timer
<1>29. \A a \in Accepts : AcceptStep(a) \/ ReapStep(a) => SoleOwner'
  BY <1>18, <1>19, <1>20, <1>21, Zenon DEF AcceptStep, ReapStep
<1>30. \A d \in Dials : DialStep(d) => SoleOwner'
  BY <1>22, <1>23, <1>24, Zenon DEF DialStep
<1>. QED
  BY <1>4, <1>5, <1>6, <1>25, <1>26, <1>27, <1>28, <1>29, <1>30, Zenon
  DEF Next, Work
-----------------------------------------------------------------------------
\* The state of the broker keeps its types, an entry is reached only by the id
\* it was allocated for, and a ConnInfo is in one place at a time, whatever the
\* ids and however the stream ends (StartStream, Run, getClientStream, Dial).
THEOREM Correct == Spec => [](TypeOK /\ IdInv /\ SoleOwner)
<1>1. Init => TypeOK /\ IdInv /\ SoleOwner
  <2>. SUFFICES ASSUME Init
                PROVE  TypeOK /\ IdInv /\ SoleOwner
    BY Zenon
  <2>1. /\ accept \in [Accepts -> {"idle", "send", "wait", "ok", "error"}]
        /\ acceptId \in [Accepts -> Ids \cup {None}]
        /\ reaper \in [Accepts -> {"none", "wait", "delete", "gone"}]
        /\ reaperEntry \in [Accepts -> Entries \cup {None}]
    BY Zenon DEF Init
  <2>2. /\ dial \in [Dials -> {"idle", "select", "close", "ok", "error",
                               "expired", "timeout"}]
        /\ dialId \in [Dials -> Ids \cup {None}]
        /\ dialEntry \in [Dials -> Entries \cup {None}]
        /\ conn \in [Dials -> Accepts \cup {None}]
    BY Zenon DEF Init
  <2>3. /\ clientStreams \in [Ids -> Entries \cup {None}]
        /\ ch \in [Entries -> Accepts \cup {None}]
        /\ wire \in Seq(Accepts)
    BY SMT, Z3, SMTT(20) DEF Init
  <2>4. TypeOK
    BY <2>1, <2>2, <2>3, Zenon DEF Init, TypeOK
  <2>5. IdInv /\ SoleOwner
    BY SMT, Z3, SMTT(20)
    DEF Init, IdInv, SoleOwner, OnWire, WireDistinct, IdOf, Entries
  <2>. QED
    BY <2>4, <2>5, Zenon
<1>2. TypeOK /\ IdInv /\ SoleOwner /\ [Next]_vars
      => TypeOK' /\ IdInv' /\ SoleOwner'
  <2>1. TypeOK /\ UNCHANGED vars => TypeOK'
    BY SMT, Z3, SMTT(20) DEF TypeOK, vars
  <2>2. IdInv /\ UNCHANGED vars => IdInv'
    BY IdsKept, Zenon DEF vars
  <2>3. SoleOwner /\ UNCHANGED vars => SoleOwner'
    BY SoleKept, Zenon DEF vars
  <2>. QED
    BY <2>1, <2>2, <2>3, TypesPreserved, IdsPreserved, SolePreserved, Zenon
<1>. QED
  BY <1>1, <1>2, PTL DEF Spec

-----------------------------------------------------------------------------
(* Unique ids, and the refinement of Rendezvous.                           *)

(* Only Dial and a call of Accept change what Dials have, the ids and      *)
(* doneCh.                                                                 *)
LEMMA Elsewhere ==
  ASSUME Next
  PROVE  \/ UNCHANGED <<policy, acceptId, dialVars, pendingDone, panicked>>
         \/ \E a \in Accepts, id \in Ids : AcceptCall(a, id)
         \/ \E d \in Dials, id \in Ids : DialCall(d, id)
         \/ \E d \in Dials : DialExpire(d) \/ DialStep(d)
<1>. DEFINE Same ==
       UNCHANGED <<policy, acceptId, dialVars, pendingDone, panicked>>
<1>1. \A end \in {"accept", "dial"} : Close(end) => Same
  BY Zenon DEF Close
<1>2. StreamOpen \/ StreamOpenFails \/ StreamBreaks => Same
  BY Zenon DEF StreamOpen, StreamOpenFails, StreamBreaks
<1>3. StreamStep => Same
  BY Zenon DEF StreamStep, AcceptEndReturns, SenderSend, SenderExit,
       ReaderRecv, ReaderReturns
<1>4. RunStep => Same
  BY Zenon DEF RunStep, RunRecv, RunExit, RunQueue, RunDrop, RunNext
<1>5. \A a \in Accepts : AcceptStep(a) \/ ReapStep(a) => Same
  BY Zenon DEF AcceptStep, ReapStep, SendQuit, SendHand, ReaperDone, Reap
<1>6. \A a \in Accepts : ReaperExpire(a) => Same
  BY Zenon DEF ReaperExpire
<1>. HIDE DEF Same
<1>7. Same \/ (\E a \in Accepts, id \in Ids : AcceptCall(a, id))
           \/ (\E d \in Dials, id \in Ids : DialCall(d, id))
           \/ (\E d \in Dials : DialExpire(d) \/ DialStep(d))
  BY <1>1, <1>2, <1>3, <1>4, <1>5, <1>6, Zenon DEF Next, Calls, Work, Timer
<1>. QED
  BY <1>7, Zenon DEF Same

(* A closed doneCh keeps its Dial. *)
LEMMA DoneKept ==
  ASSUME DoneInv, NEW S, pendingDone' = pendingDone \cup S,
         \A c \in Dials : dial[c] \in {"ok", "error"} =>
           dial'[c] \in {"ok", "error"} /\ dialEntry'[c] = dialEntry[c],
         \A e \in S : \E c \in Dials :
           dialEntry'[c] = e /\ dial'[c] \in {"ok", "error"}
  PROVE  DoneInv'
<1>. SUFFICES ASSUME NEW e \in pendingDone
              PROVE  \E c \in Dials :
                       dialEntry'[c] = e /\ dial'[c] \in {"ok", "error"}
  BY SMT, Z3, SMTT(20) DEF DoneInv
<1>1. PICK c \in Dials : dialEntry[c] = e /\ dial[c] \in {"ok", "error"}
  BY Zenon DEF DoneInv
<1>. QED
  BY <1>1, Zenon

(* Every step keeps the Dial that closed a doneCh. *)
LEMMA DonePreserved ==
  ASSUME TypeOK, IdInv, DoneInv, Next
  PROVE  DoneInv'
<1>. USE DEF TypeOK
<1>1. ASSUME NEW a \in Accepts, NEW id \in Ids, AcceptCall(a, id)
      PROVE  DoneInv'
  BY <1>1, Zenon DEF AcceptCall, DoneInv
<1>2. ASSUME NEW d \in Dials, NEW id \in Ids, DialCall(d, id)
      PROVE  DoneInv'
  <2>1. pendingDone' = pendingDone \cup {}
    BY <1>2, Zenon DEF DialCall
  <2>2. \A c \in Dials : dial[c] \in {"ok", "error"} =>
          dial'[c] \in {"ok", "error"} /\ dialEntry'[c] = dialEntry[c]
    BY <1>2, SMT, Z3, SMTT(20) DEF DialCall
  <2>. QED
    BY <2>1, <2>2, DoneKept, Zenon
<1>3. ASSUME NEW d \in Dials, DialExpire(d)
      PROVE  DoneInv'
  <2>1. pendingDone' = pendingDone \cup {}
    BY <1>3, Zenon DEF DialExpire
  <2>2. \A c \in Dials : dial[c] \in {"ok", "error"} =>
          dial'[c] \in {"ok", "error"} /\ dialEntry'[c] = dialEntry[c]
    BY <1>3, SMT, Z3, SMTT(20) DEF DialExpire
  <2>. QED
    BY <2>1, <2>2, DoneKept, Zenon
<1>4. ASSUME NEW d \in Dials, DialReceive(d)
      PROVE  DoneInv'
  <2>1. pendingDone' = pendingDone \cup {}
    BY <1>4, Zenon DEF DialReceive
  <2>2. \A c \in Dials : dial[c] \in {"ok", "error"} =>
          dial'[c] \in {"ok", "error"} /\ dialEntry'[c] = dialEntry[c]
    BY <1>4, SMT, Z3, SMTT(20) DEF DialReceive
  <2>. QED
    BY <2>1, <2>2, DoneKept, Zenon
<1>5. ASSUME NEW d \in Dials, DialCloseDone(d)
      PROVE  DoneInv'
  <2>1. pendingDone' = pendingDone \cup {dialEntry[d]}
    BY <1>5, Zenon DEF DialCloseDone
  <2>2. dialEntry'[d] = dialEntry[d] /\ dial'[d] \in {"ok", "error"}
    BY <1>5, SMT, Z3, SMTT(20) DEF DialCloseDone
  <2>3. \A c \in Dials : dial[c] \in {"ok", "error"} =>
          dial'[c] \in {"ok", "error"} /\ dialEntry'[c] = dialEntry[c]
    BY <1>5, SMT, Z3, SMTT(20) DEF DialCloseDone
  <2>. DEFINE S == {dialEntry[d]}
  <2>4. \A e \in S : \E c \in Dials :
          dialEntry'[c] = e /\ dial'[c] \in {"ok", "error"}
    BY <2>2, Zenon
  <2>. HIDE DEF TypeOK
  <2>. QED
    BY <2>1, <2>3, <2>4, DoneKept, ZenonT(40)
<1>6. ASSUME NEW d \in Dials, DialTimeout(d)
      PROVE  DoneInv'
  <2>1. pendingDone' = pendingDone \cup {}
    BY <1>6, Zenon DEF DialTimeout
  <2>2. \A c \in Dials : dial[c] \in {"ok", "error"} =>
          dial'[c] \in {"ok", "error"} /\ dialEntry'[c] = dialEntry[c]
    BY <1>6, SMT, Z3, SMTT(20) DEF DialTimeout
  <2>. QED
    BY <2>1, <2>2, DoneKept, Zenon
<1>7. CASE UNCHANGED <<policy, acceptId, dialVars, pendingDone, panicked>>
  BY <1>7, Zenon DEF DoneInv
<1>. HIDE DEF TypeOK
<1>. QED
  BY <1>1, <1>2, <1>3, <1>4, <1>5, <1>6, <1>7, Elsewhere, Zenon DEF DialStep

(* With ids used once, every step keeps them unique, and none panics. *)
LEMMA UniquePreserved ==
  ASSUME TypeOK, IdInv, DoneInv, UniqueInv, Next
  PROVE  UniqueInv'
<1>. USE DEF TypeOK, IdInv, UniqueInv
<1>1. ASSUME NEW a \in Accepts, NEW id \in Ids, AcceptCall(a, id)
      PROVE  UniqueInv'
  <2>. SUFFICES ASSUME policy = "unique", NEW b \in Accepts, NEW c \in Accepts,
                       acceptId'[b] = acceptId'[c], acceptId'[b] # None
                PROVE  b = c
    BY <1>1, SMT, Z3, SMTT(20) DEF AcceptCall
  <2>1. \A x \in Accepts : acceptId[x] # id
    BY <1>1, Zenon DEF AcceptCall, MayAccept
  <2>2. acceptId' = [acceptId EXCEPT ![a] = id]
    BY <1>1, Zenon DEF AcceptCall
  <2>. QED
    BY <2>1, <2>2, SMT, Z3, SMTT(20)
<1>2. ASSUME NEW d \in Dials, NEW id \in Ids, DialCall(d, id)
      PROVE  UniqueInv'
  <2>. SUFFICES ASSUME policy = "unique", NEW b \in Dials, NEW c \in Dials,
                       dialId'[b] = dialId'[c], dialId'[b] # None
                PROVE  b = c
    BY <1>2, SMT, Z3, SMTT(20) DEF DialCall
  <2>1. \A x \in Dials : dialId[x] # id
    BY <1>2, Zenon DEF DialCall, MayDial
  <2>2. dialId' = [dialId EXCEPT ![d] = id]
    BY <1>2, Zenon DEF DialCall
  <2>. QED
    BY <2>1, <2>2, SMT, Z3, SMTT(20)
<1>3. ASSUME NEW d \in Dials, DialExpire(d)
      PROVE  UniqueInv'
  BY <1>3, SMT, Z3, SMTT(20) DEF DialExpire
<1>4. ASSUME NEW d \in Dials, DialReceive(d)
      PROVE  UniqueInv'
  BY <1>4, SMT, Z3, SMTT(20) DEF DialReceive
<1>5. ASSUME NEW d \in Dials, DialCloseDone(d)
      PROVE  UniqueInv'
  <2>. SUFFICES ASSUME policy = "unique"
                PROVE  ~panicked'
    BY <1>5, SMT, Z3, SMTT(20) DEF DialCloseDone
  <2>1. ASSUME dialEntry[d] \in pendingDone
        PROVE  FALSE
    <3>1. PICK c \in Dials : dialEntry[c] = dialEntry[d]
                             /\ dial[c] \in {"ok", "error"}
      BY <2>1, Zenon DEF DoneInv
    <3>2. dial[c] # "idle" /\ dial[d] # "idle"
      BY <1>5, <3>1, Zenon DEF DialCloseDone
    <3>3. dialId[c] = dialId[d] /\ dialId[c] # None
      BY <3>1, <3>2, SMT, Z3, SMTT(20)
    <3>. QED
      BY <1>5, <3>1, <3>3, SMT, Z3, SMTT(20) DEF DialCloseDone
  <2>. QED
    BY <1>5, <2>1, Zenon DEF DialCloseDone
<1>6. ASSUME NEW d \in Dials, DialTimeout(d)
      PROVE  UniqueInv'
  BY <1>6, SMT, Z3, SMTT(20) DEF DialTimeout
<1>7. CASE UNCHANGED <<policy, acceptId, dialVars, pendingDone, panicked>>
  BY <1>7, SMT, Z3, SMTT(20)
<1>. HIDE DEF TypeOK, IdInv, UniqueInv
<1>. QED
  BY <1>1, <1>2, <1>3, <1>4, <1>5, <1>6, <1>7, Elsewhere, Zenon DEF DialStep

(* With ids used once, they stay so. *)
LEMMA UniqueIds == Spec => [](DoneInv /\ UniqueInv)
<1>1. Init => DoneInv /\ UniqueInv
  BY SMT, Z3, SMTT(20) DEF Init, DoneInv, UniqueInv
<1>2. TypeOK /\ IdInv /\ SoleOwner /\ DoneInv /\ UniqueInv /\ [Next]_vars
      => DoneInv' /\ UniqueInv'
  <2>1. DoneInv /\ UNCHANGED vars => DoneInv'
    BY Zenon DEF DoneInv, vars
  <2>2. UniqueInv /\ UNCHANGED vars => UniqueInv'
    BY SMT, Z3, SMTT(20) DEF UniqueInv, vars
  <2>. QED
    BY <2>1, <2>2, DonePreserved, UniquePreserved, Zenon
<1>. QED
  BY <1>1, <1>2, Correct, PTL DEF Spec

\* With ids from NextId Dial never closes a closed doneCh, and Run never finds
\* the channel of a ConnInfo full.
THEOREM NeverCollide == Spec => []UniqueIdsNeverCollide
<1>1. TypeOK /\ IdInv /\ SoleOwner /\ UniqueInv => UniqueIdsNeverCollide
  <2>. SUFFICES ASSUME TypeOK, IdInv, SoleOwner, UniqueInv, policy = "unique",
                       run = "route", ch[runEntry] # None
                PROVE  FALSE
    BY Zenon DEF UniqueIdsNeverCollide, UniqueInv
  <2>1. runEntry \in Entries /\ runMsg \in Accepts /\ ch[runEntry] \in Accepts
    BY SMT, Z3, SMTT(20) DEF TypeOK, IdInv
  <2>2. acceptId[ch[runEntry]] = acceptId[runMsg]
        /\ acceptId[ch[runEntry]] # None
    BY <2>1, Zenon DEF IdInv
  <2>3. ch[runEntry] = runMsg
    BY <2>1, <2>2, Zenon DEF UniqueInv
  <2>. QED
    BY <2>1, <2>3, Zenon DEF SoleOwner
<1>. QED
  BY <1>1, Correct, UniqueIds, PTL
-----------------------------------------------------------------------------
(* The refinement of Rendezvous. *)

(* A step that leaves the ids, the received ConnInfos and the successful   *)
(* Dials alone is a stutter of the abstract specification.                 *)
LEMMA Stutters ==
  ASSUME TypeOK, UNCHANGED <<dialId, acceptId, conn>>,
         \A d \in Dials : dial'[d] = "ok" <=> dial[d] = "ok"
  PROVE  UNCHANGED R!vars
<1>1. joined' = joined
  BY Zenon DEF joined
<1>2. connected' = connected
  BY Zenon DEF connected
<1>. QED
  BY <1>1, <1>2, Zenon DEF R!vars

(* getClientStream by a Dial is the abstract Dial. *)
LEMMA CallIsDial ==
  ASSUME TypeOK, IdInv, NEW d \in Dials, NEW id \in Ids, DialCall(d, id)
  PROVE  R!Dial(d, id)
<1>1. dialId[d] = None
  BY Zenon DEF DialCall, IdInv
<1>2. joined' = joined
  BY Zenon DEF DialCall, joined
<1>3. connected' = connected
  BY Zenon DEF DialCall, connected, TypeOK
<1>. QED
  BY <1>1, <1>2, <1>3, Zenon DEF DialCall, R!Dial

(* A call of Accept is the abstract Accept, whether or not it can listen. *)
LEMMA CallIsAccept ==
  ASSUME TypeOK, IdInv, NEW a \in Accepts, NEW id \in Ids, AcceptCall(a, id)
  PROVE  R!Accept(a, id)
<1>1. acceptId[a] = None
  BY Zenon DEF AcceptCall, IdInv
<1>2. joined' = joined
  BY Zenon DEF AcceptCall, joined
<1>3. connected' = connected
  BY Zenon DEF AcceptCall, connected
<1>. QED
  BY <1>1, <1>2, <1>3, Zenon DEF AcceptCall, R!Accept

(* A receive from the entry's channel is the abstract Join. *)
LEMMA ReceiveIsJoin ==
  ASSUME TypeOK, IdInv, SoleOwner, NEW d \in Dials, DialReceive(d)
  PROVE  \E a \in Accepts : R!Join(d, a)
<1>. DEFINE a == ch[dialEntry[d]]
<1>1. a \in Accepts /\ dialEntry[d] \in Entries
  BY SMT, Z3, SMTT(20) DEF DialReceive, TypeOK, IdInv
<1>2. conn[d] = None
  BY Zenon DEF DialReceive, IdInv
<1>3. dialId[d] # None /\ dialId[d] = acceptId[a]
  BY <1>1, Zenon DEF DialReceive, IdInv
<1>4. \A p \in joined : p[1] # d /\ p[2] # a
  <2>1. \A c \in Dials : conn[c] # a
    BY <1>1, Zenon DEF SoleOwner
  <2>. QED
    BY <1>2, <2>1, SMT, Z3, SMTT(20) DEF joined
<1>5. joined' = joined \cup {<<d, a>>}
  <2>1. conn' = [conn EXCEPT ![d] = a] /\ conn \in [Dials -> Accepts \cup {None}]
    BY Zenon DEF DialReceive, TypeOK
  <2>. HIDE DEF a
  <2>2. {c \in Dials : conn'[c] # None}
          = {c \in Dials : conn[c] # None} \cup {d}
    BY <1>1, <2>1, Zenon
  <2>3. \A c \in Dials : conn'[c] = IF c = d THEN a ELSE conn[c]
    BY <2>1, Zenon
  <2>. QED
    BY <1>2, <2>2, <2>3, SMT, Z3, SMTT(20) DEF joined
<1>6. connected' = connected
  BY Zenon DEF DialReceive, connected, TypeOK
<1>7. UNCHANGED <<dialId, acceptId>>
  BY Zenon DEF DialReceive
<1>8. R!Join(d, a)
  BY <1>3, <1>4, <1>5, <1>6, <1>7, Zenon DEF R!Join
<1>. QED
  BY <1>1, <1>8, Zenon

(* A Dial that closes doneCh and can use the address is the abstract       *)
(* Connect; one that cannot is a stutter.                                  *)
LEMMA CloseDoneConnects ==
  ASSUME TypeOK, IdInv, NEW d \in Dials, DialCloseDone(d)
  PROVE  R!Connect(d) \/ UNCHANGED R!vars
<1>1. CASE dial'[d] = "ok"
  <2>1. conn[d] # None /\ conn[d] \in Accepts \cup {None}
    BY Zenon DEF DialCloseDone, IdInv, TypeOK
  <2>2. <<d, conn[d]>> \in joined
    BY <2>1, Zenon DEF joined
  <2>3. connected' = connected \cup {d}
    BY <1>1, SMT, Z3, SMTT(20) DEF DialCloseDone, connected, TypeOK
  <2>4. joined' = joined
    BY Zenon DEF DialCloseDone, joined
  <2>. QED
    BY <2>1, <2>2, <2>3, <2>4, Zenon DEF DialCloseDone, R!Connect
<1>2. CASE dial'[d] # "ok"
  BY <1>2, Stutters, Zenon DEF DialCloseDone, TypeOK
<1>. QED
  BY <1>1, <1>2, Zenon

(* Every step maps to a step of Rendezvous or to a stutter. *)
LEMMA StepMaps ==
  ASSUME TypeOK, IdInv, SoleOwner, Next
  PROVE  R!Next \/ UNCHANGED R!vars
<1>1. ASSUME NEW a \in Accepts, NEW id \in Ids, AcceptCall(a, id)
      PROVE  R!Next
  BY <1>1, CallIsAccept, Zenon DEF R!Next
<1>2. ASSUME NEW d \in Dials, NEW id \in Ids, DialCall(d, id)
      PROVE  R!Next
  BY <1>2, CallIsDial, Zenon DEF R!Next
<1>3. ASSUME NEW d \in Dials, DialExpire(d)
      PROVE  UNCHANGED R!vars
  BY <1>3, Stutters, Zenon DEF DialExpire, TypeOK
<1>4. ASSUME NEW d \in Dials, DialReceive(d)
      PROVE  R!Next
  BY <1>4, ReceiveIsJoin, Zenon DEF R!Next
<1>5. ASSUME NEW d \in Dials, DialCloseDone(d)
      PROVE  R!Next \/ UNCHANGED R!vars
  BY <1>5, CloseDoneConnects, Zenon DEF R!Next
<1>6. ASSUME NEW d \in Dials, DialTimeout(d)
      PROVE  UNCHANGED R!vars
  BY <1>6, Stutters, Zenon DEF DialTimeout, TypeOK
<1>7. CASE UNCHANGED <<policy, acceptId, dialVars, pendingDone, panicked>>
  BY <1>7, Stutters, Zenon
<1>. QED
  BY <1>1, <1>2, <1>3, <1>4, <1>5, <1>6, <1>7, Elsewhere, Zenon DEF DialStep

\* GRPCBroker implements Rendezvous, whatever the calls, the ids and the fate of
\* the stream: a Dial gets the address of one Accept of its id, no address
\* reaches two Dials, and no Dial succeeds without one.
THEOREM BrokerIsRendezvous == Spec => ImplementsRendezvous
<1>1. Init => R!Init
  BY SMT, Z3, SMTT(20) DEF Init, R!Init, joined, connected
<1>2. TypeOK /\ IdInv /\ SoleOwner /\ [Next]_vars => [R!Next]_(R!vars)
  <2>1. TypeOK /\ UNCHANGED vars => UNCHANGED R!vars
    BY Stutters, Zenon DEF vars
  <2>. QED
    BY <2>1, StepMaps, Zenon
<1>. QED
  BY <1>1, <1>2, Correct, PTL DEF Spec, ImplementsRendezvous, R!Spec
-----------------------------------------------------------------------------
(* Nothing is left waiting: what the broker owes to a call.                *)

\* Where the goroutines of the stream are while it is open, and why they left.
StreamInv ==
  /\ stream = "none" => /\ sender = "off" /\ reader = "off"
                        /\ \A a \in Accepts : accept[a] # "ok"
  /\ stream = "open" => sender # "off" /\ reader \in {"recv", "hand"}
  /\ sender = "gone" => stream = "ended" \/ "accept" \in quit
  /\ run = "exited" => "dial" \in quit
  /\ \A a \in Accepts : accept[a] = "wait" => sender = "send" /\ sending = a
  /\ received # None => reader = "hand"
  /\ runMsg # None => run = "route"

(* Every step keeps that. *)
LEMMA StreamPreserved ==
  ASSUME TypeOK, IdInv, SoleOwner, StreamInv, Next
  PROVE  StreamInv'
<1>a. /\ stream \in {"none", "open", "ended"}
      /\ accept \in [Accepts -> {"idle", "send", "wait", "ok", "error"}]
      /\ sender = "send" => sending \in Accepts /\ accept[sending] = "wait"
      /\ sender \in {"off", "idle", "send", "gone"}
  BY InHand, Zenon DEF TypeOK
<1>. USE <1>a DEF StreamInv
<1>1. ASSUME NEW a \in Accepts, NEW id \in Ids, AcceptCall(a, id)
      PROVE  StreamInv'
  BY <1>1, Zenon DEF AcceptCall
<1>2. ASSUME NEW d \in Dials, NEW id \in Ids, DialCall(d, id)
      PROVE  StreamInv'
  BY <1>2, Zenon DEF DialCall
<1>3. ASSUME NEW end \in {"accept", "dial"}, Close(end)
      PROVE  StreamInv'
  BY <1>3, Zenon DEF Close
<1>4. CASE StreamOpen
  BY <1>4, Zenon DEF StreamOpen
<1>5. CASE StreamOpenFails
  BY <1>5, Zenon DEF StreamOpenFails
<1>6. CASE StreamBreaks
  BY <1>6, Zenon DEF StreamBreaks
<1>7. CASE AcceptEndReturns
  BY <1>7, Zenon DEF AcceptEndReturns
<1>8. CASE SenderSend
  <2>1. /\ sender = "send" /\ stream \in {"open", "ended"} /\ sender' = "idle"
        /\ \E r \in {"ok", "error"} : accept' = [accept EXCEPT ![sending] = r]
        /\ UNCHANGED <<stream, quit, readVars, runVars>>
    BY <1>8, Zenon DEF SenderSend
  <2>. QED
    BY <2>1, Zenon
<1>9. CASE SenderExit
  BY <1>9, Zenon DEF SenderExit
<1>10. CASE ReaderRecv
  BY <1>10, Zenon DEF ReaderRecv
<1>11. CASE ReaderReturns
  BY <1>11, Zenon DEF ReaderReturns
<1>12. CASE RunRecv
  BY <1>12, Zenon DEF RunRecv
<1>13. CASE RunExit
  BY <1>13, Zenon DEF RunExit
<1>14. CASE RunQueue
  BY <1>14, Zenon DEF RunQueue, RunNext
<1>15. CASE RunDrop
  BY <1>15, Zenon DEF RunDrop, RunNext
<1>16. ASSUME NEW d \in Dials, DialExpire(d)
      PROVE  StreamInv'
  BY <1>16, Zenon DEF DialExpire
<1>17. ASSUME NEW a \in Accepts, ReaperExpire(a)
      PROVE  StreamInv'
  BY <1>17, Zenon DEF ReaperExpire
<1>18. ASSUME NEW a \in Accepts, SendQuit(a)
      PROVE  StreamInv'
  BY <1>18, Zenon DEF SendQuit
<1>19. ASSUME NEW a \in Accepts, SendHand(a)
      PROVE  StreamInv'
  BY <1>19, Zenon DEF SendHand
<1>20. ASSUME NEW a \in Accepts, ReaperDone(a)
      PROVE  StreamInv'
  BY <1>20, Zenon DEF ReaperDone
<1>21. ASSUME NEW a \in Accepts, Reap(a)
      PROVE  StreamInv'
  BY <1>21, Zenon DEF Reap
<1>22. ASSUME NEW d \in Dials, DialReceive(d)
      PROVE  StreamInv'
  BY <1>22, Zenon DEF DialReceive
<1>23. ASSUME NEW d \in Dials, DialCloseDone(d)
      PROVE  StreamInv'
  BY <1>23, Zenon DEF DialCloseDone
<1>24. ASSUME NEW d \in Dials, DialTimeout(d)
      PROVE  StreamInv'
  BY <1>24, Zenon DEF DialTimeout
<1>25. Calls => StreamInv'
  BY <1>1, <1>2, <1>3, Zenon DEF Calls
<1>26. StreamStep => StreamInv'
  BY <1>7, <1>8, <1>9, <1>10, <1>11, Zenon DEF StreamStep
<1>27. RunStep => StreamInv'
  BY <1>12, <1>13, <1>14, <1>15, Zenon DEF RunStep
<1>28. Timer => StreamInv'
  BY <1>16, <1>17, Zenon DEF Timer
<1>29. \A a \in Accepts : AcceptStep(a) \/ ReapStep(a) => StreamInv'
  BY <1>18, <1>19, <1>20, <1>21, Zenon DEF AcceptStep, ReapStep
<1>30. \A d \in Dials : DialStep(d) => StreamInv'
  BY <1>22, <1>23, <1>24, Zenon DEF DialStep
<1>. QED
  BY <1>4, <1>5, <1>6, <1>25, <1>26, <1>27, <1>28, <1>29, <1>30, Zenon
  DEF Next, Work

-----------------------------------------------------------------------------
(* Entries are reaped.                                                     *)

Unrouted(a) == accept[a] # "ok" \/ a \in OnWire \/ received = a

\* The entry that Run may allocate for a ConnInfo it has not seen is not in use.
FreshInv ==
  \A a \in Accepts : Unrouted(a) =>
    /\ reaper[a] = "none" /\ runMsg # a /\ runEntry # a
    /\ \A id \in Ids : clientStreams[id] # a
    /\ \A d \in Dials : dialEntry[d] # a
    /\ \A b \in Accepts : reaperEntry[b] # a

\* A ConnInfo in a channel has its timeoutWait, and one that has deleted its
\* id's entry does not leave its own in the map.
ReapInv ==
  /\ runMsg # None => reaper[runMsg] = "none"
  /\ \A a \in Accepts :
       /\ reaper[a] = "none" <=> reaperEntry[a] = None
       /\ reaper[a] # "none" =>
            IdOf(reaperEntry[a]) = acceptId[a] /\ accept[a] = "ok"
       /\ reaper[a] = "gone" => \A id \in Ids : clientStreams[id] # reaperEntry[a]
  /\ \A e \in Entries : ch[e] # None => reaperEntry[ch[e]] = e

\* Every entry in the map is about to be deleted by someone.
Cared(e) ==
  \/ \E d \in Dials : dialEntry[d] = e /\ dial[d] \in {"select", "expired"}
  \/ \E a \in Accepts : reaperEntry[a] = e /\ reaper[a] \in {"wait", "delete"}
  \/ run = "route" /\ runEntry = e
CareInv == \A id \in Ids : clientStreams[id] # None => Cared(clientStreams[id])

(* No step takes a routed ConnInfo back. *)
RoutedStays == \A x \in Accepts : /\ accept[x] = "ok" => accept'[x] = "ok"
                                  /\ Unrouted(x)' => Unrouted(x)
LEMMA Routed ==
  ASSUME TypeOK, IdInv, SoleOwner, Next
  PROVE  RoutedStays
<1>a. accept \in [Accepts -> {"idle", "send", "wait", "ok", "error"}]
  BY Zenon DEF TypeOK
<1>. USE <1>a DEF RoutedStays, Unrouted
<1>1. ASSUME NEW a \in Accepts, NEW id \in Ids, AcceptCall(a, id)
      PROVE  RoutedStays
  <2>1. OnWire' = OnWire
    BY <1>1, WireKept, Zenon DEF AcceptCall
  <2>. QED
    BY <1>1, <2>1, Zenon DEF AcceptCall
<1>2. ASSUME NEW d \in Dials, NEW id \in Ids, DialCall(d, id)
      PROVE  RoutedStays
  <2>1. OnWire' = OnWire
    BY <1>2, WireKept, Zenon DEF DialCall
  <2>. QED
    BY <1>2, <2>1, Zenon DEF DialCall
<1>3. ASSUME NEW end \in {"accept", "dial"}, Close(end)
      PROVE  RoutedStays
  <2>1. OnWire' = OnWire
    BY <1>3, WireKept, Zenon DEF Close
  <2>. QED
    BY <1>3, <2>1, Zenon DEF Close
<1>4. CASE StreamOpen
  <2>1. OnWire' = OnWire
    BY <1>4, WireKept, Zenon DEF StreamOpen
  <2>. QED
    BY <1>4, <2>1, Zenon DEF StreamOpen
<1>5. CASE StreamOpenFails
  <2>1. OnWire' = OnWire
    BY <1>5, WireKept, Zenon DEF StreamOpenFails
  <2>. QED
    BY <1>5, <2>1, Zenon DEF StreamOpenFails
<1>6. CASE StreamBreaks
  <2>1. OnWire' = OnWire
    BY <1>6, WireKept, Zenon DEF StreamBreaks
  <2>. QED
    BY <1>6, <2>1, Zenon DEF StreamBreaks
<1>7. CASE AcceptEndReturns
  <2>1. OnWire' = OnWire
    BY <1>7, WireKept, Zenon DEF AcceptEndReturns
  <2>. QED
    BY <1>7, <2>1, Zenon DEF AcceptEndReturns
<1>8. CASE SenderSend
  <2>1. sending \in Accepts /\ accept[sending] = "wait" /\ received' = received
    BY <1>8, InHand, Zenon DEF SenderSend
  <2>2. PICK r \in {"ok", "error"} : accept' = [accept EXCEPT ![sending] = r]
    BY <1>8, Zenon DEF SenderSend
  <2>3. \A x \in OnWire' : x \in OnWire \/ x = sending
    <3>1. CASE wire' = wire
      BY <3>1, WireKept, Zenon
    <3>2. CASE wire' = Append(wire, sending)
      <4>1. sending \notin OnWire
        BY <2>1, Zenon DEF SoleOwner
      <4>2. wire \in Seq(Accepts) /\ WireDistinct
        BY Zenon DEF TypeOK, SoleOwner
      <4>3. OnWire' = OnWire \cup {sending}
        BY <2>1, <3>2, <4>1, <4>2, Appended, Zenon
      <4>. QED
        BY <4>3, Zenon
    <3>. QED
      BY <1>8, <3>1, <3>2, Zenon DEF SenderSend
  <2>. QED
    BY <2>1, <2>2, <2>3, Zenon
<1>9. CASE SenderExit
  <2>1. OnWire' = OnWire
    BY <1>9, WireKept, Zenon DEF SenderExit
  <2>. QED
    BY <1>9, <2>1, Zenon DEF SenderExit
<1>10. CASE ReaderRecv
  <2>1. Head(wire) \in OnWire /\ OnWire' = OnWire \ {Head(wire)}
    BY <1>10, Taken, Zenon DEF ReaderRecv, TypeOK, SoleOwner
  <2>. QED
    BY <1>10, <2>1, Zenon DEF ReaderRecv
<1>11. CASE ReaderReturns
  <2>1. OnWire' = OnWire
    BY <1>11, WireKept, Zenon DEF ReaderReturns
  <2>. QED
    BY <1>11, <2>1, Zenon DEF ReaderReturns
<1>12. CASE RunRecv
  <2>1. OnWire' = OnWire
    BY <1>12, WireKept, Zenon DEF RunRecv
  <2>. QED
    BY <1>12, <2>1, Zenon DEF RunRecv
<1>13. CASE RunExit
  <2>1. OnWire' = OnWire
    BY <1>13, WireKept, Zenon DEF RunExit
  <2>. QED
    BY <1>13, <2>1, Zenon DEF RunExit
<1>14. CASE RunQueue
  <2>1. OnWire' = OnWire
    BY <1>14, WireKept, Zenon DEF RunQueue
  <2>. QED
    BY <1>14, <2>1, Zenon DEF RunQueue
<1>15. CASE RunDrop
  <2>1. OnWire' = OnWire
    BY <1>15, WireKept, Zenon DEF RunDrop
  <2>. QED
    BY <1>15, <2>1, Zenon DEF RunDrop
<1>16. ASSUME NEW d \in Dials, DialExpire(d)
      PROVE  RoutedStays
  <2>1. OnWire' = OnWire
    BY <1>16, WireKept, Zenon DEF DialExpire
  <2>. QED
    BY <1>16, <2>1, Zenon DEF DialExpire
<1>17. ASSUME NEW a \in Accepts, ReaperExpire(a)
      PROVE  RoutedStays
  <2>1. OnWire' = OnWire
    BY <1>17, WireKept, Zenon DEF ReaperExpire
  <2>. QED
    BY <1>17, <2>1, Zenon DEF ReaperExpire
<1>18. ASSUME NEW a \in Accepts, SendQuit(a)
      PROVE  RoutedStays
  <2>1. OnWire' = OnWire
    BY <1>18, WireKept, Zenon DEF SendQuit
  <2>. QED
    BY <1>18, <2>1, Zenon DEF SendQuit
<1>19. ASSUME NEW a \in Accepts, SendHand(a)
      PROVE  RoutedStays
  <2>1. OnWire' = OnWire
    BY <1>19, WireKept, Zenon DEF SendHand
  <2>. QED
    BY <1>19, <2>1, Zenon DEF SendHand
<1>20. ASSUME NEW a \in Accepts, ReaperDone(a)
      PROVE  RoutedStays
  <2>1. OnWire' = OnWire
    BY <1>20, WireKept, Zenon DEF ReaperDone
  <2>. QED
    BY <1>20, <2>1, Zenon DEF ReaperDone
<1>21. ASSUME NEW a \in Accepts, Reap(a)
      PROVE  RoutedStays
  <2>1. OnWire' = OnWire
    BY <1>21, WireKept, Zenon DEF Reap
  <2>. QED
    BY <1>21, <2>1, Zenon DEF Reap
<1>22. ASSUME NEW d \in Dials, DialReceive(d)
      PROVE  RoutedStays
  <2>1. OnWire' = OnWire
    BY <1>22, WireKept, Zenon DEF DialReceive
  <2>. QED
    BY <1>22, <2>1, Zenon DEF DialReceive
<1>23. ASSUME NEW d \in Dials, DialCloseDone(d)
      PROVE  RoutedStays
  <2>1. OnWire' = OnWire
    BY <1>23, WireKept, Zenon DEF DialCloseDone
  <2>. QED
    BY <1>23, <2>1, Zenon DEF DialCloseDone
<1>24. ASSUME NEW d \in Dials, DialTimeout(d)
      PROVE  RoutedStays
  <2>1. OnWire' = OnWire
    BY <1>24, WireKept, Zenon DEF DialTimeout
  <2>. QED
    BY <1>24, <2>1, Zenon DEF DialTimeout
<1>25. Calls => RoutedStays
  BY <1>1, <1>2, <1>3, Zenon DEF Calls
<1>26. StreamStep => RoutedStays
  BY <1>7, <1>8, <1>9, <1>10, <1>11, Zenon DEF StreamStep
<1>27. RunStep => RoutedStays
  BY <1>12, <1>13, <1>14, <1>15, Zenon DEF RunStep
<1>28. Timer => RoutedStays
  BY <1>16, <1>17, Zenon DEF Timer
<1>29. \A a \in Accepts : AcceptStep(a) \/ ReapStep(a) => RoutedStays
  BY <1>18, <1>19, <1>20, <1>21, Zenon DEF AcceptStep, ReapStep
<1>30. \A d \in Dials : DialStep(d) => RoutedStays
  BY <1>22, <1>23, <1>24, Zenon DEF DialStep
<1>. QED
  BY <1>4, <1>5, <1>6, <1>25, <1>26, <1>27, <1>28, <1>29, <1>30, Zenon
  DEF Next, Work

(* Calls, Run, Dial and timeoutWait are the steps that touch an entry. *)
LEMMA EntrySteps ==
  ASSUME Next
  PROVE  \/ UNCHANGED <<acceptId, runVars, clientStreams, ch, dialVars, reapVars>>
         \/ \E a \in Accepts, id \in Ids : AcceptCall(a, id)
         \/ \E d \in Dials, id \in Ids : DialCall(d, id)
         \/ RunRecv \/ RunExit \/ RunQueue \/ RunDrop
         \/ \E d \in Dials : DialExpire(d) \/ DialStep(d)
         \/ \E a \in Accepts : ReaperExpire(a) \/ ReapStep(a)
<1>. DEFINE Same ==
       UNCHANGED <<acceptId, runVars, clientStreams, ch, dialVars, reapVars>>
<1>1. \A end \in {"accept", "dial"} : Close(end) => Same
  BY Zenon DEF Close
<1>2. StreamOpen \/ StreamOpenFails \/ StreamBreaks => Same
  BY Zenon DEF StreamOpen, StreamOpenFails, StreamBreaks
<1>3. StreamStep => Same
  BY Zenon DEF StreamStep, AcceptEndReturns, SenderSend, SenderExit,
       ReaderRecv, ReaderReturns
<1>4. \A a \in Accepts : AcceptStep(a) => Same
  BY Zenon DEF AcceptStep, SendQuit, SendHand
<1>. HIDE DEF Same
<1>5. \/ Same
      \/ \E a \in Accepts, id \in Ids : AcceptCall(a, id)
      \/ \E d \in Dials, id \in Ids : DialCall(d, id)
      \/ RunRecv \/ RunExit \/ RunQueue \/ RunDrop
      \/ \E d \in Dials : DialExpire(d) \/ DialStep(d)
      \/ \E a \in Accepts : ReaperExpire(a) \/ ReapStep(a)
  BY <1>1, <1>2, <1>3, <1>4, Zenon DEF Next, Calls, Work, Timer, RunStep
<1>. QED
  BY <1>5, Zenon DEF Same

(* Every step keeps the entries of unseen ConnInfos unused. *)
LEMMA FreshPreserved ==
  ASSUME TypeOK, IdInv, SoleOwner, FreshInv, Next
  PROVE  FreshInv'
<1>a. /\ runMsg \in Accepts \cup {None} /\ runEntry \in Entries \cup {None}
      /\ clientStreams \in [Ids -> Entries \cup {None}]
      /\ ch \in [Entries -> Accepts \cup {None}]
      /\ dial \in [Dials -> {"idle", "select", "close", "ok", "error",
                             "expired", "timeout"}]
      /\ dialId \in [Dials -> Ids \cup {None}]
      /\ dialEntry \in [Dials -> Entries \cup {None}]
      /\ reaper \in [Accepts -> {"none", "wait", "delete", "gone"}]
      /\ reaperEntry \in [Accepts -> Entries \cup {None}]
  BY Zenon DEF TypeOK
<1>b. /\ reader = "hand" => received \in Accepts /\ acceptId[received] \in Ids
      /\ run = "route" => /\ runMsg \in Accepts /\ acceptId[runMsg] \in Ids
                          /\ runEntry \in Entries
      /\ \A d \in Dials : dial[d] # "idle" =>
           dialId[d] \in Ids /\ dialEntry[d] \in Entries
  BY InHand, Zenon
<1>c. \A x \in Accepts : Unrouted(x)' => Unrouted(x)
  BY Routed, Zenon DEF RoutedStays
<1>d. \A d \in Dials, x \in Accepts : d # x
  BY Zenon
<1>. USE <1>a, <1>b, <1>c DEF FreshInv
<1>1. ASSUME NEW a \in Accepts, NEW id \in Ids, AcceptCall(a, id)
      PROVE  FreshInv'
  BY <1>1, Zenon DEF AcceptCall
<1>2. ASSUME NEW d \in Dials, NEW id \in Ids, DialCall(d, id)
      PROVE  FreshInv'
  <2>1. /\ clientStreams' = [clientStreams EXCEPT ![id] = EntryOf(id, d)]
        /\ dialEntry' = [dialEntry EXCEPT ![d] = EntryOf(id, d)]
        /\ UNCHANGED <<runMsg, runEntry, reaper, reaperEntry>>
    BY <1>2, Zenon DEF DialCall, GetClientStream
  <2>2. \A x \in Accepts : d # x
    BY <1>d, Zenon
  <2>3. \A x \in Accepts : Unrouted(x) => EntryOf(id, d) # x
    BY <2>2, Zenon DEF EntryOf
  <2>. QED
    BY <2>1, <2>3, Zenon
<1>3. CASE RunRecv
  <2>1. PICK b \in Accepts, id \in Ids : b = received /\ id = acceptId[b]
    BY <1>3, Zenon DEF RunRecv
  <2>2. /\ clientStreams' = [clientStreams EXCEPT ![id] = EntryOf(id, b)]
        /\ runEntry' = EntryOf(id, b) /\ runMsg' = b /\ received' = None
        /\ UNCHANGED <<accept, wire, dialEntry, reaper, reaperEntry>>
    BY <1>3, <2>1, Zenon DEF RunRecv, GetClientStream
  <2>3. accept[b] = "ok" /\ b \notin OnWire /\ OnWire' = OnWire
    BY <2>1, <2>2, WireKept, Zenon DEF SoleOwner
  <2>4. \A x \in Accepts : Unrouted(x)' => x # b
    BY <2>2, <2>3, Zenon DEF Unrouted
  <2>5. \A x \in Accepts : Unrouted(x)' => EntryOf(id, b) # x
    BY <2>4, Zenon DEF EntryOf
  <2>. QED
    BY <2>2, <2>4, <2>5, Zenon
<1>4. CASE RunExit
  BY <1>4, Zenon DEF RunExit
<1>5. CASE RunQueue
  <2>1. /\ reaper' = [reaper EXCEPT ![runMsg] = "wait"]
        /\ reaperEntry' = [reaperEntry EXCEPT ![runMsg] = runEntry]
        /\ runMsg' = None /\ runEntry' = None
        /\ UNCHANGED <<clientStreams, dialEntry>>
    BY <1>5, Zenon DEF RunQueue, RunNext
  <2>. QED
    BY <2>1, Zenon
<1>6. CASE RunDrop
  BY <1>6, Zenon DEF RunDrop, RunNext
<1>7. ASSUME NEW d \in Dials, DialExpire(d)
      PROVE  FreshInv'
  BY <1>7, Zenon DEF DialExpire
<1>8. ASSUME NEW d \in Dials, DialReceive(d)
      PROVE  FreshInv'
  BY <1>8, Zenon DEF DialReceive
<1>9. ASSUME NEW d \in Dials, DialCloseDone(d)
      PROVE  FreshInv'
  BY <1>9, Zenon DEF DialCloseDone
<1>10. ASSUME NEW d \in Dials, DialTimeout(d)
      PROVE  FreshInv'
  BY <1>10, Zenon DEF DialTimeout
<1>11. ASSUME NEW a \in Accepts, ReaperExpire(a)
      PROVE  FreshInv'
  BY <1>11, Zenon DEF ReaperExpire
<1>12. ASSUME NEW a \in Accepts, ReaperDone(a)
      PROVE  FreshInv'
  BY <1>12, Zenon DEF ReaperDone
<1>13. ASSUME NEW a \in Accepts, Reap(a)
      PROVE  FreshInv'
  <2>1. /\ clientStreams' = [clientStreams EXCEPT ![acceptId[a]] = None]
        /\ reaper' = [reaper EXCEPT ![a] = "gone"] /\ reaper[a] = "delete"
        /\ UNCHANGED <<runMsg, runEntry, dialEntry, reaperEntry>>
    BY <1>13, Zenon DEF Reap
  <2>. QED
    BY <2>1, Zenon
<1>14. CASE UNCHANGED <<acceptId, runVars, clientStreams, ch, dialVars, reapVars>>
  BY <1>14, Zenon
<1>. HIDE <1>a, <1>b, <1>c DEF FreshInv
<1>. QED
  BY <1>1, <1>2, <1>3, <1>4, <1>5, <1>6, <1>7, <1>8, <1>9, <1>10, <1>11, <1>12,
     <1>13, <1>14, EntrySteps, Zenon DEF DialStep, ReapStep

(* Every step keeps a ConnInfo in a channel with its timeoutWait. *)
LEMMA ReapPreserved ==
  ASSUME TypeOK, IdInv, SoleOwner, FreshInv, ReapInv, Next
  PROVE  ReapInv'
<1>a. /\ runMsg \in Accepts \cup {None} /\ runEntry \in Entries \cup {None}
      /\ clientStreams \in [Ids -> Entries \cup {None}]
      /\ ch \in [Entries -> Accepts \cup {None}]
      /\ dial \in [Dials -> {"idle", "select", "close", "ok", "error",
                             "expired", "timeout"}]
      /\ dialId \in [Dials -> Ids \cup {None}]
      /\ dialEntry \in [Dials -> Entries \cup {None}]
      /\ reaper \in [Accepts -> {"none", "wait", "delete", "gone"}]
      /\ reaperEntry \in [Accepts -> Entries \cup {None}]
  BY Zenon DEF TypeOK
<1>b. /\ reader = "hand" => received \in Accepts /\ acceptId[received] \in Ids
      /\ run = "route" => /\ runMsg \in Accepts /\ acceptId[runMsg] \in Ids
                          /\ runEntry \in Entries
      /\ \A d \in Dials : dial[d] # "idle" =>
           dialId[d] \in Ids /\ dialEntry[d] \in Entries
  BY InHand, Zenon
<1>c. \A x \in Accepts : accept[x] = "ok" => accept'[x] = "ok"
  BY Routed, Zenon DEF RoutedStays
<1>d. \A x \in Accepts : reaper[x] # "none" =>
        acceptId[x] # None /\ reaperEntry[x] \in Entries
  <2>1. \A x \in Accepts : accept[x] = "ok" => acceptId[x] # None
    BY Zenon DEF IdInv
  <2>2. \A x \in Accepts : reaper[x] # "none" =>
          accept[x] = "ok" /\ reaperEntry[x] # None
    BY Zenon DEF ReapInv
  <2>. QED
    BY <1>a, <2>1, <2>2, Zenon
<1>e. \A i \in Ids : clientStreams[i] # None => IdOf(clientStreams[i]) = i
  BY Zenon DEF IdInv
<1>f. \A x \in Accepts : reaper[x] # "none" =>
        IdOf(reaperEntry[x]) = acceptId[x] /\ accept[x] = "ok"
  BY Zenon DEF ReapInv
<1>g. \A x \in Accepts : reaper[x] = "gone" =>
        \A i \in Ids : clientStreams[i] # reaperEntry[x]
  BY Zenon DEF ReapInv
<1>h. \A e \in Entries : ch[e] # None => reaperEntry[ch[e]] = e
  BY Zenon DEF ReapInv
<1>. USE <1>a, <1>b, <1>c DEF ReapInv
<1>1. ASSUME NEW a \in Accepts, NEW id \in Ids, AcceptCall(a, id)
      PROVE  ReapInv'
  <2>1. /\ acceptId' = [acceptId EXCEPT ![a] = id] /\ acceptId[a] = None
        /\ UNCHANGED <<runMsg, clientStreams, ch, reaper, reaperEntry, dialId>>
    BY <1>1, Zenon DEF AcceptCall, IdInv
  <2>2. \A x \in Accepts : acceptId[x] # None => acceptId'[x] = acceptId[x]
    BY <2>1, ZenonT(40) DEF TypeOK
  <2>3. \A e \in Entries : IdOf(e) # None => IdOf(e)' = IdOf(e)
    BY <2>1, <2>2, IdsGrow, Zenon
  <2>. QED
    <3>1. \A x \in Accepts : reaper[x] # "none" =>
            acceptId'[x] = acceptId[x] /\ IdOf(reaperEntry[x])' = acceptId[x]
      <4>. HIDE DEF ReapInv
      <4>. QED
        BY <1>d, <1>f, <2>1, <2>2, <2>3, Zenon
    <3>. QED
      BY <2>1, <3>1, ZenonT(40)
<1>2. ASSUME NEW d \in Dials, NEW id \in Ids, DialCall(d, id)
      PROVE  ReapInv'
  <2>1. /\ clientStreams' = [clientStreams EXCEPT ![id] = EntryOf(id, d)]
        /\ dialId' = [dialId EXCEPT ![d] = id] /\ dialId[d] = None
        /\ UNCHANGED <<runMsg, acceptId, accept, ch, reaper, reaperEntry>>
    BY <1>2, Zenon DEF DialCall, GetClientStream, IdInv
  <2>2. \A x \in Dials : dialId[x] # None => dialId'[x] = dialId[x]
    BY <2>1, Zenon
  <2>3. \A e \in Entries : IdOf(e) # None => IdOf(e)' = IdOf(e)
    BY <2>1, <2>2, IdsGrow, Zenon
  <2>4. \A x \in Accepts : reaper[x] # "none" => reaperEntry[x] # d
    BY <1>d, <2>1, ZenonT(40) DEF IdOf
  <2>5. \A x \in Accepts : reaper[x] = "gone" => EntryOf(id, d) # reaperEntry[x]
    BY <2>4, Zenon DEF EntryOf
  <2>6. \A x \in Accepts : reaper[x] = "gone" =>
          \A i \in Ids : clientStreams'[i] # reaperEntry[x]
    BY <2>1, <2>5, Zenon
  <2>. QED
    <3>1. \A x \in Accepts : reaper[x] # "none" =>
            IdOf(reaperEntry[x])' = acceptId[x]
      <4>. HIDE DEF ReapInv
      <4>. QED
        BY <1>d, <1>f, <2>1, <2>3, Zenon
    <3>. QED
      BY <2>1, <2>6, <3>1, ZenonT(40)
<1>3. CASE RunRecv
  <2>1. PICK b \in Accepts, id \in Ids : b = received /\ id = acceptId[b]
    BY <1>3, Zenon DEF RunRecv
  <2>2. /\ clientStreams' = [clientStreams EXCEPT ![id] = EntryOf(id, b)]
        /\ runMsg' = b
        /\ UNCHANGED <<accept, acceptId, dialId, ch, reaper, reaperEntry>>
    BY <1>3, <2>1, Zenon DEF RunRecv, GetClientStream
  <2>3. reaper[b] = "none" /\ \A x \in Accepts : reaperEntry[x] # b
    BY <2>1, Zenon DEF FreshInv, Unrouted
  <2>4. \A x \in Accepts : reaper[x] = "gone" => EntryOf(id, b) # reaperEntry[x]
    BY <2>3, Zenon DEF EntryOf
  <2>5. \A e : IdOf(e)' = IdOf(e)
    BY <2>2, Zenon DEF IdOf
  <2>6. \A x \in Accepts : reaper[x] = "gone" =>
          \A i \in Ids : clientStreams'[i] # reaperEntry[x]
    BY <2>2, <2>4, Zenon
  <2>. QED
    BY <2>2, <2>3, <2>5, <2>6, Zenon
<1>4. CASE RunExit
  <2>1. \A e : IdOf(e)' = IdOf(e)
    BY <1>4, Zenon DEF RunExit, IdOf
  <2>. QED
    BY <1>4, <2>1, Zenon DEF RunExit
<1>5. CASE RunQueue
  <2>1. PICK m \in Accepts, f \in Entries : m = runMsg /\ f = runEntry
    BY <1>5, Zenon DEF RunQueue
  <2>2. /\ ch' = [ch EXCEPT ![f] = m]
        /\ reaper' = [reaper EXCEPT ![m] = "wait"]
        /\ reaperEntry' = [reaperEntry EXCEPT ![m] = f]
        /\ runMsg' = None /\ run = "route"
        /\ UNCHANGED <<clientStreams, accept, acceptId, dialId>>
    BY <1>5, <2>1, Zenon DEF RunQueue, RunNext
  <2>3. IdOf(f) = acceptId[m] /\ accept[m] = "ok" /\ m # None /\ f # None
    BY <2>1, <2>2, Zenon DEF IdInv, SoleOwner
  <2>4. \A e \in Entries : ch[e] # m
    BY <2>1, <2>3, Zenon DEF SoleOwner
  <2>. HIDE DEF ReapInv
  <2>5. \A e : IdOf(e)' = IdOf(e)
    BY <2>2, Zenon DEF IdOf
  <2>6. /\ reaper'[m] = "wait" /\ reaperEntry'[m] = f /\ ch'[f] = m
        /\ \A x \in Accepts : x # m =>
             reaper'[x] = reaper[x] /\ reaperEntry'[x] = reaperEntry[x]
        /\ \A e \in Entries : e # f => ch'[e] = ch[e]
    BY <2>2, Zenon
  <2>7. \A e \in Entries : ch'[e] # None => reaperEntry'[ch'[e]] = e
    <3>1. \A e \in Entries : e # f /\ ch[e] # None =>
            ch[e] \in Accepts /\ reaperEntry'[ch[e]] = e
      <4>1. \A e \in Entries : ch[e] # None => ch[e] \in Accepts /\ ch[e] # m
        BY <2>4, Zenon
      <4>. QED
        BY <1>h, <2>6, <4>1, Zenon
    <3>. QED
      BY <2>6, <3>1, ZenonT(40)
  <2>8. \A x \in Accepts : reaper'[x] = "none" <=> reaperEntry'[x] = None
    <3>1. \A x \in Accepts : reaper[x] = "none" <=> reaperEntry[x] = None
      BY Zenon DEF ReapInv
    <3>. QED
      BY <2>3, <2>6, <3>1, Zenon
  <2>9. \A x \in Accepts : reaper'[x] # "none" =>
          IdOf(reaperEntry'[x]) = acceptId[x] /\ accept[x] = "ok"
    BY <1>f, <2>3, <2>6, ZenonT(40)
  <2>10. \A x \in Accepts : reaper'[x] = "gone" =>
           \A i \in Ids : clientStreams[i] # reaperEntry'[x]
    <3>. SUFFICES ASSUME NEW x \in Accepts, reaper'[x] = "gone"
                  PROVE  \A i \in Ids : clientStreams[i] # reaperEntry'[x]
      BY Zenon
    <3>1. reaper[x] = "gone" /\ reaperEntry'[x] = reaperEntry[x]
      BY <2>6, Zenon
    <3>. QED
      BY <1>g, <3>1, Zenon
  <2>11. \A x \in Accepts :
           (reaper[x] # "none" => IdOf(reaperEntry[x]) = acceptId[x]
                                  /\ accept[x] = "ok")'
    BY <2>2, <2>5, <2>9, Zenon
  <2>12. \A x \in Accepts : (reaper[x] = "gone" =>
           \A i \in Ids : clientStreams[i] # reaperEntry[x])'
    BY <2>2, <2>10, Zenon
  <2>. QED
    <3>. HIDE <1>a, <1>b, <1>c
    <3>. QED
      BY <2>2, <2>7, <2>8, <2>11, <2>12, Zenon DEF ReapInv
<1>6. CASE RunDrop
  <2>1. \A e : IdOf(e)' = IdOf(e)
    BY <1>6, Zenon DEF RunDrop, RunNext, IdOf
  <2>. QED
    BY <1>6, <2>1, Zenon DEF RunDrop, RunNext
<1>7. ASSUME NEW d \in Dials, DialExpire(d)
      PROVE  ReapInv'
  <2>1. \A e : IdOf(e)' = IdOf(e)
    BY <1>7, Zenon DEF DialExpire, IdOf
  <2>. QED
    BY <1>7, <2>1, Zenon DEF DialExpire
<1>8. ASSUME NEW d \in Dials, DialReceive(d)
      PROVE  ReapInv'
  <2>1. \A e : IdOf(e)' = IdOf(e)
    BY <1>8, Zenon DEF DialReceive, IdOf
  <2>. QED
    BY <1>8, <2>1, Zenon DEF DialReceive
<1>9. ASSUME NEW d \in Dials, DialCloseDone(d)
      PROVE  ReapInv'
  <2>1. \A e : IdOf(e)' = IdOf(e)
    BY <1>9, Zenon DEF DialCloseDone, IdOf
  <2>. QED
    BY <1>9, <2>1, Zenon DEF DialCloseDone
<1>10. ASSUME NEW d \in Dials, DialTimeout(d)
      PROVE  ReapInv'
  <2>1. /\ clientStreams' = [clientStreams EXCEPT ![dialId[d]] = None]
        /\ UNCHANGED <<runMsg, ch, reaper, reaperEntry, accept, acceptId, dialId>>
    BY <1>10, Zenon DEF DialTimeout
  <2>2. \A i \in Ids : clientStreams'[i] = clientStreams[i] \/ clientStreams'[i] = None
    BY <2>1, Zenon
  <2>3. \A e : IdOf(e)' = IdOf(e)
    BY <2>1, Zenon DEF IdOf
  <2>4. \A x \in Accepts : reaper[x] = "gone" => reaperEntry[x] # None
    BY Zenon
  <2>. HIDE <1>a, <1>b, <1>c DEF ReapInv
  <2>5. \A x \in Accepts : reaper[x] = "gone" =>
          \A i \in Ids : clientStreams'[i] # reaperEntry[x]
    BY <1>g, <2>2, <2>4, Zenon
  <2>. QED
    BY <2>1, <2>3, <2>5, ZenonT(40) DEF ReapInv
<1>11. ASSUME NEW a \in Accepts, ReaperExpire(a)
      PROVE  ReapInv'
  <2>1. \A e : IdOf(e)' = IdOf(e)
    BY <1>11, Zenon DEF ReaperExpire, IdOf
  <2>. QED
    BY <1>11, <2>1, ZenonT(40) DEF ReaperExpire
<1>12. ASSUME NEW a \in Accepts, ReaperDone(a)
      PROVE  ReapInv'
  <2>1. \A e : IdOf(e)' = IdOf(e)
    BY <1>12, Zenon DEF ReaperDone, IdOf
  <2>. QED
    BY <1>12, <2>1, ZenonT(40) DEF ReaperDone
<1>13. ASSUME NEW a \in Accepts, Reap(a)
      PROVE  ReapInv'
  <2>1. /\ clientStreams' = [clientStreams EXCEPT ![acceptId[a]] = None]
        /\ reaper' = [reaper EXCEPT ![a] = "gone"] /\ reaper[a] = "delete"
        /\ UNCHANGED <<runMsg, ch, reaperEntry, accept, acceptId, dialId>>
    BY <1>13, Zenon DEF Reap
  <2>. HIDE DEF ReapInv
  <2>2. \A i \in Ids : clientStreams[i] = reaperEntry[a] => i = acceptId[a]
    <3>1. reaperEntry[a] # None /\ IdOf(reaperEntry[a]) = acceptId[a]
      BY <1>f, <2>1, Zenon DEF ReapInv
    <3>. QED
      BY <1>e, <3>1, Zenon
  <2>3. \A e : IdOf(e)' = IdOf(e)
    BY <2>1, Zenon DEF IdOf
  <2>4. \A i \in Ids : clientStreams'[i] # reaperEntry[a]
    <3>1. reaperEntry[a] # None
      BY <2>1, Zenon DEF ReapInv
    <3>. QED
      BY <2>1, <2>2, <3>1, Zenon
  <2>5. \A i \in Ids : clientStreams'[i] = clientStreams[i] \/ clientStreams'[i] = None
    BY <2>1, Zenon
  <2>6. \A x \in Accepts : reaper'[x] = "gone" =>
          \A i \in Ids : clientStreams'[i] # reaperEntry[x]
    <3>1. \A x \in Accepts : x # a /\ reaper'[x] = "gone" => reaper[x] = "gone"
      BY <2>1, Zenon
    <3>2. \A x \in Accepts : reaper[x] = "gone" => reaperEntry[x] # None
      BY Zenon DEF ReapInv
    <3>. QED
      BY <1>g, <2>4, <2>5, <3>1, <3>2, Zenon
  <2>7. /\ \A x \in Accepts : reaper'[x] = "none" <=> reaper[x] = "none"
        /\ runMsg # None => reaper'[runMsg] = "none"
    <3>1. runMsg # None => runMsg \in Accepts /\ reaper[runMsg] = "none"
      BY Zenon DEF ReapInv
    <3>. QED
      BY <2>1, <3>1, Zenon
  <2>. QED
    BY <2>1, <2>3, <2>6, <2>7, ZenonT(40) DEF ReapInv
<1>14. CASE UNCHANGED <<acceptId, runVars, clientStreams, ch, dialVars, reapVars>>
  <2>1. \A e : IdOf(e)' = IdOf(e)
    BY <1>14, Zenon DEF IdOf
  <2>. QED
    BY <1>14, <2>1, Zenon
<1>. HIDE <1>a, <1>b, <1>c DEF ReapInv
<1>. QED
  BY <1>1, <1>2, <1>3, <1>4, <1>5, <1>6, <1>7, <1>8, <1>9, <1>10, <1>11, <1>12,
     <1>13, <1>14, EntrySteps, Zenon DEF DialStep, ReapStep

(* What it takes to show that after a step. *)
LEMMA CareKept ==
  ASSUME \A i \in Ids : clientStreams'[i] # None =>
           \E e : e = clientStreams'[i] /\ Cared(e)'
  PROVE  CareInv'
BY Zenon DEF CareInv, Cared

(* Every step leaves each entry in the map with one who deletes it. *)
LEMMA CarePreserved ==
  ASSUME TypeOK, IdInv, SoleOwner, ReapInv, CareInv, Next
  PROVE  CareInv'
<1>a. /\ runMsg \in Accepts \cup {None} /\ runEntry \in Entries \cup {None}
      /\ clientStreams \in [Ids -> Entries \cup {None}]
      /\ ch \in [Entries -> Accepts \cup {None}]
      /\ dial \in [Dials -> {"idle", "select", "close", "ok", "error",
                             "expired", "timeout"}]
      /\ dialId \in [Dials -> Ids \cup {None}]
      /\ dialEntry \in [Dials -> Entries \cup {None}]
      /\ reaper \in [Accepts -> {"none", "wait", "delete", "gone"}]
      /\ reaperEntry \in [Accepts -> Entries \cup {None}]
  BY Zenon DEF TypeOK
<1>b. /\ reader = "hand" => received \in Accepts /\ acceptId[received] \in Ids
      /\ run = "route" => /\ runMsg \in Accepts /\ acceptId[runMsg] \in Ids
                          /\ runEntry \in Entries
      /\ \A d \in Dials : dial[d] # "idle" =>
           dialId[d] \in Ids /\ dialEntry[d] \in Entries
  BY InHand, Zenon
<1>c. \A e \in Entries, i \in Ids : ch[e] # None /\ clientStreams[i] = e =>
        \E x \in Accepts : reaperEntry[x] = e /\ reaper[x] \in {"wait", "delete"}
  <2>. SUFFICES ASSUME NEW e \in Entries, NEW i \in Ids, ch[e] # None,
                       clientStreams[i] = e
                PROVE  /\ ch[e] \in Accepts /\ reaperEntry[ch[e]] = e
                       /\ reaper[ch[e]] \in {"wait", "delete"}
    BY Zenon
  <2>0. e # None
    BY Zenon DEF Entries
  <2>1. ch[e] \in Accepts /\ reaperEntry[ch[e]] = e
    <3>1. ch[e] \in Accepts
      BY <1>a, Zenon
    <3>. QED
      BY <3>1, Zenon DEF ReapInv
  <2>2. reaper[ch[e]] # "none" /\ reaper[ch[e]] # "gone"
    BY <2>0, <2>1, Zenon DEF ReapInv
  <2>. QED
    BY <1>a, <2>1, <2>2, Zenon
<1>d. \A i \in Ids : clientStreams[i] # None => IdOf(clientStreams[i]) = i
  BY Zenon DEF IdInv
<1>e. \A x \in Dials : dial[x] # "idle" => IdOf(dialEntry[x]) = dialId[x]
  BY Zenon DEF IdInv
<1>f. \A x \in Accepts : reaper[x] # "none" => IdOf(reaperEntry[x]) = acceptId[x]
  BY Zenon DEF ReapInv
<1>g. \A i \in Ids : clientStreams[i] # None => Cared(clientStreams[i])
  BY Zenon DEF CareInv
<1>. USE <1>a, <1>b DEF CareInv, Cared
<1>1. ASSUME NEW a \in Accepts, NEW id \in Ids, AcceptCall(a, id)
      PROVE  CareInv'
  BY <1>1, Zenon DEF AcceptCall
<1>2. ASSUME NEW d \in Dials, NEW id \in Ids, DialCall(d, id)
      PROVE  CareInv'
  <2>1. /\ clientStreams' = [clientStreams EXCEPT ![id] = EntryOf(id, d)]
        /\ dialEntry' = [dialEntry EXCEPT ![d] = EntryOf(id, d)]
        /\ dial' = [dial EXCEPT ![d] = "select"] /\ dial[d] = "idle"
        /\ UNCHANGED <<run, runEntry, reaper, reaperEntry>>
    BY <1>2, Zenon DEF DialCall, GetClientStream
  <2>2. PICK f : f = EntryOf(id, d)
    BY Zenon
  <2>3. /\ dialEntry'[d] = f /\ dial'[d] = "select"
        /\ \A i \in Ids : clientStreams'[i] = f \/ clientStreams'[i] = clientStreams[i]
        /\ \A x \in Dials : dial[x] # "idle" =>
             dial'[x] = dial[x] /\ dialEntry'[x] = dialEntry[x]
    BY <2>1, <2>2, Zenon
  <2>. HIDE <1>a, <1>b DEF CareInv
  <2>4. \A e : Cared(e) => Cared(e)'
    BY <2>1, <2>3, Zenon
  <2>5. Cared(f)'
    BY <2>3, Zenon
  <2>. HIDE DEF Cared
  <2>. QED
    BY <1>g, <2>3, <2>4, <2>5, CareKept, Zenon
<1>3. CASE RunRecv
  <2>1. PICK b \in Accepts, id \in Ids : b = received /\ id = acceptId[b]
    BY <1>3, Zenon DEF RunRecv
  <2>2. /\ clientStreams' = [clientStreams EXCEPT ![id] = EntryOf(id, b)]
        /\ runEntry' = EntryOf(id, b) /\ run' = "route" /\ run = "recv"
        /\ UNCHANGED <<dial, dialEntry, reaper, reaperEntry>>
    BY <1>3, <2>1, Zenon DEF RunRecv, GetClientStream
  <2>3. \A i \in Ids : clientStreams'[i] = EntryOf(id, b)
                        \/ clientStreams'[i] = clientStreams[i]
    BY <2>2, Zenon
  <2>. HIDE <1>a, <1>b DEF CareInv
  <2>4. \A e : Cared(e) => Cared(e)'
    BY <2>2, Zenon
  <2>5. PICK f : f = EntryOf(id, b)
    BY Zenon
  <2>6. Cared(f)'
    BY <2>2, <2>5, Zenon
  <2>. HIDE DEF Cared
  <2>. QED
    BY <1>g, <2>3, <2>4, <2>5, <2>6, CareKept, Zenon
<1>4. CASE RunExit
  BY <1>4, Zenon DEF RunExit
<1>5. CASE RunQueue
  <2>1. /\ reaper' = [reaper EXCEPT ![runMsg] = "wait"]
        /\ reaperEntry' = [reaperEntry EXCEPT ![runMsg] = runEntry]
        /\ run = "route" /\ reaper[runMsg] = "none"
        /\ UNCHANGED <<clientStreams, dial, dialEntry>>
    BY <1>5, Zenon DEF RunQueue, RunNext, ReapInv
  <2>2. reaper'[runMsg] = "wait" /\ reaperEntry'[runMsg] = runEntry
    BY <2>1, Zenon
  <2>3. \A x \in Accepts : reaper[x] \in {"wait", "delete"} =>
          reaper'[x] = reaper[x] /\ reaperEntry'[x] = reaperEntry[x]
    BY <2>1, Zenon
  <2>4. runMsg \in Accepts
    BY <2>1, Zenon
  <2>. HIDE <1>a, <1>b DEF CareInv
  <2>5. \A e : Cared(e) => Cared(e)'
    BY <2>1, <2>2, <2>3, <2>4, Zenon
  <2>. HIDE DEF Cared
  <2>. QED
    BY <1>g, <2>1, <2>5, CareKept, Zenon
<1>6. CASE RunDrop
  <2>1. /\ run = "route" /\ ch[runEntry] # None
        /\ UNCHANGED <<clientStreams, dial, dialEntry, reaper, reaperEntry>>
    BY <1>6, Zenon DEF RunDrop
  <2>2. \A i \in Ids : clientStreams[i] = runEntry =>
          \E x \in Accepts : reaperEntry[x] = runEntry
                             /\ reaper[x] \in {"wait", "delete"}
    BY <1>c, <2>1, Zenon
  <2>3. PICK f : f = runEntry
    BY Zenon
  <2>. HIDE <1>a, <1>b DEF CareInv
  <2>4. \A e : e # f /\ Cared(e) => Cared(e)'
    BY <2>1, <2>3, Zenon
  <2>5. \A i \in Ids : clientStreams[i] = f => Cared(f)'
    BY <2>1, <2>2, <2>3, Zenon
  <2>. HIDE DEF Cared
  <2>. QED
    BY <1>g, <2>1, <2>4, <2>5, CareKept, Zenon
<1>7. ASSUME NEW d \in Dials, DialExpire(d)
      PROVE  CareInv'
  BY <1>7, Zenon DEF DialExpire
<1>8. ASSUME NEW d \in Dials, DialReceive(d)
      PROVE  CareInv'
  <2>1. /\ dial[d] = "select" /\ ch[dialEntry[d]] # None
        /\ dial' = [dial EXCEPT ![d] = "close"]
        /\ UNCHANGED <<clientStreams, run, runEntry, dialEntry, reaper, reaperEntry>>
    BY <1>8, Zenon DEF DialReceive
  <2>2. PICK f \in Entries : f = dialEntry[d] /\ ch[f] # None
    BY <2>1, Zenon
  <2>3. \A i \in Ids : clientStreams[i] = f => Cared(f)'
    BY <1>c, <2>1, <2>2, ZenonT(40)
  <2>4. \A e : e # f /\ Cared(e) => Cared(e)'
    BY <2>1, <2>2, Zenon
  <2>. HIDE <1>a, <1>b DEF CareInv, Cared
  <2>. QED
    BY <1>g, <2>1, <2>3, <2>4, CareKept, Zenon
<1>9. ASSUME NEW d \in Dials, DialCloseDone(d)
      PROVE  CareInv'
  BY <1>9, Zenon DEF DialCloseDone
<1>10. ASSUME NEW d \in Dials, DialTimeout(d)
      PROVE  CareInv'
  <2>1. /\ clientStreams' = [clientStreams EXCEPT ![dialId[d]] = None]
        /\ dial' = [dial EXCEPT ![d] = "timeout"] /\ dial[d] = "expired"
        /\ UNCHANGED <<run, runEntry, dialEntry, reaper, reaperEntry>>
    BY <1>10, Zenon DEF DialTimeout
  <2>2. \A i \in Ids : clientStreams[i] # None /\ clientStreams[i] = dialEntry[d]
          => i = dialId[d]
    BY <1>d, <1>e, <2>1, Zenon
  <2>3. \A i \in Ids : clientStreams'[i] # None =>
          i # dialId[d] /\ clientStreams'[i] = clientStreams[i]
    BY <2>1, Zenon
  <2>4. \A e : e # dialEntry[d] /\ Cared(e) => Cared(e)'
    BY <2>1, Zenon
  <2>. HIDE <1>a, <1>b DEF CareInv, Cared
  <2>. QED
    BY <1>g, <2>2, <2>3, <2>4, CareKept, Zenon
<1>11. ASSUME NEW a \in Accepts, ReaperExpire(a)
      PROVE  CareInv'
  BY <1>11, Zenon DEF ReaperExpire
<1>12. ASSUME NEW a \in Accepts, ReaperDone(a)
      PROVE  CareInv'
  BY <1>12, Zenon DEF ReaperDone
<1>13. ASSUME NEW a \in Accepts, Reap(a)
      PROVE  CareInv'
  <2>1. /\ clientStreams' = [clientStreams EXCEPT ![acceptId[a]] = None]
        /\ reaper' = [reaper EXCEPT ![a] = "gone"] /\ reaper[a] = "delete"
        /\ UNCHANGED <<run, runEntry, dial, dialEntry, reaperEntry>>
    BY <1>13, Zenon DEF Reap
  <2>2. \A i \in Ids : clientStreams[i] # None /\ clientStreams[i] = reaperEntry[a]
          => i = acceptId[a]
    BY <1>d, <1>f, <2>1, Zenon
  <2>3. \A i \in Ids : clientStreams'[i] # None =>
          i # acceptId[a] /\ clientStreams'[i] = clientStreams[i]
    BY <2>1, Zenon
  <2>4. \A e : e # reaperEntry[a] /\ Cared(e) => Cared(e)'
    BY <2>1, Zenon
  <2>. HIDE <1>a, <1>b DEF CareInv, Cared
  <2>. QED
    BY <1>g, <2>2, <2>3, <2>4, CareKept, Zenon
<1>14. CASE UNCHANGED <<acceptId, runVars, clientStreams, ch, dialVars, reapVars>>
  BY <1>14, Zenon
<1>. HIDE <1>a, <1>b DEF CareInv, Cared
<1>. QED
  BY <1>1, <1>2, <1>3, <1>4, <1>5, <1>6, <1>7, <1>8, <1>9, <1>10, <1>11, <1>12,
     <1>13, <1>14, EntrySteps, Zenon DEF DialStep, ReapStep

(* The invariant of what is left to do. *)
LEMMA LeftInvariant == Spec => [](StreamInv /\ FreshInv /\ ReapInv /\ CareInv)
<1>1. Init => StreamInv /\ FreshInv /\ ReapInv /\ CareInv
  <2>. SUFFICES ASSUME Init
                PROVE  StreamInv /\ FreshInv /\ ReapInv /\ CareInv
    BY Zenon
  <2>1. StreamInv
    BY Zenon DEF Init, StreamInv
  <2>2. FreshInv
    BY Zenon DEF Init, FreshInv
  <2>3. ReapInv
    BY Zenon DEF Init, ReapInv
  <2>4. CareInv
    BY Zenon DEF Init, CareInv
  <2>. QED
    BY <2>1, <2>2, <2>3, <2>4, Zenon
<1>2. TypeOK /\ IdInv /\ SoleOwner /\ StreamInv /\ FreshInv /\ ReapInv /\ CareInv
      /\ [Next]_vars => StreamInv' /\ FreshInv' /\ ReapInv' /\ CareInv'
  <2>1. StreamInv /\ UNCHANGED vars => StreamInv'
    BY Zenon DEF StreamInv, vars
  <2>2. FreshInv /\ UNCHANGED vars => FreshInv'
    BY WireKept, Zenon DEF FreshInv, Unrouted, vars
  <2>3. ReapInv /\ UNCHANGED vars => ReapInv'
    <3>1. UNCHANGED vars => \A e : IdOf(e)' = IdOf(e)
      BY Zenon DEF IdOf, vars
    <3>. QED
      BY <3>1, ZenonT(40) DEF ReapInv, vars
  <2>4. CareInv /\ UNCHANGED vars => CareInv'
    BY Zenon DEF CareInv, Cared, vars
  <2>. QED
    BY <2>1, <2>2, <2>3, <2>4, StreamPreserved, FreshPreserved, ReapPreserved,
       CarePreserved, Zenon
<1>. QED
  BY <1>1, <1>2, Correct, PTL DEF Spec

\* No entry is left behind: where no timer is waited for and no step is left,
\* the map of pending entries is empty (timeoutWait, the timeout of Dial).
THEOREM NoEntryLeft == Spec => []EntriesReaped
<1>1. CareInv => EntriesReaped
  <2>. SUFFICES ASSUME Quiescent, ~panicked, NEW id \in Ids, clientStreams[id] # None,
                       CareInv
                PROVE  FALSE
    BY Zenon DEF EntriesReaped
  <2>1. \A d \in Dials : dial[d] # "select" /\ dial[d] # "expired"
    BY Zenon DEF Quiescent, OnlyTimersLeft, DialWaits
  <2>2. \A a \in Accepts : reaper[a] # "wait" /\ reaper[a] # "delete"
    BY Zenon DEF Quiescent, OnlyTimersLeft, ReaperWaits
  <2>3. run # "route"
    BY Zenon DEF Quiescent, OnlyTimersLeft, RunWaits
  <2>. QED
    BY <2>1, <2>2, <2>3, Zenon DEF CareInv, Cared
<1>. QED
  BY <1>1, LeftInvariant, PTL

\* Accept returns, whatever becomes of the stream: where nothing but a timer is
\* left, no Accept waits for the send goroutine (Send, StartStream).
THEOREM AcceptsReturn == Spec => []AcceptReturns
<1>1. TypeOK /\ StreamInv => AcceptReturns
  BY Zenon DEF TypeOK, StreamInv, AcceptReturns, OnlyTimersLeft, StreamWaits,
               AcceptWaits
<1>. QED
  BY <1>1, Correct, LeftInvariant, PTL
-----------------------------------------------------------------------------
(* An Accept and a Dial of its id meet.                                    *)

Reaped(id) == \E a \in Accepts : acceptId[a] = id /\ reaper[a] = "gone"
GaveUp(id) == \E d \in Dials : dialId[d] = id /\ dial[d] = "timeout"

\* With ids from NextId a waiting Dial, Run and a running timeoutWait hold the
\* entry that the map holds, until the partner of their id has deleted it ...
DialPaired(d) == dial[d] = "select" =>
  clientStreams[dialId[d]] = dialEntry[d] \/ Reaped(dialId[d])
ReapPaired(a) == reaper[a] \in {"wait", "delete"} =>
  clientStreams[acceptId[a]] = reaperEntry[a] \/ GaveUp(acceptId[a])
RunPaired == run = "route" =>
  clientStreams[acceptId[runMsg]] = runEntry \/ GaveUp(acceptId[runMsg])
PairInv == policy = "unique" => /\ \A d \in Dials : DialPaired(d)
                                /\ \A a \in Accepts : ReapPaired(a)
                                /\ RunPaired

\* ... and no ConnInfo is lost: neither by Run nor, while the stream is open and
\* neither end is closed, before it.
HeldInv == \A a \in Accepts : reaper[a] # "none" =>
  ch[reaperEntry[a]] = a \/ \E d \in Dials : conn[d] = a
NoLossInv == policy = "unique" /\ stream = "open" /\ quit = {} =>
  \A a \in Accepts : accept[a] = "ok" =>
    a \in OnWire \/ received = a \/ runMsg = a \/ reaper[a] # "none"

(* The policy is chosen once. *)
LEMMA PolicyFixed ==
  ASSUME Next
  PROVE  policy' = policy
<1>1. Calls => policy' = policy
  BY Zenon DEF Calls, AcceptCall, DialCall, Close
<1>2. StreamOpen \/ StreamOpenFails \/ StreamBreaks \/ StreamStep
      => policy' = policy
  BY Zenon DEF StreamOpen, StreamOpenFails, StreamBreaks, StreamStep,
       AcceptEndReturns, SenderSend, SenderExit, ReaderRecv, ReaderReturns
<1>3. RunStep \/ Timer => policy' = policy
  BY Zenon DEF RunStep, RunRecv, RunExit, RunQueue, RunDrop, Timer, DialExpire,
       ReaperExpire
<1>4. \A a \in Accepts : AcceptStep(a) \/ ReapStep(a) => policy' = policy
  BY Zenon DEF AcceptStep, SendQuit, SendHand, ReapStep, ReaperDone, Reap
<1>5. \A d \in Dials : DialStep(d) => policy' = policy
  BY Zenon DEF DialStep, DialReceive, DialCloseDone, DialTimeout
<1>. QED
  BY <1>1, <1>2, <1>3, <1>4, <1>5, Zenon DEF Next, Work

(* Who has deleted an entry, or given up, has done so for good. *)
Stays == \A i \in Ids : (Reaped(i) => Reaped(i)') /\ (GaveUp(i) => GaveUp(i)')
LEMMA PartnersStay ==
  ASSUME TypeOK, IdInv, SoleOwner, ReapInv, Next
  PROVE  Stays
<1>a. /\ runMsg \in Accepts \cup {None} /\ runEntry \in Entries \cup {None}
      /\ clientStreams \in [Ids -> Entries \cup {None}]
      /\ ch \in [Entries -> Accepts \cup {None}]
      /\ dial \in [Dials -> {"idle", "select", "close", "ok", "error",
                             "expired", "timeout"}]
      /\ dialId \in [Dials -> Ids \cup {None}]
      /\ dialEntry \in [Dials -> Entries \cup {None}]
      /\ reaper \in [Accepts -> {"none", "wait", "delete", "gone"}]
      /\ reaperEntry \in [Accepts -> Entries \cup {None}]
  BY Zenon DEF TypeOK
<1>b. /\ reader = "hand" => received \in Accepts /\ acceptId[received] \in Ids
      /\ run = "route" => /\ runMsg \in Accepts /\ acceptId[runMsg] \in Ids
                          /\ runEntry \in Entries
      /\ \A d \in Dials : dial[d] # "idle" =>
           dialId[d] \in Ids /\ dialEntry[d] \in Entries
  BY InHand, Zenon
<1>c. acceptId \in [Accepts -> Ids \cup {None}]
  BY Zenon DEF TypeOK
<1>d. /\ \A x \in Accepts : accept[x] = "idle" <=> acceptId[x] = None
      /\ \A x \in Dials : dial[x] = "idle" <=> dialId[x] = None
  BY Zenon DEF IdInv
<1>e. runMsg # None => reaper[runMsg] = "none"
  BY Zenon DEF ReapInv
<1>. USE <1>a, <1>b, <1>c DEF Stays, Reaped, GaveUp
<1>1. ASSUME NEW a \in Accepts, NEW id \in Ids, AcceptCall(a, id)
      PROVE  Stays
  <2>1. /\ acceptId' = [acceptId EXCEPT ![a] = id] /\ acceptId[a] = None
        /\ UNCHANGED <<reaper, dial, dialId>>
    BY <1>1, <1>d, Zenon DEF AcceptCall
  <2>. QED
    BY <2>1, ZenonT(40)
<1>2. ASSUME NEW d \in Dials, NEW id \in Ids, DialCall(d, id)
      PROVE  Stays
  <2>1. /\ dialId' = [dialId EXCEPT ![d] = id] /\ dialId[d] = None
        /\ dial' = [dial EXCEPT ![d] = "select"]
        /\ UNCHANGED <<reaper, acceptId>>
    BY <1>2, <1>d, Zenon DEF DialCall
  <2>. QED
    BY <2>1, Zenon
<1>3. CASE RunRecv
  BY <1>3, Zenon DEF RunRecv
<1>4. CASE RunExit
  BY <1>4, Zenon DEF RunExit
<1>5. CASE RunQueue
  <2>1. /\ reaper' = [reaper EXCEPT ![runMsg] = "wait"]
        /\ reaper[runMsg] = "none"
        /\ UNCHANGED <<acceptId, dial, dialId>>
    BY <1>5, <1>e, Zenon DEF RunQueue
  <2>. QED
    BY <2>1, Zenon
<1>6. CASE RunDrop
  BY <1>6, Zenon DEF RunDrop, RunNext
<1>7. ASSUME NEW d \in Dials, DialExpire(d)
      PROVE  Stays
  BY <1>7, Zenon DEF DialExpire
<1>8. ASSUME NEW d \in Dials, DialReceive(d)
      PROVE  Stays
  BY <1>8, Zenon DEF DialReceive
<1>9. ASSUME NEW d \in Dials, DialCloseDone(d)
      PROVE  Stays
  BY <1>9, Zenon DEF DialCloseDone
<1>10. ASSUME NEW d \in Dials, DialTimeout(d)
      PROVE  Stays
  BY <1>10, Zenon DEF DialTimeout
<1>11. ASSUME NEW a \in Accepts, ReaperExpire(a)
      PROVE  Stays
  BY <1>11, Zenon DEF ReaperExpire
<1>12. ASSUME NEW a \in Accepts, ReaperDone(a)
      PROVE  Stays
  BY <1>12, Zenon DEF ReaperDone
<1>13. ASSUME NEW a \in Accepts, Reap(a)
      PROVE  Stays
  BY <1>13, Zenon DEF Reap
<1>14. CASE UNCHANGED <<acceptId, runVars, clientStreams, ch, dialVars, reapVars>>
  BY <1>14, Zenon
<1>. HIDE <1>a, <1>b, <1>c DEF Stays, Reaped, GaveUp
<1>. QED
  BY <1>1, <1>2, <1>3, <1>4, <1>5, <1>6, <1>7, <1>8, <1>9, <1>10, <1>11, <1>12,
     <1>13, <1>14, EntrySteps, Zenon DEF DialStep, ReapStep

(* With ids used once, every step keeps the partners at one entry. *)
LEMMA PairPreserved ==
  ASSUME TypeOK, IdInv, SoleOwner, FreshInv, ReapInv, UniqueInv, PairInv, Next
  PROVE  PairInv'
<1>. SUFFICES ASSUME policy = "unique"
              PROVE  /\ \A d \in Dials : DialPaired(d)'
                     /\ \A a \in Accepts : ReapPaired(a)'
                     /\ RunPaired'
  BY PolicyFixed, Zenon DEF PairInv
<1>a. /\ runMsg \in Accepts \cup {None} /\ runEntry \in Entries \cup {None}
      /\ clientStreams \in [Ids -> Entries \cup {None}]
      /\ ch \in [Entries -> Accepts \cup {None}]
      /\ dial \in [Dials -> {"idle", "select", "close", "ok", "error",
                             "expired", "timeout"}]
      /\ dialId \in [Dials -> Ids \cup {None}]
      /\ dialEntry \in [Dials -> Entries \cup {None}]
      /\ reaper \in [Accepts -> {"none", "wait", "delete", "gone"}]
      /\ reaperEntry \in [Accepts -> Entries \cup {None}]
  BY Zenon DEF TypeOK
<1>b. /\ reader = "hand" => received \in Accepts /\ acceptId[received] \in Ids
      /\ run = "route" => /\ runMsg \in Accepts /\ acceptId[runMsg] \in Ids
                          /\ runEntry \in Entries
      /\ \A d \in Dials : dial[d] # "idle" =>
           dialId[d] \in Ids /\ dialEntry[d] \in Entries
  BY InHand, Zenon
<1>c. acceptId \in [Accepts -> Ids \cup {None}]
  BY Zenon DEF TypeOK
<1>d. /\ \A x \in Accepts : accept[x] = "idle" <=> acceptId[x] = None
      /\ \A x \in Dials : dial[x] = "idle" <=> dialId[x] = None
  BY Zenon DEF IdInv
<1>e. /\ runMsg # None => reaper[runMsg] = "none"
      /\ \A x \in Accepts : reaper[x] # "none" =>
           accept[x] = "ok" /\ reaperEntry[x] # None
  BY Zenon DEF ReapInv
<1>f. \A i \in Ids : (Reaped(i) => Reaped(i)') /\ (GaveUp(i) => GaveUp(i)')
  BY PartnersStay, Zenon DEF Stays
<1>g. \A x \in Accepts : reaper[x] # "none" => acceptId[x] \in Ids
  BY <1>c, <1>d, <1>e, Zenon
<1>h. \A x, y \in Accepts : acceptId[x] = acceptId[y] /\ acceptId[x] # None => x = y
  BY Zenon DEF UniqueInv
<1>i. \A x, y \in Dials : dialId[x] = dialId[y] /\ dialId[x] # None => x = y
  BY Zenon DEF UniqueInv
<1>m. None \notin Entries /\ None \notin Ids /\ None \notin Accepts
  BY Zenon DEF Entries
<1>j. \A d \in Dials : dial[d] = "select" =>
        /\ dialId[d] \in Ids
        /\ \/ clientStreams[dialId[d]] = dialEntry[d]
              /\ clientStreams[dialId[d]] # None
           \/ Reaped(dialId[d])
  <2>1. \A d \in Dials : dial[d] = "select" =>
          clientStreams[dialId[d]] = dialEntry[d] \/ Reaped(dialId[d])
    BY Zenon DEF PairInv, DialPaired
  <2>2. \A d \in Dials : dial[d] = "select" => dialId[d] \in Ids /\ dialEntry[d] # None
    BY <1>b, <1>m, Zenon
  <2>. QED
    BY <2>1, <2>2, Zenon
<1>k. \A a \in Accepts : reaper[a] \in {"wait", "delete"} =>
        /\ acceptId[a] \in Ids
        /\ \/ clientStreams[acceptId[a]] = reaperEntry[a]
              /\ clientStreams[acceptId[a]] # None
           \/ GaveUp(acceptId[a])
  <2>1. \A a \in Accepts : reaper[a] \in {"wait", "delete"} =>
          clientStreams[acceptId[a]] = reaperEntry[a] \/ GaveUp(acceptId[a])
    BY Zenon DEF PairInv, ReapPaired
  <2>. QED
    BY <1>e, <1>g, <2>1, Zenon
<1>l. run = "route" =>
        /\ acceptId[runMsg] \in Ids
        /\ \/ clientStreams[acceptId[runMsg]] = runEntry
              /\ clientStreams[acceptId[runMsg]] # None
           \/ GaveUp(acceptId[runMsg])
  <2>1. run = "route" =>
          clientStreams[acceptId[runMsg]] = runEntry \/ GaveUp(acceptId[runMsg])
    BY Zenon DEF PairInv, RunPaired
  <2>. QED
    BY <1>b, <1>m, <2>1, Zenon
<1>. DEFINE Paired == /\ \A d \in Dials : DialPaired(d)
                      /\ \A a \in Accepts : ReapPaired(a)
                      /\ RunPaired
(* Most steps keep what the map holds, and start no Dial and no timeoutWait. *)
<1>n. ASSUME UNCHANGED <<acceptId, dialId, dialEntry, reaperEntry, runMsg, runEntry>>,
             \A i \in Ids : clientStreams[i] # None =>
               clientStreams'[i] = clientStreams[i],
             run' = "route" => run = "route",
             \A x \in Dials : dial'[x] = "select" => dial[x] = "select",
             \A x \in Accepts : reaper'[x] \in {"wait", "delete"} =>
               reaper[x] \in {"wait", "delete"}
      PROVE  Paired'
  <2>1. \A x \in Dials : DialPaired(x)'
    BY <1>f, <1>j, <1>n, Zenon DEF DialPaired
  <2>2. \A x \in Accepts : ReapPaired(x)'
    BY <1>f, <1>k, <1>n, Zenon DEF ReapPaired
  <2>3. RunPaired'
    BY <1>f, <1>l, <1>n, Zenon DEF RunPaired
  <2>. QED
    BY <2>1, <2>2, <2>3, Zenon
<1>. USE <1>a, <1>b
<1>1. ASSUME NEW a \in Accepts, NEW id \in Ids, AcceptCall(a, id)
      PROVE  Paired'
  <2>1. /\ acceptId' = [acceptId EXCEPT ![a] = id] /\ acceptId[a] = None
        /\ UNCHANGED <<dialVars, clientStreams, reapVars, runVars>>
    BY <1>1, <1>d, Zenon DEF AcceptCall
  <2>2. \A x \in Accepts : acceptId[x] # None => acceptId'[x] = acceptId[x]
    BY <1>c, <2>1, Zenon
  <2>3. \A x \in Dials : DialPaired(x)'
    <3>. HIDE <1>a, <1>b
    <3>. QED
      BY <1>f, <1>j, <2>1, Zenon DEF DialPaired
  <2>4. \A x \in Accepts : ReapPaired(x)'
    <3>. HIDE <1>a, <1>b
    <3>. QED
      BY <1>f, <1>k, <2>1, <2>2, Zenon DEF ReapPaired
  <2>5. RunPaired'
    <3>1. run = "route" => acceptId'[runMsg] = acceptId[runMsg]
      BY <1>m, <2>2, Zenon
    <3>. HIDE <1>a, <1>b
    <3>. QED
      BY <1>f, <1>l, <2>1, <3>1, Zenon DEF RunPaired
  <2>. QED
    BY <2>3, <2>4, <2>5, Zenon
<1>2. ASSUME NEW d \in Dials, NEW id \in Ids, DialCall(d, id)
      PROVE  Paired'
  <2>1. /\ clientStreams' = [clientStreams EXCEPT ![id] = EntryOf(id, d)]
        /\ dialEntry' = [dialEntry EXCEPT ![d] = EntryOf(id, d)]
        /\ dialId' = [dialId EXCEPT ![d] = id] /\ dialId[d] = None
        /\ dial' = [dial EXCEPT ![d] = "select"]
        /\ UNCHANGED <<acceptId, reapVars, runVars>>
    BY <1>2, <1>d, Zenon DEF DialCall, GetClientStream
  <2>2. \A i \in Ids : clientStreams[i] # None => clientStreams'[i] = clientStreams[i]
    BY <2>1, Zenon DEF EntryOf
  <2>3. \A x \in Dials : DialPaired(x)'
    <3>1. dialId'[d] = id /\ dialEntry'[d] = clientStreams'[id]
      BY <2>1, Zenon
    <3>2. \A x \in Dials : x # d => dial'[x] = dial[x] /\ dialId'[x] = dialId[x]
                                    /\ dialEntry'[x] = dialEntry[x]
      BY <2>1, Zenon
    <3>3. DialPaired(d)'
      BY <3>1, Zenon DEF DialPaired
    <3>4. ASSUME NEW x \in Dials, x # d PROVE DialPaired(x)'
      <4>. HIDE <1>a, <1>b
      <4>1. dial'[x] = dial[x] /\ dialId'[x] = dialId[x]
            /\ dialEntry'[x] = dialEntry[x]
        BY <3>2, <3>4, Zenon
      <4>2. dial[x] = "select" => clientStreams'[dialId[x]] = dialEntry[x]
                                  \/ Reaped(dialId[x])'
        BY <1>f, <1>j, <2>2, <4>1, Zenon
      <4>. QED
        BY <4>1, <4>2, Zenon DEF DialPaired
    <3>. QED
      BY <3>3, <3>4, Zenon
  <2>4. \A x \in Accepts : ReapPaired(x)'
    <3>. HIDE <1>a, <1>b
    <3>. QED
      BY <1>f, <1>k, <2>1, <2>2, Zenon DEF ReapPaired
  <2>5. RunPaired'
    <3>. HIDE <1>a, <1>b
    <3>. QED
      BY <1>f, <1>l, <2>1, <2>2, Zenon DEF RunPaired
  <2>. QED
    BY <2>3, <2>4, <2>5, Zenon
<1>3. CASE RunRecv
  <2>1. PICK b \in Accepts, id \in Ids : b = received /\ id = acceptId[b]
    BY <1>3, Zenon DEF RunRecv
  <2>2. /\ clientStreams' = [clientStreams EXCEPT ![id] = EntryOf(id, b)]
        /\ runEntry' = EntryOf(id, b) /\ runMsg' = b
        /\ UNCHANGED <<acceptId, dialVars, reapVars>>
    BY <1>3, <2>1, Zenon DEF RunRecv, GetClientStream
  <2>3. \A i \in Ids : clientStreams[i] # None => clientStreams'[i] = clientStreams[i]
    BY <2>2, Zenon DEF EntryOf
  <2>4. \A x \in Dials : DialPaired(x)'
    <3>. HIDE <1>a, <1>b
    <3>. QED
      BY <1>f, <1>j, <2>2, <2>3, Zenon DEF DialPaired
  <2>5. \A x \in Accepts : ReapPaired(x)'
    <3>. HIDE <1>a, <1>b
    <3>. QED
      BY <1>f, <1>k, <2>2, <2>3, Zenon DEF ReapPaired
  <2>6. RunPaired'
    <3>1. clientStreams'[id] = EntryOf(id, b)
      BY <2>2, Zenon
    <3>. HIDE <1>a, <1>b
    <3>. QED
      BY <2>1, <2>2, <3>1, Zenon DEF RunPaired
  <2>. QED
    BY <2>4, <2>5, <2>6, Zenon
<1>4. CASE RunExit
  <2>1. UNCHANGED <<acceptId, dialId, dialEntry, reaperEntry, runMsg, runEntry,
                    clientStreams>>
    BY <1>4, Zenon DEF RunExit
  <2>2. /\ run' = "route" => run = "route"
        /\ \A x \in Dials : dial'[x] = "select" => dial[x] = "select"
        /\ \A x \in Accepts : reaper'[x] \in {"wait", "delete"} =>
             reaper[x] \in {"wait", "delete"}
    BY <1>4, Zenon DEF RunExit
  <2>. QED
    BY <1>n, <2>1, <2>2, Zenon
<1>5. CASE RunQueue
  <2>1. PICK m \in Accepts, f \in Entries : m = runMsg /\ f = runEntry
    BY <1>5, Zenon DEF RunQueue
  <2>2. /\ reaper' = [reaper EXCEPT ![m] = "wait"] /\ run = "route"
        /\ reaperEntry' = [reaperEntry EXCEPT ![m] = f] /\ run' = "recv"
        /\ UNCHANGED <<clientStreams, acceptId, dialVars>>
    BY <1>5, <2>1, Zenon DEF RunQueue, RunNext
  <2>3. acceptId[m] \in Ids
    BY <2>1, <2>2, Zenon
  <2>4. \A x \in Dials : DialPaired(x)'
    <3>. HIDE <1>a, <1>b
    <3>. QED
      BY <1>f, <1>j, <2>2, Zenon DEF DialPaired
  <2>5. ReapPaired(m)'
    <3>1. clientStreams[acceptId[m]] = f \/ GaveUp(acceptId[m])'
      BY <1>f, <1>l, <2>1, <2>2, <2>3, Zenon
    <3>2. reaperEntry'[m] = f
      BY <2>2, Zenon
    <3>. QED
      BY <2>2, <3>1, <3>2, Zenon DEF ReapPaired
  <2>6. ASSUME NEW x \in Accepts, x # m PROVE ReapPaired(x)'
    <3>1. reaper'[x] = reaper[x] /\ reaperEntry'[x] = reaperEntry[x]
      BY <2>2, <2>6, Zenon
    <3>. QED
      BY <1>f, <1>g, <1>k, <2>2, <3>1, Zenon DEF ReapPaired
  <2>7. RunPaired'
    <3>. HIDE <1>a, <1>b
    <3>. QED
      BY <2>2, Zenon DEF RunPaired
  <2>. QED
    BY <2>4, <2>5, <2>6, <2>7, Zenon
<1>6. CASE RunDrop
  <2>1. run' = "recv" /\ UNCHANGED <<clientStreams, acceptId, dialVars, reapVars>>
    BY <1>6, Zenon DEF RunDrop, RunNext
  <2>2. \A x \in Dials : DialPaired(x)'
    <3>. HIDE <1>a, <1>b
    <3>. QED
      BY <1>f, <1>j, <2>1, Zenon DEF DialPaired
  <2>3. \A x \in Accepts : ReapPaired(x)'
    <3>. HIDE <1>a, <1>b
    <3>. QED
      BY <1>f, <1>k, <2>1, Zenon DEF ReapPaired
  <2>4. RunPaired'
    <3>. HIDE <1>a, <1>b
    <3>. QED
      BY <2>1, Zenon DEF RunPaired
  <2>. QED
    BY <2>2, <2>3, <2>4, Zenon
<1>7. ASSUME NEW d \in Dials, DialExpire(d)
      PROVE  Paired'
  <2>1. UNCHANGED <<acceptId, dialId, dialEntry, reaperEntry, runMsg, runEntry,
                    clientStreams>>
    BY <1>7, Zenon DEF DialExpire
  <2>2. /\ run' = "route" => run = "route"
        /\ \A x \in Dials : dial'[x] = "select" => dial[x] = "select"
        /\ \A x \in Accepts : reaper'[x] \in {"wait", "delete"} =>
             reaper[x] \in {"wait", "delete"}
    BY <1>7, Zenon DEF DialExpire
  <2>. QED
    BY <1>n, <2>1, <2>2, Zenon
<1>8. ASSUME NEW d \in Dials, DialReceive(d)
      PROVE  Paired'
  <2>1. UNCHANGED <<acceptId, dialId, dialEntry, reaperEntry, runMsg, runEntry,
                    clientStreams>>
    BY <1>8, Zenon DEF DialReceive
  <2>2. /\ run' = "route" => run = "route"
        /\ \A x \in Dials : dial'[x] = "select" => dial[x] = "select"
        /\ \A x \in Accepts : reaper'[x] \in {"wait", "delete"} =>
             reaper[x] \in {"wait", "delete"}
    BY <1>8, Zenon DEF DialReceive
  <2>. QED
    BY <1>n, <2>1, <2>2, Zenon
<1>9. ASSUME NEW d \in Dials, DialCloseDone(d)
      PROVE  Paired'
  <2>1. UNCHANGED <<acceptId, dialId, dialEntry, reaperEntry, runMsg, runEntry,
                    clientStreams>>
    BY <1>9, Zenon DEF DialCloseDone
  <2>2. /\ run' = "route" => run = "route"
        /\ \A x \in Dials : dial'[x] = "select" => dial[x] = "select"
        /\ \A x \in Accepts : reaper'[x] \in {"wait", "delete"} =>
             reaper[x] \in {"wait", "delete"}
    BY <1>9, Zenon DEF DialCloseDone
  <2>. QED
    BY <1>n, <2>1, <2>2, Zenon
<1>10. ASSUME NEW d \in Dials, DialTimeout(d)
      PROVE  Paired'
  <2>1. /\ clientStreams' = [clientStreams EXCEPT ![dialId[d]] = None]
        /\ dial' = [dial EXCEPT ![d] = "timeout"] /\ dial[d] = "expired"
        /\ UNCHANGED <<acceptId, dialId, dialEntry, reapVars, runVars>>
    BY <1>10, Zenon DEF DialTimeout
  <2>2. \A i \in Ids : i # dialId[d] => clientStreams'[i] = clientStreams[i]
    BY <2>1, Zenon
  <2>3. GaveUp(dialId[d])' /\ dial'[d] = "timeout"
    BY <2>1, Zenon DEF GaveUp
  <2>4. \A x \in Dials : DialPaired(x)'
    <3>1. \A x \in Dials : dial'[x] = "select" =>
            x # d /\ dial[x] = "select" /\ dialId[x] \in Ids
      BY <2>1, Zenon
    <3>2. \A x \in Dials : dial'[x] = "select" => dialId[x] # dialId[d]
      <4>. HIDE <1>a
      <4>0. dial[d] # "idle"
        BY <2>1, Zenon
      <4>1. dialId[d] # None
        BY <1>d, <4>0, Zenon
      <4>. HIDE <1>b
      <4>. QED
        BY <1>i, <3>1, <4>1, Zenon
    <3>. QED
      BY <1>f, <1>j, <2>1, <2>2, <3>1, <3>2, Zenon DEF DialPaired
  <2>5. \A x \in Accepts : ReapPaired(x)'
    <3>. HIDE <1>a, <1>b
    <3>. QED
      BY <1>f, <1>k, <2>1, <2>2, <2>3, Zenon DEF ReapPaired
  <2>6. RunPaired'
    <3>. HIDE <1>a, <1>b
    <3>. QED
      BY <1>f, <1>l, <2>1, <2>2, <2>3, Zenon DEF RunPaired
  <2>. QED
    BY <2>4, <2>5, <2>6, Zenon
<1>11. ASSUME NEW a \in Accepts, ReaperExpire(a)
      PROVE  Paired'
  <2>1. UNCHANGED <<acceptId, dialId, dialEntry, reaperEntry, runMsg, runEntry,
                    clientStreams>>
    BY <1>11, Zenon DEF ReaperExpire
  <2>2. /\ run' = "route" => run = "route"
        /\ \A x \in Dials : dial'[x] = "select" => dial[x] = "select"
        /\ \A x \in Accepts : reaper'[x] \in {"wait", "delete"} =>
             reaper[x] \in {"wait", "delete"}
    BY <1>11, Zenon DEF ReaperExpire
  <2>. QED
    BY <1>n, <2>1, <2>2, Zenon
<1>12. ASSUME NEW a \in Accepts, ReaperDone(a)
      PROVE  Paired'
  <2>1. UNCHANGED <<acceptId, dialId, dialEntry, reaperEntry, runMsg, runEntry,
                    clientStreams>>
    BY <1>12, Zenon DEF ReaperDone
  <2>2. /\ run' = "route" => run = "route"
        /\ \A x \in Dials : dial'[x] = "select" => dial[x] = "select"
        /\ \A x \in Accepts : reaper'[x] \in {"wait", "delete"} =>
             reaper[x] \in {"wait", "delete"}
    BY <1>12, Zenon DEF ReaperDone
  <2>. QED
    BY <1>n, <2>1, <2>2, Zenon
<1>13. ASSUME NEW a \in Accepts, Reap(a)
      PROVE  Paired'
  <2>1. /\ clientStreams' = [clientStreams EXCEPT ![acceptId[a]] = None]
        /\ reaper' = [reaper EXCEPT ![a] = "gone"] /\ reaper[a] = "delete"
        /\ UNCHANGED <<acceptId, dialVars, reaperEntry, runVars>>
    BY <1>13, Zenon DEF Reap
  <2>2. \A i \in Ids : i # acceptId[a] => clientStreams'[i] = clientStreams[i]
    BY <2>1, Zenon
  <2>3. Reaped(acceptId[a])' /\ reaper'[a] = "gone" /\ acceptId[a] # None
    BY <1>g, <1>m, <2>1, Zenon DEF Reaped
  <2>4. \A x \in Dials : DialPaired(x)'
    <3>. HIDE <1>a, <1>b
    <3>. QED
      BY <1>f, <1>j, <2>1, <2>2, <2>3, Zenon DEF DialPaired
  <2>5. \A x \in Accepts : ReapPaired(x)'
    <3>1. \A x \in Accepts : reaper'[x] \in {"wait", "delete"} =>
            x # a /\ reaper[x] \in {"wait", "delete"} /\ acceptId[x] \in Ids
      BY <1>g, <2>1, Zenon
    <3>2. \A x \in Accepts : reaper'[x] \in {"wait", "delete"} =>
            acceptId[x] # acceptId[a]
      BY <1>h, <2>3, <3>1, Zenon
    <3>. QED
      BY <1>f, <1>k, <2>1, <2>2, <3>1, <3>2, Zenon DEF ReapPaired
  <2>6. RunPaired'
    <3>1. run = "route" => runMsg # a
      BY <1>e, <1>m, <2>1, Zenon
    <3>2. run = "route" => acceptId[runMsg] # acceptId[a]
      BY <1>h, <2>3, <3>1, Zenon
    <3>. QED
      BY <1>f, <1>l, <2>1, <2>2, <3>2, Zenon DEF RunPaired
  <2>. QED
    BY <2>4, <2>5, <2>6, Zenon
<1>14. CASE UNCHANGED <<acceptId, runVars, clientStreams, ch, dialVars, reapVars>>
  BY <1>n, <1>14, Zenon
<1>. HIDE <1>a, <1>b
<1>. QED
  BY <1>1, <1>2, <1>3, <1>4, <1>5, <1>6, <1>7, <1>8, <1>9, <1>10, <1>11, <1>12,
     <1>13, <1>14, EntrySteps, Zenon DEF DialStep, ReapStep

(* Every step keeps a routed ConnInfo in its channel or with a Dial. *)
LEMMA HeldPreserved ==
  ASSUME TypeOK, IdInv, SoleOwner, ReapInv, HeldInv, Next
  PROVE  HeldInv'
<1>a. /\ runMsg \in Accepts \cup {None} /\ runEntry \in Entries \cup {None}
      /\ clientStreams \in [Ids -> Entries \cup {None}]
      /\ ch \in [Entries -> Accepts \cup {None}]
      /\ dial \in [Dials -> {"idle", "select", "close", "ok", "error",
                             "expired", "timeout"}]
      /\ dialId \in [Dials -> Ids \cup {None}]
      /\ dialEntry \in [Dials -> Entries \cup {None}]
      /\ reaper \in [Accepts -> {"none", "wait", "delete", "gone"}]
      /\ reaperEntry \in [Accepts -> Entries \cup {None}]
  BY Zenon DEF TypeOK
<1>b. /\ reader = "hand" => received \in Accepts /\ acceptId[received] \in Ids
      /\ run = "route" => /\ runMsg \in Accepts /\ acceptId[runMsg] \in Ids
                          /\ runEntry \in Entries
      /\ \A d \in Dials : dial[d] # "idle" =>
           dialId[d] \in Ids /\ dialEntry[d] \in Entries
  BY InHand, Zenon
<1>c. conn \in [Dials -> Accepts \cup {None}]
  BY Zenon DEF TypeOK
<1>d. \A x \in Dials : dial[x] = "select" => conn[x] = None
  BY Zenon DEF IdInv
<1>e. /\ runMsg # None => reaper[runMsg] = "none"
      /\ \A x \in Accepts : reaper[x] # "none" => reaperEntry[x] # None
  BY Zenon DEF ReapInv
<1>f. None \notin Accepts /\ None \notin Entries
  BY Zenon DEF Entries
<1>. USE <1>a, <1>b, <1>c DEF HeldInv
<1>1. ASSUME NEW a \in Accepts, NEW id \in Ids, AcceptCall(a, id)
      PROVE  HeldInv'
  BY <1>1, Zenon DEF AcceptCall
<1>2. ASSUME NEW d \in Dials, NEW id \in Ids, DialCall(d, id)
      PROVE  HeldInv'
  BY <1>2, Zenon DEF DialCall
<1>3. CASE RunRecv
  BY <1>3, Zenon DEF RunRecv
<1>4. CASE RunExit
  BY <1>4, Zenon DEF RunExit
<1>5. CASE RunQueue
  <2>1. PICK m \in Accepts, f \in Entries : m = runMsg /\ f = runEntry
    BY <1>5, Zenon DEF RunQueue
  <2>2. /\ ch' = [ch EXCEPT ![f] = m] /\ ch[f] = None
        /\ reaper' = [reaper EXCEPT ![m] = "wait"]
        /\ reaperEntry' = [reaperEntry EXCEPT ![m] = f]
        /\ conn' = conn
    BY <1>5, <2>1, Zenon DEF RunQueue
  <2>8. \A x \in Accepts : reaper[x] # "none" =>
          ch[reaperEntry[x]] = x \/ \E c \in Dials : conn[c] = x
    BY Zenon
  <2>. HIDE DEF HeldInv
  <2>3. reaperEntry'[m] = f /\ ch'[f] = m
    BY <2>2, Zenon
  <2>4. \A x \in Accepts : x # m =>
          reaper'[x] = reaper[x] /\ reaperEntry'[x] = reaperEntry[x]
    BY <2>2, Zenon
  <2>5. \A e \in Entries : ch[e] # None => ch'[e] = ch[e]
    <3>1. \A e \in Entries : e # f => ch'[e] = ch[e]
      BY <2>2, Zenon
    <3>. HIDE <1>a, <1>b, <1>c
    <3>. QED
      BY <2>2, <3>1, Zenon
  <2>6. \A x \in Accepts : reaper[x] # "none" => reaperEntry[x] \in Entries
    BY <1>e, Zenon
  <2>. QED
    <3>. HIDE <1>a, <1>b, <1>c DEF HeldInv
    <3>1. \A x \in Accepts : x # m /\ reaper'[x] # "none" =>
            ch'[reaperEntry'[x]] = x \/ \E c \in Dials : conn[c] = x
      <4>1. \A x \in Accepts : x # None
        BY <1>f, Zenon
      <4>2. \A x \in Accepts : reaper[x] # "none" =>
              ch'[reaperEntry[x]] = x \/ \E c \in Dials : conn[c] = x
        BY <2>5, <2>6, <2>8, <4>1, Zenon
      <4>. QED
        BY <2>4, <4>2, Zenon
    <3>. QED
      BY <2>2, <2>3, <3>1, Zenon DEF HeldInv
<1>6. CASE RunDrop
  BY <1>6, Zenon DEF RunDrop, RunNext
<1>7. ASSUME NEW d \in Dials, DialExpire(d)
      PROVE  HeldInv'
  BY <1>7, Zenon DEF DialExpire
<1>8. ASSUME NEW d \in Dials, DialReceive(d)
      PROVE  HeldInv'
  <2>1. PICK f \in Entries : f = dialEntry[d] /\ ch[f] # None
    BY <1>8, Zenon DEF DialReceive
  <2>2. /\ conn' = [conn EXCEPT ![d] = ch[f]] /\ conn[d] = None
        /\ ch' = [ch EXCEPT ![f] = None]
        /\ UNCHANGED <<reaper, reaperEntry>>
    BY <1>8, <1>d, <2>1, Zenon DEF DialReceive
  <2>3. \A e \in Entries : e # f => ch'[e] = ch[e]
    BY <2>2, Zenon
  <2>4. conn'[d] = ch[f]
    BY <2>2, ZenonT(40)
  <2>5. \A x \in Dials : conn[x] # None => conn'[x] = conn[x]
    BY <2>2, ZenonT(40)
  <2>6. \A x \in Accepts : reaper[x] # "none" => reaperEntry[x] \in Entries
    BY <1>e, Zenon
  <2>. QED
    <3>1. \A x \in Accepts : reaper[x] # "none" =>
            ch[reaperEntry[x]] = x \/ \E c \in Dials : conn[c] = x
      BY Zenon
    <3>. HIDE <1>a, <1>b, <1>c DEF HeldInv
    <3>2. \A x \in Accepts : (\E c \in Dials : conn[c] = x) =>
            \E c \in Dials : conn'[c] = x
      BY <1>f, <2>5, Zenon
    <3>3. \A x \in Accepts : reaper[x] # "none" =>
            ch'[reaperEntry[x]] = x \/ \E c \in Dials : conn'[c] = x
      BY <2>3, <2>4, <2>6, <3>1, <3>2, Zenon
    <3>. QED
      BY <2>2, <3>3, Zenon DEF HeldInv
<1>9. ASSUME NEW d \in Dials, DialCloseDone(d)
      PROVE  HeldInv'
  BY <1>9, Zenon DEF DialCloseDone
<1>10. ASSUME NEW d \in Dials, DialTimeout(d)
      PROVE  HeldInv'
  BY <1>10, Zenon DEF DialTimeout
<1>11. ASSUME NEW a \in Accepts, ReaperExpire(a)
      PROVE  HeldInv'
  BY <1>11, Zenon DEF ReaperExpire
<1>12. ASSUME NEW a \in Accepts, ReaperDone(a)
      PROVE  HeldInv'
  BY <1>12, Zenon DEF ReaperDone
<1>13. ASSUME NEW a \in Accepts, Reap(a)
      PROVE  HeldInv'
  BY <1>13, Zenon DEF Reap
<1>14. CASE UNCHANGED <<acceptId, runVars, clientStreams, ch, dialVars, reapVars>>
  BY <1>14, Zenon
<1>. HIDE <1>a, <1>b, <1>c DEF HeldInv
<1>. QED
  BY <1>1, <1>2, <1>3, <1>4, <1>5, <1>6, <1>7, <1>8, <1>9, <1>10, <1>11, <1>12,
     <1>13, <1>14, EntrySteps, Zenon DEF DialStep, ReapStep

(* Every step keeps a sent ConnInfo on its way while nothing is closed. *)
LEMMA NoLossPreserved ==
  ASSUME TypeOK, IdInv, SoleOwner, UniqueIdsNeverCollide, StreamInv, NoLossInv, Next
  PROVE  NoLossInv'
<1>a. /\ accept \in [Accepts -> {"idle", "send", "wait", "ok", "error"}]
      /\ reaper \in [Accepts -> {"none", "wait", "delete", "gone"}]
      /\ runMsg \in Accepts \cup {None}
  BY Zenon DEF TypeOK
<1>b. policy' = policy
  BY PolicyFixed, Zenon
<1>c. /\ stream = "none" => \A a \in Accepts : accept[a] # "ok"
      /\ runMsg # None => run = "route"
  BY Zenon DEF StreamInv
<1>d. policy = "unique" /\ run = "route" => ch[runEntry] = None
  BY Zenon DEF UniqueIdsNeverCollide
<1>. USE <1>a, <1>b DEF NoLossInv
<1>1. ASSUME NEW a \in Accepts, NEW id \in Ids, AcceptCall(a, id)
      PROVE  NoLossInv'
  <2>1. OnWire' = OnWire
    BY <1>1, WireKept, Zenon DEF AcceptCall
  <2>. QED
    BY <1>1, <2>1, Zenon DEF AcceptCall
<1>2. ASSUME NEW d \in Dials, NEW id \in Ids, DialCall(d, id)
      PROVE  NoLossInv'
  <2>1. OnWire' = OnWire
    BY <1>2, WireKept, Zenon DEF DialCall
  <2>. QED
    BY <1>2, <2>1, Zenon DEF DialCall
<1>3. ASSUME NEW end \in {"accept", "dial"}, Close(end)
      PROVE  NoLossInv'
  <2>1. quit' # {}
    BY <1>3, Zenon DEF Close
  <2>. QED
    BY <2>1, Zenon
<1>4. CASE StreamOpen
  <2>1. stream = "none" /\ accept' = accept
    BY <1>4, Zenon DEF StreamOpen
  <2>. QED
    BY <1>c, <2>1, Zenon
<1>5. CASE StreamOpenFails
  BY <1>5, Zenon DEF StreamOpenFails
<1>6. CASE StreamBreaks
  BY <1>6, Zenon DEF StreamBreaks
<1>7. CASE AcceptEndReturns
  <2>1. quit' # {}
    BY <1>7, Zenon DEF AcceptEndReturns
  <2>. QED
    BY <2>1, Zenon
<1>8. CASE SenderSend
  <2>. SUFFICES ASSUME stream = "open"
                PROVE  NoLossInv'
    BY <1>8, Zenon DEF SenderSend
  <2>1. sending \in Accepts /\ accept[sending] = "wait" /\ sending \notin OnWire
    BY <1>8, InHand, Zenon DEF SenderSend, SoleOwner
  <2>2. /\ wire' = Append(wire, sending)
        /\ accept' = [accept EXCEPT ![sending] = "ok"]
        /\ UNCHANGED <<stream, quit, received, runMsg, reaper>>
    BY <1>8, Zenon DEF SenderSend
  <2>3. wire \in Seq(Accepts) /\ WireDistinct
    BY Zenon DEF TypeOK, SoleOwner
  <2>4. OnWire' = OnWire \cup {sending}
    BY <2>1, <2>2, <2>3, Appended, Zenon
  <2>. QED
    BY <2>1, <2>2, <2>4, Zenon
<1>9. CASE SenderExit
  <2>1. OnWire' = OnWire
    BY <1>9, WireKept, Zenon DEF SenderExit
  <2>. QED
    BY <1>9, <2>1, Zenon DEF SenderExit
<1>10. CASE ReaderRecv
  <2>1. Head(wire) \in OnWire /\ OnWire' = OnWire \ {Head(wire)}
    BY <1>10, Taken, Zenon DEF ReaderRecv, TypeOK, SoleOwner
  <2>2. received = None
    BY <1>10, Zenon DEF ReaderRecv, StreamInv
  <2>. QED
    BY <1>10, <2>1, <2>2, Zenon DEF ReaderRecv
<1>11. CASE ReaderReturns
  BY <1>11, Zenon DEF ReaderReturns
<1>12. CASE RunRecv
  <2>1. OnWire' = OnWire
    BY <1>12, WireKept, Zenon DEF RunRecv
  <2>2. runMsg = None
    BY <1>12, <1>c, Zenon DEF RunRecv
  <2>. QED
    BY <1>12, <2>1, <2>2, Zenon DEF RunRecv
<1>13. CASE RunExit
  <2>1. OnWire' = OnWire
    BY <1>13, WireKept, Zenon DEF RunExit
  <2>. QED
    BY <1>13, <2>1, Zenon DEF RunExit
<1>14. CASE RunQueue
  <2>1. OnWire' = OnWire
    BY <1>14, WireKept, Zenon DEF RunQueue
  <2>2. runMsg \in Accepts
    BY <1>14, InHand, Zenon DEF RunQueue
  <2>. QED
    BY <1>14, <2>1, <2>2, Zenon DEF RunQueue
<1>15. CASE RunDrop
  <2>1. policy # "unique"
    BY <1>15, <1>d, Zenon DEF RunDrop
  <2>. QED
    BY <2>1, Zenon
<1>16. ASSUME NEW d \in Dials, DialExpire(d)
      PROVE  NoLossInv'
  <2>1. OnWire' = OnWire
    BY <1>16, WireKept, Zenon DEF DialExpire
  <2>. QED
    BY <1>16, <2>1, Zenon DEF DialExpire
<1>17. ASSUME NEW a \in Accepts, ReaperExpire(a)
      PROVE  NoLossInv'
  <2>1. OnWire' = OnWire
    BY <1>17, WireKept, Zenon DEF ReaperExpire
  <2>. QED
    BY <1>17, <2>1, Zenon DEF ReaperExpire
<1>18. ASSUME NEW a \in Accepts, SendQuit(a)
      PROVE  NoLossInv'
  <2>1. OnWire' = OnWire
    BY <1>18, WireKept, Zenon DEF SendQuit
  <2>. QED
    BY <1>18, <2>1, Zenon DEF SendQuit
<1>19. ASSUME NEW a \in Accepts, SendHand(a)
      PROVE  NoLossInv'
  <2>1. OnWire' = OnWire
    BY <1>19, WireKept, Zenon DEF SendHand
  <2>. QED
    BY <1>19, <2>1, Zenon DEF SendHand
<1>20. ASSUME NEW a \in Accepts, ReaperDone(a)
      PROVE  NoLossInv'
  <2>1. OnWire' = OnWire
    BY <1>20, WireKept, Zenon DEF ReaperDone
  <2>. QED
    BY <1>20, <2>1, Zenon DEF ReaperDone
<1>21. ASSUME NEW a \in Accepts, Reap(a)
      PROVE  NoLossInv'
  <2>1. OnWire' = OnWire
    BY <1>21, WireKept, Zenon DEF Reap
  <2>. QED
    BY <1>21, <2>1, Zenon DEF Reap
<1>22. ASSUME NEW d \in Dials, DialReceive(d)
      PROVE  NoLossInv'
  <2>1. OnWire' = OnWire
    BY <1>22, WireKept, Zenon DEF DialReceive
  <2>. QED
    BY <1>22, <2>1, Zenon DEF DialReceive
<1>23. ASSUME NEW d \in Dials, DialCloseDone(d)
      PROVE  NoLossInv'
  <2>1. OnWire' = OnWire
    BY <1>23, WireKept, Zenon DEF DialCloseDone
  <2>. QED
    BY <1>23, <2>1, Zenon DEF DialCloseDone
<1>24. ASSUME NEW d \in Dials, DialTimeout(d)
      PROVE  NoLossInv'
  <2>1. OnWire' = OnWire
    BY <1>24, WireKept, Zenon DEF DialTimeout
  <2>. QED
    BY <1>24, <2>1, Zenon DEF DialTimeout
<1>25. Calls => NoLossInv'
  BY <1>1, <1>2, <1>3, Zenon DEF Calls
<1>26. StreamStep => NoLossInv'
  BY <1>7, <1>8, <1>9, <1>10, <1>11, Zenon DEF StreamStep
<1>27. RunStep => NoLossInv'
  BY <1>12, <1>13, <1>14, <1>15, Zenon DEF RunStep
<1>28. Timer => NoLossInv'
  BY <1>16, <1>17, Zenon DEF Timer
<1>29. \A a \in Accepts : AcceptStep(a) \/ ReapStep(a) => NoLossInv'
  BY <1>18, <1>19, <1>20, <1>21, Zenon DEF AcceptStep, ReapStep
<1>30. \A d \in Dials : DialStep(d) => NoLossInv'
  BY <1>22, <1>23, <1>24, Zenon DEF DialStep
<1>. QED
  BY <1>4, <1>5, <1>6, <1>25, <1>26, <1>27, <1>28, <1>29, <1>30, Zenon
  DEF Next, Work

\* An Accept and a Dial of its id meet, for any number of calls with ids from
\* NextId: before a timer has to fire the Dial has the address, unless an end of
\* the stream is closed (StartStream, Run, getClientStream, timeoutWait, Dial).
THEOREM DialsMeet == Spec => []Meet
<1>1. Init => PairInv /\ HeldInv /\ NoLossInv
  BY Zenon
     DEF Init, PairInv, DialPaired, ReapPaired, RunPaired, HeldInv, NoLossInv
<1>2. TypeOK /\ IdInv /\ SoleOwner /\ StreamInv /\ FreshInv /\ ReapInv
      /\ UniqueInv /\ UniqueIdsNeverCollide /\ PairInv /\ HeldInv /\ NoLossInv
      /\ [Next]_vars => PairInv' /\ HeldInv' /\ NoLossInv'
  <2>1. PairInv /\ UNCHANGED vars => PairInv'
    <3>. SUFFICES ASSUME PairInv, UNCHANGED vars
                  PROVE  PairInv'
      BY Zenon
    <3>1. \A i : (Reaped(i)' <=> Reaped(i)) /\ (GaveUp(i)' <=> GaveUp(i))
      BY Zenon DEF Reaped, GaveUp, vars
    <3>2. policy = "unique" => \A d \in Dials : DialPaired(d)'
      BY <3>1, Zenon DEF PairInv, DialPaired, vars
    <3>3. policy = "unique" => \A a \in Accepts : ReapPaired(a)'
      BY <3>1, Zenon DEF PairInv, ReapPaired, vars
    <3>4. policy = "unique" => RunPaired'
      BY <3>1, Zenon DEF PairInv, RunPaired, vars
    <3>. QED
      BY <3>2, <3>3, <3>4, Zenon DEF PairInv, vars
  <2>2. HeldInv /\ UNCHANGED vars => HeldInv'
    BY Zenon DEF HeldInv, vars
  <2>3. NoLossInv /\ UNCHANGED vars => NoLossInv'
    BY WireKept, Zenon DEF NoLossInv, vars
  <2>. QED
    BY <2>1, <2>2, <2>3, PairPreserved, HeldPreserved, NoLossPreserved, Zenon
<1>3. TypeOK /\ IdInv /\ StreamInv /\ ReapInv /\ UniqueInv /\ PairInv /\ HeldInv
      /\ NoLossInv => Meet
  <2>. SUFFICES ASSUME TypeOK, IdInv, StreamInv, ReapInv, UniqueInv, PairInv,
                       HeldInv, NoLossInv, policy = "unique", quit = {},
                       stream = "open", OnlyTimersLeft,
                       NEW a \in Accepts, NEW d \in Dials,
                       accept[a] \in {"send", "wait", "ok"},
                       dialId[d] = acceptId[a], reaper[a] # "gone",
                       dial[d] = "select"
                PROVE  FALSE
    BY Zenon DEF Meet
  <2>1. StreamWaits /\ RunWaits /\ AcceptWaits(a) /\ ReaperWaits(a) /\ DialWaits(d)
    BY Zenon DEF OnlyTimersLeft, UniqueInv
  <2>2. sender = "idle"
    BY <2>1, Zenon DEF TypeOK, StreamInv, StreamWaits
  <2>3. accept[a] = "ok"
    BY <2>1, <2>2, Zenon DEF StreamInv, AcceptWaits
  <2>4. run = "recv" /\ reader = "recv"
    BY <2>1, Zenon DEF TypeOK, StreamInv, RunWaits
  <2>5. OnWire = {} /\ received # a /\ runMsg # a
    <3>1. wire = <<>> /\ received = None /\ runMsg = None
      BY <2>1, <2>4, Zenon DEF StreamWaits, StreamInv
    <3>2. OnWire = {}
      BY <3>1, SMT, Z3, SMTT(20) DEF OnWire
    <3>. QED
      BY <3>1, <3>2, Zenon
  <2>6. reaper[a] # "none"
    BY <2>3, <2>5, Zenon DEF NoLossInv
  <2>7. reaper[a] = "wait"
    BY <2>1, <2>6, Zenon DEF ReaperWaits, TypeOK
  <2>8. dialId[d] # None /\ conn[d] = None
    BY Zenon DEF IdInv
  <2>9. \A c \in Dials : dialId[c] = dialId[d] => c = d
    BY <2>8, Zenon DEF UniqueInv
  <2>10. \A b \in Accepts : acceptId[b] = acceptId[a] => b = a
    BY <2>8, Zenon DEF UniqueInv
  <2>11. ch[reaperEntry[a]] = a
    <3>1. \A c \in Dials : conn[c] = a => acceptId[a] = dialId[c]
      BY ZenonT(40) DEF IdInv
    <3>2. \A c \in Dials : conn[c] # a
      BY <2>8, <2>9, <3>1, Zenon
    <3>. QED
      BY <2>6, <3>2, Zenon DEF HeldInv
  <2>12. clientStreams[acceptId[a]] = reaperEntry[a]
    <3>1. ~GaveUp(acceptId[a])
      BY <2>9, Zenon DEF GaveUp
    <3>. QED
      BY <2>7, <3>1, Zenon DEF PairInv, ReapPaired
  <2>13. clientStreams[dialId[d]] = dialEntry[d]
    BY <2>10, Zenon DEF PairInv, DialPaired, Reaped
  <2>. QED
    BY <2>1, <2>11, <2>12, <2>13, Zenon DEF DialWaits
<1>. QED
  BY <1>1, <1>2, <1>3, Correct, UniqueIds, NeverCollide, LeftInvariant,
     PTL DEF Spec
=============================================================================
