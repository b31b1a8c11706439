----------------------------- MODULE Rendezvous -----------------------------
(***************************************************************************)
(* What a stream broker promises, whichever transport it uses: each call   *)
(* of Accept and of Dial names an id once; a Dial and an Accept of one id  *)
(* may be joined, each with at most one other; what is joined stays joined *)
(* and a Dial succeeds only when it is.  A call may fail instead.          *)
(* MuxBroker and GRPCBroker implement this specification.                  *)
(***************************************************************************)
CONSTANTS Dials, Accepts, Ids, None

VARIABLES
  dialled,   \* the id of each Dial, None before the call
  accepted,  \* the id of each Accept, None before the call
  joined,    \* the pairs <<d, a>> of calls that share a connection
  connected  \* the Dials that have returned their connection

vars == <<dialled, accepted, joined, connected>>

Init ==
  /\ dialled = [d \in Dials |-> None]
  /\ accepted = [a \in Accepts |-> None]
  /\ joined = {} /\ connected = {}

Dial(d, id) ==
  /\ dialled[d] = None
  /\ dialled' = [dialled EXCEPT ![d] = id]
  /\ UNCHANGED <<accepted, joined, connected>>

Accept(a, id) ==
  /\ accepted[a] = None
  /\ accepted' = [accepted EXCEPT ![a] = id]
  /\ UNCHANGED <<dialled, joined, connected>>

Join(d, a) ==
  /\ dialled[d] # None /\ dialled[d] = accepted[a]
  /\ \A p \in joined : p[1] # d /\ p[2] # a
  /\ joined' = joined \cup {<<d, a>>}
  /\ UNCHANGED <<dialled, accepted, connected>>

Connect(d) ==
  /\ \E a \in Accepts : <<d, a>> \in joined
  /\ connected' = connected \cup {d}
  /\ UNCHANGED <<dialled, accepted, joined>>

Next ==
  \/ \E d \in Dials, id \in Ids : Dial(d, id)
  \/ \E a \in Accepts, id \in Ids : Accept(a, id)
  \/ \E d \in Dials, a \in Accepts : Join(d, a)
  \/ \E d \in Dials : Connect(d)

Spec == Init /\ [][Next]_vars
=============================================================================
