---------------------------- MODULE MCMuxBroker ----------------------------
(* MuxBroker on small sets of calls and ids; calls of one kind and ids are *)
(* interchangeable, so runs that check invariants use symmetry.            *)
EXTENDS MuxBroker, TLC

Symmetry == Permutations(Dials) \cup Permutations(Accepts)
            \cup Permutations(Ids)
=============================================================================
