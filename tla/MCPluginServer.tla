--------------------------- MODULE MCPluginServer ---------------------------
(* PluginServer for TLC: hosts and channels are interchangeable.           *)
EXTENDS PluginServer, TLC

CONSTANT MaxEvents   \* bound on what happens from outside in one execution

Symmetry == Permutations(Hosts) \cup Permutations(Channels)

\* Calls, chunks of output, and failures of those who read the output.
Events == writes + Cardinality({h \in Hosts : call[h] # "none"})
          + Cardinality(refused) + Cardinality(reset)

FewEvents == Events <= MaxEvents
=============================================================================
