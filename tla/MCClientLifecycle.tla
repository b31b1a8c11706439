-------------------------- MODULE MCClientLifecycle --------------------------
(* ClientLifecycle on small instances.                                     *)
EXTENDS ClientLifecycle, TLC

CallerSymmetry == Permutations(Callers)
=============================================================================
