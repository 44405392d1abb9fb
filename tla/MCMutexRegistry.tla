-------------------------- MODULE MCMutexRegistry --------------------------
(***************************************************************************)
(* Instances of MutexRegistry for TLC.                                     *)
(***************************************************************************)
EXTENDS MutexRegistry, TLC

Symmetry == Permutations(Mutexes) \union Permutations(Callers)
=============================================================================
