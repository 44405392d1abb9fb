---------------------------- MODULE MCMetricSets ----------------------------
(***************************************************************************)
(* Instances of MetricSets for TLC.                                        *)
(***************************************************************************)
EXTENDS MetricSets, TLC

Symmetry == Permutations(Sets) \union Permutations(Threads)
=============================================================================
