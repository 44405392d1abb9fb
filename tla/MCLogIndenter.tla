--------------------------- MODULE MCLogIndenter ---------------------------
(***************************************************************************)
(* Instances of LogIndenter for TLC.                                       *)
(***************************************************************************)
EXTENDS LogIndenter, TLC

NoPrefix == [l \in Logs |-> <<>>]
Symmetry == Permutations(Indenters)
=============================================================================
