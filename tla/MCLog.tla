------------------------------- MODULE MCLog -------------------------------
(***************************************************************************)
(* Instances of Log for TLC.                                               *)
(***************************************************************************)
EXTENDS Log, TLC

CONSTANTS A, B   (* one log with a prefix, one without *)

TwoLogs == {A, B}
OnePrefix == A :> <<"P">> @@ B :> <<>>

Symmetry == Permutations(Printers)
=============================================================================
