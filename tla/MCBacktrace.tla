---------------------------- MODULE MCBacktrace ----------------------------
(***************************************************************************)
(* Two threads ask for the symbols of five addresses.  Module a has two    *)
(* ranges that touch and one behind b; the third address of a is behind    *)
(* one with an inlined call, the last address is in no module.             *)
(***************************************************************************)
EXTENDS Backtrace, TLC

Line(b, e, n) == [begin |-> b, end |-> e, name |-> n]
MapLines == <<Line(0, 1, "a"), Line(1, 2, "a"), Line(2, 3, "b"), Line(3, 4, "a"),
              Line(4, 5, "[stack]"), Line(5, 6, "")>>
ModuleNames == <<"a", "b">>
NoModules == {"[stack]", ""}
FiveAddresses == <<2, 1, 0, 3, 4>>
FrameTable == [a \in 0 .. 4 |-> CASE a = 0 -> <<"f0", "f0caller">>
                                  [] a = 2 -> <<"?">>
                                  [] OTHER -> <<ToString(a)>>]
=============================================================================
