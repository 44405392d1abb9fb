------------------------------ MODULE Testing ------------------------------
(***************************************************************************)
(* The failure callbacks of src/testing.cpp: a vector of functions, each   *)
(* with a context, that TestFailed calls one after the other before the    *)
(* macro TEST ends the process.  A callback may add and remove callbacks   *)
(* itself, and a TEST of its own may fail.  The loop keeps the beginning   *)
(* and the end that the vector had; a removal closes the gap in place, and *)
(* an addition leaves the vector where it is, or moves it when it is full. *)
(* Callbacks are numbered as they are added.                               *)
(***************************************************************************)
EXTENDS Integers, SequencesExt, FiniteSets

CONSTANTS
  Contexts,    (* a TestFailFnAdder, or the context of a plain function    *)
  MaxFns       (* bound: how many callbacks are added in all               *)

VARIABLES
  g_fail_fns,  (* the callbacks in the vector                              *)
  phase,       (* "running", "failing" in the loop, "lost" where there is  *)
               (* no element to read, "logged", "quit"                     *)
  next, stop,  (* the position and the end of the loop                     *)
  moved,       (* whether the vector has moved since the loop began        *)
  called,      (* history: the callbacks that the loop has called          *)
  added,       (* history: the context of each callback                    *)
  removed,     (* history: the callbacks that were removed                 *)
  atFailure,   (* history: those added and not removed when the loop began *)
  cancelled    (* history: those removed and not called by the loop before *)

vars == <<g_fail_fns, phase, next, stop, moved, called, added, removed, atFailure, cancelled>>

Init ==
  /\ g_fail_fns = <<>>
  /\ phase = "running"
  /\ next = 1
  /\ stop = 0
  /\ moved = FALSE
  /\ called = <<>>
  /\ added = <<>>
  /\ removed = {}
  /\ atFailure = {}
  /\ cancelled = {}

InCallback == phase = "failing" /\ next > 1

-----------------------------------------------------------------------------
(* By the program before a failure, or by the callback that was called. An *)
(* addition has room where an element was at the beginning of the loop.    *)
AddTestFailFn(c) ==
  /\ phase = "running" \/ InCallback
  /\ Len(added) < MaxFns
  /\ added' = Append(added, c)
  /\ g_fail_fns' = Append(g_fail_fns, Len(added) + 1)
  /\ \E moves \in BOOLEAN :
       /\ moves => phase = "failing" /\ Len(g_fail_fns) >= stop
       /\ moved' = (moved \/ moves)
  /\ UNCHANGED <<phase, next, stop, called, removed, atFailure, cancelled>>

\* Mutant: std::remove_if alone, which leaves the end of the vector as it was.
WithoutErase(c) ==
  LET kept == FlattenSeq([k \in DOMAIN g_fail_fns |->
                            IF added[g_fail_fns[k]] = c THEN <<>> ELSE <<g_fail_fns[k]>>])
  IN  kept \o SubSeq(g_fail_fns, Len(kept) + 1, Len(g_fail_fns))

Without(c) == FlattenSeq([k \in DOMAIN g_fail_fns |->
                            IF added[g_fail_fns[k]] = c THEN <<>> ELSE <<g_fail_fns[k]>>])

AddedWith(c) == {f \in DOMAIN added : added[f] = c}

(* Called, and by the destructor of a TestFailFnAdder.                     *)
RemoveTestFailFnByContext(c) ==
  /\ phase = "running" \/ InCallback
  /\ g_fail_fns' = Without(c)
  /\ removed' = removed \union AddedWith(c)
  /\ cancelled' = cancelled \union (AddedWith(c) \ ToSet(called))
  /\ UNCHANGED <<phase, next, stop, moved, called, added, atFailure>>

(* Also in a callback, whose TEST ends the process when its own loop ends. *)
TestFailed ==
  /\ phase = "running" \/ InCallback
  /\ phase' = "failing"
  /\ next' = 1
  /\ stop' = Len(g_fail_fns)
  /\ moved' = FALSE
  /\ called' = <<>>
  /\ atFailure' = DOMAIN added \ removed
  /\ cancelled' = removed
  /\ UNCHANGED <<g_fail_fns, added, removed>>

(* An element that was erased is destroyed, and memory that was left freed.*)
CallNext ==
  /\ phase = "failing"
  /\ next <= stop
  /\ IF ~moved /\ next <= Len(g_fail_fns)
       THEN called' = Append(called, g_fail_fns[next]) /\ next' = next + 1 /\ UNCHANGED phase
       ELSE phase' = "lost" /\ UNCHANGED <<called, next>>
  /\ UNCHANGED <<g_fail_fns, stop, moved, added, removed, atFailure, cancelled>>

(* The failure is logged after the callbacks.                              *)
LogFailure ==
  /\ phase = "failing"
  /\ next > stop
  /\ phase' = "logged"
  /\ UNCHANGED <<g_fail_fns, next, stop, moved, called, added, removed, atFailure, cancelled>>

(* The macros call TestQuit with _exit, behind TestFailed or without it.   *)
TestQuit ==
  /\ phase \in {"running", "logged"} \/ InCallback
  /\ phase' = "quit"
  /\ UNCHANGED <<g_fail_fns, next, stop, moved, called, added, removed, atFailure, cancelled>>

Next ==
  \/ \E c \in Contexts : AddTestFailFn(c) \/ RemoveTestFailFnByContext(c)
  \/ TestFailed \/ CallNext \/ LogFailure \/ TestQuit

Spec == Init /\ [][Next]_vars

-----------------------------------------------------------------------------
TypeOK ==
  /\ added \in Seq(Contexts)
  /\ g_fail_fns \in Seq(DOMAIN added) /\ called \in Seq(DOMAIN added)
  /\ phase \in {"running", "failing", "lost", "logged", "quit"}

Missed == {f \in atFailure \ removed : f \notin ToSet(called)}

(* Whatever callbacks do to the vector that TestFailed walks, each is      *)
(* called at most once in a failure and in the order of addition, and none *)
(* that was removed before its turn. When the failure is logged, no more   *)
(* have missed their turn than were called and removed after that; and the *)
(* loop only leaves the vector when an addition has moved it or a callback *)
(* of the beginning was removed (testing.cpp:123).                         *)
EachCalledOnce ==
  /\ TypeOK
  /\ \A i, k \in DOMAIN called : i < k => called[i] < called[k]
  /\ ToSet(called) \intersect cancelled = {}
  /\ phase = "logged" => Cardinality(Missed) <= Cardinality(ToSet(called) \intersect removed)
  /\ phase = "lost" => moved \/ atFailure \intersect removed # {}
=============================================================================
