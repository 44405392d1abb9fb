------------------------------ MODULE Lockable ------------------------------
(***************************************************************************)
(* What a caller of Mutex::lock, Mutex::try_lock and Mutex::unlock is      *)
(* promised, with none of the statistics: a call of lock returns once the  *)
(* mutex belongs to the caller, a call of try_lock either takes a free     *)
(* mutex or gives up because the mutex was taken at some moment of the     *)
(* call, and only the holder, outside any call, releases it.               *)
(***************************************************************************)
CONSTANTS
  Threads,   (* the threads of the program                                 *)
  NoOwner    (* the holder of a free mutex                                 *)

VARIABLES
  holder,    (* the thread the mutex belongs to, or NoOwner                *)
  call       (* what each thread is doing with the mutex                   *)

vars == <<holder, call>>

Calls == {"none", "lock", "try", "got", "missed"}

Become(t, c) == call' = [call EXCEPT ![t] = c]

Init ==
  /\ holder = NoOwner
  /\ call = [t \in Threads |-> "none"]

Enter(t) ==
  /\ call[t] = "none"
  /\ holder # t
  /\ \E c \in {"lock", "try"} : Become(t, c)
  /\ UNCHANGED holder

Take(t) ==
  /\ call[t] \in {"lock", "try"}
  /\ holder = NoOwner
  /\ holder' = t
  /\ Become(t, "got")

Miss(t) ==
  /\ call[t] = "try"
  /\ holder # NoOwner
  /\ Become(t, "missed")
  /\ UNCHANGED holder

Return(t) ==
  /\ call[t] \in {"got", "missed"}
  /\ Become(t, "none")
  /\ UNCHANGED holder

Release(t) ==
  /\ call[t] = "none"
  /\ holder = t
  /\ holder' = NoOwner
  /\ UNCHANGED call

Next ==
  \E t \in Threads :
    Enter(t) \/ Take(t) \/ Miss(t) \/ Return(t) \/ Release(t)

Spec == Init /\ [][Next]_vars
=============================================================================
