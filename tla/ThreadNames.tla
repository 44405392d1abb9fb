---------------------------- MODULE ThreadNames -----------------------------
(***************************************************************************)
(* SetCurrentThreadName of src/system.cpp and the callback that is told of *)
(* it: a function and its context, two globals that nothing locks.  What   *)
(* the operating system makes of the name is left out.                     *)
(***************************************************************************)
EXTENDS Integers

CONSTANTS
  Threads,
  Callbacks,   (* functions; the context of each has its name              *)
  NoCallback   (* a null function, and its null context                    *)

Fields == {"fn", "context"}

VARIABLES
  g_callback,  (* g_set_current_thread_name_fn and .._context, by field    *)
  doing,       (* what each thread does                                    *)
  setting,     (* what a thread that sets the callback sets                *)
  unset,       (* the fields that it has still to store                    *)
  tested,      (* the globals when a thread tested the function            *)
  current,     (* the callback that a thread began to set last, and those  *)
               (* that others were setting at the same time                *)
  undisturbed, (* threads that named themselves while nobody sets one      *)
  told         (* what such threads have called since a thread set one     *)

vars == <<g_callback, doing, setting, unset, tested, current, undisturbed, told>>

Pair(callback) == [field \in Fields |-> callback]

Init ==
  /\ g_callback = Pair(NoCallback)
  /\ doing = [t \in Threads |-> "idle"]
  /\ setting = [t \in Threads |-> NoCallback]
  /\ unset = [t \in Threads |-> {}]
  /\ tested = [t \in Threads |-> Pair(NoCallback)]
  /\ current = {NoCallback}
  /\ undisturbed = {}
  /\ told = {}

Goes(t, from, to) == doing[t] = from /\ doing' = [doing EXCEPT ![t] = to]
NobodySets == \A t \in Threads : doing[t] # "setting"

-----------------------------------------------------------------------------
(* SetSetCurrentThreadNameCallback: two stores of plain variables, which   *)
(* another thread may see in either order.                                 *)
SetSetCurrentThreadNameCallback(t, callback) ==
  /\ Goes(t, "idle", "setting")
  /\ setting' = [setting EXCEPT ![t] = callback]
  /\ unset' = [unset EXCEPT ![t] = Fields]
  /\ current' = IF NobodySets THEN {callback} ELSE current \union {callback}
  /\ undisturbed' = {}
  /\ told' = {}
  /\ UNCHANGED <<g_callback, tested>>

\* Mutant: the context of the first callback stays.
StoreOnce(t, field) ==
  /\ doing[t] = "setting"
  /\ field \in unset[t]
  /\ unset' = [unset EXCEPT ![t] = @ \ {field}]
  /\ g_callback' = [g_callback EXCEPT ![field] = IF field = "context" /\ @ # NoCallback THEN @ ELSE setting[t]]
  /\ UNCHANGED <<doing, setting, tested, current, undisturbed, told>>

Store(t, field) ==
  /\ doing[t] = "setting"
  /\ field \in unset[t]
  /\ unset' = [unset EXCEPT ![t] = @ \ {field}]
  /\ g_callback' = [g_callback EXCEPT ![field] = setting[t]]
  /\ UNCHANGED <<doing, setting, tested, current, undisturbed, told>>

CallbackSet(t) ==
  /\ unset[t] = {}
  /\ Goes(t, "setting", "idle")
  /\ setting' = [setting EXCEPT ![t] = NoCallback]
  /\ UNCHANGED <<g_callback, unset, tested, current, undisturbed, told>>

-----------------------------------------------------------------------------
(* SetCurrentThreadName, also by SetCurrentThreadNamef, unless there is no *)
(* memory for the name.                                                    *)
SetCurrentThreadName(t) ==
  /\ Goes(t, "idle", "named")
  /\ undisturbed' = IF NobodySets THEN undisturbed \union {t} ELSE undisturbed
  /\ UNCHANGED <<g_callback, setting, unset, tested, current, told>>

Calls(t, call) == told' = IF t \in undisturbed THEN told \union {call} ELSE told

TestFn(t) ==
  /\ IF g_callback["fn"] = NoCallback
       THEN Goes(t, "named", "idle") /\ Calls(t, Pair(NoCallback)) /\ UNCHANGED tested
       ELSE Goes(t, "named", "tested") /\ tested' = [tested EXCEPT ![t] = g_callback] /\ UNCHANGED told
  /\ UNCHANGED <<g_callback, setting, unset, current, undisturbed>>

(* What is called are the values that were tested, or those that are there *)
(* now, a null function among them.                                        *)
Tell(t) ==
  /\ Goes(t, "tested", "idle")
  /\ \E call \in [Fields -> Callbacks \union {NoCallback}] :
       /\ \A field \in Fields : call[field] \in {tested[t][field], g_callback[field]}
       /\ Calls(t, call)
  /\ tested' = [tested EXCEPT ![t] = Pair(NoCallback)]
  /\ UNCHANGED <<g_callback, setting, unset, current, undisturbed>>

Next ==
  \E t \in Threads :
    \/ \E callback \in Callbacks \union {NoCallback} : SetSetCurrentThreadNameCallback(t, callback)
    \/ \E field \in Fields : Store(t, field)
    \/ CallbackSet(t) \/ SetCurrentThreadName(t) \/ TestFn(t) \/ Tell(t)

Spec == Init /\ [][Next]_vars

-----------------------------------------------------------------------------
TypeOK ==
  /\ g_callback \in [Fields -> Callbacks \union {NoCallback}]
  /\ tested \in [Threads -> [Fields -> Callbacks \union {NoCallback}]]
  /\ doing \in [Threads -> {"idle", "setting", "named", "tested"}]
  /\ unset \in [Threads -> SUBSET Fields]

(* A thread tells the callback that was set last, with the context that    *)
(* was set with it, unless a thread sets one meanwhile; if several threads *)
(* have set one at the same time (system.cpp:24), the function and the     *)
(* context may stay those of different ones, until another one is set.     *)
OwnContext == TypeOK /\ told \subseteq [Fields -> current]
=============================================================================
