--------------------------- MODULE MetricContents ---------------------------
(***************************************************************************)
(* What one MetricSet of src/metrics.cpp holds: a tree of timer            *)
(* definitions and a list of values, under the mutex of the set.  Timers   *)
(* and counters change their atomics without it, and a reset stores zeros. *)
(***************************************************************************)
EXTENDS Integers, FiniteSets, SequencesExt

CONSTANTS
  Threads,
  Defs,          (* timer definitions, values first made in CreateTimerDef *)
  Counters,      (* values of the set, and one that is derived from them   *)
  Derived,
  NoParent,
  Nobody,        (* the owner of a mutex that is free                      *)
  MaxSamples     (* bound: how often a timer or a counter counts           *)

VARIABLES
  m_mutex,            (* the thread that has the mutex of the set          *)
  m_parent,           (* of each definition                                *)
  m_children,         (* of each definition, in order                      *)
  m_root_timer_defs,
  m_all_timer_defs,
  m_all_values,       (* m_all_values_raw and m_all_values_unique          *)
  ticks, samples,     (* m_total_num_ticks and m_num_samples               *)
  m_value,            (* of each counter                                   *)
  dummy_timer_def,    (* whether the definition for no set was made        *)
  frame,              (* what each thread does: its step and its argument  *)
  answer,             (* what the function that ended last returned        *)
  early, late,        (* how many AddTicks of each definition were between *)
                      (* their two steps when its last reset began, and    *)
                      (* began between the two steps of that reset         *)
  total               (* how many samples and counts there were            *)

treeVars == <<m_parent, m_children, m_root_timer_defs, m_all_timer_defs, dummy_timer_def>>
atomicVars == <<ticks, samples, m_value, early, late, total>>
vars == <<m_mutex, treeVars, m_all_values, atomicVars, frame, answer>>

Idle == [at |-> "idle"]

Init ==
  /\ m_mutex = Nobody
  /\ m_parent = [d \in Defs |-> NoParent]
  /\ m_children = [d \in Defs |-> <<>>]
  /\ m_root_timer_defs = <<>>
  /\ m_all_timer_defs = <<>>
  /\ m_all_values = <<>>
  /\ ticks = [d \in Defs |-> 0]
  /\ samples = [d \in Defs |-> 0]
  /\ m_value = [c \in Counters |-> 0]
  /\ frame = [t \in Threads |-> Idle]
  /\ answer = <<>>
  /\ early = [d \in Defs |-> 0]
  /\ late = [d \in Defs |-> 0]
  /\ dummy_timer_def = FALSE
  /\ total = 0

Created == ToSet(m_all_timer_defs)
At(t, step) == frame[t].at = step
Goes(t, f) == frame' = [frame EXCEPT ![t] = f]

(* The constructor of LockGuard, and its destructor.                       *)
Locks(t) == m_mutex = Nobody /\ m_mutex' = t
Unlocks(t) == m_mutex = t /\ m_mutex' = Nobody

-----------------------------------------------------------------------------
(***************************************************************************)
(* CreateTimerDef2: its last two steps under the mutex are one each.       *)
(***************************************************************************)
InCreation == {frame[t].def : t \in {u \in Threads : frame[u].at \in {"link", "own"}}}

CreateTimerDef(t, d, parent) ==
  /\ At(t, "idle")
  /\ d \in Defs \ (Created \union InCreation)
  /\ parent \in Created \union {NoParent}
  /\ Locks(t)
  /\ Goes(t, [at |-> "link", def |-> d, parent |-> parent])
  /\ UNCHANGED <<treeVars, m_all_values, atomicVars, answer>>

LinkTimerDef(t) ==
  LET d == frame[t].def
      parent == frame[t].parent
  IN  /\ At(t, "link")
      /\ IF parent = NoParent
           THEN /\ m_root_timer_defs' = Append(m_root_timer_defs, d)
                /\ UNCHANGED <<m_parent, m_children>>
           ELSE /\ m_parent' = [m_parent EXCEPT ![d] = parent]
                /\ m_children' = [m_children EXCEPT ![parent] = Append(@, d)]
                /\ UNCHANGED m_root_timer_defs
      /\ Goes(t, [frame[t] EXCEPT !.at = "own"])
      /\ UNCHANGED <<m_mutex, m_all_timer_defs, m_all_values, dummy_timer_def, atomicVars, answer>>

OwnTimerDef(t) ==
  /\ At(t, "own")
  /\ m_all_timer_defs' = Append(m_all_timer_defs, frame[t].def)
  /\ answer' = <<frame[t].def>>
  /\ Unlocks(t)
  /\ Goes(t, Idle)
  /\ UNCHANGED <<m_parent, m_children, m_root_timer_defs, m_all_values, dummy_timer_def, atomicVars>>

-----------------------------------------------------------------------------
(* AddTicks by the destructor of a Timer: one tick, then one sample.       *)
Between(d) == {t \in Threads : At(t, "sample") /\ frame[t].def = d}
IsReset(d) == \E t \in Threads : At(t, "zero samples") /\ Head(frame[t].todo) = d

AddTicks(t, d) ==
  /\ At(t, "idle")
  /\ d \in Created
  /\ total < MaxSamples
  /\ total' = total + 1
  /\ ticks' = [ticks EXCEPT ![d] = @ + 1]
  /\ late' = [late EXCEPT ![d] = IF IsReset(d) THEN @ + 1 ELSE @]
  /\ Goes(t, [at |-> "sample", def |-> d])
  /\ UNCHANGED <<m_mutex, treeVars, m_all_values, samples, m_value, early, answer>>

AddSample(t) ==
  /\ At(t, "sample")
  /\ samples' = [samples EXCEPT ![frame[t].def] = @ + 1]
  /\ Goes(t, Idle)
  /\ UNCHANGED <<m_mutex, treeVars, m_all_values, ticks, m_value, early, late, total, answer>>

(***************************************************************************)
(* ResetTimerDefs: TimerDef::Reset stores two zeros for each definition,   *)
(* with the mutex held, which AddTicks does not take.                      *)
(***************************************************************************)
ResetTimerDefs(t) ==
  /\ At(t, "idle")
  /\ Locks(t)
  /\ Goes(t, [at |-> "zero ticks", todo |-> m_all_timer_defs])
  /\ UNCHANGED <<treeVars, m_all_values, atomicVars, answer>>

\* Mutant: the samples are not reset.
ResetTicksOnly(t) ==
  /\ At(t, "zero ticks")
  /\ frame[t].todo # <<>>
  /\ ticks' = [ticks EXCEPT ![Head(frame[t].todo)] = 0]
  /\ Goes(t, [frame[t] EXCEPT !.todo = Tail(@)])
  /\ UNCHANGED <<m_mutex, treeVars, m_all_values, samples, m_value, early, late, total, answer>>

ResetTicks(t) ==
  LET d == Head(frame[t].todo)
  IN  /\ At(t, "zero ticks")
      /\ frame[t].todo # <<>>
      /\ ticks' = [ticks EXCEPT ![d] = 0]
      /\ early' = [early EXCEPT ![d] = Cardinality(Between(d))]
      /\ late' = [late EXCEPT ![d] = 0]
      /\ Goes(t, [frame[t] EXCEPT !.at = "zero samples"])
      /\ UNCHANGED <<m_mutex, treeVars, m_all_values, samples, m_value, total, answer>>

ResetSamples(t) ==
  LET d == Head(frame[t].todo)
  IN  /\ At(t, "zero samples")
      /\ samples' = [samples EXCEPT ![d] = 0]
      /\ Goes(t, [at |-> "zero ticks", todo |-> Tail(frame[t].todo)])
      /\ UNCHANGED <<m_mutex, treeVars, m_all_values, ticks, m_value, early, late, total, answer>>

-----------------------------------------------------------------------------
(* CreateCounter and CreateDerivedValue: AddValue under the mutex.         *)
AddValue(t, v) ==
  /\ At(t, "idle")
  /\ v \in (Counters \union {Derived}) \ ToSet(m_all_values)
  /\ m_mutex = Nobody
  /\ m_all_values' = Append(m_all_values, v)
  /\ answer' = IF v = Derived THEN <<>> ELSE <<v>>
  /\ UNCHANGED <<m_mutex, treeVars, atomicVars, frame>>

(* For no set there is one definition, and no counter: nothing makes the   *)
(* dummy_counter that CreateCounter returns.                               *)
CreateForNoSet(t) ==
  /\ At(t, "idle")
  /\ \/ dummy_timer_def' = TRUE /\ answer' = <<"dummy TimerDef">>
     \/ UNCHANGED dummy_timer_def /\ answer' = <<"null">>
  /\ UNCHANGED <<m_mutex, m_parent, m_children, m_root_timer_defs, m_all_timer_defs, m_all_values, atomicVars, frame>>

Add(t, c) ==
  /\ At(t, "idle")
  /\ c \in Counters \intersect ToSet(m_all_values)
  /\ total < MaxSamples
  /\ total' = total + 1
  /\ m_value' = [m_value EXCEPT ![c] = @ + 1]
  /\ UNCHANGED <<m_mutex, treeVars, m_all_values, ticks, samples, early, late, frame, answer>>

(* The Reset of a derived value does nothing.                              *)
ResetCounters(t) ==
  /\ At(t, "idle")
  /\ Locks(t)
  /\ Goes(t, [at |-> "zero values", todo |-> m_all_values])
  /\ UNCHANGED <<treeVars, m_all_values, atomicVars, answer>>

ResetCounter(t) ==
  LET v == Head(frame[t].todo)
  IN  /\ At(t, "zero values")
      /\ frame[t].todo # <<>>
      /\ m_value' = IF v = Derived THEN m_value ELSE [m_value EXCEPT ![v] = 0]
      /\ Goes(t, [frame[t] EXCEPT !.todo = Tail(@)])
      /\ UNCHANGED <<m_mutex, treeVars, m_all_values, ticks, samples, early, late, total, answer>>

ResetEnds(t) ==
  /\ frame[t].at \in {"zero ticks", "zero values"}
  /\ frame[t].todo = <<>>
  /\ Unlocks(t)
  /\ Goes(t, Idle)
  /\ UNCHANGED <<treeVars, m_all_values, atomicVars, answer>>

-----------------------------------------------------------------------------
(* GetRootTimerDefs, GetChildren and GetValues copy a vector.              *)
GetVector(t) ==
  /\ At(t, "idle")
  /\ m_mutex = Nobody
  /\ \E vector \in {m_root_timer_defs, m_all_values} \union {m_children[d] : d \in Created} :
       answer' = vector
  /\ UNCHANGED <<m_mutex, treeVars, m_all_values, atomicVars, frame>>

Next ==
  \E t \in Threads :
    \/ \E d \in Defs : AddTicks(t, d) \/ \E p \in Defs \union {NoParent} : CreateTimerDef(t, d, p)
    \/ \E v \in Counters \union {Derived} : AddValue(t, v) \/ Add(t, v)
    \/ LinkTimerDef(t) \/ OwnTimerDef(t) \/ AddSample(t)
    \/ ResetTimerDefs(t) \/ ResetTicks(t) \/ ResetSamples(t)
    \/ ResetCounters(t) \/ ResetCounter(t) \/ ResetEnds(t)
    \/ CreateForNoSet(t) \/ GetVector(t)

Spec == Init /\ [][Next]_vars

-----------------------------------------------------------------------------
TypeOK ==
  /\ m_mutex \in Threads \union {Nobody}
  /\ m_parent \in [Defs -> Defs \union {NoParent}]
  /\ {ticks, samples} \subseteq [Defs -> 0 .. MaxSamples]
  /\ m_value \in [Counters -> 0 .. MaxSamples]

Siblings(d) == IF m_parent[d] = NoParent THEN m_root_timer_defs ELSE m_children[m_parent[d]]
Age(d) == CHOOSE i \in DOMAIN m_all_timer_defs : m_all_timer_defs[i] = d

(* While nobody has the mutex, each definition is once in the list of its  *)
(* parent, or of the roots, its parent is older than it is, and the lists  *)
(* hold no other: a walk from the roots meets all of them, once.           *)
TreeSound ==
  m_mutex = Nobody =>
    /\ \A d \in Created :
         /\ Cardinality({i \in DOMAIN Siblings(d) : Siblings(d)[i] = d}) = 1
         /\ m_parent[d] # NoParent => m_parent[d] \in Created /\ Age(m_parent[d]) < Age(d)
    /\ \A d \in ToSet(m_root_timer_defs) : d \in Created /\ m_parent[d] = NoParent
    /\ \A p \in Defs : \A d \in ToSet(m_children[p]) : d \in Created /\ m_parent[d] = p

(* When nothing is going on in a definition, it has as many ticks as       *)
(* samples, but for the AddTicks that its last reset crossed: a sample     *)
(* that lost its tick for each that was in the middle when the reset       *)
(* began, a tick that lost its sample for each that began within the reset *)
(* (metrics.cpp:66 and 88, without a lock).                                *)
TicksMatchSamples ==
  \A d \in Defs : Between(d) = {} /\ ~IsReset(d) =>
    ticks[d] - samples[d] \in -early[d] .. late[d]

ContentsSound == TypeOK /\ TreeSound /\ TicksMatchSamples
=============================================================================
