----------------------------- MODULE MetricSets -----------------------------
(***************************************************************************)
(* The list of metric sets of src/metrics.cpp: a doubly linked list of raw *)
(* pointers under a Mutex, through sets that live as long as a shared_ptr  *)
(* to them does and unlink themselves when they are destroyed; the global  *)
(* set that is created on demand; and DeleteMetricsGlobals at the end of   *)
(* the program.                                                            *)
(*                                                                         *)
(* The count of shared_ptrs is derived: who has one is state.  Left out:   *)
(* what is in a set, the dummies that stand for one, and calls after the   *)
(* end of the program other than the destruction of sets that are held.    *)
(***************************************************************************)
EXTENDS Naturals, Sequences, FiniteSets, SequencesExt

CONSTANTS
  Threads,   (* the threads that call into metrics.cpp                     *)
  Sets,      (* the MetricSet objects the program creates, each once       *)
  None       (* nullptr, and the holder of a free mutex                    *)

ASSUME NoneAssumption == None \notin Sets \union Threads
ASSUME FiniteAssumption == IsFiniteSet(Sets) /\ IsFiniteSet(Threads)

VARIABLES
  next, prev,  (* m_next and m_prev of each set                            *)
  head,        (* metric_sets_list_head                                    *)
  holder,      (* the holder of metric_sets_list_mutex                     *)
  global,      (* global_metric_set                                        *)
  g_metrics,   (* is MetricsGlobals there?                                 *)
  phase,       (* how far each set is in its life                          *)
  held,        (* the sets each thread's caller has a shared_ptr to        *)
  pc,          (* where each thread is in its call                         *)
  at,          (* the set that call is about, or the loop variable         *)
  all_sets     (* the vector that GetAll fills                             *)

links == <<next, prev, head>>
vars == <<links, holder, global, g_metrics, phase, held, pc, at, all_sets>>

Init ==
  /\ next = [s \in Sets |-> None]
  /\ prev = [s \in Sets |-> None]
  /\ head = None
  /\ holder = None
  /\ global = None
  /\ g_metrics = "none"
  /\ phase = [s \in Sets |-> "none"]
  /\ held = [t \in Threads |-> {}]
  /\ pc = [t \in Threads |-> "idle"]
  /\ at = [t \in Threads |-> None]
  /\ all_sets = [t \in Threads |-> {}]

-----------------------------------------------------------------------------
Goto(t, from, to) == pc[t] = from /\ pc' = [pc EXCEPT ![t] = to]
About(t, s) == at' = [at EXCEPT ![t] = s]
Hold(t, ss) == held' = [held EXCEPT ![t] = @ \union ss]
Becomes(s, p) == phase' = [phase EXCEPT ![s] = p]

(***************************************************************************)
(* A call that starts a thread's work: not after DeleteMetricsGlobals.     *)
(***************************************************************************)
Call(t, to) == g_metrics \in {"none", "alive"} /\ Goto(t, "idle", to)

(***************************************************************************)
(* LockMetricSetsList while there are globals, after it has made them.     *)
(***************************************************************************)
LockMetricSetsList(t) ==
  /\ holder = None
  /\ holder' = t
  /\ g_metrics' = IF g_metrics = "none" THEN "alive" ELSE g_metrics

Unlock(t) == holder = t /\ holder' = None

(***************************************************************************)
(* The shared_ptrs to s, as the control block of s counts them.            *)
(***************************************************************************)
use_count(s) ==
  Cardinality({t \in Threads : s \in held[t]}) + Cardinality({t \in Threads : s \in all_sets[t]})
    + (IF global = s THEN 1 ELSE 0)

-----------------------------------------------------------------------------
(***************************************************************************)
(* MetricSet::Create, and LinkIntoLockedList for it and for GetGlobal.     *)
(***************************************************************************)
Create(t, s) ==
  /\ Call(t, "created")
  /\ phase[s] = "none"
  /\ Becomes(s, "made")
  /\ Hold(t, {s})
  /\ About(t, s)
  /\ UNCHANGED <<links, holder, global, g_metrics, all_sets>>

CreateLock(t) ==
  /\ Goto(t, "created", "linking")
  /\ LockMetricSetsList(t)
  /\ UNCHANGED <<links, global, phase, held, at, all_sets>>

\* Mutant: the old head is not told of the new one.
LinkHalf(t) ==
  LET s == at[t] IN
  /\ Goto(t, "linking", IF global = s THEN "found" ELSE "linked")
  /\ next' = [next EXCEPT ![s] = head]
  /\ UNCHANGED prev
  /\ head' = s
  /\ Becomes(s, "linked")
  /\ UNCHANGED <<holder, global, g_metrics, held, at, all_sets>>

Link(t) ==
  LET s == at[t] IN
  /\ Goto(t, "linking", IF global = s THEN "found" ELSE "linked")
  /\ next' = [next EXCEPT ![s] = head]
  /\ prev' = [x \in Sets |-> IF x = head THEN s ELSE prev[x]]
  /\ head' = s
  /\ Becomes(s, "linked")
  /\ UNCHANGED <<holder, global, g_metrics, held, at, all_sets>>

Created(t) ==
  /\ Goto(t, "linked", "idle")
  /\ About(t, None)
  /\ Unlock(t)
  /\ UNCHANGED <<links, global, g_metrics, phase, held, all_sets>>

(***************************************************************************)
(* The caller copies a shared_ptr for another thread.                      *)
(***************************************************************************)
Share(t, u, s) ==
  /\ Call(t, "idle")
  /\ pc[u] = "idle"
  /\ s \in held[t] \ held[u]
  /\ Hold(u, {s})
  /\ UNCHANGED <<links, holder, global, g_metrics, phase, at, all_sets>>

-----------------------------------------------------------------------------
(***************************************************************************)
(* A shared_ptr goes.  The last one destroys the set: ~MetricSet follows,  *)
(* in the same thread, wherever that thread is; `back' is where else.      *)
(***************************************************************************)
Release(t, s, back) ==
  IF use_count(s) = 1
    THEN Goto(t, pc[t], "expired") /\ About(t, s) /\ Becomes(s, "expired")
    ELSE Goto(t, pc[t], back) /\ UNCHANGED <<at, phase>>

Drop(t, s) ==
  /\ pc[t] = "idle"
  /\ g_metrics # "deleting"
  /\ s \in held[t]
  /\ held' = [held EXCEPT ![t] = @ \ {s}]
  /\ Release(t, s, "idle")
  /\ UNCHANGED <<links, holder, global, g_metrics, all_sets>>

(***************************************************************************)
(* ~MetricSet.  Without globals it does nothing.                           *)
(***************************************************************************)
Destroy(t) ==
  /\ g_metrics # "deleted"
  /\ Goto(t, "expired", "unlinking")
  /\ LockMetricSetsList(t)
  /\ UNCHANGED <<links, global, phase, held, at, all_sets>>

Unlink(t) ==
  LET s == at[t] IN
  /\ Goto(t, "unlinking", "unlinked")
  /\ head' = IF prev[s] = None THEN next[s] ELSE head
  /\ next' = [x \in Sets |-> IF x = s THEN None ELSE IF x = prev[s] THEN next[s] ELSE next[x]]
  /\ prev' = [x \in Sets |-> IF x = s THEN None ELSE IF x = next[s] THEN prev[s] ELSE prev[x]]
  /\ Becomes(s, "unlinked")
  /\ UNCHANGED <<holder, global, g_metrics, held, at, all_sets>>

Destroyed(t) ==
  /\ Goto(t, "unlinked", "idle")
  /\ Unlock(t)
  /\ Becomes(at[t], "gone")
  /\ About(t, None)
  /\ UNCHANGED <<links, global, g_metrics, held, all_sets>>

DestroyedAfterExit(t) ==
  /\ g_metrics = "deleted"
  /\ Goto(t, "expired", "idle")
  /\ Becomes(at[t], "gone")
  /\ About(t, None)
  /\ UNCHANGED <<links, holder, global, g_metrics, held, all_sets>>

-----------------------------------------------------------------------------
(***************************************************************************)
(* MetricSet::GetAll.  shared_from_this throws when no shared_ptr is left; *)
(* then the vector goes first, and the lock on the list after it.          *)
(***************************************************************************)
\* Mutant: the list is not locked.
GetAllUnlocked(t) ==
  /\ Call(t, "visiting")
  /\ About(t, head)
  /\ UNCHANGED <<links, holder, g_metrics, global, phase, held, all_sets>>

GetAll(t) ==
  /\ Call(t, "visiting")
  /\ LockMetricSetsList(t)
  /\ About(t, head)
  /\ UNCHANGED <<links, global, phase, held, all_sets>>

\* Mutant: a shared_ptr is made of whatever is in the list.
VisitExpired(t) ==
  /\ at[t] # None
  /\ Goto(t, "visiting", "visiting")
  /\ all_sets' = [all_sets EXCEPT ![t] = @ \union {at[t]}]
  /\ About(t, next[at[t]])
  /\ UNCHANGED <<links, holder, global, g_metrics, phase, held>>

Visit(t) ==
  /\ at[t] # None
  /\ use_count(at[t]) > 0
  /\ Goto(t, "visiting", "visiting")
  /\ all_sets' = [all_sets EXCEPT ![t] = @ \union {at[t]}]
  /\ About(t, next[at[t]])
  /\ UNCHANGED <<links, holder, global, g_metrics, phase, held>>

Throw(t) ==
  /\ at[t] # None
  /\ use_count(at[t]) = 0
  /\ Goto(t, "visiting", "unwinding")
  /\ About(t, None)
  /\ UNCHANGED <<links, holder, global, g_metrics, phase, held, all_sets>>

UnwindVector(t, s) ==
  /\ pc[t] = "unwinding"
  /\ s \in all_sets[t]
  /\ all_sets' = [all_sets EXCEPT ![t] = @ \ {s}]
  /\ Release(t, s, "unwinding")
  /\ UNCHANGED <<links, holder, global, g_metrics, held>>

UnwindLock(t) ==
  /\ all_sets[t] = {}
  /\ Goto(t, "unwinding", "idle")
  /\ Unlock(t)
  /\ UNCHANGED <<links, global, g_metrics, phase, held, at, all_sets>>

Return(t) ==
  /\ at[t] = None
  /\ Goto(t, "visiting", "idle")
  /\ Hold(t, all_sets[t])
  /\ all_sets' = [all_sets EXCEPT ![t] = {}]
  /\ Unlock(t)
  /\ UNCHANGED <<links, global, g_metrics, phase, at>>

-----------------------------------------------------------------------------
(***************************************************************************)
(* MetricSet::GetGlobal, which is no static member: the caller has a set   *)
(* to call it on.                                                          *)
(***************************************************************************)
\* Mutant: the list is not locked.
GetGlobalUnlocked(t) ==
  /\ held[t] # {}
  /\ Call(t, "testing")
  /\ UNCHANGED <<links, holder, g_metrics, global, phase, held, at, all_sets>>

GetGlobal(t) ==
  /\ held[t] # {}
  /\ Call(t, "testing")
  /\ LockMetricSetsList(t)
  /\ UNCHANGED <<links, global, phase, held, at, all_sets>>

TestGlobal(t) ==
  /\ Goto(t, "testing", IF global = None THEN "creating" ELSE "found")
  /\ UNCHANGED <<links, holder, global, g_metrics, phase, held, at, all_sets>>

CreateGlobal(t, s) ==
  /\ Goto(t, "creating", "linking")
  /\ phase[s] = "none"
  /\ Becomes(s, "made")
  /\ global' = s
  /\ About(t, s)
  /\ UNCHANGED <<links, holder, g_metrics, held, all_sets>>

ReturnGlobal(t) ==
  /\ Goto(t, "found", "idle")
  /\ Hold(t, {global})
  /\ About(t, None)
  /\ Unlock(t)
  /\ UNCHANGED <<links, global, g_metrics, phase, all_sets>>

-----------------------------------------------------------------------------
(***************************************************************************)
(* DeleteMetricsGlobals, in the one thread that is left.  The members go   *)
(* in reverse order, the global set before the list and its mutex, and     *)
(* g_metrics is reset when all of them are gone.                           *)
(***************************************************************************)
Exit(t) ==
  /\ g_metrics = "alive"
  /\ \A u \in Threads : pc[u] = "idle"
  /\ g_metrics' = "deleting"
  /\ global' = None
  /\ IF global = None THEN UNCHANGED <<pc, at, phase>> ELSE Release(t, global, "idle")
  /\ UNCHANGED <<links, holder, held, all_sets>>

Exited ==
  /\ g_metrics = "deleting"
  /\ \A u \in Threads : pc[u] = "idle"
  /\ g_metrics' = "deleted"
  /\ UNCHANGED <<links, holder, global, phase, held, pc, at, all_sets>>

-----------------------------------------------------------------------------
Step(t) ==
  \/ CreateLock(t) \/ Link(t) \/ Created(t)
  \/ Destroy(t) \/ Unlink(t) \/ Destroyed(t) \/ DestroyedAfterExit(t)
  \/ GetAll(t) \/ Visit(t) \/ Throw(t) \/ UnwindLock(t) \/ Return(t)
  \/ GetGlobal(t) \/ TestGlobal(t) \/ ReturnGlobal(t)
  \/ Exit(t)
  \/ \E s \in Sets : \/ Create(t, s) \/ Drop(t, s) \/ UnwindVector(t, s) \/ CreateGlobal(t, s)
                     \/ \E u \in Threads : Share(t, u, s)

Next == Exited \/ \E t \in Threads : Step(t)

Spec == Init /\ [][Next]_vars

-----------------------------------------------------------------------------
(* Every variable has its type.                                            *)
TypeOK ==
  /\ next \in [Sets -> Sets \union {None}]
  /\ prev \in [Sets -> Sets \union {None}]
  /\ head \in Sets \union {None}
  /\ holder \in Threads \union {None}
  /\ global \in Sets \union {None}
  /\ g_metrics \in {"none", "alive", "deleting", "deleted"}
  /\ phase \in [Sets -> {"none", "made", "linked", "expired", "unlinked", "gone"}]
  /\ held \in [Threads -> SUBSET Sets]
  /\ pc \in [Threads -> {"idle", "created", "linking", "linked", "expired", "unlinking", "unlinked",
                         "visiting", "unwinding", "testing", "creating", "found"}]
  /\ at \in [Threads -> Sets \union {None}]
  /\ all_sets \in [Threads -> SUBSET Sets]

(***************************************************************************)
(* The sets that a loop from `from' on meets.                              *)
(***************************************************************************)
Reached(from) ==
  LET visit[n \in 0..Cardinality(Sets)] ==
        IF n = 0 THEN from ELSE IF visit[n - 1] = None THEN None ELSE next[visit[n - 1]]
  IN {visit[n] : n \in 0..Cardinality(Sets)} \ {None}

InList == {s \in Sets : phase[s] \in {"linked", "expired"}}

(* CheckLockedList, and what the program needs of the list besides: a loop *)
(* over it meets the sets that were linked and not yet unlinked, all of    *)
(* them, and m_prev is the inverse of m_next.                              *)
ListSound ==
  TypeOK /\ (g_metrics # "deleted" =>
    /\ Reached(head) = InList
    /\ \A s \in InList : /\ IF prev[s] = None THEN head = s ELSE next[prev[s]] = s
                         /\ next[s] # None => prev[next[s]] = s)

(* The raw pointer that GetAll walks the list with, outside the control of *)
(* any shared_ptr, never points to a set that is destroyed: a set that     *)
(* expires under it waits for the lock before it goes.                     *)
LoopVariableValid ==
  \A t \in Threads : pc[t] = "visiting" /\ at[t] # None => at[t] \in InList

(* A set that lost its last shared_ptr never gets another one, whatever    *)
(* finds it in the list before it has unlinked itself.                     *)
NoResurrection ==
  \A s \in Sets : phase[s] \in {"none", "expired", "unlinked", "gone"} => use_count(s) = 0

(* The pointers of GetAll and of the list never bring back a set whose     *)
(* last owner has gone, nor outlive it.                                    *)
SetsStayValid == LoopVariableValid /\ NoResurrection

(* When GetAll returns, its vector has every set of the list at that       *)
(* moment: none that was created or shared while it looked is missing.     *)
AnswerComplete ==
  \A t \in Threads : pc[t] = "visiting" /\ at[t] = None => all_sets[t] = InList

(* There is one global set until the program ends, however many threads    *)
(* ask for it first.                                                       *)
OneGlobal == [][global # None /\ g_metrics' = "alive" => global' = global]_vars

-----------------------------------------------------------------------------
(* GetAll looks whether shared_from_this gave it a set, to pass over one   *)
(* that is expired but still in the list, and returns.  So a thread that   *)
(* destroys a set never does so with the lock that ~MetricSet needs.       *)
NeverWaitsForItself == \A t \in Threads : pc[t] = "expired" => holder # t
=============================================================================
