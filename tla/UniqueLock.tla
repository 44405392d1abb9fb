---------------------------- MODULE UniqueLock -----------------------------
(***************************************************************************)
(* LockGuard and UniqueLock of src/include/shared/mutex.h: objects that    *)
(* lock a mutex, some of which can be moved from one to another.  An       *)
(* action that has to wait for the mutex is not enabled until it is free.  *)
(***************************************************************************)
EXTENDS Integers, FiniteSets

CONSTANTS
  Mutexes,
  UniqueLocks,   (* objects of class UniqueLock                            *)
  LockGuards,    (* objects of class LockGuard                             *)
  NoMutex        (* a null m_mutex                                         *)

Objects == UniqueLocks \union LockGuards

VARIABLES
  alive,         (* the objects between construction and destruction       *)
  m_mutex,       (* the mutex that each object refers to                   *)
  m_locked,      (* m_locked of each object; a LockGuard always has it     *)
  held           (* the mutexes that somebody has locked                   *)

vars == <<alive, m_mutex, m_locked, held>>

Init ==
  /\ alive = {}
  /\ m_mutex = [l \in Objects |-> NoMutex]
  /\ m_locked = [l \in Objects |-> FALSE]
  /\ held = {}

-----------------------------------------------------------------------------
(* LockGuard(mutex) and UniqueLock(mutex).                                 *)
ConstructLocked(l, m) ==
  /\ l \in Objects \ alive
  /\ m \notin held
  /\ alive' = alive \union {l}
  /\ m_mutex' = [m_mutex EXCEPT ![l] = m]
  /\ m_locked' = [m_locked EXCEPT ![l] = TRUE]
  /\ held' = held \union {m}

ConstructEmpty(l) ==
  /\ l \in UniqueLocks \ alive
  /\ alive' = alive \union {l}
  /\ m_mutex' = [m_mutex EXCEPT ![l] = NoMutex]
  /\ m_locked' = [m_locked EXCEPT ![l] = FALSE]
  /\ UNCHANGED held

(* What unlock of an object leaves locked.                                 *)
HeldWithout(l) == IF m_mutex[l] # NoMutex /\ m_locked[l] THEN held \ {m_mutex[l]} ELSE held

MoveConstruct(l, src) ==
  /\ l \in UniqueLocks \ alive
  /\ src \in UniqueLocks \intersect alive
  /\ alive' = alive \union {l}
  /\ m_mutex' = [m_mutex EXCEPT ![l] = m_mutex[src], ![src] = NoMutex]
  /\ m_locked' = [m_locked EXCEPT ![l] = m_locked[src], ![src] = FALSE]
  /\ UNCHANGED held

\* Mutant: the target does not unlock what it has.
MoveAssignOver(l, other) ==
  /\ {l, other} \subseteq UniqueLocks \intersect alive
  /\ l # other
  /\ m_mutex' = [m_mutex EXCEPT ![l] = m_mutex[other], ![other] = NoMutex]
  /\ m_locked' = [m_locked EXCEPT ![l] = m_locked[other], ![other] = FALSE]
  /\ UNCHANGED <<alive, held>>

(* The assignment of an object to itself does nothing.                     *)
MoveAssign(l, other) ==
  /\ {l, other} \subseteq UniqueLocks \intersect alive
  /\ l # other
  /\ held' = HeldWithout(l)
  /\ m_mutex' = [m_mutex EXCEPT ![l] = m_mutex[other], ![other] = NoMutex]
  /\ m_locked' = [m_locked EXCEPT ![l] = m_locked[other], ![other] = FALSE]
  /\ UNCHANGED alive

(* lock does not look at m_locked: an object that has its mutex waits for  *)
(* itself.                                                                 *)
Lock(l) ==
  /\ l \in UniqueLocks \intersect alive
  /\ m_mutex[l] \in Mutexes \ held
  /\ held' = held \union {m_mutex[l]}
  /\ m_locked' = [m_locked EXCEPT ![l] = TRUE]
  /\ UNCHANGED <<alive, m_mutex>>

Unlock(l) ==
  /\ l \in UniqueLocks \intersect alive
  /\ held' = HeldWithout(l)
  /\ m_locked' = [m_locked EXCEPT ![l] = m_locked[l] /\ m_mutex[l] = NoMutex]
  /\ UNCHANGED <<alive, m_mutex>>

Destroy(l) ==
  /\ l \in alive
  /\ held' = HeldWithout(l)
  /\ alive' = alive \ {l}
  /\ m_mutex' = [m_mutex EXCEPT ![l] = NoMutex]
  /\ m_locked' = [m_locked EXCEPT ![l] = FALSE]

Next ==
  \/ \E l \in Objects, m \in Mutexes : ConstructLocked(l, m)
  \/ \E l \in Objects : ConstructEmpty(l) \/ Lock(l) \/ Unlock(l) \/ Destroy(l)
  \/ \E l, other \in UniqueLocks : MoveConstruct(l, other) \/ MoveAssign(l, other)

Spec == Init /\ [][Next]_vars

-----------------------------------------------------------------------------
TypeOK ==
  /\ alive \subseteq Objects
  /\ m_mutex \in [Objects -> Mutexes \union {NoMutex}]
  /\ m_locked \in [Objects -> BOOLEAN]
  /\ held \subseteq Mutexes

Owns(l, m) == l \in alive /\ m_mutex[l] = m /\ m_locked[l]

(* Every mutex that is locked is owned by one live object, which will      *)
(* unlock it, and by no other, however the objects are moved; an object    *)
(* owns none but a mutex that is locked.                                   *)
HeldByOne ==
  /\ TypeOK
  /\ \A m \in held : \E l \in Objects : Owns(l, m)
  /\ \A l \in Objects, m \in Mutexes :
       Owns(l, m) => m \in held /\ \A k \in Objects : Owns(k, m) => k = l
=============================================================================
