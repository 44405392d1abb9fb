--------------------------- MODULE MutexRegistry ---------------------------
(***************************************************************************)
(* The registry of mutexes in src/mutex.cpp: a circular doubly linked list *)
(* through the metadata of every Mutex that exists, a cached vector of it, *)
(* and a change counter, under one std::mutex; the callers that poll the   *)
(* counter and fetch the list; and the end of the program, when the        *)
(* cached vector is destroyed while mutexes that are globals of other      *)
(* files may still have to be.                                             *)
(*                                                                         *)
(* A critical section is several steps.  A Mutex stands for the thread     *)
(* that constructs or destroys it.  Left out: the numbers that Mutex.tla   *)
(* models.                                                                 *)
(***************************************************************************)
EXTENDS Naturals, Sequences, FiniteSets, SequencesExt

CONSTANTS
  Mutexes,   (* the Mutex objects the program creates, each once           *)
  Callers,   (* the threads that call GetAllMetadata                       *)
  None,      (* nullptr, and the holder of a free mutex                    *)
  MaxCalls   (* bounds the model: the polls that all callers make          *)

ASSUME NoneAssumption == None \notin Mutexes \union Callers
ASSUME MutexesAssumption == IsFiniteSet(Mutexes) /\ Mutexes \intersect Callers = {}
ASSUME MaxCallsAssumption == MaxCalls \in Nat

VARIABLES
  next, prev,          (* the links of each MutexFullMetadata              *)
  head,                (* g_mutex_metadata_head                            *)
  cache,               (* g_mutex_metadata_list                            *)
  last_change_counter, (* g_mutex_metadata_list_last_change_counter        *)
  change_counter,      (* g_mutex_metadata_list_change_counter             *)
  holder,              (* the holder of *g_mutex_metadata_list_mutex       *)
  initialised,         (* has the call_once created that mutex?            *)
  exited,              (* are the globals of mutex.cpp destroyed?          *)
  phase,               (* how far each Mutex is in its life                *)
  caller,              (* the locals of each caller, and what it was told  *)
  calls                (* history: the number of polls                     *)

links == <<next, prev, head>>
cached == <<cache, last_change_counter, change_counter>>
vars == <<links, cached, holder, initialised, exited, phase, caller, calls>>

Phases == {"none", "ready", "linking", "linked", "alive", "unlinking", "unlinked", "gone"}

Init ==
  /\ next = [m \in Mutexes |-> None]
  /\ prev = [m \in Mutexes |-> None]
  /\ head = None
  /\ cache = <<>>
  /\ last_change_counter = 0
  /\ change_counter = 1
  /\ holder = None
  /\ initialised = FALSE
  /\ exited = FALSE
  /\ phase = [m \in Mutexes |-> "none"]
  /\ caller = [c \in Callers |-> [pc |-> "idle", polled |-> 0, known |-> 0, list |-> <<>>]]
  /\ calls = 0

-----------------------------------------------------------------------------
Phase(m, from, to) == phase[m] = from /\ phase' = [phase EXCEPT ![m] = to]

Lock(who) == holder = None /\ holder' = who
Unlock(who) == holder = who /\ holder' = None

(***************************************************************************)
(* InvalidateLockedMetadataList.                                           *)
(***************************************************************************)
\* Mutant: the cached vector keeps its elements.
InvalidateKeepsCache ==
  /\ change_counter' = change_counter + 1
  /\ UNCHANGED <<cache, last_change_counter>>

\* Mutant: the counter is forgotten.
InvalidateSilently ==
  /\ cache' = <<>>
  /\ UNCHANGED <<change_counter, last_change_counter>>

Invalidate ==
  /\ change_counter' = change_counter + 1
  /\ cache' = <<>>
  /\ UNCHANGED last_change_counter

-----------------------------------------------------------------------------
(***************************************************************************)
(* Mutex::Mutex: a node linked to itself, then the list under its mutex.   *)
(***************************************************************************)
Construct(m) ==
  /\ ~exited
  /\ Phase(m, "none", "ready")
  /\ initialised' = TRUE
  /\ next' = [next EXCEPT ![m] = m]
  /\ prev' = [prev EXCEPT ![m] = m]
  /\ UNCHANGED <<head, cached, holder, exited, caller, calls>>

ConstructLock(m) ==
  /\ Phase(m, "ready", "linking")
  /\ Lock(m)
  /\ UNCHANGED <<links, cached, initialised, exited, caller, calls>>

\* Mutant: the old last node is not told of the new one.
LinkHalf(m) ==
  /\ Phase(m, "linking", "linked")
  /\ IF head = None
       THEN head' = m /\ UNCHANGED <<next, prev>>
       ELSE /\ prev' = [prev EXCEPT ![m] = prev[head], ![head] = m]
            /\ next' = [next EXCEPT ![m] = head]
            /\ UNCHANGED head
  /\ UNCHANGED <<cached, holder, initialised, exited, caller, calls>>

Link(m) ==
  /\ Phase(m, "linking", "linked")
  /\ IF head = None
       THEN head' = m /\ UNCHANGED <<next, prev>>
       ELSE /\ prev' = [prev EXCEPT ![m] = prev[head], ![head] = m]
            /\ next' = [next EXCEPT ![m] = head, ![prev[head]] = m]
            /\ UNCHANGED head
  /\ UNCHANGED <<cached, holder, initialised, exited, caller, calls>>

Constructed(m) ==
  /\ Phase(m, "linked", "alive")
  /\ Invalidate
  /\ Unlock(m)
  /\ UNCHANGED <<links, initialised, exited, caller, calls>>

(***************************************************************************)
(* Mutex::~Mutex.                                                          *)
(***************************************************************************)
Destroy(m) ==
  /\ Phase(m, "alive", "unlinking")
  /\ Lock(m)
  /\ UNCHANGED <<links, cached, initialised, exited, caller, calls>>

\* Mutant: the list goes on from the node before.
HeadBefore(m) ==
  IF head # m THEN head ELSE IF prev[m] = m THEN None ELSE prev[m]

HeadWithout(m) ==
  IF head # m THEN head ELSE IF next[m] = m THEN None ELSE next[m]

Unlink(m) ==
  /\ Phase(m, "unlinking", "unlinked")
  /\ head' = HeadWithout(m)
  /\ prev' = [prev EXCEPT ![next[m]] = prev[m]]
  /\ next' = [next EXCEPT ![prev[m]] = next[m]]
  /\ UNCHANGED <<cached, holder, initialised, exited, caller, calls>>

Destroyed(m) ==
  /\ Phase(m, "unlinked", "gone")
  /\ Invalidate
  /\ Unlock(m)
  /\ UNCHANGED <<links, initialised, exited, caller, calls>>

-----------------------------------------------------------------------------
(***************************************************************************)
(* The nodes from the head on, as the loops over the list visit them.  A   *)
(* loop that the links do not close is cut off where it would go on for    *)
(* ever.                                                                   *)
(***************************************************************************)
Walk ==
  LET visit[i \in 0..Cardinality(Mutexes)] == IF i = 0 THEN head ELSE next[visit[i - 1]]
      closes(n) == visit[n] = head
      length == IF \E n \in 1..Cardinality(Mutexes) : closes(n)
                  THEN CHOOSE n \in 1..Cardinality(Mutexes) :
                         closes(n) /\ \A k \in 1..(n - 1) : ~closes(k)
                  ELSE Cardinality(Mutexes)
  IN IF head = None THEN <<>> ELSE [i \in 1..length |-> visit[i - 1]]

(***************************************************************************)
(* GetMetadataChangeCounter, then GetAllMetadata unless the counter is     *)
(* the one the caller's list came with.                                    *)
(***************************************************************************)
At(c, from, to, updated) ==
  /\ caller[c].pc = from
  /\ caller' = [caller EXCEPT ![c] = [updated EXCEPT !.pc = to]]

GetMetadataChangeCounter(c) ==
  /\ ~exited
  /\ calls < MaxCalls
  /\ holder = None
  /\ At(c, "idle", "polled", [caller[c] EXCEPT !.polled = change_counter])
  /\ initialised' = TRUE
  /\ calls' = calls + 1
  /\ UNCHANGED <<links, cached, holder, exited, phase>>

StillKnown(c) ==
  /\ caller[c].polled = caller[c].known
  /\ At(c, "polled", "idle", caller[c])
  /\ UNCHANGED <<links, cached, holder, initialised, exited, phase, calls>>

GetAllMetadata(c) ==
  /\ At(c, "polled", "listing", caller[c])
  /\ Lock(c)
  /\ UNCHANGED <<links, cached, initialised, exited, phase, calls>>

Regenerate(c) ==
  /\ At(c, "listing", "copying", caller[c])
  /\ IF last_change_counter # change_counter
       THEN cache' = Walk /\ last_change_counter' = change_counter
       ELSE UNCHANGED <<cache, last_change_counter>>
  /\ UNCHANGED <<links, change_counter, holder, initialised, exited, phase, calls>>

Return(c) ==
  /\ At(c, "copying", "idle", [caller[c] EXCEPT !.list = cache, !.known = caller[c].polled])
  /\ Unlock(c)
  /\ UNCHANGED <<links, cached, initialised, exited, phase, calls>>

(***************************************************************************)
(* The caller drops its vector.                                            *)
(***************************************************************************)
Drop(c) ==
  /\ caller[c].list # <<>>
  /\ At(c, "idle", "idle", [caller[c] EXCEPT !.list = <<>>, !.known = 0])
  /\ UNCHANGED <<links, cached, holder, initialised, exited, phase, calls>>

(***************************************************************************)
(* The globals of mutex.cpp are destroyed: one thread is left, in no call. *)
(***************************************************************************)
Exit ==
  /\ ~exited
  /\ \A c \in Callers : caller[c].pc = "idle"
  /\ \A m \in Mutexes : phase[m] \in {"none", "alive", "gone"}
  /\ exited' = TRUE
  /\ cache' = <<>>
  /\ UNCHANGED <<links, last_change_counter, change_counter, holder, initialised, phase,
                 caller, calls>>

-----------------------------------------------------------------------------
Life(m) ==
  \/ Construct(m) \/ ConstructLock(m) \/ Link(m) \/ Constructed(m)
  \/ Destroy(m) \/ Unlink(m) \/ Destroyed(m)

Poll(c) ==
  \/ GetMetadataChangeCounter(c) \/ StillKnown(c) \/ GetAllMetadata(c)
  \/ Regenerate(c) \/ Return(c) \/ Drop(c)

(***************************************************************************)
(* The program is over: every Mutex it made is destroyed.                  *)
(***************************************************************************)
Finished ==
  /\ exited
  /\ \A m \in Mutexes : phase[m] \in {"none", "gone"}
  /\ UNCHANGED vars

Next ==
  \/ \E m \in Mutexes : Life(m)
  \/ \E c \in Callers : Poll(c)
  \/ Exit
  \/ Finished

Spec == Init /\ [][Next]_vars

-----------------------------------------------------------------------------
(* Every variable has its type, and "the returned change counter will      *)
(* never be 0".                                                            *)
TypeOK ==
  /\ next \in [Mutexes -> Mutexes \union {None}]
  /\ prev \in [Mutexes -> Mutexes \union {None}]
  /\ head \in Mutexes \union {None}
  /\ cache \in Seq(Mutexes)
  /\ last_change_counter \in Nat
  /\ change_counter \in Nat \ {0}
  /\ holder \in Mutexes \union Callers \union {None}
  /\ initialised \in BOOLEAN
  /\ exited \in BOOLEAN
  /\ phase \in [Mutexes -> Phases]
  /\ caller \in [Callers -> [pc : {"idle", "polled", "listing", "copying"},
                             polled : Nat, known : Nat, list : Seq(Mutexes)]]
  /\ calls \in 0..MaxCalls

(***************************************************************************)
(* The mutexes that the list should have.                                  *)
(***************************************************************************)
Live == {m \in Mutexes : phase[m] \in {"linked", "alive", "unlinking"}}

(* After every change of it the list is what the assertions of             *)
(* CheckLockedMetadataList say, its links invert each other, and the loop  *)
(* over it meets exactly the mutexes that exist, each once.                *)
ListSound ==
  /\ TypeOK
  /\ ToSet(Walk) = Live
  /\ Len(Walk) = Cardinality(Live)
  /\ \A m \in Live : next[prev[m]] = m /\ prev[next[m]] = m

(* "don't let any control blocks hang around unnecessarily": the cached    *)
(* vector never keeps the metadata of a destroyed Mutex alive.             *)
CacheKeepsNoneAlive == ToSet(cache) \subseteq Live \union {m \in Mutexes : phase[m] = "unlinked"}

(* A caller whose counter is still current has the current list: the race  *)
(* between GetMetadataChangeCounter and GetAllMetadata only ever makes it  *)
(* fetch the list once more.                                               *)
KnownIsCurrent ==
  \A c \in Callers :
    caller[c].known = change_counter /\ (\A m \in Mutexes : phase[m] \notin {"linked", "unlinked"})
      => caller[c].list = Walk

(***************************************************************************)
(* The metadata of m is in memory while a shared_ptr to it is, and with it *)
(* the reference that it has to the mutex of the list.                     *)
(***************************************************************************)
InMemory(m) ==
  \/ phase[m] \notin {"none", "gone"}
  \/ m \in ToSet(cache)
  \/ \E c \in Callers : m \in ToSet(caller[c].list)

\* Mutant: the metadata takes no reference to the mutex of the list.
RefersToNothing(m) == FALSE
RefersToListMutex(m) == next[m] # None

ListMutexAlive ==
  \/ initialised /\ ~exited
  \/ \E m \in Mutexes : InMemory(m) /\ RefersToListMutex(m)

(* "this is just here to grab an appropriate extra ref to the metadata     *)
(* list mutex": whoever locks or unlocks that mutex finds it alive, also a *)
(* global Mutex that is destroyed after the globals of mutex.cpp.          *)
LockedIsAlive == holder # None => ListMutexAlive

(***************************************************************************)
(* Refinement: a change is visible once the links say so.                  *)
(***************************************************************************)
Changing == \E m \in Mutexes : phase[m] \in {"linked", "unlinked"}

A == INSTANCE LiveList WITH
       live <- Walk,
       version <- IF Changing THEN change_counter + 1 ELSE change_counter,
       answer <- [c \in Callers |-> caller[c].list]

(* The registry is a list of the mutexes that exist, oldest first, and its *)
(* answers are that list at one moment, however they interleave.           *)
RefinesLiveList == A!Spec

(* "If a global mutex gets created before the metadata mutex shared_ptr,   *)
(* that mutex would otherwise be destroyed after it": such a Mutex can be  *)
(* destroyed at the end of the program as at any other time, and uses no   *)
(* global that is destroyed already.                                       *)
GlobalsInUseAlive == \A m \in Mutexes : phase[m] = "unlinked" => ~exited
=============================================================================
