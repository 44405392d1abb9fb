------------------------------- MODULE Mutex -------------------------------
(***************************************************************************)
(* One instrumented Mutex (include/shared/mutex.h, src/mutex.cpp): the     *)
(* std::mutex inside it, the statistics it keeps about its own use, the    *)
(* reset request and the name, used by any number of threads.              *)
(*                                                                         *)
(* std::mutex and std::shared_mutex are taken as correct.  An atomic of    *)
(* the code is read, written or exchanged in one step.  The counters of    *)
(* MutexStats are plain integers that the code also touches without the    *)
(* mutex: an update is a read step and a write step, and the updates       *)
(* between two atomic operations, like the fields of a structure           *)
(* assignment or copy, happen in any order.                                *)
(*                                                                         *)
(* The wait ticks of MutexStats are one cell, updated in one step: no      *)
(* property below speaks of them once a reset has raced with a lock.       *)
(* Left out: tick counts that nothing depends on (start_ticks, the name    *)
(* overhead ticks, the wait ticks of a MutexDetails).                      *)
(***************************************************************************)
EXTENDS Integers

CONSTANTS
  Threads,      (* the threads of the program                              *)
  NoOwner,      (* the owner of a free std::mutex                          *)
  Waits,        (* the durations, in ticks, that a lock may wait           *)
  UINT64_MAX,   (* the initial minimum wait, above every duration          *)
  Names,        (* the names SetName is called with, and the empty name    *)
  NoName,       (* the empty name                                          *)
  EventSets,    (* the arguments of SetInterestingEvents                   *)
  Operations,   (* the operations that the program uses                    *)
  MaxCalls      (* bounds the model: the calls that all threads make       *)

ASSUME NoOwnerAssumption == NoOwner \notin Threads
ASSUME WaitsAssumption ==
  /\ Waits \subseteq Nat
  /\ 0 \in Waits
  /\ UINT64_MAX \in Nat
  /\ \A w \in Waits : w < UINT64_MAX
ASSUME NamesAssumption == NoName \in Names
ASSUME EventSetsAssumption == EventSets \subseteq SUBSET {"Lock", "ContendedLock"}
ASSUME MaxCallsAssumption == MaxCalls \in Nat

VARIABLES
  owner,              (* the thread that holds the std::mutex, or NoOwner  *)
  stats,              (* MutexMetadataImpl::stats: the counters            *)
  ticks,              (* MutexMetadataImpl::stats: the wait ticks          *)
  num_try_locks,      (* the atomics of MutexMetadataImpl                  *)
  reset,
  ever_locked,
  interesting_events,
  assume_free,        (* g_assume_free_uncontended_locks                   *)
  name,               (* MutexMetadataImpl::name                           *)
  pc,                 (* where each thread is                              *)
  frame,              (* the local variables of the call a thread is in    *)
  details,            (* the last MutexDetails each thread asked for       *)
  calls,              (* history: the number of calls made                 *)
  due,                (* history: what the counters of stats are due since *)
                      (* the last reset that a holder carried out          *)
  requested           (* history: has RequestReset ever been called?       *)

settings == <<interesting_events, assume_free, name>>
history == <<calls, due, requested>>
vars == <<owner, stats, ticks, num_try_locks, reset, ever_locked, settings,
          pc, frame, details, history>>

(***************************************************************************)
(* MutexStats(): counters at 0 and no wait measured.                       *)
(***************************************************************************)
Counters == {"num_locks", "num_contended_locks", "num_successful_try_locks"}
Cells == Counters \union {"ticks"}

NoCounts == [f \in Counters |-> 0]
NoTicks == [total |-> 0, min |-> UINT64_MAX, max |-> 0]

EmptyDetails == [stats |-> NoCounts, num_try_locks |-> 0,
                 ever_locked |-> FALSE, name |-> NoName]

(***************************************************************************)
(* The locals of a call.  `todo' is the set of cells that the update,      *)
(* assignment or copy under way has yet to reach; `field' is the one being *)
(* updated and `reg' the value read from it; `ret' is where stats = {}     *)
(* continues: the rest of lock, the end of try_lock or of RequestReset.    *)
(***************************************************************************)
NoField == "none"
EmptyFrame == [assume |-> FALSE, events |-> {}, contended |-> FALSE, wait |-> 0,
               todo |-> {}, field |-> NoField, reg |-> 0, ret |-> "idle"]

AddPcs == {"lock_add", "try_add"}
Pcs == AddPcs \union
       {"idle", "lock_fast", "lock_wait", "lock_ever", "lock_ticks", "lock_report",
        "try_acquire", "try_count", "try_exchange", "clear",
        "copy", "load_ever", "name_shared", "name_copy",
        "name_exclusive", "name_store"}

Init ==
  /\ owner = NoOwner
  /\ stats = NoCounts
  /\ ticks = NoTicks
  /\ num_try_locks = 0
  /\ reset = FALSE
  /\ ever_locked = FALSE
  /\ interesting_events = {}
  /\ assume_free = FALSE
  /\ name = NoName
  /\ pc = [t \in Threads |-> "idle"]
  /\ frame = [t \in Threads |-> EmptyFrame]
  /\ details = [t \in Threads |-> EmptyDetails]
  /\ calls = 0
  /\ due = NoCounts
  /\ requested = FALSE

-----------------------------------------------------------------------------
Goto(t, to) == pc' = [pc EXCEPT ![t] = to]

Step(t, from, to) == pc[t] = from /\ Goto(t, to)

Local(t, fr) == frame' = [frame EXCEPT ![t] = fr]

(***************************************************************************)
(* A thread that is in no call makes one; the call returns, and its locals *)
(* are gone.                                                               *)
(***************************************************************************)
Call(t, op, to) ==
  /\ op \in Operations
  /\ Step(t, "idle", to)
  /\ calls < MaxCalls
  /\ calls' = calls + 1

Return(t) ==
  /\ Goto(t, "idle")
  /\ Local(t, EmptyFrame)

Acquire(t) ==
  /\ owner = NoOwner
  /\ owner' = t

Accrue(fs) == due' = [f \in Counters |-> IF f \in fs THEN due[f] + 1 ELSE due[f]]

(***************************************************************************)
(* The two halves of ++ on a counter of stats.                             *)
(***************************************************************************)
AddRead(t) ==
  /\ pc[t] \in AddPcs
  /\ frame[t].field = NoField
  /\ \E f \in frame[t].todo :
       Local(t, [frame[t] EXCEPT !.field = f, !.reg = stats[f]])
  /\ UNCHANGED <<owner, stats, ticks, num_try_locks, reset, ever_locked, settings,
                 pc, details, history>>

AddWrite(t) ==
  /\ frame[t].field # NoField
  /\ LET f == frame[t].field IN
       /\ stats' = [stats EXCEPT ![f] = frame[t].reg + 1]
       /\ Local(t, [frame[t] EXCEPT !.field = NoField, !.todo = @ \ {f}])
  /\ UNCHANGED <<owner, ticks, num_try_locks, reset, ever_locked, settings,
                 pc, details, history>>

(***************************************************************************)
(* if (reset.exchange(false)) Reset();  The cells that stats = {} assigns. *)
(***************************************************************************)
\* Mutant: a counter is not among them.
ResetCellsShort == Cells \ {"num_contended_locks"}
ResetCells == Cells

\* Mutant: the answer of the exchange is negated.
ResetUnwanted == ~reset
ResetWanted == reset

ResetExchange(t, ret) ==
  /\ reset' = FALSE
  /\ IF ResetWanted
       THEN /\ Goto(t, "clear")
            /\ Local(t, [frame[t] EXCEPT !.todo = ResetCells, !.ret = ret])
       ELSE IF ret = "idle" THEN Return(t) ELSE Goto(t, ret) /\ UNCHANGED frame
  /\ UNCHANGED <<owner, stats, ticks, num_try_locks, ever_locked, settings, details, history>>

-----------------------------------------------------------------------------
(***************************************************************************)
(* Mutex::lock.  The owner does not call it again: std::mutex is not       *)
(* recursive.  A try_lock that succeeds under assume_free is timed as 0.   *)
(***************************************************************************)
LockBegin(t) ==
  /\ owner # t
  /\ Call(t, "lock", "lock_fast")
  /\ Local(t, [frame[t] EXCEPT !.assume = assume_free, !.events = interesting_events])
  /\ UNCHANGED <<owner, stats, ticks, num_try_locks, reset, ever_locked, settings,
                 details, due, requested>>

\* Mutant: ContendedLock is not masked.
UnmaskedEvents(events) == events
UncontendedEvents(events) == events \ {"ContendedLock"}

LockFastTake(t) ==
  /\ Step(t, "lock_fast", "lock_add")
  /\ Acquire(t)
  /\ \E w \in Waits :
       /\ frame[t].assume => w = 0
       /\ Local(t, [frame[t] EXCEPT !.events = UncontendedEvents(@),
                                     !.todo = {"num_locks"}, !.wait = w])
  /\ Accrue({"num_locks"})
  /\ UNCHANGED <<stats, ticks, num_try_locks, reset, ever_locked, settings,
                 details, calls, requested>>

\* Mutant: lock goes on after its try_lock has failed.
LockFastMissGoesOn(t) ==
  /\ owner # NoOwner
  /\ Step(t, "lock_fast", "lock_add")
  /\ UNCHANGED <<owner, stats, ticks, num_try_locks, reset, ever_locked, settings,
                 frame, details, history>>

LockFastMiss(t) ==
  /\ owner # NoOwner
  /\ Step(t, "lock_fast", "lock_wait")
  /\ Local(t, [frame[t] EXCEPT !.contended = TRUE])
  /\ UNCHANGED <<owner, stats, ticks, num_try_locks, reset, ever_locked, settings,
                 details, history>>

\* Mutant: a contended lock counts as a lock only.
LockCounts == {"num_locks"}
ContendedCounts == {"num_contended_locks", "num_locks"}

LockSlowTake(t) ==
  /\ Step(t, "lock_wait", "lock_add")
  /\ Acquire(t)
  /\ \E w \in Waits :
       Local(t, [frame[t] EXCEPT !.todo = ContendedCounts, !.wait = w])
  /\ Accrue({"num_contended_locks", "num_locks"})
  /\ UNCHANGED <<stats, ticks, num_try_locks, reset, ever_locked, settings,
                 details, calls, requested>>

LockExchange(t) ==
  /\ pc[t] = "lock_add"
  /\ frame[t].todo = {}
  /\ ResetExchange(t, "lock_ever")

LockEver(t) ==
  /\ Step(t, "lock_ever", "lock_ticks")
  /\ ever_locked' = TRUE
  /\ UNCHANGED <<owner, stats, ticks, num_try_locks, reset, settings,
                 frame, details, history>>

\* Mutant: the maximum is only looked at when the minimum stands.
TicksElse(w) ==
  IF w < ticks.min THEN [ticks EXCEPT !.total = @ + w, !.min = w]
                   ELSE [ticks EXCEPT !.total = @ + w, !.max = IF w > @ THEN w ELSE @]

TicksWith(w) ==
  [total |-> ticks.total + w,
   min |-> IF w < ticks.min THEN w ELSE ticks.min,
   max |-> IF w > ticks.max THEN w ELSE ticks.max]

LockTicks(t) ==
  /\ Step(t, "lock_ticks", "lock_report")
  /\ ticks' = TicksWith(frame[t].wait)
  /\ UNCHANGED <<owner, stats, num_try_locks, reset, ever_locked, settings,
                 frame, details, history>>

(***************************************************************************)
(* OnInterestingEvents(events), a place for a breakpoint, and the return.  *)
(***************************************************************************)
LockReport(t) ==
  /\ pc[t] = "lock_report"
  /\ Return(t)
  /\ UNCHANGED <<owner, stats, ticks, num_try_locks, reset, ever_locked, settings,
                 details, history>>

-----------------------------------------------------------------------------
(***************************************************************************)
(* Mutex::try_lock and Mutex::unlock.                                      *)
(***************************************************************************)
TryBegin(t) ==
  /\ owner # t
  /\ Call(t, "try_lock", "try_acquire")
  /\ UNCHANGED <<owner, stats, ticks, num_try_locks, reset, ever_locked, settings,
                 frame, details, due, requested>>

TryTake(t) ==
  /\ Step(t, "try_acquire", "try_add")
  /\ Acquire(t)
  /\ Local(t, [frame[t] EXCEPT !.todo = {"num_successful_try_locks"}])
  /\ Accrue({"num_successful_try_locks"})
  /\ UNCHANGED <<stats, ticks, num_try_locks, reset, ever_locked, settings,
                 details, calls, requested>>

\* Mutant: try_lock waits for the mutex.
TryMissWaits(t) == FALSE

\* Mutant: the test of `succeeded' is dropped.
TryMissCounts(t) ==
  /\ owner # NoOwner
  /\ Step(t, "try_acquire", "try_add")
  /\ Local(t, [frame[t] EXCEPT !.todo = {"num_successful_try_locks"}])
  /\ UNCHANGED <<owner, stats, ticks, num_try_locks, reset, ever_locked, settings,
                 details, history>>

TryMiss(t) ==
  /\ owner # NoOwner
  /\ Step(t, "try_acquire", "try_add")
  /\ UNCHANGED <<owner, stats, ticks, num_try_locks, reset, ever_locked, settings,
                 frame, details, history>>

TryCount(t) ==
  /\ Step(t, "try_add", "try_exchange")
  /\ frame[t].todo = {}
  /\ num_try_locks' = num_try_locks + 1
  /\ UNCHANGED <<owner, stats, ticks, reset, ever_locked, settings, frame, details, history>>

TryExchange(t) ==
  /\ pc[t] = "try_exchange"
  /\ ResetExchange(t, "idle")

Unlock(t) ==
  /\ pc[t] = "idle"
  /\ owner = t
  /\ owner' = NoOwner
  /\ UNCHANGED <<stats, ticks, num_try_locks, reset, ever_locked, settings,
                 pc, frame, details, history>>

-----------------------------------------------------------------------------
(***************************************************************************)
(* stats = {} in Reset and in RequestReset, then the rest of each.  A      *)
(* holder that is through with it has nothing counted and nothing in       *)
(* flight.                                                                 *)
(***************************************************************************)
RequestReset(t) ==
  /\ Call(t, "RequestReset", "clear")
  /\ Local(t, [frame[t] EXCEPT !.todo = ResetCells, !.ret = "request"])
  /\ requested' = TRUE
  /\ UNCHANGED <<owner, stats, ticks, num_try_locks, reset, ever_locked, settings,
                 details, due>>

ClearField(t) ==
  /\ pc[t] = "clear"
  /\ \E c \in frame[t].todo :
       /\ stats' = [f \in Counters |-> IF f = c THEN 0 ELSE stats[f]]
       /\ ticks' = IF c = "ticks" THEN NoTicks ELSE ticks
       /\ Local(t, [frame[t] EXCEPT !.todo = @ \ {c}])
  /\ UNCHANGED <<owner, num_try_locks, reset, ever_locked, settings,
                 pc, details, history>>

\* Mutant: a reset forgets ever_locked too.
ClearDoneForgets(t) ==
  /\ pc[t] = "clear"
  /\ frame[t].todo = {}
  /\ due' = IF owner = t THEN NoCounts ELSE due
  /\ ever_locked' = FALSE
  /\ UNCHANGED <<owner, stats, ticks, settings, details, calls, requested>>

ClearDone(t) ==
  /\ pc[t] = "clear"
  /\ frame[t].todo = {}
  /\ due' = IF owner = t THEN NoCounts ELSE due
  /\ UNCHANGED <<owner, stats, ticks, ever_locked, settings, details, calls, requested>>

RequestDone(t) ==
  /\ frame[t].ret = "request"
  /\ ClearDone(t)
  /\ reset' = TRUE
  /\ Return(t)
  /\ UNCHANGED num_try_locks

\* Mutant: Reset takes one try_lock back.
OneTryLess == num_try_locks - 1
NoTryLocks == 0

ResetDone(t) ==
  /\ frame[t].ret # "request"
  /\ ClearDone(t)
  /\ num_try_locks' = NoTryLocks
  /\ \/ frame[t].ret = "idle" /\ Return(t)
     \/ frame[t].ret = "lock_ever" /\ Goto(t, "lock_ever") /\ UNCHANGED frame
  /\ UNCHANGED reset

-----------------------------------------------------------------------------
(***************************************************************************)
(* GetDetails: the copy of stats, the two atomics, and the name under the  *)
(* shared name_mutex; SetName writes the name under the exclusive one.     *)
(***************************************************************************)
NameWriters == {t \in Threads : pc[t] = "name_store"}
NameReaders == {t \in Threads : pc[t] = "name_copy"}

GetDetails(t) ==
  /\ Call(t, "GetDetails", "copy")
  /\ Local(t, [frame[t] EXCEPT !.todo = Counters])
  /\ details' = [details EXCEPT ![t] = EmptyDetails]
  /\ UNCHANGED <<owner, stats, ticks, num_try_locks, reset, ever_locked, settings,
                 due, requested>>

CopyField(t) ==
  /\ pc[t] = "copy"
  /\ \E f \in frame[t].todo :
       /\ details' = [details EXCEPT ![t].stats[f] = stats[f]]
       /\ Local(t, [frame[t] EXCEPT !.todo = @ \ {f}])
  /\ UNCHANGED <<owner, stats, ticks, num_try_locks, reset, ever_locked, settings, pc, history>>

LoadTryLocks(t) ==
  /\ frame[t].todo = {}
  /\ Step(t, "copy", "load_ever")
  /\ details' = [details EXCEPT ![t].num_try_locks = num_try_locks]
  /\ UNCHANGED <<owner, stats, ticks, num_try_locks, reset, ever_locked, settings,
                 frame, history>>

LoadEverLocked(t) ==
  /\ Step(t, "load_ever", "name_shared")
  /\ details' = [details EXCEPT ![t].ever_locked = ever_locked]
  /\ UNCHANGED <<owner, stats, ticks, num_try_locks, reset, ever_locked, settings,
                 frame, history>>

NameLockShared(t) ==
  /\ NameWriters = {}
  /\ Step(t, "name_shared", "name_copy")
  /\ UNCHANGED <<owner, stats, ticks, num_try_locks, reset, ever_locked, settings,
                 frame, details, history>>

NameCopy(t) ==
  /\ pc[t] = "name_copy"
  /\ details' = [details EXCEPT ![t].name = name]
  /\ Return(t)
  /\ UNCHANGED <<owner, stats, ticks, num_try_locks, reset, ever_locked, settings, history>>

SetName(t) ==
  /\ Call(t, "SetName", "name_exclusive")
  /\ UNCHANGED <<owner, stats, ticks, num_try_locks, reset, ever_locked, settings,
                 frame, details, due, requested>>

SetNameLock(t) ==
  /\ NameWriters = {} /\ NameReaders = {}
  /\ Step(t, "name_exclusive", "name_store")
  /\ UNCHANGED <<owner, stats, ticks, num_try_locks, reset, ever_locked, settings,
                 frame, details, history>>

SetNameStore(t) ==
  /\ pc[t] = "name_store"
  /\ name' \in Names
  /\ Return(t)
  /\ UNCHANGED <<owner, stats, ticks, num_try_locks, reset, ever_locked,
                 interesting_events, assume_free, details, history>>

-----------------------------------------------------------------------------
(***************************************************************************)
(* The settings that are one atomic store.                                 *)
(***************************************************************************)
SetInterestingEvents(t) ==
  /\ Call(t, "SetInterestingEvents", "idle")
  /\ interesting_events' \in EventSets
  /\ UNCHANGED <<owner, stats, ticks, num_try_locks, reset, ever_locked, assume_free, name,
                 frame, details, due, requested>>

SetAssumeFreeUncontendedLocks(t) ==
  /\ Call(t, "SetAssumeFreeUncontendedLocks", "idle")
  /\ assume_free' \in BOOLEAN
  /\ UNCHANGED <<owner, stats, ticks, num_try_locks, reset, ever_locked, interesting_events,
                 name, frame, details, due, requested>>

-----------------------------------------------------------------------------
(***************************************************************************)
(* What a thread does inside a call, up to its return, and what it may     *)
(* choose to do outside one.                                               *)
(***************************************************************************)
InLock(t) ==
  \/ LockFastTake(t) \/ LockFastMiss(t) \/ LockSlowTake(t) \/ LockExchange(t)
  \/ LockEver(t) \/ LockTicks(t) \/ LockReport(t)

InTryLock(t) == TryTake(t) \/ TryMiss(t) \/ TryCount(t) \/ TryExchange(t)

InStats(t) ==
  \/ AddRead(t) \/ AddWrite(t) \/ ClearField(t) \/ RequestDone(t) \/ ResetDone(t)

InDetails(t) ==
  \/ CopyField(t) \/ LoadTryLocks(t) \/ LoadEverLocked(t)
  \/ NameLockShared(t) \/ NameCopy(t) \/ SetNameLock(t) \/ SetNameStore(t)

InCall(t) == InLock(t) \/ InTryLock(t) \/ InStats(t) \/ InDetails(t)

Begin(t) ==
  \/ LockBegin(t) \/ TryBegin(t) \/ Unlock(t) \/ RequestReset(t) \/ GetDetails(t)
  \/ SetName(t) \/ SetInterestingEvents(t) \/ SetAssumeFreeUncontendedLocks(t)

(***************************************************************************)
(* Every call the bound allows has been made and has returned.             *)
(***************************************************************************)
Finished ==
  /\ calls = MaxCalls
  /\ owner = NoOwner
  /\ \A t \in Threads : pc[t] = "idle"
  /\ UNCHANGED vars

Next == (\E t \in Threads : InCall(t) \/ Begin(t)) \/ Finished

Spec == Init /\ [][Next]_vars

(***************************************************************************)
(* A thread inside a call is scheduled.  Nothing obliges a thread to make  *)
(* a call, nor the holder to unlock, and std::mutex favours no waiter.     *)
(***************************************************************************)
Fairness == \A t \in Threads : WF_vars(InCall(t))
FairSpec == Spec /\ Fairness

-----------------------------------------------------------------------------
(***************************************************************************)
(* Types.                                                                  *)
(***************************************************************************)
FrameType ==
  [assume : BOOLEAN, events : SUBSET {"Lock", "ContendedLock"}, contended : BOOLEAN,
   wait : Waits, todo : SUBSET Cells, field : Counters \union {NoField}, reg : Nat,
   ret : {"idle", "lock_ever", "request"}]

DetailsType ==
  [stats : [Counters -> Nat], num_try_locks : Nat, ever_locked : BOOLEAN, name : Names]

(* Every variable has its type, and an owner is a thread.                  *)
TypeOK ==
  /\ owner \in Threads \union {NoOwner}
  /\ stats \in [Counters -> Nat]
  /\ ticks \in [total : Nat, min : Nat, max : Nat]
  /\ num_try_locks \in Nat
  /\ reset \in BOOLEAN
  /\ ever_locked \in BOOLEAN
  /\ interesting_events \in SUBSET {"Lock", "ContendedLock"}
  /\ assume_free \in BOOLEAN
  /\ name \in Names
  /\ pc \in [Threads -> Pcs]
  /\ frame \in [Threads -> FrameType]
  /\ details \in [Threads -> DetailsType]
  /\ calls \in 0..MaxCalls
  /\ due \in [Counters -> Nat]
  /\ requested \in BOOLEAN

-----------------------------------------------------------------------------
(***************************************************************************)
(* Safety.                                                                 *)
(***************************************************************************)
AtRest == \A t \in Threads : pc[t] = "idle"

(* The thread is in lock with the mutex acquired; in try_lock, or in the   *)
(* Reset it carries out, past the attempt on the mutex.                    *)
LockTaken(t) ==
  \/ pc[t] \in {"lock_add", "lock_ever", "lock_ticks", "lock_report"}
  \/ pc[t] = "clear" /\ frame[t].ret = "lock_ever"

TryDecided(t) ==
  \/ pc[t] \in {"try_add", "try_exchange"}
  \/ pc[t] = "clear" /\ frame[t].ret = "idle"

InAccounts(t) == LockTaken(t) \/ (pc[t] = "try_add" /\ frame[t].todo # {})

(* Only the holder of the mutex accounts for it: the fast path, the slow   *)
(* path and try_lock all update stats between acquisition and return.      *)
OneAccountant == \A t \in Threads : InAccounts(t) => owner = t

(* Until someone asks for a reset no acquisition is lost or counted twice, *)
(* although ++ on the counters is neither atomic nor ordered: once no      *)
(* update is under way each counter is what it is due.                     *)
ExactCounts ==
  ~requested /\ (\A t \in Threads : pc[t] \notin AddPcs)
    => \A f \in Counters : stats[f] = due[f]

(* Whatever resets race with it, a counter is never above the number of    *)
(* acquisitions since the last reset carried out by a holder: neither a    *)
(* half-done ++ nor a field that Reset missed brings an old count back.    *)
NeverOverCounted == \A f \in Counters : stats[f] <= due[f]

(* Until someone asks for a reset, the wait statistics of a mutex at rest  *)
(* fit each other and the number of locks they were taken over.            *)
WaitsConsistent ==
  ~requested /\ AtRest =>
    LET n == stats["num_locks"] IN
      IF n = 0 THEN ticks = NoTicks
               ELSE n * ticks.min <= ticks.total /\ ticks.total <= n * ticks.max

(* A mutex at rest that counts locks has ever_locked set: Reset does not   *)
(* forget it, also when a failed try_lock carries it out during a lock.    *)
EverLockedCounts == AtRest /\ stats["num_locks"] > 0 => ever_locked

(* Until someone asks for a reset, what GetDetails has copied, field by    *)
(* field and without the mutex, is never ahead of the mutex.               *)
DetailsNotAhead ==
  ~requested => \A t \in Threads :
    /\ \A f \in Counters : details[t].stats[f] <= stats[f]
    /\ details[t].num_try_locks <= num_try_locks
    /\ details[t].ever_locked => ever_locked

(* The ContendedLock breakpoint is only reached by a lock that had to      *)
(* wait, whenever SetInterestingEvents was called.                         *)
ContendedReported ==
  \A t \in Threads :
    pc[t] = "lock_report" /\ "ContendedLock" \in frame[t].events => frame[t].contended

(***************************************************************************)
(* Refinement: with the statistics hidden, this is a lock.                 *)
(***************************************************************************)
CallOf(t) ==
  CASE pc[t] \in {"lock_fast", "lock_wait"} -> "lock"
    [] pc[t] = "try_acquire" -> "try"
    [] LockTaken(t) -> "got"
    [] TryDecided(t) -> IF owner = t THEN "got" ELSE "missed"
    [] OTHER -> "none"

L == INSTANCE Lockable WITH holder <- owner, call <- [t \in Threads |-> CallOf(t)]

(* lock, try_lock and unlock do what Lockable promises, whatever the       *)
(* accounting around the std::mutex does.                                  *)
RefinesLockable == L!Spec

(***************************************************************************)
(* Liveness.                                                               *)
(***************************************************************************)
(* try_lock, RequestReset, and a lock that has acquired the mutex, return  *)
(* although the holder may keep the mutex for ever.                        *)
NonBlockingReturns ==
  \A t \in Threads :
    pc[t] \in {"try_acquire", "try_add", "clear", "lock_add"} ~> pc[t] = "idle"

(***************************************************************************)
(* What a comment of mutex.cpp says, and the code does not do.             *)
(***************************************************************************)
(* "A try_lock needs accounting for even if the mutex ends up not taken":  *)
(* when nothing is under way and no reset is pending, the successful       *)
(* try_locks are among the try_locks.                                      *)
TryLocksAccounted ==
  AtRest /\ ~reset => stats["num_successful_try_locks"] <= num_try_locks
=============================================================================
