---------------------------- MODULE MutexProofs ----------------------------
(***************************************************************************)
(* Theorems of Mutex, for any set of threads, any calls and any bound.     *)
(*                                                                         *)
(* The inductive invariant Inv says who may have a half-done update (only  *)
(* the owner), what a counter and a register may hold while it is under    *)
(* way, and how far an owner that carries out a reset has got.  ReportInv  *)
(* and TicksInv add to it what lock knows about its wait.                  *)
(***************************************************************************)
EXTENDS Mutex, TLAPS

(***************************************************************************)
(* A frame has cells to reach only in the loops over them, and a counter   *)
(* read but not written only in the update of the counters.                *)
(***************************************************************************)
FrameOK(t) ==
  /\ pc[t] \in AddPcs => /\ frame[t].todo \subseteq Counters
                         /\ frame[t].field \in frame[t].todo \union {NoField}
  /\ pc[t] = "try_add" => frame[t].todo \subseteq {"num_successful_try_locks"}
  /\ pc[t] \notin AddPcs => frame[t].field = NoField
  /\ pc[t] \notin AddPcs \union {"clear", "copy"} => frame[t].todo = {}

FrameInv == \A t \in Threads : FrameOK(t)

(***************************************************************************)
(* A counter leaves room for the increment that is pending on it, and the  *)
(* register too: the value read may be older than a reset, never newer     *)
(* than what is due.                                                       *)
(***************************************************************************)
PendingOK(t) ==
  pc[t] \in AddPcs =>
    /\ \A f \in frame[t].todo : stats[f] + 1 <= due[f]
    /\ frame[t].field # NoField => frame[t].reg + 1 <= due[frame[t].field]

PendingInv == \A t \in Threads : PendingOK(t)

(***************************************************************************)
(* An owner in the middle of a reset: what it has cleared stays clear.     *)
(***************************************************************************)
ClearOK(t) ==
  pc[t] = "clear" /\ owner = t => \A f \in Counters \ frame[t].todo : stats[f] = 0

ClearInv == \A t \in Threads : ClearOK(t)

(***************************************************************************)
(* Before the first request nobody clears anything, and a counter is what  *)
(* it is due but for the pending increment.                                *)
(***************************************************************************)
ExactOK(t) ==
  /\ pc[t] # "clear"
  /\ pc[t] \in AddPcs /\ frame[t].field # NoField => frame[t].reg = stats[frame[t].field]

Pending(f, t) == pc[t] \in AddPcs /\ f \in frame[t].todo

CountOK(f) ==
  \/ stats[f] = due[f]
  \/ stats[f] + 1 = due[f] /\ \E t \in Threads : Pending(f, t)

ExactInv ==
  ~requested => /\ ~reset
                /\ \A t \in Threads : ExactOK(t)
                /\ \A f \in Counters : CountOK(f)

(***************************************************************************)
(* A counted lock has set ever_locked, or is about to.                     *)
(***************************************************************************)
EverDue(t) ==
  \/ pc[t] \in {"lock_add", "lock_ever"}
  \/ pc[t] = "clear" /\ frame[t].ret = "lock_ever"

EverInv == stats["num_locks"] > 0 => ever_locked \/ \E t \in Threads : EverDue(t)

CountInv == PendingInv /\ NeverOverCounted /\ ClearInv

Inv == TypeOK /\ FrameInv /\ OneAccountant /\ CountInv /\ ExactInv /\ EverInv
-----------------------------------------------------------------------------
(***************************************************************************)
(* Type correctness.                                                       *)
(***************************************************************************)
LEMMA EmptyFrameType == EmptyFrame \in FrameType
BY WaitsAssumption DEF EmptyFrame, FrameType, NoField

LEMMA EmptyDetailsType == EmptyDetails \in DetailsType
BY NamesAssumption DEF EmptyDetails, DetailsType, NoCounts

LEMMA LocalFacts ==
  ASSUME frame \in [Threads -> FrameType], NEW t \in Threads, NEW fr \in FrameType,
         Local(t, fr)
  PROVE  /\ frame' \in [Threads -> FrameType]
         /\ frame'[t] = fr
         /\ \A u \in Threads \ {t} : frame'[u] = frame[u]
BY DEF Local

LEMMA GotoFacts ==
  ASSUME pc \in [Threads -> Pcs], NEW t \in Threads, NEW to \in Pcs, Goto(t, to)
  PROVE  /\ pc' \in [Threads -> Pcs]
         /\ pc'[t] = to
         /\ \A u \in Threads \ {t} : pc'[u] = pc[u]
BY DEF Goto

LEMMA TypeInit == Init => TypeOK
<1> SUFFICES ASSUME Init PROVE TypeOK
    OBVIOUS
<1>1. frame \in [Threads -> FrameType] /\ details \in [Threads -> DetailsType]
  BY EmptyFrameType, EmptyDetailsType DEF Init
<1>2. stats \in [Counters -> Nat] /\ due \in [Counters -> Nat] /\ calls \in 0..MaxCalls
  BY MaxCallsAssumption DEF Init, NoCounts
<1>3. ticks \in [total : Nat, min : Nat, max : Nat]
  BY WaitsAssumption DEF Init, NoTicks
<1>4. pc \in [Threads -> Pcs]
  BY DEF Init, Pcs
<1>5. QED
  BY <1>1, <1>2, <1>3, <1>4, NamesAssumption DEF Init, TypeOK

LEMMA PcType ==
  ASSUME TypeOK, [Next]_vars
  PROVE  pc' \in [Threads -> Pcs]
<1>1. ASSUME NEW t \in Threads, InLock(t) PROVE pc' \in [Threads -> Pcs]
  BY <1>1 DEF TypeOK, vars, InLock, Step, Goto, Call, Return, Pcs, AddPcs,
     LockBegin, LockFastTake, LockFastMiss, LockSlowTake, LockExchange, LockEver, LockTicks, LockReport, ResetExchange
<1>2. ASSUME NEW t \in Threads, InTryLock(t) PROVE pc' \in [Threads -> Pcs]
  BY <1>2 DEF TypeOK, vars, InTryLock, Step, Goto, Call, Return, Pcs, AddPcs,
     TryTake, TryMiss, TryCount, TryExchange, ResetExchange
<1>3. ASSUME NEW t \in Threads, InStats(t) PROVE pc' \in [Threads -> Pcs]
  BY <1>3 DEF TypeOK, vars, InStats, Step, Goto, Call, Return, Pcs, AddPcs,
     AddRead, AddWrite, ClearField, RequestDone, ResetDone, ClearDone
<1>4. ASSUME NEW t \in Threads, InDetails(t) PROVE pc' \in [Threads -> Pcs]
  BY <1>4 DEF TypeOK, vars, InDetails, Step, Goto, Call, Return, Pcs, AddPcs,
     CopyField, LoadTryLocks, LoadEverLocked, NameLockShared, NameCopy, SetNameLock, SetNameStore
<1>5. ASSUME NEW t \in Threads, Begin(t) PROVE pc' \in [Threads -> Pcs]
  BY <1>5 DEF TypeOK, vars, Begin, Step, Goto, Call, Return, Pcs, AddPcs,
     LockBegin, TryBegin, Unlock, RequestReset, GetDetails, SetName, SetInterestingEvents, SetAssumeFreeUncontendedLocks
<1>6. QED BY <1>1, <1>2, <1>3, <1>4, <1>5 DEF Next, InCall, Finished, vars, TypeOK

LEMMA CountTypes ==
  ASSUME TypeOK, [Next]_vars
  PROVE  /\ stats' \in [Counters -> Nat] /\ due' \in [Counters -> Nat]
         /\ num_try_locks' \in Nat /\ calls' \in 0..MaxCalls
<1> DEFINE Goal == /\ stats' \in [Counters -> Nat] /\ due' \in [Counters -> Nat]
                   /\ num_try_locks' \in Nat /\ calls' \in 0..MaxCalls
<1> USE MaxCallsAssumption DEF TypeOK, history, settings
<1>1. ASSUME NEW t \in Threads, NEW fs \in SUBSET Counters, Accrue(fs)
      PROVE  due' \in [Counters -> Nat]
  BY <1>1 DEF Accrue
<1>2. ASSUME NEW t \in Threads, InLock(t) PROVE Goal
  <2>1. CASE LockFastTake(t) \/ LockSlowTake(t)
    <3>1. due' \in [Counters -> Nat]
      BY <1>1, <2>1 DEF LockFastTake, LockSlowTake, Counters
    <3>2. QED
      BY <2>1, <3>1 DEF LockFastTake, LockSlowTake
  <2>2. CASE ~(LockFastTake(t) \/ LockSlowTake(t))
    BY <1>2, <2>2 DEF InLock, LockFastMiss, LockExchange, LockEver, LockTicks, LockReport, ResetExchange
  <2>3. QED
    BY <2>1, <2>2
<1>3. ASSUME NEW t \in Threads, InTryLock(t) PROVE Goal
  <2>1. CASE TryTake(t)
    <3>1. due' \in [Counters -> Nat]
      BY <1>1, <2>1 DEF TryTake, Counters
    <3>2. QED
      BY <2>1, <3>1 DEF TryTake
  <2>2. CASE ~TryTake(t)
    BY <1>3, <2>2 DEF InTryLock, TryMiss, TryCount, TryExchange, ResetExchange
  <2>3. QED
    BY <2>1, <2>2
<1>4. ASSUME NEW t \in Threads, InStats(t) PROVE Goal
  <2>1. CASE AddRead(t)
    BY <2>1 DEF AddRead
  <2>2. CASE AddWrite(t)
    <3>1. frame[t].reg \in Nat
      BY DEF FrameType
    <3>2. \A f : \A n \in Nat : [stats EXCEPT ![f] = n] \in [Counters -> Nat]
      OBVIOUS
    <3>3. stats' \in [Counters -> Nat]
      BY <2>2, <3>1, <3>2 DEF AddWrite
    <3>4. QED
      BY <2>2, <3>3 DEF AddWrite
  <2>3. CASE ClearField(t)
    <3>1. PICK c \in frame[t].todo : stats' = [f \in Counters |-> IF f = c THEN 0 ELSE stats[f]]
      BY <2>3 DEF ClearField
    <3>2. stats' \in [Counters -> Nat]
      BY <3>1
    <3>3. QED
      BY <2>3, <3>2 DEF ClearField
  <2>4. CASE RequestDone(t) \/ ResetDone(t)
    BY <2>4 DEF RequestDone, ResetDone, ClearDone, NoCounts, NoTryLocks
  <2>5. QED
    BY <1>4, <2>1, <2>2, <2>3, <2>4 DEF InStats
<1>5. ASSUME NEW t \in Threads, InDetails(t) PROVE Goal
  BY <1>5 DEF InDetails, CopyField, LoadTryLocks, LoadEverLocked, NameLockShared, NameCopy, SetNameLock, SetNameStore
<1>6. ASSUME NEW t \in Threads, Begin(t) PROVE Goal
  BY <1>6 DEF Begin, Call, LockBegin, TryBegin, Unlock, RequestReset, GetDetails, SetName, SetInterestingEvents, SetAssumeFreeUncontendedLocks
<1>7. QED
  BY <1>2, <1>3, <1>4, <1>5, <1>6 DEF Next, InCall, Finished, vars

LEMMA TicksType ==
  ASSUME TypeOK, [Next]_vars
  PROVE  ticks' \in [total : Nat, min : Nat, max : Nat]
<1> USE DEF TypeOK
<1>1. ASSUME NEW w \in Nat PROVE TicksWith(w) \in [total : Nat, min : Nat, max : Nat]
  BY <1>1 DEF TicksWith
<1>2. NoTicks \in [total : Nat, min : Nat, max : Nat]
  BY WaitsAssumption DEF NoTicks
<1>3. ASSUME NEW t \in Threads PROVE frame[t].wait \in Nat
  BY <1>3, WaitsAssumption DEF FrameType
<1>4. ASSUME NEW t \in Threads, LockTicks(t) \/ ClearField(t)
      PROVE  ticks' \in [total : Nat, min : Nat, max : Nat]
  <2>1. CASE LockTicks(t)
    BY <1>1, <1>3, <2>1 DEF LockTicks
  <2>2. CASE ClearField(t)
    BY <1>2, <2>2 DEF ClearField
  <2>3. QED
    BY <1>4, <2>1, <2>2
<1>5. ASSUME NEW t \in Threads, InLock(t) \/ InTryLock(t), ~LockTicks(t) PROVE UNCHANGED ticks
  BY <1>5 DEF InLock, LockFastTake, LockFastMiss, LockSlowTake, LockExchange, LockEver, LockReport,
     InTryLock, TryTake, TryMiss, TryCount, TryExchange, ResetExchange
<1>6. ASSUME NEW t \in Threads, InStats(t), ~ClearField(t) PROVE UNCHANGED ticks
  BY <1>6 DEF InStats, AddRead, AddWrite, RequestDone, ResetDone, ClearDone
<1>7. ASSUME NEW t \in Threads, InDetails(t) \/ Begin(t) PROVE UNCHANGED ticks
  BY <1>7 DEF InDetails, CopyField, LoadTryLocks, LoadEverLocked, NameLockShared, NameCopy, SetNameLock,
     SetNameStore, Begin, LockBegin, TryBegin, Unlock, RequestReset, GetDetails, SetName,
     SetInterestingEvents, SetAssumeFreeUncontendedLocks
<1>8. QED
  BY <1>4, <1>5, <1>6, <1>7 DEF Next, InCall, Finished, vars

LEMMA SettingsTypes ==
  ASSUME TypeOK, [Next]_vars
  PROVE  /\ owner' \in Threads \union {NoOwner}
         /\ reset' \in BOOLEAN /\ ever_locked' \in BOOLEAN
         /\ interesting_events' \in SUBSET {"Lock", "ContendedLock"}
         /\ assume_free' \in BOOLEAN /\ name' \in Names /\ requested' \in BOOLEAN
<1> DEFINE Goal == /\ owner' \in Threads \union {NoOwner}
                   /\ reset' \in BOOLEAN /\ ever_locked' \in BOOLEAN
                   /\ interesting_events' \in SUBSET {"Lock", "ContendedLock"}
                   /\ assume_free' \in BOOLEAN /\ name' \in Names /\ requested' \in BOOLEAN
<1> USE DEF TypeOK, history, settings
<1>1. ASSUME NEW t \in Threads, InLock(t) PROVE Goal
  BY <1>1 DEF InLock, LockFastTake, LockFastMiss, LockSlowTake, LockExchange, LockEver, LockTicks,
     LockReport, Acquire, ResetExchange
<1>2. ASSUME NEW t \in Threads, InTryLock(t) PROVE Goal
  BY <1>2 DEF InTryLock, TryTake, TryMiss, TryCount, TryExchange, Acquire, ResetExchange
<1>3. ASSUME NEW t \in Threads, InStats(t) PROVE Goal
  BY <1>3 DEF InStats, AddRead, AddWrite, ClearField, RequestDone, ResetDone, ClearDone
<1>4. ASSUME NEW t \in Threads, InDetails(t) PROVE Goal
  BY <1>4 DEF InDetails, CopyField, LoadTryLocks, LoadEverLocked, NameLockShared, NameCopy,
     SetNameLock, SetNameStore
<1>5. ASSUME NEW t \in Threads, Begin(t) PROVE Goal
  BY <1>5, EventSetsAssumption DEF Begin, LockBegin, TryBegin, Unlock, RequestReset, GetDetails,
     SetName, SetInterestingEvents, SetAssumeFreeUncontendedLocks
<1>6. QED
  BY <1>1, <1>2, <1>3, <1>4, <1>5 DEF Next, InCall, Finished, vars

LEMMA DetailsTypes ==
  ASSUME TypeOK, [Next]_vars
  PROVE  details' \in [Threads -> DetailsType]
<1> USE DEF TypeOK
<1>1. ASSUME NEW t \in Threads, CopyField(t) PROVE details' \in [Threads -> DetailsType]
  <2>1. PICK f \in frame[t].todo : details' = [details EXCEPT ![t].stats[f] = stats[f]]
    BY <1>1 DEF CopyField
  <2>2. details[t] \in DetailsType
    OBVIOUS
  <2>3. [details[t].stats EXCEPT ![f] = stats[f]] \in [Counters -> Nat]
    BY <2>2 DEF DetailsType
  <2>4. [details[t] EXCEPT !.stats[f] = stats[f]] \in DetailsType
    BY <2>2, <2>3 DEF DetailsType
  <2>5. QED
    BY <2>1, <2>4
<1>2. ASSUME NEW t \in Threads, InDetails(t), ~CopyField(t) PROVE details' \in [Threads -> DetailsType]
  <2>1. /\ details[t] \in DetailsType
        /\ [details[t] EXCEPT !.num_try_locks = num_try_locks] \in DetailsType
        /\ [details[t] EXCEPT !.ever_locked = ever_locked] \in DetailsType
        /\ [details[t] EXCEPT !.name = name] \in DetailsType
    BY DEF DetailsType
  <2>2. QED
    BY <1>2, <2>1 DEF InDetails, LoadTryLocks, LoadEverLocked, NameLockShared, NameCopy,
       SetNameLock, SetNameStore
<1>3. ASSUME NEW t \in Threads, Begin(t) PROVE details' \in [Threads -> DetailsType]
  BY <1>3, EmptyDetailsType DEF Begin, LockBegin, TryBegin, Unlock, RequestReset, GetDetails, SetName,
     SetInterestingEvents, SetAssumeFreeUncontendedLocks
<1>4. ASSUME NEW t \in Threads, InLock(t) \/ InTryLock(t) PROVE UNCHANGED details
  BY <1>4 DEF InLock, LockFastTake, LockFastMiss, LockSlowTake, LockExchange, LockEver, LockTicks,
     LockReport, InTryLock, TryTake, TryMiss, TryCount, TryExchange, ResetExchange
<1>5. ASSUME NEW t \in Threads, InStats(t) PROVE UNCHANGED details
  BY <1>5 DEF InStats, AddRead, AddWrite, ClearField, RequestDone, ResetDone, ClearDone
<1>6. QED
  BY <1>1, <1>2, <1>3, <1>4, <1>5 DEF Next, InCall, Finished, vars

(***************************************************************************)
(* A thread only ever changes its own locals.                              *)
(***************************************************************************)
LEMMA FrameShapes ==
  ASSUME NEW fr \in FrameType, NEW x \in SUBSET Cells
  PROVE  /\ [fr EXCEPT !.todo = x] \in FrameType
         /\ [fr EXCEPT !.contended = TRUE] \in FrameType
         /\ \A r \in {"idle", "lock_ever", "request"} :
              [fr EXCEPT !.todo = x, !.ret = r] \in FrameType
         /\ [fr EXCEPT !.field = NoField, !.todo = x] \in FrameType
         /\ \A f \in Counters, r \in Nat : [fr EXCEPT !.field = f, !.reg = r] \in FrameType
BY DEF FrameType

LEMMA LockShapes ==
  ASSUME NEW fr \in FrameType, NEW x \in SUBSET Cells, NEW w \in Waits, NEW b \in BOOLEAN,
         NEW e \in SUBSET {"Lock", "ContendedLock"}
  PROVE  /\ [fr EXCEPT !.assume = b, !.events = e] \in FrameType
         /\ [fr EXCEPT !.events = UncontendedEvents(@), !.todo = x, !.wait = w] \in FrameType
         /\ [fr EXCEPT !.todo = x, !.wait = w] \in FrameType
BY DEF FrameType, UncontendedEvents

LEMMA FrameStep ==
  ASSUME TypeOK, FrameInv, NEW t \in Threads, InCall(t) \/ Begin(t)
  PROVE  UNCHANGED frame \/ \E fr \in FrameType : Local(t, fr)
<1> DEFINE Goal == UNCHANGED frame \/ \E fr \in FrameType : Local(t, fr)
<1>1. /\ frame[t] \in FrameType /\ frame[t].todo \in SUBSET Cells
      /\ Counters \in SUBSET Cells /\ ResetCells \in SUBSET Cells
      /\ ContendedCounts \in SUBSET Cells
      /\ {"num_locks"} \in SUBSET Cells /\ {"num_successful_try_locks"} \in SUBSET Cells
      /\ assume_free \in BOOLEAN /\ interesting_events \in SUBSET {"Lock", "ContendedLock"}
  BY DEF TypeOK, FrameType, Cells, Counters, ResetCells, ContendedCounts
<1>2. Return(t) => Goal
  BY EmptyFrameType DEF Return
<1>3. ASSUME NEW r \in {"idle", "lock_ever"}, ResetExchange(t, r) PROVE Goal
  BY <1>1, <1>2, <1>3, FrameShapes DEF ResetExchange
<1>4. ASSUME NEW x \in SUBSET Cells, NEW c \in Cells
      PROVE  x \ {c} \in SUBSET Cells
  OBVIOUS
<1>5. ASSUME InLock(t) PROVE Goal
  <2>1. CASE LockFastTake(t)
    BY <1>1, <2>1, LockShapes DEF LockFastTake
  <2>2. CASE LockSlowTake(t)
    BY <1>1, <2>2, LockShapes DEF LockSlowTake
  <2>3. CASE LockFastMiss(t)
    BY <1>1, <2>3, FrameShapes DEF LockFastMiss
  <2>4. CASE LockExchange(t)
    BY <1>3, <2>4 DEF LockExchange
  <2>5. QED
    BY <1>2, <1>5, <2>1, <2>2, <2>3, <2>4 DEF InLock, LockEver, LockTicks, LockReport
<1>6. ASSUME InTryLock(t) PROVE Goal
  <2>1. CASE TryTake(t)
    BY <1>1, <2>1, FrameShapes DEF TryTake
  <2>2. CASE TryExchange(t)
    BY <1>3, <2>2 DEF TryExchange
  <2>3. QED
    BY <1>6, <2>1, <2>2 DEF InTryLock, TryMiss, TryCount
<1>7. ASSUME InStats(t) PROVE Goal
  <2>1. CASE AddRead(t)
    <3>1. PICK f \in frame[t].todo : Local(t, [frame[t] EXCEPT !.field = f, !.reg = stats[f]])
      BY <2>1 DEF AddRead
    <3>2. f \in Counters /\ stats[f] \in Nat
      BY <2>1, <3>1 DEF AddRead, FrameInv, FrameOK, TypeOK
    <3>3. QED
      BY <1>1, <3>1, <3>2, FrameShapes
  <2>2. CASE AddWrite(t)
    <3>1. frame[t].todo \ {frame[t].field} \in SUBSET Cells
      BY <1>1
    <3>2. QED
      BY <1>1, <2>2, <3>1, FrameShapes DEF AddWrite
  <2>3. CASE ClearField(t)
    <3>1. PICK c \in frame[t].todo : Local(t, [frame[t] EXCEPT !.todo = @ \ {c}])
      BY <2>3 DEF ClearField
    <3>2. frame[t].todo \ {c} \in SUBSET Cells
      BY <1>1
    <3>3. QED
      BY <1>1, <3>1, <3>2, FrameShapes
  <2>4. QED
    BY <1>2, <1>7, <2>1, <2>2, <2>3 DEF InStats, RequestDone, ResetDone
<1>8. ASSUME InDetails(t) PROVE Goal
  <2>1. CASE CopyField(t)
    <3>1. PICK c \in frame[t].todo : Local(t, [frame[t] EXCEPT !.todo = @ \ {c}])
      BY <2>1 DEF CopyField
    <3>2. frame[t].todo \ {c} \in SUBSET Cells
      BY <1>1
    <3>3. QED
      BY <1>1, <3>1, <3>2, FrameShapes
  <2>2. QED
    BY <1>2, <1>8, <2>1 DEF InDetails, LoadTryLocks, LoadEverLocked, NameLockShared, NameCopy,
       SetNameLock, SetNameStore
<1>9. ASSUME Begin(t) PROVE Goal
  <2>1. CASE LockBegin(t)
    BY <1>1, <2>1, LockShapes, WaitsAssumption DEF LockBegin
  <2>2. CASE RequestReset(t)
    BY <1>1, <2>2, FrameShapes DEF RequestReset
  <2>3. CASE GetDetails(t)
    BY <1>1, <2>3, FrameShapes DEF GetDetails
  <2>4. QED
    BY <1>9, <2>1, <2>2, <2>3 DEF Begin, TryBegin, Unlock, SetName, SetInterestingEvents,
       SetAssumeFreeUncontendedLocks
<1>10. QED
  BY <1>5, <1>6, <1>7, <1>8, <1>9 DEF InCall

(***************************************************************************)
(* TypeOK holds after a step: FrameInv keeps AddRead to the counters.      *)
(***************************************************************************)
LEMMA TypeNext ==
  ASSUME TypeOK, FrameInv, [Next]_vars
  PROVE  TypeOK'
<1>1. ASSUME NEW t \in Threads, InCall(t) \/ Begin(t)
      PROVE  frame' \in [Threads -> FrameType]
  BY <1>1, FrameStep, LocalFacts DEF TypeOK
<1>2. frame' \in [Threads -> FrameType]
  BY <1>1 DEF Next, Finished, vars, TypeOK
<1>3. QED
  BY <1>2, PcType, CountTypes, TicksType, SettingsTypes, DetailsTypes DEF TypeOK

-----------------------------------------------------------------------------
(***************************************************************************)
(* Where a thread is and what its locals hold is up to the thread itself.  *)
(***************************************************************************)
LEMMA OthersStay ==
  ASSUME TypeOK, FrameInv, NEW t \in Threads, InCall(t) \/ Begin(t), NEW u \in Threads \ {t}
  PROVE  pc'[u] = pc[u] /\ frame'[u] = frame[u]
<1>1. frame'[u] = frame[u]
  BY FrameStep, LocalFacts DEF TypeOK
<1>2. ASSUME InLock(t) \/ InTryLock(t) PROVE pc'[u] = pc[u]
  BY <1>2 DEF TypeOK, Step, Goto, Return, InLock, LockFastTake, LockFastMiss, LockSlowTake,
     LockExchange, LockEver, LockTicks, LockReport, InTryLock, TryTake, TryMiss, TryCount,
     TryExchange, ResetExchange
<1>3. ASSUME InStats(t) PROVE pc'[u] = pc[u]
  BY <1>3 DEF TypeOK, Goto, Return, InStats, AddRead, AddWrite, ClearField, RequestDone,
     ResetDone, ClearDone
<1>4. ASSUME InDetails(t) PROVE pc'[u] = pc[u]
  BY <1>4 DEF TypeOK, Step, Goto, Return, InDetails, CopyField, LoadTryLocks, LoadEverLocked,
     NameLockShared, NameCopy, SetNameLock, SetNameStore
<1>5. ASSUME Begin(t) PROVE pc'[u] = pc[u]
  BY <1>5 DEF TypeOK, Step, Goto, Call, Begin, LockBegin, TryBegin, Unlock, RequestReset,
     GetDetails, SetName, SetInterestingEvents, SetAssumeFreeUncontendedLocks
<1>6. QED
  BY <1>1, <1>2, <1>3, <1>4, <1>5 DEF InCall

(***************************************************************************)
(* What a step leaves in the locals that the invariants speak of.          *)
(***************************************************************************)
Left(t, todo, field, reg, ret) ==
  /\ frame'[t].todo = todo
  /\ frame'[t].field = field
  /\ frame'[t].reg = reg
  /\ frame'[t].ret = ret

Keeps(t, todo) == Left(t, todo, frame[t].field, frame[t].reg, frame[t].ret)

LEMMA LocalEffects ==
  ASSUME TypeOK, NEW t \in Threads, NEW x, NEW y
  PROVE  /\ Local(t, [frame[t] EXCEPT !.todo = x]) =>
              Keeps(t, x)
         /\ Local(t, [frame[t] EXCEPT !.todo = x, !.ret = y]) =>
              Left(t, x, frame[t].field, frame[t].reg, y)
         /\ Local(t, [frame[t] EXCEPT !.todo = x, !.wait = y]) =>
              Keeps(t, x)
         /\ Local(t, [frame[t] EXCEPT !.events = UncontendedEvents(@), !.todo = x, !.wait = y]) =>
              Keeps(t, x)
         /\ Local(t, [frame[t] EXCEPT !.field = x, !.reg = y]) =>
              Left(t, frame[t].todo, x, y, frame[t].ret)
         /\ Local(t, [frame[t] EXCEPT !.field = x, !.todo = y]) =>
              Left(t, y, x, frame[t].reg, frame[t].ret)
         /\ Local(t, [frame[t] EXCEPT !.assume = x, !.events = y]) =>
              Keeps(t, frame[t].todo)
         /\ Local(t, [frame[t] EXCEPT !.contended = x]) =>
              Keeps(t, frame[t].todo)
<1>1. frame[t] \in FrameType
  BY DEF TypeOK
<1>2. ASSUME NEW fr, Local(t, fr) PROVE frame'[t] = fr
  BY <1>2 DEF Local, TypeOK
<1>3. ASSUME Local(t, [frame[t] EXCEPT !.todo = x])
      PROVE  Keeps(t, x)
  BY <1>1, <1>2, <1>3 DEF FrameType, Left, Keeps
<1>4. ASSUME Local(t, [frame[t] EXCEPT !.todo = x, !.ret = y])
      PROVE  Left(t, x, frame[t].field, frame[t].reg, y)
  BY <1>1, <1>2, <1>4 DEF FrameType, Left, Keeps
<1>5. ASSUME Local(t, [frame[t] EXCEPT !.todo = x, !.wait = y])
      PROVE  Keeps(t, x)
  BY <1>1, <1>2, <1>5 DEF FrameType, Left, Keeps
<1>6. ASSUME Local(t, [frame[t] EXCEPT !.events = UncontendedEvents(@), !.todo = x, !.wait = y])
      PROVE  Keeps(t, x)
  BY <1>1, <1>2, <1>6 DEF FrameType, Left, Keeps
<1>7. ASSUME Local(t, [frame[t] EXCEPT !.field = x, !.reg = y])
      PROVE  Left(t, frame[t].todo, x, y, frame[t].ret)
  BY <1>1, <1>2, <1>7 DEF FrameType, Left, Keeps
<1>8. ASSUME Local(t, [frame[t] EXCEPT !.field = x, !.todo = y])
      PROVE  Left(t, y, x, frame[t].reg, frame[t].ret)
  BY <1>1, <1>2, <1>8 DEF FrameType, Left, Keeps
<1>9. ASSUME Local(t, [frame[t] EXCEPT !.assume = x, !.events = y])
      PROVE  Keeps(t, frame[t].todo)
  <2>1. frame'[t] = [frame[t] EXCEPT !.assume = x, !.events = y]
    BY <1>2, <1>9
  <2>2. QED
    BY <1>1, <2>1 DEF FrameType, Left, Keeps
<1>10. ASSUME Local(t, [frame[t] EXCEPT !.contended = x])
      PROVE  Keeps(t, frame[t].todo)
  BY <1>1, <1>2, <1>10 DEF FrameType, Left, Keeps
<1>11. QED
  BY <1>3, <1>4, <1>5, <1>6, <1>7, <1>8, <1>9, <1>10

LEMMA Effects ==
  ASSUME TypeOK, NEW t \in Threads
  PROVE  /\ LockBegin(t) => pc[t] = "idle" /\ pc'[t] = "lock_fast" /\ Keeps(t, frame[t].todo)
         /\ LockFastTake(t) => pc[t] = "lock_fast" /\ pc'[t] = "lock_add" /\ Keeps(t, {"num_locks"})
         /\ LockFastMiss(t) => pc[t] = "lock_fast" /\ pc'[t] = "lock_wait" /\ Keeps(t, frame[t].todo)
         /\ LockSlowTake(t) => pc[t] = "lock_wait" /\ pc'[t] = "lock_add" /\ Keeps(t, ContendedCounts)
         /\ TryTake(t) => pc[t] = "try_acquire" /\ pc'[t] = "try_add" /\ Keeps(t, {"num_successful_try_locks"})
         /\ RequestReset(t) => pc[t] = "idle" /\ pc'[t] = "clear" /\ Left(t, ResetCells, frame[t].field, frame[t].reg, "request")
         /\ GetDetails(t) => pc[t] = "idle" /\ pc'[t] = "copy" /\ Keeps(t, Counters)
         /\ AddRead(t) => pc'[t] = pc[t] /\ \E f \in frame[t].todo :
              Left(t, frame[t].todo, f, stats[f], frame[t].ret)
         /\ ClearField(t) => pc'[t] = pc[t] /\ \E f \in frame[t].todo :
              Keeps(t, frame[t].todo \ {f})
         /\ CopyField(t) => pc'[t] = pc[t] /\ \E f \in frame[t].todo :
              Keeps(t, frame[t].todo \ {f})
         /\ AddWrite(t) => pc'[t] = pc[t]
              /\ Left(t, frame[t].todo \ {frame[t].field}, NoField, frame[t].reg, frame[t].ret)
<1> USE DEF Step, Goto
<1>1. LockBegin(t) => pc[t] = "idle" /\ pc'[t] = "lock_fast" /\ Keeps(t, frame[t].todo)
  BY LocalEffects DEF LockBegin, Call, TypeOK
<1>2. LockFastTake(t) => pc[t] = "lock_fast" /\ pc'[t] = "lock_add" /\ Keeps(t, {"num_locks"})
  BY LocalEffects DEF LockFastTake, TypeOK
<1>3. LockFastMiss(t) => pc[t] = "lock_fast" /\ pc'[t] = "lock_wait" /\ Keeps(t, frame[t].todo)
  BY LocalEffects DEF LockFastMiss, TypeOK
<1>4. LockSlowTake(t) => pc[t] = "lock_wait" /\ pc'[t] = "lock_add" /\ Keeps(t, ContendedCounts)
  BY LocalEffects DEF LockSlowTake, TypeOK
<1>5. TryTake(t) => pc[t] = "try_acquire" /\ pc'[t] = "try_add" /\ Keeps(t, {"num_successful_try_locks"})
  BY LocalEffects DEF TryTake, TypeOK
<1>6. RequestReset(t) => pc[t] = "idle" /\ pc'[t] = "clear" /\ Left(t, ResetCells, frame[t].field, frame[t].reg, "request")
  BY LocalEffects DEF RequestReset, Call, TypeOK
<1>7. GetDetails(t) => pc[t] = "idle" /\ pc'[t] = "copy" /\ Keeps(t, Counters)
  BY LocalEffects DEF GetDetails, Call, TypeOK
<1>8. ASSUME AddRead(t)
      PROVE  pc'[t] = pc[t] /\ \E f \in frame[t].todo :
               Left(t, frame[t].todo, f, stats[f], frame[t].ret)
  <2>1. PICK f \in frame[t].todo : Local(t, [frame[t] EXCEPT !.field = f, !.reg = stats[f]])
    BY <1>8 DEF AddRead
  <2>2. Left(t, frame[t].todo, f, stats[f], frame[t].ret)
    BY <2>1, LocalEffects
  <2>3. QED
    BY <1>8, <2>2 DEF AddRead
<1>9. ASSUME ClearField(t)
      PROVE  pc'[t] = pc[t] /\ \E f \in frame[t].todo :
               Keeps(t, frame[t].todo \ {f})
  <2>1. PICK f \in frame[t].todo : Local(t, [frame[t] EXCEPT !.todo = @ \ {f}])
    BY <1>9 DEF ClearField
  <2>2. Keeps(t, frame[t].todo \ {f})
    BY <2>1, LocalEffects
  <2>3. QED
    BY <1>9, <2>2 DEF ClearField
<1>10. ASSUME CopyField(t)
      PROVE  pc'[t] = pc[t] /\ \E f \in frame[t].todo :
               Keeps(t, frame[t].todo \ {f})
  <2>1. PICK f \in frame[t].todo : Local(t, [frame[t] EXCEPT !.todo = @ \ {f}])
    BY <1>10 DEF CopyField
  <2>2. Keeps(t, frame[t].todo \ {f})
    BY <2>1, LocalEffects
  <2>3. QED
    BY <1>10, <2>2 DEF CopyField
<1>11. AddWrite(t) => pc'[t] = pc[t]
              /\ Left(t, frame[t].todo \ {frame[t].field}, NoField, frame[t].reg, frame[t].ret)
  BY LocalEffects DEF AddWrite
<1>12. QED
  BY <1>1, <1>2, <1>3, <1>4, <1>5, <1>6, <1>7, <1>8, <1>9, <1>10, <1>11

LEMMA ResetEffects ==
  ASSUME TypeOK, NEW t \in Threads, NEW r \in {"idle", "lock_ever"}, ResetExchange(t, r)
  PROVE  /\ reset => /\ pc'[t] = "clear"
                     /\ Left(t, ResetCells, frame[t].field, frame[t].reg, r)
         /\ ~reset => /\ pc'[t] = r
                      /\ \/ frame'[t] = frame[t]
                         \/ r = "idle" /\ frame'[t] = EmptyFrame
<1>1. CASE reset
  <2>1. Local(t, [frame[t] EXCEPT !.todo = ResetCells, !.ret = r]) /\ Goto(t, "clear")
    BY <1>1 DEF ResetExchange, ResetWanted
  <2>2. Left(t, ResetCells, frame[t].field, frame[t].reg, r)
    BY <2>1, LocalEffects
  <2>3. QED
    BY <1>1, <2>1, <2>2 DEF Goto, TypeOK
<1>2. CASE ~reset
  <2>1. CASE r = "idle"
    BY <1>2, <2>1 DEF ResetExchange, ResetWanted, Return, Goto, Local, TypeOK
  <2>2. CASE r = "lock_ever"
    <3>1. Goto(t, "lock_ever") /\ UNCHANGED frame
      BY <1>2, <2>2 DEF ResetExchange, ResetWanted
    <3>2. QED
      BY <1>2, <2>2, <3>1, GotoFacts DEF TypeOK, Pcs, AddPcs
  <2>3. QED
    BY <2>1, <2>2
<1>3. QED
  BY <1>1, <1>2 DEF TypeOK

LEMMA FrameOwn ==
  ASSUME TypeOK, FrameInv, NEW t \in Threads, InCall(t) \/ Begin(t)
  PROVE  FrameOK(t)'
<1> USE DEF TypeOK, FrameInv, FrameOK, Left, Keeps, AddPcs
<1>1. ASSUME Return(t) PROVE FrameOK(t)'
  BY <1>1 DEF Return, Local, Goto, EmptyFrame
<1>2. ASSUME NEW r \in {"idle", "lock_ever"}, ResetExchange(t, r), frame[t].todo = {},
             pc[t] \in {"lock_add", "try_exchange"}
      PROVE FrameOK(t)'
  BY <1>2, ResetEffects DEF EmptyFrame
<1>3. ASSUME InLock(t) PROVE FrameOK(t)'
  <2>1. CASE LockFastTake(t) \/ LockSlowTake(t)
    BY <2>1, Effects DEF Counters, ContendedCounts
  <2>2. CASE LockFastMiss(t)
    BY <2>2, Effects
  <2>3. CASE LockExchange(t)
    BY <1>2, <2>3 DEF LockExchange
  <2>4. CASE LockEver(t) \/ LockTicks(t)
    BY <2>4 DEF LockEver, LockTicks, Step, Goto
  <2>5. CASE LockReport(t)
    BY <1>1, <2>5 DEF LockReport
  <2>6. QED
    BY <1>3, <2>1, <2>2, <2>3, <2>4, <2>5 DEF InLock
<1>4. ASSUME InTryLock(t) PROVE FrameOK(t)'
  <2>1. CASE TryTake(t)
    BY <2>1, Effects DEF Counters
  <2>2. CASE TryMiss(t) \/ TryCount(t)
    BY <2>2 DEF TryMiss, TryCount, Step, Goto
  <2>3. CASE TryExchange(t)
    BY <1>2, <2>3 DEF TryExchange
  <2>4. QED
    BY <1>4, <2>1, <2>2, <2>3 DEF InTryLock
<1>5. ASSUME InStats(t) PROVE FrameOK(t)'
  <2>1. CASE AddRead(t)
    <3>1. pc[t] \in AddPcs
      BY <2>1 DEF AddRead
    <3>2. QED
      BY <2>1, <3>1, Effects
  <2>2. CASE AddWrite(t)
    <3>1. pc[t] \in AddPcs
      BY <2>2 DEF AddWrite
    <3>2. QED
      BY <2>2, <3>1, Effects
  <2>3. CASE ClearField(t)
    <3>1. pc[t] = "clear"
      BY <2>3 DEF ClearField
    <3>2. QED
      BY <2>3, <3>1, Effects
  <2>4. CASE RequestDone(t)
    BY <1>1, <2>4 DEF RequestDone
  <2>5. CASE ResetDone(t)
    BY <1>1, <2>5 DEF ResetDone, ClearDone, Goto
  <2>6. QED
    BY <1>5, <2>1, <2>2, <2>3, <2>4, <2>5 DEF InStats
<1>6. ASSUME InDetails(t) PROVE FrameOK(t)'
  <2>1. CASE CopyField(t)
    <3>1. pc[t] = "copy"
      BY <2>1 DEF CopyField
    <3>2. QED
      BY <2>1, <3>1, Effects
  <2>2. CASE NameCopy(t) \/ SetNameStore(t)
    BY <1>1, <2>2 DEF NameCopy, SetNameStore
  <2>3. CASE ~CopyField(t) /\ ~NameCopy(t) /\ ~SetNameStore(t)
    BY <1>6, <2>3 DEF InDetails, LoadTryLocks, LoadEverLocked, NameLockShared, SetNameLock, Step, Goto
  <2>4. QED
    BY <2>1, <2>2, <2>3
<1>7. ASSUME Begin(t) PROVE FrameOK(t)'
  <2>1. CASE LockBegin(t) \/ RequestReset(t) \/ GetDetails(t)
    BY <2>1, Effects
  <2>2. CASE ~(LockBegin(t) \/ RequestReset(t) \/ GetDetails(t))
    BY <1>7, <2>2 DEF Begin, TryBegin, Unlock, SetName, SetInterestingEvents,
       SetAssumeFreeUncontendedLocks, Call, Step, Goto
  <2>3. QED
    BY <2>1, <2>2
<1>8. QED
  BY <1>3, <1>4, <1>5, <1>6, <1>7 DEF InCall

LEMMA FrameNext ==
  ASSUME TypeOK, FrameInv, [Next]_vars
  PROVE  FrameInv'
<1>1. ASSUME NEW t \in Threads, InCall(t) \/ Begin(t) PROVE FrameInv'
  <2>1. FrameOK(t)'
    BY <1>1, FrameOwn
  <2>2. ASSUME NEW u \in Threads \ {t} PROVE FrameOK(u)'
    BY <1>1, OthersStay DEF FrameInv, FrameOK
  <2>3. QED
    BY <2>1, <2>2 DEF FrameInv
<1>2. CASE UNCHANGED vars
  BY <1>2 DEF vars, FrameInv, FrameOK
<1>3. QED
  BY <1>1, <1>2 DEF Next, Finished

(***************************************************************************)
(* Nobody but the owner is in its accounts.                                *)
(***************************************************************************)
LEMMA OwnerStep ==
  ASSUME TypeOK, NEW t \in Threads, InCall(t) \/ Begin(t)
  PROVE  \/ UNCHANGED owner
         \/ owner = NoOwner /\ owner' = t
         \/ pc[t] = "idle" /\ pc'[t] = "idle" /\ owner = t /\ owner' = NoOwner
<1> DEFINE Goal == \/ UNCHANGED owner
                   \/ owner = NoOwner /\ owner' = t
                   \/ pc[t] = "idle" /\ pc'[t] = "idle" /\ owner = t /\ owner' = NoOwner
<1>1. ASSUME InLock(t) \/ InTryLock(t) PROVE Goal
  BY <1>1 DEF InLock, LockFastTake, LockFastMiss, LockSlowTake, LockExchange, LockEver, LockTicks,
     LockReport, InTryLock, TryTake, TryMiss, TryCount, TryExchange, ResetExchange, Acquire
<1>2. ASSUME InStats(t) \/ InDetails(t) PROVE Goal
  BY <1>2 DEF InStats, AddRead, AddWrite, ClearField, RequestDone, ResetDone, ClearDone, InDetails,
     CopyField, LoadTryLocks, LoadEverLocked, NameLockShared, NameCopy, SetNameLock, SetNameStore
<1>3. ASSUME Begin(t) PROVE Goal
  BY <1>3 DEF Begin, LockBegin, TryBegin, Unlock, RequestReset, GetDetails, SetName,
     SetInterestingEvents, SetAssumeFreeUncontendedLocks
<1>4. QED
  BY <1>1, <1>2, <1>3 DEF InCall

LEMMA AccountantOwn ==
  ASSUME TypeOK, FrameInv, OneAccountant, NEW t \in Threads, InCall(t) \/ Begin(t), InAccounts(t)'
  PROVE  owner' = t
<1> USE DEF TypeOK, Left, Keeps, InAccounts, LockTaken, OneAccountant
<1>1. ASSUME Return(t) PROVE FALSE
  BY <1>1 DEF Return, Goto
<1>2. ASSUME InLock(t) PROVE owner' = t
  <2>1. CASE LockFastTake(t) \/ LockSlowTake(t)
    BY <2>1 DEF LockFastTake, LockSlowTake, Acquire
  <2>2. CASE LockFastMiss(t)
    BY <2>2 DEF LockFastMiss, Step, Goto
  <2>3. CASE LockExchange(t)
    BY <2>3 DEF LockExchange, ResetExchange
  <2>4. CASE LockEver(t) \/ LockTicks(t)
    BY <2>4 DEF LockEver, LockTicks, Step
  <2>5. CASE LockReport(t)
    BY <1>1, <2>5 DEF LockReport
  <2>6. QED
    BY <1>2, <2>1, <2>2, <2>3, <2>4, <2>5 DEF InLock
<1>3. ASSUME InTryLock(t) PROVE owner' = t
  <2>1. CASE TryTake(t)
    BY <2>1 DEF TryTake, Acquire
  <2>2. CASE TryMiss(t)
    <3>1. frame'[t].todo = {} /\ pc'[t] = "try_add"
      BY <2>2 DEF TryMiss, Step, Goto, FrameInv, FrameOK, AddPcs
    <3>2. QED
      BY <3>1
  <2>3. CASE TryCount(t)
    BY <2>3 DEF TryCount, Step, Goto
  <2>4. CASE TryExchange(t)
    <3>1. pc'[t] = "idle" \/ (pc'[t] = "clear" /\ frame'[t].ret = "idle")
      BY <2>4, ResetEffects DEF TryExchange
    <3>2. QED
      BY <3>1
  <2>5. QED
    BY <1>3, <2>1, <2>2, <2>3, <2>4 DEF InTryLock
<1>4. ASSUME InStats(t) PROVE owner' = t
  <2>1. CASE AddRead(t) \/ AddWrite(t) \/ ClearField(t)
    <3>1. UNCHANGED owner /\ pc'[t] = pc[t] /\ frame'[t].ret = frame[t].ret
      BY <2>1, Effects DEF AddRead, AddWrite, ClearField
    <3>2. frame'[t].todo # {} => frame[t].todo # {}
      BY <2>1, Effects
    <3>3. QED
      BY <3>1, <3>2
  <2>2. CASE RequestDone(t)
    BY <1>1, <2>2 DEF RequestDone
  <2>3. CASE ResetDone(t)
    BY <1>1, <2>3 DEF ResetDone, ClearDone
  <2>4. QED
    BY <1>4, <2>1, <2>2, <2>3 DEF InStats
<1>5. ASSUME InDetails(t) PROVE FALSE
  <2>1. CASE NameCopy(t) \/ SetNameStore(t)
    BY <1>1, <2>1 DEF NameCopy, SetNameStore
  <2>2. CASE ~NameCopy(t) /\ ~SetNameStore(t)
    BY <1>5, <2>2 DEF InDetails, CopyField, LoadTryLocks, LoadEverLocked, NameLockShared,
       SetNameLock, Step, Goto
  <2>3. QED
    BY <2>1, <2>2
<1>6. ASSUME Begin(t) PROVE FALSE
  <2>1. CASE RequestReset(t)
    BY <2>1, Effects
  <2>2. CASE ~RequestReset(t)
    BY <1>6, <2>2 DEF Begin, LockBegin, TryBegin, Unlock, GetDetails, SetName, SetInterestingEvents,
       SetAssumeFreeUncontendedLocks, Call, Step, Goto
  <2>3. QED
    BY <2>1, <2>2
<1>7. QED
  BY <1>2, <1>3, <1>4, <1>5, <1>6 DEF InCall

LEMMA AccountantNext ==
  ASSUME TypeOK, FrameInv, OneAccountant, [Next]_vars
  PROVE  OneAccountant'
<1>1. ASSUME NEW t \in Threads, InCall(t) \/ Begin(t) PROVE OneAccountant'
  <2>1. InAccounts(t)' => owner' = t
    BY <1>1, AccountantOwn
  <2>2. ASSUME NEW u \in Threads \ {t}, InAccounts(u)' PROVE owner' = u
    <3>1. InAccounts(u)
      BY <1>1, <2>2, OthersStay DEF InAccounts, LockTaken
    <3>2. owner = u
      BY <3>1 DEF OneAccountant
    <3>3. QED
      BY <1>1, <3>2, OwnerStep, NoOwnerAssumption
  <2>3. QED
    BY <2>1, <2>2 DEF OneAccountant
<1>2. CASE UNCHANGED vars
  BY <1>2 DEF vars, OneAccountant, InAccounts, LockTaken
<1>3. QED
  BY <1>1, <1>2 DEF Next, Finished

-----------------------------------------------------------------------------
(***************************************************************************)
(* The steps of t that leave the counters and what they are due alone:     *)
(* they begin no update and leave none half done, and a reset that begins  *)
(* has every counter still to clear.                                       *)
(***************************************************************************)
Writing(t) ==
  \/ LockFastTake(t) \/ LockSlowTake(t) \/ TryTake(t) \/ AddRead(t) \/ AddWrite(t)
  \/ ClearField(t) \/ RequestDone(t) \/ ResetDone(t)

Quiet(t) ==
  /\ UNCHANGED <<stats, due>>
  /\ pc'[t] \in AddPcs => frame'[t].todo = {} /\ frame'[t].field = NoField
  /\ pc[t] \in AddPcs => frame[t].todo = {}
  /\ pc'[t] = "clear" => Counters \subseteq frame'[t].todo

LEMMA QuietStep ==
  ASSUME TypeOK, FrameInv, NEW t \in Threads, InCall(t) \/ Begin(t), ~Writing(t)
  PROVE  Quiet(t)
<1> USE DEF TypeOK, Quiet, AddPcs
<1>1. ASSUME NEW r \in {"idle", "lock_ever"}, ResetExchange(t, r), frame[t].todo = {} PROVE Quiet(t)
  <2>1. UNCHANGED <<stats, due>>
    BY <1>1 DEF ResetExchange, history
  <2>2. \/ pc'[t] = "clear" /\ frame'[t].todo = ResetCells
        \/ pc'[t] \in {"idle", "lock_ever"}
    BY <1>1, ResetEffects DEF Left
  <2>3. QED
    BY <1>1, <2>1, <2>2 DEF ResetCells, Cells
<1>2. FrameOK(t)
  BY DEF FrameInv
<1>3. ASSUME InLock(t) PROVE Quiet(t)
  <2>1. CASE LockExchange(t)
    BY <1>1, <2>1 DEF LockExchange
  <2>2. CASE ~LockExchange(t)
    BY <1>3, <2>2 DEF Writing, InLock, LockFastMiss, LockEver, LockTicks, LockReport, Return, Step,
       Goto, history
  <2>3. QED
    BY <2>1, <2>2
<1>4. ASSUME InTryLock(t) PROVE Quiet(t)
  <2>1. CASE TryExchange(t)
    BY <1>1, <1>2, <2>1 DEF TryExchange, FrameOK
  <2>2. CASE ~TryExchange(t)
    BY <1>2, <1>4, <2>2 DEF Writing, InTryLock, TryMiss, TryCount, FrameOK, Step, Goto, history
  <2>3. QED
    BY <2>1, <2>2
<1>5. ~InStats(t)
  BY DEF Writing, InStats
<1>6. ASSUME InDetails(t) PROVE Quiet(t)
  BY <1>6 DEF InDetails, CopyField, LoadTryLocks, LoadEverLocked, NameLockShared, NameCopy,
     SetNameLock, SetNameStore, Return, Step, Goto, history
<1>7. ASSUME Begin(t) PROVE Quiet(t)
  <2>1. CASE RequestReset(t)
    <3>1. frame'[t].todo = ResetCells /\ pc'[t] = "clear" /\ pc[t] = "idle"
      BY <2>1, Effects DEF Left
    <3>2. QED
      BY <2>1, <3>1 DEF RequestReset, ResetCells, Cells
  <2>2. CASE ~RequestReset(t)
    BY <1>7, <2>2 DEF Begin, LockBegin, TryBegin, Unlock, GetDetails, SetName,
       SetInterestingEvents, SetAssumeFreeUncontendedLocks, Call, Step, Goto, history
  <2>3. QED
    BY <2>1, <2>2
<1>8. QED
  BY <1>3, <1>4, <1>5, <1>6, <1>7 DEF InCall

(***************************************************************************)
(* Two threads never have counters to update at the same time.             *)
(***************************************************************************)
LEMMA LoneAccountant ==
  ASSUME TypeOK, FrameInv, OneAccountant, NEW u \in Threads, pc[u] \in AddPcs, owner # u
  PROVE  frame[u].todo = {} /\ frame[u].field = NoField
BY DEF OneAccountant, InAccounts, LockTaken, FrameInv, FrameOK, AddPcs

(***************************************************************************)
(* An acquisition makes its counters due and pending.                      *)
(***************************************************************************)
LEMMA TakeEffects ==
  ASSUME TypeOK, FrameInv, NEW t \in Threads, LockFastTake(t) \/ LockSlowTake(t) \/ TryTake(t)
  PROVE  /\ owner = NoOwner
         /\ UNCHANGED stats
         /\ pc[t] \notin AddPcs
         /\ pc'[t] \in AddPcs
         /\ frame'[t].field = NoField
         /\ \A f \in Counters : due'[f] = IF f \in frame'[t].todo THEN due[f] + 1 ELSE due[f]
<1>1. FrameOK(t)
  BY DEF FrameInv
<1>2. PICK fs \in SUBSET Counters : Accrue(fs) /\ Keeps(t, fs)
  <2>1. CASE LockFastTake(t)
    BY <2>1, Effects DEF LockFastTake, Counters
  <2>2. CASE LockSlowTake(t)
    BY <2>2, Effects DEF LockSlowTake, ContendedCounts, Counters
  <2>3. CASE TryTake(t)
    BY <2>3, Effects DEF TryTake, Counters
  <2>4. QED
    BY <2>1, <2>2, <2>3
<1>3. owner = NoOwner /\ UNCHANGED stats
  BY DEF LockFastTake, LockSlowTake, TryTake, Acquire
<1>4. pc[t] \in {"lock_fast", "lock_wait", "try_acquire"} /\ pc'[t] \in AddPcs
  BY Effects DEF AddPcs
<1>5. \A f \in Counters : due'[f] = IF f \in fs THEN due[f] + 1 ELSE due[f]
  BY <1>2 DEF Accrue
<1>6. frame'[t].field = NoField /\ frame'[t].todo = fs
  BY <1>1, <1>2, <1>4 DEF Keeps, Left, FrameOK, AddPcs
<1>7. QED
  BY <1>3, <1>4, <1>5, <1>6 DEF AddPcs

LEMMA TakeCounts ==
  ASSUME TypeOK, FrameInv, OneAccountant, CountInv, NEW t \in Threads,
         LockFastTake(t) \/ LockSlowTake(t) \/ TryTake(t)
  PROVE  CountInv'
<1>1. InCall(t)
  BY DEF InCall, InLock, InTryLock
<1>2. /\ stats \in [Counters -> Nat] /\ due \in [Counters -> Nat]
      /\ FrameOK(t) /\ FrameOK(t)'
  BY <1>1, FrameOwn DEF TypeOK, FrameInv
<1>3. \A f \in Counters : due[f] <= due'[f] /\ stats[f] <= due[f] /\ due[f] \in Nat /\ stats[f] \in Nat
  BY <1>2, TakeEffects DEF CountInv, NeverOverCounted
<1>4. NeverOverCounted'
  BY <1>2, <1>3, TakeEffects, CountTypes DEF NeverOverCounted
<1>5. PendingOK(t)'
  BY <1>2, <1>3, TakeEffects DEF PendingOK, FrameOK
<1>6. ASSUME NEW u \in Threads \ {t} PROVE PendingOK(u)' /\ ClearOK(u)'
  <2>1. owner # u
    BY TakeEffects, NoOwnerAssumption
  <2>2. pc'[u] \in AddPcs => frame'[u].todo = {} /\ frame'[u].field = NoField
    BY <1>1, <2>1, OthersStay, LoneAccountant
  <2>3. owner' # u
    BY <1>1, <2>1, OwnerStep, NoOwnerAssumption
  <2>4. QED
    BY <2>2, <2>3 DEF PendingOK, ClearOK
<1>7. ClearOK(t)'
  BY TakeEffects DEF ClearOK, AddPcs
<1>8. QED
  BY <1>4, <1>5, <1>6, <1>7 DEF CountInv, PendingInv, ClearInv

LEMMA QuietCounts ==
  ASSUME TypeOK, FrameInv, OneAccountant, CountInv, NEW t \in Threads,
         InCall(t) \/ Begin(t), ~Writing(t)
  PROVE  CountInv'
<1>1. Quiet(t)
  BY QuietStep
<1>2. NeverOverCounted'
  BY <1>1 DEF CountInv, NeverOverCounted, Quiet
<1>3. PendingOK(t)' /\ ClearOK(t)'
  BY <1>1 DEF PendingOK, ClearOK, Quiet
<1>4. ASSUME NEW u \in Threads \ {t} PROVE PendingOK(u)' /\ ClearOK(u)'
  <2>1. pc'[u] = pc[u] /\ frame'[u] = frame[u] /\ (owner' = u => owner = u)
    BY OthersStay, OwnerStep, NoOwnerAssumption
  <2>2. PendingOK(u) /\ ClearOK(u)
    BY DEF CountInv, PendingInv, ClearInv
  <2>3. QED
    BY <1>1, <2>1, <2>2 DEF PendingOK, ClearOK, Quiet
<1>5. QED
  BY <1>2, <1>3, <1>4 DEF CountInv, PendingInv, ClearInv

LEMMA AddReadCounts ==
  ASSUME TypeOK, FrameInv, OneAccountant, CountInv, NEW t \in Threads, AddRead(t)
  PROVE  CountInv'
<1>1. InCall(t) /\ UNCHANGED <<stats, due, owner>>
  BY DEF InCall, InStats, AddRead, history
<1>2. NeverOverCounted'
  BY <1>1 DEF CountInv, NeverOverCounted
<1>3. PendingOK(t)' /\ ClearOK(t)'
  <2>1. pc'[t] = pc[t] /\ pc[t] \in AddPcs /\ pc[t] # "clear"
    BY Effects DEF AddRead, AddPcs
  <2>2. PICK f \in frame[t].todo : Left(t, frame[t].todo, f, stats[f], frame[t].ret)
    BY Effects
  <2>3. PendingOK(t)
    BY DEF CountInv, PendingInv
  <2>4. QED
    BY <1>1, <2>1, <2>2, <2>3 DEF PendingOK, ClearOK, Left
<1>4. ASSUME NEW u \in Threads \ {t} PROVE PendingOK(u)' /\ ClearOK(u)'
  BY <1>1, OthersStay DEF PendingOK, ClearOK, CountInv, PendingInv, ClearInv
<1>5. QED
  BY <1>2, <1>3, <1>4 DEF CountInv, PendingInv, ClearInv

LEMMA AddWriteCounts ==
  ASSUME TypeOK, FrameInv, OneAccountant, CountInv, NEW t \in Threads, AddWrite(t)
  PROVE  CountInv'
<1> DEFINE f == frame[t].field
<1>1. InCall(t) /\ UNCHANGED <<due, owner>>
  BY DEF InCall, InStats, AddWrite, history
<1>2. /\ pc[t] \in AddPcs /\ f \in frame[t].todo /\ f \in Counters /\ f # NoField
      /\ owner = t /\ frame[t].reg \in Nat
  BY DEF AddWrite, FrameInv, FrameOK, OneAccountant, InAccounts, LockTaken, AddPcs, TypeOK, FrameType
<1>3. /\ stats' = [stats EXCEPT ![f] = frame[t].reg + 1]
      /\ stats \in [Counters -> Nat] /\ due \in [Counters -> Nat]
  BY DEF AddWrite, TypeOK
<1>4. frame[t].reg + 1 <= due[f]
  BY <1>2 DEF CountInv, PendingInv, PendingOK
<1>5. NeverOverCounted'
  BY <1>1, <1>2, <1>3, <1>4 DEF CountInv, NeverOverCounted
<1>6. PendingOK(t)' /\ ClearOK(t)'
  <2>1. pc'[t] = pc[t] /\ Left(t, frame[t].todo \ {f}, NoField, frame[t].reg, frame[t].ret)
    BY Effects
  <2>2. PendingOK(t) /\ frame[t].todo \subseteq Counters
    BY <1>2 DEF CountInv, PendingInv, FrameInv, FrameOK
  <2>3. \A g \in frame[t].todo \ {f} : stats'[g] + 1 <= due[g]
    BY <1>2, <1>3, <2>2 DEF PendingOK
  <2>4. pc'[t] # "clear" /\ frame'[t].todo = frame[t].todo \ {f} /\ frame'[t].field = NoField
    BY <1>2, <2>1 DEF AddPcs, Left
  <2>5. QED
    BY <1>1, <2>3, <2>4 DEF PendingOK, ClearOK
<1>7. ASSUME NEW u \in Threads \ {t} PROVE PendingOK(u)' /\ ClearOK(u)'
  <2>1. owner # u
    BY <1>2
  <2>2. pc'[u] \in AddPcs => frame'[u].todo = {} /\ frame'[u].field = NoField
    BY <1>1, <2>1, OthersStay, LoneAccountant
  <2>3. QED
    BY <1>1, <2>1, <2>2 DEF PendingOK, ClearOK
<1>8. QED
  BY <1>5, <1>6, <1>7 DEF CountInv, PendingInv, ClearInv

LEMMA ClearFieldCounts ==
  ASSUME TypeOK, FrameInv, OneAccountant, CountInv, NEW t \in Threads, ClearField(t)
  PROVE  CountInv'
<1>1. InCall(t) /\ UNCHANGED <<due, owner, pc>> /\ pc[t] = "clear"
  BY DEF InCall, InStats, ClearField, history
<1>2. PICK c \in frame[t].todo : /\ stats' = [f \in Counters |-> IF f = c THEN 0 ELSE stats[f]]
                                 /\ Local(t, [frame[t] EXCEPT !.todo = @ \ {c}])
  BY DEF ClearField
<1>3. stats \in [Counters -> Nat] /\ due \in [Counters -> Nat]
  BY DEF TypeOK
<1>4. \A f \in Counters : stats'[f] <= stats[f] /\ stats'[f] \in Nat /\ (stats[f] = 0 \/ f = c => stats'[f] = 0)
  BY <1>2, <1>3
<1>5. NeverOverCounted'
  BY <1>1, <1>3, <1>4 DEF CountInv, NeverOverCounted
<1>6. ASSUME NEW u \in Threads PROVE PendingOK(u)'
  <2>1. CASE pc[u] \in AddPcs
    <3>1. frame'[u] = frame[u] /\ PendingOK(u) /\ frame[u].todo \subseteq Counters
      BY <1>1, <2>1, OthersStay DEF CountInv, PendingInv, FrameInv, FrameOK, AddPcs
    <3>2. QED
      BY <1>1, <1>3, <1>4, <2>1, <3>1 DEF PendingOK
  <2>2. CASE pc[u] \notin AddPcs
    BY <1>1, <2>2 DEF PendingOK
  <2>3. QED
    BY <2>1, <2>2
<1>7. ClearOK(t)'
  <2>1. frame'[t].todo = frame[t].todo \ {c}
    BY <1>2, LocalEffects DEF Keeps, Left
  <2>2. ClearOK(t)
    BY DEF CountInv, ClearInv
  <2>3. QED
    BY <1>1, <1>4, <2>1, <2>2 DEF ClearOK
<1>8. ASSUME NEW u \in Threads \ {t} PROVE ClearOK(u)'
  BY <1>1, <1>4, OthersStay DEF ClearOK, CountInv, ClearInv
<1>9. QED
  BY <1>5, <1>6, <1>7, <1>8 DEF CountInv, PendingInv, ClearInv

LEMMA ClearDoneCounts ==
  ASSUME TypeOK, FrameInv, OneAccountant, CountInv, NEW t \in Threads, RequestDone(t) \/ ResetDone(t)
  PROVE  CountInv'
<1>1. /\ InCall(t) /\ UNCHANGED <<stats, owner>> /\ pc[t] = "clear" /\ frame[t].todo = {}
      /\ due' = IF owner = t THEN NoCounts ELSE due
  BY DEF InCall, InStats, RequestDone, ResetDone, ClearDone
<1>2. pc'[t] \in {"idle", "lock_ever"}
  BY DEF RequestDone, ResetDone, Return, Goto, TypeOK
<1>3. stats \in [Counters -> Nat] /\ due \in [Counters -> Nat]
  BY DEF TypeOK
<1>4. owner = t => \A f \in Counters : stats[f] = 0 /\ due'[f] = 0
  BY <1>1 DEF CountInv, ClearInv, ClearOK, NoCounts
<1>5. NeverOverCounted'
  BY <1>1, <1>3, <1>4 DEF CountInv, NeverOverCounted
<1>6. PendingOK(t)' /\ ClearOK(t)'
  BY <1>2 DEF PendingOK, ClearOK, AddPcs
<1>7. ASSUME NEW u \in Threads \ {t} PROVE PendingOK(u)' /\ ClearOK(u)'
  <2>1. ClearOK(u)'
    BY <1>1, OthersStay DEF ClearOK, CountInv, ClearInv
  <2>2. CASE owner = t
    BY <1>1, <2>1, <2>2, OthersStay, LoneAccountant DEF PendingOK
  <2>3. CASE owner # t
    BY <1>1, <2>1, <2>3, OthersStay DEF PendingOK, CountInv, PendingInv
  <2>4. QED
    BY <2>2, <2>3
<1>8. QED
  BY <1>5, <1>6, <1>7 DEF CountInv, PendingInv, ClearInv

LEMMA CountNext ==
  ASSUME TypeOK, FrameInv, OneAccountant, CountInv, [Next]_vars
  PROVE  CountInv'
<1>1. ASSUME NEW t \in Threads, InCall(t) \/ Begin(t) PROVE CountInv'
  BY <1>1, TakeCounts, QuietCounts, AddReadCounts, AddWriteCounts, ClearFieldCounts, ClearDoneCounts
     DEF Writing
<1>2. CASE UNCHANGED vars
  BY <1>2 DEF vars, history, CountInv, PendingInv, PendingOK, NeverOverCounted, ClearInv, ClearOK
<1>3. QED
  BY <1>1, <1>2 DEF Next, Finished

-----------------------------------------------------------------------------
(***************************************************************************)
(* Until the first request, no count is lost.                              *)
(***************************************************************************)
LEMMA RequestStep ==
  ASSUME TypeOK, ExactInv, NEW t \in Threads, InCall(t) \/ Begin(t), ~requested'
  PROVE  ~requested /\ ~reset /\ ~reset' /\ pc[t] # "clear" /\ pc'[t] # "clear"
<1>1. ~RequestReset(t)
  BY DEF RequestReset
<1>2. requested' = requested
  <2>1. CASE InLock(t)
    BY <2>1 DEF InLock, LockFastTake, LockFastMiss, LockSlowTake, LockExchange, LockEver, LockTicks,
       LockReport, ResetExchange, history
  <2>2. CASE InTryLock(t)
    BY <2>2 DEF InTryLock, TryTake, TryMiss, TryCount, TryExchange, ResetExchange, history
  <2>3. CASE InStats(t)
    BY <2>3 DEF InStats, AddRead, AddWrite, ClearField, RequestDone, ResetDone, ClearDone, history
  <2>4. CASE InDetails(t)
    BY <2>4 DEF InDetails, CopyField, LoadTryLocks, LoadEverLocked, NameLockShared, NameCopy,
       SetNameLock, SetNameStore, history
  <2>5. CASE Begin(t)
    BY <1>1, <2>5 DEF Begin, LockBegin, TryBegin, Unlock, GetDetails, SetName,
       SetInterestingEvents, SetAssumeFreeUncontendedLocks, history
  <2>6. QED
    BY <2>1, <2>2, <2>3, <2>4, <2>5 DEF InCall
<1>3. ~requested /\ ~reset /\ pc[t] # "clear"
  BY <1>2 DEF ExactInv, ExactOK
<1>4. ~LockExchange(t) /\ ~TryExchange(t) => reset' = reset
  <2>1. ~RequestDone(t) /\ ~ResetDone(t) /\ ~ClearField(t)
    BY <1>3 DEF RequestDone, ResetDone, ClearDone, ClearField
  <2>2. InLock(t) \/ InTryLock(t) => LockExchange(t) \/ TryExchange(t) \/ reset' = reset
    BY DEF InLock, LockFastTake, LockFastMiss, LockSlowTake, LockEver, LockTicks, LockReport,
       InTryLock, TryTake, TryMiss, TryCount
  <2>3. InStats(t) \/ InDetails(t) => reset' = reset
    BY <2>1 DEF InStats, AddRead, AddWrite, InDetails, CopyField, LoadTryLocks, LoadEverLocked,
       NameLockShared, NameCopy, SetNameLock, SetNameStore
  <2>4. Begin(t) => reset' = reset
    BY <1>1 DEF Begin, LockBegin, TryBegin, Unlock, GetDetails, SetName,
       SetInterestingEvents, SetAssumeFreeUncontendedLocks
  <2>5. QED
    BY <2>2, <2>3, <2>4 DEF InCall
<1>5. ~reset'
  BY <1>3, <1>4 DEF LockExchange, TryExchange, ResetExchange
<1>6. pc'[t] # "clear"
  <2>1. CASE LockExchange(t) \/ TryExchange(t)
    BY <1>3, <2>1, ResetEffects DEF LockExchange, TryExchange
  <2>2. CASE InLock(t) /\ ~LockExchange(t)
    BY <2>2 DEF InLock, LockFastTake, LockFastMiss, LockSlowTake, LockEver, LockTicks, LockReport,
       Return, Step, Goto, TypeOK
  <2>3. CASE InTryLock(t) /\ ~TryExchange(t)
    BY <2>3 DEF InTryLock, TryTake, TryMiss, TryCount, Step, Goto, TypeOK
  <2>4. CASE InStats(t)
    BY <1>3, <2>4 DEF InStats, AddRead, AddWrite, ClearField, RequestDone, ResetDone, ClearDone
  <2>5. CASE InDetails(t)
    BY <1>3, <2>5 DEF InDetails, CopyField, LoadTryLocks, LoadEverLocked, NameLockShared, NameCopy,
       SetNameLock, SetNameStore, Return, Step, Goto, TypeOK
  <2>6. CASE Begin(t)
    BY <1>1, <1>3, <2>6 DEF Begin, LockBegin, TryBegin, Unlock, GetDetails, SetName,
       SetInterestingEvents, SetAssumeFreeUncontendedLocks, Call, Step, Goto, TypeOK
  <2>7. QED
    BY <2>1, <2>2, <2>3, <2>4, <2>5, <2>6 DEF InCall
<1>7. QED
  BY <1>3, <1>5, <1>6

LEMMA ExactNext ==
  ASSUME TypeOK, FrameInv, OneAccountant, CountInv, ExactInv, [Next]_vars
  PROVE  ExactInv'
<1>1. ASSUME NEW t \in Threads, InCall(t) \/ Begin(t), ~requested'
      PROVE  (\A u \in Threads : ExactOK(u)') /\ (\A f \in Counters : CountOK(f)')
  <2>1. /\ ~requested /\ pc[t] # "clear" /\ pc'[t] # "clear"
        /\ \A u \in Threads : ExactOK(u)
        /\ \A f \in Counters : CountOK(f)
    BY <1>1, RequestStep DEF ExactInv
  <2>2. stats \in [Counters -> Nat] /\ due \in [Counters -> Nat] /\ FrameOK(t)
    BY DEF TypeOK, FrameInv
  <2>3. ~ClearField(t) /\ ~RequestDone(t) /\ ~ResetDone(t)
    BY <2>1 DEF ClearField, RequestDone, ResetDone, ClearDone
  <2>4. ASSUME NEW u \in Threads \ {t}
        PROVE  /\ pc'[u] = pc[u] /\ frame'[u] = frame[u]
               /\ \A f \in Counters : Pending(f, u) => Pending(f, u)'
    BY <1>1, OthersStay DEF Pending
  <2>5. CASE ~Writing(t)
    <3>1. Quiet(t)
      BY <1>1, <2>5, QuietStep
    <3>2. \A u \in Threads : ExactOK(u)'
      BY <2>1, <2>4, <3>1 DEF ExactOK, Quiet
    <3>3. ~\E f \in Counters : Pending(f, t)
      BY <3>1 DEF Quiet, Pending
    <3>4. QED
      BY <2>1, <2>4, <3>1, <3>2, <3>3 DEF CountOK, Quiet
  <2>6. CASE LockFastTake(t) \/ LockSlowTake(t) \/ TryTake(t)
    <3>1. \A u \in Threads : ExactOK(u)'
      BY <2>1, <2>4, <2>6, TakeEffects DEF ExactOK
    <3>2. ASSUME NEW f \in Counters PROVE stats[f] = due[f]
      BY <2>1, <2>6, TakeEffects, LoneAccountant, NoOwnerAssumption DEF CountOK, Pending
    <3>3. ASSUME NEW f \in Counters PROVE CountOK(f)'
      BY <2>2, <2>6, <3>2, TakeEffects DEF CountOK, Pending
    <3>4. QED
      BY <3>1, <3>3
  <2>7. CASE AddRead(t)
    <3>1. PICK f \in frame[t].todo : Left(t, frame[t].todo, f, stats[f], frame[t].ret)
      BY <2>7, Effects
    <3>2. UNCHANGED <<stats, due>> /\ pc'[t] = pc[t]
      BY <2>7, Effects DEF AddRead, history
    <3>3. \A u \in Threads : ExactOK(u)'
      BY <2>1, <2>4, <3>1, <3>2 DEF ExactOK, Left
    <3>4. \A g \in Counters : Pending(g, t) => Pending(g, t)'
      BY <3>1, <3>2 DEF Pending, Left
    <3>5. QED
      BY <2>1, <2>4, <3>2, <3>3, <3>4 DEF CountOK
  <2>8. CASE AddWrite(t)
    <3>0. PICK f : f = frame[t].field
      OBVIOUS
    <3>1. /\ pc[t] \in AddPcs /\ f \in frame[t].todo /\ f \in Counters /\ f # NoField /\ owner = t
      BY <2>2, <2>8, <3>0 DEF AddWrite, FrameOK, OneAccountant, InAccounts, LockTaken, AddPcs
    <3>2. /\ pc'[t] = pc[t] /\ UNCHANGED due
          /\ Left(t, frame[t].todo \ {f}, NoField, frame[t].reg, frame[t].ret)
          /\ stats' = [stats EXCEPT ![f] = frame[t].reg + 1]
      BY <2>8, <3>0, Effects DEF AddWrite, history
    <3>3. frame[t].reg = stats[f] /\ stats[f] + 1 <= due[f]
      BY <2>1, <3>0, <3>1 DEF ExactOK, CountInv, PendingInv, PendingOK
    <3>4. stats'[f] = due[f] /\ \A g \in Counters \ {f} : stats'[g] = stats[g]
      BY <2>1, <2>2, <3>1, <3>2, <3>3 DEF CountOK
    <3>5. ExactOK(t)'
      BY <2>1, <3>2 DEF ExactOK, Left
    <3>6. ASSUME NEW u \in Threads \ {t} PROVE ExactOK(u)'
      <4>1. pc[u] \in AddPcs => frame[u].field = NoField
        BY <3>1, LoneAccountant
      <4>2. QED
        BY <2>1, <2>4, <4>1 DEF ExactOK
    <3>7. \A g \in Counters \ {f} : Pending(g, t) => Pending(g, t)'
      BY <3>2 DEF Pending, Left
    <3>8. \A g \in Counters \ {f} : CountOK(g)'
      BY <2>1, <2>4, <3>2, <3>4, <3>7 DEF CountOK
    <3>9. CountOK(f)'
      BY <3>1, <3>2, <3>4 DEF CountOK
    <3>10. QED
      BY <3>1, <3>5, <3>6, <3>8, <3>9
  <2>9. QED
    BY <2>3, <2>5, <2>6, <2>7, <2>8 DEF Writing
<1>2. ASSUME NEW t \in Threads, InCall(t) \/ Begin(t) PROVE ExactInv'
  BY <1>1, <1>2, RequestStep DEF ExactInv
<1>3. CASE UNCHANGED vars
  BY <1>3 DEF vars, history, ExactInv, ExactOK, CountOK, Pending
<1>4. QED
  BY <1>2, <1>3 DEF Next, Finished

-----------------------------------------------------------------------------
(***************************************************************************)
(* What is counted as a lock shows in ever_locked.                         *)
(***************************************************************************)
LEMMA EverStep ==
  ASSUME TypeOK, FrameInv, NEW t \in Threads, InCall(t) \/ Begin(t)
  PROVE  /\ ever_locked => ever_locked'
         /\ EverDue(t) => EverDue(t)' \/ ever_locked'
<1> USE DEF TypeOK, EverDue
<1>1. ASSUME NEW r \in {"idle", "lock_ever"}, ResetExchange(t, r), pc[t] = "lock_add" => r = "lock_ever",
             pc[t] \in {"lock_add", "try_exchange"}
      PROVE  UNCHANGED ever_locked /\ (EverDue(t) => EverDue(t)')
  BY <1>1, ResetEffects DEF ResetExchange, Left
<1>2. ASSUME InLock(t)
      PROVE  (ever_locked => ever_locked') /\ (EverDue(t) => EverDue(t)' \/ ever_locked')
  BY <1>1, <1>2 DEF InLock, LockFastTake, LockFastMiss, LockSlowTake, LockExchange, LockEver,
     LockTicks, LockReport, Step
<1>3. ASSUME InTryLock(t)
      PROVE  (ever_locked => ever_locked') /\ (EverDue(t) => EverDue(t)' \/ ever_locked')
  BY <1>1, <1>3 DEF InTryLock, TryTake, TryMiss, TryCount, TryExchange, Step
<1>4. ASSUME InStats(t)
      PROVE  (ever_locked => ever_locked') /\ (EverDue(t) => EverDue(t)' \/ ever_locked')
  <2>1. CASE AddRead(t) \/ AddWrite(t) \/ ClearField(t)
    BY <2>1, Effects DEF AddRead, AddWrite, ClearField, Left, Keeps
  <2>2. CASE RequestDone(t) \/ ResetDone(t)
    BY <2>2 DEF RequestDone, ResetDone, ClearDone, Goto
  <2>3. QED
    BY <1>4, <2>1, <2>2 DEF InStats
<1>5. ASSUME InDetails(t) PROVE UNCHANGED ever_locked /\ ~EverDue(t)
  BY <1>5 DEF InDetails, CopyField, LoadTryLocks, LoadEverLocked, NameLockShared, NameCopy,
     SetNameLock, SetNameStore, Step
<1>6. ASSUME Begin(t) PROVE UNCHANGED ever_locked /\ ~EverDue(t)
  BY <1>6 DEF Begin, LockBegin, TryBegin, Unlock, RequestReset, GetDetails, SetName,
     SetInterestingEvents, SetAssumeFreeUncontendedLocks, Call, Step
<1>7. QED
  BY <1>2, <1>3, <1>4, <1>5, <1>6 DEF InCall

LEMMA LockCountStep ==
  ASSUME TypeOK, FrameInv, NEW t \in Threads, InCall(t) \/ Begin(t), stats'["num_locks"] > 0
  PROVE  stats["num_locks"] > 0 \/ EverDue(t)'
<1>1. "num_locks" \in Counters /\ stats \in [Counters -> Nat]
  BY DEF Counters, TypeOK
<1>2. CASE AddWrite(t)
  <2>1. frame[t].field = "num_locks" => pc[t] = "lock_add"
    BY <1>2 DEF AddWrite, FrameInv, FrameOK, AddPcs, NoField
  <2>2. pc'[t] = pc[t] /\ stats' = [stats EXCEPT ![frame[t].field] = frame[t].reg + 1]
    BY <1>2 DEF AddWrite
  <2>3. frame[t].field # "num_locks" => stats'["num_locks"] = stats["num_locks"]
    BY <1>1, <2>2
  <2>4. QED
    BY <2>1, <2>2, <2>3 DEF EverDue
<1>3. CASE ClearField(t)
  <2>1. PICK c : stats' = [f \in Counters |-> IF f = c THEN 0 ELSE stats[f]]
    BY <1>3 DEF ClearField
  <2>2. QED
    BY <1>1, <2>1
<1>4. CASE LockFastTake(t) \/ LockSlowTake(t) \/ TryTake(t) \/ AddRead(t) \/ RequestDone(t) \/ ResetDone(t)
  BY <1>4 DEF LockFastTake, LockSlowTake, TryTake, AddRead, RequestDone, ResetDone, ClearDone
<1>5. CASE ~Writing(t)
  BY <1>5, QuietStep DEF Quiet
<1>6. QED
  BY <1>2, <1>3, <1>4, <1>5 DEF Writing

LEMMA EverNext ==
  ASSUME TypeOK, FrameInv, EverInv, [Next]_vars
  PROVE  EverInv'
<1>1. ASSUME NEW t \in Threads, InCall(t) \/ Begin(t), stats'["num_locks"] > 0
      PROVE  ever_locked' \/ \E u \in Threads : EverDue(u)'
  <2>1. ASSUME NEW u \in Threads \ {t}, EverDue(u) PROVE EverDue(u)'
    BY <1>1, <2>1, OthersStay DEF EverDue
  <2>2. QED
    BY <1>1, <2>1, EverStep, LockCountStep DEF EverInv
<1>2. CASE UNCHANGED vars
  BY <1>2 DEF vars, EverInv, EverDue
<1>3. QED
  BY <1>1, <1>2 DEF Next, Finished, EverInv

-----------------------------------------------------------------------------
(***************************************************************************)
(* The theorems.                                                           *)
(***************************************************************************)
LEMMA InvInit == Init => Inv
<1> SUFFICES ASSUME Init PROVE Inv
    OBVIOUS
<1>1. \A t \in Threads : pc[t] = "idle" /\ frame[t] = EmptyFrame
  BY DEF Init
<1>2. FrameInv /\ OneAccountant
  BY <1>1 DEF FrameInv, FrameOK, AddPcs, EmptyFrame, OneAccountant, InAccounts, LockTaken
<1>3. CountInv
  BY <1>1 DEF Init, CountInv, PendingInv, PendingOK, ClearInv, ClearOK, NeverOverCounted, AddPcs, NoCounts
<1>4. ExactInv
  BY <1>1 DEF Init, ExactInv, ExactOK, CountOK, AddPcs
<1>5. EverInv
  BY DEF Init, EverInv, NoCounts, Counters
<1>6. QED
  BY <1>2, <1>3, <1>4, <1>5, TypeInit DEF Inv

LEMMA InvNext == Inv /\ [Next]_vars => Inv'
BY TypeNext, FrameNext, AccountantNext, CountNext, ExactNext, EverNext DEF Inv

(* Inv is an invariant of the mutex.                                       *)
THEOREM Invariance == Spec => []Inv
BY InvInit, InvNext, PTL DEF Spec

(* Every variable has its type in every state of every execution.          *)
THEOREM TypeCorrect == Spec => []TypeOK
<1>1. Inv => TypeOK
  BY DEF Inv
<1>2. QED
  BY <1>1, Invariance, PTL

(* However calls of lock, try_lock, unlock and RequestReset interleave,    *)
(* the counters are only ever written by the thread that owns the mutex,   *)
(* except by the assignment of a reset.                                    *)
THEOREM Accounting == Spec => []OneAccountant
<1>1. Inv => OneAccountant
  BY DEF Inv
<1>2. QED
  BY <1>1, Invariance, PTL

(* No interleaving with resets makes a counter exceed the acquisitions     *)
(* since the last reset that a holder carried out.                         *)
THEOREM CountsBounded == Spec => []NeverOverCounted
<1>1. Inv => NeverOverCounted
  BY DEF Inv, CountInv
<1>2. QED
  BY <1>1, Invariance, PTL

(* Without resets the counters are exact whenever no update is under way.  *)
THEOREM CountsExact == Spec => []ExactCounts
<1>1. Inv => ExactCounts
  BY DEF Inv, ExactInv, CountOK, Pending, ExactCounts
<1>2. QED
  BY <1>1, Invariance, PTL

(* A mutex at rest with a lock counted says that it was once locked.       *)
THEOREM CountedLocksShow == Spec => []EverLockedCounts
<1>1. Inv => EverLockedCounts
  BY DEF Inv, EverInv, EverDue, EverLockedCounts, AtRest
<1>2. QED
  BY <1>1, Invariance, PTL

-----------------------------------------------------------------------------
(***************************************************************************)
(* The wait ticks, the snapshots of GetDetails, and what lock reports.     *)
(***************************************************************************)
(***************************************************************************)
(* A lock that has the mutex and is still to report a ContendedLock, or    *)
(* that goes to wait for it, knows that it was contended.                  *)
(***************************************************************************)
ReportOK(t) ==
  /\ pc[t] = "lock_wait" => frame[t].contended
  /\ LockTaken(t) /\ "ContendedLock" \in frame[t].events => frame[t].contended

ReportInv == \A t \in Threads : ReportOK(t)

(***************************************************************************)
(* Before the first request the ticks fit the locks that are due, but for  *)
(* the one whose wait is still to be added.                                *)
(***************************************************************************)
Fits(n) ==
  IF n = 0 THEN ticks = NoTicks
           ELSE n * ticks.min <= ticks.total /\ ticks.total <= n * ticks.max

Untimed(t) == pc[t] \in {"lock_add", "lock_ever", "lock_ticks"}

TicksInv ==
  ~requested =>
    LET n == due["num_locks"] IN
      IF \E t \in Threads : Untimed(t) THEN n > 0 /\ Fits(n - 1) ELSE Fits(n)

-----------------------------------------------------------------------------
(***************************************************************************)
(* What a step leaves of the locals that LockReport looks at.              *)
(***************************************************************************)
KeepsReport(t) ==
  /\ frame'[t].events = frame[t].events
  /\ frame'[t].contended = frame[t].contended
  /\ frame'[t].ret = frame[t].ret

LEMMA ReportEffects ==
  ASSUME TypeOK, NEW t \in Threads
  PROVE  /\ LockFastTake(t) => "ContendedLock" \notin frame'[t].events
         /\ LockFastMiss(t) => frame'[t].contended
         /\ LockSlowTake(t) => frame'[t].contended = frame[t].contended
         /\ AddRead(t) \/ AddWrite(t) \/ ClearField(t) => KeepsReport(t)
         /\ LockExchange(t) => frame'[t].contended = frame[t].contended /\ frame'[t].events = frame[t].events
<1>1. frame[t] \in FrameType
  BY DEF TypeOK
<1>2. ASSUME NEW fr, Local(t, fr) PROVE frame'[t] = fr
  BY <1>2 DEF Local, TypeOK
<1>3. ASSUME LockFastTake(t) PROVE "ContendedLock" \notin frame'[t].events
  <2>1. PICK w : Local(t, [frame[t] EXCEPT !.events = UncontendedEvents(@), !.todo = {"num_locks"}, !.wait = w])
    BY <1>3 DEF LockFastTake
  <2>2. frame'[t].events = UncontendedEvents(frame[t].events)
    BY <1>1, <1>2, <2>1 DEF FrameType
  <2>3. QED
    BY <2>2 DEF UncontendedEvents
<1>4. ASSUME LockFastMiss(t) PROVE frame'[t].contended
  BY <1>1, <1>2, <1>4 DEF LockFastMiss, FrameType
<1>5. ASSUME LockSlowTake(t) PROVE frame'[t].contended = frame[t].contended
  <2>1. PICK w : Local(t, [frame[t] EXCEPT !.todo = ContendedCounts, !.wait = w])
    BY <1>5 DEF LockSlowTake
  <2>2. QED
    BY <1>1, <1>2, <2>1 DEF FrameType
<1>6. ASSUME AddRead(t) PROVE KeepsReport(t)
  <2>1. PICK f : Local(t, [frame[t] EXCEPT !.field = f, !.reg = stats[f]])
    BY <1>6 DEF AddRead
  <2>2. QED
    BY <1>1, <1>2, <2>1 DEF FrameType, KeepsReport
<1>7. ASSUME AddWrite(t) PROVE KeepsReport(t)
  <2>1. Local(t, [frame[t] EXCEPT !.field = NoField, !.todo = @ \ {frame[t].field}])
    BY <1>7 DEF AddWrite
  <2>2. QED
    BY <1>1, <1>2, <2>1 DEF FrameType, KeepsReport
<1>8. ASSUME ClearField(t) PROVE KeepsReport(t)
  <2>1. PICK f : Local(t, [frame[t] EXCEPT !.todo = @ \ {f}])
    BY <1>8 DEF ClearField
  <2>2. QED
    BY <1>1, <1>2, <2>1 DEF FrameType, KeepsReport
<1>9. ASSUME LockExchange(t)
      PROVE  frame'[t].contended = frame[t].contended /\ frame'[t].events = frame[t].events
  <2>1. UNCHANGED frame \/ Local(t, [frame[t] EXCEPT !.todo = ResetCells, !.ret = "lock_ever"])
    BY <1>9 DEF LockExchange, ResetExchange
  <2>2. QED
    BY <1>1, <1>2, <2>1 DEF FrameType
<1>10. QED
  BY <1>3, <1>4, <1>5, <1>6, <1>7, <1>8, <1>9

LEMMA ReportOwn ==
  ASSUME TypeOK, FrameInv, ReportInv, NEW t \in Threads, InCall(t) \/ Begin(t)
  PROVE  ReportOK(t)'
<1> USE DEF TypeOK, ReportOK, LockTaken
<1>0. ReportOK(t)
  BY DEF ReportInv
<1>1. ASSUME Return(t) PROVE ReportOK(t)'
  BY <1>1 DEF Return, Goto
<1>2. ASSUME InLock(t) PROVE ReportOK(t)'
  <2>1. CASE LockFastTake(t)
    BY <2>1, Effects, ReportEffects
  <2>2. CASE LockFastMiss(t)
    BY <2>2, Effects, ReportEffects
  <2>3. CASE LockSlowTake(t)
    BY <1>0, <2>3, Effects, ReportEffects
  <2>4. CASE LockExchange(t)
    <3>1. pc[t] = "lock_add" /\ pc'[t] \in {"clear", "lock_ever"}
      BY <2>4, ResetEffects DEF LockExchange
    <3>2. QED
      BY <1>0, <2>4, <3>1, ReportEffects
  <2>5. CASE LockEver(t) \/ LockTicks(t)
    BY <1>0, <2>5 DEF LockEver, LockTicks, Step, Goto
  <2>6. CASE LockReport(t)
    BY <1>1, <2>6 DEF LockReport
  <2>7. QED
    BY <1>2, <2>1, <2>2, <2>3, <2>4, <2>5, <2>6 DEF InLock
<1>3. ASSUME InTryLock(t) PROVE ReportOK(t)'
  <2>1. CASE TryExchange(t)
    <3>1. pc'[t] = "idle" \/ (pc'[t] = "clear" /\ frame'[t].ret = "idle")
      BY <2>1, ResetEffects DEF TryExchange, Left
    <3>2. QED
      BY <3>1
  <2>2. CASE TryTake(t) \/ TryMiss(t) \/ TryCount(t)
    BY <2>2 DEF TryTake, TryMiss, TryCount, Step, Goto
  <2>3. QED
    BY <1>3, <2>1, <2>2 DEF InTryLock
<1>4. ASSUME InStats(t) PROVE ReportOK(t)'
  <2>1. CASE AddRead(t) \/ AddWrite(t) \/ ClearField(t)
    <3>1. pc'[t] = pc[t]
      BY <2>1, Effects
    <3>2. QED
      BY <1>0, <2>1, <3>1, ReportEffects DEF KeepsReport
  <2>2. CASE RequestDone(t)
    BY <1>1, <2>2 DEF RequestDone
  <2>3. CASE ResetDone(t)
    BY <1>0, <1>1, <2>3 DEF ResetDone, ClearDone, Goto
  <2>4. QED
    BY <1>4, <2>1, <2>2, <2>3 DEF InStats
<1>5. ASSUME InDetails(t) PROVE ReportOK(t)'
  <2>1. CASE NameCopy(t) \/ SetNameStore(t)
    BY <1>1, <2>1 DEF NameCopy, SetNameStore
  <2>2. CASE ~NameCopy(t) /\ ~SetNameStore(t)
    BY <1>5, <2>2 DEF InDetails, CopyField, LoadTryLocks, LoadEverLocked, NameLockShared, SetNameLock, Step, Goto
  <2>3. QED
    BY <2>1, <2>2
<1>6. ASSUME Begin(t) PROVE ReportOK(t)'
  <2>1. CASE RequestReset(t)
    BY <2>1, Effects DEF Left
  <2>2. CASE ~RequestReset(t)
    BY <1>6, <2>2 DEF Begin, LockBegin, TryBegin, Unlock, GetDetails, SetName, SetInterestingEvents,
       SetAssumeFreeUncontendedLocks, Call, Step, Goto
  <2>3. QED
    BY <2>1, <2>2
<1>7. QED
  BY <1>2, <1>3, <1>4, <1>5, <1>6 DEF InCall

LEMMA ReportNext ==
  ASSUME TypeOK, FrameInv, ReportInv, [Next]_vars
  PROVE  ReportInv'
<1>1. ASSUME NEW t \in Threads, InCall(t) \/ Begin(t) PROVE ReportInv'
  <2>1. ReportOK(t)'
    BY <1>1, ReportOwn
  <2>2. ASSUME NEW u \in Threads \ {t} PROVE ReportOK(u)'
    BY <1>1, OthersStay DEF ReportInv, ReportOK, LockTaken
  <2>3. QED
    BY <2>1, <2>2 DEF ReportInv
<1>2. CASE UNCHANGED vars
  BY <1>2 DEF vars, ReportInv, ReportOK, LockTaken
<1>3. QED
  BY <1>1, <1>2 DEF Next, Finished

-----------------------------------------------------------------------------
(***************************************************************************)
(* Before the first request nothing that GetDetails copies ever goes down. *)
(***************************************************************************)
LEMMA NothingGoesDown ==
  ASSUME Inv, NEW t \in Threads, InCall(t) \/ Begin(t), ~requested'
  PROVE  /\ \A f \in Counters : stats[f] <= stats'[f]
         /\ num_try_locks <= num_try_locks'
         /\ ever_locked => ever_locked'
<1> USE DEF Inv
<1>1. ~requested /\ pc[t] # "clear"
  BY RequestStep
<1>2. ~ClearField(t) /\ ~RequestDone(t) /\ ~ResetDone(t)
  BY <1>1 DEF ClearField, RequestDone, ResetDone, ClearDone
<1>3. stats \in [Counters -> Nat] /\ num_try_locks \in Nat
  BY DEF TypeOK
<1>4. \A f \in Counters : stats[f] <= stats'[f]
  <2>1. CASE ~Writing(t)
    BY <1>3, <2>1, QuietStep DEF Quiet
  <2>2. CASE LockFastTake(t) \/ LockSlowTake(t) \/ TryTake(t) \/ AddRead(t)
    <3>1. UNCHANGED stats
      BY <2>2 DEF LockFastTake, LockSlowTake, TryTake, AddRead
    <3>2. QED
      BY <1>3, <3>1
  <2>3. CASE AddWrite(t)
    <3>1. pc[t] \in AddPcs /\ frame[t].field # NoField
      BY <2>3 DEF AddWrite, FrameInv, FrameOK
    <3>2. frame[t].reg = stats[frame[t].field]
      BY <1>1, <3>1 DEF ExactInv, ExactOK
    <3>3. stats' = [stats EXCEPT ![frame[t].field] = frame[t].reg + 1]
      BY <2>3 DEF AddWrite
    <3>4. QED
      BY <1>3, <3>2, <3>3
  <2>4. QED
    BY <1>2, <2>1, <2>2, <2>3 DEF Writing
<1>5. num_try_locks <= num_try_locks'
  <2>1. InLock(t) \/ InTryLock(t) => num_try_locks' \in {num_try_locks, num_try_locks + 1}
    BY DEF InLock, LockFastTake, LockFastMiss, LockSlowTake, LockExchange, LockEver, LockTicks,
       LockReport, InTryLock, TryTake, TryMiss, TryCount, TryExchange, ResetExchange
  <2>2. InStats(t) \/ InDetails(t) => num_try_locks' = num_try_locks
    BY <1>2 DEF InStats, AddRead, AddWrite, InDetails, CopyField, LoadTryLocks, LoadEverLocked,
       NameLockShared, NameCopy, SetNameLock, SetNameStore
  <2>3. Begin(t) => num_try_locks' = num_try_locks
    BY DEF Begin, LockBegin, TryBegin, Unlock, RequestReset, GetDetails, SetName,
       SetInterestingEvents, SetAssumeFreeUncontendedLocks
  <2>4. num_try_locks' \in {num_try_locks, num_try_locks + 1}
    BY <2>1, <2>2, <2>3 DEF InCall
  <2>5. QED
    BY <1>3, <2>4
<1>6. QED
  BY <1>4, <1>5, EverStep

(***************************************************************************)
(* What the step adds to a MutexDetails is what the mutex has.             *)
(***************************************************************************)
CopiedOK(t, d) ==
  /\ \A f \in Counters : d.stats[f] <= stats[f]
  /\ d.num_try_locks <= num_try_locks
  /\ d.ever_locked => ever_locked

LEMMA DetailsOwn ==
  ASSUME TypeOK, NEW t \in Threads, InCall(t) \/ Begin(t), CopiedOK(t, details[t])
  PROVE  /\ \A u \in Threads \ {t} : details'[u] = details[u]
         /\ CopiedOK(t, details'[t])
<1> DEFINE Goal == (\A u \in Threads \ {t} : details'[u] = details[u]) /\ CopiedOK(t, details'[t])
<1>1. /\ stats \in [Counters -> Nat] /\ num_try_locks \in Nat /\ ever_locked \in BOOLEAN
      /\ details \in [Threads -> DetailsType] /\ details[t] \in DetailsType
  BY DEF TypeOK
<1>2. ASSUME UNCHANGED details PROVE Goal
  BY <1>2
<1>3. ASSUME GetDetails(t) PROVE Goal
  <2>1. details' = [details EXCEPT ![t] = EmptyDetails]
    BY <1>3 DEF GetDetails
  <2>2. CopiedOK(t, EmptyDetails)
    BY <1>1 DEF CopiedOK, EmptyDetails, NoCounts
  <2>3. QED
    BY <1>1, <2>1, <2>2
<1>4. ASSUME CopyField(t) PROVE Goal
  <2>1. PICK f : details' = [details EXCEPT ![t].stats[f] = stats[f]]
    BY <1>4 DEF CopyField
  <2>2. details'[t] = [details[t] EXCEPT !.stats[f] = stats[f]] /\ \A u \in Threads \ {t} : details'[u] = details[u]
    BY <1>1, <2>1
  <2>3. CopiedOK(t, [details[t] EXCEPT !.stats[f] = stats[f]])
    BY <1>1 DEF CopiedOK, DetailsType
  <2>4. QED
    BY <2>2, <2>3
<1>5. ASSUME LoadTryLocks(t) PROVE Goal
  BY <1>1, <1>5 DEF LoadTryLocks, CopiedOK, DetailsType
<1>6. ASSUME LoadEverLocked(t) PROVE Goal
  BY <1>1, <1>6 DEF LoadEverLocked, CopiedOK, DetailsType
<1>7. ASSUME NameCopy(t) PROVE Goal
  BY <1>1, <1>7 DEF NameCopy, CopiedOK, DetailsType
<1>8. ASSUME InLock(t) \/ InTryLock(t) \/ InStats(t) PROVE UNCHANGED details
  <2>1. InLock(t) \/ InTryLock(t) => UNCHANGED details
    BY DEF InLock, LockFastTake, LockFastMiss, LockSlowTake, LockExchange, LockEver, LockTicks,
       LockReport, InTryLock, TryTake, TryMiss, TryCount, TryExchange, ResetExchange
  <2>2. InStats(t) => UNCHANGED details
    BY DEF InStats, AddRead, AddWrite, ClearField, RequestDone, ResetDone, ClearDone
  <2>3. QED
    BY <1>8, <2>1, <2>2
<1>9. ASSUME InDetails(t) PROVE Goal
  BY <1>2, <1>4, <1>5, <1>6, <1>7, <1>9 DEF InDetails, NameLockShared, SetNameLock, SetNameStore
<1>10. ASSUME Begin(t) PROVE Goal
  BY <1>2, <1>3, <1>10 DEF Begin, LockBegin, TryBegin, Unlock, RequestReset, SetName, SetInterestingEvents,
     SetAssumeFreeUncontendedLocks
<1>11. QED
  BY <1>2, <1>8, <1>9, <1>10 DEF InCall

LEMMA DetailsNext ==
  ASSUME Inv, TypeOK', DetailsNotAhead, [Next]_vars
  PROVE  DetailsNotAhead'
<1>1. ASSUME NEW t \in Threads, InCall(t) \/ Begin(t), ~requested', NEW u \in Threads
      PROVE  /\ \A f \in Counters : details'[u].stats[f] <= stats'[f]
             /\ details'[u].num_try_locks <= num_try_locks'
             /\ details'[u].ever_locked => ever_locked'
  <2>1. ~requested
    BY <1>1, RequestStep DEF Inv
  <2>2. \A v \in Threads : CopiedOK(v, details[v])
    BY <2>1 DEF DetailsNotAhead, CopiedOK
  <2>3. CopiedOK(u, details'[u])
    BY <1>1, <2>2, DetailsOwn DEF Inv, CopiedOK
  <2>4. /\ stats \in [Counters -> Nat] /\ stats' \in [Counters -> Nat]
        /\ num_try_locks \in Nat /\ num_try_locks' \in Nat
        /\ details'[u].num_try_locks \in Nat /\ \A f \in Counters : details'[u].stats[f] \in Nat
    BY DEF Inv, TypeOK, DetailsType
  <2>5. /\ \A f \in Counters : stats[f] <= stats'[f]
        /\ num_try_locks <= num_try_locks'
        /\ ever_locked => ever_locked'
    BY <1>1, NothingGoesDown
  <2>6. QED
    BY <2>3, <2>4, <2>5 DEF CopiedOK
<1>2. CASE UNCHANGED vars
  BY <1>2 DEF vars, history, DetailsNotAhead
<1>3. QED
  BY <1>1, <1>2 DEF Next, Finished, DetailsNotAhead

-----------------------------------------------------------------------------
(***************************************************************************)
(* One more wait fits as the others do.                                    *)
(***************************************************************************)
LEMMA TimesMonotone ==
  ASSUME NEW n \in Nat, NEW a \in Nat, NEW b \in Nat, a <= b
  PROVE  n * a <= n * b
OBVIOUS

LEMMA OneMoreWait ==
  ASSUME NEW n \in Nat, NEW w \in Waits, Fits(n), ticks \in [total : Nat, min : Nat, max : Nat],
         ticks' = TicksWith(w)
  PROVE  Fits(n + 1)'
<1>1. w \in Nat /\ w < UINT64_MAX /\ UINT64_MAX \in Nat /\ n + 1 \in Nat /\ n + 1 # 0
  BY WaitsAssumption
<1>2. /\ ticks'.total = ticks.total + w
      /\ ticks'.min = (IF w < ticks.min THEN w ELSE ticks.min)
      /\ ticks'.max = (IF w > ticks.max THEN w ELSE ticks.max)
      /\ ticks.total \in Nat /\ ticks.min \in Nat /\ ticks.max \in Nat
  BY DEF TicksWith
<1>3. CASE n = 0
  <2>1. ticks.total = 0 /\ ticks.min = UINT64_MAX /\ ticks.max = 0
    BY <1>3 DEF Fits, NoTicks
  <2>2. ticks'.total = w /\ ticks'.min = w /\ ticks'.max = w
    BY <1>1, <1>2, <2>1
  <2>3. QED
    BY <1>1, <1>3, <2>2 DEF Fits
<1>4. CASE n # 0
  <2>1. ticks'.min \in Nat /\ ticks'.max \in Nat /\ ticks'.min <= ticks.min /\ ticks'.min <= w
        /\ ticks.max <= ticks'.max /\ w <= ticks'.max
    BY <1>1, <1>2
  <2>2. n * ticks'.min <= n * ticks.min /\ n * ticks.max <= n * ticks'.max
    BY <1>2, <2>1, TimesMonotone
  <2>3. n * ticks.min <= ticks.total /\ ticks.total <= n * ticks.max
    BY <1>4 DEF Fits
  <2>4. \A x \in Nat : (n + 1) * x = n * x + x /\ n * x \in Nat
    OBVIOUS
  <2>5. (n + 1) * ticks'.min <= ticks'.total /\ ticks'.total <= (n + 1) * ticks'.max
    <3>1. PICK lo \in Nat : lo = n * ticks'.min /\ (n + 1) * ticks'.min = lo + ticks'.min
      BY <2>1, <2>4
    <3>2. PICK hi \in Nat : hi = n * ticks'.max /\ (n + 1) * ticks'.max = hi + ticks'.max
      BY <2>1, <2>4
    <3>3. lo <= ticks.total /\ ticks.total <= hi
      <4>1. n * ticks.min \in Nat /\ n * ticks.max \in Nat
        BY <1>2, <2>4
      <4>2. QED
        BY <1>2, <2>2, <2>3, <3>1, <3>2, <4>1
    <3>4. QED
      BY <1>1, <1>2, <2>1, <3>1, <3>2, <3>3
  <2>6. QED
    BY <1>1, <2>5 DEF Fits
<1>5. QED
  BY <1>3, <1>4

(***************************************************************************)
(* The steps that neither take the mutex for lock nor add a wait.          *)
(***************************************************************************)
LEMMA UntimedStays ==
  ASSUME Inv, NEW t \in Threads, InCall(t) \/ Begin(t), ~requested',
         ~LockFastTake(t), ~LockSlowTake(t), ~LockTicks(t)
  PROVE  UNCHANGED ticks /\ due'["num_locks"] = due["num_locks"] /\ (Untimed(t)' <=> Untimed(t))
<1> DEFINE Goal == UNCHANGED ticks /\ due'["num_locks"] = due["num_locks"] /\ (Untimed(t)' <=> Untimed(t))
<1>1. ~requested /\ ~reset /\ pc[t] # "clear" /\ TypeOK
  BY RequestStep DEF Inv
<1>2. ~ClearField(t) /\ ~RequestDone(t) /\ ~ResetDone(t) /\ ~RequestReset(t)
  BY <1>1 DEF ClearField, RequestDone, ResetDone, ClearDone, RequestReset
<1>3. ASSUME InLock(t) PROVE Goal
  <2>1. CASE LockExchange(t)
    BY <1>1, <2>1, ResetEffects DEF LockExchange, ResetExchange, Untimed, history
  <2>2. CASE LockFastMiss(t) \/ LockEver(t) \/ LockReport(t)
    BY <1>1, <2>2 DEF LockFastMiss, LockEver, LockReport, Return, Step, Goto, Untimed, history, TypeOK
  <2>3. QED
    BY <1>3, <2>1, <2>2 DEF InLock
<1>4. ASSUME InTryLock(t) PROVE Goal
  <2>1. CASE TryTake(t)
    <3>1. due'["num_locks"] = due["num_locks"]
      BY <2>1 DEF TryTake, Accrue, Counters
    <3>2. QED
      BY <1>1, <2>1, <3>1, Effects DEF TryTake, Untimed
  <2>2. CASE TryExchange(t)
    BY <1>1, <2>2, ResetEffects DEF TryExchange, ResetExchange, Untimed, history
  <2>3. CASE TryMiss(t) \/ TryCount(t)
    BY <1>1, <2>3 DEF TryMiss, TryCount, Step, Goto, Untimed, history, TypeOK
  <2>4. QED
    BY <1>4, <2>1, <2>2, <2>3 DEF InTryLock
<1>5. ASSUME InStats(t) PROVE Goal
  BY <1>2, <1>5 DEF InStats, AddRead, AddWrite, Untimed, history
<1>6. ASSUME InDetails(t) PROVE Goal
  BY <1>1, <1>6 DEF InDetails, CopyField, LoadTryLocks, LoadEverLocked, NameLockShared, NameCopy,
     SetNameLock, SetNameStore, Return, Step, Goto, Untimed, history, TypeOK
<1>7. ASSUME Begin(t) PROVE Goal
  BY <1>1, <1>2, <1>7 DEF Begin, LockBegin, TryBegin, Unlock, GetDetails, SetName, SetInterestingEvents,
     SetAssumeFreeUncontendedLocks, Call, Step, Goto, Untimed, history, TypeOK
<1>8. QED
  BY <1>3, <1>4, <1>5, <1>6, <1>7 DEF InCall

LEMMA TicksNext ==
  ASSUME Inv, TicksInv, [Next]_vars
  PROVE  TicksInv'
<1>1. ASSUME NEW t \in Threads, InCall(t) \/ Begin(t), ~requested' PROVE TicksInv'
  <2>1. ~requested
    BY <1>1, RequestStep DEF Inv
  <2>2. PICK n \in Nat : n = due["num_locks"]
    BY DEF Inv, TypeOK, Counters
  <2>3. ASSUME NEW u \in Threads, Untimed(u) PROVE owner = u
    BY <2>3 DEF Inv, OneAccountant, InAccounts, LockTaken, Untimed
  <2>4. \A u \in Threads \ {t} : Untimed(u)' <=> Untimed(u)
    BY <1>1, OthersStay DEF Inv, Untimed
  <2>5. IF \E u \in Threads : Untimed(u) THEN n > 0 /\ Fits(n - 1) ELSE Fits(n)
    BY <2>1, <2>2 DEF TicksInv
  <2>6. CASE LockFastTake(t) \/ LockSlowTake(t)
    <3>1. owner = NoOwner /\ UNCHANGED ticks /\ due'["num_locks"] = n + 1
      BY <2>2, <2>6 DEF LockFastTake, LockSlowTake, Acquire, Accrue, Counters
    <3>2. Fits(n)
      BY <2>3, <2>5, <3>1, NoOwnerAssumption
    <3>3. Fits(n)'
      BY <3>1, <3>2 DEF Fits
    <3>4. Untimed(t)'
      BY <2>6, Effects DEF Inv, Untimed
    <3>5. n + 1 > 0 /\ n + 1 - 1 = n
      OBVIOUS
    <3>6. QED
      BY <3>1, <3>3, <3>4, <3>5 DEF TicksInv
  <2>7. CASE LockTicks(t)
    <3>1. Untimed(t) /\ ~Untimed(t)' /\ UNCHANGED due
      BY <2>7 DEF LockTicks, Step, Goto, Untimed, history, Inv, TypeOK
    <3>2. \A u \in Threads : ~Untimed(u)'
      BY <2>3, <2>4, <3>1
    <3>3. n > 0 /\ Fits(n - 1) /\ n - 1 \in Nat /\ n - 1 + 1 = n
      BY <2>5, <3>1
    <3>4. ticks \in [total : Nat, min : Nat, max : Nat] /\ frame[t].wait \in Waits
      BY DEF Inv, TypeOK, FrameType
    <3>5. Fits(n - 1 + 1)'
      BY <2>7, <3>3, <3>4, OneMoreWait DEF LockTicks
    <3>6. QED
      BY <2>2, <3>1, <3>2, <3>3, <3>5 DEF TicksInv
  <2>8. CASE ~LockFastTake(t) /\ ~LockSlowTake(t) /\ ~LockTicks(t)
    <3>1. UNCHANGED ticks /\ due'["num_locks"] = n /\ (Untimed(t)' <=> Untimed(t))
      BY <1>1, <2>2, <2>8, UntimedStays
    <3>2. (\E u \in Threads : Untimed(u)') <=> (\E u \in Threads : Untimed(u))
      BY <2>4, <3>1
    <3>3. Fits(n)' = Fits(n) /\ Fits(n - 1)' = Fits(n - 1)
      BY <3>1 DEF Fits
    <3>4. QED
      BY <2>5, <3>1, <3>2, <3>3 DEF TicksInv
  <2>9. QED
    BY <2>6, <2>7, <2>8
<1>2. CASE UNCHANGED vars
  BY <1>2 DEF vars, history, TicksInv, Fits, Untimed
<1>3. QED
  BY <1>1, <1>2 DEF Next, Finished, TicksInv

(* Until someone asks for a reset, the wait ticks of a mutex at rest fit   *)
(* each other and the number of locks, although AddRead, AddWrite and      *)
(* LockTicks touch them in steps of their own after the mutex is taken.    *)
THEOREM WaitsFit == Spec => []WaitsConsistent
<1>1. Init => TicksInv
  BY DEF Init, TicksInv, Fits, Untimed, NoCounts, Counters
<1>2. Inv /\ TicksInv /\ [Next]_vars => TicksInv'
  BY TicksNext
<1>3. ASSUME Inv, TicksInv, ~requested, AtRest PROVE Fits(stats["num_locks"])
  <2>1. stats["num_locks"] = due["num_locks"]
    BY <1>3 DEF Inv, ExactInv, CountOK, Pending, AtRest, AddPcs, Counters
  <2>2. \A t \in Threads : ~Untimed(t)
    BY <1>3 DEF AtRest, Untimed
  <2>3. QED
    BY <1>3, <2>1, <2>2 DEF TicksInv
<1>4. Inv /\ TicksInv => WaitsConsistent
  BY <1>3 DEF WaitsConsistent, Fits
<1>5. QED
  BY <1>1, <1>2, <1>4, Invariance, PTL DEF Spec

(* A snapshot of GetDetails, taken field by field in the middle of a lock, *)
(* is never ahead of the mutex before the first reset.                     *)
THEOREM SnapshotsNotAhead == Spec => []DetailsNotAhead
<1>1. ASSUME Init PROVE DetailsNotAhead
  <2>1. \A t \in Threads : /\ details[t].stats = NoCounts
                           /\ details[t].num_try_locks = 0
                           /\ ~details[t].ever_locked
    BY <1>1 DEF Init, EmptyDetails
  <2>2. stats = NoCounts /\ num_try_locks = 0 /\ \A f \in Counters : NoCounts[f] <= NoCounts[f]
    BY <1>1 DEF Init, NoCounts
  <2>3. ASSUME NEW t \in Threads
        PROVE  /\ \A f \in Counters : details[t].stats[f] <= stats[f]
               /\ details[t].num_try_locks <= num_try_locks
    BY <2>1, <2>2
  <2>4. QED
    BY <2>1, <2>3, Zenon DEF DetailsNotAhead
<1>2. Inv /\ Inv' /\ DetailsNotAhead /\ [Next]_vars => DetailsNotAhead'
  BY DetailsNext DEF Inv
<1>3. QED
  BY <1>1, <1>2, Invariance, PTL DEF Spec

(* Whenever SetInterestingEvents is called, lock stops at the breakpoint   *)
(* for ContendedLock only if it had to wait.                               *)
THEOREM OnlyContendedReported == Spec => []ContendedReported
<1>1. Init => ReportInv
  BY DEF Init, ReportInv, ReportOK, LockTaken
<1>2. Inv /\ ReportInv /\ [Next]_vars => ReportInv'
  BY ReportNext DEF Inv
<1>3. ReportInv => ContendedReported
  BY DEF ReportInv, ReportOK, LockTaken, ContendedReported
<1>4. QED
  BY <1>1, <1>2, <1>3, Invariance, PTL DEF Spec

-----------------------------------------------------------------------------
(***************************************************************************)
(* Mutex implements Lockable: every step of a thread is, for somebody who  *)
(* only sees who holds the mutex and what each call has come to, a step of *)
(* the lock or no step at all.                                             *)
(***************************************************************************)
(***************************************************************************)
(* A thread that is still after the mutex does not have it.                *)
(***************************************************************************)
Seeking(t) == pc[t] \in {"lock_fast", "lock_wait", "try_acquire"}

SeekInv == \A t \in Threads : Seeking(t) => owner # t

LEMMA SeekNext ==
  ASSUME TypeOK, FrameInv, SeekInv, [Next]_vars
  PROVE  SeekInv'
<1>1. ASSUME NEW t \in Threads, InCall(t) \/ Begin(t), Seeking(t)' PROVE owner' # t
  <2>1. CASE LockBegin(t) \/ TryBegin(t)
    BY <2>1 DEF LockBegin, TryBegin
  <2>2. CASE Begin(t) /\ ~LockBegin(t) /\ ~TryBegin(t)
    BY <1>1, <2>2 DEF Begin, Unlock, RequestReset, GetDetails, SetName, SetInterestingEvents,
       SetAssumeFreeUncontendedLocks, Call, Step, Goto, Seeking, TypeOK
  <2>3. CASE LockFastMiss(t)
    BY <2>3 DEF LockFastMiss, Step, Seeking, SeekInv
  <2>4. CASE LockExchange(t) \/ TryExchange(t)
    BY <1>1, <2>4, ResetEffects DEF LockExchange, TryExchange, Seeking
  <2>5. CASE InLock(t) /\ ~LockFastMiss(t) /\ ~LockExchange(t)
    BY <1>1, <2>5 DEF InLock, LockFastTake, LockSlowTake, LockEver, LockTicks, LockReport, Return,
       Step, Goto, Seeking, TypeOK
  <2>6. CASE InTryLock(t) /\ ~TryExchange(t)
    BY <1>1, <2>6 DEF InTryLock, TryTake, TryMiss, TryCount, Step, Goto, Seeking, TypeOK
  <2>7. CASE InStats(t)
    BY <1>1, <2>7 DEF InStats, AddRead, AddWrite, AddPcs, ClearField, RequestDone, ResetDone,
       ClearDone, Return, Goto, Seeking, TypeOK, FrameInv, FrameOK
  <2>8. CASE InDetails(t)
    BY <1>1, <2>8 DEF InDetails, CopyField, LoadTryLocks, LoadEverLocked, NameLockShared, NameCopy,
       SetNameLock, SetNameStore, Return, Step, Goto, Seeking, TypeOK
  <2>9. QED
    BY <1>1, <2>1, <2>2, <2>3, <2>4, <2>5, <2>6, <2>7, <2>8 DEF InCall
<1>2. ASSUME NEW t \in Threads, InCall(t) \/ Begin(t) PROVE SeekInv'
  <2>1. ASSUME NEW u \in Threads \ {t}, Seeking(u)' PROVE owner' # u
    BY <1>2, <2>1, OthersStay, OwnerStep, NoOwnerAssumption DEF Seeking, SeekInv
  <2>2. QED
    BY <1>1, <1>2, <2>1 DEF SeekInv
<1>3. CASE UNCHANGED vars
  BY <1>3 DEF vars, SeekInv, Seeking
<1>4. QED
  BY <1>2, <1>3 DEF Next, Finished

-----------------------------------------------------------------------------
(***************************************************************************)
(* The refinement mapping.                                                 *)
(***************************************************************************)
LEMMA CallOfOthers ==
  ASSUME TypeOK, FrameInv, NEW t \in Threads, InCall(t) \/ Begin(t), NEW u \in Threads \ {t}
  PROVE  CallOf(u)' = CallOf(u)
<1>1. pc'[u] = pc[u] /\ frame'[u] = frame[u] /\ (owner' = u <=> owner = u)
  BY OthersStay, OwnerStep, NoOwnerAssumption
<1>2. QED
  BY <1>1 DEF CallOf, LockTaken, TryDecided

LEMMA CallBecomes ==
  ASSUME NEW t \in Threads, NEW c, CallOf(t)' = c,
         \A u \in Threads \ {t} : CallOf(u)' = CallOf(u)
  PROVE  L!Become(t, c)
BY DEF L!Become

LEMMA CallsStay ==
  ASSUME NEW t \in Threads, CallOf(t)' = CallOf(t), UNCHANGED owner,
         \A u \in Threads \ {t} : CallOf(u)' = CallOf(u)
  PROVE  UNCHANGED L!vars
BY DEF L!vars

(***************************************************************************)
(* What a call has come to, before and after a step.                       *)
(***************************************************************************)
Outside(t) ==
  /\ ~Seeking(t)
  /\ pc[t] \notin {"lock_add", "lock_ever", "lock_ticks", "lock_report", "try_add", "try_exchange"}
  /\ pc[t] = "clear" => frame[t].ret = "request"

LEMMA CallOfIs ==
  ASSUME NEW t \in Threads
  PROVE  /\ pc[t] \in {"lock_fast", "lock_wait"} => CallOf(t) = "lock"
         /\ pc[t] = "try_acquire" => CallOf(t) = "try"
         /\ LockTaken(t) => CallOf(t) = "got"
         /\ TryDecided(t) => CallOf(t) = IF owner = t THEN "got" ELSE "missed"
         /\ Outside(t) => CallOf(t) = "none"
BY DEF CallOf, LockTaken, TryDecided, Outside, Seeking

LEMMA CallOfWillBe ==
  ASSUME NEW t \in Threads
  PROVE  /\ pc'[t] \in {"lock_fast", "lock_wait"} => CallOf(t)' = "lock"
         /\ pc'[t] = "try_acquire" => CallOf(t)' = "try"
         /\ LockTaken(t)' => CallOf(t)' = "got"
         /\ TryDecided(t)' => CallOf(t)' = IF owner' = t THEN "got" ELSE "missed"
         /\ Outside(t)' => CallOf(t)' = "none"
BY DEF CallOf, LockTaken, TryDecided, Outside, Seeking

(***************************************************************************)
(* The steps that take, miss, enter, return and release, and those that    *)
(* nobody outside sees.                                                    *)
(***************************************************************************)
LEMMA ReturnsOutside ==
  ASSUME TypeOK, NEW t \in Threads, Return(t)
  PROVE  CallOf(t)' = "none"
<1>1. pc'[t] = "idle"
  BY DEF Return, Goto, TypeOK
<1>2. QED
  BY <1>1, CallOfWillBe DEF Outside, Seeking

LEMMA LockRefines ==
  ASSUME TypeOK, FrameInv, OneAccountant, SeekInv, NEW t \in Threads, InLock(t)
  PROVE  L!Next \/ UNCHANGED L!vars
<1>1. /\ \A u \in Threads \ {t} : CallOf(u)' = CallOf(u)
      /\ InCall(t)
  BY CallOfOthers DEF InCall
<1>2. CASE LockFastTake(t) \/ LockSlowTake(t)
  <2>1. owner = NoOwner /\ owner' = t
    BY <1>2 DEF LockFastTake, LockSlowTake, Acquire
  <2>2. pc[t] \in {"lock_fast", "lock_wait"} /\ pc'[t] = "lock_add"
    BY <1>2, Effects
  <2>3. CallOf(t) = "lock" /\ CallOf(t)' = "got"
    BY <2>2, CallOfIs, CallOfWillBe DEF LockTaken
  <2>4. L!Take(t)
    BY <1>1, <2>1, <2>3, CallBecomes DEF L!Take
  <2>5. QED
    BY <2>4 DEF L!Next
<1>3. CASE LockFastMiss(t)
  <2>1. UNCHANGED owner /\ pc[t] = "lock_fast" /\ pc'[t] = "lock_wait"
    BY <1>3, Effects DEF LockFastMiss
  <2>2. QED
    BY <1>1, <2>1, CallOfIs, CallOfWillBe, CallsStay
<1>4. CASE LockExchange(t)
  <2>1. UNCHANGED owner /\ pc[t] = "lock_add" /\ ResetExchange(t, "lock_ever")
    BY <1>4 DEF LockExchange, ResetExchange
  <2>2. LockTaken(t) /\ LockTaken(t)'
    BY <2>1, ResetEffects DEF LockTaken, Left
  <2>3. QED
    BY <1>1, <2>1, <2>2, CallOfIs, CallOfWillBe, CallsStay
<1>5. CASE LockEver(t) \/ LockTicks(t)
  <2>1. UNCHANGED owner /\ LockTaken(t) /\ LockTaken(t)'
    BY <1>5 DEF LockEver, LockTicks, Step, Goto, LockTaken, TypeOK
  <2>2. QED
    BY <1>1, <2>1, CallOfIs, CallOfWillBe, CallsStay
<1>6. CASE LockReport(t)
  <2>1. UNCHANGED owner /\ LockTaken(t) /\ CallOf(t)' = "none"
    BY <1>6, ReturnsOutside DEF LockReport, LockTaken
  <2>2. L!Return(t)
    BY <1>1, <2>1, CallOfIs, CallBecomes DEF L!Return
  <2>3. QED
    BY <2>2 DEF L!Next
<1>7. QED
  BY <1>2, <1>3, <1>4, <1>5, <1>6 DEF InLock

LEMMA TryRefines ==
  ASSUME TypeOK, FrameInv, OneAccountant, SeekInv, NEW t \in Threads, InTryLock(t)
  PROVE  L!Next \/ UNCHANGED L!vars
<1>1. /\ \A u \in Threads \ {t} : CallOf(u)' = CallOf(u)
      /\ InCall(t)
  BY CallOfOthers DEF InCall
<1>2. CASE TryTake(t)
  <2>1. owner = NoOwner /\ owner' = t /\ pc[t] = "try_acquire" /\ pc'[t] = "try_add"
    BY <1>2, Effects DEF TryTake, Acquire
  <2>2. CallOf(t) = "try" /\ CallOf(t)' = "got"
    BY <2>1, CallOfIs, CallOfWillBe DEF TryDecided
  <2>3. L!Take(t)
    BY <1>1, <2>1, <2>2, CallBecomes DEF L!Take
  <2>4. QED
    BY <2>3 DEF L!Next
<1>3. CASE TryMiss(t)
  <2>1. /\ owner # NoOwner /\ UNCHANGED owner
        /\ pc[t] = "try_acquire" /\ pc'[t] = "try_add"
    BY <1>3 DEF TryMiss, Step, Goto, TypeOK
  <2>2. owner # t
    BY <2>1 DEF SeekInv, Seeking
  <2>3. CallOf(t) = "try" /\ CallOf(t)' = "missed"
    BY <2>1, <2>2, CallOfIs, CallOfWillBe DEF TryDecided
  <2>4. L!Miss(t)
    BY <1>1, <2>1, <2>3, CallBecomes DEF L!Miss
  <2>5. QED
    BY <2>4 DEF L!Next
<1>4. CASE TryCount(t)
  <2>1. UNCHANGED owner /\ TryDecided(t) /\ TryDecided(t)'
    BY <1>4 DEF TryCount, Step, Goto, TryDecided, TypeOK
  <2>2. QED
    BY <1>1, <2>1, CallOfIs, CallOfWillBe, CallsStay
<1>5. CASE TryExchange(t)
  <2>1. UNCHANGED owner /\ pc[t] = "try_exchange" /\ ResetExchange(t, "idle")
    BY <1>5 DEF TryExchange, ResetExchange
  <2>2. TryDecided(t)
    BY <2>1 DEF TryDecided
  <2>3. CASE reset
    <3>1. TryDecided(t)'
      BY <2>1, <2>3, ResetEffects DEF TryDecided, Left
    <3>2. QED
      BY <1>1, <2>1, <2>2, <3>1, CallOfIs, CallOfWillBe, CallsStay
  <2>4. CASE ~reset
    <3>1. CallOf(t)' = "none"
      BY <2>1, <2>4, ResetEffects, CallOfWillBe DEF Outside, Seeking
    <3>2. L!Return(t)
      BY <1>1, <2>1, <2>2, <3>1, CallOfIs, CallBecomes DEF L!Return
    <3>3. QED
      BY <3>2 DEF L!Next
  <2>5. QED
    BY <2>3, <2>4
<1>6. QED
  BY <1>2, <1>3, <1>4, <1>5 DEF InTryLock

LEMMA StatsRefines ==
  ASSUME TypeOK, FrameInv, OneAccountant, SeekInv, NEW t \in Threads, InStats(t)
  PROVE  L!Next \/ UNCHANGED L!vars
<1>1. /\ \A u \in Threads \ {t} : CallOf(u)' = CallOf(u)
      /\ InCall(t)
  BY CallOfOthers DEF InCall
<1>2. UNCHANGED owner
  BY DEF InStats, AddRead, AddWrite, ClearField, RequestDone, ResetDone, ClearDone
<1>3. CASE AddRead(t) \/ AddWrite(t) \/ ClearField(t)
  <2>1. pc'[t] = pc[t] /\ frame'[t].ret = frame[t].ret
    BY <1>3, Effects DEF Left, Keeps
  <2>2. CallOf(t)' = CallOf(t)
    BY <1>2, <2>1 DEF CallOf, LockTaken, TryDecided
  <2>3. QED
    BY <1>1, <1>2, <2>2, CallsStay
<1>4. CASE RequestDone(t)
  <2>1. CallOf(t) = "none"
    BY <1>4, CallOfIs DEF RequestDone, ClearDone, Outside, Seeking
  <2>2. CallOf(t)' = "none"
    BY <1>4, ReturnsOutside DEF RequestDone
  <2>3. QED
    BY <1>1, <1>2, <2>1, <2>2, CallsStay
<1>5. CASE ResetDone(t)
  <2>1. CASE frame[t].ret = "idle" /\ Return(t)
    <3>1. TryDecided(t) /\ CallOf(t)' = "none"
      BY <1>5, <2>1, ReturnsOutside DEF ResetDone, ClearDone, TryDecided
    <3>2. L!Return(t)
      BY <1>1, <1>2, <3>1, CallOfIs, CallBecomes DEF L!Return
    <3>3. QED
      BY <3>2 DEF L!Next
  <2>2. CASE frame[t].ret = "lock_ever" /\ Goto(t, "lock_ever")
    <3>1. LockTaken(t) /\ LockTaken(t)'
      BY <1>5, <2>2 DEF ResetDone, ClearDone, LockTaken, Goto, TypeOK
    <3>2. QED
      BY <1>1, <1>2, <3>1, CallOfIs, CallOfWillBe, CallsStay
  <2>3. QED
    BY <1>5, <2>1, <2>2 DEF ResetDone
<1>6. QED
  BY <1>3, <1>4, <1>5 DEF InStats

LEMMA DetailsRefine ==
  ASSUME TypeOK, FrameInv, NEW t \in Threads, InDetails(t)
  PROVE  UNCHANGED L!vars
<1>1. \A u \in Threads \ {t} : CallOf(u)' = CallOf(u)
  BY CallOfOthers DEF InCall
<1>2. UNCHANGED owner
  BY DEF InDetails, CopyField, LoadTryLocks, LoadEverLocked, NameLockShared, NameCopy, SetNameLock,
     SetNameStore
<1>3. Outside(t) /\ Outside(t)'
  BY DEF InDetails, CopyField, LoadTryLocks, LoadEverLocked, NameLockShared, NameCopy, SetNameLock,
     SetNameStore, Return, Step, Goto, Outside, Seeking, TypeOK
<1>4. QED
  BY <1>1, <1>2, <1>3, CallOfIs, CallOfWillBe, CallsStay

LEMMA BeginRefines ==
  ASSUME TypeOK, FrameInv, NEW t \in Threads, Begin(t)
  PROVE  L!Next \/ UNCHANGED L!vars
<1>1. \A u \in Threads \ {t} : CallOf(u)' = CallOf(u)
  BY CallOfOthers
<1>2. pc[t] = "idle" /\ CallOf(t) = "none"
  <2>1. pc[t] = "idle"
    BY DEF Begin, LockBegin, TryBegin, Unlock, RequestReset, GetDetails, SetName,
       SetInterestingEvents, SetAssumeFreeUncontendedLocks, Call, Step
  <2>2. QED
    BY <2>1, CallOfIs DEF Outside, Seeking
<1>3. CASE LockBegin(t) \/ TryBegin(t)
  <2>1. owner # t /\ UNCHANGED owner /\ pc'[t] \in {"lock_fast", "try_acquire"}
    BY <1>3 DEF LockBegin, TryBegin, Call, Step, Goto, TypeOK
  <2>2. CallOf(t)' \in {"lock", "try"}
    BY <2>1, CallOfWillBe
  <2>3. L!Enter(t)
    BY <1>1, <1>2, <2>1, <2>2, CallBecomes DEF L!Enter
  <2>4. QED
    BY <2>3 DEF L!Next
<1>4. CASE Unlock(t)
  <2>1. owner = t /\ owner' = NoOwner /\ UNCHANGED <<pc, frame>>
    BY <1>4 DEF Unlock
  <2>2. CallOf(t)' = CallOf(t)
    BY <1>2, <2>1, CallOfWillBe DEF Outside, Seeking
  <2>3. UNCHANGED [u \in Threads |-> CallOf(u)]
    BY <1>1, <2>2
  <2>4. L!Release(t)
    BY <1>2, <2>1, <2>3 DEF L!Release
  <2>5. QED
    BY <2>4 DEF L!Next
<1>5. CASE RequestReset(t)
  <2>1. UNCHANGED owner /\ Outside(t)'
    BY <1>5, Effects DEF RequestReset, Outside, Seeking, Left
  <2>2. QED
    BY <1>1, <1>2, <2>1, CallOfWillBe, CallsStay
<1>6. CASE Begin(t) /\ ~LockBegin(t) /\ ~TryBegin(t) /\ ~Unlock(t) /\ ~RequestReset(t)
  <2>1. UNCHANGED owner /\ Outside(t)'
    BY <1>6 DEF Begin, GetDetails, SetName, SetInterestingEvents, SetAssumeFreeUncontendedLocks,
       Call, Step, Goto, Outside, Seeking, TypeOK
  <2>2. QED
    BY <1>1, <1>2, <2>1, CallOfWillBe, CallsStay
<1>7. QED
  BY <1>3, <1>4, <1>5, <1>6

-----------------------------------------------------------------------------
(* However its calls interleave and whatever the statistics do, the        *)
(* instrumented mutex is a mutex: lock returns as its holder, try_lock     *)
(* gives up only when the mutex was held, and only unlock releases it.     *)
THEOREM Refinement == Spec => RefinesLockable
<1>1. Init => L!Init
  BY DEF Init, L!Init, CallOf, LockTaken, TryDecided
<1>2. Init => SeekInv
  BY DEF Init, SeekInv, Seeking
<1>3. Inv /\ SeekInv /\ [Next]_vars => SeekInv'
  BY SeekNext DEF Inv
<1>4. Inv /\ SeekInv /\ [Next]_vars => [L!Next]_L!vars
  <2>1. CASE UNCHANGED vars
    BY <2>1 DEF vars, L!vars, CallOf, LockTaken, TryDecided
  <2>2. ASSUME Inv, SeekInv, NEW t \in Threads, InCall(t) \/ Begin(t)
        PROVE  L!Next \/ UNCHANGED L!vars
    BY <2>2, LockRefines, TryRefines, StatsRefines, DetailsRefine, BeginRefines DEF Inv, InCall
  <2>3. QED
    BY <2>1, <2>2 DEF Next, Finished
<1>5. Spec => L!Init /\ [][L!Next]_L!vars
  BY <1>1, <1>2, <1>3, <1>4, Invariance, PTL DEF Spec
<1>6. QED
  BY <1>5 DEF RefinesLockable, L!Spec
=============================================================================
