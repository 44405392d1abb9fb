--------------------------- MODULE MetricsProofs ----------------------------
(***************************************************************************)
(* Theorems about metrics.cpp: of MetricSets, for any finite sets of       *)
(* threads and of metric sets, and of the contents of a set, which is a    *)
(* part of Components.                                                     *)
(***************************************************************************)
EXTENDS Components, DataLemmas, FiniteSetTheorems, TLAPS

(***************************************************************************)
(* A thread has the list's mutex at these steps.  (One that destroys a set *)
(* while GetAll unwinds has it too, and never gets further.)               *)
(***************************************************************************)
Locked == {"linking", "linked", "unlinking", "unlinked", "visiting", "unwinding", "testing",
           "creating", "found"}

HolderInv == \A t \in Threads : pc[t] \in Locked => holder = t

(***************************************************************************)
(* A thread that makes or destroys a set is the only one that does, and    *)
(* knows how far the set is in its life.                                   *)
(***************************************************************************)
Stage(p) ==
  CASE p \in {"created", "linking"} -> "made"
    [] p \in {"expired", "unlinking"} -> "expired"
    [] OTHER -> "unlinked"

Owning == {"created", "linking", "expired", "unlinking", "unlinked"}

OwnInv ==
  /\ \A t \in Threads : pc[t] \in Owning => at[t] \in Sets /\ phase[at[t]] = Stage(pc[t])
  /\ \A t, u \in Threads : pc[t] \in Owning /\ pc[u] \in Owning /\ at[t] = at[u] => t = u
  /\ \A s \in Sets : phase[s] = "made" => \E t \in Threads : pc[t] \in Owning /\ at[t] = s

(***************************************************************************)
(* Nobody has a shared_ptr to s.                                           *)
(***************************************************************************)
Unowned(s) == global # s /\ \A t \in Threads : s \notin held[t] /\ s \notin all_sets[t]

(***************************************************************************)
(* Who has a shared_ptr to a set: nobody when it is on its way out, and    *)
(* its maker, or the global variable, until it is linked.                  *)
(***************************************************************************)
OwnersInv ==
  /\ \A s \in Sets : phase[s] \in {"none", "expired", "unlinked", "gone"} => Unowned(s)
  /\ \A s \in Sets, t \in Threads : phase[s] = "made" /\ s \in held[t] =>
       pc[t] \in {"created", "linking"} /\ at[t] = s
  /\ \A s \in Sets, t \in Threads : phase[s] = "made" => s \notin all_sets[t]

(***************************************************************************)
(* GetGlobal creates and links the global set under one lock.              *)
(***************************************************************************)
GlobalInv ==
  \A t \in Threads : /\ pc[t] = "creating" => global = None
                     /\ pc[t] = "found" => global # None
                     /\ pc[t] = "created" => global # at[t]

(***************************************************************************)
(* After DeleteMetricsGlobals began only destructions are under way.       *)
(***************************************************************************)
ExitInv ==
  \A t \in Threads : /\ g_metrics \in {"deleting", "deleted"} => pc[t] \in {"idle", "expired", "unlinking", "unlinked"}
                     /\ g_metrics = "deleted" => pc[t] \in {"idle", "expired"}

(***************************************************************************)
(* A vector that GetAll fills is empty between the calls.  A thread that   *)
(* destroys a set while it unwinds keeps the rest, and the lock, for ever. *)
(***************************************************************************)
VectorInv ==
  \A t \in Threads :
    all_sets[t] # {} =>
      \/ pc[t] \in {"visiting", "unwinding"}
      \/ pc[t] = "expired" /\ holder = t /\ g_metrics \in {"none", "alive"}

(***************************************************************************)
(* The list as a sequence q of n sets, oldest first: the head is the last. *)
(* A set that is not in it has no neighbour before it.                     *)
(***************************************************************************)
IsList(n, q) ==
  /\ q \in [1..n -> Sets]
  /\ \A i, j \in 1..n : q[i] = q[j] => i = j
  /\ \A s \in Sets : s \in InList <=> \E i \in 1..n : q[i] = s
  /\ head = IF n = 0 THEN None ELSE q[n]
  /\ \A i \in 1..n : /\ next[q[i]] = IF i = 1 THEN None ELSE q[i - 1]
                     /\ prev[q[i]] = IF i = n THEN None ELSE q[i + 1]
  /\ \A s \in Sets : s \notin InList => prev[s] = None

(***************************************************************************)
(* A GetAll that has still to look at the k oldest sets of the list.       *)
(***************************************************************************)
LooksFrom(t, n, q, k) ==
  /\ at[t] = IF k = 0 THEN None ELSE q[k]
  /\ \A s \in Sets : s \in all_sets[t] <=> \E i \in 1..n : i > k /\ q[i] = s

ListInv ==
  g_metrics # "deleted" =>
    \E n \in Nat : \E q \in [1..n -> Sets] :
      /\ IsList(n, q)
      /\ \A t \in Threads : pc[t] = "visiting" => \E k \in 0..n : LooksFrom(t, n, q, k)

StateInv == TypeOK /\ HolderInv /\ OwnInv /\ OwnersInv /\ GlobalInv /\ ExitInv /\ VectorInv
Inv == StateInv /\ ListInv

-----------------------------------------------------------------------------
(***************************************************************************)
(* The count of shared_ptrs says who has one.                              *)
(***************************************************************************)
LEMMA UseCount ==
  ASSUME TypeOK, NEW s \in Sets
  PROVE  /\ use_count(s) \in Nat
         /\ use_count(s) = 0 <=> Unowned(s)
         /\ use_count(s) = 1 /\ global = s =>
              \A t \in Threads : s \notin held[t] /\ s \notin all_sets[t]
         /\ \A t \in Threads : use_count(s) = 1 /\ s \in held[t] =>
              /\ global # s
              /\ \A u \in Threads : s \notin all_sets[u] /\ (u # t => s \notin held[u])
         /\ \A t \in Threads : use_count(s) = 1 /\ s \in all_sets[t] =>
              /\ global # s
              /\ \A u \in Threads : s \notin held[u] /\ (u # t => s \notin all_sets[u])
<1> DEFINE H == {t \in Threads : s \in held[t]}
           A == {t \in Threads : s \in all_sets[t]}
<1>1. IsFiniteSet(H) /\ IsFiniteSet(A)
  BY FiniteAssumption, FS_Subset
<1>2. Cardinality(H) \in Nat /\ Cardinality(A) \in Nat
  BY <1>1, FS_CardinalityType
<1>3. (Cardinality(H) = 0 <=> H = {}) /\ (Cardinality(A) = 0 <=> A = {})
  BY <1>1, FS_EmptySet
<1>4. /\ Cardinality(H) = 1 => \E x : H = {x}
      /\ Cardinality(A) = 1 => \E x : A = {x}
  BY <1>1, FS_Singleton
<1>5. use_count(s) = Cardinality(H) + Cardinality(A) + (IF global = s THEN 1 ELSE 0)
  BY DEF use_count
<1>6. /\ \A t \in Threads : s \in held[t] <=> t \in H
      /\ \A t \in Threads : s \in all_sets[t] <=> t \in A
      /\ \A t \in H : t \in Threads
      /\ \A t \in A : t \in Threads
  OBVIOUS
<1> HIDE DEF H, A
<1>7. Unowned(s) <=> global # s /\ H = {} /\ A = {}
  BY <1>6 DEF Unowned
<1>8. use_count(s) \in Nat /\ (use_count(s) = 0 <=> Unowned(s))
  BY <1>2, <1>3, <1>5, <1>7
<1>9. ASSUME use_count(s) = 1
      PROVE  /\ global = s => H = {} /\ A = {}
             /\ global # s => H = {} \/ A = {}
             /\ H # {} => Cardinality(H) = 1 /\ global # s
             /\ A # {} => Cardinality(A) = 1 /\ global # s
  BY <1>2, <1>3, <1>5, <1>9
<1>10. ASSUME use_count(s) = 1, NEW t \in Threads, s \in held[t]
       PROVE  global # s /\ A = {} /\ H = {t}
  BY <1>4, <1>6, <1>9, <1>10
<1>11. ASSUME use_count(s) = 1, NEW t \in Threads, s \in all_sets[t]
       PROVE  global # s /\ H = {} /\ A = {t}
  BY <1>4, <1>6, <1>9, <1>11
<1>12. QED
  BY <1>6, <1>8, <1>9, <1>10, <1>11

LEMMA CreateStep ==
  ASSUME StateInv, NEW t \in Threads, NEW s \in Sets, Create(t, s)
  PROVE  StateInv'
<1> USE NoneAssumption DEF StateInv, Create, Call, Goto, Becomes, Hold, About, links
<1>1. TypeOK'
  BY DEF TypeOK
<1>2. HolderInv'
  BY DEF TypeOK, HolderInv, Locked
<1>3. OwnInv'
  BY DEF TypeOK, HolderInv, OwnInv, OwnersInv, Stage, Owning, Locked, Unowned
<1>4. OwnersInv'
  BY DEF TypeOK, OwnInv, Owning, Stage, OwnersInv, Unowned
<1>5. GlobalInv'
  BY DEF TypeOK, HolderInv, GlobalInv, Locked, OwnInv, Owning, OwnersInv, Unowned, Stage
<1>6. ExitInv'
  BY DEF TypeOK, ExitInv
<1>7. VectorInv'
  BY DEF TypeOK, HolderInv, Locked, VectorInv
<1>8. QED
  BY <1>1, <1>2, <1>3, <1>4, <1>5, <1>6, <1>7

LEMMA CreateLockStep ==
  ASSUME StateInv, NEW t \in Threads, CreateLock(t)
  PROVE  StateInv'
<1> USE NoneAssumption DEF StateInv, CreateLock, Goto, LockMetricSetsList, links
<1>1. TypeOK'
  BY DEF TypeOK
<1>2. HolderInv'
  BY DEF TypeOK, HolderInv, Locked
<1>3. OwnInv'
  BY DEF TypeOK, HolderInv, OwnInv, OwnersInv, Stage, Owning, Locked, Unowned
<1>4. OwnersInv'
  BY DEF TypeOK, OwnInv, Owning, Stage, OwnersInv, Unowned
<1>5. GlobalInv'
  BY DEF TypeOK, HolderInv, GlobalInv, Locked, OwnInv, Owning, OwnersInv, Unowned, Stage
<1>6. ExitInv'
  BY DEF TypeOK, ExitInv
<1>7. VectorInv'
  BY DEF TypeOK, HolderInv, Locked, VectorInv
<1>8. QED
  BY <1>1, <1>2, <1>3, <1>4, <1>5, <1>6, <1>7

LEMMA LinkStep ==
  ASSUME StateInv, NEW t \in Threads, Link(t)
  PROVE  StateInv'
<1> USE NoneAssumption DEF StateInv, Link, Goto, Becomes, links
<1>1. TypeOK'
  BY DEF TypeOK
<1>2. HolderInv'
  BY DEF TypeOK, HolderInv, Locked
<1>3. OwnInv'
  BY DEF TypeOK, HolderInv, OwnInv, OwnersInv, Stage, Owning, Locked, Unowned
<1>4. OwnersInv'
  BY DEF TypeOK, OwnInv, Owning, Stage, OwnersInv, Unowned
<1>5. GlobalInv'
  BY DEF TypeOK, HolderInv, GlobalInv, Locked, OwnInv, Owning, OwnersInv, Unowned, Stage, OwnInv, Owning
<1>6. ExitInv'
  BY DEF TypeOK, ExitInv
<1>7. VectorInv'
  BY DEF TypeOK, HolderInv, Locked, VectorInv
<1>8. QED
  BY <1>1, <1>2, <1>3, <1>4, <1>5, <1>6, <1>7

LEMMA CreatedStep ==
  ASSUME StateInv, NEW t \in Threads, Created(t)
  PROVE  StateInv'
<1> USE NoneAssumption DEF StateInv, Created, Goto, About, Unlock, links
<1>1. TypeOK'
  BY DEF TypeOK
<1>2. HolderInv'
  BY DEF TypeOK, HolderInv, Locked
<1>3. OwnInv'
  BY DEF TypeOK, HolderInv, OwnInv, OwnersInv, Stage, Owning, Locked, Unowned
<1>4. OwnersInv'
  BY DEF TypeOK, OwnInv, Owning, Stage, OwnersInv, Unowned
<1>5. GlobalInv'
  BY DEF TypeOK, HolderInv, GlobalInv, Locked, OwnInv, Owning, OwnersInv, Unowned, Stage
<1>6. ExitInv'
  BY DEF TypeOK, ExitInv
<1>7. VectorInv'
  BY DEF TypeOK, HolderInv, Locked, VectorInv
<1>8. QED
  BY <1>1, <1>2, <1>3, <1>4, <1>5, <1>6, <1>7

LEMMA DestroyStep ==
  ASSUME StateInv, NEW t \in Threads, Destroy(t)
  PROVE  StateInv'
<1> USE NoneAssumption DEF StateInv, Destroy, Goto, LockMetricSetsList, links
<1>1. TypeOK'
  BY DEF TypeOK
<1>2. HolderInv'
  BY DEF TypeOK, HolderInv, Locked
<1>3. OwnInv'
  BY DEF TypeOK, HolderInv, OwnInv, OwnersInv, Stage, Owning, Locked, Unowned
<1>4. OwnersInv'
  BY DEF TypeOK, OwnInv, Owning, Stage, OwnersInv, Unowned
<1>5. GlobalInv'
  BY DEF TypeOK, HolderInv, GlobalInv, Locked, OwnInv, Owning, OwnersInv, Unowned, Stage
<1>6. ExitInv'
  BY DEF TypeOK, ExitInv
<1>7. VectorInv'
  BY DEF TypeOK, HolderInv, Locked, VectorInv
<1>8. QED
  BY <1>1, <1>2, <1>3, <1>4, <1>5, <1>6, <1>7

LEMMA UnlinkStep ==
  ASSUME StateInv, NEW t \in Threads, Unlink(t)
  PROVE  StateInv'
<1> USE NoneAssumption DEF StateInv, Unlink, Goto, Becomes, links
<1>1. TypeOK'
  <2>1. at[t] \in Sets
    BY DEF OwnInv, Owning
  <2>2. QED
    BY <2>1 DEF TypeOK
<1>2. HolderInv'
  BY DEF TypeOK, HolderInv, Locked
<1>3. OwnInv'
  BY DEF TypeOK, HolderInv, OwnInv, OwnersInv, Stage, Owning, Locked, Unowned
<1>4. OwnersInv'
  BY DEF TypeOK, OwnInv, Owning, Stage, OwnersInv, Unowned
<1>5. GlobalInv'
  BY DEF TypeOK, HolderInv, GlobalInv, Locked, OwnInv, Owning, OwnersInv, Unowned, Stage
<1>6. ExitInv'
  BY DEF TypeOK, ExitInv
<1>7. VectorInv'
  BY DEF TypeOK, HolderInv, Locked, VectorInv
<1>8. QED
  BY <1>1, <1>2, <1>3, <1>4, <1>5, <1>6, <1>7

LEMMA DestroyedStep ==
  ASSUME StateInv, NEW t \in Threads, Destroyed(t)
  PROVE  StateInv'
<1> USE NoneAssumption DEF StateInv, Destroyed, Goto, Unlock, Becomes, About, links
<1>1. TypeOK'
  BY DEF TypeOK
<1>2. HolderInv'
  BY DEF TypeOK, HolderInv, Locked
<1>3. OwnInv'
  BY DEF TypeOK, HolderInv, OwnInv, OwnersInv, Stage, Owning, Locked, Unowned
<1>4. OwnersInv'
  BY DEF TypeOK, OwnInv, Owning, Stage, OwnersInv, Unowned
<1>5. GlobalInv'
  BY DEF TypeOK, HolderInv, GlobalInv, Locked, OwnInv, Owning, OwnersInv, Unowned, Stage
<1>6. ExitInv'
  BY DEF TypeOK, ExitInv
<1>7. VectorInv'
  BY DEF TypeOK, HolderInv, Locked, VectorInv
<1>8. QED
  BY <1>1, <1>2, <1>3, <1>4, <1>5, <1>6, <1>7

LEMMA DestroyedAfterExitStep ==
  ASSUME StateInv, NEW t \in Threads, DestroyedAfterExit(t)
  PROVE  StateInv'
<1> USE NoneAssumption DEF StateInv, DestroyedAfterExit, Goto, Becomes, About, links
<1>1. TypeOK'
  BY DEF TypeOK
<1>2. HolderInv'
  BY DEF TypeOK, HolderInv, Locked
<1>3. OwnInv'
  BY DEF TypeOK, HolderInv, OwnInv, OwnersInv, Stage, Owning, Locked, Unowned
<1>4. OwnersInv'
  BY DEF TypeOK, OwnInv, Owning, Stage, OwnersInv, Unowned
<1>5. GlobalInv'
  BY DEF TypeOK, HolderInv, GlobalInv, Locked, OwnInv, Owning, OwnersInv, Unowned, Stage
<1>6. ExitInv'
  BY DEF TypeOK, ExitInv
<1>7. VectorInv'
  BY DEF TypeOK, HolderInv, Locked, VectorInv
<1>8. QED
  BY <1>1, <1>2, <1>3, <1>4, <1>5, <1>6, <1>7

LEMMA GetAllStep ==
  ASSUME StateInv, NEW t \in Threads, GetAll(t)
  PROVE  StateInv'
<1> USE NoneAssumption DEF StateInv, GetAll, Call, Goto, LockMetricSetsList, About, links
<1>1. TypeOK'
  BY DEF TypeOK
<1>2. HolderInv'
  BY DEF TypeOK, HolderInv, Locked
<1>3. OwnInv'
  BY DEF TypeOK, HolderInv, OwnInv, OwnersInv, Stage, Owning, Locked, Unowned
<1>4. OwnersInv'
  BY DEF TypeOK, OwnInv, Owning, Stage, OwnersInv, Unowned
<1>5. GlobalInv'
  BY DEF TypeOK, HolderInv, GlobalInv, Locked, OwnInv, Owning, OwnersInv, Unowned, Stage
<1>6. ExitInv'
  BY DEF TypeOK, ExitInv
<1>7. VectorInv'
  BY DEF TypeOK, HolderInv, Locked, VectorInv
<1>8. QED
  BY <1>1, <1>2, <1>3, <1>4, <1>5, <1>6, <1>7

LEMMA VisitStep ==
  ASSUME StateInv, NEW t \in Threads, Visit(t), at[t] \in InList
  PROVE  StateInv'
<1> USE NoneAssumption DEF StateInv, Visit, Goto, About, links
<1>1. TypeOK'
  BY DEF TypeOK
<1>2. HolderInv'
  BY DEF TypeOK, HolderInv, Locked
<1>3. OwnInv'
  BY DEF TypeOK, HolderInv, OwnInv, OwnersInv, Stage, Owning, Locked, Unowned
<1>4. OwnersInv'
  <2>1. at[t] \in Sets /\ ~Unowned(at[t])
    BY UseCount DEF TypeOK
  <2>2. phase[at[t]] = "linked"
    BY <2>1 DEF TypeOK, OwnersInv, InList
  <2>3. QED
    BY <2>1, <2>2 DEF TypeOK, OwnersInv, Unowned
<1>5. GlobalInv'
  BY DEF TypeOK, HolderInv, GlobalInv, Locked, OwnInv, Owning, OwnersInv, Unowned, Stage
<1>6. ExitInv'
  BY DEF TypeOK, ExitInv
<1>7. VectorInv'
  BY DEF TypeOK, HolderInv, Locked, VectorInv
<1>8. QED
  BY <1>1, <1>2, <1>3, <1>4, <1>5, <1>6, <1>7

LEMMA ThrowStep ==
  ASSUME StateInv, NEW t \in Threads, Throw(t)
  PROVE  StateInv'
<1> USE NoneAssumption DEF StateInv, Throw, Goto, About, links
<1>1. TypeOK'
  BY DEF TypeOK
<1>2. HolderInv'
  BY DEF TypeOK, HolderInv, Locked
<1>3. OwnInv'
  BY DEF TypeOK, HolderInv, OwnInv, OwnersInv, Stage, Owning, Locked, Unowned
<1>4. OwnersInv'
  BY DEF TypeOK, OwnInv, Owning, Stage, OwnersInv, Unowned
<1>5. GlobalInv'
  BY DEF TypeOK, HolderInv, GlobalInv, Locked, OwnInv, Owning, OwnersInv, Unowned, Stage
<1>6. ExitInv'
  BY DEF TypeOK, ExitInv
<1>7. VectorInv'
  BY DEF TypeOK, HolderInv, Locked, VectorInv
<1>8. QED
  BY <1>1, <1>2, <1>3, <1>4, <1>5, <1>6, <1>7

LEMMA UnwindVectorStep ==
  ASSUME StateInv, NEW t \in Threads, NEW s \in Sets, UnwindVector(t, s)
  PROVE  StateInv'
<1> USE NoneAssumption DEF StateInv, UnwindVector, Release, Goto, About, Becomes, links
<1>1. TypeOK'
  BY DEF TypeOK
<1>2. HolderInv'
  BY DEF TypeOK, HolderInv, Locked
<1>3. OwnInv'
  BY DEF TypeOK, HolderInv, OwnInv, OwnersInv, Stage, Owning, Locked, Unowned
<1>4. OwnersInv'
  <2>1. /\ use_count(s) = 1 => Unowned(s)'
        /\ \A x \in Sets : Unowned(x) => Unowned(x)'
    BY UseCount DEF TypeOK, Unowned
  <2>2. phase[s] = "linked"
    BY DEF TypeOK, OwnInv, OwnersInv, Unowned, Owning
  <2>3. \A x \in Sets : phase'[x] = phase[x] \/ (x = s /\ phase'[x] = "expired" /\ use_count(s) = 1)
    BY DEF TypeOK
  <2>4. \A x \in Sets : phase'[x] \in {"none", "expired", "unlinked", "gone"} => Unowned(x)'
    BY <2>1, <2>3 DEF OwnersInv
  <2>5. QED
    BY <2>2, <2>3, <2>4 DEF TypeOK, OwnersInv
<1>5. GlobalInv'
  BY DEF TypeOK, HolderInv, GlobalInv, Locked, OwnInv, Owning, OwnersInv, Unowned, Stage
<1>6. ExitInv'
  BY DEF TypeOK, ExitInv
<1>7. VectorInv'
  BY DEF TypeOK, HolderInv, Locked, ExitInv, VectorInv
<1>8. QED
  BY <1>1, <1>2, <1>3, <1>4, <1>5, <1>6, <1>7

LEMMA UnwindLockStep ==
  ASSUME StateInv, NEW t \in Threads, UnwindLock(t)
  PROVE  StateInv'
<1> USE NoneAssumption DEF StateInv, UnwindLock, Goto, Unlock, links
<1>1. TypeOK'
  BY DEF TypeOK
<1>2. HolderInv'
  BY DEF TypeOK, HolderInv, Locked
<1>3. OwnInv'
  BY DEF TypeOK, HolderInv, OwnInv, OwnersInv, Stage, Owning, Locked, Unowned
<1>4. OwnersInv'
  BY DEF TypeOK, OwnInv, Owning, Stage, OwnersInv, Unowned
<1>5. GlobalInv'
  BY DEF TypeOK, HolderInv, GlobalInv, Locked, OwnInv, Owning, OwnersInv, Unowned, Stage
<1>6. ExitInv'
  BY DEF TypeOK, ExitInv
<1>7. VectorInv'
  BY DEF TypeOK, HolderInv, Locked, VectorInv
<1>8. QED
  BY <1>1, <1>2, <1>3, <1>4, <1>5, <1>6, <1>7

LEMMA ReturnStep ==
  ASSUME StateInv, NEW t \in Threads, Return(t)
  PROVE  StateInv'
<1> USE NoneAssumption DEF StateInv, Return, Goto, Hold, Unlock, links
<1>1. TypeOK'
  BY DEF TypeOK
<1>2. HolderInv'
  BY DEF TypeOK, HolderInv, Locked
<1>3. OwnInv'
  BY DEF TypeOK, HolderInv, OwnInv, OwnersInv, Stage, Owning, Locked, Unowned
<1>4. OwnersInv'
  BY DEF TypeOK, OwnInv, Owning, Stage, OwnersInv, Unowned
<1>5. GlobalInv'
  BY DEF TypeOK, HolderInv, GlobalInv, Locked, OwnInv, Owning, OwnersInv, Unowned, Stage
<1>6. ExitInv'
  BY DEF TypeOK, ExitInv
<1>7. VectorInv'
  BY DEF TypeOK, HolderInv, Locked, VectorInv
<1>8. QED
  BY <1>1, <1>2, <1>3, <1>4, <1>5, <1>6, <1>7

LEMMA GetGlobalStep ==
  ASSUME StateInv, NEW t \in Threads, GetGlobal(t)
  PROVE  StateInv'
<1> USE NoneAssumption DEF StateInv, GetGlobal, Call, Goto, LockMetricSetsList, links
<1>1. TypeOK'
  BY DEF TypeOK
<1>2. HolderInv'
  BY DEF TypeOK, HolderInv, Locked
<1>3. OwnInv'
  BY DEF TypeOK, HolderInv, OwnInv, OwnersInv, Stage, Owning, Locked, Unowned
<1>4. OwnersInv'
  BY DEF TypeOK, OwnInv, Owning, Stage, OwnersInv, Unowned
<1>5. GlobalInv'
  BY DEF TypeOK, HolderInv, GlobalInv, Locked, OwnInv, Owning, OwnersInv, Unowned, Stage
<1>6. ExitInv'
  BY DEF TypeOK, ExitInv
<1>7. VectorInv'
  BY DEF TypeOK, HolderInv, Locked, VectorInv
<1>8. QED
  BY <1>1, <1>2, <1>3, <1>4, <1>5, <1>6, <1>7

LEMMA TestGlobalStep ==
  ASSUME StateInv, NEW t \in Threads, TestGlobal(t)
  PROVE  StateInv'
<1> USE NoneAssumption DEF StateInv, TestGlobal, Goto, links
<1>1. TypeOK'
  BY DEF TypeOK
<1>2. HolderInv'
  BY DEF TypeOK, HolderInv, Locked
<1>3. OwnInv'
  BY DEF TypeOK, HolderInv, OwnInv, OwnersInv, Stage, Owning, Locked, Unowned
<1>4. OwnersInv'
  BY DEF TypeOK, OwnInv, Owning, Stage, OwnersInv, Unowned
<1>5. GlobalInv'
  BY DEF TypeOK, HolderInv, GlobalInv, Locked, OwnInv, Owning, OwnersInv, Unowned, Stage
<1>6. ExitInv'
  BY DEF TypeOK, ExitInv
<1>7. VectorInv'
  BY DEF TypeOK, HolderInv, Locked, VectorInv
<1>8. QED
  BY <1>1, <1>2, <1>3, <1>4, <1>5, <1>6, <1>7

LEMMA CreateGlobalStep ==
  ASSUME StateInv, NEW t \in Threads, NEW s \in Sets, CreateGlobal(t, s)
  PROVE  StateInv'
<1> USE NoneAssumption DEF StateInv, CreateGlobal, Goto, Becomes, About, links
<1>1. TypeOK'
  BY DEF TypeOK
<1>2. HolderInv'
  BY DEF TypeOK, HolderInv, Locked
<1>3. OwnInv'
  BY DEF TypeOK, HolderInv, OwnInv, OwnersInv, Stage, Owning, Locked, Unowned
<1>4. OwnersInv'
  BY DEF TypeOK, OwnInv, Owning, Stage, OwnersInv, Unowned
<1>5. GlobalInv'
  BY DEF TypeOK, HolderInv, GlobalInv, Locked, OwnInv, Owning, OwnersInv, Unowned, Stage
<1>6. ExitInv'
  BY DEF TypeOK, ExitInv
<1>7. VectorInv'
  BY DEF TypeOK, HolderInv, Locked, VectorInv
<1>8. QED
  BY <1>1, <1>2, <1>3, <1>4, <1>5, <1>6, <1>7

LEMMA ReturnGlobalStep ==
  ASSUME StateInv, NEW t \in Threads, ReturnGlobal(t)
  PROVE  StateInv'
<1> USE NoneAssumption DEF StateInv, ReturnGlobal, Goto, Hold, About, Unlock, links
<1>1. TypeOK'
  BY DEF TypeOK, GlobalInv
<1>2. HolderInv'
  BY DEF TypeOK, HolderInv, Locked
<1>3. OwnInv'
  BY DEF TypeOK, HolderInv, OwnInv, OwnersInv, Stage, Owning, Locked, Unowned
<1>4. OwnersInv'
  <2>1. global \in Sets /\ ~Unowned(global)
    BY DEF TypeOK, GlobalInv, Unowned
  <2>2. phase[global] = "linked"
    <3>1. phase[global] \in {"linked", "made"}
      BY <2>1 DEF TypeOK, OwnersInv
    <3>2. ASSUME NEW u \in Threads, pc[u] \in Owning, at[u] = global
          PROVE  phase[global] # "made"
      BY <2>1, <3>2 DEF TypeOK, OwnInv, Owning, Stage, GlobalInv, HolderInv, Locked
    <3>3. QED
      BY <2>1, <3>1, <3>2 DEF OwnInv
  <2>3. QED
    BY <2>1, <2>2 DEF TypeOK, OwnersInv, Unowned
<1>5. GlobalInv'
  BY DEF TypeOK, HolderInv, GlobalInv, Locked, OwnInv, Owning, OwnersInv, Unowned, Stage
<1>6. ExitInv'
  BY DEF TypeOK, ExitInv
<1>7. VectorInv'
  BY DEF TypeOK, HolderInv, Locked, VectorInv
<1>8. QED
  BY <1>1, <1>2, <1>3, <1>4, <1>5, <1>6, <1>7

LEMMA ExitStep ==
  ASSUME StateInv, NEW t \in Threads, Exit(t)
  PROVE  StateInv'
<1> USE NoneAssumption DEF StateInv, Exit, Release, Goto, About, Becomes, links
<1>1. TypeOK'
  BY DEF TypeOK
<1>2. HolderInv'
  BY DEF TypeOK, HolderInv, Locked
<1>3. OwnInv'
  BY DEF TypeOK, HolderInv, OwnInv, OwnersInv, Stage, Owning, Locked, Unowned
<1>4. OwnersInv'
  <2>1. CASE global = None
    BY <2>1 DEF TypeOK, OwnersInv, Unowned
  <2>2. CASE global # None
    <3>1. PICK s \in Sets : s = global
      BY <2>2 DEF TypeOK
    <3>2. global' = None /\ UNCHANGED <<held, all_sets>>
      OBVIOUS
    <3>3. /\ use_count(s) = 1 => Unowned(s)'
          /\ \A x \in Sets : Unowned(x) => Unowned(x)'
      BY <3>1, <3>2, UseCount DEF Unowned
    <3>4. phase[s] = "linked"
      BY <3>1 DEF TypeOK, OwnInv, OwnersInv, Unowned, Owning
    <3>5. \A x \in Sets : phase'[x] = phase[x] \/ (x = s /\ phase'[x] = "expired" /\ use_count(s) = 1)
      BY <2>2, <3>1 DEF TypeOK
    <3>6. ASSUME NEW x \in Sets, phase'[x] \in {"none", "expired", "unlinked", "gone"}
          PROVE  Unowned(x)'
      BY <3>3, <3>5, <3>6 DEF OwnersInv
    <3>7. QED
      BY <3>2, <3>4, <3>5, <3>6 DEF TypeOK, OwnersInv
  <2>3. QED
    BY <2>1, <2>2
<1>5. GlobalInv'
  BY DEF TypeOK, HolderInv, GlobalInv, Locked, OwnInv, Owning, OwnersInv, Unowned, Stage
<1>6. ExitInv'
  BY DEF TypeOK, ExitInv
<1>7. VectorInv'
  BY DEF TypeOK, HolderInv, Locked, VectorInv
<1>8. QED
  BY <1>1, <1>2, <1>3, <1>4, <1>5, <1>6, <1>7

LEMMA DropStep ==
  ASSUME StateInv, NEW t \in Threads, NEW s \in Sets, Drop(t, s)
  PROVE  StateInv'
<1> USE NoneAssumption DEF StateInv, Drop, Release, Goto, About, Becomes, links
<1>1. TypeOK'
  BY DEF TypeOK
<1>2. HolderInv'
  BY DEF TypeOK, HolderInv, Locked
<1>3. OwnInv'
  BY DEF TypeOK, HolderInv, OwnInv, OwnersInv, Stage, Owning, Locked, Unowned
<1>4. OwnersInv'
  <2>1. /\ use_count(s) = 1 => Unowned(s)'
        /\ \A x \in Sets : Unowned(x) => Unowned(x)'
    BY UseCount DEF TypeOK, Unowned
  <2>2. phase[s] = "linked"
    BY DEF TypeOK, OwnInv, OwnersInv, Unowned, Owning
  <2>3. \A x \in Sets : phase'[x] = phase[x] \/ (x = s /\ phase'[x] = "expired" /\ use_count(s) = 1)
    BY DEF TypeOK
  <2>4. \A x \in Sets : phase'[x] \in {"none", "expired", "unlinked", "gone"} => Unowned(x)'
    BY <2>1, <2>3 DEF OwnersInv
  <2>5. QED
    BY <2>2, <2>3, <2>4 DEF TypeOK, OwnersInv
<1>5. GlobalInv'
  BY DEF TypeOK, HolderInv, GlobalInv, Locked, OwnInv, Owning, OwnersInv, Unowned, Stage
<1>6. ExitInv'
  BY DEF TypeOK, ExitInv
<1>7. VectorInv'
  BY DEF TypeOK, HolderInv, Locked, VectorInv
<1>8. QED
  BY <1>1, <1>2, <1>3, <1>4, <1>5, <1>6, <1>7

LEMMA ShareStep ==
  ASSUME StateInv, NEW t \in Threads, NEW s \in Sets, NEW u \in Threads, Share(t, u, s)
  PROVE  StateInv'
<1> USE NoneAssumption DEF StateInv, Share, Call, Goto, Hold, links
<1>1. TypeOK'
  BY DEF TypeOK
<1>2. HolderInv'
  BY DEF TypeOK, HolderInv, Locked
<1>3. OwnInv'
  BY DEF TypeOK, HolderInv, OwnInv, OwnersInv, Stage, Owning, Locked, Unowned
<1>4. OwnersInv'
  BY DEF TypeOK, OwnInv, Owning, Stage, OwnersInv, Unowned
<1>5. GlobalInv'
  BY DEF TypeOK, HolderInv, GlobalInv, Locked, OwnInv, Owning, OwnersInv, Unowned, Stage
<1>6. ExitInv'
  BY DEF TypeOK, ExitInv
<1>7. VectorInv'
  BY DEF TypeOK, HolderInv, Locked, VectorInv
<1>8. QED
  BY <1>1, <1>2, <1>3, <1>4, <1>5, <1>6, <1>7

LEMMA StateStep ==
  ASSUME Inv, \A t \in Threads : pc[t] = "visiting" /\ at[t] # None => at[t] \in InList, [Next]_vars
  PROVE  StateInv'
<1> USE DEF Inv
<1>1. ASSUME Exited PROVE StateInv'
  BY <1>1 DEF StateInv, Exited, TypeOK, HolderInv, OwnInv, OwnersInv, GlobalInv, ExitInv, VectorInv, Unowned, links, Owning, Locked
<1>2. ASSUME UNCHANGED vars PROVE StateInv'
  BY <1>2 DEF StateInv, vars, TypeOK, HolderInv, OwnInv, OwnersInv, GlobalInv, ExitInv, VectorInv, Unowned, links
<1>3. ASSUME NEW t \in Threads, Step(t) PROVE StateInv'
  <2>1. ASSUME Visit(t) PROVE StateInv'
    BY <2>1, VisitStep DEF Visit, Goto
  <2>2. ASSUME NEW s \in Sets, Create(t, s) \/ Drop(t, s) \/ UnwindVector(t, s) \/ CreateGlobal(t, s)
        PROVE  StateInv'
    BY <2>2, CreateStep, DropStep, UnwindVectorStep, CreateGlobalStep
  <2>3. ASSUME NEW s \in Sets, NEW u \in Threads, Share(t, u, s) PROVE StateInv'
    BY <2>3, ShareStep
  <2>4. QED
    BY <1>3, <2>1, <2>2, <2>3, CreateLockStep, LinkStep, CreatedStep, DestroyStep, UnlinkStep, DestroyedStep,
       DestroyedAfterExitStep, GetAllStep, ThrowStep, UnwindLockStep, ReturnStep, GetGlobalStep,
       TestGlobalStep, ReturnGlobalStep, ExitStep DEF Step
<1>4. QED
  BY <1>1, <1>2, <1>3 DEF Next

-----------------------------------------------------------------------------
(***************************************************************************)
(* The list.  Most steps leave it as it is.                                *)
(***************************************************************************)
LEMMA ListStays ==
  ASSUME ListInv, UNCHANGED links, \A s \in Sets : (s \in InList)' <=> s \in InList,
         g_metrics = "deleted" => g_metrics' = "deleted",
         \A t \in Threads : pc'[t] = "visiting" =>
           pc[t] = "visiting" /\ UNCHANGED <<at[t], all_sets[t]>>
  PROVE  ListInv'
<1> SUFFICES ASSUME g_metrics # "deleted" PROVE ListInv'
    BY DEF ListInv
<1>1. PICK n \in Nat : \E q \in [1..n -> Sets] :
        IsList(n, q) /\ \A t \in Threads : pc[t] = "visiting" => \E k \in 0..n : LooksFrom(t, n, q, k)
  BY DEF ListInv
<1>5. PICK q \in [1..n -> Sets] :
        IsList(n, q) /\ \A t \in Threads : pc[t] = "visiting" => \E k \in 0..n : LooksFrom(t, n, q, k)
  BY <1>1
<1>2. IsList(n, q)'
  BY <1>5 DEF IsList, links
<1>3. ASSUME NEW t \in Threads, pc'[t] = "visiting" PROVE \E k \in 0..n : LooksFrom(t, n, q, k)'
  BY <1>5, <1>3 DEF LooksFrom
<1>4. QED
  BY <1>2, <1>3 DEF ListInv

LEMMA LinkList ==
  ASSUME Inv, NEW t \in Threads, Link(t)
  PROVE  ListInv'
<1> USE NoneAssumption DEF Inv, StateInv
<1>1. PICK s \in Sets : s = at[t] /\ phase[s] = "made"
  BY DEF OwnInv, Owning, Stage, Link, Goto
<1>2. g_metrics # "deleted"
  BY DEF ExitInv, Link, Goto
<1>0. PICK n \in Nat : \E q \in [1..n -> Sets] : IsList(n, q)
  BY <1>2 DEF ListInv
<1>3. PICK q \in [1..n -> Sets] : IsList(n, q)
  BY <1>0
<1>4. /\ next' = [next EXCEPT ![s] = head]
      /\ prev' = [x \in Sets |-> IF x = head THEN s ELSE prev[x]]
      /\ head' = s
      /\ phase' = [phase EXCEPT ![s] = "linked"]
  BY <1>1 DEF Link, Becomes
<1>5. \A x \in Sets : (x \in InList)' <=> (x \in InList \/ x = s)
  BY <1>4 DEF InList, TypeOK
<1>6. s \notin InList
  BY <1>1 DEF InList
<1> DEFINE r == [i \in 1..(n + 1) |-> IF i = n + 1 THEN s ELSE q[i]]
<1>7. /\ r \in [1..(n + 1) -> Sets]
      /\ r[n + 1] = s
      /\ \A i \in 1..n : r[i] = q[i] /\ r[i] # s
  BY <1>3, <1>6 DEF IsList
<1>8. 1..(n + 1) = 1..n \union {n + 1} /\ n + 1 \notin 1..n
  OBVIOUS
<1> HIDE DEF r
<1>9. \A i, j \in 1..(n + 1) : r[i] = r[j] => i = j
  BY <1>3, <1>7, <1>8 DEF IsList
<1>10. \A x \in Sets : (x \in InList)' <=> \E i \in 1..(n + 1) : r[i] = x
  BY <1>3, <1>5, <1>7, <1>8 DEF IsList
<1>11. \A i \in 1..(n + 1) : next'[r[i]] = IF i = 1 THEN None ELSE r[i - 1]
  BY <1>3, <1>4, <1>7, <1>8 DEF IsList, TypeOK
<1>12. \A i \in 1..(n + 1) : prev'[r[i]] = IF i = n + 1 THEN None ELSE r[i + 1]
  BY <1>3, <1>4, <1>6, <1>7, <1>8 DEF IsList, TypeOK
<1>13. \A x \in Sets : ~(x \in InList)' => prev'[x] = None
  BY <1>3, <1>4, <1>5 DEF IsList, TypeOK
<1>14. IsList(n + 1, r)'
  <2>1. n + 1 # 0 /\ head' = r[n + 1]
    BY <1>4, <1>7
  <2>2. QED
    BY <1>7, <1>9, <1>10, <1>11, <1>12, <1>13, <2>1, Zenon DEF IsList
<1>15. \A u \in Threads : pc'[u] # "visiting"
  BY DEF Link, Goto, HolderInv, Locked, TypeOK
<1>16. QED
  BY <1>7, <1>14, <1>15 DEF ListInv

LEMMA UnlinkList ==
  ASSUME Inv, NEW t \in Threads, Unlink(t)
  PROVE  ListInv'
<1> USE NoneAssumption DEF Inv, StateInv
<1>1. PICK s \in Sets : s = at[t] /\ phase[s] = "expired"
  BY DEF OwnInv, Owning, Stage, Unlink, Goto
<1>2. g_metrics # "deleted"
  BY DEF ExitInv, Unlink, Goto
<1>0. PICK n \in Nat : \E q \in [1..n -> Sets] : IsList(n, q)
  BY <1>2 DEF ListInv
<1>3. PICK q \in [1..n -> Sets] : IsList(n, q)
  BY <1>0
<1>4. /\ head' = IF prev[s] = None THEN next[s] ELSE head
      /\ next' = [x \in Sets |-> IF x = s THEN None ELSE IF x = prev[s] THEN next[s] ELSE next[x]]
      /\ prev' = [x \in Sets |-> IF x = s THEN None ELSE IF x = next[s] THEN prev[s] ELSE prev[x]]
      /\ phase' = [phase EXCEPT ![s] = "unlinked"]
  BY <1>1 DEF Unlink, Becomes
<1>5. \A x \in Sets : (x \in InList)' <=> (x \in InList /\ x # s)
  BY <1>4 DEF InList, TypeOK
<1>6. PICK k \in 1..n : q[k] = s
  BY <1>1, <1>3 DEF InList, IsList
<1>7. /\ next[s] = IF k = 1 THEN None ELSE q[k - 1]
      /\ prev[s] = IF k = n THEN None ELSE q[k + 1]
  BY <1>3, <1>6 DEF IsList
<1> DEFINE r == [i \in 1..(n - 1) |-> IF i < k THEN q[i] ELSE q[i + 1]]
<1>8. /\ n - 1 \in Nat
      /\ r \in [1..(n - 1) -> Sets]
      /\ \A i \in 1..(n - 1) : r[i] = IF i < k THEN q[i] ELSE q[i + 1]
  OBVIOUS
<1> HIDE DEF r
<1>9. \A i, j \in 1..(n - 1) : r[i] = r[j] => i = j
  <2> TAKE i, j \in 1..(n - 1)
  <2>1. i \in 1..n /\ i + 1 \in 1..n /\ j \in 1..n /\ j + 1 \in 1..n
    OBVIOUS
  <2>2. \A a, b \in 1..n : q[a] = q[b] => a = b
    BY <1>3 DEF IsList
  <2>3. QED
    BY <1>8, <2>1, <2>2
<1>10. \A x \in Sets : (x \in InList)' <=> \E i \in 1..(n - 1) : r[i] = x
  <2>1. ASSUME NEW x \in Sets, (x \in InList)' PROVE \E i \in 1..(n - 1) : r[i] = x
    <3>1. PICK j \in 1..n : q[j] = x /\ j # k
      BY <1>3, <1>5, <1>6, <2>1 DEF IsList
    <3>2. CASE j < k
      BY <1>8, <3>1, <3>2
    <3>3. CASE j > k
      <4>1. j - 1 \in 1..(n - 1) /\ ~(j - 1 < k)
        BY <3>3
      <4>2. r[j - 1] = q[j]
        BY <1>8, <4>1
      <4>3. QED
        BY <3>1, <4>1, <4>2
    <3>4. QED
      BY <3>1, <3>2, <3>3
  <2>2. ASSUME NEW i \in 1..(n - 1) PROVE r[i] # s /\ \E j \in 1..n : q[j] = r[i]
    BY <1>3, <1>6, <1>8 DEF IsList
  <2>3. ASSUME NEW x \in Sets, NEW i \in 1..(n - 1), r[i] = x PROVE (x \in InList)'
    <3>1. x # s /\ \E j \in 1..n : q[j] = x
      BY <2>2, <2>3
    <3>2. x \in InList
      BY <1>3, <3>1 DEF IsList
    <3>3. QED
      BY <1>5, <3>1, <3>2
  <2>4. QED
    BY <2>1, <2>3
<1>11. head' = IF n - 1 = 0 THEN None ELSE r[n - 1]
  <2>1. n # 0 /\ head = q[n]
    BY <1>3 DEF IsList
  <2>2. CASE k = n
    BY <1>4, <1>7, <1>8, <2>2
  <2>3. CASE k # n
    <3>1. prev[s] # None
      BY <1>7, <2>3
    <3>2. n - 1 \in 1..(n - 1) /\ r[n - 1] = q[n]
      BY <1>8, <2>3
    <3>3. QED
      BY <1>4, <2>1, <3>1, <3>2
  <2>4. QED
    BY <2>2, <2>3
<1>12. \A i \in 1..(n - 1) : next'[r[i]] = IF i = 1 THEN None ELSE r[i - 1]
  <2> TAKE i \in 1..(n - 1)
  <2>1. r[i] # s /\ r[i] \in Sets
    BY <1>3, <1>6, <1>8 DEF IsList
  <2>2. CASE i < k /\ i # 1
    BY <1>3, <1>4, <1>6, <1>7, <1>8, <2>1, <2>2 DEF IsList
  <2>3. CASE i = k
    BY <1>3, <1>4, <1>6, <1>7, <1>8, <2>1, <2>3 DEF IsList
  <2>4. CASE i > k
    BY <1>3, <1>4, <1>6, <1>7, <1>8, <2>1, <2>4 DEF IsList
  <2>5. CASE i < k /\ i = 1
    BY <1>3, <1>4, <1>6, <1>7, <1>8, <2>1, <2>5 DEF IsList
  <2>6. QED
    BY <2>2, <2>3, <2>4, <2>5
<1>13. \A i \in 1..(n - 1) : prev'[r[i]] = IF i = n - 1 THEN None ELSE r[i + 1]
  <2> TAKE i \in 1..(n - 1)
  <2>1. r[i] # s /\ r[i] \in Sets
    BY <1>3, <1>6, <1>8 DEF IsList
  <2>2. CASE i + 1 < k
    BY <1>3, <1>4, <1>6, <1>7, <1>8, <2>1, <2>2 DEF IsList
  <2>3. CASE i + 1 = k
    BY <1>3, <1>4, <1>6, <1>7, <1>8, <2>1, <2>3 DEF IsList
  <2>4. CASE i + 1 > k
    BY <1>3, <1>4, <1>6, <1>7, <1>8, <2>1, <2>4 DEF IsList
  <2>5. QED
    BY <2>2, <2>3, <2>4
<1>14. \A x \in Sets : ~(x \in InList)' => prev'[x] = None
  BY <1>3, <1>4, <1>5, <1>6, <1>7 DEF IsList
<1>15. IsList(n - 1, r)'
  BY <1>8, <1>9, <1>10, <1>11, <1>12, <1>13, <1>14 DEF IsList
<1>16. \A u \in Threads : pc'[u] # "visiting"
  BY DEF Unlink, Goto, HolderInv, Locked, TypeOK
<1>17. QED
  BY <1>8, <1>15, <1>16 DEF ListInv

LEMMA GetAllList ==
  ASSUME Inv, NEW t \in Threads, GetAll(t)
  PROVE  ListInv'
<1> USE DEF Inv, StateInv
<1>1. g_metrics # "deleted"
  BY DEF GetAll, Call
<1>2. PICK n \in Nat : \E q \in [1..n -> Sets] : IsList(n, q)
  BY <1>1 DEF ListInv
<1>3. PICK q \in [1..n -> Sets] : IsList(n, q)
  BY <1>2
<1>4. IsList(n, q)'
  BY <1>3 DEF GetAll, IsList, InList, links
<1>5. \A u \in Threads : pc'[u] = "visiting" => u = t
  BY NoneAssumption DEF GetAll, Call, Goto, LockMetricSetsList, HolderInv, Locked, TypeOK
<1>6. at'[t] = head /\ all_sets'[t] = all_sets[t]
  BY DEF GetAll, About, TypeOK
<1>7. LooksFrom(t, n, q, n)'
  BY <1>3, <1>6 DEF LooksFrom, VectorInv, IsList, GetAll, Call, Goto
<1>8. QED
  BY <1>4, <1>5, <1>7 DEF ListInv

LEMMA VisitList ==
  ASSUME Inv, NEW t \in Threads, Visit(t)
  PROVE  ListInv'
<1> USE NoneAssumption DEF Inv, StateInv
<1>1. g_metrics # "deleted" /\ pc[t] = "visiting"
  BY DEF Visit, Goto, ExitInv
<1>2. PICK n \in Nat : \E q \in [1..n -> Sets] : IsList(n, q) /\ \E k \in 0..n : LooksFrom(t, n, q, k)
  BY <1>1 DEF ListInv
<1>3. PICK q \in [1..n -> Sets] : IsList(n, q) /\ \E k \in 0..n : LooksFrom(t, n, q, k)
  BY <1>2
<1>4. PICK k \in 0..n : LooksFrom(t, n, q, k)
  BY <1>3
<1>5. IsList(n, q)'
  BY <1>3 DEF Visit, IsList, InList, links
<1>6. \A u \in Threads : pc'[u] = "visiting" => u = t
  BY DEF Visit, Goto, HolderInv, Locked, TypeOK
<1>7. k \in 1..n /\ k - 1 \in 0..n /\ at[t] = q[k]
  BY <1>4 DEF LooksFrom, Visit
<1>8. at'[t] = (IF k - 1 = 0 THEN None ELSE q[k - 1])
  BY <1>3, <1>7 DEF Visit, About, IsList, TypeOK
<1>9. all_sets'[t] = all_sets[t] \union {q[k]}
  BY <1>7 DEF Visit, TypeOK
<1>10. LooksFrom(t, n, q, k - 1)'
  <2>1. \A i \in 1..n : i > k - 1 <=> i > k \/ i = k
    BY <1>7
  <2>2. \A x \in Sets : x \in all_sets'[t] <=> \E i \in 1..n : i > k - 1 /\ q[i] = x
    BY <1>4, <1>7, <1>9, <2>1 DEF LooksFrom
  <2>3. QED
    BY <1>8, <2>2 DEF LooksFrom
<1>11. QED
  BY <1>5, <1>6, <1>7, <1>10 DEF ListInv

LEMMA ListStep ==
  ASSUME Inv, StateInv', [Next]_vars
  PROVE  ListInv'
<1> USE DEF Inv, StateInv
<1>1. CASE Exited \/ UNCHANGED vars
  BY <1>1, ListStays DEF Exited, vars, links, InList
<1>2. ASSUME NEW t \in Threads, NEW s \in Sets, Create(t, s) \/ CreateGlobal(t, s) PROVE ListInv'
  <2>1. \A x \in Sets : (x \in InList)' <=> x \in InList
    BY <1>2 DEF Create, CreateGlobal, Becomes, InList, TypeOK
  <2>2. \A u \in Threads : pc'[u] = "visiting" =>
          pc[u] = "visiting" /\ UNCHANGED <<at[u], all_sets[u]>>
    BY <1>2 DEF Create, CreateGlobal, Call, Goto, About, TypeOK
  <2>3. QED
    BY <1>2, <2>1, <2>2, ListStays DEF Create, CreateGlobal
<1>3. ASSUME NEW t \in Threads, NEW s \in Sets, Drop(t, s) \/ UnwindVector(t, s) PROVE ListInv'
  <2>1. phase[s] = "linked" \/ ~(phase'[s] = "expired")
    BY <1>3, UseCount DEF Drop, UnwindVector, OwnersInv, Unowned, TypeOK, OwnInv, Owning
  <2>2. \A x \in Sets : (x \in InList)' <=> x \in InList
    BY <1>3, <2>1 DEF Drop, UnwindVector, Release, Becomes, InList, TypeOK
  <2>3. \A u \in Threads : pc'[u] = "visiting" =>
          pc[u] = "visiting" /\ UNCHANGED <<at[u], all_sets[u]>>
    BY <1>3 DEF Drop, UnwindVector, Release, Goto, About, TypeOK
  <2>4. QED
    BY <1>3, <2>2, <2>3, ListStays DEF Drop, UnwindVector
<1>4. ASSUME NEW t \in Threads, NEW u \in Threads, NEW s \in Sets, Share(t, u, s) PROVE ListInv'
  BY <1>4, ListStays DEF Share, Call, Goto, InList, TypeOK
<1>5. ASSUME NEW t \in Threads, Exit(t) PROVE ListInv'
  <2>1. global # None /\ use_count(global) = 1 => phase[global] = "linked"
    BY <1>5 DEF Exit, OwnersInv, Unowned, TypeOK, OwnInv, Owning
  <2>2. \A x \in Sets : (x \in InList)' <=> x \in InList
    BY <1>5, <2>1 DEF Exit, Release, Becomes, InList, TypeOK
  <2>3. \A u \in Threads : pc'[u] # "visiting"
    BY <1>5 DEF Exit, Release, Goto, TypeOK
  <2>4. QED
    BY <1>5, <2>2, <2>3, ListStays DEF Exit
<1>6. ASSUME NEW t \in Threads, Destroyed(t) \/ DestroyedAfterExit(t) PROVE ListInv'
  <2>1. CASE g_metrics = "deleted"
    BY <1>6, <2>1 DEF Destroyed, DestroyedAfterExit, ListInv
  <2>2. CASE Destroyed(t)
    <3>1. at[t] \in Sets /\ phase[at[t]] = "unlinked"
      BY <2>2 DEF Destroyed, Goto, OwnInv, Owning, Stage
    <3>2. \A x \in Sets : (x \in InList)' <=> x \in InList
      BY <2>2, <3>1 DEF Destroyed, Becomes, InList, TypeOK
    <3>3. \A u \in Threads : pc'[u] = "visiting" =>
            pc[u] = "visiting" /\ UNCHANGED <<at[u], all_sets[u]>>
      BY <2>2 DEF Destroyed, Goto, About, TypeOK
    <3>4. QED
      BY <2>2, <3>2, <3>3, ListStays DEF Destroyed
  <2>3. QED
    BY <1>6, <2>1, <2>2 DEF DestroyedAfterExit
<1>7. ASSUME NEW t \in Threads,
             \/ CreateLock(t) \/ Created(t) \/ Destroy(t) \/ Throw(t) \/ UnwindLock(t) \/ Return(t)
             \/ GetGlobal(t) \/ TestGlobal(t) \/ ReturnGlobal(t)
      PROVE  ListInv'
  <2>1. UNCHANGED links /\ UNCHANGED phase /\ (g_metrics = "deleted" => g_metrics' = "deleted")
    BY <1>7 DEF CreateLock, Created, Destroy, Throw, UnwindLock, Return, GetGlobal, TestGlobal, ReturnGlobal,
                LockMetricSetsList
  <2>2. \A u \in Threads : pc'[u] = "visiting" =>
          pc[u] = "visiting" /\ UNCHANGED <<at[u], all_sets[u]>>
    BY <1>7 DEF CreateLock, Created, Destroy, Throw, UnwindLock, Return, GetGlobal, TestGlobal, ReturnGlobal,
                LockMetricSetsList, Call, Goto, About, TypeOK
  <2>3. QED
    BY <2>1, <2>2, ListStays DEF InList
<1>8. QED
  BY <1>1, <1>2, <1>3, <1>4, <1>5, <1>6, <1>7, LinkList, UnlinkList, GetAllList, VisitList DEF Next, Step

LEMMA InitInv == Init => Inv
<1> SUFFICES ASSUME Init PROVE Inv
    OBVIOUS
<1>1. StateInv
  BY NoneAssumption DEF Init, StateInv, TypeOK, HolderInv, OwnInv, OwnersInv, GlobalInv, ExitInv, VectorInv, Unowned, Owning,
                        Locked, VectorInv
<1>2. IsList(0, <<>>)
  BY DEF Init, IsList, InList
<1>3. <<>> \in [1..0 -> Sets]
  OBVIOUS
<1>4. QED
  BY <1>1, <1>2, <1>3 DEF Init, Inv, ListInv

LEMMA LoopVariable == ASSUME Inv PROVE LoopVariableValid
<1> SUFFICES ASSUME NEW t \in Threads, pc[t] = "visiting", at[t] # None PROVE at[t] \in InList
    BY DEF LoopVariableValid
<1>1. g_metrics # "deleted"
  BY DEF Inv, StateInv, ExitInv
<1>2. PICK n \in Nat : \E q \in [1..n -> Sets] : IsList(n, q) /\ \E k \in 0..n : LooksFrom(t, n, q, k)
  BY <1>1 DEF Inv, ListInv
<1>3. QED
  BY <1>2 DEF IsList, LooksFrom

LEMMA InvStep == Inv /\ [Next]_vars => Inv'
  BY StateStep, ListStep, LoopVariable DEF Inv, LoopVariableValid

(***************************************************************************)
(* What is said of the threads and the list holds in every reachable       *)
(* state.                                                                  *)
(***************************************************************************)
THEOREM MetricSetsInv == Spec => []Inv
  BY InitInv, InvStep, PTL DEF Spec

-----------------------------------------------------------------------------
(***************************************************************************)
(* A loop from the head meets the sets of the list, and no others.         *)
(***************************************************************************)
LEMMA ReachedList ==
  ASSUME TypeOK, NEW n \in Nat, NEW q \in [1..n -> Sets], IsList(n, q)
  PROVE  Reached(head) = InList
<1> USE NoneAssumption
<1> DEFINE most == Cardinality(Sets)
           v == CHOOSE visit : visit = [i \in 0..most |-> IF i = 0 THEN head
                                                      ELSE IF visit[i - 1] = None THEN None ELSE next[visit[i - 1]]]
           w == [i \in 0..most |-> IF i < n THEN q[n - i] ELSE None]
<1>1. most \in Nat /\ n <= most
  <2>1. most \in Nat
    BY FiniteAssumption, FS_CardinalityType
  <2>2. q \in Injection(1..n, Sets)
    BY DEF Injection, IsInjective, IsList
  <2>3. Cardinality(1..n) = n
    BY FS_Interval
  <2>4. QED
    BY <2>1, <2>2, <2>3, FiniteAssumption, FS_Injection
<1>2. Reached(head) = {v[i] : i \in 0..most} \ {None}
  BY DEF Reached
<1> HIDE DEF most
<1>3. ASSUME NEW i \in 0..most
      PROVE  w[i] = IF i = 0 THEN head ELSE IF w[i - 1] = None THEN None ELSE next[w[i - 1]]
  <2>1. CASE i = 0
    BY <1>1, <2>1 DEF IsList
  <2>2. CASE i # 0
    <3>1. i - 1 \in 0..most /\ w[i - 1] = IF i - 1 < n THEN q[n - (i - 1)] ELSE None
      BY <1>1, <2>2
    <3>2. CASE i - 1 < n
      <4>1. n - (i - 1) \in 1..n /\ n - (i - 1) - 1 = n - i
        BY <1>1, <2>2, <3>2
      <4>2. next[q[n - (i - 1)]] = IF n - (i - 1) = 1 THEN None ELSE q[n - i]
        BY <4>1 DEF IsList
      <4>3. w[i - 1] = q[n - (i - 1)] /\ q[n - (i - 1)] # None
        BY <3>1, <3>2, <4>1
      <4>4. n - (i - 1) = 1 <=> ~(i < n)
        BY <1>1, <3>2
      <4>5. QED
        BY <2>2, <4>2, <4>3, <4>4
    <3>3. CASE ~(i - 1 < n)
      BY <1>1, <2>2, <3>1, <3>3
    <3>4. QED
      BY <3>2, <3>3
  <2>3. QED
    BY <2>1, <2>2
<1>4. v = [i \in 0..most |-> IF i = 0 THEN head ELSE IF v[i - 1] = None THEN None ELSE next[v[i - 1]]]
  <2>1. w = [i \in 0..most |-> IF i = 0 THEN head ELSE IF w[i - 1] = None THEN None ELSE next[w[i - 1]]]
    BY <1>3
  <2> HIDE DEF w
  <2>2. QED
    BY <2>1, Zenon
<1> HIDE DEF v
<1>5. \A i \in 0..most : v[i] = w[i]
  <2> DEFINE S == {i \in Nat : i \in 0..most => v[i] = w[i]}
  <2> HIDE DEF w
  <2>1. 0 \in S
    BY <1>1, <1>3, <1>4
  <2>2. ASSUME NEW i \in Nat, i \in S PROVE i + 1 \in S
    <3>1. SUFFICES ASSUME i + 1 \in 0..most PROVE v[i + 1] = w[i + 1]
      OBVIOUS
    <3>2. i \in 0..most /\ i + 1 # 0 /\ (i + 1) - 1 = i
      BY <1>1, <3>1
    <3>3. v[i + 1] = IF v[i] = None THEN None ELSE next[v[i]]
      BY <1>4, <3>1, <3>2
    <3>4. w[i + 1] = IF w[i] = None THEN None ELSE next[w[i]]
      BY <1>3, <3>1, <3>2
    <3>5. v[i] = w[i]
      BY <2>2, <3>2
    <3>6. QED
      BY <3>3, <3>4, <3>5
  <2>3. Nat \subseteq S
    <3> HIDE DEF S
    <3>1. QED
      BY <2>1, <2>2, EveryNumber
  <2>4. QED
    BY <1>1, <2>3
<1>6. ASSUME NEW x \in InList PROVE \E i \in 0..most : v[i] = x
  <2>1. PICK j \in 1..n : q[j] = x
    BY DEF IsList, InList
  <2>2. n - j \in 0..most /\ n - j < n /\ n - (n - j) = j
    BY <1>1
  <2>3. w[n - j] = q[j]
    BY <2>2
  <2>4. QED
    BY <1>5, <2>1, <2>2, <2>3
<1>7. ASSUME NEW i \in 0..most, v[i] # None PROVE v[i] \in InList
  <2>1. i < n /\ v[i] = q[n - i]
    BY <1>5, <1>7
  <2>2. n - i \in 1..n
    BY <1>1, <2>1
  <2>3. QED
    BY <2>1, <2>2 DEF IsList
<1>8. None \notin InList
  BY DEF InList
<1>9. QED
  BY <1>2, <1>6, <1>7, <1>8

(* Whatever the threads do, until DeleteMetricsGlobals has run: the loops  *)
(* over the list of metric sets meet the sets that are linked, all of      *)
(* them, and its links invert each other.                                  *)
THEOREM ListStaysSound == Spec => []ListSound
<1>1. ASSUME Inv PROVE ListSound
  <2> USE NoneAssumption DEF Inv, StateInv
  <2>0. TypeOK
    BY <1>1
  <2> SUFFICES ASSUME g_metrics # "deleted" PROVE ListSound
      BY <2>0, Zenon DEF ListSound
  <2>1. PICK n \in Nat : \E q \in [1..n -> Sets] : IsList(n, q)
    BY <1>1 DEF ListInv
  <2>2. PICK q \in [1..n -> Sets] : IsList(n, q)
    BY <2>1
  <2>3. Reached(head) = InList
    BY <1>1, <2>2, ReachedList
  <2>4. ASSUME NEW s \in InList
        PROVE  /\ IF prev[s] = None THEN head = s ELSE next[prev[s]] = s
               /\ next[s] # None => prev[next[s]] = s
    <3>1. PICK i \in 1..n : q[i] = s
      BY <2>2 DEF IsList, InList
    <3>2. next[s] = (IF i = 1 THEN None ELSE q[i - 1]) /\ prev[s] = (IF i = n THEN None ELSE q[i + 1])
      BY <2>2, <3>1 DEF IsList
    <3>3. CASE i = n
      BY <2>2, <3>1, <3>2, <3>3 DEF IsList
    <3>4. CASE i # n
      BY <2>2, <3>1, <3>2, <3>4 DEF IsList
    <3>5. QED
      BY <3>3, <3>4
  <2>5. QED
    BY <2>0, <2>3, <2>4, Zenon DEF ListSound
<1>2. QED
  BY <1>1, MetricSetsInv, PTL

(* GetAll and the list never bring back a set whose last owner has gone,   *)
(* and never look at one that is destroyed.                                *)
THEOREM NoSetComesBack == Spec => []SetsStayValid
<1>1. ASSUME Inv PROVE NoResurrection
  BY <1>1, UseCount DEF Inv, StateInv, OwnersInv, NoResurrection
<1>2. Inv => SetsStayValid
  BY <1>1, LoopVariable DEF SetsStayValid
<1>3. QED
  BY <1>2, MetricSetsInv, PTL

(* What GetAll returns is the list at that moment, whatever was created,   *)
(* shared and dropped while it looked.                                     *)
THEOREM GetAllIsComplete == Spec => []AnswerComplete
<1>1. ASSUME Inv PROVE AnswerComplete
  <2> SUFFICES ASSUME NEW t \in Threads, pc[t] = "visiting", at[t] = None PROVE all_sets[t] = InList
      BY DEF AnswerComplete
  <2>1. g_metrics # "deleted"
    BY <1>1 DEF Inv, StateInv, ExitInv
  <2>2. PICK n \in Nat : \E q \in [1..n -> Sets] : IsList(n, q) /\ \E k \in 0..n : LooksFrom(t, n, q, k)
    BY <1>1, <2>1 DEF Inv, ListInv
  <2>3. PICK q \in [1..n -> Sets] : IsList(n, q) /\ \E k \in 0..n : LooksFrom(t, n, q, k)
    BY <2>2
  <2>4. LooksFrom(t, n, q, 0)
    BY <2>3, NoneAssumption DEF LooksFrom
  <2>5. \A s \in Sets : s \in all_sets[t] <=> s \in InList
    BY <2>3, <2>4 DEF LooksFrom, IsList
  <2>6. all_sets[t] \subseteq Sets /\ InList \subseteq Sets
    BY <1>1 DEF Inv, StateInv, TypeOK, InList
  <2>7. QED
    BY <2>5, <2>6
<1>2. QED
  BY <1>1, MetricSetsInv, PTL

(* However many threads ask for the global set first, there is one, until  *)
(* the program ends.                                                       *)
THEOREM GlobalIsOne == Spec => OneGlobal
<1>1. ASSUME Inv, [Next]_vars, global # None, g_metrics' = "alive" PROVE global' = global
  <2>1. CASE UNCHANGED vars
    BY <2>1 DEF vars
  <2>2. CASE Exited
    BY <2>2 DEF Exited
  <2>3. ASSUME NEW t \in Threads, Step(t) PROVE global' = global
    BY <1>1, <2>3 DEF Inv, StateInv, GlobalInv, Step, CreateLock, Link, Created, Destroy, Unlink, Destroyed,
       DestroyedAfterExit, GetAll, Visit, Throw, UnwindLock, Return, GetGlobal, TestGlobal, ReturnGlobal,
       Exit, Create, Drop, UnwindVector, CreateGlobal, Share, Goto
  <2>4. QED
    BY <1>1, <2>1, <2>2, <2>3 DEF Next
<1>2. [Next]_vars /\ Inv => [global # None /\ g_metrics' = "alive" => global' = global]_vars
  BY <1>1
<1>3. QED
  BY <1>2, MetricSetsInv, PTL DEF Spec, OneGlobal

-----------------------------------------------------------------------------

(***************************************************************************)
(* What a MetricSet holds.  Whoever creates a definition or resets has the *)
(* mutex, so that the tree is whole but for the one definition that its    *)
(* holder has linked and not yet put into the list of all; and a           *)
(* definition has as many ticks as samples and AddTicks in their middle,   *)
(* but for those that its last reset crossed.                              *)
(***************************************************************************)
Frames ==
  [at : {"idle"}]
  \union [at : {"link", "own"}, def : Defs, parent : Defs \union {NoParent}]
  \union [at : {"sample"}, def : Defs]
  \union [at : {"zero ticks", "zero samples"}, todo : Seq(Defs)]
  \union [at : {"zero values"}, todo : Seq(Counters \union {Derived})]

ContentsTypes ==
  /\ setMutex \in TwoThreads \union {Nobody}
  /\ m_parent \in [Defs -> Defs \union {NoParent}]
  /\ m_children \in [Defs -> Seq(Defs)]
  /\ m_root_timer_defs \in Seq(Defs)
  /\ m_all_timer_defs \in Seq(Defs)
  /\ m_all_values \in Seq(Counters \union {Derived})
  /\ ticks \in [Defs -> Nat]
  /\ samples \in [Defs -> Nat]
  /\ early \in [Defs -> Nat]
  /\ late \in [Defs -> Nat]
  /\ m_value \in [Counters -> Nat]
  /\ total \in Nat
  /\ frame \in [TwoThreads -> Frames]

Holding == {"link", "own", "zero ticks", "zero samples", "zero values"}

HoldersInv ==
  \A t \in TwoThreads :
    /\ frame[t].at \in Holding <=> setMutex = t
    /\ frame[t].at = "zero samples" => frame[t].todo # <<>>

InMiddle(d) == {t \in TwoThreads : frame[t].at = "sample" /\ frame[t].def = d}
InReset(d) == \E t \in TwoThreads : frame[t].at = "zero samples" /\ Head(frame[t].todo) = d

CountInv ==
  /\ total <= MaxSamples
  /\ \A c \in Counters : m_value[c] <= total
  /\ \A d \in Defs :
       /\ IsFiniteSet(InMiddle(d))
       /\ ticks[d] <= total
       /\ samples[d] + Cardinality(InMiddle(d)) <= total
       /\ InReset(d) => ticks[d] = late[d] /\ Cardinality(InMiddle(d)) <= early[d] + late[d]
       /\ ~InReset(d) => /\ ticks[d] - samples[d] - Cardinality(InMiddle(d)) >= -early[d]
                         /\ ticks[d] - samples[d] - Cardinality(InMiddle(d)) <= late[d]

AllDefs == ToSet(m_all_timer_defs)
Owned == {d \in Defs : \E t \in TwoThreads : frame[t].at = "own" /\ frame[t].def = d}
OnceIn(s, d) == \E i \in DOMAIN s : {j \in DOMAIN s : s[j] = d} = {i}
Older(s, p, d) == \E i, j \in DOMAIN s : i < j /\ s[i] = p /\ s[j] = d
SiblingsOf(d) == IF m_parent[d] = NoParent THEN m_root_timer_defs ELSE m_children[m_parent[d]]

TreeInv ==
  /\ \A i, j \in DOMAIN m_all_timer_defs : m_all_timer_defs[i] = m_all_timer_defs[j] => i = j
  /\ \A d \in AllDefs \union Owned : OnceIn(SiblingsOf(d), d)
  /\ \A d \in AllDefs : m_parent[d] # NoParent => Older(m_all_timer_defs, m_parent[d], d)
  /\ \A d \in Owned : m_parent[d] # NoParent => m_parent[d] \in AllDefs
  /\ \A d \in ToSet(m_root_timer_defs) : d \in AllDefs \union Owned /\ m_parent[d] = NoParent
  /\ \A p \in Defs : \A d \in ToSet(m_children[p]) : d \in AllDefs \union Owned /\ m_parent[d] = p
  /\ \A d \in Defs \ (AllDefs \union Owned) : m_parent[d] = NoParent
  /\ \A t \in TwoThreads : frame[t].at \in {"link", "own"} => frame[t].def \notin AllDefs
  /\ \A t \in TwoThreads : frame[t].at = "link" => frame[t].parent \in AllDefs \union {NoParent}

ContentsInv == ContentsTypes /\ HoldersInv /\ CountInv /\ TreeInv

MContents == <<ticks, samples, early, late, m_value, total>>
MTree == <<m_parent, m_children, m_root_timer_defs, m_all_timer_defs>>

LEMMA MiddleChanges ==
  ASSUME frame \in [TwoThreads -> Frames], NEW t \in TwoThreads, NEW f, NEW d,
         frame' = [frame EXCEPT ![t] = f]
  PROVE  /\ f.at = "sample" /\ f.def = d => InMiddle(d)' = InMiddle(d) \union {t}
         /\ ~(f.at = "sample" /\ f.def = d) => InMiddle(d)' = InMiddle(d) \ {t}
<1>1. frame'[t] = f /\ \A u \in TwoThreads : u # t => frame'[u] = frame[u]
  OBVIOUS
<1> QED
  BY <1>1, Zenon DEF InMiddle

(* What is neither in AddTicks nor in TimerDef::Reset leaves the counts.   *)
LEMMA CountsStay ==
  ASSUME frame \in [TwoThreads -> Frames], CountInv, UNCHANGED MContents,
         NEW t \in TwoThreads, NEW f, frame' = [frame EXCEPT ![t] = f],
         frame[t].at \notin {"sample", "zero samples"}, f.at \notin {"sample", "zero samples"}
  PROVE  CountInv'
<1>1. frame'[t] = f /\ \A u \in TwoThreads : u # t => frame'[u] = frame[u]
  OBVIOUS
<1>2. ASSUME NEW d \in Defs
      PROVE  InMiddle(d)' = InMiddle(d) /\ (InReset(d)' <=> InReset(d))
  <2>1. InMiddle(d)' = InMiddle(d)
    BY <1>1, Zenon DEF InMiddle
  <2>2. InReset(d)' <=> InReset(d)
    BY <1>1, Zenon DEF InReset
  <2> QED
    BY <2>1, <2>2
<1> QED
  BY <1>2 DEF CountInv, MContents

(* What creates no definition leaves the tree.                             *)
LEMMA TreeStays ==
  ASSUME frame \in [TwoThreads -> Frames], TreeInv, UNCHANGED MTree,
         NEW t \in TwoThreads, NEW f, frame' = [frame EXCEPT ![t] = f],
         frame[t].at \notin {"link", "own"}, f.at \notin {"link", "own"}
  PROVE  TreeInv'
<1>1. frame'[t] = f /\ \A u \in TwoThreads : u # t => frame'[u] = frame[u]
  OBVIOUS
<1>2. Owned' = Owned
  BY <1>1, Zenon DEF Owned
<1>3. AllDefs' = AllDefs /\ \A d : SiblingsOf(d)' = SiblingsOf(d)
  BY DEF AllDefs, SiblingsOf, MTree
<1>4. \A u \in TwoThreads : frame'[u].at \in {"link", "own"} => frame'[u] = frame[u]
  BY <1>1
<1> QED
  BY <1>2, <1>3, <1>4 DEF TreeInv, MTree

(* The same for a step that changes neither frames nor what is counted.    *)
LEMMA CountsAndTreeStay ==
  ASSUME HoldersInv, CountInv, TreeInv, UNCHANGED <<MContents, MTree, frame, setMutex>>
  PROVE  HoldersInv' /\ CountInv' /\ TreeInv'
<1>1. /\ \A d : InMiddle(d)' = InMiddle(d) /\ (InReset(d)' <=> InReset(d)) /\ SiblingsOf(d)' = SiblingsOf(d)
      /\ Owned' = Owned /\ AllDefs' = AllDefs
  BY DEF InMiddle, InReset, Owned, AllDefs, SiblingsOf, MTree
<1>2. HoldersInv'
  BY DEF HoldersInv
<1>3. CountInv'
  BY <1>1 DEF CountInv, MContents
<1>4. TreeInv'
  BY <1>1 DEF TreeInv, MTree
<1> QED
  BY <1>2, <1>3, <1>4

(* Locking for what comes next, unlocking, and going on with it.           *)
LEMMA HoldersLock ==
  ASSUME HoldersInv, frame \in [TwoThreads -> Frames], NEW t \in TwoThreads, NEW f,
         frame' = [frame EXCEPT ![t] = f], f.at = "zero samples" => f.todo # <<>>,
         \/ setMutex = Nobody /\ setMutex' = t /\ f.at \in Holding
         \/ setMutex = t /\ setMutex' = Nobody /\ f.at \notin Holding
         \/ setMutex' = setMutex /\ (f.at \in Holding <=> frame[t].at \in Holding)
  PROVE  HoldersInv'
<1>1. frame'[t] = f /\ \A u \in TwoThreads : u # t => frame'[u] = frame[u]
  OBVIOUS
<1>2. Nobody \notin TwoThreads
  BY ContentsAssumption
<1>3. ASSUME NEW u \in TwoThreads
      PROVE  /\ frame'[u].at \in Holding <=> setMutex' = u
             /\ frame'[u].at = "zero samples" => frame'[u].todo # <<>>
  <2> DEFINE H(g) == g.at \in Holding
  <2>1. H(frame[u]) <=> setMutex = u
    BY DEF HoldersInv
  <2>2. H(frame[t]) <=> setMutex = t
    BY DEF HoldersInv
  <2>3. \/ setMutex = Nobody /\ setMutex' = t /\ H(f)
        \/ setMutex = t /\ setMutex' = Nobody /\ ~H(f)
        \/ setMutex' = setMutex /\ (H(f) <=> H(frame[t]))
    OBVIOUS
  <2>4. frame'[u].at = "zero samples" => frame'[u].todo # <<>>
    BY <1>1 DEF HoldersInv
  <2> HIDE DEF H
  <2>5. H(frame'[u]) <=> setMutex' = u
    BY <1>1, <1>2, <2>1, <2>2, <2>3, Zenon
  <2> QED
    BY <2>4, <2>5 DEF H
<1> QED
  BY <1>3 DEF HoldersInv

(* Which definitions are being reset, when the frame of one thread changes *)
LEMMA ResetChanges ==
  ASSUME frame \in [TwoThreads -> Frames], NEW t \in TwoThreads, NEW f, NEW d,
         frame' = [frame EXCEPT ![t] = f]
  PROVE  /\ f.at = "zero samples" /\ Head(f.todo) = d => InReset(d)'
         /\ frame[t].at # "zero samples" /\ f.at # "zero samples" => (InReset(d)' <=> InReset(d))
         /\ (\A u \in TwoThreads : frame[u].at = "zero samples" => u = t) /\ f.at # "zero samples" => ~InReset(d)'
         /\ (\A u \in TwoThreads : frame[u].at = "zero samples" => u = t) /\ f.at = "zero samples" =>
              (InReset(d)' <=> Head(f.todo) = d)
<1>1. frame'[t] = f /\ \A u \in TwoThreads : u # t => frame'[u] = frame[u]
  OBVIOUS
<1>2. InReset(d)' <=> \E u \in TwoThreads : frame'[u].at = "zero samples" /\ Head(frame'[u].todo) = d
  BY DEF InReset
<1>3. InReset(d) <=> \E u \in TwoThreads : frame[u].at = "zero samples" /\ Head(frame[u].todo) = d
  BY DEF InReset
<1> QED
  BY <1>1, <1>2, <1>3, Zenon

LEMMA MiddleCount ==
  ASSUME CountInv, NEW d \in Defs
  PROVE  IsFiniteSet(InMiddle(d)) /\ Cardinality(InMiddle(d)) \in Nat
BY FS_CardinalityType DEF CountInv

LEMMA AddTicksCounts ==
  ASSUME ContentsTypes, HoldersInv, CountInv, NEW t \in TwoThreads, NEW d \in Defs, M!AddTicks(t, d)
  PROVE  CountInv'
<1>1. /\ frame[t].at = "idle" /\ total < MaxSamples /\ total' = total + 1
      /\ ticks' = [ticks EXCEPT ![d] = ticks[d] + 1]
      /\ late' = [late EXCEPT ![d] = IF M!IsReset(d) THEN late[d] + 1 ELSE late[d]]
      /\ frame' = [frame EXCEPT ![t] = [at |-> "sample", def |-> d]]
      /\ UNCHANGED <<samples, m_value, early>>
  BY DEF M!AddTicks, M!At, M!Goes
<1>2. M!IsReset(d) <=> InReset(d)
  BY DEF M!IsReset, M!At, InReset
<1>3. frame \in [TwoThreads -> Frames] /\ total \in Nat /\ MaxSamples \in Nat
  BY ContentsAssumption DEF ContentsTypes
<1>4. total' <= MaxSamples /\ total' = total + 1
  BY <1>1, <1>3
<1>5. \A c \in Counters : m_value'[c] <= total'
  BY <1>1, <1>3 DEF CountInv, ContentsTypes
<1>6. ASSUME NEW e \in Defs
      PROVE  /\ InReset(e)' <=> InReset(e)
             /\ e = d => InMiddle(e)' = InMiddle(e) \union {t} /\ t \notin InMiddle(e)
             /\ e # d => InMiddle(e)' = InMiddle(e)
  <2> DEFINE f == [at |-> "sample", def |-> d]
  <2>1. frame' = [frame EXCEPT ![t] = f] /\ f.at = "sample" /\ f.def = d
    BY <1>1
  <2>2. t \notin InMiddle(e)
    BY <1>1 DEF InMiddle
  <2> HIDE DEF f
  <2>3. InReset(e)' <=> InReset(e)
    BY <1>1, <1>3, <2>1, ResetChanges
  <2>4. e = d => InMiddle(e)' = InMiddle(e) \union {t}
    BY <1>3, <2>1, MiddleChanges
  <2>5. e # d => InMiddle(e)' = InMiddle(e) \ {t}
    BY <1>3, <2>1, MiddleChanges
  <2> QED
    BY <2>2, <2>3, <2>4, <2>5
<1>7. ASSUME NEW e \in Defs
      PROVE  /\ IsFiniteSet(InMiddle(e)')
             /\ Cardinality(InMiddle(e)') = IF e = d THEN Cardinality(InMiddle(e)) + 1 ELSE Cardinality(InMiddle(e))
  BY <1>6, MiddleCount, FS_AddElement
<1>8. ASSUME NEW e \in Defs
      PROVE  /\ ticks[e] \in Nat /\ samples[e] \in Nat /\ early[e] \in Nat /\ late[e] \in Nat
             /\ samples'[e] = samples[e] /\ early'[e] = early[e]
             /\ ticks'[e] = IF e = d THEN ticks[e] + 1 ELSE ticks[e]
             /\ late'[e] = IF e = d /\ InReset(e) THEN late[e] + 1 ELSE late[e]
  BY <1>1, <1>2 DEF ContentsTypes
<1>9. ASSUME NEW e \in Defs
      PROVE  /\ ticks'[e] <= total'
             /\ samples'[e] + Cardinality(InMiddle(e)') <= total'
             /\ InReset(e)' => ticks'[e] = late'[e] /\ Cardinality(InMiddle(e)') <= early'[e] + late'[e]
             /\ ~InReset(e)' => /\ ticks'[e] - samples'[e] - Cardinality(InMiddle(e)') >= -early'[e]
                                /\ ticks'[e] - samples'[e] - Cardinality(InMiddle(e)') <= late'[e]
  <2> DEFINE n == Cardinality(InMiddle(e))
             m == Cardinality(InMiddle(e)')
  <2>1. n \in Nat /\ m = IF e = d THEN n + 1 ELSE n
    BY <1>7, MiddleCount
  <2>2. /\ ticks[e] <= total /\ samples[e] + n <= total
        /\ InReset(e) => ticks[e] = late[e] /\ n <= early[e] + late[e]
        /\ ~InReset(e) => ticks[e] - samples[e] - n >= -early[e] /\ ticks[e] - samples[e] - n <= late[e]
    BY DEF CountInv
  <2>3. InReset(e)' <=> InReset(e)
    BY <1>6
  <2> HIDE DEF n, m
  <2>4. CASE e = d
    BY <1>3, <1>4, <1>8, <2>1, <2>2, <2>3, <2>4 DEF n, m
  <2>5. CASE e # d
    BY <1>3, <1>4, <1>8, <2>1, <2>2, <2>3, <2>5 DEF n, m
  <2> QED
    BY <2>4, <2>5
<1> QED
  BY <1>4, <1>5, <1>7, <1>9 DEF CountInv

LEMMA AddSampleCounts ==
  ASSUME ContentsTypes, HoldersInv, CountInv, NEW t \in TwoThreads, M!AddSample(t)
  PROVE  CountInv'
<1> DEFINE d == frame[t].def
           f == [at |-> "idle"]
<1>1. /\ frame[t].at = "sample" /\ d \in Defs
      /\ samples' = [samples EXCEPT ![d] = samples[d] + 1]
      /\ frame' = [frame EXCEPT ![t] = f]
      /\ UNCHANGED <<ticks, m_value, early, late, total>>
  BY DEF M!AddSample, M!At, M!Goes, M!Idle, ContentsTypes, Frames
<1>2. f.at = "idle" /\ t \in InMiddle(d)
  BY <1>1 DEF InMiddle
<1>3. frame \in [TwoThreads -> Frames] /\ total \in Nat
  BY DEF ContentsTypes
<1> HIDE DEF f
<1>4. ASSUME NEW e \in Defs
      PROVE  (InReset(e)' <=> InReset(e)) /\ InMiddle(e)' = InMiddle(e) \ {t} /\ (t \in InMiddle(e) <=> e = d)
  <2>1. InReset(e)' <=> InReset(e)
    BY <1>1, <1>2, <1>3, ResetChanges
  <2>2. InMiddle(e)' = InMiddle(e) \ {t}
    BY <1>1, <1>2, <1>3, MiddleChanges
  <2>3. t \in InMiddle(e) <=> e = d
    BY <1>1 DEF InMiddle
  <2> QED
    BY <2>1, <2>2, <2>3
<1> HIDE DEF d
<1>5. ASSUME NEW e \in Defs
      PROVE  /\ IsFiniteSet(InMiddle(e)')
             /\ Cardinality(InMiddle(e)') = IF e = d THEN Cardinality(InMiddle(e)) - 1 ELSE Cardinality(InMiddle(e))
  BY <1>4, MiddleCount, FS_RemoveElement
<1>6. ASSUME NEW e \in Defs
      PROVE  /\ ticks[e] \in Nat /\ samples[e] \in Nat /\ early[e] \in Nat /\ late[e] \in Nat
             /\ ticks'[e] = ticks[e] /\ early'[e] = early[e] /\ late'[e] = late[e] /\ total' = total
             /\ samples'[e] = IF e = d THEN samples[e] + 1 ELSE samples[e]
  BY <1>1 DEF ContentsTypes
<1>7. ASSUME NEW e \in Defs
      PROVE  /\ ticks'[e] <= total'
             /\ samples'[e] + Cardinality(InMiddle(e)') <= total'
             /\ InReset(e)' => ticks'[e] = late'[e] /\ Cardinality(InMiddle(e)') <= early'[e] + late'[e]
             /\ ~InReset(e)' => /\ ticks'[e] - samples'[e] - Cardinality(InMiddle(e)') >= -early'[e]
                                /\ ticks'[e] - samples'[e] - Cardinality(InMiddle(e)') <= late'[e]
  <2> DEFINE n == Cardinality(InMiddle(e))
             m == Cardinality(InMiddle(e)')
  <2>1. n \in Nat /\ m = IF e = d THEN n - 1 ELSE n
    BY <1>5, MiddleCount
  <2>2. /\ ticks[e] <= total /\ samples[e] + n <= total
        /\ InReset(e) => ticks[e] = late[e] /\ n <= early[e] + late[e]
        /\ ~InReset(e) => ticks[e] - samples[e] - n >= -early[e] /\ ticks[e] - samples[e] - n <= late[e]
    BY DEF CountInv
  <2>3. InReset(e)' <=> InReset(e)
    BY <1>4
  <2> HIDE DEF n, m
  <2>4. CASE e = d
    BY <1>3, <1>6, <2>1, <2>2, <2>3, <2>4 DEF n, m
  <2>5. CASE e # d
    BY <1>3, <1>6, <2>1, <2>2, <2>3, <2>5 DEF n, m
  <2> QED
    BY <2>4, <2>5
<1>8. total' <= MaxSamples /\ \A c \in Counters : m_value'[c] <= total'
  BY <1>1 DEF CountInv
<1> QED
  BY <1>5, <1>7, <1>8 DEF CountInv

(* Only the holder of the mutex is in a reset.                             *)
LEMMA OneReset ==
  ASSUME HoldersInv, NEW t \in TwoThreads, frame[t].at \in Holding, NEW u \in TwoThreads,
         frame[u].at \in Holding
  PROVE  u = t
BY DEF HoldersInv

LEMMA ResetTicksCounts ==
  ASSUME ContentsTypes, HoldersInv, CountInv, NEW t \in TwoThreads, M!ResetTicks(t)
  PROVE  CountInv'
<1> DEFINE d == Head(frame[t].todo)
           f == [frame[t] EXCEPT !.at = "zero samples"]
<1>1. /\ frame[t].at = "zero ticks" /\ frame[t].todo # <<>>
      /\ ticks' = [ticks EXCEPT ![d] = 0]
      /\ early' = [early EXCEPT ![d] = M!Cardinality(M!Between(d))]
      /\ late' = [late EXCEPT ![d] = 0]
      /\ frame' = [frame EXCEPT ![t] = f]
      /\ UNCHANGED <<samples, m_value, total>>
  BY DEF M!ResetTicks, M!At, M!Goes
<1>2. d \in Defs /\ f.at = "zero samples" /\ Head(f.todo) = d
  <2>1. frame[t].todo \in Seq(Defs) /\ f.at = "zero samples" /\ f.todo = frame[t].todo
    BY <1>1 DEF ContentsTypes, Frames
  <2> HIDE DEF f
  <2>2. Head(frame[t].todo) \in Defs
    BY <1>1, <2>1, HeadTailProperties
  <2> QED
    BY <2>1, <2>2
<1>3. M!Cardinality(M!Between(d)) = Cardinality(InMiddle(d))
  BY DEF M!Cardinality, Cardinality, M!Between, M!At, InMiddle
<1>4. frame \in [TwoThreads -> Frames] /\ total \in Nat
  BY DEF ContentsTypes
<1>5. \A u \in TwoThreads : frame[u].at # "zero samples"
  BY <1>1, OneReset DEF Holding
<1>6. ASSUME NEW e \in Defs
      PROVE  (InReset(e)' <=> e = d) /\ InMiddle(e)' = InMiddle(e) /\ ~InReset(e)
  <2>1. ~InReset(e)
    BY <1>5 DEF InReset
  <2>2. t \notin InMiddle(e)
    BY <1>1 DEF InMiddle
  <2> HIDE DEF f, d
  <2>3. InReset(e)' <=> e = d
    BY <1>1, <1>2, <1>4, <1>5, ResetChanges
  <2>4. InMiddle(e)' = InMiddle(e) \ {t}
    BY <1>1, <1>2, <1>4, MiddleChanges
  <2> QED
    BY <2>1, <2>2, <2>3, <2>4
<1> HIDE DEF d, f
<1>7. ASSUME NEW e \in Defs
      PROVE  /\ ticks[e] \in Nat /\ samples[e] \in Nat /\ early[e] \in Nat /\ late[e] \in Nat
             /\ ticks'[e] = IF e = d THEN 0 ELSE ticks[e]
             /\ early'[e] = IF e = d THEN Cardinality(InMiddle(e)) ELSE early[e]
             /\ late'[e] = IF e = d THEN 0 ELSE late[e]
             /\ samples'[e] = samples[e] /\ total' = total
  BY <1>1, <1>3 DEF ContentsTypes
<1>8. ASSUME NEW e \in Defs
      PROVE  /\ IsFiniteSet(InMiddle(e)')
             /\ ticks'[e] <= total'
             /\ samples'[e] + Cardinality(InMiddle(e)') <= total'
             /\ InReset(e)' => ticks'[e] = late'[e] /\ Cardinality(InMiddle(e)') <= early'[e] + late'[e]
             /\ ~InReset(e)' => /\ ticks'[e] - samples'[e] - Cardinality(InMiddle(e)') >= -early'[e]
                                /\ ticks'[e] - samples'[e] - Cardinality(InMiddle(e)') <= late'[e]
  <2> DEFINE n == Cardinality(InMiddle(e))
  <2>1. n \in Nat /\ IsFiniteSet(InMiddle(e)') /\ Cardinality(InMiddle(e)') = n
    BY <1>6, MiddleCount
  <2>2. /\ ticks[e] <= total /\ samples[e] + n <= total
        /\ ticks[e] - samples[e] - n >= -early[e] /\ ticks[e] - samples[e] - n <= late[e]
    BY <1>6 DEF CountInv
  <2> HIDE DEF n
  <2>4. CASE e = d
    BY <1>4, <1>6, <1>7, <2>1, <2>2, <2>4 DEF n
  <2>5. CASE e # d
    BY <1>4, <1>6, <1>7, <2>1, <2>2, <2>5
  <2> QED
    BY <2>4, <2>5
<1>9. total' <= MaxSamples /\ \A c \in Counters : m_value'[c] <= total'
  BY <1>1 DEF CountInv
<1> QED
  BY <1>8, <1>9 DEF CountInv

LEMMA ResetSamplesCounts ==
  ASSUME ContentsTypes, HoldersInv, CountInv, NEW t \in TwoThreads, M!ResetSamples(t)
  PROVE  CountInv'
<1> DEFINE d == Head(frame[t].todo)
           f == [at |-> "zero ticks", todo |-> Tail(frame[t].todo)]
<1>1. /\ frame[t].at = "zero samples" /\ frame[t].todo # <<>>
      /\ samples' = [samples EXCEPT ![d] = 0]
      /\ frame' = [frame EXCEPT ![t] = f]
      /\ UNCHANGED <<ticks, early, late, m_value, total>>
  BY DEF M!ResetSamples, M!At, M!Goes, HoldersInv
<1>2. d \in Defs /\ f.at = "zero ticks"
  <2>1. frame[t].todo \in Seq(Defs)
    BY <1>1 DEF ContentsTypes, Frames
  <2>2. Head(frame[t].todo) \in Defs
    BY <1>1, <2>1, HeadTailProperties
  <2> QED
    BY <2>2
<1>4. frame \in [TwoThreads -> Frames] /\ total \in Nat
  BY DEF ContentsTypes
<1>5. \A u \in TwoThreads : frame[u].at = "zero samples" => u = t
  BY <1>1, OneReset DEF Holding
<1>6. ASSUME NEW e \in Defs
      PROVE  (InReset(e) <=> e = d) /\ InMiddle(e)' = InMiddle(e) /\ ~InReset(e)'
  <2>1. InReset(e) <=> e = d
    BY <1>1, <1>5 DEF InReset
  <2>2. t \notin InMiddle(e)
    BY <1>1 DEF InMiddle
  <2> HIDE DEF f, d
  <2>3. ~InReset(e)'
    BY <1>1, <1>2, <1>4, <1>5, ResetChanges
  <2>4. InMiddle(e)' = InMiddle(e) \ {t}
    BY <1>1, <1>2, <1>4, MiddleChanges
  <2> QED
    BY <2>1, <2>2, <2>3, <2>4
<1> HIDE DEF d, f
<1>7. ASSUME NEW e \in Defs
      PROVE  /\ ticks[e] \in Nat /\ samples[e] \in Nat /\ early[e] \in Nat /\ late[e] \in Nat
             /\ samples'[e] = IF e = d THEN 0 ELSE samples[e]
             /\ ticks'[e] = ticks[e] /\ early'[e] = early[e] /\ late'[e] = late[e] /\ total' = total
  BY <1>1 DEF ContentsTypes
<1>8. ASSUME NEW e \in Defs
      PROVE  /\ IsFiniteSet(InMiddle(e)')
             /\ ticks'[e] <= total'
             /\ samples'[e] + Cardinality(InMiddle(e)') <= total'
             /\ ticks'[e] - samples'[e] - Cardinality(InMiddle(e)') >= -early'[e]
             /\ ticks'[e] - samples'[e] - Cardinality(InMiddle(e)') <= late'[e]
  <2> DEFINE n == Cardinality(InMiddle(e))
  <2>1. n \in Nat /\ IsFiniteSet(InMiddle(e)') /\ Cardinality(InMiddle(e)') = n
    BY <1>6, MiddleCount
  <2>2. /\ ticks[e] <= total /\ samples[e] + n <= total
        /\ InReset(e) => ticks[e] = late[e] /\ n <= early[e] + late[e]
        /\ ~InReset(e) => ticks[e] - samples[e] - n >= -early[e] /\ ticks[e] - samples[e] - n <= late[e]
    BY DEF CountInv
  <2> HIDE DEF n
  <2>4. CASE e = d
    BY <1>4, <1>6, <1>7, <2>1, <2>2, <2>4
  <2>5. CASE e # d
    BY <1>4, <1>6, <1>7, <2>1, <2>2, <2>5
  <2> QED
    BY <2>4, <2>5
<1>9. total' <= MaxSamples /\ \A c \in Counters : m_value'[c] <= total'
  BY <1>1 DEF CountInv
<1> QED
  BY <1>6, <1>8, <1>9 DEF CountInv

(* Counters: their own values and the bound.                               *)
LEMMA CountersCount ==
  ASSUME ContentsTypes, CountInv, NEW t \in TwoThreads,
         UNCHANGED <<ticks, samples, early, late>>,
         \/ (\E c \in Counters : M!Add(t, c))
         \/ M!ResetCounter(t)
  PROVE  CountInv'
<1>1. /\ total \in Nat /\ total' \in Nat /\ total <= total' /\ total' <= MaxSamples
      /\ \A c \in Counters : m_value'[c] <= total'
  <2>0. total \in Nat /\ MaxSamples \in Nat /\ m_value \in [Counters -> Nat] /\ total <= MaxSamples
    BY ContentsAssumption DEF ContentsTypes, CountInv
  <2>1. ASSUME NEW c \in Counters, M!Add(t, c)
        PROVE  /\ total' \in Nat /\ total <= total' /\ total' <= MaxSamples
               /\ \A e \in Counters : m_value'[e] <= total'
    <3>1. total' = total + 1 /\ total < MaxSamples /\ m_value' = [m_value EXCEPT ![c] = m_value[c] + 1]
      BY <2>1 DEF M!Add
    <3>2. total' \in Nat /\ total <= total' /\ total' <= MaxSamples
      BY <2>0, <3>1
    <3>3. ASSUME NEW e \in Counters
          PROVE  m_value'[e] <= total'
      <4>1. m_value[e] <= total /\ m_value[e] \in Nat
        BY <2>0 DEF CountInv
      <4>2. m_value'[e] = IF e = c THEN m_value[e] + 1 ELSE m_value[e]
        BY <2>0, <3>1
      <4> QED
        BY <2>0, <3>1, <4>1, <4>2
    <3> QED
      BY <3>2, <3>3
  <2>2. ASSUME M!ResetCounter(t)
        PROVE  total' = total /\ \A e \in Counters : m_value'[e] <= total
    <3>1. total' = total
      BY <2>2 DEF M!ResetCounter
    <3>2. m_value' = m_value \/ \E v : m_value' = [m_value EXCEPT ![v] = 0]
      BY <2>2 DEF M!ResetCounter
    <3>3. ASSUME NEW e \in Counters
          PROVE  m_value'[e] <= total
      BY <2>0, <3>2 DEF CountInv
    <3> QED
      BY <3>1, <3>3
  <2> QED
    BY <2>0, <2>1, <2>2
<1>2. frame' = frame \/ \E f : frame' = [frame EXCEPT ![t] = f] /\ f.at = "zero values" /\ frame[t].at = "zero values"
  <2>1. ASSUME M!ResetCounter(t)
        PROVE  \E f : frame' = [frame EXCEPT ![t] = f] /\ f.at = "zero values" /\ frame[t].at = "zero values"
    BY <2>1 DEF M!ResetCounter, M!At, M!Goes, ContentsTypes, Frames
  <2> QED
    BY <2>1 DEF M!Add
<1>3. ASSUME NEW d \in Defs
      PROVE  InMiddle(d)' = InMiddle(d) /\ (InReset(d)' <=> InReset(d))
  <2>0. frame \in [TwoThreads -> Frames]
    BY DEF ContentsTypes
  <2>1. CASE frame' = frame
    BY <2>1 DEF InMiddle, InReset
  <2>2. ASSUME NEW f, frame' = [frame EXCEPT ![t] = f], f.at = "zero values", frame[t].at = "zero values"
        PROVE  InMiddle(d)' = InMiddle(d) /\ (InReset(d)' <=> InReset(d))
    <3>1. t \notin InMiddle(d)
      BY <2>2 DEF InMiddle
    <3>2. InMiddle(d)' = InMiddle(d) \ {t}
      BY <2>0, <2>2, MiddleChanges
    <3>3. InReset(d)' <=> InReset(d)
      BY <2>0, <2>2, ResetChanges
    <3> QED
      BY <3>1, <3>2, <3>3
  <2> QED
    BY <1>2, <2>1, <2>2
<1>4. ASSUME NEW d \in Defs
      PROVE  ticks'[d] <= total' /\ samples'[d] + Cardinality(InMiddle(d)') <= total'
  <2>1. ticks[d] \in Nat /\ samples[d] \in Nat /\ Cardinality(InMiddle(d)) \in Nat
    BY MiddleCount DEF ContentsTypes
  <2>2. ticks[d] <= total /\ samples[d] + Cardinality(InMiddle(d)) <= total
    BY DEF CountInv
  <2> QED
    BY <1>1, <1>3, <2>1, <2>2
<1> QED
  BY <1>1, <1>3, <1>4 DEF CountInv

(***************************************************************************)
(* Appending to a list of siblings, and to the list of all.                *)
(***************************************************************************)
LEMMA AppendedOnce ==
  ASSUME NEW S, NEW s \in Seq(S), NEW d \in S, d \notin ToSet(s)
  PROVE  OnceIn(Append(s, d), d)
<1>1. /\ Len(s) \in Nat /\ DOMAIN s = 1 .. Len(s)
      /\ DOMAIN Append(s, d) = 1 .. Len(s) + 1
      /\ \A i \in 1 .. Len(s) : Append(s, d)[i] = s[i]
      /\ Append(s, d)[Len(s) + 1] = d
  BY AppendedIs
<1>2. \A i \in 1 .. Len(s) : s[i] # d
  BY <1>1 DEF ToSet
<1>3. {j \in DOMAIN Append(s, d) : Append(s, d)[j] = d} = {Len(s) + 1} /\ Len(s) + 1 \in DOMAIN Append(s, d)
  BY <1>1, <1>2
<1> QED
  BY <1>3 DEF OnceIn

LEMMA AppendKeepsOnce ==
  ASSUME NEW S, NEW s \in Seq(S), NEW d \in S, NEW e, e # d, OnceIn(s, e)
  PROVE  OnceIn(Append(s, d), e)
<1>1. /\ Len(s) \in Nat /\ DOMAIN s = 1 .. Len(s)
      /\ DOMAIN Append(s, d) = 1 .. Len(s) + 1
      /\ \A i \in 1 .. Len(s) : Append(s, d)[i] = s[i]
      /\ Append(s, d)[Len(s) + 1] = d
  BY AppendedIs
<1>2. PICK i \in DOMAIN s : {j \in DOMAIN s : s[j] = e} = {i}
  BY DEF OnceIn
<1>3. \A j \in 1 .. Len(s) : s[j] = e <=> j = i
  BY <1>1, <1>2
<1>4. {j \in DOMAIN Append(s, d) : Append(s, d)[j] = e} = {i} /\ i \in DOMAIN Append(s, d)
  BY <1>1, <1>3
<1> QED
  BY <1>4 DEF OnceIn

LEMMA CreateTree ==
  ASSUME ContentsTypes, HoldersInv, TreeInv, NEW t \in TwoThreads, NEW d \in Defs,
         NEW p \in Defs \union {NoParent}, M!CreateTimerDef(t, d, p)
  PROVE  TreeInv'
<1>1. /\ frame[t].at = "idle" /\ d \notin AllDefs /\ p \in AllDefs \union {NoParent}
      /\ frame' = [frame EXCEPT ![t] = [at |-> "link", def |-> d, parent |-> p]]
      /\ UNCHANGED MTree
  BY DEF M!CreateTimerDef, M!At, M!Goes, M!treeVars, MTree, M!Created, M!ToSet, AllDefs, ToSet
<1> DEFINE f == [at |-> "link", def |-> d, parent |-> p]
<1>2. f.at = "link" /\ f.def = d /\ f.parent = p
  OBVIOUS
<1>3. frame'[t] = f /\ \A u \in TwoThreads : u # t => frame'[u] = frame[u]
  BY <1>1 DEF ContentsTypes
<1> HIDE DEF f
<1>4. Owned' = Owned
  BY <1>1, <1>2, <1>3, Zenon DEF Owned
<1>5. AllDefs' = AllDefs /\ \A e : SiblingsOf(e)' = SiblingsOf(e)
  BY <1>1 DEF AllDefs, SiblingsOf, MTree
<1>6. \A u \in TwoThreads : frame'[u].at \in {"link", "own"} => frame'[u].def \notin AllDefs
  BY <1>1, <1>2, <1>3 DEF TreeInv
<1>7. \A u \in TwoThreads : frame'[u].at = "link" => frame'[u].parent \in AllDefs \union {NoParent}
  BY <1>1, <1>2, <1>3 DEF TreeInv
<1> QED
  BY <1>1, <1>4, <1>5, <1>6, <1>7 DEF TreeInv, MTree

LEMMA LinkTree ==
  ASSUME ContentsTypes, HoldersInv, TreeInv, NEW t \in TwoThreads, M!LinkTimerDef(t)
  PROVE  TreeInv'
<1>0. PICK d, p : d = frame[t].def /\ p = frame[t].parent
  OBVIOUS
<1> DEFINE f == [frame[t] EXCEPT !.at = "own"]
<1>1. /\ frame[t].at = "link"
      /\ IF p = NoParent
           THEN /\ m_root_timer_defs' = Append(m_root_timer_defs, d)
                /\ UNCHANGED <<m_parent, m_children>>
           ELSE /\ m_parent' = [m_parent EXCEPT ![d] = p]
                /\ m_children' = [m_children EXCEPT ![p] = Append(m_children[p], d)]
                /\ UNCHANGED m_root_timer_defs
      /\ frame' = [frame EXCEPT ![t] = f]
      /\ UNCHANGED m_all_timer_defs
  BY <1>0 DEF M!LinkTimerDef, M!At, M!Goes
<1>2. d \in Defs /\ f.at = "own" /\ f.def = d
  <2>1. frame[t] \in [at : {"link", "own"}, def : Defs, parent : Defs \union {NoParent}]
    BY <1>1 DEF ContentsTypes, Frames
  <2> QED
    BY <1>0, <2>1
<1>3. d \notin AllDefs /\ p \in AllDefs \union {NoParent} /\ NoParent \notin Defs
  BY <1>0, <1>1, ContentsAssumption DEF TreeInv
<1>4. AllDefs \subseteq Defs /\ AllDefs' = AllDefs
  BY <1>1 DEF ContentsTypes, AllDefs, ToSet
<1>5. frame'[t] = f /\ \A u \in TwoThreads : u # t => frame'[u] = frame[u]
  BY <1>1 DEF ContentsTypes
<1> HIDE DEF f
<1>6. \A u \in TwoThreads : frame[u].at \in {"link", "own"} => u = t
  BY <1>1, OneReset DEF Holding
<1>7. Owned = {} /\ Owned' = {d}
  <2>1. Owned = {}
    BY <1>1, <1>6 DEF Owned
  <2>2. ASSUME NEW e \in Owned'
        PROVE  e = d
    <3>1. PICK u \in TwoThreads : frame'[u].at = "own" /\ frame'[u].def = e
      BY <2>2 DEF Owned
    <3>2. u = t
      BY <1>5, <1>6, <3>1
    <3> QED
      BY <1>2, <1>5, <3>1, <3>2
  <2>3. d \in Owned'
    BY <1>2, <1>5 DEF Owned
  <2> QED
    BY <2>1, <2>2, <2>3
<1>8. m_parent[d] = NoParent
  BY <1>2, <1>3, <1>7 DEF TreeInv
<1>9. /\ d \notin ToSet(m_root_timer_defs)
      /\ \A q \in Defs : d \notin ToSet(m_children[q])
  BY <1>3, <1>7 DEF TreeInv
<1>10. /\ \A u \in TwoThreads : frame'[u].at \in {"link", "own"} => frame'[u].def \notin AllDefs
       /\ \A u \in TwoThreads : frame'[u].at # "link"
  BY <1>2, <1>3, <1>5, <1>6
<1>11. CASE p = NoParent
  <2>1. /\ m_root_timer_defs' = Append(m_root_timer_defs, d)
        /\ m_parent' = m_parent /\ m_children' = m_children
    BY <1>1, <1>11
  <2>2. m_root_timer_defs \in Seq(Defs)
    BY DEF ContentsTypes
  <2>3. ToSet(m_root_timer_defs') = ToSet(m_root_timer_defs) \union {d} /\ OnceIn(m_root_timer_defs', d)
    BY <1>2, <1>9, <2>1, <2>2, AppendedIs, AppendedOnce
  <2>4. ASSUME NEW e \in AllDefs
        PROVE  OnceIn(SiblingsOf(e)', e)
    <3>1. OnceIn(SiblingsOf(e), e) /\ e # d
      BY <1>3 DEF TreeInv
    <3>2. CASE m_parent[e] = NoParent
      <4>1. SiblingsOf(e) = m_root_timer_defs /\ SiblingsOf(e)' = Append(m_root_timer_defs, d)
        BY <2>1, <3>2 DEF SiblingsOf
      <4>2. OnceIn(Append(m_root_timer_defs, d), e)
        BY <1>2, <2>2, <3>1, <4>1, AppendKeepsOnce
      <4> QED
        BY <4>1, <4>2
    <3>3. CASE m_parent[e] # NoParent
      BY <2>1, <3>1, <3>3 DEF SiblingsOf
    <3> QED
      BY <3>2, <3>3
  <2>5. OnceIn(SiblingsOf(d)', d)
    BY <1>8, <2>1, <2>3 DEF SiblingsOf
  <2>6. \A e \in ToSet(m_root_timer_defs') : e \in AllDefs \union {d} /\ m_parent'[e] = NoParent
    BY <1>7, <1>8, <2>1, <2>3 DEF TreeInv
  <2>7. \A q \in Defs : \A e \in ToSet(m_children'[q]) : e \in AllDefs \union {d} /\ m_parent'[e] = q
    BY <1>7, <2>1 DEF TreeInv
  <2>8. \A e \in Defs \ (AllDefs \union {d}) : m_parent'[e] = NoParent
    BY <1>7, <2>1 DEF TreeInv
  <2>9. \A e \in AllDefs : m_parent'[e] # NoParent => Older(m_all_timer_defs, m_parent'[e], e)
    BY <2>1 DEF TreeInv
  <2>10. m_parent'[d] = NoParent
    BY <1>8, <2>1
  <2> QED
    BY <1>1, <1>4, <1>7, <1>10, <2>4, <2>5, <2>6, <2>7, <2>8, <2>9, <2>10 DEF TreeInv
<1>12. CASE p # NoParent
  <2>1. /\ m_root_timer_defs' = m_root_timer_defs
        /\ m_parent' = [m_parent EXCEPT ![d] = p]
        /\ m_children' = [m_children EXCEPT ![p] = Append(m_children[p], d)]
    BY <1>1, <1>12
  <2>2. p \in AllDefs /\ p \in Defs
    BY <1>3, <1>4, <1>12
  <2>3. /\ m_parent'[d] = p /\ \A e \in Defs : e # d => m_parent'[e] = m_parent[e]
        /\ m_children[p] \in Seq(Defs)
        /\ m_children'[p] = Append(m_children[p], d)
        /\ \A q \in Defs : q # p => m_children'[q] = m_children[q]
    BY <1>2, <2>1, <2>2 DEF ContentsTypes
  <2>4. ToSet(m_children'[p]) = ToSet(m_children[p]) \union {d} /\ OnceIn(m_children'[p], d)
    BY <1>2, <1>9, <2>2, <2>3, AppendedIs, AppendedOnce
  <2>5. ASSUME NEW e \in AllDefs
        PROVE  OnceIn(SiblingsOf(e)', e)
    <3>1. /\ OnceIn(SiblingsOf(e), e) /\ e # d /\ e \in Defs /\ m_parent'[e] = m_parent[e]
          /\ m_parent[e] \in Defs \union {NoParent}
      BY <1>3, <1>4, <2>3 DEF TreeInv, ContentsTypes
    <3>2. CASE m_parent[e] = p
      <4>1. SiblingsOf(e) = m_children[p] /\ SiblingsOf(e)' = Append(m_children[p], d)
        BY <1>12, <2>3, <3>1, <3>2 DEF SiblingsOf
      <4>2. OnceIn(Append(m_children[p], d), e)
        BY <1>2, <2>3, <3>1, <4>1, AppendKeepsOnce
      <4> QED
        BY <4>1, <4>2
    <3>3. CASE m_parent[e] # p
      <4>1. SiblingsOf(e)' = SiblingsOf(e)
        BY <2>1, <2>3, <3>1, <3>3 DEF SiblingsOf
      <4> QED
        BY <3>1, <4>1
    <3> QED
      BY <3>2, <3>3
  <2>6. OnceIn(SiblingsOf(d)', d)
    BY <1>12, <2>3, <2>4 DEF SiblingsOf
  <2>7. \A e \in ToSet(m_root_timer_defs') : e \in AllDefs \union {d} /\ m_parent'[e] = NoParent
    BY <1>4, <1>7, <1>9, <2>1, <2>3 DEF TreeInv
  <2>8. ASSUME NEW q \in Defs, NEW e \in ToSet(m_children'[q])
        PROVE  e \in AllDefs \union {d} /\ m_parent'[e] = q
    <3>1. CASE e = d
      BY <1>9, <2>3, <2>8, <3>1
    <3>2. CASE e # d
      <4>1. e \in ToSet(m_children[q])
        BY <2>3, <2>4, <2>8, <3>2
      <4>2. e \in AllDefs /\ m_parent[e] = q
        BY <1>7, <4>1 DEF TreeInv
      <4> QED
        BY <1>4, <2>3, <3>2, <4>2
    <3> QED
      BY <3>1, <3>2
  <2>9. \A e \in Defs \ (AllDefs \union {d}) : m_parent'[e] = NoParent
    BY <1>7, <2>3 DEF TreeInv
  <2>10. \A e \in AllDefs : m_parent'[e] # NoParent => Older(m_all_timer_defs, m_parent'[e], e)
    BY <1>3, <1>4, <2>3 DEF TreeInv
  <2> QED
    BY <1>1, <1>4, <1>7, <1>10, <2>2, <2>3, <2>5, <2>6, <2>7, <2>8, <2>9, <2>10 DEF TreeInv
<1> QED
  BY <1>11, <1>12

LEMMA OwnTree ==
  ASSUME ContentsTypes, HoldersInv, TreeInv, NEW t \in TwoThreads, M!OwnTimerDef(t)
  PROVE  TreeInv'
<1> DEFINE d == frame[t].def
           f == [at |-> "idle"]
           all == m_all_timer_defs
<1>1. /\ frame[t].at = "own" /\ all' = Append(all, d)
      /\ frame' = [frame EXCEPT ![t] = f]
      /\ UNCHANGED <<m_parent, m_children, m_root_timer_defs>>
  BY DEF M!OwnTimerDef, M!At, M!Goes, M!Idle
<1>2. d \in Defs /\ f.at = "idle" /\ all \in Seq(Defs) /\ d \notin AllDefs /\ NoParent \notin Defs
  BY <1>1, ContentsAssumption DEF ContentsTypes, Frames, TreeInv
<1>3. frame'[t] = f /\ \A u \in TwoThreads : u # t => frame'[u] = frame[u]
  BY <1>1 DEF ContentsTypes
<1> HIDE DEF d, f
<1>4. \A u \in TwoThreads : frame[u].at \in {"link", "own"} => u = t
  BY <1>1, OneReset DEF Holding
<1>5. \A u \in TwoThreads : frame'[u].at \notin {"link", "own"}
  BY <1>2, <1>3, <1>4
<1>6. Owned = {d} /\ Owned' = {}
  <2>1. Owned = {d}
    BY <1>1, <1>2, <1>4 DEF Owned, d
  <2>2. Owned' = {}
    BY <1>5 DEF Owned
  <2> QED
    BY <2>1, <2>2
<1>7. AllDefs' = AllDefs \union {d}
  BY <1>1, <1>2, AppendedIs DEF AllDefs
<1>8. /\ Len(all) \in Nat /\ DOMAIN all = 1 .. Len(all)
      /\ DOMAIN all' = 1 .. Len(all) + 1
      /\ \A i \in 1 .. Len(all) : all'[i] = all[i]
      /\ all'[Len(all) + 1] = d
  BY <1>1, <1>2, AppendedIs
<1>9. \A i \in 1 .. Len(all) : all[i] # d
  BY <1>2, <1>8 DEF AllDefs, ToSet
<1>10. ASSUME NEW i \in DOMAIN all', NEW j \in DOMAIN all', all'[i] = all'[j]
       PROVE  i = j
  <2>1. \A k, l \in 1 .. Len(all) : all[k] = all[l] => k = l
    BY <1>8 DEF TreeInv
  <2>2. /\ i \in 1 .. Len(all) \/ i = Len(all) + 1
        /\ j \in 1 .. Len(all) \/ j = Len(all) + 1
    BY <1>8
  <2> QED
    BY <1>8, <1>9, <1>10, <2>1, <2>2
<1>11. ASSUME NEW e \in AllDefs', m_parent'[e] # NoParent
       PROVE  Older(all', m_parent'[e], e)
  <2>1. CASE e = d
    <3>1. m_parent[d] \in AllDefs
      BY <1>1, <1>6, <1>11, <2>1 DEF TreeInv
    <3>2. PICK i \in 1 .. Len(all) : all[i] = m_parent[d]
      BY <1>8, <3>1 DEF AllDefs, ToSet
    <3>3. /\ i \in DOMAIN all' /\ Len(all) + 1 \in DOMAIN all' /\ i < Len(all) + 1
          /\ all'[i] = m_parent'[e] /\ all'[Len(all) + 1] = e
      BY <1>1, <1>8, <2>1, <3>2
    <3> QED
      BY <3>3, Zenon DEF Older
  <2>2. CASE e # d
    <3>1. Older(all, m_parent[e], e)
      BY <1>1, <1>7, <1>11, <2>2 DEF TreeInv
    <3>2. PICK i, j \in DOMAIN all : i < j /\ all[i] = m_parent[e] /\ all[j] = e
      BY <3>1 DEF Older
    <3>3. i \in DOMAIN all' /\ j \in DOMAIN all' /\ all'[i] = m_parent'[e] /\ all'[j] = e
      BY <1>1, <1>8, <3>2
    <3> QED
      BY <3>2, <3>3, Zenon DEF Older
  <2> QED
    BY <2>1, <2>2
<1>12. \A e : SiblingsOf(e)' = SiblingsOf(e)
  BY <1>1 DEF SiblingsOf
<1>13. AllDefs' \union Owned' = AllDefs \union Owned
  BY <1>6, <1>7
<1> QED
  BY <1>1, <1>5, <1>6, <1>10, <1>11, <1>12, <1>13 DEF TreeInv

(***************************************************************************)
(* The types, action by action.                                            *)
(***************************************************************************)
LEMMA FrameType ==
  ASSUME frame \in [TwoThreads -> Frames], NEW t \in TwoThreads, NEW f \in Frames,
         frame' = [frame EXCEPT ![t] = f]
  PROVE  frame' \in [TwoThreads -> Frames]
OBVIOUS

LEMMA TreeTypes ==
  ASSUME ContentsTypes, HoldersInv, NEW t \in TwoThreads,
         \/ \E d \in Defs : \E p \in Defs \union {NoParent} : M!CreateTimerDef(t, d, p)
         \/ M!LinkTimerDef(t) \/ M!OwnTimerDef(t)
  PROVE  ContentsTypes' /\ HoldersInv'
<1>0. frame \in [TwoThreads -> Frames] /\ (frame[t].at \in Holding => setMutex = t) /\ NoParent \notin Defs
  BY ContentsAssumption DEF ContentsTypes, HoldersInv
<1>1. ASSUME NEW d \in Defs, NEW p \in Defs \union {NoParent}, M!CreateTimerDef(t, d, p)
      PROVE  ContentsTypes' /\ HoldersInv'
  <2> DEFINE f == [at |-> "link", def |-> d, parent |-> p]
  <2>1. f \in Frames /\ f.at = "link"
    BY DEF Frames
  <2>2. /\ frame' = [frame EXCEPT ![t] = f] /\ setMutex = Nobody /\ setMutex' = t
        /\ UNCHANGED <<MTree, m_all_values, ticks, samples, m_value, early, late, total>>
    BY <1>1 DEF M!CreateTimerDef, M!Goes, M!Locks, M!treeVars, M!atomicVars, MTree
  <2> HIDE DEF f
  <2>3. frame' \in [TwoThreads -> Frames]
    BY <1>0, <2>1, <2>2, FrameType
  <2>4. ContentsTypes'
    BY <2>2, <2>3 DEF ContentsTypes, MTree
  <2>5. HoldersInv'
    BY <1>0, <2>1, <2>2, HoldersLock DEF Holding
  <2> QED
    BY <2>4, <2>5
<1>2. ASSUME M!LinkTimerDef(t)
      PROVE  ContentsTypes' /\ HoldersInv'
  <2> DEFINE f == [frame[t] EXCEPT !.at = "own"]
  <2>1. PICK d, p : d = frame[t].def /\ p = frame[t].parent
    OBVIOUS
  <2>2. /\ frame[t].at = "link" /\ frame' = [frame EXCEPT ![t] = f] /\ setMutex' = setMutex
        /\ UNCHANGED <<m_all_timer_defs, m_all_values, ticks, samples, m_value, early, late, total>>
        /\ m_root_timer_defs' = IF p = NoParent THEN Append(m_root_timer_defs, d) ELSE m_root_timer_defs
        /\ m_parent' = IF p = NoParent THEN m_parent ELSE [m_parent EXCEPT ![d] = p]
        /\ m_children' = IF p = NoParent THEN m_children
                                         ELSE [m_children EXCEPT ![p] = Append(m_children[p], d)]
    BY <1>2, <2>1 DEF M!LinkTimerDef, M!At, M!Goes, M!atomicVars
  <2>3. frame[t] \in [at : {"link", "own"}, def : Defs, parent : Defs \union {NoParent}]
    BY <2>2 DEF ContentsTypes, Frames
  <2>4. d \in Defs /\ p \in Defs \union {NoParent} /\ f \in Frames /\ f.at = "own"
    BY <2>1, <2>3 DEF Frames
  <2> HIDE DEF f
  <2>5. frame' \in [TwoThreads -> Frames]
    BY <1>0, <2>2, <2>4, FrameType
  <2>6. /\ m_root_timer_defs' \in Seq(Defs)
        /\ m_parent' \in [Defs -> Defs \union {NoParent}]
        /\ m_children' \in [Defs -> Seq(Defs)]
    <3>1. m_root_timer_defs' \in Seq(Defs)
      BY <2>2, <2>4 DEF ContentsTypes
    <3>2. m_parent' \in [Defs -> Defs \union {NoParent}]
      BY <2>2, <2>4 DEF ContentsTypes
    <3>3. ASSUME p # NoParent
          PROVE  Append(m_children[p], d) \in Seq(Defs)
      BY <2>4, <3>3 DEF ContentsTypes
    <3>4. m_children' \in [Defs -> Seq(Defs)]
      BY <2>2, <2>4, <3>3 DEF ContentsTypes
    <3> QED
      BY <3>1, <3>2, <3>4
  <2>7. ContentsTypes'
    BY <2>2, <2>5, <2>6 DEF ContentsTypes
  <2>8. HoldersInv'
    BY <1>0, <2>2, <2>4, HoldersLock DEF Holding
  <2> QED
    BY <2>7, <2>8
<1>3. ASSUME M!OwnTimerDef(t)
      PROVE  ContentsTypes' /\ HoldersInv'
  <2> DEFINE f == [at |-> "idle"]
  <2>1. f \in Frames /\ f.at = "idle"
    BY DEF Frames
  <2>2. /\ frame[t].at = "own" /\ frame' = [frame EXCEPT ![t] = f] /\ setMutex = t /\ setMutex' = Nobody
        /\ m_all_timer_defs' = Append(m_all_timer_defs, frame[t].def)
        /\ UNCHANGED <<m_parent, m_children, m_root_timer_defs, m_all_values, ticks, samples, m_value,
                       early, late, total>>
    BY <1>3 DEF M!OwnTimerDef, M!At, M!Goes, M!Idle, M!Unlocks, M!atomicVars
  <2>3. frame[t].def \in Defs
    BY <2>2 DEF ContentsTypes, Frames
  <2> HIDE DEF f
  <2>4. frame' \in [TwoThreads -> Frames]
    BY <1>0, <2>1, <2>2, FrameType
  <2>5. m_all_timer_defs' \in Seq(Defs)
    BY <2>2, <2>3 DEF ContentsTypes
  <2>6. ContentsTypes'
    BY <2>2, <2>4, <2>5 DEF ContentsTypes
  <2>7. HoldersInv'
    BY <1>0, <2>1, <2>2, HoldersLock DEF Holding
  <2> QED
    BY <2>6, <2>7
<1> QED
  BY <1>1, <1>2, <1>3

LEMMA TicksTypes ==
  ASSUME ContentsTypes, HoldersInv, CountInv, NEW t \in TwoThreads,
         \/ \E d \in Defs : M!AddTicks(t, d)
         \/ M!AddSample(t) \/ M!ResetTicks(t) \/ M!ResetSamples(t)
  PROVE  /\ ContentsTypes' /\ HoldersInv' /\ UNCHANGED MTree
         /\ \E f : /\ frame' = [frame EXCEPT ![t] = f] /\ f.at \notin {"link", "own"}
                   /\ frame[t].at \notin {"link", "own"}
<1>0. frame \in [TwoThreads -> Frames] /\ (frame[t].at \in Holding => setMutex = t)
  BY DEF ContentsTypes, HoldersInv
<1>1. ASSUME NEW f \in Frames, frame' = [frame EXCEPT ![t] = f], f.at = "zero samples" => f.todo # <<>>,
             f.at \in Holding <=> frame[t].at \in Holding,
             ticks' \in [Defs -> Nat], samples' \in [Defs -> Nat], early' \in [Defs -> Nat],
             late' \in [Defs -> Nat], total' \in Nat,
             UNCHANGED <<MTree, m_all_values, m_value, setMutex>>
      PROVE  ContentsTypes' /\ HoldersInv'
  <2>1. frame' \in [TwoThreads -> Frames]
    BY <1>0, <1>1, FrameType
  <2>2. ContentsTypes'
    BY <1>1, <2>1 DEF ContentsTypes, MTree
  <2>3. HoldersInv'
    BY <1>0, <1>1, HoldersLock
  <2> QED
    BY <2>2, <2>3
<1>2. ASSUME NEW d \in Defs, M!AddTicks(t, d)
      PROVE  /\ ContentsTypes' /\ HoldersInv' /\ UNCHANGED MTree
             /\ \E f : /\ frame' = [frame EXCEPT ![t] = f] /\ f.at \notin {"link", "own"}
                       /\ frame[t].at \notin {"link", "own"}
  <2> DEFINE f == [at |-> "sample", def |-> d]
  <2>1. /\ frame[t].at = "idle" /\ frame' = [frame EXCEPT ![t] = f] /\ total' = total + 1
        /\ ticks' = [ticks EXCEPT ![d] = ticks[d] + 1]
        /\ late' = [late EXCEPT ![d] = IF M!IsReset(d) THEN late[d] + 1 ELSE late[d]]
        /\ UNCHANGED <<MTree, m_all_values, m_value, setMutex, samples, early>>
    BY <1>2 DEF M!AddTicks, M!At, M!Goes, M!treeVars, MTree
  <2>2. f \in Frames /\ f.at = "sample"
    BY DEF Frames
  <2> HIDE DEF f
  <2>3. (IF M!IsReset(d) THEN late[d] + 1 ELSE late[d]) \in Nat
    BY DEF ContentsTypes
  <2>4. late' \in [Defs -> Nat]
    BY <2>1, <2>3 DEF ContentsTypes
  <2>7. ticks' \in [Defs -> Nat]
    BY <2>1 DEF ContentsTypes
  <2>8. total' \in Nat /\ samples' \in [Defs -> Nat] /\ early' \in [Defs -> Nat]
    BY <2>1 DEF ContentsTypes
  <2>5. ticks' \in [Defs -> Nat] /\ total' \in Nat /\ samples' \in [Defs -> Nat] /\ early' \in [Defs -> Nat]
    BY <2>7, <2>8
  <2>6. ContentsTypes' /\ HoldersInv'
    BY <1>1, <2>1, <2>2, <2>4, <2>5 DEF Holding
  <2> QED
    BY <2>1, <2>2, <2>6
<1>3. ASSUME M!AddSample(t)
      PROVE  /\ ContentsTypes' /\ HoldersInv' /\ UNCHANGED MTree
             /\ \E f : /\ frame' = [frame EXCEPT ![t] = f] /\ f.at \notin {"link", "own"}
                       /\ frame[t].at \notin {"link", "own"}
  <2> DEFINE f == [at |-> "idle"]
  <2>1. /\ frame[t].at = "sample" /\ frame' = [frame EXCEPT ![t] = f]
        /\ samples' = [samples EXCEPT ![frame[t].def] = samples[frame[t].def] + 1]
        /\ UNCHANGED <<MTree, m_all_values, m_value, setMutex, ticks, early, late, total>>
    BY <1>3 DEF M!AddSample, M!At, M!Goes, M!Idle, M!treeVars, MTree
  <2>2. f \in Frames /\ f.at = "idle"
    BY DEF Frames
  <2> HIDE DEF f
  <2>3. frame[t].def \in Defs
    BY <2>1 DEF ContentsTypes, Frames
  <2>7. samples[frame[t].def] + 1 \in Nat
    BY <2>3 DEF ContentsTypes
  <2>4. samples' \in [Defs -> Nat]
    BY <2>1, <2>7 DEF ContentsTypes
  <2>5. ticks' \in [Defs -> Nat] /\ total' \in Nat /\ late' \in [Defs -> Nat] /\ early' \in [Defs -> Nat]
    BY <2>1 DEF ContentsTypes
  <2>6. ContentsTypes' /\ HoldersInv'
    BY <1>1, <2>1, <2>2, <2>4, <2>5 DEF Holding
  <2> QED
    BY <2>1, <2>2, <2>6
<1>4. ASSUME M!ResetTicks(t)
      PROVE  /\ ContentsTypes' /\ HoldersInv' /\ UNCHANGED MTree
             /\ \E f : /\ frame' = [frame EXCEPT ![t] = f] /\ f.at \notin {"link", "own"}
                       /\ frame[t].at \notin {"link", "own"}
  <2> DEFINE f == [frame[t] EXCEPT !.at = "zero samples"]
  <2>0. PICK d : d = Head(frame[t].todo)
    OBVIOUS
  <2>1. /\ frame[t].at = "zero ticks" /\ frame[t].todo # <<>> /\ frame' = [frame EXCEPT ![t] = f]
        /\ ticks' = [ticks EXCEPT ![d] = 0]
        /\ early' = [early EXCEPT ![d] = M!Cardinality(M!Between(d))]
        /\ late' = [late EXCEPT ![d] = 0]
        /\ UNCHANGED <<MTree, m_all_values, m_value, setMutex, samples, total>>
    BY <1>4, <2>0 DEF M!ResetTicks, M!At, M!Goes, M!treeVars, MTree
  <2>2. frame[t] \in [at : {"zero ticks", "zero samples"}, todo : Seq(Defs)]
    BY <2>1 DEF ContentsTypes, Frames
  <2>3. f \in Frames /\ f.at = "zero samples" /\ f.todo # <<>>
    BY <2>1, <2>2 DEF Frames
  <2> HIDE DEF f
  <2>4. d \in Defs
    BY <2>0, <2>1, <2>2, HeadTailProperties
  <2>5. M!Cardinality(M!Between(d)) = Cardinality(InMiddle(d))
    BY DEF M!Cardinality, Cardinality, M!Between, M!At, InMiddle
  <2>6. Cardinality(InMiddle(d)) \in Nat
    BY <2>4, MiddleCount
  <2>7. early' \in [Defs -> Nat]
    BY <2>1, <2>5, <2>6 DEF ContentsTypes
  <2>8. ticks' \in [Defs -> Nat] /\ total' \in Nat /\ late' \in [Defs -> Nat] /\ samples' \in [Defs -> Nat]
    BY <2>1 DEF ContentsTypes
  <2>9. ContentsTypes' /\ HoldersInv'
    BY <1>1, <2>1, <2>3, <2>7, <2>8 DEF Holding
  <2> QED
    BY <2>1, <2>3, <2>9
<1>5. ASSUME M!ResetSamples(t)
      PROVE  /\ ContentsTypes' /\ HoldersInv' /\ UNCHANGED MTree
             /\ \E f : /\ frame' = [frame EXCEPT ![t] = f] /\ f.at \notin {"link", "own"}
                       /\ frame[t].at \notin {"link", "own"}
  <2> DEFINE f == [at |-> "zero ticks", todo |-> Tail(frame[t].todo)]
  <2>1. /\ frame[t].at = "zero samples" /\ frame[t].todo # <<>> /\ frame' = [frame EXCEPT ![t] = f]
        /\ samples' = [samples EXCEPT ![Head(frame[t].todo)] = 0]
        /\ UNCHANGED <<MTree, m_all_values, m_value, setMutex, ticks, early, late, total>>
    BY <1>5 DEF M!ResetSamples, M!At, M!Goes, M!treeVars, MTree, HoldersInv
  <2>2. frame[t].todo \in Seq(Defs)
    BY <2>1 DEF ContentsTypes, Frames
  <2>3. f \in Frames /\ f.at = "zero ticks"
    BY <2>1, <2>2, HeadTailProperties DEF Frames
  <2> HIDE DEF f
  <2>4. samples' \in [Defs -> Nat]
    BY <2>1 DEF ContentsTypes
  <2>5. ticks' \in [Defs -> Nat] /\ total' \in Nat /\ late' \in [Defs -> Nat] /\ early' \in [Defs -> Nat]
    BY <2>1 DEF ContentsTypes
  <2>6. ContentsTypes' /\ HoldersInv'
    BY <1>1, <2>1, <2>3, <2>4, <2>5 DEF Holding
  <2> QED
    BY <2>1, <2>3, <2>6
<1> QED
  BY <1>2, <1>3, <1>4, <1>5

(* Locking for a reset, and unlocking after it, changes nothing else.      *)
LEMMA ResetFrames ==
  ASSUME ContentsTypes, HoldersInv, CountInv, TreeInv, NEW t \in TwoThreads,
         M!ResetTimerDefs(t) \/ M!ResetCounters(t) \/ M!ResetEnds(t)
  PROVE  ContentsTypes' /\ HoldersInv' /\ CountInv' /\ TreeInv'
<1>0. frame \in [TwoThreads -> Frames]
  BY DEF ContentsTypes
<1>1. PICK f \in Frames :
        /\ frame' = [frame EXCEPT ![t] = f]
        /\ f.at \in {"idle", "zero ticks", "zero values"} /\ frame[t].at \in {"idle", "zero ticks", "zero values"}
        /\ \/ setMutex = Nobody /\ setMutex' = t /\ f.at \in Holding
           \/ setMutex = t /\ setMutex' = Nobody /\ f.at \notin Holding
  <2>1. CASE M!ResetTimerDefs(t)
    <3> DEFINE f == [at |-> "zero ticks", todo |-> m_all_timer_defs]
    <3>1. f \in Frames /\ f.at = "zero ticks"
      BY DEF ContentsTypes, Frames
    <3>2. frame' = [frame EXCEPT ![t] = f] /\ frame[t].at = "idle" /\ setMutex = Nobody /\ setMutex' = t
      BY <2>1 DEF M!ResetTimerDefs, M!At, M!Goes, M!Locks
    <3> QED
      BY <3>1, <3>2 DEF Holding
  <2>2. CASE M!ResetCounters(t)
    <3> DEFINE f == [at |-> "zero values", todo |-> m_all_values]
    <3>1. f \in Frames /\ f.at = "zero values"
      BY DEF ContentsTypes, Frames
    <3>2. frame' = [frame EXCEPT ![t] = f] /\ frame[t].at = "idle" /\ setMutex = Nobody /\ setMutex' = t
      BY <2>2 DEF M!ResetCounters, M!At, M!Goes, M!Locks
    <3> QED
      BY <3>1, <3>2 DEF Holding
  <2>3. CASE M!ResetEnds(t)
    <3> DEFINE f == [at |-> "idle"]
    <3>1. f \in Frames /\ f.at = "idle"
      BY DEF Frames
    <3>2. /\ frame' = [frame EXCEPT ![t] = f] /\ frame[t].at \in {"zero ticks", "zero values"}
          /\ setMutex = t /\ setMutex' = Nobody
      BY <2>3 DEF M!ResetEnds, M!At, M!Goes, M!Idle, M!Unlocks
    <3> QED
      BY <3>1, <3>2 DEF Holding
  <2> QED
    BY <2>1, <2>2, <2>3
<1>2. UNCHANGED <<MTree, MContents, m_all_values>>
  BY DEF M!ResetTimerDefs, M!ResetCounters, M!ResetEnds, M!treeVars, M!atomicVars, MTree, MContents
<1>3. frame' \in [TwoThreads -> Frames]
  BY <1>0, <1>1, FrameType
<1>4. setMutex' \in TwoThreads \union {Nobody}
  BY <1>1
<1>5. ContentsTypes'
  BY <1>2, <1>3, <1>4 DEF ContentsTypes, MTree, MContents
<1>6. HoldersInv'
  BY <1>0, <1>1, HoldersLock
<1>7. CountInv'
  BY <1>0, <1>1, <1>2, CountsStay
<1>8. TreeInv'
  BY <1>0, <1>1, <1>2, TreeStays
<1> QED
  BY <1>5, <1>6, <1>7, <1>8

LEMMA ValuesStep ==
  ASSUME ContentsTypes, HoldersInv, CountInv, TreeInv, NEW t \in TwoThreads,
         \/ \E v \in Counters \union {Derived} : M!AddValue(t, v) \/ M!Add(t, v)
         \/ M!ResetCounter(t) \/ M!CreateForNoSet(t) \/ M!GetVector(t)
  PROVE  ContentsTypes' /\ HoldersInv' /\ CountInv' /\ TreeInv'
<1>0. frame \in [TwoThreads -> Frames] /\ m_value \in [Counters -> Nat] /\ total \in Nat
  BY DEF ContentsTypes
<1>1. UNCHANGED <<MTree, ticks, samples, early, late, setMutex>>
  BY DEF M!AddValue, M!Add, M!ResetCounter, M!CreateForNoSet, M!GetVector, M!treeVars, M!atomicVars, MTree
<1>2. CASE UNCHANGED <<m_value, total, frame>> /\ m_all_values' \in Seq(Counters \union {Derived})
  <2>1. ContentsTypes'
    BY <1>1, <1>2 DEF ContentsTypes, MTree
  <2> QED
    BY <1>1, <1>2, <2>1, CountsAndTreeStay DEF MContents
<1>3. ASSUME NEW v \in Counters \union {Derived}, M!AddValue(t, v)
      PROVE  UNCHANGED <<m_value, total, frame>> /\ m_all_values' \in Seq(Counters \union {Derived})
  BY <1>3 DEF M!AddValue, M!atomicVars, ContentsTypes
<1>4. ASSUME M!CreateForNoSet(t) \/ M!GetVector(t)
      PROVE  UNCHANGED <<m_value, total, frame>> /\ m_all_values' \in Seq(Counters \union {Derived})
  BY <1>4 DEF M!CreateForNoSet, M!GetVector, M!treeVars, M!atomicVars, ContentsTypes
<1>5. ASSUME NEW c \in Counters \union {Derived}, M!Add(t, c)
      PROVE  ContentsTypes' /\ HoldersInv' /\ CountInv' /\ TreeInv'
  <2>1. /\ c \in Counters /\ m_value' = [m_value EXCEPT ![c] = m_value[c] + 1] /\ total' = total + 1
        /\ UNCHANGED <<frame, m_all_values>>
    BY <1>5 DEF M!Add
  <2>2. m_value' \in [Counters -> Nat] /\ total' \in Nat
    BY <1>0, <2>1
  <2>3. ContentsTypes'
    BY <1>1, <2>1, <2>2 DEF ContentsTypes, MTree
  <2>4. CountInv'
    BY <1>1, <1>5, <2>1, CountersCount
  <2>5. HoldersInv'
    BY <1>1, <2>1 DEF HoldersInv
  <2>6. /\ Owned' = Owned /\ AllDefs' = AllDefs /\ \A d : SiblingsOf(d)' = SiblingsOf(d)
    BY <1>1, <2>1 DEF Owned, AllDefs, SiblingsOf, MTree
  <2>7. TreeInv'
    BY <1>1, <2>1, <2>6 DEF TreeInv, MTree
  <2> QED
    BY <2>3, <2>4, <2>5, <2>7
<1>6. ASSUME M!ResetCounter(t)
      PROVE  ContentsTypes' /\ HoldersInv' /\ CountInv' /\ TreeInv'
  <2> DEFINE f == [frame[t] EXCEPT !.todo = Tail(frame[t].todo)]
             v == Head(frame[t].todo)
  <2>1. /\ frame[t].at = "zero values" /\ frame[t].todo # <<>> /\ frame' = [frame EXCEPT ![t] = f]
        /\ m_value' = IF v = Derived THEN m_value ELSE [m_value EXCEPT ![v] = 0]
        /\ UNCHANGED <<total, m_all_values>>
    BY <1>6 DEF M!ResetCounter, M!At, M!Goes
  <2>2. frame[t] \in [at : {"zero values"}, todo : Seq(Counters \union {Derived})]
    BY <2>1 DEF ContentsTypes, Frames
  <2>3. Tail(frame[t].todo) \in Seq(Counters \union {Derived})
    BY <2>1, <2>2, HeadTailProperties
  <2>4. f \in Frames /\ f.at = "zero values"
    BY <2>2, <2>3 DEF Frames
  <2> HIDE DEF f, v
  <2>5. m_value' \in [Counters -> Nat] /\ total' \in Nat
    BY <1>0, <2>1
  <2>6. frame' \in [TwoThreads -> Frames]
    BY <1>0, <2>1, <2>4, FrameType
  <2>7. ContentsTypes'
    BY <1>1, <2>1, <2>5, <2>6 DEF ContentsTypes, MTree
  <2>8. CountInv'
    BY <1>1, <1>6, CountersCount
  <2>9. HoldersInv'
    BY <1>0, <1>1, <2>1, <2>4, HoldersLock
  <2>10. TreeInv'
    BY <1>0, <1>1, <2>1, <2>4, TreeStays
  <2> QED
    BY <2>7, <2>8, <2>9, <2>10
<1> QED
  BY <1>2, <1>3, <1>4, <1>5, <1>6

LEMMA ContentsStart == M!Init => ContentsInv
<1> SUFFICES ASSUME M!Init PROVE ContentsInv
  OBVIOUS
<1>1. \A t \in TwoThreads : frame[t].at = "idle" /\ frame[t] \in Frames
  BY DEF M!Init, M!Idle, Frames
<1>2. ContentsTypes
  BY <1>1 DEF ContentsTypes, M!Init
<1>3. HoldersInv
  BY <1>1, ContentsAssumption DEF HoldersInv, Holding, M!Init
<1>4. CountInv
  <2>1. ASSUME NEW d \in Defs
        PROVE  InMiddle(d) = {} /\ ~InReset(d) /\ ticks[d] = 0 /\ samples[d] = 0 /\ early[d] = 0 /\ late[d] = 0
    BY <1>1 DEF InMiddle, InReset, M!Init
  <2>2. IsFiniteSet({}) /\ Cardinality({}) = 0
    BY FS_EmptySet
  <2>3. total = 0 /\ MaxSamples \in Nat /\ \A c \in Counters : m_value[c] = 0
    BY ContentsAssumption DEF M!Init
  <2> QED
    BY <2>1, <2>2, <2>3 DEF CountInv
<1>5. TreeInv
  <2>1. AllDefs = {} /\ Owned = {}
    BY <1>1 DEF AllDefs, Owned, M!Init, ToSet
  <2> QED
    BY <1>1, <2>1 DEF TreeInv, M!Init, ToSet
<1> QED
  BY <1>2, <1>3, <1>4, <1>5 DEF ContentsInv

LEMMA ContentsStep ==
  ASSUME ContentsInv, [M!Next]_M!vars
  PROVE  ContentsInv'
<1> USE DEF ContentsInv
<1>0. frame \in [TwoThreads -> Frames]
  BY DEF ContentsTypes
<1>1. CASE UNCHANGED M!vars
  <2>1. UNCHANGED <<MTree, MContents, m_all_values, setMutex, frame>>
    BY <1>1 DEF M!vars, M!treeVars, M!atomicVars, MTree, MContents
  <2>2. ContentsTypes'
    BY <2>1 DEF ContentsTypes, MTree, MContents
  <2> QED
    BY <2>1, <2>2, CountsAndTreeStay
<1>2. ASSUME NEW t \in TwoThreads, NEW d \in Defs, NEW p \in Defs \union {NoParent}, M!CreateTimerDef(t, d, p)
      PROVE  ContentsInv'
  <2>1. /\ frame' = [frame EXCEPT ![t] = [at |-> "link", def |-> d, parent |-> p]] /\ frame[t].at = "idle"
        /\ UNCHANGED MContents
    BY <1>2 DEF M!CreateTimerDef, M!At, M!Goes, M!atomicVars, MContents
  <2>2. CountInv'
    BY <1>0, <2>1, CountsStay
  <2> QED
    BY <1>2, <2>2, TreeTypes, CreateTree
<1>3. ASSUME NEW t \in TwoThreads, M!LinkTimerDef(t)
      PROVE  ContentsInv'
  <2>1. /\ frame' = [frame EXCEPT ![t] = [frame[t] EXCEPT !.at = "own"]] /\ frame[t].at = "link"
        /\ UNCHANGED MContents
    BY <1>3 DEF M!LinkTimerDef, M!At, M!Goes, M!atomicVars, MContents
  <2>2. [frame[t] EXCEPT !.at = "own"].at = "own"
    BY <1>0, <2>1 DEF Frames
  <2>3. CountInv'
    BY <1>0, <2>1, <2>2, CountsStay
  <2> QED
    BY <1>3, <2>3, TreeTypes, LinkTree
<1>4. ASSUME NEW t \in TwoThreads, M!OwnTimerDef(t)
      PROVE  ContentsInv'
  <2>1. /\ frame' = [frame EXCEPT ![t] = [at |-> "idle"]] /\ frame[t].at = "own"
        /\ UNCHANGED MContents
    BY <1>4 DEF M!OwnTimerDef, M!At, M!Goes, M!Idle, M!atomicVars, MContents
  <2>2. CountInv'
    BY <1>0, <2>1, CountsStay
  <2> QED
    BY <1>4, <2>2, TreeTypes, OwnTree
<1>5. ASSUME NEW t \in TwoThreads,
             \/ \E d \in Defs : M!AddTicks(t, d)
             \/ M!AddSample(t) \/ M!ResetTicks(t) \/ M!ResetSamples(t)
      PROVE  ContentsInv'
  <2>1. /\ ContentsTypes' /\ HoldersInv' /\ UNCHANGED MTree
        /\ \E f : /\ frame' = [frame EXCEPT ![t] = f] /\ f.at \notin {"link", "own"}
                  /\ frame[t].at \notin {"link", "own"}
    BY <1>5, TicksTypes
  <2>2. TreeInv'
    BY <1>0, <2>1, TreeStays
  <2>3. CountInv'
    BY <1>5, AddTicksCounts, AddSampleCounts, ResetTicksCounts, ResetSamplesCounts
  <2> QED
    BY <2>1, <2>2, <2>3
<1>6. ASSUME NEW t \in TwoThreads, M!ResetTimerDefs(t) \/ M!ResetCounters(t) \/ M!ResetEnds(t)
      PROVE  ContentsInv'
  BY <1>6, ResetFrames
<1>7. ASSUME NEW t \in TwoThreads,
             \/ \E v \in Counters \union {Derived} : M!AddValue(t, v) \/ M!Add(t, v)
             \/ M!ResetCounter(t) \/ M!CreateForNoSet(t) \/ M!GetVector(t)
      PROVE  ContentsInv'
  BY <1>7, ValuesStep
<1> QED
  BY <1>1, <1>2, <1>3, <1>4, <1>5, <1>6, <1>7 DEF M!Next

LEMMA TreeIsSound ==
  ASSUME ContentsInv
  PROVE  M!TreeSound
<1> USE DEF ContentsInv
<1>1. M!Created = AllDefs /\ \A d : M!Siblings(d) = SiblingsOf(d)
  BY DEF M!Created, M!ToSet, AllDefs, ToSet, M!Siblings, SiblingsOf
<1>2. SUFFICES ASSUME setMutex = Nobody
               PROVE  /\ \A d \in AllDefs :
                           /\ M!Cardinality({i \in DOMAIN SiblingsOf(d) : SiblingsOf(d)[i] = d}) = 1
                           /\ m_parent[d] # NoParent => m_parent[d] \in AllDefs /\ M!Age(m_parent[d]) < M!Age(d)
                      /\ \A d \in ToSet(m_root_timer_defs) : d \in AllDefs /\ m_parent[d] = NoParent
                      /\ \A p \in Defs : \A d \in ToSet(m_children[p]) : d \in AllDefs /\ m_parent[d] = p
  BY <1>1 DEF M!TreeSound, M!ToSet, ToSet
<1>3. Owned = {}
  BY <1>2, ContentsAssumption DEF Owned, HoldersInv, Holding
<1>4. ASSUME NEW d \in AllDefs
      PROVE  M!Cardinality({i \in DOMAIN SiblingsOf(d) : SiblingsOf(d)[i] = d}) = 1
  <2>1. PICK i : {j \in DOMAIN SiblingsOf(d) : SiblingsOf(d)[j] = d} = {i}
    BY DEF TreeInv, OnceIn
  <2>2. M!Cardinality({i}) = Cardinality({i}) /\ Cardinality({i}) = 1
    BY FS_Singleton DEF M!Cardinality, Cardinality
  <2> QED
    BY <2>1, <2>2
<1>5. ASSUME NEW d \in AllDefs, m_parent[d] # NoParent
      PROVE  m_parent[d] \in AllDefs /\ M!Age(m_parent[d]) < M!Age(d)
  <2>1. PICK i, j \in DOMAIN m_all_timer_defs :
          i < j /\ m_all_timer_defs[i] = m_parent[d] /\ m_all_timer_defs[j] = d
    BY <1>5 DEF TreeInv, Older
  <2>2. \A k, l \in DOMAIN m_all_timer_defs : m_all_timer_defs[k] = m_all_timer_defs[l] => k = l
    BY DEF TreeInv
  <2>3. M!Age(m_parent[d]) = i
    BY <2>1, <2>2 DEF M!Age
  <2>4. M!Age(d) = j
    BY <2>1, <2>2 DEF M!Age
  <2>5. m_parent[d] \in AllDefs
    BY <2>1 DEF AllDefs, ToSet
  <2> QED
    BY <2>1, <2>3, <2>4, <2>5
<1>6. \A d \in ToSet(m_root_timer_defs) : d \in AllDefs /\ m_parent[d] = NoParent
  BY <1>3 DEF TreeInv
<1>7. \A p \in Defs : \A d \in ToSet(m_children[p]) : d \in AllDefs /\ m_parent[d] = p
  BY <1>3 DEF TreeInv
<1> QED
  BY <1>4, <1>5, <1>6, <1>7

(* While its mutex is free the definitions of a set are a forest, and the  *)
(* ticks and samples of a definition differ only by the AddTicks that its  *)
(* last reset crossed, whatever the threads create, time, add and reset    *)
(* (metrics.cpp:66 and 336).                                               *)
THEOREM ContentsAlwaysSound == M!Spec => []ContentsSound
<1>1. M!Init => ContentsInv
  BY ContentsStart
<1>2. ContentsInv /\ [M!Next]_M!vars => ContentsInv'
  BY ContentsStep
<1>3. ContentsInv => ContentsSound
  <2> SUFFICES ASSUME ContentsInv PROVE M!ContentsSound
    BY DEF ContentsSound
  <2> USE DEF ContentsInv
  <2>0. total \in Nat /\ total <= MaxSamples /\ MaxSamples \in Nat
    BY ContentsAssumption DEF ContentsTypes, CountInv
  <2>1. ASSUME NEW d \in Defs
        PROVE  /\ ticks[d] \in 0 .. MaxSamples /\ samples[d] \in 0 .. MaxSamples
               /\ InMiddle(d) = {} /\ ~InReset(d) => ticks[d] - samples[d] \in -early[d] .. late[d]
    <3>1. Cardinality(InMiddle(d)) \in Nat /\ (InMiddle(d) = {} => Cardinality(InMiddle(d)) = 0)
      BY MiddleCount, FS_EmptySet
    <3>2. ticks[d] \in Nat /\ samples[d] \in Nat /\ early[d] \in Nat /\ late[d] \in Nat
      BY DEF ContentsTypes
    <3>3. ticks[d] <= total /\ samples[d] + Cardinality(InMiddle(d)) <= total
      BY DEF CountInv
    <3>4. ~InReset(d) => /\ ticks[d] - samples[d] - Cardinality(InMiddle(d)) >= -early[d]
                         /\ ticks[d] - samples[d] - Cardinality(InMiddle(d)) <= late[d]
      BY DEF CountInv
    <3>5. ticks[d] \in 0 .. MaxSamples /\ samples[d] \in 0 .. MaxSamples
      BY <2>0, <3>1, <3>2, <3>3
    <3>6. InMiddle(d) = {} /\ ~InReset(d) => ticks[d] - samples[d] \in -early[d] .. late[d]
      BY <3>1, <3>2, <3>4
    <3> QED
      BY <3>5, <3>6
  <2>2. ticks \in [Defs -> 0 .. MaxSamples] /\ samples \in [Defs -> 0 .. MaxSamples]
    BY <2>1 DEF ContentsTypes
  <2>3. m_value \in [Counters -> 0 .. MaxSamples]
    <3>1. ASSUME NEW c \in Counters
          PROVE  m_value[c] \in 0 .. MaxSamples
      <4>1. m_value[c] \in Nat /\ m_value[c] <= total
        BY DEF ContentsTypes, CountInv
      <4> QED
        BY <2>0, <4>1
    <3> QED
      BY <3>1 DEF ContentsTypes
  <2>4. M!TypeOK
    BY <2>2, <2>3 DEF M!TypeOK, ContentsTypes
  <2>5. M!TicksMatchSamples
    BY <2>1 DEF M!TicksMatchSamples, M!Between, M!IsReset, M!At, InMiddle, InReset
  <2> QED
    BY <2>4, <2>5, TreeIsSound DEF M!ContentsSound
<1> QED
  BY <1>1, <1>2, <1>3, PTL DEF M!Spec
=============================================================================
