--------------------------- MODULE ComponentsProofs --------------------------
(***************************************************************************)
(* Proofs about the parts of the library that share no state, for any      *)
(* values of their constants; those of metrics.cpp are in MetricsProofs.   *)
(***************************************************************************)
EXTENDS Components, DataLemmas, FiniteSetTheorems, TLAPS

(***************************************************************************)
(* UniqueLock and LockGuard.                                               *)
(***************************************************************************)
(* An object that is not alive owns nothing: what constructors and moves   *)
(* overwrite.                                                              *)
LocksInv == U!HeldByOne /\ \A l \in U!Objects \ alive : m_mutex[l] = NoMutex /\ m_locked[l] = FALSE

(* What HeldWithout takes away is what the object owned.                   *)
LEMMA HeldWithoutMine ==
  ASSUME NoMutex \notin Mutexes, LocksInv, NEW l \in alive
  PROVE  /\ U!HeldWithout(l) \subseteq Mutexes
         /\ \A m \in Mutexes : m \in U!HeldWithout(l) <=> m \in lockedMutexes /\ ~U!Owns(l, m)
  BY DEF LocksInv, U!HeldByOne, U!TypeOK, U!Owns, U!HeldWithout

(* An object releases what it owned, and nobody else is concerned.         *)
LEMMA Releases ==
  ASSUME NoMutex \notin Mutexes, LocksInv, U!TypeOK', NEW l \in alive, l \in U!Objects, lockedMutexes' = U!HeldWithout(l),
         \A k \in U!Objects, m \in Mutexes : U!Owns(k, m)' <=> U!Owns(k, m) /\ k # l
  PROVE  U!HeldByOne'
<1>1. \A m \in Mutexes : m \in lockedMutexes' <=> m \in lockedMutexes /\ ~U!Owns(l, m)
  BY HeldWithoutMine
<1>2. lockedMutexes \subseteq Mutexes /\ lockedMutexes' \subseteq Mutexes
  BY DEF LocksInv, U!HeldByOne, U!TypeOK
<1>3. \A m \in lockedMutexes' : \E k \in U!Objects : U!Owns(k, m)'
  <2> SUFFICES ASSUME NEW m \in lockedMutexes' PROVE \E k \in U!Objects : U!Owns(k, m)'
    OBVIOUS
  <2>1. m \in Mutexes /\ m \in lockedMutexes /\ ~U!Owns(l, m)
    BY <1>1, <1>2
  <2>2. PICK k \in U!Objects : U!Owns(k, m)
    BY <2>1 DEF LocksInv, U!HeldByOne
  <2> QED
    BY <2>1, <2>2
<1>4. ASSUME NEW k \in U!Objects, NEW m \in Mutexes, U!Owns(k, m)'
      PROVE  m \in lockedMutexes' /\ \A j \in U!Objects : U!Owns(j, m)' => j = k
  <2>1. U!Owns(k, m) /\ k # l
    BY <1>4
  <2>2. m \in lockedMutexes /\ \A j \in U!Objects : U!Owns(j, m) => j = k
    BY <2>1 DEF LocksInv, U!HeldByOne
  <2> QED
    BY <1>1, <2>1, <2>2
<1> QED
  BY <1>3, <1>4 DEF U!HeldByOne

(* HeldByOne with the invariant is inductive.                              *)
LEMMA LocksInduction ==
  ASSUME NoMutex \notin Mutexes, LocksInv, [U!Next]_U!vars
  PROVE  LocksInv'
<1> USE DEF LocksInv, U!HeldByOne, U!TypeOK, U!Owns
<1>1. ASSUME NEW l \in U!Objects, NEW m \in Mutexes, U!ConstructLocked(l, m)
      PROVE  LocksInv'
  BY <1>1 DEF U!ConstructLocked
<1>2. ASSUME NEW l \in U!Objects, U!ConstructEmpty(l)
      PROVE  LocksInv'
  BY <1>2 DEF U!ConstructEmpty, U!Objects
<1>3. ASSUME NEW l \in U!Objects, U!Lock(l)
      PROVE  LocksInv'
  BY <1>3 DEF U!Lock
<1>4. ASSUME NEW l \in U!Objects, U!Unlock(l)
      PROVE  LocksInv'
  <2>1. l \in alive /\ lockedMutexes' = U!HeldWithout(l) /\ m_mutex' = m_mutex /\ alive' = alive
    BY <1>4 DEF U!Unlock
  <2>2. \A k \in U!Objects \ {l} : m_locked'[k] = m_locked[k]
    BY <1>4 DEF U!Unlock
  <2>3. m_locked'[l] = (m_locked[l] /\ m_mutex[l] = NoMutex) /\ m_locked' \in [U!Objects -> BOOLEAN]
    BY <1>4, Zenon DEF U!Unlock
  <2>4. U!TypeOK'
    BY <2>1, <2>3, HeldWithoutMine
  <2>5. \A k \in U!Objects, m \in Mutexes : U!Owns(k, m)' <=> U!Owns(k, m) /\ k # l
    BY <2>1, <2>2, <2>3
  <2> QED
    BY <2>1, <2>2, <2>4, <2>5, Releases
<1>5. ASSUME NEW l \in U!Objects, U!Destroy(l)
      PROVE  LocksInv'
  <2>1. l \in alive /\ lockedMutexes' = U!HeldWithout(l)
    BY <1>5 DEF U!Destroy
  <2>2. U!TypeOK'
    BY <1>5, <2>1, HeldWithoutMine DEF U!Destroy
  <2>3. \A k \in U!Objects, m \in Mutexes : U!Owns(k, m)' <=> U!Owns(k, m) /\ k # l
    BY <1>5 DEF U!Destroy
  <2>4. \A k \in U!Objects \ alive' : m_mutex'[k] = NoMutex /\ m_locked'[k] = FALSE
    BY <1>5 DEF U!Destroy
  <2> QED
    BY <2>1, <2>2, <2>3, <2>4, Releases
<1>6. ASSUME NEW l \in UniqueLocks, NEW src \in UniqueLocks, U!MoveConstruct(l, src)
      PROVE  LocksInv'
  BY <1>6 DEF U!MoveConstruct, U!Objects
<1>7. ASSUME NEW l \in UniqueLocks, NEW other \in UniqueLocks, U!MoveAssign(l, other)
      PROVE  LocksInv'
  <2>1. /\ l \in alive /\ l \in U!Objects /\ other \in alive /\ other \in U!Objects /\ l # other
        /\ lockedMutexes' = U!HeldWithout(l) /\ alive' = alive
    BY <1>7 DEF U!MoveAssign, U!Objects
  <2>2. U!TypeOK'
    BY <1>7, <2>1, HeldWithoutMine DEF U!MoveAssign
  <2>3. \A m \in Mutexes : (U!Owns(l, m)' <=> U!Owns(other, m)) /\ ~U!Owns(other, m)'
    BY <1>7, <2>1 DEF U!MoveAssign
  <2>4. \A k \in U!Objects \ {l, other}, m \in Mutexes : U!Owns(k, m)' <=> U!Owns(k, m)
    BY <1>7, <2>1 DEF U!MoveAssign
  <2>5. \A m \in Mutexes : m \in lockedMutexes' <=> m \in lockedMutexes /\ ~U!Owns(l, m)
    BY <2>1, HeldWithoutMine
  <2>6. \A m \in lockedMutexes' : \E k \in U!Objects : U!Owns(k, m)'
    <3> SUFFICES ASSUME NEW m \in lockedMutexes' PROVE \E k \in U!Objects : U!Owns(k, m)'
      OBVIOUS
    <3>1. m \in Mutexes /\ m \in lockedMutexes /\ ~U!Owns(l, m)
      BY <2>1, <2>2, <2>5
    <3>2. PICK k \in U!Objects : U!Owns(k, m)
      BY <3>1
    <3> QED
      BY <2>1, <2>3, <2>4, <3>1, <3>2
  <2>7. \A k \in U!Objects, m \in Mutexes :
          U!Owns(k, m)' => m \in lockedMutexes' /\ \A j \in U!Objects : U!Owns(j, m)' => j = k
    <3> HIDE DEF U!Owns
    <3> QED
      BY <2>1, <2>3, <2>4, <2>5
  <2>8. \A k \in U!Objects \ alive' : m_mutex'[k] = NoMutex /\ m_locked'[k] = FALSE
    BY <1>7, <2>1 DEF U!MoveAssign
  <2> QED
    BY <2>2, <2>6, <2>7, <2>8
<1>8. CASE UNCHANGED U!vars
  BY <1>8 DEF U!vars
<1> QED
  BY <1>1, <1>2, <1>3, <1>4, <1>5, <1>6, <1>7, <1>8 DEF U!Next

(* However lock objects are moved, locked, unlocked and destroyed, each    *)
(* locked mutex has one owner, which unlocks it (mutex.h:165, 201, 213).   *)
THEOREM OneOwner == U!Spec => []HeldByOne
<1>1. U!Init => LocksInv
  BY DEF U!Init, LocksInv, U!HeldByOne, U!TypeOK, U!Owns
<1>2. LocksInv /\ [U!Next]_U!vars => LocksInv'
  BY LocksInduction, LocksAssumption
<1>3. LocksInv => HeldByOne
  BY DEF LocksInv, HeldByOne
<1> QED
  BY <1>1, <1>2, <1>3, PTL DEF U!Spec

-----------------------------------------------------------------------------
(***************************************************************************)
(* The names of threads.                                                   *)
(***************************************************************************)
(* A global that is none of the current callbacks is one that a thread has *)
(* still to store.                                                         *)
GlobalsInv ==
  \A field \in N!Fields :
    g_callback[field] \in current \/ \E t \in TwoThreads : field \in unset[t]

(* What a thread has still to store is current.                            *)
SettersInv ==
  \A t \in TwoThreads : /\ naming[t] = "setting" => setting[t] \in current
                        /\ naming[t] # "setting" => unset[t] = {}

(* As long as a thread is undisturbed, nobody sets a callback, and what it *)
(* has tested is current.                                                  *)
UndisturbedInv ==
  \A t \in undisturbed : /\ N!NobodySets
                         /\ naming[t] = "tested" => tested[t] \in [N!Fields -> current]

NamesInv ==
  /\ N!OwnContext /\ GlobalsInv /\ SettersInv /\ UndisturbedInv
  /\ undisturbed \subseteq TwoThreads
  /\ current \subseteq Callbacks \union {NoCallback}
  /\ setting \in [TwoThreads -> Callbacks \union {NoCallback}]

(* When nobody sets a callback, both globals are current.                  *)
LEMMA GlobalsCurrent ==
  ASSUME NamesInv, N!NobodySets
  PROVE  g_callback \in [N!Fields -> current]
  BY DEF NamesInv, N!OwnContext, N!TypeOK, GlobalsInv, SettersInv, N!NobodySets

LEMMA NamesInduction ==
  ASSUME NamesInv, [N!Next]_N!vars
  PROVE  NamesInv'
<1> USE DEF NamesInv, N!OwnContext, N!TypeOK, GlobalsInv, SettersInv, UndisturbedInv, N!NobodySets, N!Goes
<1>1. ASSUME NEW t \in TwoThreads, NEW callback \in Callbacks \union {NoCallback},
             N!SetSetCurrentThreadNameCallback(t, callback)
      PROVE  NamesInv'
  <2>1. N!TypeOK' /\ setting' \in [TwoThreads -> Callbacks \union {NoCallback}]
    BY <1>1 DEF N!SetSetCurrentThreadNameCallback, N!Fields
  <2>2. current \subseteq current' \/ N!NobodySets
    BY <1>1 DEF N!SetSetCurrentThreadNameCallback
  <2>3. callback \in current' /\ current' \subseteq Callbacks \union {NoCallback}
    BY <1>1 DEF N!SetSetCurrentThreadNameCallback
  <2>4. GlobalsInv'
    BY <1>1 DEF N!SetSetCurrentThreadNameCallback
  <2>5. SettersInv'
    BY <1>1, <2>2, <2>3 DEF N!SetSetCurrentThreadNameCallback
  <2> QED
    BY <1>1, <2>1, <2>3, <2>4, <2>5 DEF N!SetSetCurrentThreadNameCallback
<1>2. ASSUME NEW t \in TwoThreads, NEW field \in N!Fields, N!Store(t, field)
      PROVE  NamesInv'
  <2>1. N!TypeOK'
    BY <1>2 DEF N!Store
  <2>2. GlobalsInv'
    BY <1>2 DEF N!Store
  <2>3. SettersInv'
    BY <1>2 DEF N!Store
  <2> QED
    BY <1>2, <2>1, <2>2, <2>3 DEF N!Store
<1>3. ASSUME NEW t \in TwoThreads, N!CallbackSet(t)
      PROVE  NamesInv'
  BY <1>3 DEF N!CallbackSet
<1>4. ASSUME NEW t \in TwoThreads, N!SetCurrentThreadName(t)
      PROVE  NamesInv'
  BY <1>4 DEF N!SetCurrentThreadName
<1>5. ASSUME NEW t \in TwoThreads, N!TestFn(t)
      PROVE  NamesInv'
  <2>1. t \in undisturbed => g_callback \in [N!Fields -> current]
    BY GlobalsCurrent
  <2>2. CASE g_callback["fn"] = NoCallback
    <3>1. t \in undisturbed => N!Pair(NoCallback) \in [N!Fields -> current]
      BY <2>1, <2>2 DEF N!Fields, N!Pair
    <3>2. /\ naming[t] = "named" /\ naming' = [naming EXCEPT ![t] = "idle"]
          /\ told' = IF t \in undisturbed THEN told \union {N!Pair(NoCallback)} ELSE told
          /\ UNCHANGED <<g_callback, tested, setting, unset, current, undisturbed>>
      BY <1>5, <2>2 DEF N!TestFn, N!Calls
    <3>3. N!TypeOK'
      BY <3>2
    <3>4. told' \subseteq [N!Fields -> current']
      BY <3>1, <3>2
    <3>5. GlobalsInv' /\ SettersInv'
      BY <3>2
    <3>6. UndisturbedInv'
      BY <3>2
    <3> QED
      BY <3>2, <3>3, <3>4, <3>5, <3>6
  <2>3. CASE g_callback["fn"] # NoCallback
    <3>1. /\ naming[t] = "named" /\ naming' = [naming EXCEPT ![t] = "tested"]
          /\ tested' = [tested EXCEPT ![t] = g_callback]
          /\ UNCHANGED <<g_callback, setting, unset, current, undisturbed, told>>
      BY <1>5, <2>3 DEF N!TestFn
    <3>2. N!TypeOK'
      BY <3>1
    <3>3. GlobalsInv' /\ SettersInv'
      BY <3>1
    <3>4. UndisturbedInv'
      BY <2>1, <3>1
    <3> QED
      BY <3>1, <3>2, <3>3, <3>4
  <2> QED
    BY <2>2, <2>3
<1>6. ASSUME NEW t \in TwoThreads, N!Tell(t)
      PROVE  NamesInv'
  BY <1>6, GlobalsCurrent DEF N!Tell, N!Calls, N!Pair
<1>7. CASE UNCHANGED N!vars
  BY <1>7 DEF N!vars
<1> QED
  BY <1>1, <1>2, <1>3, <1>4, <1>5, <1>6, <1>7 DEF N!Next

(* A thread that names itself while nobody sets a callback tells the one   *)
(* that was set last, with its context (system.cpp:24 and 34).             *)
THEOREM OwnContextAlways == N!Spec => []OwnContext
<1>1. N!Init => NamesInv
  BY DEF N!Init, NamesInv, N!OwnContext, N!TypeOK, GlobalsInv, SettersInv, UndisturbedInv, N!Pair
<1>2. NamesInv /\ [N!Next]_N!vars => NamesInv'
  BY NamesInduction
<1>3. NamesInv => OwnContext
  BY DEF NamesInv, OwnContext
<1> QED
  BY <1>1, <1>2, <1>3, PTL DEF N!Spec

-----------------------------------------------------------------------------
(***************************************************************************)
(* The callbacks of a failed test.  An instance has operators of the       *)
(* library of its own.                                                     *)
(***************************************************************************)
LEMMA SameFlatten == ASSUME NEW s PROVE T!FlattenSeq(s) = FlattenSeq(s)
  BY DEF T!FlattenSeq, FlattenSeq

LEMMA SameElements == ASSUME NEW s PROVE T!ToSet(s) = ToSet(s)
  BY DEF T!ToSet, ToSet

LEMMA SameNumber == ASSUME NEW S PROVE T!Cardinality(S) = Cardinality(S)
  BY DEF T!Cardinality, Cardinality

Increasing(s) == \A i, k \in DOMAIN s : i < k => s[i] < s[k]

(* The first elements of an increasing sequence are all different.         *)
LEMMA FirstElements ==
  ASSUME NEW s \in Seq(Nat), Increasing(s), NEW m \in 0..Len(s)
  PROVE  LET first == {s[k] : k \in 1..m} IN IsFiniteSet(first) /\ Cardinality(first) = m
<1> DEFINE first == {s[k] : k \in 1..m}
           f == [k \in 1..m |-> s[k]]
<1>1. DOMAIN s = 1..Len(s) /\ Len(s) \in Nat /\ 1..m \subseteq DOMAIN s /\ m \in Nat
  OBVIOUS
<1>2. \A k \in 1..m : s[k] \in Nat
  BY <1>1
<1>3. f \in [1..m -> first] /\ \A t \in first : \E k \in 1..m : f[k] = t
  OBVIOUS
<1>4. ASSUME NEW i \in 1..m, NEW k \in 1..m, f[i] = f[k] PROVE i = k
  <2>1. s[i] = s[k] /\ i \in DOMAIN s /\ k \in DOMAIN s
    BY <1>1, <1>4
  <2>2. ~(i < k) /\ ~(k < i)
    BY <1>2, <2>1 DEF Increasing
  <2> QED
    BY <2>2
<1> HIDE DEF first, f
<1>5. f \in Bijection(1..m, first)
  BY <1>3, <1>4 DEF Bijection, Injection, IsInjective, Surjection
<1>6. IsFiniteSet(1..m) /\ Cardinality(1..m) = m
  BY <1>1, FS_Interval
<1>7. IsFiniteSet(first) /\ Cardinality(first) = m
  BY <1>5, <1>6, FS_Bijection DEF ExistsBijection
<1> QED
  BY <1>7 DEF first

LEMMA AllElements ==
  ASSUME NEW s \in Seq(Nat), Increasing(s)
  PROVE  IsFiniteSet(ToSet(s)) /\ Cardinality(ToSet(s)) = Len(s)
<1>1. Len(s) \in 0..Len(s) /\ ToSet(s) = {s[k] : k \in 1..Len(s)}
  BY DEF ToSet
<1> QED
  BY <1>1, FirstElements

CutFrom(s, a, c) == FlattenSeq([k \in DOMAIN s |-> IF a[s[k]] = c THEN <<>> ELSE <<s[k]>>])

(* What is left of an increasing sequence without some of its elements is  *)
(* increasing, has the others, and none of them further behind.            *)
LEMMA WithoutSome ==
  ASSUME NEW D \in SUBSET Nat, NEW s \in Seq(D), Increasing(s), NEW a, NEW c
  PROVE  LET r == CutFrom(s, a, c)
         IN  /\ r \in Seq(D) /\ Increasing(r)
             /\ ToSet(r) = {x \in ToSet(s) : a[x] # c}
             /\ \A j \in 1..Len(r) : \E k \in j..Len(s) : r[j] = s[k]
<1> DEFINE x(k) == IF a[s[k]] = c THEN <<>> ELSE <<s[k]>>
           Kept(n) == [k \in 1..n |-> x(k)]
           Good(r, n) == /\ r \in Seq(D)
                         /\ \A j \in 1..Len(r) : a[r[j]] # c /\ \E k \in j..n : r[j] = s[k]
                         /\ \A k \in 1..n : a[s[k]] # c => \E j \in 1..Len(r) : r[j] = s[k]
                         /\ \A i, k \in 1..Len(r) : i < k => r[i] < r[k]
           S == {n \in Nat : n <= Len(s) => Good(FlattenSeq(Kept(n)), n)}
<1>1. DOMAIN s = 1..Len(s) /\ Len(s) \in Nat /\ \A k \in 1..Len(s) : s[k] \in D
  OBVIOUS
<1>2. 0 \in S
  <2>1. Kept(0) = <<>>
    OBVIOUS
  <2>2. FlattenSeq(Kept(0)) = <<>>
    BY <2>1, FlattenEmpty
  <2>3. Good(<<>>, 0)
    OBVIOUS
  <2> HIDE DEF Kept, Good
  <2> QED
    BY <2>2, <2>3
<1>3. ASSUME NEW n \in Nat, n \in S, n + 1 <= Len(s) PROVE Good(FlattenSeq(Kept(n + 1)), n + 1)
  <2>1. PICK m : m = n + 1
    OBVIOUS
  <2>2. n \in Nat /\ m \in 1..Len(s) /\ \A k \in 1..n : k \in 1..Len(s)
    BY <1>1, <1>3, <2>1
  <2>3. \A k \in 1..m : x(k) \in Seq(D)
    <3>1. \A k \in 1..m : s[k] \in D
      BY <1>1, <2>2
    <3> QED
      BY <3>1
  <2> HIDE DEF x
  <2>4. Kept(n) \in Seq(Seq(D)) /\ Len(Kept(n)) = n
    BY <2>1, <2>2, <2>3
  <2>5. Kept(m) = Append(Kept(n), x(m))
    BY <2>1, <2>2
  <2>6. PICK r : r = FlattenSeq(Kept(n))
    OBVIOUS
  <2> HIDE DEF Kept
  <2>7. FlattenSeq(Kept(m)) = r \o x(m)
    <3>1. x(m) \in Seq(D) /\ Kept(n) \in Seq(Seq(D))
      BY <2>2, <2>3, <2>4
    <3>2. FlattenSeq(Append(Kept(n), x(m))) = FlattenSeq(Kept(n)) \o x(m)
      BY <3>1, FlattenAppend
    <3> QED
      BY <2>5, <2>6, <3>2
  <2>8. Good(r, n)
    <3> HIDE DEF Good
    <3> QED
      BY <1>1, <1>3, <2>6
  <2>9. s[m] \in D /\ s[m] \in Nat /\ \A k \in 1..n : s[k] < s[m]
    <3>1. m \in DOMAIN s /\ \A k \in 1..n : k \in DOMAIN s /\ k < m
      BY <1>1, <2>1, <2>2
    <3>2. \A k \in 1..n : s[k] < s[m]
      BY <3>1 DEF Increasing
    <3> QED
      BY <1>1, <2>2, <3>2
  <2>10. CASE a[s[m]] = c
    <3>1. r \o x(m) = r
      BY <2>8, <2>10 DEF x
    <3>2. Good(r, m)
      BY <2>1, <2>2, <2>8, <2>10
    <3> HIDE DEF Good
    <3> QED
      BY <2>1, <2>7, <3>1, <3>2
  <2>11. CASE a[s[m]] # c
    <3>1. PICK t : t = Append(r, s[m])
      OBVIOUS
    <3>2. r \o x(m) = t
      BY <2>8, <2>11, <3>1 DEF x
    <3>3. /\ t \in Seq(D) /\ Len(t) = Len(r) + 1 /\ Len(r) \in Nat
          /\ t[Len(r) + 1] = s[m] /\ \A j \in 1..Len(r) : t[j] = r[j]
      BY <2>8, <2>9, <3>1
    <3>4. Len(r) <= n
      <4>1. CASE Len(r) = 0
        BY <2>2, <4>1
      <4>2. CASE Len(r) # 0
        <5>1. Len(r) \in 1..Len(r)
          BY <3>3, <4>2
        <5>2. \E k \in Len(r)..n : r[Len(r)] = s[k]
          BY <2>8, <5>1
        <5> QED
          BY <2>2, <3>3, <5>2
      <4> QED
        BY <4>1, <4>2
    <3>5. PICK l : l = Len(r)
      OBVIOUS
    <3>6. ASSUME NEW j \in 1..(l + 1) PROVE a[t[j]] # c /\ \E k \in j..m : t[j] = s[k]
      <4>1. CASE j <= l
        <5>1. j \in 1..Len(r) /\ t[j] = r[j]
          BY <3>3, <3>5, <4>1
        <5>2. PICK k \in j..n : r[j] = s[k]
          BY <2>8, <5>1
        <5>3. k \in j..m
          BY <2>1, <2>2
        <5> QED
          BY <2>8, <5>1, <5>2, <5>3
      <4>2. CASE j = l + 1
        <5>1. m \in j..m /\ t[j] = s[m]
          BY <2>1, <2>2, <3>3, <3>4, <3>5, <4>2
        <5> QED
          BY <2>11, <5>1
      <4> QED
        BY <3>3, <3>5, <4>1, <4>2
    <3>7. ASSUME NEW k \in 1..m, a[s[k]] # c PROVE \E j \in 1..(l + 1) : t[j] = s[k]
      <4>1. CASE k \in 1..n
        <5>1. PICK j \in 1..Len(r) : r[j] = s[k]
          BY <2>8, <3>7, <4>1
        <5>2. j \in 1..(l + 1) /\ t[j] = s[k]
          BY <3>3, <3>5, <5>1
        <5> QED
          BY <5>2
      <4>2. CASE k = m
        <5>1. l + 1 \in 1..(l + 1) /\ t[l + 1] = s[k]
          BY <3>3, <3>5, <4>2
        <5> QED
          BY <5>1
      <4> QED
        BY <2>1, <2>2, <4>1, <4>2
    <3>8. ASSUME NEW i \in 1..(l + 1), NEW k \in 1..(l + 1), i < k PROVE t[i] < t[k]
      <4>1. i \in 1..l /\ t[i] = r[i]
        BY <3>3, <3>5, <3>8
      <4>2. CASE k <= l
        <5>1. k \in 1..l /\ t[k] = r[k]
          BY <3>3, <3>5, <4>2
        <5> QED
          BY <2>8, <3>5, <3>8, <4>1, <5>1
      <4>3. CASE k = l + 1
        <5>1. PICK q \in i..n : r[i] = s[q]
          BY <2>8, <3>5, <4>1
        <5>2. q \in 1..n /\ t[k] = s[m]
          BY <2>2, <3>3, <3>5, <4>1, <4>3
        <5> QED
          BY <2>9, <4>1, <5>1, <5>2
      <4> QED
        BY <3>3, <3>5, <4>2, <4>3
    <3>9. Good(t, m)
      BY <3>3, <3>5, <3>6, <3>7, <3>8
    <3> HIDE DEF Good
    <3> QED
      BY <2>1, <2>7, <3>2, <3>9
  <2> QED
    BY <2>10, <2>11
<1> HIDE DEF S, Good, Kept, x
<1>4. \A n \in 0..Len(s) : n < Len(s) /\ n \in S => n + 1 \in S
  BY <1>1, <1>3 DEF S
<1>5. 0..Len(s) \subseteq S
  BY <1>1, <1>2, <1>4, EveryNumberTo
<1>6. Len(s) \in 0..Len(s)
  BY <1>1
<1>7. Good(FlattenSeq(Kept(Len(s))), Len(s))
  BY <1>5, <1>6, <1>1 DEF S
<1>8. CutFrom(s, a, c) = FlattenSeq(Kept(Len(s)))
  BY <1>1 DEF CutFrom, Kept, x
<1>9. PICK r : r = FlattenSeq(Kept(Len(s)))
  OBVIOUS
<1>10. Good(r, Len(s))
  BY <1>7, <1>9
<1>11. /\ r \in Seq(D) /\ Increasing(r)
       /\ \A j \in 1..Len(r) : \E k \in j..Len(s) : r[j] = s[k]
  <2>1. r \in Seq(D) /\ \A j \in 1..Len(r) : \E k \in j..Len(s) : r[j] = s[k]
    BY <1>10 DEF Good
  <2>2. DOMAIN r = 1..Len(r) /\ \A i, k \in 1..Len(r) : i < k => r[i] < r[k]
    BY <1>10, <2>1 DEF Good
  <2> QED
    BY <2>1, <2>2 DEF Increasing
<1>12. ToSet(r) = {y \in ToSet(s) : a[y] # c}
  <2>1. DOMAIN r = 1..Len(r)
    BY <1>11
  <2>2. ASSUME NEW j \in 1..Len(r) PROVE r[j] \in {y \in ToSet(s) : a[y] # c}
    <3>1. PICK k \in j..Len(s) : r[j] = s[k]
      BY <1>11
    <3>2. k \in DOMAIN s
      BY <1>1
    <3> QED
      BY <1>10, <3>1, <3>2 DEF Good, ToSet
  <2>3. ASSUME NEW k \in DOMAIN s, a[s[k]] # c PROVE s[k] \in ToSet(r)
    BY <1>1, <1>10, <2>1, <2>3 DEF Good, ToSet
  <2> QED
    BY <2>1, <2>2, <2>3 DEF ToSet
<1> QED
  BY <1>8, <1>9, <1>11, <1>12
-----------------------------------------------------------------------------
(* The vector has the callbacks that were added and not removed, in the    *)
(* order of addition.                                                      *)
Registered == DOMAIN added \ removed

VectorInv ==
  /\ Increasing(g_fail_fns) /\ ToSet(g_fail_fns) = Registered
  /\ removed \subseteq DOMAIN added /\ cancelled \subseteq removed

(* What the loop has called is before all that is still in front of it.    *)
LoopInv ==
  /\ stopFn \in Nat /\ nextFn \in 1..(stopFn + 1) /\ Len(called) = nextFn - 1
  /\ testPhase = "logged" => nextFn = stopFn + 1
  /\ Increasing(called) /\ ToSet(called) \intersect cancelled = {}
  /\ \A k \in nextFn..Len(g_fail_fns), i \in 1..Len(called) : called[i] < g_fail_fns[k]

(* As many were registered when the loop began as it has steps, and all    *)
(* that are new since then are behind them.                                *)
BeginningInv ==
  /\ atFailure \subseteq DOMAIN added
  /\ IsFiniteSet(atFailure) /\ Cardinality(atFailure) = stopFn
  /\ \A f \in Registered \ atFailure, h \in atFailure : h < f
  /\ testPhase = "lost" => vectorMoved \/ atFailure \intersect removed # {}

TestsInv == T!TypeOK /\ VectorInv /\ LoopInv /\ BeginningInv

LEMMA TestTypes ==
  ASSUME TestsInv
  PROVE  /\ Len(added) \in Nat /\ DOMAIN added = 1..Len(added) /\ DOMAIN added \subseteq Nat
         /\ g_fail_fns \in Seq(DOMAIN added) /\ g_fail_fns \in Seq(Nat)
         /\ called \in Seq(DOMAIN added) /\ called \in Seq(Nat)
         /\ DOMAIN g_fail_fns = 1..Len(g_fail_fns) /\ Len(g_fail_fns) \in Nat
         /\ DOMAIN called = 1..Len(called) /\ Len(called) \in Nat
         /\ nextFn \in Nat /\ stopFn \in Nat
<1>1. added \in Seq(Contexts) /\ g_fail_fns \in Seq(DOMAIN added) /\ called \in Seq(DOMAIN added)
  BY DEF TestsInv, T!TypeOK
<1>2. Len(added) \in Nat /\ DOMAIN added = 1..Len(added) /\ DOMAIN added \subseteq Nat
  BY <1>1
<1>3. nextFn \in Nat /\ stopFn \in Nat
  BY DEF TestsInv, LoopInv
<1>4. g_fail_fns \in Seq(Nat) /\ called \in Seq(Nat)
  BY <1>1, <1>2
<1> QED
  BY <1>1, <1>2, <1>3, <1>4

(* An element of the beginning that is still registered is in reach of the *)
(* loop: the ones before it are of the beginning as well.                  *)
LEMMA InReach ==
  ASSUME TestsInv, NEW k \in DOMAIN g_fail_fns, g_fail_fns[k] \in atFailure
  PROVE  k <= stopFn
<1> DEFINE first == {g_fail_fns[i] : i \in 1..k}
<1>0. k \in 0..Len(g_fail_fns) /\ k \in Nat /\ 1..k \subseteq DOMAIN g_fail_fns
  BY TestTypes
<1>1. IsFiniteSet(first) /\ Cardinality(first) = k
  BY <1>0, TestTypes, FirstElements DEF TestsInv, VectorInv
<1>2. ASSUME NEW i \in 1..k PROVE g_fail_fns[i] \in atFailure
  <2>1. CASE i = k
    BY <2>1
  <2>2. CASE i < k
    <3>1. i \in DOMAIN g_fail_fns /\ g_fail_fns[i] < g_fail_fns[k]
      BY <1>0, <2>2 DEF TestsInv, VectorInv, Increasing
    <3>2. g_fail_fns[i] \in Registered
      BY <3>1 DEF TestsInv, VectorInv, ToSet
    <3>3. g_fail_fns[i] \in Nat /\ g_fail_fns[k] \in Nat
      BY <3>1, TestTypes
    <3>4. ~(g_fail_fns[k] < g_fail_fns[i])
      BY <3>1, <3>3
    <3> QED
      BY <3>2, <3>4 DEF TestsInv, BeginningInv
  <2> QED
    BY <1>0, <2>1, <2>2
<1> HIDE DEF first
<1>3. first \in SUBSET atFailure
  BY <1>2 DEF first
<1>4. Cardinality(first) <= Cardinality(atFailure)
  BY <1>3, FS_Subset DEF TestsInv, BeginningInv
<1> QED
  BY <1>1, <1>4 DEF TestsInv, BeginningInv

(* The loop called as many as there were.  Those of the beginning that it  *)
(* did not call, and those that it called, are in its reach as far as they *)
(* are registered; so for each that it missed it called one that is gone.  *)
LEMMA MissedAreFew ==
  ASSUME TestsInv, testPhase = "logged"
  PROVE  T!Cardinality(T!Missed) <= T!Cardinality(T!ToSet(called) \intersect removed)
<1> DEFINE missed == {f \in atFailure \ removed : f \notin ToSet(called)}
           kept == ToSet(called) \ removed
           gone_ == ToSet(called) \intersect removed
           n == IF stopFn <= Len(g_fail_fns) THEN stopFn ELSE Len(g_fail_fns)
           reach == {g_fail_fns[k] : k \in 1..n}
<1>1. n \in 0..Len(g_fail_fns) /\ n <= stopFn /\ \A k \in DOMAIN g_fail_fns : k <= stopFn => k \in 1..n
  BY TestTypes
<1>2. IsFiniteSet(reach) /\ Cardinality(reach) <= stopFn
  <2> HIDE DEF n
  <2>1. IsFiniteSet(reach) /\ Cardinality(reach) = n
    BY <1>1, TestTypes, FirstElements DEF TestsInv, VectorInv
  <2> QED
    BY <1>1, <2>1
<1>3. missed \subseteq reach
  <2> SUFFICES ASSUME NEW f \in missed PROVE f \in reach
    OBVIOUS
  <2>1. f \in Registered /\ f \in atFailure
    BY DEF Registered, TestsInv, BeginningInv
  <2>2. PICK k \in DOMAIN g_fail_fns : g_fail_fns[k] = f
    BY <2>1 DEF TestsInv, VectorInv, ToSet
  <2>3. k \in 1..n
    BY <1>1, <2>1, <2>2, InReach
  <2> QED
    BY <2>2, <2>3
<1>4. kept \subseteq reach
  <2> SUFFICES ASSUME NEW f \in kept PROVE f \in reach
    OBVIOUS
  <2>1. PICK i \in 1..Len(called) : called[i] = f
    BY TestTypes DEF ToSet
  <2>2. f \in DOMAIN added /\ f \in Nat /\ f \in Registered
    BY <2>1, TestTypes DEF Registered
  <2>3. PICK k \in DOMAIN g_fail_fns : g_fail_fns[k] = f
    BY <2>2 DEF TestsInv, VectorInv, ToSet
  <2>4. ~(k \in nextFn..Len(g_fail_fns))
    <3>1. ~(called[i] < g_fail_fns[k])
      BY <2>1, <2>2, <2>3
    <3> QED
      BY <2>1, <3>1 DEF TestsInv, LoopInv
  <2>5. k <= stopFn
    BY <2>4, TestTypes DEF TestsInv, LoopInv
  <2>6. k \in 1..n
    BY <1>1, <2>5
  <2> QED
    BY <2>3, <2>6
<1>5. IsFiniteSet(ToSet(called)) /\ Cardinality(ToSet(called)) = stopFn
  <2>1. IsFiniteSet(ToSet(called)) /\ Cardinality(ToSet(called)) = Len(called)
    BY TestTypes, AllElements DEF TestsInv, LoopInv
  <2>2. Len(called) = stopFn
    BY TestTypes DEF TestsInv, LoopInv
  <2> QED
    BY <2>1, <2>2
<1>6. missed \intersect kept = {} /\ kept \intersect gone_ = {} /\ ToSet(called) = kept \union gone_
  OBVIOUS
<1> HIDE DEF missed, kept, gone_, reach, n
<1>7. /\ IsFiniteSet(missed) /\ IsFiniteSet(kept) /\ IsFiniteSet(gone_)
  <2>1. missed \in SUBSET reach /\ kept \in SUBSET reach /\ gone_ \in SUBSET ToSet(called)
    BY <1>3, <1>4, <1>6
  <2> QED
    BY <1>2, <1>5, <2>1, FS_Subset
<1>8. Cardinality(missed) + Cardinality(kept) <= stopFn
  <2>1. /\ IsFiniteSet(missed \union kept)
        /\ Cardinality(missed \union kept) = Cardinality(missed) + Cardinality(kept) - Cardinality({})
    BY <1>6, <1>7, FS_Union
  <2>2. (missed \union kept) \in SUBSET reach
    BY <1>3, <1>4
  <2>3. Cardinality(missed \union kept) <= Cardinality(reach)
    BY <1>2, <2>2, FS_Subset
  <2>4. /\ Cardinality(missed) \in Nat /\ Cardinality(kept) \in Nat /\ Cardinality(reach) \in Nat
        /\ Cardinality({}) = 0
    BY <1>2, <1>7, FS_CardinalityType, FS_EmptySet
  <2> QED
    BY <1>2, <2>1, <2>3, <2>4, TestTypes
<1>9. Cardinality(kept) + Cardinality(gone_) = stopFn
  <2>1. Cardinality(kept \union gone_) = Cardinality(kept) + Cardinality(gone_) - Cardinality({})
    BY <1>6, <1>7, FS_Union
  <2>2. Cardinality(kept) \in Nat /\ Cardinality(gone_) \in Nat /\ Cardinality({}) = 0
    BY <1>7, FS_CardinalityType, FS_EmptySet
  <2> QED
    BY <1>5, <1>6, <2>1, <2>2
<1>10. Cardinality(missed) <= Cardinality(gone_)
  <2>1. Cardinality(missed) \in Nat /\ Cardinality(kept) \in Nat /\ Cardinality(gone_) \in Nat
    BY <1>7, FS_CardinalityType
  <2> QED
    BY <1>8, <1>9, <2>1, TestTypes
<1>11. missed = T!Missed /\ gone_ = T!ToSet(called) \intersect removed
  BY SameElements DEF missed, gone_, T!Missed
<1> QED
  BY <1>10, <1>11, SameNumber
(* One proof for each operation: an addition is behind everything, and so   *)
(* new to the loop; a removal brings nothing behind the position of the    *)
(* loop that was in front of it; a failure begins a new loop.              *)
LEMMA SequenceOfMore ==
  ASSUME NEW A, NEW B, A \subseteq B, NEW s \in Seq(A)
  PROVE  s \in Seq(B)
OBVIOUS

LEMMA AddKeeps ==
  ASSUME TestsInv, NEW c \in Contexts, T!AddTestFailFn(c)
  PROVE  TestsInv'
<1> DEFINE n == Len(added) + 1
<1>1. /\ added' = Append(added, c) /\ g_fail_fns' = Append(g_fail_fns, n)
      /\ testPhase \in {"running", "failing"}
      /\ UNCHANGED <<testPhase, nextFn, stopFn, called, removed, atFailure, cancelled>>
  BY DEF T!AddTestFailFn, T!InCallback
<1>2. added \in Seq(Contexts)
  BY DEF TestsInv, T!TypeOK
<1>3. /\ added' \in Seq(Contexts) /\ DOMAIN added' = 1..n /\ n \in Nat
      /\ DOMAIN added' = DOMAIN added \union {n} /\ \A f \in DOMAIN added : f < n
  BY <1>1, <1>2
<1> HIDE DEF n
<1>4. g_fail_fns \in Seq(DOMAIN added') /\ called \in Seq(DOMAIN added')
  <2>1. /\ DOMAIN added \subseteq DOMAIN added'
        /\ g_fail_fns \in Seq(DOMAIN added) /\ called \in Seq(DOMAIN added)
    BY <1>3, TestTypes
  <2> QED
    BY <2>1, SequenceOfMore, Zenon
<1>5. /\ g_fail_fns' \in Seq(DOMAIN added') /\ DOMAIN g_fail_fns' = 1..(Len(g_fail_fns) + 1)
      /\ \A k \in 1..Len(g_fail_fns) : g_fail_fns'[k] = g_fail_fns[k] /\ g_fail_fns[k] < n
      /\ g_fail_fns'[Len(g_fail_fns) + 1] = n /\ Len(g_fail_fns') = Len(g_fail_fns) + 1
      /\ ToSet(g_fail_fns') = ToSet(g_fail_fns) \union {n}
  <2>1. n \in DOMAIN added'
    BY <1>3
  <2>2. \A k \in 1..Len(g_fail_fns) : g_fail_fns[k] < n
    <3>1. \A k \in 1..Len(g_fail_fns) : g_fail_fns[k] \in DOMAIN added
      BY TestTypes
    <3> QED
      BY <1>3, <3>1, Zenon
  <2>3. /\ Append(g_fail_fns, n) \in Seq(DOMAIN added')
        /\ DOMAIN Append(g_fail_fns, n) = 1..(Len(g_fail_fns) + 1)
        /\ \A k \in 1..Len(g_fail_fns) : Append(g_fail_fns, n)[k] = g_fail_fns[k]
        /\ Append(g_fail_fns, n)[Len(g_fail_fns) + 1] = n
        /\ ToSet(Append(g_fail_fns, n)) = ToSet(g_fail_fns) \union {n}
    BY <1>4, <2>1, AppendedIs
  <2>4. Len(Append(g_fail_fns, n)) = Len(g_fail_fns) + 1
    BY TestTypes
  <2> QED
    BY <1>1, <2>2, <2>3, <2>4
<1>6. T!TypeOK'
  BY <1>1, <1>3, <1>4, <1>5 DEF TestsInv, T!TypeOK
<1>7. Registered' = Registered \union {n}
  <2>1. n \notin removed
    BY <1>3, TestTypes DEF TestsInv, VectorInv
  <2> QED
    BY <1>1, <1>3, <2>1 DEF Registered
<1>8. VectorInv'
  <2>1. ASSUME NEW i \in DOMAIN g_fail_fns', NEW k \in DOMAIN g_fail_fns', i < k
        PROVE  g_fail_fns'[i] < g_fail_fns'[k]
    <3>1. i \in 1..Len(g_fail_fns)
      BY <1>5, <2>1, TestTypes
    <3>2. CASE k \in 1..Len(g_fail_fns)
      BY <1>5, <2>1, <3>1, <3>2, TestTypes DEF TestsInv, VectorInv, Increasing
    <3>3. CASE k = Len(g_fail_fns) + 1
      BY <1>5, <3>1, <3>3
    <3> QED
      BY <1>5, <3>2, <3>3, TestTypes
  <2> QED
    BY <1>1, <1>3, <1>5, <1>7, <2>1 DEF TestsInv, VectorInv, Increasing
<1>9. LoopInv'
  <2>1. ASSUME NEW k \in nextFn..Len(g_fail_fns'), NEW i \in 1..Len(called)
        PROVE  called[i] < g_fail_fns'[k]
    <3>1. CASE k \in 1..Len(g_fail_fns)
      <4>1. k \in nextFn..Len(g_fail_fns) /\ g_fail_fns'[k] = g_fail_fns[k]
        BY <1>5, <3>1, TestTypes
      <4> QED
        BY <4>1 DEF TestsInv, LoopInv
    <3>2. CASE k = Len(g_fail_fns) + 1
      <4>1. called[i] \in DOMAIN added
        BY TestTypes
      <4> QED
        BY <1>3, <1>5, <3>2, <4>1
    <3>3. k \in 1..(Len(g_fail_fns) + 1)
      BY <1>5, TestTypes DEF TestsInv, LoopInv
    <3> QED
      BY <3>1, <3>2, <3>3, TestTypes
  <2> QED
    BY <1>1, <2>1 DEF TestsInv, LoopInv
<1>10. BeginningInv'
  <2>1. \A f \in Registered' \ atFailure, h \in atFailure : h < f
    BY <1>3, <1>7 DEF TestsInv, BeginningInv
  <2> QED
    <3>1. testPhase' # "lost"
      BY <1>1
    <3>2. atFailure \subseteq DOMAIN added'
      BY <1>3 DEF TestsInv, BeginningInv
    <3>3. atFailure' = atFailure /\ stopFn' = stopFn
      BY <1>1
    <3>4. IsFiniteSet(atFailure) /\ Cardinality(atFailure) = stopFn
      BY DEF TestsInv, BeginningInv
    <3> QED
      BY <2>1, <3>1, <3>2, <3>3, <3>4, Zenon DEF BeginningInv
<1> QED
  BY <1>6, <1>8, <1>9, <1>10 DEF TestsInv

LEMMA RemoveKeeps ==
  ASSUME TestsInv, NEW c \in Contexts, T!RemoveTestFailFnByContext(c)
  PROVE  TestsInv'
<1>1. /\ g_fail_fns' = T!Without(c)
      /\ removed' = removed \union T!AddedWith(c)
      /\ cancelled' = cancelled \union (T!AddedWith(c) \ ToSet(called))
      /\ testPhase \in {"running", "failing"}
      /\ UNCHANGED <<testPhase, nextFn, stopFn, vectorMoved, called, added, atFailure>>
  BY SameElements DEF T!RemoveTestFailFnByContext, T!InCallback
<1>2. PICK r : r = CutFrom(g_fail_fns, added, c)
  OBVIOUS
<1>3. g_fail_fns' = r
  BY <1>1, <1>2, SameFlatten DEF T!Without, CutFrom
<1>4. /\ r \in Seq(DOMAIN added) /\ Increasing(r)
      /\ ToSet(r) = {f \in ToSet(g_fail_fns) : added[f] # c}
      /\ \A j \in 1..Len(r) : \E k \in j..Len(g_fail_fns) : r[j] = g_fail_fns[k]
  <2>1. DOMAIN added \in SUBSET Nat /\ g_fail_fns \in Seq(DOMAIN added) /\ Increasing(g_fail_fns)
    BY TestTypes DEF TestsInv, VectorInv
  <2> QED
    BY <1>2, <2>1, WithoutSome
<1>5. T!TypeOK'
  BY <1>1, <1>3, <1>4 DEF TestsInv, T!TypeOK
<1>6. Registered' = {f \in Registered : added[f] # c}
  BY <1>1 DEF Registered, T!AddedWith
<1>7. VectorInv'
  BY <1>1, <1>3, <1>4, <1>6 DEF TestsInv, VectorInv, T!AddedWith
<1>8. LoopInv'
  <2>1. ASSUME NEW j \in nextFn..Len(r), NEW i \in 1..Len(called)
        PROVE  called[i] < r[j]
    <3>1. j \in 1..Len(r)
      BY <1>4, TestTypes DEF TestsInv, LoopInv
    <3>2. PICK k \in j..Len(g_fail_fns) : r[j] = g_fail_fns[k]
      BY <1>4, <3>1
    <3>3. k \in nextFn..Len(g_fail_fns)
      BY <3>1, TestTypes
    <3> QED
      BY <3>2, <3>3 DEF TestsInv, LoopInv
  <2>2. ToSet(called) \intersect cancelled' = {}
    BY <1>1 DEF TestsInv, LoopInv
  <2> QED
    BY <1>1, <1>3, <2>1, <2>2 DEF TestsInv, LoopInv
<1>9. BeginningInv'
  BY <1>1, <1>6 DEF TestsInv, BeginningInv
<1> QED
  BY <1>5, <1>7, <1>8, <1>9 DEF TestsInv

LEMMA FailKeeps ==
  ASSUME TestsInv, T!TestFailed
  PROVE  TestsInv'
<1>1. /\ testPhase' = "failing" /\ nextFn' = 1 /\ stopFn' = Len(g_fail_fns)
      /\ called' = <<>> /\ atFailure' = Registered /\ cancelled' = removed
      /\ UNCHANGED <<g_fail_fns, added, removed>>
  BY DEF T!TestFailed, Registered
<1>2. T!TypeOK'
  BY <1>1 DEF TestsInv, T!TypeOK
<1>3. VectorInv' /\ Registered' = Registered
  BY <1>1 DEF TestsInv, VectorInv, Registered
<1>4. LoopInv'
  <2>1. ToSet(<<>>) = {} /\ Increasing(<<>>) /\ Len(<<>>) = 0
    BY DEF ToSet, Increasing
  <2> QED
    BY <1>1, <2>1, TestTypes DEF LoopInv
<1>5. BeginningInv'
  <2>1. IsFiniteSet(Registered) /\ Cardinality(Registered) = Len(g_fail_fns)
    BY TestTypes, AllElements DEF TestsInv, VectorInv
  <2> QED
    BY <1>1, <1>3, <2>1 DEF BeginningInv, Registered
<1> QED
  BY <1>2, <1>3, <1>4, <1>5 DEF TestsInv

LEMMA CallKeeps ==
  ASSUME TestsInv, T!CallNext
  PROVE  TestsInv'
<1>1. /\ testPhase = "failing" /\ nextFn <= stopFn
      /\ UNCHANGED <<g_fail_fns, stopFn, vectorMoved, added, removed, atFailure, cancelled>>
  BY DEF T!CallNext
<1>2. VectorInv' /\ Registered' = Registered
  BY <1>1 DEF TestsInv, VectorInv, Registered
<1>3. CASE ~vectorMoved /\ nextFn <= Len(g_fail_fns)
  <2> DEFINE f == g_fail_fns[nextFn]
  <2>1. called' = Append(called, f) /\ nextFn' = nextFn + 1 /\ testPhase' = testPhase
    BY <1>3 DEF T!CallNext
  <2>2. nextFn \in DOMAIN g_fail_fns /\ f \in DOMAIN added /\ f \in Registered
    <3>1. nextFn \in DOMAIN g_fail_fns
      BY <1>3, TestTypes DEF TestsInv, LoopInv
    <3> QED
      BY <3>1, TestTypes DEF TestsInv, VectorInv, ToSet
  <2>3. \A i \in 1..Len(called) : called[i] < f
    BY <1>3, TestTypes DEF TestsInv, LoopInv
  <2>4. \A k \in (nextFn + 1)..Len(g_fail_fns) : f < g_fail_fns[k]
    <3>1. \A k \in (nextFn + 1)..Len(g_fail_fns) : k \in DOMAIN g_fail_fns /\ nextFn < k
      BY TestTypes
    <3> QED
      BY <2>2, <3>1 DEF TestsInv, VectorInv, Increasing
  <2> HIDE DEF f
  <2>5. /\ Append(called, f) \in Seq(DOMAIN added)
        /\ DOMAIN Append(called, f) = 1..(Len(called) + 1)
        /\ \A i \in 1..Len(called) : Append(called, f)[i] = called[i]
        /\ Append(called, f)[Len(called) + 1] = f
        /\ ToSet(Append(called, f)) = ToSet(called) \union {f}
    <3>1. called \in Seq(DOMAIN added)
      BY TestTypes
    <3> QED
      BY <2>2, <3>1, AppendedIs
  <2>6. Len(Append(called, f)) = Len(called) + 1
    BY TestTypes
  <2>7. T!TypeOK'
    BY <1>1, <2>1, <2>5 DEF TestsInv, T!TypeOK
  <2>8. Increasing(called')
    <3>1. ASSUME NEW i \in 1..(Len(called) + 1), NEW k \in 1..(Len(called) + 1), i < k
          PROVE  called'[i] < called'[k]
      <4>1. i \in 1..Len(called) /\ called'[i] = called[i]
        BY <2>1, <2>5, <3>1, TestTypes
      <4>2. CASE k \in 1..Len(called)
        BY <2>1, <2>5, <3>1, <4>1, <4>2, TestTypes DEF TestsInv, LoopInv, Increasing
      <4>3. CASE k = Len(called) + 1
        BY <2>1, <2>3, <2>5, <4>1, <4>3
      <4> QED
        BY <4>2, <4>3, TestTypes
    <3> QED
      BY <2>1, <2>5, <3>1 DEF Increasing
  <2>9. ASSUME NEW k \in (nextFn + 1)..Len(g_fail_fns), NEW i \in 1..(Len(called) + 1)
        PROVE  called'[i] < g_fail_fns[k]
    <3>1. CASE i \in 1..Len(called)
      <4>1. k \in nextFn..Len(g_fail_fns)
        BY TestTypes
      <4> QED
        BY <2>1, <2>5, <3>1, <4>1 DEF TestsInv, LoopInv
    <3>2. CASE i = Len(called) + 1
      BY <2>1, <2>4, <2>5, <3>2
    <3> QED
      BY <3>1, <3>2, TestTypes
  <2>10. LoopInv'
    <3>1. nextFn' \in 1..(stopFn + 1) /\ Len(called') = nextFn' - 1 /\ stopFn \in Nat
      BY <1>1, <2>1, <2>6, TestTypes DEF TestsInv, LoopInv
    <3>2. f \notin cancelled
      BY <2>2 DEF TestsInv, VectorInv, Registered
    <3>3. ToSet(called') \intersect cancelled = {}
      BY <2>1, <2>5, <3>2 DEF TestsInv, LoopInv
    <3> QED
      BY <1>1, <2>1, <2>6, <2>8, <2>9, <3>1, <3>3 DEF LoopInv
  <2>11. BeginningInv'
    BY <1>1, <1>2, <2>1 DEF TestsInv, BeginningInv
  <2> QED
    BY <1>2, <2>7, <2>10, <2>11 DEF TestsInv
<1>4. CASE vectorMoved \/ nextFn > Len(g_fail_fns)
  <2>1. testPhase' = "lost" /\ UNCHANGED <<called, nextFn>>
    BY <1>4, TestTypes DEF T!CallNext
  <2>2. vectorMoved \/ atFailure \intersect removed # {}
    <3> SUFFICES ASSUME atFailure \intersect removed = {}, nextFn > Len(g_fail_fns) PROVE FALSE
      BY <1>4
    <3>1. atFailure \in SUBSET ToSet(g_fail_fns)
      BY DEF TestsInv, VectorInv, BeginningInv, Registered
    <3>2. IsFiniteSet(ToSet(g_fail_fns)) /\ Cardinality(ToSet(g_fail_fns)) = Len(g_fail_fns)
      BY TestTypes, AllElements DEF TestsInv, VectorInv
    <3>3. stopFn <= Len(g_fail_fns)
      BY <3>1, <3>2, FS_Subset DEF TestsInv, BeginningInv
    <3> QED
      BY <1>1, <3>3, TestTypes
  <2>3. T!TypeOK' /\ LoopInv'
    BY <1>1, <2>1 DEF TestsInv, T!TypeOK, LoopInv
  <2>4. BeginningInv'
    BY <1>1, <1>2, <2>1, <2>2 DEF TestsInv, BeginningInv
  <2> QED
    BY <1>2, <2>3, <2>4 DEF TestsInv
<1> QED
  BY <1>3, <1>4, TestTypes

LEMMA TestsInduction ==
  ASSUME TestsInv, [T!Next]_T!vars
  PROVE  TestsInv'
<1>1. ASSUME NEW c \in Contexts, T!AddTestFailFn(c)
      PROVE  TestsInv'
  BY <1>1, AddKeeps
<1>2. ASSUME NEW c \in Contexts, T!RemoveTestFailFnByContext(c)
      PROVE  TestsInv'
  BY <1>2, RemoveKeeps
<1>3. CASE T!TestFailed
  BY <1>3, FailKeeps
<1>4. CASE T!CallNext
  BY <1>4, CallKeeps
<1>5. CASE T!LogFailure
  <2>1. nextFn = stopFn + 1
    BY <1>5, TestTypes DEF T!LogFailure, TestsInv, LoopInv
  <2> QED
    BY <1>5, <2>1 DEF T!LogFailure, TestsInv, T!TypeOK, VectorInv, LoopInv, BeginningInv, Registered
<1>6. CASE T!TestQuit
  BY <1>6 DEF T!TestQuit, TestsInv, T!TypeOK, VectorInv, LoopInv, BeginningInv, Registered
<1>7. CASE UNCHANGED T!vars
  BY <1>7 DEF T!vars, TestsInv, T!TypeOK, VectorInv, LoopInv, BeginningInv, Registered
<1> QED
  BY <1>1, <1>2, <1>3, <1>4, <1>5, <1>6, <1>7 DEF T!Next

(* Whatever callbacks add and remove, and whatever TESTs fail in them: in  *)
(* a failure each callback is called at most once, in order, and never     *)
(* once it was removed; each one that misses its turn is made up for by    *)
(* one that was called and then removed; and the loop leaves the vector    *)
(* only for the two reasons there are (testing.cpp:123).                   *)
THEOREM CallbacksCalledOnce == T!Spec => []EachCalledOnce
<1>1. T!Init => TestsInv
  <2> SUFFICES ASSUME T!Init PROVE TestsInv
    OBVIOUS
  <2>1. /\ <<>> \in Seq(Contexts) /\ <<>> \in Seq(DOMAIN <<>>) /\ DOMAIN <<>> = {}
        /\ ToSet(<<>>) = {} /\ Increasing(<<>>) /\ Len(<<>>) = 0
        /\ IsFiniteSet({}) /\ Cardinality({}) = 0
    BY FS_EmptySet DEF ToSet, Increasing
  <2>2. T!TypeOK
    BY <2>1 DEF T!Init, T!TypeOK
  <2> QED
    BY <2>1, <2>2 DEF T!Init, TestsInv, VectorInv, LoopInv, BeginningInv, Registered
<1>2. TestsInv /\ [T!Next]_T!vars => TestsInv'
  BY TestsInduction
<1>3. TestsInv => EachCalledOnce
  <2> SUFFICES ASSUME TestsInv PROVE T!EachCalledOnce
    BY DEF EachCalledOnce
  <2>1. testPhase = "logged" => T!Cardinality(T!Missed) <= T!Cardinality(T!ToSet(called) \intersect removed)
    BY MissedAreFew
  <2>2. T!ToSet(called) \intersect cancelled = {}
    BY SameElements DEF TestsInv, LoopInv
  <2> QED
    BY <2>1, <2>2 DEF TestsInv, LoopInv, BeginningInv, Increasing, T!EachCalledOnce
<1> QED
  BY <1>1, <1>2, <1>3, PTL DEF T!Spec

-----------------------------------------------------------------------------
(***************************************************************************)
(* Enums.                                                                  *)
(***************************************************************************)
LEMMA Power2Values ==
  /\ E!Power2 \in [0..MAX_BITS -> Nat]
  /\ E!Power2[0] = 1
  /\ \A n \in 1..MAX_BITS : E!Power2[n] = 2 * E!Power2[n - 1]
<1> DEFINE Good(v) == v = [n \in 0..MAX_BITS |-> IF n = 0 THEN 1 ELSE 2 * v[n - 1]]
           f == [n \in Nat |-> [x \in Nat |-> 2 * x]]
<1>1. f \in [Nat -> [Nat -> Nat]]
  OBVIOUS
<1>2. \A x, k \in Nat : f[k][x] = 2 * x
  OBVIOUS
<1> HIDE DEF f
<1>3. MAX_BITS \in Nat /\ 1 \in Nat
  BY EnumsAssumption
<1>4. PICK v \in [0..MAX_BITS -> Nat] : v = [n \in 0..MAX_BITS |-> IF n = 0 THEN 1 ELSE f[n][v[n - 1]]]
  <2>1. \A n \in Nat : \A a \in Nat : \E v \in [0..n -> Nat] : FollowsFrom(v, n, a, f)
    BY <1>1, Recurs
  <2>2. PICK v \in [0..MAX_BITS -> Nat] : FollowsFrom(v, MAX_BITS, 1, f)
    BY <1>3, <2>1
  <2>3. QED
    BY <2>2 DEF FollowsFrom
<1>5. ASSUME NEW n \in 0..MAX_BITS PROVE v[n] = IF n = 0 THEN 1 ELSE 2 * v[n - 1]
  <2>1. v[n] = IF n = 0 THEN 1 ELSE f[n][v[n - 1]]
    BY <1>4
  <2>2. n # 0 => v[n - 1] \in Nat /\ n \in Nat
    BY EnumsAssumption
  <2>3. QED
    BY <1>2, <2>1, <2>2
<1>6. Good(v)
  <2>1. DOMAIN v = 0..MAX_BITS /\ v = [n \in 0..MAX_BITS |-> v[n]]
    OBVIOUS
  <2>2. QED
    BY <1>5, <2>1
<1>7. E!Power2 = CHOOSE g : Good(g)
  BY DEF E!Power2
<1>8. Good(E!Power2)
  <2> HIDE DEF Good
  <2>1. QED
    BY <1>6, <1>7
<1> DEFINE P == E!Power2
<1>9. P = [n \in 0..MAX_BITS |-> IF n = 0 THEN 1 ELSE 2 * P[n - 1]]
  BY <1>8
<1> HIDE DEF P
<1>10. 0 \in 0..MAX_BITS /\ \A n \in 1..MAX_BITS : n \in 0..MAX_BITS /\ n # 0
  BY EnumsAssumption
<1>11. P[0] = 1 /\ \A n \in 1..MAX_BITS : P[n] = 2 * P[n - 1]
  BY <1>9, <1>10
<1>12. \A n \in 0..MAX_BITS : P[n] \in Nat
  <2> DEFINE S == {n \in Nat : n \in 0..MAX_BITS => P[n] \in Nat}
  <2>1. 0 \in S
    BY <1>11
  <2>2. ASSUME NEW n \in Nat, n \in S PROVE n + 1 \in S
    BY <1>11, <2>2, EnumsAssumption
  <2>3. Nat \subseteq S
    <3> HIDE DEF S
    <3>1. QED
      BY <2>1, <2>2, EveryNumber
  <2>4. QED
    BY <2>3, EnumsAssumption
<1>13. P \in [0..MAX_BITS -> Nat]
  BY <1>9, <1>12
<1>14. QED
  BY <1>11, <1>13 DEF P

(* 1 << (a + b) is (1 << a) << b.                                          *)
LEMMA Power2Sum ==
  ASSUME NEW a \in Nat, NEW b \in Nat, a + b <= MAX_BITS
  PROVE  E!Power2[a + b] = E!Power2[a] * E!Power2[b]
<1> DEFINE P == E!Power2
<1>0. P \in [0..MAX_BITS -> Nat] /\ P[0] = 1 /\ \A n \in 1..MAX_BITS : P[n] = 2 * P[n - 1]
  BY Power2Values
<1> HIDE DEF P
<1> DEFINE S == {n \in Nat : n + b <= MAX_BITS => P[n + b] = P[n] * P[b]}
<1>1. 0 \in S
  BY <1>0, EnumsAssumption
<1>2. ASSUME NEW n \in Nat, n \in S PROVE n + 1 \in S
  <2> SUFFICES ASSUME n + 1 + b <= MAX_BITS PROVE P[n + 1 + b] = P[n + 1] * P[b]
    OBVIOUS
  <2>1. P[n + b] = P[n] * P[b]
    BY <1>2, EnumsAssumption
  <2>2. P[n + 1] = 2 * P[n] /\ P[n + 1 + b] = 2 * P[n + b]
    <3>1. n + 1 \in 1..MAX_BITS /\ n + 1 + b \in 1..MAX_BITS
      BY EnumsAssumption
    <3>2. (n + 1) - 1 = n /\ (n + 1 + b) - 1 = n + b
      OBVIOUS
    <3>3. QED
      BY <1>0, <3>1, <3>2
  <2>3. PICK x \in Nat, y \in Nat : x = P[n] /\ y = P[b]
    <3>1. n \in 0..MAX_BITS /\ b \in 0..MAX_BITS
      BY EnumsAssumption
    <3>2. P[n] \in Nat /\ P[b] \in Nat
      BY <1>0, <3>1
    <3>3. QED
      BY <3>2
  <2>4. 2 * (x * y) = (2 * x) * y
    OBVIOUS
  <2>5. QED
    BY <2>1, <2>2, <2>3, <2>4
<1>3. a \in S
  <2> HIDE DEF S
  <2>1. QED
    BY <1>1, <1>2, EveryNumber
<1>4. QED
  BY <1>3 DEF P

(* The mask of the bits from lo to hi, hi not among them.                  *)
LEMMA MaskOfRange ==
  ASSUME NEW lo \in Nat, NEW hi \in Nat, lo <= hi, hi <= MAX_BITS,
         NEW bits, \A b \in 0..(MAX_BITS - 1) : b \in bits <=> lo <= b /\ b < hi
  PROVE  E!Mask(bits) = E!Power2[hi] - E!Power2[lo]
<1> DEFINE P == E!Power2
           Good(v) == v = [n \in 0..MAX_BITS |->
                             IF n = 0 THEN 0 ELSE v[n - 1] + (IF n - 1 \in bits THEN P[n - 1] ELSE 0)]
           f == [n \in Nat |-> [x \in Nat |-> x + (IF n - 1 \in bits /\ n - 1 \in 0..MAX_BITS THEN P[n - 1] ELSE 0)]]
<1>1. P \in [0..MAX_BITS -> Nat] /\ \A n \in 1..MAX_BITS : P[n] = 2 * P[n - 1]
  BY Power2Values
<1>2. E!Mask(bits) = (CHOOSE v : Good(v))[MAX_BITS]
  BY DEF E!Mask
<1> HIDE DEF P
<1>3. f \in [Nat -> [Nat -> Nat]]
  <2>1. \A n, x \in Nat : x + (IF n - 1 \in bits /\ n - 1 \in 0..MAX_BITS THEN P[n - 1] ELSE 0) \in Nat
    BY <1>1
  <2>2. QED
    BY <2>1
<1>4. \A n \in 1..MAX_BITS, x \in Nat : f[n][x] = x + (IF n - 1 \in bits THEN P[n - 1] ELSE 0)
  <2> TAKE n \in 1..MAX_BITS, x \in Nat
  <2>1. n \in Nat /\ n - 1 \in 0..MAX_BITS
    BY EnumsAssumption
  <2>2. QED
    BY <2>1
<1> HIDE DEF f
<1>5. MAX_BITS \in Nat /\ 0 \in Nat
  BY EnumsAssumption
<1>6. PICK v \in [0..MAX_BITS -> Nat] : v = [n \in 0..MAX_BITS |-> IF n = 0 THEN 0 ELSE f[n][v[n - 1]]]
  <2>1. \A n \in Nat : \A a \in Nat : \E v \in [0..n -> Nat] : FollowsFrom(v, n, a, f)
    BY <1>3, Recurs
  <2>2. PICK v \in [0..MAX_BITS -> Nat] : FollowsFrom(v, MAX_BITS, 0, f)
    BY <1>5, <2>1
  <2>3. QED
    BY <2>2 DEF FollowsFrom
<1>7. ASSUME NEW n \in 0..MAX_BITS
      PROVE  v[n] = IF n = 0 THEN 0 ELSE v[n - 1] + (IF n - 1 \in bits THEN P[n - 1] ELSE 0)
  <2>1. v[n] = IF n = 0 THEN 0 ELSE f[n][v[n - 1]]
    BY <1>6
  <2>2. n # 0 => v[n - 1] \in Nat /\ n \in 1..MAX_BITS
    BY <1>5
  <2>3. QED
    BY <1>4, <2>1, <2>2
<1>8. Good(v)
  <2>1. DOMAIN v = 0..MAX_BITS /\ v = [n \in 0..MAX_BITS |-> v[n]]
    OBVIOUS
  <2>2. QED
    BY <1>7, <2>1
<1> DEFINE w == CHOOSE u : Good(u)
<1>9. Good(w)
  <2> HIDE DEF Good
  <2>1. QED
    BY <1>8
<1>10. w = [n \in 0..MAX_BITS |-> IF n = 0 THEN 0 ELSE w[n - 1] + (IF n - 1 \in bits THEN P[n - 1] ELSE 0)]
  BY <1>9
<1> HIDE DEF w
<1>11. /\ w[0] = 0
       /\ \A n \in 0..(MAX_BITS - 1) : w[n + 1] = w[n] + (IF n \in bits THEN P[n] ELSE 0)
  <2>1. w[0] = 0
    BY <1>5, <1>10
  <2>2. ASSUME NEW n \in 0..(MAX_BITS - 1) PROVE w[n + 1] = w[n] + (IF n \in bits THEN P[n] ELSE 0)
    <3>1. n + 1 \in 0..MAX_BITS /\ n + 1 # 0 /\ (n + 1) - 1 = n
      BY <1>5
    <3>2. QED
      BY <1>10, <3>1
  <2>3. QED
    BY <2>1, <2>2
<1> DEFINE Below(n) == IF n <= lo THEN 0 ELSE IF n <= hi THEN P[n] - P[lo] ELSE P[hi] - P[lo]
           S == {n \in Nat : n <= MAX_BITS => w[n] = Below(n)}
<1>12. 0 \in S
  BY <1>11
<1>13. ASSUME NEW n \in Nat, n \in S PROVE n + 1 \in S
  <2> SUFFICES ASSUME n + 1 <= MAX_BITS PROVE w[n + 1] = Below(n + 1)
    OBVIOUS
  <2>1. n \in 0..(MAX_BITS - 1) /\ w[n] = Below(n)
    BY <1>5, <1>13
  <2>2. w[n + 1] = Below(n) + (IF n \in bits THEN P[n] ELSE 0)
    BY <1>11, <2>1
  <2>3. n \in bits <=> lo <= n /\ n < hi
    BY <2>1
  <2>4. PICK x \in Nat, y \in Nat, z \in Nat : x = P[n] /\ y = P[lo] /\ z = P[hi]
    <3>1. n \in 0..MAX_BITS /\ lo \in 0..MAX_BITS /\ hi \in 0..MAX_BITS
      BY <1>5, <2>1
    <3>2. P[n] \in Nat /\ P[lo] \in Nat /\ P[hi] \in Nat
      BY <1>1, <3>1
    <3>3. QED
      BY <3>2
  <2>5. P[n + 1] = 2 * x
    <3>1. n + 1 \in 1..MAX_BITS /\ (n + 1) - 1 = n
      BY <1>5, <2>1
    <3>2. QED
      BY <1>1, <2>4, <3>1
  <2>6. CASE n + 1 <= lo
    BY <2>2, <2>3, <2>6
  <2>7. CASE n = lo /\ n < hi
    BY <2>2, <2>3, <2>4, <2>5, <2>7
  <2>8. CASE lo < n /\ n < hi
    BY <2>2, <2>3, <2>4, <2>5, <2>8
  <2>9. CASE lo <= n /\ n = hi
    BY <2>2, <2>3, <2>4, <2>9
  <2>10. CASE n > hi
    BY <2>2, <2>3, <2>4, <2>10
  <2>11. QED
    BY <2>6, <2>7, <2>8, <2>9, <2>10
<1>14. MAX_BITS \in S
  <2> HIDE DEF S
  <2>1. QED
    BY <1>5, <1>12, <1>13, EveryNumber
<1>15. w[MAX_BITS] = P[hi] - P[lo]
  <2>1. w[MAX_BITS] = Below(MAX_BITS)
    BY <1>5, <1>14
  <2>2. P[hi] \in Nat /\ P[lo] \in Nat
    <3>1. lo \in 0..MAX_BITS /\ hi \in 0..MAX_BITS
      BY <1>5
    <3>2. QED
      BY <1>1, <3>1
  <2>3. CASE MAX_BITS <= lo
    <3>1. lo = hi
      BY <1>5, <2>3
    <3>2. QED
      BY <2>1, <2>2, <2>3, <3>1
  <2>4. CASE MAX_BITS > lo /\ MAX_BITS <= hi
    <3>1. hi = MAX_BITS
      BY <1>5, <2>4
    <3>2. QED
      BY <2>1, <2>4, <3>1, <1>5
  <2>5. CASE MAX_BITS > hi
    BY <2>1, <2>5, <1>5
  <2>6. QED
    BY <1>5, <2>3, <2>4, <2>5
<1>16. QED
  BY <1>2, <1>15 DEF P, w

-----------------------------------------------------------------------------
(* Whatever the assertions let through is legal, for an enum of any width  *)
(* with any values.                                                        *)
LEMMA FieldIsMask ==
  ASSUME NEW d \in Descriptions, d.bits <= MAX_BITS, E!FieldsFit(d), NEW v \in E!Values(d)
  PROVE  /\ E!FieldMask(v) = E!Mask(E!Bits(v))
         /\ E!Bits(v) \subseteq 0..(d.bits - 1)
         /\ v.shift = 0 => E!FieldMask(v) = E!Power2[v.width] - 1
<1>1. d.bits \in Nat /\ v \in EnumValues
  <2>1. d.bits \in Nat /\ d.values \in Seq(EnumValues)
    BY EnumsAssumption
  <2>2. \A i \in DOMAIN d.values : d.values[i] \in EnumValues
    BY <2>1, ElementOfSeq
  <2>3. QED
    BY <2>1, <2>2 DEF E!Values, E!ToSet
<1>2. v.shift \in Int /\ v.width \in Nat
  BY <1>1 DEF EnumValues
<1>3. v.shift >= 0 /\ v.shift + v.width <= d.bits
  BY DEF E!FieldsFit
<1>4. PICK s \in Nat, w \in Nat : s = v.shift /\ w = v.width
  BY <1>2, <1>3
<1>5. s + w <= d.bits /\ s + w <= MAX_BITS /\ MAX_BITS \in Nat
  BY <1>1, <1>3, <1>4, EnumsAssumption
<1>6. E!Bits(v) = {b \in 0..(MAX_BITS - 1) : s <= b /\ b < s + w}
  BY <1>4 DEF E!Bits
<1>7. E!Mask(E!Bits(v)) = E!Power2[s + w] - E!Power2[s]
  <2>1. \A b \in 0..(MAX_BITS - 1) : b \in E!Bits(v) <=> s <= b /\ b < s + w
    BY <1>6
  <2>2. s + w \in Nat /\ s <= s + w
    OBVIOUS
  <2>3. QED
    BY <1>5, <2>1, <2>2, MaskOfRange
<1>8. PICK p \in Nat, q \in Nat : p = E!Power2[s] /\ q = E!Power2[w]
  <2>1. s \in 0..MAX_BITS /\ w \in 0..MAX_BITS
    BY <1>5
  <2>2. QED
    BY <2>1, Power2Values
<1>9. E!Power2[s + w] = p * q
  BY <1>5, <1>8, Power2Sum
<1>10. E!FieldMask(v) = (q - 1) * p
  BY <1>4, <1>8 DEF E!FieldMask
<1>11. (q - 1) * p = p * q - p
  OBVIOUS
<1>12. E!FieldMask(v) = E!Mask(E!Bits(v))
  BY <1>7, <1>8, <1>9, <1>10, <1>11
<1>13. E!Bits(v) \subseteq 0..(d.bits - 1)
  BY <1>1, <1>5, <1>6
<1>14. v.shift = 0 => E!FieldMask(v) = E!Power2[v.width] - 1
  <2> SUFFICES ASSUME s = 0 PROVE E!FieldMask(v) = q - 1
    BY <1>4, <1>8
  <2>1. p = 1
    BY <1>8, Power2Values
  <2>2. QED
    BY <1>10, <2>1
<1>15. QED
  BY <1>12, <1>13, <1>14

(* The values of an accepted enum are in range.                            *)
InItsRange(d, v) ==
  LET room == IF v.limit THEN 1 ELSE 0
  IN  \/ d.bits = MAX_BITS
      \/ d.signed /\ v.value + E!Power2[d.bits - 1] \in 0..(E!Power2[d.bits] - 1 + room)
      \/ ~d.signed /\ v.value \in 0..(E!Power2[d.bits] + room)

LEMMA AcceptedFits ==
  ASSUME NEW d \in Descriptions, E!Initialises(d), E!Accepts(d), NEW v \in E!Values(d)
  PROVE  InItsRange(d, v)
<1>1. d.bits \in Nat /\ d.bits > 0 /\ d.bits <= MAX_BITS /\ MAX_BITS \in Nat /\ d.signed \in BOOLEAN
  BY EnumsAssumption DEF E!Initialises, E!Accepts
<1>2. v.value \in Int /\ v.limit \in BOOLEAN
  <2>1. d.values \in Seq(EnumValues)
    BY EnumsAssumption
  <2>2. v \in EnumValues
    BY <2>1, ElementOfSeq DEF E!Values, E!ToSet
  <2>3. QED
    BY <2>2 DEF EnumValues
<1>3. PICK p \in Nat, q \in Nat : p = E!Power2[d.bits - 1] /\ q = E!Power2[d.bits] /\ q = 2 * p
  <2>1. d.bits - 1 \in 0..MAX_BITS /\ d.bits \in 1..MAX_BITS /\ d.bits \in 0..MAX_BITS
    BY <1>1
  <2>2. QED
    BY <2>1, Power2Values
<1>4. d.bits < MAX_BITS =>
        /\ v.value >= (IF d.signed THEN -p ELSE 0)
        /\ v.value <= (IF v.limit THEN (IF d.signed THEN p - 1 ELSE q) + 1 ELSE (IF d.signed THEN p - 1 ELSE q))
  BY <1>3 DEF E!Accepts, E!InRange
<1>5. QED
  BY <1>1, <1>2, <1>3, <1>4 DEF InItsRange

LEMMA AcceptedIsLegal ==
  ASSUME NEW d \in Descriptions, E!Initialises(d), E!Accepts(d), d.hash # "wrong"
  PROVE  E!IsLegal(d)
<1>1. \A v \in E!Values(d) : InItsRange(d, v)
  BY AcceptedFits
<1>2. ASSUME E!IsBitfield(d)
      PROVE  \A v \in E!Values(d) :
               /\ v.value = E!Mask(E!Bits(v))
               /\ E!Bits(v) \subseteq 0..(d.bits - 1)
               /\ v.shift = 0 => \A u \in v.values : u < E!Power2[v.width]
  <2> TAKE v \in E!Values(d)
  <2>1. d.bits <= MAX_BITS /\ E!FieldsFit(d) /\ v.value = E!FieldMask(v)
    BY <1>2 DEF E!Accepts, E!GoodFields
  <2>2. \A u \in v.values : u <= E!FieldMask(v)
    BY <1>2 DEF E!Accepts, E!GoodFields
  <2>3. /\ E!FieldMask(v) = E!Mask(E!Bits(v))
        /\ E!Bits(v) \subseteq 0..(d.bits - 1)
        /\ v.shift = 0 => E!FieldMask(v) = E!Power2[v.width] - 1
    BY <2>1, FieldIsMask
  <2>4. ASSUME v.shift = 0, NEW u \in v.values PROVE u < E!Power2[v.width]
    <3>1. v.values \subseteq Int /\ v.width \in Nat
      <4>1. d.values \in Seq(EnumValues)
        BY EnumsAssumption
      <4>2. v \in EnumValues
        BY <4>1, ElementOfSeq DEF E!Values, E!ToSet
      <4>3. QED
        BY <4>2 DEF EnumValues
    <3>2. v.width \in 0..MAX_BITS
      <4>1. v.shift + v.width <= d.bits /\ d.bits \in Nat /\ MAX_BITS \in Nat
        BY <2>1, EnumsAssumption DEF E!FieldsFit
      <4>2. QED
        BY <2>1, <2>4, <3>1, <4>1
    <3>3. E!Power2[v.width] \in Nat
      BY <3>2, Power2Values
    <3>4. u <= E!Power2[v.width] - 1 /\ u \in Int
      BY <2>2, <2>3, <2>4, <3>1
    <3>5. QED
      BY <3>3, <3>4
  <2>5. QED
    BY <2>1, <2>3, <2>4
<1>3. ASSUME E!IsBitfield(d), NEW i \in DOMAIN d.values, NEW k \in DOMAIN d.values, i # k
      PROVE  E!Bits(d.values[i]) \intersect E!Bits(d.values[k]) = {}
  <2> DEFINE v == d.values[i]
             w == d.values[k]
  <2>1. 0 \in {v.width, w.width} \/ v.shift + v.width <= w.shift \/ w.shift + w.width <= v.shift
    BY <1>3 DEF E!Accepts, E!GoodFields, E!FieldsFit
  <2>2. v \in EnumValues /\ w \in EnumValues
    <3>1. d.values \in Seq(EnumValues)
      BY EnumsAssumption
    <3>2. QED
      BY <3>1, ElementOfSeq
  <2>3. PICK vs, vw, ws, ww \in Int : vs = v.shift /\ vw = v.width /\ ws = w.shift /\ ww = w.width
    BY <2>2 DEF EnumValues
  <2>4. MAX_BITS \in Nat /\ (0 \in {vw, ww} \/ vs + vw <= ws \/ ws + ww <= vs)
    BY <2>1, <2>3, EnumsAssumption
  <2>5. /\ E!Bits(v) = {b \in 0..(MAX_BITS - 1) : vs <= b /\ b < vs + vw}
        /\ E!Bits(w) = {b \in 0..(MAX_BITS - 1) : ws <= b /\ b < ws + ww}
    BY <2>3 DEF E!Bits
  <2> HIDE DEF v, w
  <2>6. ASSUME NEW b, b \in E!Bits(v), b \in E!Bits(w) PROVE FALSE
    BY <2>3, <2>4, <2>5, <2>6
  <2>7. QED
    BY <2>6 DEF v, w
<1>4. QED
  BY <1>1, <1>2, <1>3 DEF E!IsLegal, InItsRange

-----------------------------------------------------------------------------
(* The thread that found the flag unset, until it has looked at all enums. *)
Ensures(t) == doing[t] \in {"ensuring", "validating"}

(* Types; the list has enums that passed their constructors, and what was  *)
(* walked is of the list.                                                  *)
EnumsKept ==
  /\ E!TypeOK
  /\ first_traits \in Seq(Descriptions)
  /\ toValidate \in Seq(Descriptions)
  /\ walked \in [TwoThreads -> Seq(Descriptions)]
  /\ \A d \in E!ToSet(first_traits) : E!Initialises(d)
  /\ \A t \in TwoThreads : E!ToSet(walked[t]) \subseteq E!ToSet(first_traits)

(* One thread ensures, in which what has been validated was accepted; once *)
(* it is through, the list is fixed and all of it was.                     *)
Validated(d) == E!Accepts(d) /\ d.hash # "wrong"

EnumsOrdered ==
  /\ ~initialised => \A t \in TwoThreads : doing[t] = "idle" /\ walked[t] = <<>>
  /\ \A t, u \in TwoThreads : Ensures(t) /\ Ensures(u) => t = u
  /\ \A t \in TwoThreads : doing[t] = "validating" =>
       fixed /\ \A d \in E!ToSet(first_traits) : E!Accepts(d) \/ d \in E!ToSet(toValidate)
  /\ initialised /\ (\A t \in TwoThreads : ~Ensures(t)) =>
       fixed /\ \A d \in E!ToSet(first_traits) : Validated(d)

EnumsInv == EnumsKept /\ (~aborted => EnumsOrdered)

LEMMA EnumsInitially == E!Init => EnumsInv
<1> SUFFICES ASSUME E!Init PROVE EnumsInv
  OBVIOUS
<1>1. E!ToSet(<<>>) = {} /\ <<>> \in Seq(Descriptions)
  BY DEF E!ToSet
<1>2. EnumsKept
  BY <1>1 DEF EnumsKept, E!TypeOK, E!Init
<1>3. EnumsOrdered
  BY DEF EnumsOrdered, Ensures, E!Init
<1>4. QED
  BY <1>2, <1>3 DEF EnumsInv

(* An enum more at the front.                                              *)
LEMMA ToSetOfFront ==
  ASSUME NEW d \in Descriptions, NEW s \in Seq(Descriptions)
  PROVE  <<d>> \o s \in Seq(Descriptions) /\ E!ToSet(<<d>> \o s) = E!ToSet(s) \union {d}
<1>1. <<d>> \in Seq(Descriptions) /\ Len(<<d>>) = 1 /\ <<d>>[1] = d
  OBVIOUS
<1> DEFINE w == <<d>> \o s
<1>2. w \in Seq(Descriptions) /\ Len(w) = 1 + Len(s)
  BY <1>1, ConcatProperties
<1>3. w[1] = d /\ \A i \in 1..Len(s) : w[i + 1] = s[i]
  BY <1>1
<1>4. Len(s) \in Nat /\ DOMAIN w = 1..(Len(s) + 1) /\ DOMAIN s = 1..Len(s)
  BY <1>2
<1> HIDE DEF w
<1>5. ASSUME NEW i \in DOMAIN w PROVE w[i] \in E!ToSet(s) \union {d}
  <2>1. CASE i = 1
    BY <1>3, <2>1
  <2>2. CASE i # 1
    <3>1. i - 1 \in 1..Len(s) /\ (i - 1) + 1 = i
      BY <1>4, <2>2
    <3>2. w[i] = s[i - 1]
      BY <1>3, <3>1
    <3>3. QED
      BY <1>4, <3>1, <3>2 DEF E!ToSet
  <2>3. QED
    BY <2>1, <2>2
<1>6. ASSUME NEW i \in DOMAIN s PROVE s[i] \in E!ToSet(w)
  <2>1. i + 1 \in DOMAIN w /\ w[i + 1] = s[i]
    BY <1>3, <1>4
  <2>2. QED
    BY <2>1 DEF E!ToSet
<1>7. d \in E!ToSet(w)
  <2>1. 1 \in DOMAIN w
    BY <1>4
  <2>2. QED
    BY <1>3, <2>1 DEF E!ToSet
<1>8. E!ToSet(w) = E!ToSet(s) \union {d}
  BY <1>5, <1>6, <1>7 DEF E!ToSet
<1>9. QED
  BY <1>2, <1>8 DEF w

LEMMA ConstructKeeps ==
  ASSUME EnumsInv, NEW d \in Descriptions, E!Construct(d)
  PROVE  EnumsInv'
<1>1. ~aborted /\ UNCHANGED <<initialised, fixed, doing, toValidate, walked>>
  BY DEF E!Construct
<1>2. CASE fixed \/ ~E!Initialises(d)
  <2>1. aborted' /\ UNCHANGED first_traits /\ aborted' \in BOOLEAN
    BY <1>2 DEF E!Construct
  <2>2. QED
    BY <1>1, <2>1 DEF EnumsInv, EnumsKept, E!TypeOK
<1>3. CASE ~fixed /\ E!Initialises(d)
  <2>1. first_traits' = <<d>> \o first_traits /\ UNCHANGED aborted
    BY <1>3 DEF E!Construct
  <2>2. first_traits' \in Seq(Descriptions) /\ E!ToSet(first_traits') = E!ToSet(first_traits) \union {d}
    BY <2>1, ToSetOfFront DEF EnumsInv, EnumsKept
  <2>3. EnumsKept'
    BY <1>1, <1>3, <2>1, <2>2 DEF EnumsInv, EnumsKept, E!TypeOK
  <2>4. EnumsOrdered'
    BY <1>1, <1>3, <2>1 DEF EnumsInv, EnumsOrdered, Ensures
  <2>5. QED
    BY <2>3, <2>4 DEF EnumsInv
<1>4. QED
  BY <1>2, <1>3

(* The step of a thread in GetFirst.                                       *)
LEMMA GettingKeeps ==
  ASSUME EnumsInv, NEW t \in TwoThreads,
         \/ E!EnsureEnumsInitialised(t) \/ E!BeginValidation(t)
         \/ E!Validate(t) \/ E!AllGood(t) \/ E!GetFirst(t)
  PROVE  EnumsInv'
<1>1. EnumsKept /\ EnumsOrdered /\ ~aborted
  BY DEF EnumsInv, E!EnsureEnumsInitialised, E!BeginValidation, E!Validate, E!AllGood, E!GetFirst
<1>2. doing \in [TwoThreads -> {"idle", "ensuring", "validating", "getting"}]
  BY <1>1 DEF EnumsKept, E!TypeOK
<1>3. CASE E!EnsureEnumsInitialised(t)
  <2>1. /\ doing[t] = "idle" /\ initialised' = TRUE
        /\ doing' = [doing EXCEPT ![t] = IF initialised THEN "getting" ELSE "ensuring"]
        /\ UNCHANGED <<first_traits, fixed, toValidate, walked, aborted>>
    BY <1>3 DEF E!EnsureEnumsInitialised
  <2>2. EnumsKept'
    BY <1>1, <1>2, <2>1 DEF EnumsKept, E!TypeOK
  <2>3. EnumsOrdered'
    <3>1. CASE initialised
      <4>1. \A u \in TwoThreads : (Ensures(u)' <=> Ensures(u)) /\ (doing'[u] = "validating" <=> doing[u] = "validating")
        BY <1>2, <2>1, <3>1 DEF Ensures
      <4>2. QED
        BY <1>1, <2>1, <3>1, <4>1 DEF EnumsOrdered, Validated
    <3>2. CASE ~initialised
      <4>1. \A u \in TwoThreads : doing[u] = "idle"
        BY <1>1, <3>2 DEF EnumsOrdered
      <4>2. \A u \in TwoThreads : doing'[u] = IF u = t THEN "ensuring" ELSE "idle"
        BY <1>2, <2>1, <3>2, <4>1
      <4>3. QED
        BY <2>1, <4>2 DEF EnumsOrdered, Ensures
    <3>3. QED
      BY <3>1, <3>2
  <2>4. QED
    BY <2>2, <2>3 DEF EnumsInv
<1>4. CASE E!BeginValidation(t)
  <2>1. /\ doing[t] = "ensuring" /\ fixed' = TRUE /\ toValidate' = first_traits
        /\ doing' = [doing EXCEPT ![t] = "validating"]
        /\ UNCHANGED <<first_traits, initialised, walked, aborted>>
    BY <1>4 DEF E!BeginValidation
  <2>2. EnumsKept'
    BY <1>1, <1>2, <2>1 DEF EnumsKept, E!TypeOK
  <2>3. initialised
    BY <1>1, <2>1 DEF EnumsOrdered
  <2>4. \A u \in TwoThreads : Ensures(u)' <=> Ensures(u)
    BY <1>2, <2>1 DEF Ensures
  <2>5. EnumsOrdered'
    BY <1>1, <2>1, <2>3, <2>4, <1>2 DEF EnumsOrdered, Ensures
  <2>6. QED
    BY <2>2, <2>5 DEF EnumsInv
<1>5. CASE E!Validate(t)
  <2>1. /\ doing[t] = "validating" /\ toValidate # <<>>
        /\ aborted' = ~E!Accepts(Head(toValidate)) /\ toValidate' = Tail(toValidate)
        /\ UNCHANGED <<first_traits, initialised, fixed, doing, walked>>
    BY <1>5 DEF E!Validate
  <2>2. toValidate \in Seq(Descriptions)
    BY <1>1 DEF EnumsKept
  <2>3. toValidate' \in Seq(Descriptions) /\ E!ToSet(toValidate) \subseteq E!ToSet(toValidate') \union {Head(toValidate)}
    <3>1. /\ Tail(toValidate) \in Seq(Descriptions) /\ Len(toValidate) \in Nat
          /\ Len(Tail(toValidate)) = Len(toValidate) - 1
          /\ \A i \in 1..Len(Tail(toValidate)) : Tail(toValidate)[i] = toValidate[i + 1]
      BY <2>1, <2>2, HeadTailProperties
    <3>2. ASSUME NEW i \in DOMAIN toValidate, i # 1 PROVE toValidate[i] \in E!ToSet(Tail(toValidate))
      <4>1. i \in 1..Len(toValidate)
        BY <2>2
      <4>2. i - 1 \in 1..Len(Tail(toValidate)) /\ (i - 1) + 1 = i
        BY <3>1, <3>2, <4>1
      <4>3. Tail(toValidate)[i - 1] = toValidate[i] /\ i - 1 \in DOMAIN Tail(toValidate)
        BY <3>1, <4>2
      <4>4. QED
        BY <4>3 DEF E!ToSet
    <3>3. Head(toValidate) = toValidate[1]
      BY <2>1, <2>2
    <3>4. QED
      BY <2>1, <3>1, <3>2, <3>3 DEF E!ToSet
  <2>4. EnumsKept'
    BY <1>1, <2>1, <2>3 DEF EnumsKept, E!TypeOK
  <2>5. ASSUME ~aborted' PROVE EnumsOrdered'
    <3>1. E!Accepts(Head(toValidate))
      BY <2>1, <2>5
    <3>2. \A d \in E!ToSet(first_traits) : E!Accepts(d) \/ d \in E!ToSet(toValidate')
      BY <1>1, <2>1, <2>3, <3>1 DEF EnumsOrdered
    <3>3. QED
      BY <1>1, <2>1, <3>2 DEF EnumsOrdered, Ensures, Validated
  <2>6. QED
    BY <2>4, <2>5 DEF EnumsInv
<1>6. CASE E!AllGood(t)
  <2>1. /\ doing[t] = "validating" /\ toValidate = <<>>
        /\ aborted' = \E d \in E!ToSet(first_traits) : d.hash = "wrong"
        /\ doing' = [doing EXCEPT ![t] = "getting"]
        /\ UNCHANGED <<first_traits, initialised, fixed, toValidate, walked>>
    BY <1>6 DEF E!AllGood
  <2>2. EnumsKept'
    BY <1>1, <1>2, <2>1 DEF EnumsKept, E!TypeOK
  <2>3. ASSUME ~aborted' PROVE EnumsOrdered'
    <3>1. E!ToSet(toValidate) = {}
      BY <2>1 DEF E!ToSet
    <3>2. fixed /\ \A d \in E!ToSet(first_traits) : Validated(d)
      BY <1>1, <2>1, <2>3, <3>1 DEF EnumsOrdered, Validated
    <3>3. initialised /\ \A u \in TwoThreads : ~Ensures(u)'
      BY <1>1, <1>2, <2>1 DEF EnumsOrdered, Ensures
    <3>4. \A u \in TwoThreads : doing'[u] # "validating"
      BY <3>3 DEF Ensures
    <3>5. QED
      BY <2>1, <3>2, <3>3, <3>4 DEF EnumsOrdered, Validated
  <2>4. QED
    BY <2>2, <2>3 DEF EnumsInv
<1>7. CASE E!GetFirst(t)
  <2>1. /\ doing[t] = "getting" /\ fixed' = TRUE /\ walked' = [walked EXCEPT ![t] = first_traits]
        /\ doing' = [doing EXCEPT ![t] = "idle"]
        /\ UNCHANGED <<first_traits, initialised, toValidate, aborted>>
    BY <1>7 DEF E!GetFirst
  <2>2. EnumsKept'
    BY <1>1, <1>2, <2>1 DEF EnumsKept, E!TypeOK
  <2>3. initialised
    BY <1>1, <2>1 DEF EnumsOrdered
  <2>4. \A u \in TwoThreads : (Ensures(u)' <=> Ensures(u)) /\ (doing'[u] = "validating" <=> doing[u] = "validating")
    BY <1>2, <2>1 DEF Ensures
  <2>5. EnumsOrdered'
    BY <1>1, <2>1, <2>3, <2>4 DEF EnumsOrdered, Validated
  <2>6. QED
    BY <2>2, <2>5 DEF EnumsInv
<1>8. QED
  BY <1>3, <1>4, <1>5, <1>6, <1>7

LEMMA EnumsInduction == EnumsInv /\ [E!Next]_E!vars => EnumsInv'
<1> SUFFICES ASSUME EnumsInv, [E!Next]_E!vars PROVE EnumsInv'
  OBVIOUS
<1>1. CASE E!Next
  BY <1>1, ConstructKeeps, GettingKeeps DEF E!Next
<1>2. CASE UNCHANGED E!vars
  BY <1>2 DEF E!vars, EnumsInv, EnumsKept, EnumsOrdered, E!TypeOK, Ensures, Validated
<1>3. QED
  BY <1>1, <1>2

LEMMA WalkedOfValidated == EnumsInv => WalkedAreLegal
<1> SUFFICES ASSUME EnumsInv PROVE E!WalkedAreLegal
  BY DEF WalkedAreLegal
<1>1. ASSUME ~aborted, \A t \in TwoThreads : ~Ensures(t), NEW t \in TwoThreads, NEW d \in E!ToSet(walked[t])
      PROVE  E!IsLegal(d)
  <2>1. d \in E!ToSet(first_traits)
    BY <1>1 DEF EnumsInv, EnumsKept
  <2>2. initialised
    <3>1. ASSUME walked[t] = <<>> PROVE FALSE
      BY <1>1, <3>1 DEF E!ToSet
    <3>2. QED
      BY <1>1, <3>1 DEF EnumsInv, EnumsOrdered
  <2>3. Validated(d) /\ E!Initialises(d)
    BY <1>1, <2>1, <2>2 DEF EnumsInv, EnumsKept, EnumsOrdered
  <2>4. d \in Descriptions
    BY <2>1 DEF EnumsInv, EnumsKept, E!TypeOK
  <2>5. QED
    BY <2>3, <2>4, AcceptedIsLegal DEF Validated
<1>2. E!TypeOK
  BY DEF EnumsInv, EnumsKept
<1>3. QED
  BY <1>1, <1>2 DEF E!WalkedAreLegal, Ensures

(* Once no thread is in the middle of the validation, whatever enums there *)
(* are and however many threads ask for them first, each that a thread has *)
(* got is legal, or the program has ended (enums.cpp:135).                 *)
THEOREM WalkedAlwaysLegal == E!Spec => []WalkedAreLegal
<1>1. EnumsInv /\ [E!Next]_E!vars => EnumsInv'
  BY EnumsInduction
<1>2. QED
  BY <1>1, EnumsInitially, WalkedOfValidated, PTL DEF E!Spec

-----------------------------------------------------------------------------
(***************************************************************************)
(* LoadFile and SaveFile.  A load that no save has disturbed still has the *)
(* file that it began with; a save knows why a folder may be missing, and  *)
(* between fwrite and fclose file and buffer together are the data, unless *)
(* an error is going to be reported.                                       *)
(***************************************************************************)
Files == {F!NoFile} \union UNION {{F!Prefix(c, n) : n \in 0 .. Len(c)} : c \in Contents}
Symbols == SavedBytes \union {"old", "no file"}
Data == Seq(Symbols)

LoadTypes ==
  [at : {"idle", "open", "seek", "read", "failed", "succeeded"}, might_not_exist : BOOLEAN, len : Nat,
   data : Data, good : {"yes", "no", F!NotYet}, logged : Nat, before : Data, alone : BOOLEAN]

SaveTypes ==
  [at : {"idle", "mkdir", "open", "write", "close"}, create_folder : BOOLEAN, level : Nat,
   last : {"none", "made", "EEXIST", "EPERM", "EACCES", "ENOENT"}, data : Data, buffer : Data,
   bad : BOOLEAN, good : {"yes", "no", F!NotYet}, logged : Nat, failed : BOOLEAN, close_failed : BOOLEAN]

FilesTypes ==
  /\ depth \in Nat /\ folders \in 0 .. depth
  /\ file \in Files
  /\ load \in LoadTypes
  /\ save \in SaveTypes

LoadInv ==
  /\ load.at # "idle" /\ load.alone => save.at = "idle" /\ file = load.before
  /\ load.at = "read" /\ load.alone => load.len = Len(file)
  /\ load.at = "succeeded" /\ load.alone => load.data = load.before
  /\ load.at \in {"open", "seek", "read"} => load.logged = 0
  /\ load.at = "failed" => load.logged \in {0, 1} /\ (load.logged = 0 => load.might_not_exist)
  /\ F!LoadTells

SaveInv ==
  /\ save.at # "idle" => save.logged = 0 /\ ~save.close_failed /\ save.data \in Contents
  /\ save.at = "mkdir" => /\ save.create_folder
                          /\ save.level <= depth
                          /\ save.level > folders => save.failed
                          /\ save.last \in {"EACCES", "ENOENT"} => save.failed
                          /\ save.last = "none" => save.level = 0
  /\ save.at = "open" /\ save.create_folder /\ folders < depth => save.failed
  /\ save.at \in {"mkdir", "open", "write"} => save.buffer = F!NoData /\ ~save.bad
  /\ save.at = "close" => IF save.bad THEN save.failed /\ save.buffer = F!NoData
                                      ELSE file \o save.buffer = save.data
  /\ F!SaveTells

FilesInv == FilesTypes /\ LoadInv /\ SaveInv

(* The beginning of a sequence is one, and with the rest it is the whole.  *)
LEMMA PrefixOf ==
  ASSUME NEW S, NEW s \in Seq(S), NEW n \in Nat
  PROVE  /\ F!Prefix(s, n) \in Seq(S)
         /\ n >= Len(s) => F!Prefix(s, n) = s
         /\ n <= Len(s) => F!Prefix(s, n) \o SubSeq(s, n + 1, Len(s)) = s
<1>1. Len(s) \in Nat
  OBVIOUS
<1>2. CASE n < Len(s)
  <2>1. F!Prefix(s, n) = SubSeq(s, 1, n) /\ ~(n >= Len(s))
    BY <1>1, <1>2 DEF F!Prefix
  <2>2. 1 \in 1 .. Len(s) + 1 /\ n \in 1 - 1 .. Len(s) /\ Len(s) \in n .. Len(s)
    BY <1>1, <1>2
  <2>3. SubSeq(s, 1, n) \o SubSeq(s, n + 1, Len(s)) = s
    BY <2>2, ConcatAdjacentSubSeq, SubSeqFull
  <2>4. \A i \in 1 .. n : s[i] \in S
    BY <1>1, <1>2
  <2>5. SubSeq(s, 1, n) \in Seq(S)
    BY <2>4, SubSeqProperties
  <2> QED
    BY <2>1, <2>3, <2>5
<1>3. CASE n >= Len(s)
  <2>1. F!Prefix(s, n) = s
    BY <1>1, <1>3 DEF F!Prefix
  <2>2. n <= Len(s) => SubSeq(s, n + 1, Len(s)) = <<>> /\ s \o <<>> = s
    BY <1>1, <1>3
  <2> QED
    BY <2>1, <2>2
<1>4. n < Len(s) \/ n >= Len(s)
  BY <1>1
<1> QED
  BY <1>2, <1>3, <1>4, Zenon

(* Files are sequences of bytes.                                           *)
LEMMA FilesAreData ==
  /\ Files \subseteq Data
  /\ Contents \subseteq Files
  /\ <<>> \in Data /\ <<"old">> \in Data
<1>1. Seq(SavedBytes) \subseteq Data
  BY SeqMonotonic DEF Data, Symbols
<1>2. ASSUME NEW c \in Contents, NEW n \in 0 .. Len(c)
      PROVE  F!Prefix(c, n) \in Data
  BY <1>1, FilesAssumption, PrefixOf
<1>3. F!NoFile \in Data /\ <<>> \in Data /\ <<"old">> \in Data
  BY DEF F!NoFile, Data, Symbols
<1>4. ASSUME NEW c \in Contents
      PROVE  c \in Files
  <2>1. c \in Seq(SavedBytes)
    BY FilesAssumption
  <2>2. Len(c) \in 0 .. Len(c) /\ F!Prefix(c, Len(c)) = c
    BY <2>1, PrefixOf
  <2> QED
    BY <2>2 DEF Files
<1>5. Files \subseteq Data
  BY <1>2, <1>3 DEF Files
<1> QED
  BY <1>3, <1>4, <1>5

(* A step of the load leaves the save alone, and a step of a save that has *)
(* begun the load, which it has disturbed.                                 *)
LEMMA LoadLeavesSave ==
  ASSUME SaveInv, UNCHANGED <<depth, folders, file, save>>
  PROVE  SaveInv'
BY DEF SaveInv, F!SaveTells

LEMMA SaveLeavesLoad ==
  ASSUME LoadInv, save.at # "idle", UNCHANGED load
  PROVE  LoadInv'
BY DEF LoadInv, F!LoadTells

LEMMA LoadStep ==
  ASSUME FilesInv,
         \/ \E flag \in BOOLEAN : F!BeginLoad(flag)
         \/ F!LoadOpens \/ F!LoadAsksSize \/ F!LoadReads \/ F!LoadDone
  PROVE  FilesInv'
<1> USE DEF FilesInv
<1>1. UNCHANGED <<depth, folders, file, save>>
  BY DEF F!BeginLoad, F!LoadOpens, F!LoadAsksSize, F!LoadReads, F!LoadDone
<1>2. SaveInv'
  BY <1>1, LoadLeavesSave
<1>3. file \in Data /\ <<>> \in Data /\ <<"old">> \in Data
  BY FilesAreData DEF FilesTypes, LoadTypes, SaveTypes
<1>4. Len(file) \in Nat /\ \A n \in Nat : F!Prefix(file, n) \in Data
  <2>1. file \in Seq(Symbols)
    BY <1>3 DEF Data
  <2>2. Len(file) \in Nat
    BY <2>1
  <2>3. \A n \in Nat : F!Prefix(file, n) \in Seq(Symbols)
    BY <2>1, PrefixOf
  <2> QED
    BY <2>2, <2>3 DEF Data
<1>5. F!Prefix(file, Len(file)) = file
  <2>1. file \in Seq(Symbols) /\ Len(file) >= Len(file)
    BY <1>3, <1>4 DEF Data
  <2> QED
    BY <1>4, <2>1, PrefixOf
<1>6. ASSUME NEW flag \in BOOLEAN, F!BeginLoad(flag)
      PROVE  FilesTypes' /\ LoadInv'
  <2>1. /\ load' = [at |-> "open", might_not_exist |-> flag, len |-> 0, data |-> <<"old">>,
                    good |-> F!NotYet, logged |-> 0, before |-> file, alone |-> save.at = "idle"]
        /\ (save.at = "idle") \in BOOLEAN
    BY <1>6 DEF F!BeginLoad
  <2>2. FilesTypes'
    <3>1. load \in LoadTypes
      BY DEF FilesTypes
    <3>2. load' \in LoadTypes
      BY <1>3, <2>1, <3>1 DEF LoadTypes
    <3> QED
      BY <1>1, <3>2 DEF FilesTypes
  <2>3. LoadInv'
    BY <1>1, <2>1 DEF LoadInv, F!LoadTells
  <2> QED
    BY <2>2, <2>3
<1>7. ASSUME NEW ignored \in BOOLEAN, F!LoadError(ignored), load.at \in {"open", "seek"},
             ignored => load.might_not_exist
      PROVE  FilesTypes' /\ LoadInv'
  <2>1. load' = [load EXCEPT !.at = "failed", !.logged = IF ignored THEN load.logged ELSE load.logged + 1]
    BY <1>7 DEF F!LoadError
  <2> DEFINE logged == IF ignored THEN load.logged ELSE load.logged + 1
  <2>4. logged \in Nat
    BY DEF FilesTypes, LoadTypes, SaveTypes
  <2>5. load' = [load EXCEPT !.at = "failed", !.logged = logged]
    BY <2>1
  <2> HIDE DEF logged
  <2>2. FilesTypes'
    <3>1. load \in LoadTypes
      BY DEF FilesTypes
    <3>2. load' \in LoadTypes
      BY <2>4, <2>5, <3>1 DEF LoadTypes
    <3> QED
      BY <1>1, <3>2 DEF FilesTypes
  <2>3. LoadInv'
    BY <1>1, <1>7, <2>1 DEF LoadInv, F!LoadTells, FilesTypes, LoadTypes, SaveTypes
  <2> QED
    BY <2>2, <2>3
<1>8. CASE F!LoadOpens
  <2>1. CASE load' = [load EXCEPT !.at = "seek"]
    BY <1>1, <1>2, <1>8, <2>1 DEF FilesTypes, LoadTypes, SaveTypes, LoadInv, F!LoadTells, F!LoadOpens
  <2>2. CASE F!LoadError(load.might_not_exist)
    BY <1>2, <1>7, <1>8, <2>2 DEF FilesTypes, LoadTypes, SaveTypes, F!LoadOpens
  <2>3. CASE F!LoadError(FALSE)
    BY <1>2, <1>7, <1>8, <2>3 DEF F!LoadOpens
  <2> QED
    BY <1>8, <2>1, <2>2, <2>3 DEF F!LoadOpens
<1>9. CASE F!LoadAsksSize
  <2>1. CASE load' = [load EXCEPT !.at = "read", !.len = Len(file)]
    BY <1>1, <1>2, <1>4, <1>9, <2>1 DEF FilesTypes, LoadTypes, SaveTypes, LoadInv, F!LoadTells, F!LoadAsksSize
  <2>2. CASE F!LoadError(FALSE)
    BY <1>2, <1>7, <1>9, <2>2 DEF F!LoadAsksSize
  <2> QED
    BY <1>9, <2>1, <2>2 DEF F!LoadAsksSize
<1>10. CASE F!LoadReads
  <2>1. CASE load' = [load EXCEPT !.at = "succeeded", !.data = F!Prefix(file, load.len)]
    <3>1. load.len \in Nat
      BY DEF FilesTypes, LoadTypes, SaveTypes
    <3>2. F!Prefix(file, load.len) \in Data
      BY <1>4, <3>1
    <3>3. load.at = "read" /\ (load.alone => F!Prefix(file, load.len) = load.before)
      BY <1>5, <1>10 DEF LoadInv, F!LoadReads
    <3>4. FilesTypes'
      <4>1. load \in LoadTypes
        BY DEF FilesTypes
      <4>2. load' \in LoadTypes
        BY <2>1, <3>2, <4>1 DEF LoadTypes
      <4> QED
        BY <1>1, <4>2 DEF FilesTypes
    <3>5. LoadInv'
      BY <1>1, <2>1, <3>3 DEF LoadInv, F!LoadTells, FilesTypes, LoadTypes, SaveTypes
    <3> QED
      BY <1>2, <3>4, <3>5
  <2>2. ASSUME NEW n \in 0 .. load.len,
               load' = [load EXCEPT !.at = "failed", !.logged = load.logged + 1, !.data = F!Prefix(file, n)]
        PROVE  FilesInv'
    <3>1. load.len \in Nat /\ n \in Nat
      BY DEF FilesTypes, LoadTypes, SaveTypes
    <3>2. F!Prefix(file, n) \in Data
      BY <1>4, <3>1
    <3>3. /\ load'.at = "failed" /\ load'.logged = load.logged + 1 /\ load'.data = F!Prefix(file, n)
          /\ load'.might_not_exist = load.might_not_exist /\ load'.len = load.len
          /\ load'.good = load.good /\ load'.before = load.before /\ load'.alone = load.alone
          /\ DOMAIN load' = DOMAIN load
          /\ load.at = "read"
      BY <1>10, <2>2 DEF FilesTypes, LoadTypes, SaveTypes, F!LoadReads
    <3> DEFINE logged == load.logged + 1
    <3>6. logged \in Nat
      BY DEF FilesTypes, LoadTypes, SaveTypes
    <3>7. load' = [load EXCEPT !.at = "failed", !.logged = logged, !.data = F!Prefix(file, n)]
      BY <2>2
    <3> HIDE DEF logged
    <3>4. FilesTypes'
      <4>1. load \in LoadTypes
        BY DEF FilesTypes
      <4>2. load' \in LoadTypes
        BY <3>2, <3>6, <3>7, <4>1 DEF LoadTypes
      <4> QED
        BY <1>1, <4>2 DEF FilesTypes
    <3>5. LoadInv'
      BY <1>1, <3>3 DEF LoadInv, F!LoadTells
    <3> QED
      BY <1>2, <3>4, <3>5
  <2> QED
    BY <1>10, <2>1, <2>2 DEF F!LoadReads
<1>11. CASE F!LoadDone
  <2>1. /\ load.at \in {"failed", "succeeded"}
        /\ load' = [load EXCEPT !.at = "idle", !.good = IF load.at = "succeeded" THEN "yes" ELSE "no",
                                !.data = IF load.at = "succeeded" THEN load.data ELSE <<>>]
    BY <1>11 DEF F!LoadDone, F!NoData
  <2>2. FilesTypes'
    <3>1. load \in LoadTypes
      BY DEF FilesTypes
    <3>2. load' \in LoadTypes
      BY <1>3, <2>1, <3>1 DEF LoadTypes
    <3> QED
      BY <1>1, <3>2 DEF FilesTypes
  <2>3. LoadInv'
    BY <1>1, <2>1 DEF LoadInv, F!LoadTells, F!NoData, FilesTypes, LoadTypes, SaveTypes
  <2> QED
    BY <1>2, <2>2, <2>3
<1> QED
  BY <1>2, <1>6, <1>8, <1>9, <1>10, <1>11

(* A save that ends with an error has a reason, and says so once.          *)
LEMMA SaveErrorKeeps ==
  ASSUME FilesInv, save.at # "idle", UNCHANGED <<depth, folders, file, load>>,
         NEW failed \in BOOLEAN, NEW buffered \in Data,
         save' = [save EXCEPT !.at = "idle", !.good = "no", !.logged = save.logged + 1, !.failed = failed,
                              !.buffer = buffered],
         \/ failed
         \/ ~save.create_folder /\ folders < depth
         \/ save.create_folder /\ depth = 0
  PROVE  FilesInv'
<1>1. LoadInv'
  BY SaveLeavesLoad DEF FilesInv
<1>2. save.logged = 0
  BY DEF FilesInv, SaveInv
<1>3. save' = [save EXCEPT !.at = "idle", !.good = "no", !.logged = 1, !.failed = failed, !.buffer = buffered]
  BY <1>2
<1>4. FilesTypes'
  <2>1. UNCHANGED <<depth, folders, file, load>> /\ failed \in BOOLEAN /\ buffered \in Data
    OBVIOUS
  <2> DEFINE ended == [save EXCEPT !.at = "idle", !.good = "no", !.logged = 1]
  <2>2. ended \in SaveTypes
    BY DEF FilesInv, FilesTypes, SaveTypes
  <2>3. save' = [ended EXCEPT !.failed = failed, !.buffer = buffered]
    BY <1>3 DEF FilesInv, FilesTypes, SaveTypes
  <2> HIDE DEF ended
  <2>4. save' \in SaveTypes
    BY <2>1, <2>2, <2>3 DEF SaveTypes
  <2> QED
    BY <2>1, <2>4 DEF FilesInv, FilesTypes, LoadTypes, SaveTypes
<1>5. /\ save'.at = "idle" /\ save'.good = "no" /\ save'.logged = 1 /\ save'.failed = failed
      /\ save'.create_folder = save.create_folder
  BY <1>3 DEF FilesInv, FilesTypes, LoadTypes, SaveTypes
<1>6. SaveInv'
  BY <1>5 DEF SaveInv, F!SaveTells
<1> QED
  BY <1>1, <1>4, <1>6 DEF FilesInv

LEMMA MakeFolderStep ==
  ASSUME FilesInv, F!MakeFolder
  PROVE  FilesInv'
<1> USE DEF FilesInv
<1> DEFINE level == save.level + 1
<1>1. save.at = "mkdir" /\ level <= depth /\ UNCHANGED <<depth, file, load>>
  BY DEF F!MakeFolder
<1>2. LoadInv'
  BY <1>1, SaveLeavesLoad
<1>3. depth \in Nat /\ folders \in 0 .. depth /\ level \in Nat /\ save.failed \in BOOLEAN /\ level # 0
  BY DEF FilesTypes, LoadTypes, SaveTypes
<1>4. save = [save EXCEPT !.failed = save.failed]
  BY DEF FilesTypes, LoadTypes, SaveTypes
<1>5. save.level > folders => save.failed
  BY <1>1 DEF SaveInv
<1> HIDE DEF level
<1>6. ASSUME NEW last \in {"made", "EEXIST", "EPERM", "EACCES", "ENOENT"}, NEW failed \in BOOLEAN,
             save' = [save EXCEPT !.level = level, !.last = last, !.failed = failed],
             folders' \in 0 .. depth,
             level > folders' => failed,
             last \in {"EACCES", "ENOENT"} => failed
      PROVE  FilesInv'
  <2>1. FilesTypes'
    BY <1>1, <1>3, <1>6 DEF FilesTypes, LoadTypes, SaveTypes
  <2>2. /\ save'.at = "mkdir" /\ save'.level = level /\ save'.last = last /\ save'.failed = failed
        /\ save'.create_folder = save.create_folder /\ save'.logged = save.logged
        /\ save'.close_failed = save.close_failed /\ save'.data = save.data /\ save'.buffer = save.buffer
        /\ save'.bad = save.bad
    BY <1>1, <1>6 DEF FilesTypes, LoadTypes, SaveTypes
  <2>3. SaveInv'
    BY <1>1, <1>3, <1>6, <2>2 DEF SaveInv, F!SaveTells
  <2> QED
    BY <1>2, <2>1, <2>3
<1>7. CASE level <= folders /\ save' = [save EXCEPT !.level = level, !.last = "EEXIST"] /\ UNCHANGED folders
  <2>1. save' = [save EXCEPT !.level = level, !.last = "EEXIST", !.failed = save.failed]
    BY <1>7, <1>4 DEF FilesTypes, LoadTypes, SaveTypes
  <2>2. folders' \in 0 .. depth /\ ~(level > folders')
    BY <1>3, <1>7
  <2> QED
    BY <1>3, <1>6, <2>1, <2>2
<1>8. CASE level = folders + 1 /\ folders' = level /\ save' = [save EXCEPT !.level = level, !.last = "made"]
  <2>1. save' = [save EXCEPT !.level = level, !.last = "made", !.failed = save.failed]
    BY <1>8, <1>4 DEF FilesTypes, LoadTypes, SaveTypes
  <2>2. folders' \in 0 .. depth /\ ~(level > folders')
    BY <1>1, <1>3, <1>8
  <2> QED
    BY <1>3, <1>6, <2>1, <2>2
<1>9. CASE level > folders + 1 /\ save' = [save EXCEPT !.level = level, !.last = "ENOENT"] /\ UNCHANGED folders
  <2>1. save.failed
    BY <1>5, <1>3, <1>9 DEF level, FilesTypes, LoadTypes, SaveTypes
  <2>2. save' = [save EXCEPT !.level = level, !.last = "ENOENT", !.failed = TRUE]
    BY <1>9, <1>4, <1>3, <2>1 DEF FilesTypes, LoadTypes, SaveTypes
  <2>3. folders' \in 0 .. depth
    BY <1>3, <1>9
  <2> QED
    BY <1>6, <2>2, <2>3
<1>10. ASSUME NEW error \in {"EPERM", "EACCES"}, UNCHANGED folders,
              save' = [save EXCEPT !.level = level, !.last = error, !.failed = TRUE]
       PROVE  FilesInv'
  BY <1>3, <1>6, <1>10
<1> QED
  BY <1>7, <1>8, <1>9, <1>10 DEF F!MakeFolder, level

LEMMA CreatedFolderStep ==
  ASSUME FilesInv, F!CreatedFolder
  PROVE  FilesInv'
<1> USE DEF FilesInv
<1>1. save.at = "mkdir" /\ save.level = depth /\ UNCHANGED <<depth, folders, file, load>> /\ save.create_folder
  BY DEF F!CreatedFolder, SaveInv
<1>2. LoadInv'
  BY <1>1, SaveLeavesLoad
<1>3. depth \in Nat /\ folders \in 0 .. depth /\ save.failed \in BOOLEAN /\ save.buffer \in Data
  BY DEF FilesTypes, LoadTypes, SaveTypes
<1>4. CASE save' = [save EXCEPT !.at = "open"]
  <2>1. FilesTypes'
    BY <1>1, <1>4 DEF FilesTypes, LoadTypes, SaveTypes
  <2>2. /\ save'.at = "open" /\ save'.failed = save.failed /\ save'.create_folder = save.create_folder
        /\ save'.logged = save.logged /\ save'.close_failed = save.close_failed /\ save'.data = save.data
        /\ save'.buffer = save.buffer /\ save'.bad = save.bad
    BY <1>1, <1>4 DEF FilesTypes, LoadTypes, SaveTypes
  <2>3. SaveInv'
    BY <1>1, <1>3, <2>2 DEF SaveInv, F!SaveTells
  <2> QED
    BY <1>2, <2>1, <2>3
<1>5. CASE save' = F!SaveError /\ save.last \notin {"made", "EEXIST", "EPERM"}
  <2>1. save' = [save EXCEPT !.at = "idle", !.good = "no", !.logged = save.logged + 1, !.failed = save.failed,
                             !.buffer = save.buffer]
    BY <1>5 DEF F!SaveError, FilesTypes, LoadTypes, SaveTypes
  <2>2. save.last \in {"none", "EACCES", "ENOENT"}
    BY <1>5 DEF FilesTypes, LoadTypes, SaveTypes
  <2>3. save.failed \/ (save.create_folder /\ depth = 0)
    BY <1>1, <2>2 DEF SaveInv
  <2> QED
    BY <1>1, <1>3, <2>1, <2>3, SaveErrorKeeps
<1> QED
  BY <1>4, <1>5 DEF F!CreatedFolder

LEMMA SaveOpensStep ==
  ASSUME FilesInv, F!SaveOpens
  PROVE  FilesInv'
<1> USE DEF FilesInv
<1>1. save.at = "open" /\ UNCHANGED <<depth, folders, load>> /\ save.data \in Contents
  BY DEF F!SaveOpens, SaveInv
<1>2. LoadInv'
  BY <1>1, SaveLeavesLoad
<1>3. depth \in Nat /\ folders \in 0 .. depth /\ save.failed \in BOOLEAN /\ save.buffer \in Data
  BY DEF FilesTypes, LoadTypes, SaveTypes
<1>4. <<>> \in Files
  <2>1. save.data \in Seq(SavedBytes)
    BY <1>1, FilesAssumption
  <2>2. Len(save.data) \in Nat /\ 0 \in 0 .. Len(save.data)
    BY <2>1
  <2>3. F!Prefix(save.data, 0) = SubSeq(save.data, 1, 0)
    BY <2>2 DEF F!Prefix
  <2>4. SubSeq(save.data, 1, 0) = <<>>
    BY <2>1, SubSeqEmpty
  <2> QED
    BY <1>1, <2>2, <2>3, <2>4 DEF Files
<1>5. CASE file' = <<>> /\ save' = [save EXCEPT !.at = "write"]
  <2>1. FilesTypes'
    BY <1>1, <1>4, <1>5 DEF FilesTypes, LoadTypes, SaveTypes
  <2>2. /\ save'.at = "write" /\ save'.logged = save.logged /\ save'.close_failed = save.close_failed
        /\ save'.data = save.data /\ save'.buffer = save.buffer /\ save'.bad = save.bad
    BY <1>1, <1>5 DEF FilesTypes, LoadTypes, SaveTypes
  <2>3. SaveInv'
    BY <1>1, <2>2 DEF SaveInv, F!SaveTells
  <2> QED
    BY <1>2, <2>1, <2>3
<1>6. CASE folders < depth /\ save' = F!SaveError /\ UNCHANGED file
  <2>1. save' = [save EXCEPT !.at = "idle", !.good = "no", !.logged = save.logged + 1, !.failed = save.failed,
                             !.buffer = save.buffer]
    BY <1>6 DEF F!SaveError, FilesTypes, LoadTypes, SaveTypes
  <2>2. save.failed \/ (~save.create_folder /\ folders < depth)
    BY <1>1, <1>6 DEF SaveInv, FilesTypes, LoadTypes, SaveTypes
  <2> QED
    BY <1>1, <1>3, <1>6, <2>1, <2>2, SaveErrorKeeps
<1>7. CASE save' = [F!SaveError EXCEPT !.failed = TRUE] /\ UNCHANGED file
  <2>1. save' = [save EXCEPT !.at = "idle", !.good = "no", !.logged = save.logged + 1, !.failed = TRUE,
                             !.buffer = save.buffer]
    BY <1>7 DEF F!SaveError, FilesTypes, LoadTypes, SaveTypes
  <2> QED
    BY <1>1, <1>3, <1>7, <2>1, SaveErrorKeeps
<1> QED
  BY <1>5, <1>6, <1>7 DEF F!SaveOpens, F!NoData

LEMMA SaveWritesStep ==
  ASSUME FilesInv, F!SaveWrites
  PROVE  FilesInv'
<1> USE DEF FilesInv
<1>1. /\ save.at = "write" /\ UNCHANGED <<depth, folders, load>> /\ save.data \in Contents
      /\ ~save.bad /\ save.buffer = <<>>
  BY DEF F!SaveWrites, SaveInv, F!NoData
<1>2. LoadInv'
  BY <1>1, SaveLeavesLoad
<1>3. PICK n \in 0 .. Len(save.data) :
        /\ file' = F!Prefix(save.data, n)
        /\ \/ save' = [save EXCEPT !.at = "close", !.buffer = SubSeq(save.data, n + 1, Len(save.data))]
           \/ save' = [save EXCEPT !.at = "close", !.bad = TRUE, !.failed = TRUE]
  BY DEF F!SaveWrites
<1>4. save.data \in Seq(SavedBytes) /\ save.data \in Seq(Symbols)
  BY <1>1, FilesAssumption, SeqMonotonic DEF Symbols
<1>5. n \in Nat /\ n <= Len(save.data) /\ Len(save.data) \in Nat
  BY <1>3, <1>4
<1>6. F!Prefix(save.data, n) \in Files
  BY <1>1 DEF Files
<1>7. F!Prefix(save.data, n) \o SubSeq(save.data, n + 1, Len(save.data)) = save.data
  BY <1>4, <1>5, PrefixOf
<1>8. SubSeq(save.data, n + 1, Len(save.data)) \in Data
  <2>1. \A i \in n + 1 .. Len(save.data) : save.data[i] \in Symbols
    BY <1>4, <1>5
  <2> QED
    BY <1>5, <2>1, SubSeqProperties DEF Data
<1>9. CASE save' = [save EXCEPT !.at = "close", !.buffer = SubSeq(save.data, n + 1, Len(save.data))]
  <2> DEFINE rest == SubSeq(save.data, n + 1, Len(save.data))
  <2>1. save' = [save EXCEPT !.at = "close", !.buffer = rest] /\ rest \in Data /\ file' \o rest = save.data
    BY <1>3, <1>7, <1>8, <1>9
  <2> HIDE DEF rest
  <2>2. FilesTypes'
    BY <1>1, <1>3, <1>6, <2>1 DEF FilesTypes, LoadTypes, SaveTypes
  <2>3. /\ save'.at = "close" /\ save'.buffer = rest /\ save'.logged = save.logged /\ save'.bad = save.bad
        /\ save'.close_failed = save.close_failed /\ save'.data = save.data
    BY <2>1 DEF FilesTypes, LoadTypes, SaveTypes
  <2>4. SaveInv'
    BY <1>1, <2>1, <2>3 DEF SaveInv, F!SaveTells
  <2> QED
    BY <1>2, <2>2, <2>4
<1>10. CASE save' = [save EXCEPT !.at = "close", !.bad = TRUE, !.failed = TRUE]
  <2>1. FilesTypes'
    BY <1>1, <1>3, <1>6, <1>10 DEF FilesTypes, LoadTypes, SaveTypes
  <2>2. /\ save'.at = "close" /\ save'.bad /\ save'.failed /\ save'.buffer = save.buffer
        /\ save'.logged = save.logged /\ save'.close_failed = save.close_failed /\ save'.data = save.data
    BY <1>10 DEF FilesTypes, LoadTypes, SaveTypes
  <2>3. SaveInv'
    BY <1>1, <2>2 DEF SaveInv, F!SaveTells, F!NoData
  <2> QED
    BY <1>2, <2>1, <2>3
<1> QED
  BY <1>3, <1>9, <1>10

LEMMA SaveClosesStep ==
  ASSUME FilesInv, F!SaveCloses
  PROVE  FilesInv'
<1> USE DEF FilesInv
<1>1. save.at = "close" /\ UNCHANGED <<depth, folders, load>> /\ save.data \in Contents /\ save.logged = 0
  BY DEF F!SaveCloses, SaveInv
<1>2. LoadInv'
  BY <1>1, SaveLeavesLoad
<1>3. file \in Data /\ <<>> \in Data /\ Contents \subseteq Files
  BY FilesAreData DEF FilesTypes, LoadTypes, SaveTypes
<1>4. file \o <<>> = file
  BY <1>3 DEF Data
<1>5. CASE save.bad
  <2>1. save.failed /\ save.buffer = <<>>
    BY <1>1, <1>5 DEF SaveInv, F!NoData
  <2>2. file' = file /\ save' = [F!SaveError EXCEPT !.buffer = <<>>]
    BY <1>4, <1>5, <2>1 DEF F!SaveCloses, F!NoData
  <2>3. save' = [save EXCEPT !.at = "idle", !.good = "no", !.logged = save.logged + 1, !.failed = save.failed,
                             !.buffer = <<>>]
    BY <2>2 DEF F!SaveError, FilesTypes, LoadTypes, SaveTypes
  <2>4. save.failed \in BOOLEAN
    BY DEF FilesTypes, LoadTypes, SaveTypes
  <2> QED
    BY <1>1, <1>3, <2>1, <2>2, <2>3, <2>4, SaveErrorKeeps
<1>6. CASE ~save.bad
  <2>1. file \o save.buffer = save.data
    BY <1>1, <1>6 DEF SaveInv
  <2>2. \/ /\ file' = save.data
           /\ save' = [save EXCEPT !.at = "idle", !.good = "yes", !.buffer = <<>>]
        \/ /\ file' = file
           /\ save' = [save EXCEPT !.at = "idle", !.good = "yes", !.buffer = <<>>, !.close_failed = TRUE]
    BY <1>6, <2>1 DEF F!SaveCloses, F!NoData, FilesTypes, LoadTypes, SaveTypes
  <2>3. FilesTypes'
    <3>1. save \in SaveTypes
      BY DEF FilesTypes
    <3>2. save' \in SaveTypes
      BY <1>3, <2>2, <3>1 DEF SaveTypes
    <3>3. file' \in Files
      BY <1>1, <1>3, <2>2 DEF FilesTypes
    <3> QED
      BY <1>1, <3>2, <3>3 DEF FilesTypes
  <2>4. /\ save'.at = "idle" /\ save'.good = "yes" /\ save'.logged = 0 /\ save'.data = save.data
        /\ file' = save.data \/ save'.close_failed
    BY <1>1, <2>2 DEF FilesTypes, LoadTypes, SaveTypes
  <2>5. SaveInv'
    BY <2>4 DEF SaveInv, F!SaveTells
  <2> QED
    BY <1>2, <2>3, <2>5
<1> QED
  BY <1>5, <1>6

LEMMA BeginSaveStep ==
  ASSUME FilesInv, NEW flag \in BOOLEAN, NEW data \in Contents, F!BeginSave(data, flag)
  PROVE  FilesInv'
<1> USE DEF FilesInv
<1>1. /\ save.at = "idle" /\ UNCHANGED <<depth, folders, file>>
      /\ load' = [load EXCEPT !.alone = load.alone /\ load.at = "idle"]
      /\ save' = [at |-> IF flag THEN "mkdir" ELSE "open", create_folder |-> flag,
                  level |-> 0, last |-> "none", data |-> data, buffer |-> <<>>, bad |-> FALSE,
                  good |-> F!NotYet, logged |-> 0, failed |-> FALSE, close_failed |-> FALSE]
  BY DEF F!BeginSave, F!NoData
<1>2. data \in Data /\ <<>> \in Data
  BY FilesAreData
<1>3. (load.alone /\ load.at = "idle") \in BOOLEAN
  OBVIOUS
<1>4. (IF flag THEN "mkdir" ELSE "open") \in {"idle", "mkdir", "open", "write", "close"}
  OBVIOUS
<1>5. FilesTypes'
  <2>1. load' \in LoadTypes
    BY <1>1, <1>3 DEF FilesTypes, LoadTypes
  <2>2. save' \in SaveTypes
    BY <1>1, <1>2, <1>4 DEF SaveTypes
  <2> QED
    BY <1>1, <2>1, <2>2 DEF FilesTypes, LoadTypes, SaveTypes
<1>6. SaveInv'
  <2>1. save'.at \in {"mkdir", "open"} /\ (save'.at = "mkdir" => flag) /\ (save'.at = "open" => ~flag)
    BY <1>1
  <2>2. /\ save'.create_folder = flag /\ save'.level = 0 /\ save'.last = "none" /\ save'.data = data
        /\ save'.buffer = F!NoData /\ ~save'.bad /\ save'.logged = 0 /\ ~save'.close_failed
    BY <1>1 DEF F!NoData
  <2>3. depth' \in Nat /\ folders' \in 0 .. depth'
    BY <1>1 DEF FilesTypes, LoadTypes, SaveTypes
  <2> QED
    BY <2>1, <2>2, <2>3 DEF SaveInv, F!SaveTells
<1>7. LoadInv'
  <2>1. /\ load'.alone = (load.alone /\ load.at = "idle") /\ load'.at = load.at /\ load'.len = load.len
        /\ load'.data = load.data /\ load'.logged = load.logged /\ load'.before = load.before
        /\ load'.good = load.good /\ load'.might_not_exist = load.might_not_exist
    BY <1>1 DEF FilesTypes, LoadTypes, SaveTypes
  <2> QED
    BY <2>1 DEF LoadInv, F!LoadTells
<1> QED
  BY <1>5, <1>6, <1>7

LEMMA FilesStart == F!Init => FilesInv
<1> SUFFICES ASSUME F!Init PROVE FilesInv
  OBVIOUS
<1>1. F!NoFile \in Files /\ F!NoFile \in Data /\ <<>> \in Data
  <2>1. F!NoFile \in Files
    BY DEF Files
  <2> QED
    BY <2>1, FilesAreData
<1>2. depth \in Nat /\ folders \in 0 .. depth
  BY FilesAssumption DEF F!Init
<1>3. FilesTypes
  BY <1>1, <1>2 DEF FilesTypes, LoadTypes, SaveTypes, F!Init, F!NoData
<1>4. LoadInv
  BY DEF LoadInv, F!LoadTells, F!Init, F!NotYet
<1>5. SaveInv
  BY DEF SaveInv, F!SaveTells, F!Init, F!NotYet
<1> QED
  BY <1>3, <1>4, <1>5 DEF FilesInv

(* LoadFile and SaveFile report every failure, and report success only if  *)
(* the data is what is in the file, whatever fails, however long the path  *)
(* and however the steps of the two interleave (file_io.cpp:138 and 183).  *)
THEOREM NoFalseSuccessEver == F!Spec => []NoFalseSuccess
<1>1. F!Init => FilesInv
  BY FilesStart
<1>2. FilesInv /\ [F!Next]_F!vars => FilesInv'
  <2> SUFFICES ASSUME FilesInv, [F!Next]_F!vars PROVE FilesInv'
    OBVIOUS
  <2>1. CASE \E flag \in BOOLEAN : \E data \in Contents : F!BeginSave(data, flag)
    BY <2>1, BeginSaveStep
  <2>2. CASE (\E flag \in BOOLEAN : F!BeginLoad(flag)) \/ F!LoadOpens \/ F!LoadAsksSize \/ F!LoadReads \/ F!LoadDone
    BY <2>2, LoadStep
  <2>3. CASE UNCHANGED F!vars
    <3>1. UNCHANGED <<depth, folders, file, load, save>>
      BY <2>3 DEF F!vars
    <3>2. FilesTypes'
      BY <3>1 DEF FilesInv, FilesTypes, LoadTypes, SaveTypes
    <3>3. LoadInv'
      BY <3>1 DEF FilesInv, LoadInv, F!LoadTells
    <3> QED
      BY <3>1, <3>2, <3>3, LoadLeavesSave DEF FilesInv
  <2> QED
    BY <2>1, <2>2, <2>3, MakeFolderStep, CreatedFolderStep, SaveOpensStep, SaveWritesStep, SaveClosesStep
       DEF F!Next
<1>3. FilesInv => NoFalseSuccess
  <2> SUFFICES ASSUME FilesInv PROVE F!NoFalseSuccess
    BY DEF NoFalseSuccess
  <2>1. F!LoadTells /\ F!SaveTells
    BY DEF FilesInv, LoadInv, SaveInv
  <2>2. /\ folders \in 0 .. depth /\ file \in Files
        /\ load.at \in {"idle", "open", "seek", "read", "failed", "succeeded"}
        /\ save.at \in {"idle", "mkdir", "open", "write", "close"}
    BY DEF FilesInv, FilesTypes, LoadTypes, SaveTypes
  <2>3. F!TypeOK
    BY <2>2 DEF F!TypeOK, Files
  <2> QED
    BY <2>1, <2>3 DEF F!NoFalseSuccess
<1> QED
  BY <1>1, <1>2, <1>3, PTL DEF F!Spec

-----------------------------------------------------------------------------

(***************************************************************************)
(* Log and LogWithTag objects.  Each tag among the globals comes right     *)
(* after its log, so that the last of them is never the log of a tag; and  *)
(* no buffer has a character twice, so that a flush of it moves what it    *)
(* has to the output once.                                                 *)
(***************************************************************************)
LogsTypes ==
  /\ logPhase \in {"starting", "running", "ending"}
  /\ living \subseteq O!AllLogs
  /\ IsFiniteSet(living)
  /\ chars \in Nat /\ chars <= MaxChars
  /\ m_buffer \in [O!AllLogs -> Seq(1 .. chars)]
  /\ output \in Seq(1 .. chars)

NoneTwice(s) == \A i, j \in DOMAIN s : s[i] = s[j] => i = j

BuffersInv ==
  /\ \A l \in O!AllLogs : NoneTwice(m_buffer[l])
  /\ \A l \in O!AllLogs \ living : m_buffer[l] = <<>>

TagsInv ==
  /\ globals \in Seq({"log", "tag"} \X Defined)
  /\ NoneTwice(globals)
  /\ \A l \in Defined : l \in living <=> <<"log", l>> \in ToSet(globals)
  /\ \A i \in DOMAIN globals : globals[i][1] = "tag" => i > 1 /\ globals[i - 1] = <<"log", globals[i][2]>>
  /\ ms_first \in Seq(Defined)
  /\ NoneTwice(ms_first)
  /\ ToSet(ms_first) = {l \in Defined : <<"tag", l>> \in ToSet(globals)}

PlacesIn(s, ch) == {i \in DOMAIN s : s[i] = ch}
HaveIt(ch) == {l \in O!AllLogs : ch \in ToSet(m_buffer[l])}
Comes(ch) == Cardinality(PlacesIn(output, ch)) + Cardinality(HaveIt(ch))

OutInv ==
  \A ch \in 1 .. chars :
    /\ ch \notin copied \union overwritten => Comes(ch) = 1
    /\ ch \notin overwritten => Comes(ch) >= 1
    /\ ch \notin copied => Comes(ch) <= 1

LogsInv == LogsTypes /\ BuffersInv /\ TagsInv /\ OutInv

(* A flush: each character that the buffer has is in the output once more. *)
LEMMA PlacesAppend ==
  ASSUME NEW S, NEW s \in Seq(S), NEW t \in Seq(S), NEW ch, NoneTwice(t)
  PROVE  /\ IsFiniteSet(PlacesIn(s, ch))
         /\ Cardinality(PlacesIn(s \o t, ch))
              = IF ch \in ToSet(t) THEN Cardinality(PlacesIn(s, ch)) + 1 ELSE Cardinality(PlacesIn(s, ch))
<1>1. /\ Len(s) \in Nat /\ Len(t) \in Nat
      /\ DOMAIN s = 1 .. Len(s) /\ DOMAIN t = 1 .. Len(t)
      /\ DOMAIN (s \o t) = 1 .. Len(s) + Len(t)
      /\ \A i \in 1 .. Len(s) : (s \o t)[i] = s[i]
      /\ \A i \in Len(s) + 1 .. Len(s) + Len(t) : (s \o t)[i] = t[i - Len(s)]
  BY ConcatProperties
<1>2. IsFiniteSet(PlacesIn(s, ch))
  <2>1. PlacesIn(s, ch) \subseteq 1 .. Len(s) /\ IsFiniteSet(1 .. Len(s))
    BY <1>1, FS_Interval DEF PlacesIn
  <2> QED
    BY <2>1, FS_Subset
<1>3. CASE ch \in ToSet(t)
  <2>1. PICK j \in 1 .. Len(t) : t[j] = ch
    BY <1>1, <1>3 DEF ToSet
  <2>2. \A i \in 1 .. Len(t) : t[i] = ch => i = j
    BY <1>1, <2>1 DEF NoneTwice
  <2>3. Len(s) + j \notin PlacesIn(s, ch)
    BY <1>1, <2>1 DEF PlacesIn
  <2>4. ASSUME NEW i
        PROVE  i \in PlacesIn(s \o t, ch) <=> i \in PlacesIn(s, ch) \union {Len(s) + j}
    <3>1. CASE i \in 1 .. Len(s)
      BY <1>1, <2>1, <3>1 DEF PlacesIn
    <3>2. CASE i \in Len(s) + 1 .. Len(s) + Len(t)
      <4>1. i - Len(s) \in 1 .. Len(t) /\ (s \o t)[i] = t[i - Len(s)] /\ i \in DOMAIN (s \o t) /\ i \notin DOMAIN s
        BY <1>1, <3>2
      <4>2. t[i - Len(s)] = ch <=> i - Len(s) = j
        BY <2>1, <2>2, <4>1
      <4>3. i - Len(s) = j <=> i = Len(s) + j
        BY <1>1, <2>1, <3>2
      <4> QED
        BY <4>1, <4>2, <4>3 DEF PlacesIn
    <3>3. CASE i \notin 1 .. Len(s) + Len(t)
      <4>1. i \notin DOMAIN s /\ i \notin DOMAIN (s \o t) /\ i # Len(s) + j
        BY <1>1, <2>1, <3>3
      <4> QED
        BY <4>1 DEF PlacesIn
    <3>4. i \in 1 .. Len(s) + Len(t) => i \in 1 .. Len(s) \/ i \in Len(s) + 1 .. Len(s) + Len(t)
      BY <1>1
    <3> QED
      BY <3>1, <3>2, <3>3, <3>4
  <2>5. PlacesIn(s \o t, ch) = PlacesIn(s, ch) \union {Len(s) + j}
    BY <2>4
  <2> QED
    BY <1>2, <1>3, <2>3, <2>5, FS_AddElement
<1>4. CASE ch \notin ToSet(t)
  <2>1. \A i \in 1 .. Len(t) : t[i] # ch
    BY <1>1, <1>4 DEF ToSet
  <2>2. ASSUME NEW i
        PROVE  i \in PlacesIn(s \o t, ch) <=> i \in PlacesIn(s, ch)
    <3>1. CASE i \in 1 .. Len(s)
      BY <1>1, <3>1 DEF PlacesIn
    <3>2. CASE i \in Len(s) + 1 .. Len(s) + Len(t)
      <4>1. i - Len(s) \in 1 .. Len(t) /\ (s \o t)[i] = t[i - Len(s)] /\ i \notin DOMAIN s
        BY <1>1, <3>2
      <4> QED
        BY <2>1, <4>1 DEF PlacesIn
    <3>3. CASE i \notin 1 .. Len(s) + Len(t)
      <4>1. i \notin DOMAIN s /\ i \notin DOMAIN (s \o t)
        BY <1>1, <3>3
      <4> QED
        BY <4>1 DEF PlacesIn
    <3>4. i \in 1 .. Len(s) + Len(t) => i \in 1 .. Len(s) \/ i \in Len(s) + 1 .. Len(s) + Len(t)
      BY <1>1
    <3> QED
      BY <3>1, <3>2, <3>3, <3>4
  <2>3. PlacesIn(s \o t, ch) = PlacesIn(s, ch)
    BY <2>2
  <2> QED
    BY <1>2, <1>4, <2>3
<1> QED
  BY <1>3, <1>4

LEMMA BufferTypes ==
  ASSUME LogsTypes, BuffersInv
  PROVE  /\ \A l \in O!AllLogs : /\ m_buffer[l] \in Seq(1 .. chars) /\ NoneTwice(m_buffer[l])
                                 /\ ToSet(m_buffer[l]) \subseteq 1 .. chars
         /\ \A ch : /\ HaveIt(ch) \subseteq living /\ IsFiniteSet(HaveIt(ch))
                    /\ Cardinality(HaveIt(ch)) \in Nat
                    /\ IsFiniteSet(PlacesIn(output, ch)) /\ Cardinality(PlacesIn(output, ch)) \in Nat
<1>1. ASSUME NEW l \in O!AllLogs
      PROVE  /\ m_buffer[l] \in Seq(1 .. chars) /\ NoneTwice(m_buffer[l])
             /\ ToSet(m_buffer[l]) \subseteq 1 .. chars
  BY DEF LogsTypes, BuffersInv, ToSet
<1>2. ASSUME NEW ch
      PROVE  /\ HaveIt(ch) \subseteq living /\ IsFiniteSet(HaveIt(ch))
             /\ Cardinality(HaveIt(ch)) \in Nat
             /\ IsFiniteSet(PlacesIn(output, ch)) /\ Cardinality(PlacesIn(output, ch)) \in Nat
  <2>1. HaveIt(ch) \subseteq living
    BY DEF HaveIt, BuffersInv, ToSet
  <2>2. IsFiniteSet(HaveIt(ch))
    BY <2>1, FS_Subset DEF LogsTypes
  <2>3. NoneTwice(<<>>) /\ <<>> \in Seq(1 .. chars) /\ output \in Seq(1 .. chars)
    BY DEF NoneTwice, LogsTypes
  <2>4. IsFiniteSet(PlacesIn(output, ch))
    BY <2>3, PlacesAppend
  <2> QED
    BY <2>1, <2>2, <2>4, FS_CardinalityType
<1> QED
  BY <1>1, <1>2

(* The flush leaves it how often each character comes out.                 *)
LEMMA FlushKeeps ==
  ASSUME LogsInv, NEW l \in living, O!Flushes(l), living' \in {living, living \ {l}},
         logPhase' \in {"starting", "running", "ending"},
         UNCHANGED <<chars, copied, overwritten>>
  PROVE  LogsTypes' /\ BuffersInv' /\ OutInv'
<1> USE DEF LogsInv
<1>1. /\ l \in O!AllLogs
      /\ output' = output \o m_buffer[l]
      /\ m_buffer' = [m_buffer EXCEPT ![l] = <<>>]
  BY DEF O!Flushes, LogsTypes
<1>2. /\ m_buffer[l] \in Seq(1 .. chars) /\ NoneTwice(m_buffer[l]) /\ output \in Seq(1 .. chars)
      /\ <<>> \in Seq(1 .. chars) /\ NoneTwice(<<>>)
  BY <1>1, BufferTypes DEF LogsTypes, NoneTwice
<1>3. /\ m_buffer'[l] = <<>> /\ \A m \in O!AllLogs : m # l => m_buffer'[m] = m_buffer[m]
      /\ m_buffer' \in [O!AllLogs -> Seq(1 .. chars)] /\ output' \in Seq(1 .. chars)
  BY <1>1, <1>2 DEF LogsTypes
<1>4. LogsTypes'
  <2>1. living' \subseteq O!AllLogs /\ IsFiniteSet(living')
    BY FS_RemoveElement DEF LogsTypes
  <2> QED
    BY <1>3, <2>1 DEF LogsTypes
<1>5. BuffersInv'
  BY <1>2, <1>3 DEF BuffersInv
<1>6. ASSUME NEW ch
      PROVE  Comes(ch)' = Comes(ch)
  <2>1. /\ IsFiniteSet(HaveIt(ch)) /\ Cardinality(HaveIt(ch)) \in Nat
        /\ Cardinality(PlacesIn(output, ch)) \in Nat
    BY BufferTypes
  <2>2. HaveIt(ch)' = HaveIt(ch) \ {l}
    <3>1. ASSUME NEW m \in O!AllLogs
          PROVE  ch \in ToSet(m_buffer'[m]) <=> m # l /\ ch \in ToSet(m_buffer[m])
      BY <1>3 DEF ToSet
    <3> QED
      BY <3>1 DEF HaveIt
  <2>3. l \in HaveIt(ch) <=> ch \in ToSet(m_buffer[l])
    BY <1>1 DEF HaveIt
  <2>4. Cardinality(PlacesIn(output', ch))
          = IF ch \in ToSet(m_buffer[l]) THEN Cardinality(PlacesIn(output, ch)) + 1
                                         ELSE Cardinality(PlacesIn(output, ch))
    BY <1>1, <1>2, PlacesAppend
  <2>5. Cardinality(HaveIt(ch)') = IF ch \in ToSet(m_buffer[l]) THEN Cardinality(HaveIt(ch)) - 1
                                                                ELSE Cardinality(HaveIt(ch))
    BY <2>1, <2>2, <2>3, FS_RemoveElement
  <2>6. PlacesIn(output, ch)' = PlacesIn(output', ch)
    BY DEF PlacesIn
  <2> QED
    BY <2>1, <2>4, <2>5, <2>6 DEF Comes
<1>7. OutInv'
  BY <1>6 DEF OutInv
<1> QED
  BY <1>4, <1>5, <1>7

LEMMA WriteKeeps ==
  ASSUME LogsInv, NEW l \in O!AllLogs, O!Write(l)
  PROVE  LogsInv'
<1> USE DEF LogsInv
<1>1. /\ l \in living /\ chars < MaxChars /\ chars' = chars + 1
      /\ m_buffer' = [m_buffer EXCEPT ![l] = Append(m_buffer[l], chars + 1)]
      /\ UNCHANGED <<logPhase, globals, ms_first, living, output, copied, overwritten>>
  BY DEF O!Write
<1>2. chars \in Nat /\ MaxChars \in Nat /\ chars' \in Nat /\ chars' <= MaxChars
  BY <1>1, LogsAssumption DEF LogsTypes
<1>3. 1 .. chars' = (1 .. chars) \union {chars'} /\ chars' \notin 1 .. chars
  BY <1>1, <1>2
<1>4. /\ m_buffer'[l] = Append(m_buffer[l], chars') /\ \A m \in O!AllLogs : m # l => m_buffer'[m] = m_buffer[m]
      /\ DOMAIN m_buffer' = O!AllLogs
  BY <1>1 DEF LogsTypes
<1>5. /\ m_buffer[l] \in Seq(1 .. chars') /\ output' \in Seq(1 .. chars')
      /\ \A m \in O!AllLogs : m_buffer[m] \in Seq(1 .. chars')
  <2>1. Seq(1 .. chars) \subseteq Seq(1 .. chars')
    BY <1>3, SeqMonotonic
  <2> QED
    BY <1>1, <2>1, BufferTypes DEF LogsTypes
<1>6. /\ Len(m_buffer[l]) \in Nat /\ DOMAIN m_buffer[l] = 1 .. Len(m_buffer[l])
      /\ m_buffer'[l] \in Seq(1 .. chars')
      /\ DOMAIN m_buffer'[l] = 1 .. Len(m_buffer[l]) + 1
      /\ \A i \in 1 .. Len(m_buffer[l]) : m_buffer'[l][i] = m_buffer[l][i]
      /\ m_buffer'[l][Len(m_buffer[l]) + 1] = chars'
      /\ ToSet(m_buffer'[l]) = ToSet(m_buffer[l]) \union {chars'}
  <2>1. PICK S, s, c : S = 1 .. chars' /\ s = m_buffer[l] /\ c = chars'
    OBVIOUS
  <2>2. c \in S /\ s \in Seq(S)
    BY <1>3, <1>5, <2>1
  <2>3. /\ Len(s) \in Nat /\ DOMAIN s = 1 .. Len(s)
        /\ Append(s, c) \in Seq(S)
        /\ DOMAIN Append(s, c) = 1 .. Len(s) + 1
        /\ \A i \in 1 .. Len(s) : Append(s, c)[i] = s[i]
        /\ Append(s, c)[Len(s) + 1] = c
        /\ ToSet(Append(s, c)) = ToSet(s) \union {c}
    BY <2>2, AppendedIs
  <2> QED
    BY <1>4, <2>1, <2>3
<1>7. LogsTypes'
  <2>1. m_buffer' \in [O!AllLogs -> Seq(1 .. chars')]
    <3>1. \A m \in O!AllLogs : m_buffer'[m] \in Seq(1 .. chars')
      BY <1>4, <1>5, <1>6
    <3>2. m_buffer' = [m \in O!AllLogs |-> m_buffer'[m]]
      BY <1>1, <1>4 DEF LogsTypes
    <3> QED
      BY <3>1, <3>2
  <2> QED
    BY <1>1, <1>2, <1>5, <2>1 DEF LogsTypes
<1>8. \A m \in O!AllLogs : chars' \notin ToSet(m_buffer[m])
  BY <1>3, BufferTypes
<1>9. NoneTwice(m_buffer'[l])
  <2>1. \A i \in 1 .. Len(m_buffer[l]) : m_buffer[l][i] # chars'
    BY <1>6, <1>8 DEF ToSet
  <2>2. \A i, j \in 1 .. Len(m_buffer[l]) : m_buffer[l][i] = m_buffer[l][j] => i = j
    BY <1>6 DEF BuffersInv, NoneTwice
  <2>3. ASSUME NEW i \in DOMAIN m_buffer'[l], NEW j \in DOMAIN m_buffer'[l], m_buffer'[l][i] = m_buffer'[l][j]
        PROVE  i = j
    <3>1. /\ i \in 1 .. Len(m_buffer[l]) \/ i = Len(m_buffer[l]) + 1
          /\ j \in 1 .. Len(m_buffer[l]) \/ j = Len(m_buffer[l]) + 1
      BY <1>6
    <3> QED
      BY <1>6, <2>1, <2>2, <2>3, <3>1
  <2> QED
    BY <2>3 DEF NoneTwice
<1>10. BuffersInv'
  BY <1>1, <1>4, <1>9 DEF BuffersInv
<1>11. TagsInv'
  BY <1>1 DEF TagsInv
<1>12. ASSUME NEW ch \in 1 .. chars
       PROVE  Comes(ch)' = Comes(ch)
  <2>1. HaveIt(ch)' = HaveIt(ch)
    <3>1. ASSUME NEW m \in O!AllLogs
          PROVE  ch \in ToSet(m_buffer'[m]) <=> ch \in ToSet(m_buffer[m])
      BY <1>3, <1>4, <1>6
    <3> QED
      BY <3>1 DEF HaveIt
  <2>2. PlacesIn(output, ch)' = PlacesIn(output, ch)
    BY <1>1 DEF PlacesIn
  <2> QED
    BY <2>1, <2>2 DEF Comes
<1>13. ASSUME NEW ch, ch = chars + 1
       PROVE  Comes(ch)' = 1
  <2>1. HaveIt(ch)' = {l}
    <3>1. ASSUME NEW m \in O!AllLogs
          PROVE  ch \in ToSet(m_buffer'[m]) <=> m = l
      BY <1>1, <1>4, <1>6, <1>8, <1>13
    <3> QED
      BY <3>1 DEF HaveIt
  <2>2. PlacesIn(output, ch)' = {}
    BY <1>1, <1>3, <1>13 DEF PlacesIn, LogsTypes
  <2>3. Cardinality(HaveIt(ch)') = 1 /\ Cardinality(PlacesIn(output, ch)') = 0
    BY <2>1, <2>2, FS_Singleton, FS_EmptySet
  <2> QED
    BY <2>3 DEF Comes
<1>14. OutInv'
  <2>1. ASSUME NEW ch \in 1 .. chars'
        PROVE  /\ ch \notin copied' \union overwritten' => Comes(ch)' = 1
               /\ ch \notin overwritten' => Comes(ch)' >= 1
               /\ ch \notin copied' => Comes(ch)' <= 1
    <3>1. CASE ch \in 1 .. chars
      BY <1>1, <1>12, <3>1 DEF OutInv
    <3>2. CASE ch = chars + 1
      BY <1>13, <3>2
    <3> QED
      BY <1>1, <1>3, <3>1, <3>2
  <2> QED
    BY <2>1 DEF OutInv
<1> QED
  BY <1>7, <1>10, <1>11, <1>14

(* A copy of a buffer, or one that an assignment overwrites.               *)
LEMMA CopyKeeps ==
  ASSUME LogsInv, NEW target \in O!AllLogs, NEW l \in living, target # l,
         target \in living \/ m_buffer[target] = <<>>,
         m_buffer' = [m_buffer EXCEPT ![target] = m_buffer[l]],
         copied' = copied \union ToSet(m_buffer[l]),
         overwritten \union ToSet(m_buffer[target]) \subseteq overwritten',
         living' = living \union {target},
         UNCHANGED <<logPhase, globals, ms_first, output, chars>>
  PROVE  LogsTypes' /\ BuffersInv' /\ OutInv'
<1> USE DEF LogsInv
<1>1. /\ l \in O!AllLogs
      /\ m_buffer'[target] = m_buffer[l] /\ \A m \in O!AllLogs : m # target => m_buffer'[m] = m_buffer[m]
      /\ m_buffer' \in [O!AllLogs -> Seq(1 .. chars)]
  BY DEF LogsTypes
<1>2. LogsTypes'
  <2>1. living' \subseteq O!AllLogs /\ IsFiniteSet(living')
    BY FS_AddElement DEF LogsTypes
  <2> QED
    BY <1>1, <2>1 DEF LogsTypes
<1>3. BuffersInv'
  BY <1>1 DEF BuffersInv
<1>4. ASSUME NEW ch \in 1 .. chars
      PROVE  /\ ch \notin copied' \union overwritten' => Comes(ch)' = 1
             /\ ch \notin overwritten' => Comes(ch)' >= 1
             /\ ch \notin copied' => Comes(ch)' <= 1
  <2>0. /\ ch \notin copied \union overwritten => Comes(ch) = 1
        /\ ch \notin overwritten => Comes(ch) >= 1
        /\ ch \notin copied => Comes(ch) <= 1
    BY DEF OutInv
  <2>1. /\ IsFiniteSet(HaveIt(ch)) /\ Cardinality(HaveIt(ch)) \in Nat
        /\ Cardinality(PlacesIn(output, ch)) \in Nat
    BY BufferTypes
  <2>2. PlacesIn(output, ch)' = PlacesIn(output, ch)
    BY DEF PlacesIn
  <2>3. CASE ch \in ToSet(m_buffer[l])
    <3>1. HaveIt(ch)' = HaveIt(ch) \union {target}
      <4>1. ASSUME NEW m \in O!AllLogs
            PROVE  ch \in ToSet(m_buffer'[m]) <=> m = target \/ ch \in ToSet(m_buffer[m])
        BY <1>1, <2>3
      <4> QED
        BY <4>1 DEF HaveIt
    <3>2. Cardinality(HaveIt(ch)') \in Nat /\ Cardinality(HaveIt(ch)') >= Cardinality(HaveIt(ch))
      <4>1. Cardinality(HaveIt(ch) \union {target})
              = IF target \in HaveIt(ch) THEN Cardinality(HaveIt(ch)) ELSE Cardinality(HaveIt(ch)) + 1
        BY <2>1, FS_AddElement
      <4> QED
        BY <2>1, <3>1, <4>1
    <3>3. ch \in copied'
      BY <2>3
    <3>4. Comes(ch)' >= Comes(ch) /\ Comes(ch) \in Nat /\ Comes(ch)' \in Nat
      BY <2>1, <2>2, <3>2 DEF Comes
    <3> HIDE DEF LogsInv
    <3> QED
      BY <2>0, <3>3, <3>4
  <2>4. CASE ch \notin ToSet(m_buffer[l]) /\ ch \in ToSet(m_buffer[target])
    <3>1. HaveIt(ch)' = HaveIt(ch) \ {target}
      <4>1. ASSUME NEW m \in O!AllLogs
            PROVE  ch \in ToSet(m_buffer'[m]) <=> m # target /\ ch \in ToSet(m_buffer[m])
        BY <1>1, <2>4
      <4> QED
        BY <4>1 DEF HaveIt
    <3>2. target \in HaveIt(ch)
      BY <2>4 DEF HaveIt
    <3>3. Cardinality(HaveIt(ch)') = Cardinality(HaveIt(ch)) - 1
      BY <2>1, <3>1, <3>2, FS_RemoveElement
    <3>4. ch \in overwritten' /\ (ch \notin copied' => ch \notin copied)
      BY <2>4
    <3>5. Comes(ch)' = Comes(ch) - 1 /\ Comes(ch) \in Int
      BY <2>1, <2>2, <3>3 DEF Comes
    <3> HIDE DEF LogsInv
    <3> QED
      BY <2>0, <3>4, <3>5
  <2>5. CASE ch \notin ToSet(m_buffer[l]) /\ ch \notin ToSet(m_buffer[target])
    <3>1. HaveIt(ch)' = HaveIt(ch)
      <4>1. ASSUME NEW m \in O!AllLogs
            PROVE  ch \in ToSet(m_buffer'[m]) <=> ch \in ToSet(m_buffer[m])
        BY <1>1, <2>5
      <4> QED
        BY <4>1 DEF HaveIt
    <3>2. Comes(ch)' = Comes(ch)
      BY <2>2, <3>1 DEF Comes
    <3>3. (ch \notin copied' => ch \notin copied) /\ (ch \notin overwritten' => ch \notin overwritten)
      OBVIOUS
    <3> QED
      BY <2>0, <3>2, <3>3
  <2> QED
    BY <2>3, <2>4, <2>5
<1>5. OutInv'
  BY <1>4 DEF OutInv
<1> QED
  BY <1>2, <1>3, <1>5

(* One object more or less, with nothing in its buffer.                    *)
LEMMA LivingKeeps ==
  ASSUME LogsInv, logPhase' \in {"starting", "running", "ending"},
         living' \subseteq O!AllLogs, IsFiniteSet(living'), living \subseteq living',
         UNCHANGED <<m_buffer, output, chars, copied, overwritten>>
  PROVE  LogsTypes' /\ BuffersInv' /\ OutInv'
<1>1. LogsTypes'
  BY DEF LogsInv, LogsTypes
<1>2. BuffersInv'
  BY DEF LogsInv, BuffersInv
<1>3. \A ch : Comes(ch)' = Comes(ch)
  BY DEF Comes, HaveIt, PlacesIn
<1>4. OutInv'
  BY <1>3 DEF LogsInv, OutInv
<1> QED
  BY <1>1, <1>2, <1>4

(* What happens to copies leaves the globals.                              *)
LEMMA GlobalsStay ==
  ASSUME TagsInv, UNCHANGED <<globals, ms_first>>,
         \A l \in Defined : l \in living' <=> l \in living
  PROVE  TagsInv'
BY DEF TagsInv

LEMMA DefineKeeps ==
  ASSUME LogsInv, NEW l \in Defined, O!Define(l)
  PROVE  LogsInv'
<1> USE DEF LogsInv
<1> DEFINE log == <<"log", l>>
           tag == <<"tag", l>>
           n == Len(globals)
<1>1. /\ l \notin living /\ living' = living \union {l}
      /\ globals' = globals \o <<log, tag>>
      /\ ms_first' = <<l>> \o ms_first
      /\ UNCHANGED <<logPhase, m_buffer, output, chars, copied, overwritten>>
  BY DEF O!Define
<1>2. LogsTypes' /\ BuffersInv' /\ OutInv'
  <2>1. living' \subseteq O!AllLogs /\ IsFiniteSet(living') /\ living \subseteq living'
    BY <1>1, FS_AddElement DEF LogsTypes, O!AllLogs
  <2>2. logPhase' \in {"starting", "running", "ending"}
    BY <1>1 DEF LogsTypes
  <2> QED
    BY <1>1, <2>1, <2>2, LivingKeeps
<1>3. /\ log \in {"log", "tag"} \X Defined /\ tag \in {"log", "tag"} \X Defined
      /\ log[1] = "log" /\ tag[1] = "tag" /\ tag[2] = l /\ log # tag
      /\ \A m : (<<"log", m>> = log <=> m = l) /\ (<<"tag", m>> = tag <=> m = l)
      /\ \A m : <<"log", m>> # tag /\ <<"tag", m>> # log
  OBVIOUS
<1> HIDE DEF log, tag
<1>4. /\ globals \in Seq({"log", "tag"} \X Defined) /\ n \in Nat /\ DOMAIN globals = 1 .. n
      /\ globals' \in Seq({"log", "tag"} \X Defined) /\ DOMAIN globals' = 1 .. n + 2
      /\ \A i \in 1 .. n : globals'[i] = globals[i]
      /\ globals'[n + 1] = log /\ globals'[n + 2] = tag
  <2>1. globals \in Seq({"log", "tag"} \X Defined) /\ <<log, tag>> \in Seq({"log", "tag"} \X Defined)
    BY <1>3 DEF TagsInv
  <2>2. Len(<<log, tag>>) = 2 /\ <<log, tag>>[1] = log /\ <<log, tag>>[2] = tag
    OBVIOUS
  <2>3. n \in Nat /\ DOMAIN globals = 1 .. n
    BY <2>1
  <2>4. /\ globals' \in Seq({"log", "tag"} \X Defined) /\ Len(globals') = n + 2
        /\ \A i \in 1 .. n : globals'[i] = globals[i]
        /\ \A i \in n + 1 .. n + 2 : globals'[i] = <<log, tag>>[i - n]
    BY <1>1, <2>1, <2>2, <2>3, ConcatProperties
  <2>5. n + 1 \in n + 1 .. n + 2 /\ n + 2 \in n + 1 .. n + 2 /\ (n + 1) - n = 1 /\ (n + 2) - n = 2
    BY <2>3
  <2> QED
    BY <2>1, <2>2, <2>3, <2>4, <2>5
<1> HIDE DEF n
<1>5. ToSet(globals') = ToSet(globals) \union {log, tag}
  <2>1. 1 .. n + 2 = (1 .. n) \union {n + 1, n + 2}
    BY <1>4
  <2>2. ToSet(globals') = {globals'[i] : i \in 1 .. n} \union {globals'[n + 1], globals'[n + 2]}
    <3>1. ToSet(globals') = {globals'[i] : i \in (1 .. n) \union {n + 1, n + 2}}
      BY <1>4, <2>1 DEF ToSet
    <3> QED
      BY <3>1, Zenon
  <2>3. {globals'[i] : i \in 1 .. n} = ToSet(globals)
    BY <1>4 DEF ToSet
  <2> QED
    BY <1>4, <2>2, <2>3
<1>6. log \notin ToSet(globals)
  BY <1>1 DEF TagsInv, log
<1>7. tag \notin ToSet(globals)
  <2> SUFFICES ASSUME tag \in ToSet(globals) PROVE FALSE
    OBVIOUS
  <2>1. PICK i \in 1 .. n : globals[i] = tag
    BY <1>4 DEF ToSet
  <2>4. globals[i][1] = "tag" /\ globals[i][2] = l /\ i \in DOMAIN globals
    BY <1>3, <1>4, <2>1
  <2>2. i > 1 /\ globals[i - 1] = <<"log", l>>
    BY <2>4 DEF TagsInv
  <2>3. i - 1 \in 1 .. n
    BY <1>4, <2>2
  <2> QED
    BY <1>4, <1>6, <2>2, <2>3 DEF ToSet, log
<1>8. NoneTwice(globals')
  <2>1. \A i \in 1 .. n : globals[i] # log /\ globals[i] # tag
    BY <1>4, <1>6, <1>7 DEF ToSet
  <2>2. \A i, j \in 1 .. n : globals[i] = globals[j] => i = j
    BY <1>4 DEF TagsInv, NoneTwice
  <2>3. ASSUME NEW i \in DOMAIN globals', NEW j \in DOMAIN globals', globals'[i] = globals'[j]
        PROVE  i = j
    <3>1. /\ i \in 1 .. n \/ i = n + 1 \/ i = n + 2
          /\ j \in 1 .. n \/ j = n + 1 \/ j = n + 2
      BY <1>4
    <3> QED
      BY <1>3, <1>4, <2>1, <2>2, <2>3, <3>1
  <2> QED
    BY <2>3 DEF NoneTwice
<1>9. \A m \in Defined : m \in living' <=> <<"log", m>> \in ToSet(globals')
  BY <1>1, <1>3, <1>5 DEF TagsInv
<1>10. ASSUME NEW i \in DOMAIN globals', globals'[i][1] = "tag"
       PROVE  i > 1 /\ globals'[i - 1] = <<"log", globals'[i][2]>>
  <2>1. CASE i \in 1 .. n
    <3>1. i > 1 /\ globals[i - 1] = <<"log", globals[i][2]>>
      BY <1>4, <1>10, <2>1 DEF TagsInv
    <3>2. i - 1 \in 1 .. n
      BY <1>4, <2>1, <3>1
    <3> QED
      BY <1>4, <2>1, <3>1, <3>2
  <2>2. i # n + 1
    BY <1>3, <1>4, <1>10
  <2>3. CASE i = n + 2
    <3>1. i > 1 /\ i - 1 = n + 1
      BY <1>4, <2>3
    <3> QED
      BY <1>3, <1>4, <2>3, <3>1 DEF log
  <2>4. i \in 1 .. n \/ i = n + 1 \/ i = n + 2
    BY <1>4
  <2> QED
    BY <2>1, <2>2, <2>3, <2>4
<1>11. /\ ms_first \in Seq(Defined) /\ l \notin ToSet(ms_first)
  BY <1>7 DEF TagsInv, tag
<1>12. /\ ms_first' \in Seq(Defined) /\ NoneTwice(ms_first') /\ ToSet(ms_first') = ToSet(ms_first) \union {l}
  <2> DEFINE k == Len(ms_first)
  <2>1. k \in Nat /\ DOMAIN ms_first = 1 .. k
    BY <1>11
  <2>2. /\ ms_first' \in Seq(Defined) /\ DOMAIN ms_first' = 1 .. k + 1 /\ ms_first'[1] = l
        /\ \A i \in 2 .. k + 1 : ms_first'[i] = ms_first[i - 1]
    BY <1>1, <1>11
  <2>3. \A i \in 1 .. k : ms_first[i] # l
    BY <1>11, <2>1 DEF ToSet
  <2>4. \A i, j \in 1 .. k : ms_first[i] = ms_first[j] => i = j
    BY <2>1 DEF TagsInv, NoneTwice
  <2>5. ASSUME NEW i \in DOMAIN ms_first', NEW j \in DOMAIN ms_first', ms_first'[i] = ms_first'[j]
        PROVE  i = j
    <3>1. /\ i = 1 \/ (i \in 2 .. k + 1 /\ i - 1 \in 1 .. k)
          /\ j = 1 \/ (j \in 2 .. k + 1 /\ j - 1 \in 1 .. k)
      BY <2>1, <2>2
    <3>2. i - 1 = j - 1 => i = j
      BY <2>1, <2>2
    <3> HIDE DEF k
    <3> QED
      BY <2>2, <2>3, <2>4, <2>5, <3>1, <3>2
  <2>6. ToSet(ms_first') = ToSet(ms_first) \union {l}
    <3>1. ASSUME NEW m \in ToSet(ms_first')
          PROVE  m \in ToSet(ms_first) \union {l}
      <4>1. PICK i \in 1 .. k + 1 : ms_first'[i] = m
        BY <2>2 DEF ToSet
      <4>2. i = 1 \/ (i \in 2 .. k + 1 /\ i - 1 \in 1 .. k)
        BY <2>1
      <4> QED
        BY <2>1, <2>2, <4>1, <4>2 DEF ToSet
    <3>2. ASSUME NEW m \in ToSet(ms_first)
          PROVE  m \in ToSet(ms_first')
      <4>1. PICK i \in 1 .. k : ms_first[i] = m
        BY <2>1 DEF ToSet
      <4>2. i + 1 \in 2 .. k + 1 /\ (i + 1) - 1 = i /\ i + 1 \in 1 .. k + 1
        BY <2>1
      <4>3. ms_first'[i + 1] = m
        BY <2>2, <4>1, <4>2
      <4> QED
        BY <2>2, <4>2, <4>3 DEF ToSet
    <3>3. l \in ToSet(ms_first')
      <4>1. 1 \in DOMAIN ms_first'
        BY <2>1, <2>2
      <4> QED
        BY <2>2, <4>1 DEF ToSet
    <3> QED
      BY <3>1, <3>2, <3>3
  <2>7. NoneTwice(ms_first')
    BY <2>5 DEF NoneTwice
  <2> QED
    BY <2>2, <2>6, <2>7
<1>13. ToSet(ms_first') = {m \in Defined : <<"tag", m>> \in ToSet(globals')}
  BY <1>3, <1>5, <1>12 DEF TagsInv
<1>14. TagsInv'
  BY <1>4, <1>8, <1>9, <1>10, <1>12, <1>13 DEF TagsInv
<1> QED
  BY <1>2, <1>14

(* The last of the globals is never the log of a tag: the tag would be     *)
(* after it.                                                               *)
LEMMA LastOfGlobals ==
  ASSUME TagsInv, globals # <<>>, globals' = O!Front(globals)
  PROVE  LET last == O!Last(globals)
         IN  /\ last \in {"log", "tag"} \X Defined
             /\ last \in ToSet(globals)
             /\ ToSet(globals') = ToSet(globals) \ {last}
             /\ last[1] = "log" => <<"tag", last[2]>> \notin ToSet(globals)
             /\ globals' \in Seq({"log", "tag"} \X Defined)
             /\ NoneTwice(globals')
             /\ \A i \in DOMAIN globals' : globals'[i][1] = "tag" => i > 1 /\ globals'[i - 1] = <<"log", globals'[i][2]>>
<1> DEFINE n == Len(globals)
           last == O!Last(globals)
<1>1. /\ globals \in Seq({"log", "tag"} \X Defined) /\ NoneTwice(globals) /\ n \in Nat /\ n > 0
      /\ DOMAIN globals = 1 .. n /\ last = globals[n]
  BY DEF TagsInv, O!Last
<1>2. globals' = SubSeq(globals, 1, n - 1)
  BY DEF O!Front
<1>3. /\ globals' \in Seq({"log", "tag"} \X Defined) /\ DOMAIN globals' = 1 .. n - 1
      /\ \A i \in 1 .. n - 1 : globals'[i] = globals[i]
  <2>1. n - 1 \in Nat /\ \A i \in 1 .. n - 1 : globals[i] \in {"log", "tag"} \X Defined
    BY <1>1
  <2>2. /\ SubSeq(globals, 1, n - 1) \in Seq({"log", "tag"} \X Defined)
        /\ Len(SubSeq(globals, 1, n - 1)) = n - 1
        /\ \A i \in 1 .. n - 1 : SubSeq(globals, 1, n - 1)[i] = globals[i]
    BY <1>1, <2>1, SubSeqProperties
  <2> QED
    BY <1>2, <2>2
<1>4. \A i, j \in 1 .. n : globals[i] = globals[j] => i = j
  BY <1>1 DEF NoneTwice
<1>5. last \in {"log", "tag"} \X Defined /\ last \in ToSet(globals)
  BY <1>1 DEF ToSet
<1> HIDE DEF last, n
<1>6. ToSet(globals') = ToSet(globals) \ {last}
  <2>1. ASSUME NEW x
        PROVE  x \in ToSet(globals') <=> x \in ToSet(globals) /\ x # last
    <3>1. ASSUME x \in ToSet(globals')
          PROVE  x \in ToSet(globals) /\ x # last
      <4>1. PICK i \in 1 .. n - 1 : globals'[i] = x
        BY <1>3, <3>1 DEF ToSet
      <4>2. i \in 1 .. n /\ n \in 1 .. n /\ i # n
        BY <1>1
      <4> QED
        BY <1>1, <1>3, <1>4, <4>1, <4>2 DEF ToSet
    <3>2. ASSUME x \in ToSet(globals), x # last
          PROVE  x \in ToSet(globals')
      <4>1. PICK i \in 1 .. n : globals[i] = x
        BY <1>1, <3>2 DEF ToSet
      <4>2. i \in 1 .. n - 1
        BY <1>1, <3>2, <4>1
      <4> QED
        BY <1>3, <4>1, <4>2 DEF ToSet
    <3> QED
      BY <3>1, <3>2
  <2> QED
    BY <2>1
<1>7. ASSUME last[1] = "log"
      PROVE  <<"tag", last[2]>> \notin ToSet(globals)
  <2> SUFFICES ASSUME <<"tag", last[2]>> \in ToSet(globals) PROVE FALSE
    OBVIOUS
  <2>1. PICK i \in 1 .. n : globals[i] = <<"tag", last[2]>>
    BY <1>1 DEF ToSet
  <2>2. globals[i][1] = "tag" /\ globals[i][2] = last[2]
    BY <2>1
  <2>3. i > 1 /\ globals[i - 1] = <<"log", last[2]>>
    BY <1>1, <2>2 DEF TagsInv
  <2>4. last = <<"log", last[2]>>
    BY <1>5, <1>7
  <2>5. i - 1 \in 1 .. n /\ n \in 1 .. n
    BY <1>1, <2>3
  <2>6. i - 1 = n
    BY <1>1, <1>4, <2>3, <2>4, <2>5
  <2> QED
    BY <1>1, <2>6
<1>8. NoneTwice(globals')
  <2>1. \A i \in 1 .. n - 1 : i \in 1 .. n
    BY <1>1
  <2> QED
    BY <1>3, <1>4, <2>1 DEF NoneTwice
<1>9. ASSUME NEW i \in DOMAIN globals', globals'[i][1] = "tag"
      PROVE  i > 1 /\ globals'[i - 1] = <<"log", globals'[i][2]>>
  <2>1. i \in 1 .. n - 1 /\ i \in 1 .. n
    BY <1>1, <1>3
  <2>2. i > 1 /\ globals[i - 1] = <<"log", globals[i][2]>>
    BY <1>1, <1>3, <1>9, <2>1 DEF TagsInv
  <2>3. i - 1 \in 1 .. n - 1
    BY <1>1, <2>1, <2>2
  <2> QED
    BY <1>3, <2>1, <2>2, <2>3
<1> QED
  BY <1>3, <1>5, <1>6, <1>7, <1>8, <1>9 DEF last

(* Taking one out of a list that has none twice.                           *)
LEMMA RemovedIs ==
  ASSUME NEW S, NEW s \in Seq(S), NoneTwice(s), NEW i \in DOMAIN s
  PROVE  /\ O!RemoveAt(s, i) \in Seq(S)
         /\ NoneTwice(O!RemoveAt(s, i))
         /\ ToSet(O!RemoveAt(s, i)) = ToSet(s) \ {s[i]}
<1> DEFINE n == Len(s)
           r == O!RemoveAt(s, i)
<1>1. n \in Nat /\ i \in 1 .. n /\ DOMAIN s = 1 .. n
  OBVIOUS
<1>2. /\ SubSeq(s, 1, i - 1) \in Seq(S) /\ Len(SubSeq(s, 1, i - 1)) = i - 1
      /\ \A j \in 1 .. i - 1 : SubSeq(s, 1, i - 1)[j] = s[j]
  <2>1. i - 1 \in Nat /\ \A j \in 1 .. i - 1 : s[j] \in S
    BY <1>1
  <2> QED
    BY <1>1, <2>1, SubSeqProperties
<1>3. /\ SubSeq(s, i + 1, n) \in Seq(S) /\ Len(SubSeq(s, i + 1, n)) = n - i
      /\ \A j \in 1 .. n - i : SubSeq(s, i + 1, n)[j] = s[i + j]
  <2>1. \A j \in i + 1 .. n : s[j] \in S
    BY <1>1
  <2>2. SubSeq(s, i + 1, n) \in Seq(S)
    BY <1>1, <2>1, SubSeqProperties
  <2>3. Len(SubSeq(s, i + 1, n)) = n - i
    BY <1>1
  <2>4. \A j \in 1 .. n - i : SubSeq(s, i + 1, n)[j] = s[i + j]
    BY <1>1
  <2> QED
    BY <2>2, <2>3, <2>4
<1>4. r = SubSeq(s, 1, i - 1) \o SubSeq(s, i + 1, n)
  BY DEF O!RemoveAt
<1> HIDE DEF r, n
<1>5. /\ r \in Seq(S) /\ DOMAIN r = 1 .. n - 1
      /\ \A j \in 1 .. n - 1 : r[j] = IF j < i THEN s[j] ELSE s[j + 1]
  <2>1. /\ r \in Seq(S) /\ Len(r) = (i - 1) + (n - i)
        /\ \A j \in 1 .. i - 1 : r[j] = SubSeq(s, 1, i - 1)[j]
        /\ \A j \in (i - 1) + 1 .. (i - 1) + (n - i) : r[j] = SubSeq(s, i + 1, n)[j - (i - 1)]
    <3>1. PICK a, b : a = SubSeq(s, 1, i - 1) /\ b = SubSeq(s, i + 1, n)
      OBVIOUS
    <3>2. a \in Seq(S) /\ b \in Seq(S) /\ Len(a) = i - 1 /\ Len(b) = n - i
      BY <1>2, <1>3, <3>1
    <3>3. /\ a \o b \in Seq(S) /\ Len(a \o b) = Len(a) + Len(b)
          /\ \A j \in 1 .. Len(a) : (a \o b)[j] = a[j]
          /\ \A j \in Len(a) + 1 .. Len(a) + Len(b) : (a \o b)[j] = b[j - Len(a)]
      <4>1. /\ a \o b \in Seq(S) /\ Len(a \o b) = Len(a) + Len(b)
            /\ \A j \in 1 .. Len(a) + Len(b) : (a \o b)[j] = IF j <= Len(a) THEN a[j] ELSE b[j - Len(a)]
        BY <3>2, ConcatProperties
      <4>2. Len(a) \in Nat /\ Len(b) \in Nat
        BY <3>2
      <4>3. ASSUME NEW j \in 1 .. Len(a)
            PROVE  j \in 1 .. Len(a) + Len(b) /\ j <= Len(a)
        BY <4>2
      <4>4. ASSUME NEW j \in Len(a) + 1 .. Len(a) + Len(b)
            PROVE  j \in 1 .. Len(a) + Len(b) /\ ~(j <= Len(a))
        BY <4>2
      <4> QED
        BY <4>1, <4>3, <4>4
    <3> QED
      BY <1>4, <3>1, <3>2, <3>3
  <2>2. (i - 1) + (n - i) = n - 1
    BY <1>1
  <2>3. ASSUME NEW j \in 1 .. n - 1
        PROVE  r[j] = IF j < i THEN s[j] ELSE s[j + 1]
    <3>1. CASE j < i
      <4>1. j \in 1 .. i - 1
        BY <1>1, <3>1
      <4> QED
        BY <1>2, <2>1, <3>1, <4>1
    <3>2. CASE ~(j < i)
      <4>1. /\ j \in (i - 1) + 1 .. (i - 1) + (n - i) /\ j - (i - 1) \in 1 .. n - i
            /\ i + (j - (i - 1)) = j + 1
        BY <1>1, <3>2
      <4>2. r[j] = SubSeq(s, i + 1, n)[j - (i - 1)]
        BY <2>1, <4>1
      <4>3. SubSeq(s, i + 1, n)[j - (i - 1)] = s[i + (j - (i - 1))]
        BY <1>3, <4>1
      <4> QED
        BY <3>2, <4>1, <4>2, <4>3
    <3> QED
      BY <3>1, <3>2
  <2> QED
    BY <2>1, <2>2, <2>3
<1>6. \A j, k \in 1 .. n : s[j] = s[k] => j = k
  BY <1>1 DEF NoneTwice
<1>7. ASSUME NEW j \in 1 .. n - 1
      PROVE  \E k \in 1 .. n : k # i /\ r[j] = s[k] /\ k = IF j < i THEN j ELSE j + 1
  <2>1. j \in 1 .. n /\ j + 1 \in 1 .. n /\ (~(j < i) => j + 1 # i) /\ (j < i => j # i)
    BY <1>1
  <2> QED
    BY <1>5, <2>1
<1>8. NoneTwice(r)
  <2>1. ASSUME NEW j \in 1 .. n - 1, NEW k \in 1 .. n - 1, r[j] = r[k]
        PROVE  j = k
    <3>1. PICK a \in 1 .. n : r[j] = s[a] /\ a = IF j < i THEN j ELSE j + 1
      BY <1>7
    <3>2. PICK b \in 1 .. n : r[k] = s[b] /\ b = IF k < i THEN k ELSE k + 1
      BY <1>7
    <3>3. a = b
      BY <1>6, <2>1, <3>1, <3>2
    <3> QED
      BY <1>1, <3>1, <3>2, <3>3
  <2> QED
    BY <1>5, <2>1 DEF NoneTwice
<1>9. ASSUME NEW x
      PROVE  x \in ToSet(r) <=> x \in ToSet(s) /\ x # s[i]
  <2>1. ASSUME x \in ToSet(r)
        PROVE  x \in ToSet(s) /\ x # s[i]
    <3>1. PICK j \in 1 .. n - 1 : r[j] = x
      BY <1>5, <2>1 DEF ToSet
    <3>2. PICK k \in 1 .. n : k # i /\ r[j] = s[k]
      BY <1>7
    <3> QED
      BY <1>1, <1>6, <3>1, <3>2 DEF ToSet
  <2>2. ASSUME x \in ToSet(s), x # s[i]
        PROVE  x \in ToSet(r)
    <3>1. PICK k \in 1 .. n : s[k] = x
      BY <1>1, <2>2 DEF ToSet
    <3>2. CASE k < i
      <4>1. k \in 1 .. n - 1 /\ r[k] = s[k]
        BY <1>1, <1>5, <3>2
      <4> QED
        BY <1>5, <3>1, <4>1 DEF ToSet
    <3>3. CASE k > i
      <4>1. k - 1 \in 1 .. n - 1 /\ ~(k - 1 < i) /\ (k - 1) + 1 = k
        BY <1>1, <3>3
      <4>2. r[k - 1] = s[k]
        BY <1>5, <4>1
      <4> QED
        BY <1>5, <3>1, <4>1, <4>2 DEF ToSet
    <3> QED
      BY <1>1, <2>2, <3>1, <3>2, <3>3
  <2> QED
    BY <2>1, <2>2
<1> QED
  BY <1>5, <1>8, <1>9 DEF r

LEMMA DestroyGlobalKeeps ==
  ASSUME LogsInv, O!DestroyGlobal
  PROVE  LogsInv'
<1> USE DEF LogsInv
<1>0. PICK last : last = O!Last(globals)
  OBVIOUS
<1>1. /\ globals # <<>> /\ logPhase' = "ending" /\ globals' = O!Front(globals)
      /\ UNCHANGED <<chars, copied, overwritten>>
  BY DEF O!DestroyGlobal
<1>2. /\ last \in {"log", "tag"} \X Defined
      /\ last \in ToSet(globals)
      /\ ToSet(globals') = ToSet(globals) \ {last}
      /\ last[1] = "log" => <<"tag", last[2]>> \notin ToSet(globals)
      /\ globals' \in Seq({"log", "tag"} \X Defined)
      /\ NoneTwice(globals')
      /\ \A i \in DOMAIN globals' : globals'[i][1] = "tag" => i > 1 /\ globals'[i - 1] = <<"log", globals'[i][2]>>
  BY <1>0, <1>1, LastOfGlobals
<1>3. PICK l \in Defined : l = last[2]
  BY <1>2
<1>4. CASE last[1] = "tag"
  <2>1. last = <<"tag", l>>
    BY <1>2, <1>3, <1>4
  <2>2. O!DestroyTag(l)
    BY <1>0, <1>3, <1>4 DEF O!DestroyGlobal
  <2>3. PICK i \in DOMAIN ms_first : ms_first[i] = l /\ ms_first' = O!RemoveAt(ms_first, i)
    BY <2>2 DEF O!DestroyTag
  <2>4. UNCHANGED <<living, m_buffer, output>>
    BY <2>2 DEF O!DestroyTag
  <2>5. ms_first' \in Seq(Defined) /\ NoneTwice(ms_first') /\ ToSet(ms_first') = ToSet(ms_first) \ {l}
    BY <2>3, RemovedIs DEF TagsInv
  <2>6. \A m : (<<"tag", m>> = last <=> m = l) /\ <<"log", m>> # last
    BY <2>1
  <2>7. ToSet(ms_first') = {m \in Defined : <<"tag", m>> \in ToSet(globals')}
    <3>1. ToSet(ms_first) = {m \in Defined : <<"tag", m>> \in ToSet(globals)}
      BY DEF TagsInv
    <3>2. \A m : <<"tag", m>> \in ToSet(globals') <=> <<"tag", m>> \in ToSet(globals) /\ m # l
      BY <1>2, <2>6
    <3> QED
      BY <2>5, <3>1, <3>2
  <2>8. \A m \in Defined : m \in living' <=> <<"log", m>> \in ToSet(globals')
    BY <1>2, <2>4, <2>6 DEF TagsInv
  <2>9. TagsInv'
    BY <1>2, <2>5, <2>7, <2>8 DEF TagsInv
  <2>10. LogsTypes' /\ BuffersInv' /\ OutInv'
    <3>1. living' \subseteq O!AllLogs /\ IsFiniteSet(living') /\ living \subseteq living'
      BY <2>4 DEF LogsTypes
    <3> QED
      BY <1>1, <2>4, <3>1, LivingKeeps
  <2> QED
    BY <2>9, <2>10
<1>5. CASE last[1] = "log"
  <2>1. last = <<"log", l>>
    BY <1>2, <1>3, <1>5
  <2>2. O!DestroyLog(l) /\ UNCHANGED ms_first
    BY <1>0, <1>3, <1>5 DEF O!DestroyGlobal
  <2>3. l \in living /\ O!Flushes(l) /\ living' = living \ {l}
    BY <2>2 DEF O!DestroyLog
  <2>4. LogsTypes' /\ OutInv'
    BY <1>1, <2>3, FlushKeeps
  <2>5. BuffersInv'
    BY <1>1, <2>3, FlushKeeps
  <2>6. \A m : (<<"log", m>> = last <=> m = l) /\ <<"tag", m>> # last
    BY <2>1
  <2>7. ToSet(ms_first') = {m \in Defined : <<"tag", m>> \in ToSet(globals')}
    BY <1>2, <2>2, <2>6 DEF TagsInv
  <2>8. \A m \in Defined : m \in living' <=> <<"log", m>> \in ToSet(globals')
    BY <1>2, <2>3, <2>6 DEF TagsInv
  <2>9. TagsInv'
    BY <1>2, <2>2, <2>7, <2>8 DEF TagsInv
  <2> QED
    BY <2>4, <2>5, <2>9
<1> QED
  BY <1>2, <1>4, <1>5

LEMMA LogsStart == O!Init => LogsInv
<1> SUFFICES ASSUME O!Init PROVE LogsInv
  OBVIOUS
<1>1. /\ logPhase = "starting" /\ globals = <<>> /\ ms_first = <<>> /\ living = {} /\ output = <<>> /\ chars = 0
      /\ m_buffer = [l \in O!AllLogs |-> <<>>]
  BY DEF O!Init
<1>2. LogsTypes
  BY <1>1, LogsAssumption, FS_EmptySet DEF LogsTypes
<1>3. BuffersInv
  BY <1>1 DEF BuffersInv, NoneTwice
<1>4. TagsInv
  BY <1>1 DEF TagsInv, NoneTwice, ToSet
<1>5. OutInv
  BY <1>1 DEF OutInv
<1> QED
  BY <1>2, <1>3, <1>4, <1>5 DEF LogsInv

LEMMA LogsStep ==
  ASSUME LogsInv, [O!Next]_O!vars
  PROVE  LogsInv'
<1> USE DEF LogsInv
<1>0. living \subseteq O!AllLogs /\ IsFiniteSet(living) /\ logPhase \in {"starting", "running", "ending"}
  BY DEF LogsTypes
<1>1. CASE UNCHANGED O!vars
  <2>1. /\ UNCHANGED <<logPhase, living, m_buffer, output, chars, copied, overwritten>>
        /\ UNCHANGED <<globals, ms_first>>
    BY <1>1 DEF O!vars
  <2> QED
    BY <1>0, <2>1, LivingKeeps, GlobalsStay
<1>2. CASE \E l \in Defined : O!Define(l)
  BY <1>2, DefineKeeps
<1>3. CASE \E l \in O!AllLogs : O!Write(l)
  BY <1>3, WriteKeeps
<1>4. ASSUME NEW l \in O!AllLogs, O!Flush(l)
      PROVE  LogsInv'
  <2>1. /\ l \in living /\ O!Flushes(l) /\ living' = living /\ logPhase' = logPhase
        /\ UNCHANGED <<chars, copied, overwritten>> /\ UNCHANGED <<globals, ms_first>>
    BY <1>4 DEF O!Flush
  <2>2. LogsTypes' /\ BuffersInv' /\ OutInv'
    BY <1>0, <2>1, FlushKeeps
  <2>3. TagsInv'
    BY <2>1, GlobalsStay
  <2> QED
    BY <2>2, <2>3
<1>5. ASSUME NEW l \in O!AllLogs, O!DestroyCopy(l)
      PROVE  LogsInv'
  <2>1. /\ l \in Copies /\ l \in living /\ O!Flushes(l) /\ living' = living \ {l} /\ logPhase' = logPhase
        /\ UNCHANGED <<chars, copied, overwritten>> /\ UNCHANGED <<globals, ms_first>>
    BY <1>5 DEF O!DestroyCopy, O!DestroyLog
  <2>2. LogsTypes' /\ BuffersInv' /\ OutInv'
    BY <1>0, <2>1, FlushKeeps
  <2>3. \A m \in Defined : m \in living' <=> m \in living
    BY <2>1, LogsAssumption
  <2>4. TagsInv'
    BY <2>1, <2>3, GlobalsStay
  <2> QED
    BY <2>2, <2>4
<1>6. ASSUME NEW c \in O!AllLogs, NEW l \in O!AllLogs, O!ConstructLike(c, l)
      PROVE  LogsInv'
  <2>1. /\ c \in Copies /\ living' = living \union {c} /\ logPhase' = logPhase
        /\ UNCHANGED <<m_buffer, output, chars, copied, overwritten>> /\ UNCHANGED <<globals, ms_first>>
    BY <1>6 DEF O!ConstructLike
  <2>2. living' \subseteq O!AllLogs /\ IsFiniteSet(living') /\ living \subseteq living'
    BY <1>0, <1>6, <2>1, FS_AddElement
  <2>3. LogsTypes' /\ BuffersInv' /\ OutInv'
    BY <1>0, <2>1, <2>2, LivingKeeps
  <2>4. \A m \in Defined : m \in living' <=> m \in living
    BY <2>1, LogsAssumption
  <2>5. TagsInv'
    BY <2>1, <2>4, GlobalsStay
  <2> QED
    BY <2>3, <2>5
<1>7. ASSUME NEW c \in O!AllLogs, NEW l \in O!AllLogs, O!CopyConstruct(c, l)
      PROVE  LogsInv'
  <2>1. /\ c \in Copies /\ c \notin living /\ l \in living /\ living' = living \union {c}
        /\ m_buffer' = [m_buffer EXCEPT ![c] = m_buffer[l]]
        /\ copied' = copied \union ToSet(m_buffer[l])
        /\ UNCHANGED <<logPhase, globals, ms_first, output, chars, overwritten>>
    BY <1>7 DEF O!CopyConstruct, O!ToSet, ToSet
  <2>2. c # l /\ m_buffer[c] = <<>> /\ ToSet(m_buffer[c]) = {}
    BY <2>1 DEF BuffersInv, ToSet
  <2>3. LogsTypes' /\ BuffersInv' /\ OutInv'
    BY <2>1, <2>2, CopyKeeps
  <2>4. \A m \in Defined : m \in living' <=> m \in living
    BY <2>1, LogsAssumption
  <2>5. TagsInv'
    BY <2>1, <2>4, GlobalsStay
  <2> QED
    BY <2>3, <2>5
<1>8. ASSUME NEW c \in O!AllLogs, NEW l \in O!AllLogs, O!CopyAssign(c, l)
      PROVE  LogsInv'
  <2>1. /\ c \in living /\ l \in living /\ c # l /\ living' = living
        /\ m_buffer' = [m_buffer EXCEPT ![c] = m_buffer[l]]
        /\ copied' = copied \union ToSet(m_buffer[l])
        /\ overwritten' = overwritten \union ToSet(m_buffer[c])
        /\ UNCHANGED <<logPhase, globals, ms_first, output, chars>>
    BY <1>8 DEF O!CopyAssign, O!ToSet, ToSet
  <2>2. living' = living \union {c}
    BY <2>1
  <2>3. LogsTypes' /\ BuffersInv' /\ OutInv'
    BY <2>1, <2>2, CopyKeeps
  <2>4. TagsInv'
    BY <2>1, GlobalsStay
  <2> QED
    BY <2>3, <2>4
<1>9. CASE O!Main
  <2>1. /\ logPhase' = "running" /\ UNCHANGED <<living, m_buffer, output, chars, copied, overwritten>>
        /\ UNCHANGED <<globals, ms_first>>
    BY <1>9 DEF O!Main
  <2>2. TagsInv'
    BY <2>1, GlobalsStay
  <2> QED
    BY <1>0, <2>1, <2>2, LivingKeeps
<1> QED
  BY <1>1, <1>2, <1>3, <1>4, <1>5, <1>6, <1>7, <1>8, <1>9, DestroyGlobalKeeps DEF O!Next

(* The list of tags has the logs that exist, and each character that is    *)
(* written comes out once, unless its log is copied meanwhile, whatever is *)
(* defined, in whatever order the files are initialised (log.h:102).       *)
THEOREM LogsAlwaysSound == O!Spec => []LogsSound
<1>1. O!Init => LogsInv
  BY LogsStart
<1>2. LogsInv /\ [O!Next]_O!vars => LogsInv'
  BY LogsStep
<1>3. LogsInv => LogsSound
  <2> SUFFICES ASSUME LogsInv PROVE O!LogsSound
    BY DEF LogsSound
  <2> USE DEF LogsInv
  <2>1. O!TypeOK
    <3>1. 1 .. chars \subseteq 1 .. MaxChars
      BY LogsAssumption DEF LogsTypes
    <3>2. Seq(1 .. chars) \subseteq Seq(1 .. MaxChars)
      BY <3>1, SeqMonotonic
    <3>3. m_buffer \in [O!AllLogs -> Seq(1 .. MaxChars)]
      BY <3>2 DEF LogsTypes
    <3> QED
      BY <3>3 DEF O!TypeOK, LogsTypes, BuffersInv
  <2>2. O!TagsHaveLogs
    <3>1. O!IsInjective(ms_first)
      BY DEF O!IsInjective, TagsInv, NoneTwice
    <3>2. O!ToSet(ms_first) = {l \in Defined : O!HasTag(l)}
      BY DEF O!ToSet, O!HasTag, ToSet, TagsInv
    <3>3. ASSUME NEW l \in O!ToSet(ms_first)
          PROVE  l \in living
      <4>1. l \in Defined /\ <<"tag", l>> \in ToSet(globals)
        BY DEF O!ToSet, ToSet, TagsInv
      <4>2. PICK i \in DOMAIN globals : globals[i] = <<"tag", l>>
        BY <4>1 DEF ToSet
      <4>3. i > 1 /\ globals[i - 1] = <<"log", l>>
        <5>1. globals[i][1] = "tag" /\ globals[i][2] = l
          BY <4>2
        <5> QED
          BY <5>1 DEF TagsInv
      <4>4. i - 1 \in DOMAIN globals
        BY <4>3 DEF TagsInv
      <4> QED
        BY <4>1, <4>3, <4>4 DEF TagsInv, ToSet
    <3> QED
      BY <3>1, <3>2, <3>3 DEF O!TagsHaveLogs
  <2>3. ASSUME NEW ch
        PROVE  O!Times(ch) = Comes(ch)
    <3>1. \A S : O!Cardinality(S) = Cardinality(S)
      BY DEF O!Cardinality, Cardinality
    <3>2. O!TimesIn(output, ch) = Cardinality(PlacesIn(output, ch))
      BY <3>1 DEF O!TimesIn, PlacesIn
    <3>3. O!Cardinality({l \in O!AllLogs : ch \in O!ToSet(m_buffer[l])}) = Cardinality(HaveIt(ch))
      BY <3>1 DEF HaveIt, O!ToSet, ToSet
    <3> QED
      BY <3>2, <3>3 DEF O!Times, Comes
  <2>4. O!EachComesOut
    BY <2>3 DEF O!EachComesOut, OutInv
  <2> QED
    BY <2>1, <2>2, <2>4 DEF O!LogsSound
<1> QED
  BY <1>1, <1>2, <1>3, PTL DEF O!Spec

-----------------------------------------------------------------------------
(***************************************************************************)
(* LogIndenter.                                                            *)
(***************************************************************************)
(* The pushes of a log that were not popped: those that have a place in    *)
(* the stack saved the indent from before them there, those that have none *)
(* did not change it.                                                      *)
StackOK(l) ==
  /\ Len(before[l]) = stack_depth[l]
  /\ \E S : before[l] \in Seq(S)
  /\ \A k \in 1..stack_depth[l] :
       before[l][k] = IF k <= MAX_INDENT_STACK_DEPTH THEN indent_stack[l][k] ELSE indent[l]

StacksInv ==
  /\ indent = [l \in Logs |-> indent[l]]
  /\ stack_depth \in [Logs -> Nat]
  /\ before = [l \in Logs |-> before[l]]
  /\ indent_stack = [l \in Logs |-> [k \in 1..MAX_INDENT_STACK_DEPTH |-> indent_stack[l][k]]]
  /\ \A l \in Logs : StackOK(l)

IndentersInv ==
  /\ L!IndentersOK
  /\ IsFiniteSet(made)
  /\ L!OnePushEach
  /\ StacksInv

stacks == <<indent, indent_stack, stack_depth, before>>

LEMMA StacksStay == StacksInv /\ UNCHANGED stacks => StacksInv'
BY DEF StacksInv, StackOK, stacks

LEMMA WriteLeavesStacks == \A l \in Logs : L!Write(l) => UNCHANGED stacks
BY DEF stacks, L!Write, L!c, L!EnsureBOL, L!ZeroColumn, L!RawChar, L!Lock, L!PrintChar, L!Flushed, L!Flush,
   L!indenting

LEMMA IndentersInitially == L!InitIndenters => IndentersInv
<1> SUFFICES ASSUME L!InitIndenters PROVE IndentersInv
  OBVIOUS
<1>1. /\ m_log = [i \in Indenters |-> None] /\ made = {} /\ gone = {}
      /\ indent = [l \in Logs |-> 0] /\ stack_depth = [l \in Logs |-> 0]
      /\ indent_stack = [l \in Logs |-> [k \in 1..MAX_INDENT_STACK_DEPTH |-> 0]]
      /\ before = [l \in Logs |-> <<>>]
  BY DEF L!InitIndenters, L!Init
<1>2. L!IndentersOK
  BY <1>1 DEF L!IndentersOK, L!Live
<1>3. IsFiniteSet(made)
  BY <1>1, FS_EmptySet
<1>4. L!OnePushEach
  <2> SUFFICES ASSUME NEW l \in Logs PROVE L!Cardinality(L!Indenting(l)) <= stack_depth[l]
    BY DEF L!OnePushEach
  <2>1. L!Indenting(l) = {}
    BY <1>1 DEF L!Indenting, L!Live
  <2>2. L!Cardinality({}) = 0
    BY FS_EmptySet DEF L!Cardinality, Cardinality
  <2>3. QED
    BY <1>1, <2>1, <2>2
<1>5. StacksInv
  <2>1. \A l \in Logs : StackOK(l)
    <3> SUFFICES ASSUME NEW l \in Logs PROVE StackOK(l)
      OBVIOUS
    <3>1. before[l] = <<>> /\ stack_depth[l] = 0 /\ 1..0 = {}
      BY <1>1
    <3>2. <<>> \in Seq({}) /\ Len(<<>>) = 0
      OBVIOUS
    <3>3. QED
      BY <3>1, <3>2 DEF StackOK
  <2>2. QED
    BY <1>1, <2>1 DEF StacksInv
<1>6. QED
  BY <1>2, <1>3, <1>4, <1>5 DEF IndentersInv

-----------------------------------------------------------------------------
LEMMA PushKeeps ==
  ASSUME StacksInv, NEW l \in Logs, NEW new, L!PushIndentInternal(l, new)
  PROVE  StacksInv' /\ stack_depth' = [stack_depth EXCEPT ![l] = @ + 1]
<1> DEFINE n == stack_depth[l]
           fits == n < MAX_INDENT_STACK_DEPTH
<1>1. /\ fits => /\ indent_stack' = [indent_stack EXCEPT ![l][n + 1] = indent[l]]
                 /\ indent' = [indent EXCEPT ![l] = new]
      /\ ~fits => UNCHANGED <<indent_stack, indent>>
      /\ stack_depth' = [stack_depth EXCEPT ![l] = @ + 1]
      /\ before' = [before EXCEPT ![l] = Append(@, indent[l])]
  BY DEF L!PushIndentInternal
<1>2. n \in Nat /\ MAX_INDENT_STACK_DEPTH \in Nat
  BY IndentersAssumption DEF StacksInv
<1>3. /\ stack_depth' \in [Logs -> Nat] /\ stack_depth'[l] = n + 1
      /\ \A k \in Logs : k # l => stack_depth'[k] = stack_depth[k]
  BY <1>1, <1>2 DEF StacksInv
<1>4. /\ before' = [k \in Logs |-> before'[k]] /\ before'[l] = Append(before[l], indent[l])
      /\ \A k \in Logs : k # l => before'[k] = before[k]
  BY <1>1 DEF StacksInv
<1>5. indent' = [k \in Logs |-> indent'[k]] /\ (\A k \in Logs : k # l => indent'[k] = indent[k])
  BY <1>1 DEF StacksInv
<1>6. /\ indent_stack' = [k \in Logs |-> [j \in 1..MAX_INDENT_STACK_DEPTH |-> indent_stack'[k][j]]]
      /\ \A k \in Logs : k # l => indent_stack'[k] = indent_stack[k]
      /\ \A j \in 1..MAX_INDENT_STACK_DEPTH :
           indent_stack'[l][j] = IF fits /\ j = n + 1 THEN indent[l] ELSE indent_stack[l][j]
  <2>1. CASE fits
    <3> DEFINE stack == [indent_stack[l] EXCEPT ![n + 1] = indent[l]]
    <3>1. indent_stack' = [indent_stack EXCEPT ![l] = stack]
      BY <1>1, <2>1
    <3>2. indent_stack[l] = [j \in 1..MAX_INDENT_STACK_DEPTH |-> indent_stack[l][j]]
      BY DEF StacksInv
    <3>3. /\ stack = [j \in 1..MAX_INDENT_STACK_DEPTH |-> stack[j]]
          /\ \A j \in 1..MAX_INDENT_STACK_DEPTH : stack[j] = IF j = n + 1 THEN indent[l] ELSE indent_stack[l][j]
      BY <3>2
    <3> HIDE DEF stack
    <3>4. /\ DOMAIN indent_stack' = Logs /\ indent_stack'[l] = stack
          /\ \A k \in Logs : k # l => indent_stack'[k] = indent_stack[k]
      BY <3>1 DEF StacksInv
    <3>5. \A k \in Logs : indent_stack'[k] = [j \in 1..MAX_INDENT_STACK_DEPTH |-> indent_stack'[k][j]]
      BY <3>3, <3>4 DEF StacksInv
    <3>6. indent_stack' = [k \in Logs |-> indent_stack'[k]]
      BY <3>1 DEF StacksInv
    <3>7. QED
      BY <2>1, <3>3, <3>4, <3>5, <3>6
  <2>2. CASE ~fits
    BY <1>1, <2>2 DEF StacksInv
  <2>3. QED
    BY <2>1, <2>2
<1>7. StackOK(l)'
  <2>1. PICK S : before[l] \in Seq(S)
    BY DEF StacksInv, StackOK
  <2>2. PICK x : x = indent[l]
    OBVIOUS
  <2>3. before[l] \in Seq(S \union {x}) /\ x \in S \union {x}
    BY <2>1
  <2>4. /\ before'[l] \in Seq(S \union {x})
        /\ Len(before'[l]) = n + 1
        /\ before'[l][n + 1] = x
        /\ \A k \in 1..n : before'[l][k] = before[l][k]
    <3>1. Len(before[l]) = n
      BY DEF StacksInv, StackOK
    <3>2. QED
      BY <1>2, <1>4, <2>2, <2>3, <3>1, AppendProperties
  <2>5. ASSUME NEW k \in 1..(n + 1)
        PROVE  before'[l][k] = IF k <= MAX_INDENT_STACK_DEPTH THEN indent_stack'[l][k] ELSE indent'[l]
    <3>1. CASE k = n + 1 /\ fits
      BY <1>2, <1>6, <2>2, <2>4, <3>1
    <3>2. CASE k = n + 1 /\ ~fits
      BY <1>1, <1>2, <2>2, <2>4, <3>2
    <3>3. CASE k # n + 1
      <4>1. k \in 1..n
        BY <1>2, <3>3
      <4>2. before'[l][k] = IF k <= MAX_INDENT_STACK_DEPTH THEN indent_stack[l][k] ELSE indent[l]
        BY <2>4, <4>1 DEF StacksInv, StackOK
      <4>3. CASE k <= MAX_INDENT_STACK_DEPTH
        BY <1>2, <1>6, <4>1, <4>2, <4>3, <3>3
      <4>4. CASE ~(k <= MAX_INDENT_STACK_DEPTH)
        <5>1. ~fits
          BY <1>2, <4>1, <4>4
        <5>2. QED
          BY <1>1, <4>2, <4>4, <5>1
      <4>5. QED
        BY <4>3, <4>4
    <3>4. QED
      BY <3>1, <3>2, <3>3
  <2>6. QED
    BY <1>3, <2>4, <2>5 DEF StackOK
<1>8. ASSUME NEW k \in Logs, k # l PROVE StackOK(k)'
  BY <1>3, <1>4, <1>5, <1>6, <1>8 DEF StacksInv, StackOK
<1>9. StacksInv'
  BY <1>3, <1>4, <1>5, <1>6, <1>7, <1>8 DEF StacksInv
<1>10. QED
  BY <1>1, <1>9

LEMMA PopKeeps ==
  ASSUME StacksInv, NEW l \in Logs, L!PopIndent(l)
  PROVE  /\ StacksInv'
         /\ stack_depth[l] > 0 /\ stack_depth' = [stack_depth EXCEPT ![l] = @ - 1]
         /\ indent'[l] = L!Last(before[l])
<1> DEFINE n == stack_depth[l]
<1>1. /\ n > 0 /\ stack_depth' = [stack_depth EXCEPT ![l] = @ - 1]
      /\ indent' = IF n <= MAX_INDENT_STACK_DEPTH THEN [indent EXCEPT ![l] = indent_stack[l][n]] ELSE indent
      /\ before' = [before EXCEPT ![l] = IF @ = <<>> THEN @ ELSE L!Front(@)]
      /\ UNCHANGED indent_stack
  BY DEF L!PopIndent
<1>2. n \in Nat /\ MAX_INDENT_STACK_DEPTH \in Nat /\ n \in 1..n /\ n - 1 \in Nat
  BY <1>1, IndentersAssumption DEF StacksInv
<1>3. PICK S : before[l] \in Seq(S)
  BY DEF StacksInv, StackOK
<1>4. Len(before[l]) = n
  BY DEF StacksInv, StackOK
<1>5. /\ stack_depth' \in [Logs -> Nat] /\ stack_depth'[l] = n - 1
      /\ \A k \in Logs : k # l => stack_depth'[k] = stack_depth[k]
  BY <1>1, <1>2 DEF StacksInv
<1>6. /\ before' = [k \in Logs |-> before'[k]] /\ before'[l] = SubSeq(before[l], 1, n - 1)
      /\ \A k \in Logs : k # l => before'[k] = before[k]
  <2>1. before[l] # <<>>
    BY <1>1, <1>2, <1>4
  <2>2. L!Front(before[l]) = SubSeq(before[l], 1, n - 1)
    BY <1>4 DEF L!Front
  <2>3. QED
    BY <1>1, <2>1, <2>2 DEF StacksInv
<1>7. indent' = [k \in Logs |-> indent'[k]] /\ (\A k \in Logs : k # l => indent'[k] = indent[k])
  BY <1>1 DEF StacksInv
<1>8. indent'[l] = before[l][n]
  <2>1. before[l][n] = IF n <= MAX_INDENT_STACK_DEPTH THEN indent_stack[l][n] ELSE indent[l]
    BY <1>2 DEF StacksInv, StackOK
  <2>2. QED
    BY <1>1, <2>1 DEF StacksInv
<1>9. /\ before'[l] \in Seq(S) /\ Len(before'[l]) = n - 1
      /\ \A k \in 1..(n - 1) : before'[l][k] = before[l][k]
  <2>1. 1 \in 1..(n + 1) /\ n - 1 \in 0..n
    BY <1>2
  <2>2. QED
    BY <1>2, <1>3, <1>4, <1>6, <2>1, SubSeqProperties
<1>10. StackOK(l)'
  <2>1. ASSUME NEW k \in 1..(n - 1)
        PROVE  before'[l][k] = IF k <= MAX_INDENT_STACK_DEPTH THEN indent_stack'[l][k] ELSE indent'[l]
    <3>1. k \in 1..n
      BY <1>2
    <3>2. before'[l][k] = IF k <= MAX_INDENT_STACK_DEPTH THEN indent_stack[l][k] ELSE indent[l]
      BY <1>9, <3>1 DEF StacksInv, StackOK
    <3>3. k > MAX_INDENT_STACK_DEPTH => ~(n <= MAX_INDENT_STACK_DEPTH)
      BY <1>2
    <3>4. QED
      BY <1>1, <1>2, <3>2, <3>3
  <2>2. QED
    BY <1>5, <1>9, <2>1 DEF StackOK
<1>11. ASSUME NEW k \in Logs, k # l PROVE StackOK(k)'
  BY <1>1, <1>5, <1>6, <1>7, <1>11 DEF StacksInv, StackOK
<1>12. StacksInv'
  BY <1>1, <1>5, <1>6, <1>7, <1>10, <1>11 DEF StacksInv
<1>13. indent'[l] = L!Last(before[l])
  BY <1>4, <1>8 DEF L!Last
<1>14. QED
  BY <1>1, <1>12, <1>13

-----------------------------------------------------------------------------
(* The indenters of a log are some of those that were made.                *)
Indented(l) == Cardinality(L!Indenting(l))

LEMMA IndentingFinite ==
  ASSUME IsFiniteSet(made), NEW l
  PROVE  IsFiniteSet(L!Indenting(l)) /\ Indented(l) \in Nat
<1>1. L!Indenting(l) \subseteq made
  BY DEF L!Indenting, L!Live
<1>2. IsFiniteSet(L!Indenting(l))
  BY <1>1, FS_Subset
<1>3. QED
  BY <1>2, FS_CardinalityType DEF Indented

LEMMA SameCardinality == \A S : L!Cardinality(S) = Cardinality(S)
BY DEF L!Cardinality, Cardinality

LEMMA OnePushIs == L!OnePushEach <=> \A l \in Logs : Indented(l) <= stack_depth[l]
BY SameCardinality DEF L!OnePushEach, Indented

LEMMA SameSize ==
  ASSUME NEW A, IsFiniteSet(A), NEW i, NEW from \in A, i \notin A
  PROVE  Cardinality((A \ {from}) \union {i}) = Cardinality(A)
<1> DEFINE B == A \ {from}
<1>1. IsFiniteSet(B) /\ Cardinality(A) \in Nat /\ Cardinality(B) \in Nat
  BY FS_RemoveElement, FS_CardinalityType
<1>2. Cardinality(B) = IF from \in A THEN Cardinality(A) - 1 ELSE Cardinality(A)
  BY FS_RemoveElement
<1>3. i \notin B
  OBVIOUS
<1> HIDE DEF B
<1>4. Cardinality(B \union {i}) = IF i \in B THEN Cardinality(B) ELSE Cardinality(B) + 1
  BY <1>1, FS_AddElement
<1>5. QED
  BY <1>1, <1>2, <1>3, <1>4 DEF B

(* Whatever does not touch the indents, and gives a log no indenter more.  *)
LEMMA NoneMore ==
  ASSUME IndentersInv, L!IndentersOK', IsFiniteSet(made'), UNCHANGED stacks,
         \A l \in Logs : Cardinality(L!Indenting(l)') <= Indented(l)
  PROVE  IndentersInv'
<1>1. StacksInv'
  BY StacksStay DEF IndentersInv
<1>2. ASSUME NEW l \in Logs PROVE Indented(l)' <= stack_depth'[l]
  <2>1. PICK a \in Nat, b \in Nat, s \in Nat :
          a = Indented(l)' /\ b = Indented(l) /\ s = stack_depth[l] /\ a <= b /\ b <= s
    <3>1. Indented(l)' \in Nat /\ Indented(l) \in Nat
      <4>1. IsFiniteSet(L!Indenting(l)')
        <5>1. L!Indenting(l)' \subseteq made'
          BY DEF L!Indenting, L!Live
        <5>2. QED
          BY <5>1, FS_Subset
      <4>2. Cardinality(L!Indenting(l)') \in Nat
        BY <4>1, FS_CardinalityType
      <4>3. QED
        BY <4>2, IndentingFinite DEF IndentersInv, Indented
    <3>2. stack_depth[l] \in Nat /\ Indented(l) <= stack_depth[l]
      BY OnePushIs DEF IndentersInv, StacksInv
    <3>3. Indented(l)' <= Indented(l)
      BY DEF Indented
    <3>4. QED
      BY <3>1, <3>2, <3>3
  <2>2. QED
    BY <2>1 DEF stacks
<1>3. L!OnePushEach'
  BY <1>2, SameCardinality DEF L!OnePushEach, Indented
<1>4. QED
  BY <1>1, <1>3 DEF IndentersInv

LEMMA NothingIndents ==
  ASSUME IndentersInv, UNCHANGED stacks, UNCHANGED <<m_log, made, gone>>
  PROVE  IndentersInv'
<1>1. L!IndentersOK' /\ IsFiniteSet(made')
  BY DEF IndentersInv, L!IndentersOK, L!Live
<1>2. \A l \in Logs : L!Indenting(l)' = L!Indenting(l)
  BY DEF L!Indenting, L!Live
<1>3. \A l \in Logs : Indented(l) \in Nat
  BY IndentingFinite DEF IndentersInv
<1>4. \A l \in Logs : Cardinality(L!Indenting(l)') <= Indented(l)
  BY <1>2, <1>3 DEF Indented
<1>5. QED
  BY <1>1, <1>4, NoneMore

LEMMA OfNothingKeeps ==
  ASSUME IndentersInv, NEW i \in Indenters, L!LogIndenterOfNothing(i)
  PROVE  IndentersInv' /\ UNCHANGED stacks
<1>1. i \notin made /\ made' = made \union {i} /\ UNCHANGED <<m_log, gone>> /\ UNCHANGED stacks
  BY DEF L!LogIndenterOfNothing, L!vars, L!indenting, stacks
<1>2. m_log[i] = None /\ i \notin gone
  BY <1>1 DEF IndentersInv, L!IndentersOK, L!Live
<1>3. L!IndentersOK'
  BY <1>1, <1>2 DEF IndentersInv, L!IndentersOK, L!Live
<1>4. IsFiniteSet(made')
  BY <1>1, FS_AddElement DEF IndentersInv
<1>5. \A l \in Logs : L!Indenting(l)' = L!Indenting(l)
  BY <1>1, <1>2, IndentersAssumption DEF L!Indenting, L!Live
<1>6. \A l \in Logs : Indented(l) \in Nat
  BY IndentingFinite DEF IndentersInv
<1>7. \A l \in Logs : Cardinality(L!Indenting(l)') <= Indented(l)
  BY <1>5, <1>6 DEF Indented
<1>8. QED
  BY <1>1, <1>3, <1>4, <1>7, NoneMore

LEMMA LogIndenterKeeps ==
  ASSUME IndentersInv, NEW i \in Indenters, NEW l \in Logs, L!LogIndenter(i, l)
  PROVE  IndentersInv' /\ \A k \in Logs : stack_depth'[k] >= stack_depth[k]
<1>1. /\ i \notin made /\ made' = made \union {i} /\ UNCHANGED gone
      /\ m_log' = [m_log EXCEPT ![i] = l]
      /\ L!PushIndentInternal(l, column[l])
  BY DEF L!LogIndenter
<1>2. /\ StacksInv' /\ stack_depth' = [stack_depth EXCEPT ![l] = @ + 1]
      /\ stack_depth \in [Logs -> Nat]
  BY <1>1, PushKeeps DEF IndentersInv, StacksInv
<1>3. L!IndentersOK' /\ i \notin gone /\ m_log \in [Indenters -> Logs \union {None}]
  BY <1>1 DEF IndentersInv, L!IndentersOK, L!Live
<1>4. IsFiniteSet(made')
  BY <1>1, FS_AddElement DEF IndentersInv
<1>5. ASSUME NEW k \in Logs PROVE Indented(k)' <= stack_depth'[k]
  <2>1. PICK a \in Nat, s \in Nat : a = Indented(k) /\ s = stack_depth[k] /\ a <= s
    <3>1. Indented(k) \in Nat
      BY IndentingFinite DEF IndentersInv
    <3>2. stack_depth[k] \in Nat /\ Indented(k) <= stack_depth[k]
      BY OnePushIs DEF IndentersInv, StacksInv
    <3>3. QED
      BY <3>1, <3>2
  <2>2. CASE k = l
    <3>1. L!Indenting(k)' = L!Indenting(k) \union {i} /\ i \notin L!Indenting(k)
      BY <1>1, <1>3, <2>2 DEF L!Indenting, L!Live
    <3>2. PICK A : A = L!Indenting(k)
      OBVIOUS
    <3>3. IsFiniteSet(A)
      BY <3>2, IndentingFinite DEF IndentersInv
    <3>4. Cardinality(A \union {i}) = IF i \in A THEN Cardinality(A) ELSE Cardinality(A) + 1
      BY <3>3, FS_AddElement
    <3>5. Indented(k)' = a + 1
      BY <2>1, <3>1, <3>2, <3>4 DEF Indented
    <3>6. stack_depth'[k] = s + 1
      BY <1>2, <2>1, <2>2
    <3>7. QED
      BY <2>1, <3>5, <3>6
  <2>3. CASE k # l
    <3>1. L!Indenting(k)' = L!Indenting(k)
      <4>1. i \notin L!Live
        BY <1>1 DEF L!Live
      <4>2. QED
        BY <1>1, <1>3, <2>3, <4>1 DEF L!Indenting, L!Live
    <3>2. stack_depth'[k] = s
      BY <1>2, <2>1, <2>3
    <3>3. QED
      BY <2>1, <3>1, <3>2 DEF Indented
  <2>4. QED
    BY <2>2, <2>3
<1>6. L!OnePushEach'
  BY <1>5, SameCardinality DEF L!OnePushEach, Indented
<1>7. \A k \in Logs : stack_depth'[k] >= stack_depth[k]
  BY <1>2
<1>8. QED
  BY <1>2, <1>3, <1>4, <1>6, <1>7 DEF IndentersInv

(* The move: the one that is new, or that forgets its own log, takes over. *)
LEMMA MoveKeeps ==
  ASSUME IndentersInv, NEW i \in Indenters, NEW from \in Indenters, L!MoveConstruct(i, from) \/ L!MoveAssign(i, from)
  PROVE  IndentersInv' /\ UNCHANGED stacks
<1>1. /\ from \in L!Live /\ i # from /\ made' = made \union {i} /\ UNCHANGED gone /\ i \notin gone
      /\ m_log' = [m_log EXCEPT ![i] = m_log[from], ![from] = None]
      /\ UNCHANGED stacks
  BY DEF L!MoveConstruct, L!MoveAssign, L!Live, L!vars, L!indenting, stacks, IndentersInv, L!IndentersOK
<1>2. /\ m_log \in [Indenters -> Logs \union {None}] /\ gone \subseteq made /\ made \subseteq Indenters
      /\ \A k \in Indenters \ L!Live : m_log[k] = None
  BY DEF IndentersInv, L!IndentersOK
<1>3. \A k \in Indenters : m_log'[k] = IF k = from THEN None ELSE IF k = i THEN m_log[from] ELSE m_log[k]
  BY <1>1, <1>2
<1>4. L!IndentersOK'
  <2>1. m_log' \in [Indenters -> Logs \union {None}]
    BY <1>1, <1>2
  <2>2. gone' \subseteq made' /\ made' \subseteq Indenters
    BY <1>1, <1>2
  <2>3. \A k \in Indenters \ (made' \ gone') : m_log'[k] = None
    BY <1>1, <1>2, <1>3 DEF L!Live
  <2>4. QED
    BY <2>1, <2>2, <2>3 DEF L!IndentersOK, L!Live
<1>5. IsFiniteSet(made')
  BY <1>1, FS_AddElement DEF IndentersInv
<1>6. ASSUME NEW l \in Logs PROVE Cardinality(L!Indenting(l)') <= Indented(l)
  <2>1. PICK A : A = L!Indenting(l)
    OBVIOUS
  <2>2. IsFiniteSet(A) /\ Cardinality(A) = Indented(l) /\ Indented(l) \in Nat
    BY <2>1, IndentingFinite DEF IndentersInv, Indented
  <2>3. \A k : k \in A <=> k \in made /\ k \notin gone /\ m_log[k] = l
    BY <2>1 DEF L!Indenting, L!Live
  <2>4. \A k : k \in L!Indenting(l)' <=> k \in made \union {i} /\ k \notin gone /\ m_log'[k] = l
    BY <1>1 DEF L!Indenting, L!Live
  <2>5. l # None /\ from \in made /\ from \notin gone
    BY <1>1, IndentersAssumption DEF L!Live
  <2>6. CASE m_log[from] = l /\ i \notin A
    <3>1. from \in A
      BY <2>3, <2>5, <2>6
    <3>2. L!Indenting(l)' = (A \ {from}) \union {i}
      BY <1>1, <1>2, <1>3, <2>3, <2>4, <2>5, <2>6
    <3>3. QED
      BY <2>2, <2>6, <3>1, <3>2, SameSize
  <2>7. CASE m_log[from] # l \/ i \in A
    <3>1. L!Indenting(l)' \subseteq A
      BY <1>1, <1>2, <1>3, <2>3, <2>4, <2>5, <2>7
    <3>2. Cardinality(L!Indenting(l)') <= Cardinality(A)
      BY <2>2, <3>1, FS_Subset
    <3>3. QED
      BY <2>2, <3>2
  <2>8. QED
    BY <2>6, <2>7
<1>7. QED
  BY <1>1, <1>4, <1>5, <1>6, NoneMore

(* PopIndent, called early and by the destructor.                          *)
LEMMA PopStepKeeps ==
  ASSUME IndentersInv, NEW i \in Indenters, i \in L!Live, L!Pop(i), UNCHANGED made,
         gone' = gone \/ gone' = gone \union {i}
  PROVE  /\ IndentersInv'
         /\ \A l \in Logs : stack_depth'[l] < stack_depth[l] => indent'[l] = L!Last(before[l])
<1>0. /\ m_log \in [Indenters -> Logs \union {None}] /\ gone \subseteq made /\ made \subseteq Indenters
      /\ \A k \in Indenters \ L!Live : m_log[k] = None
      /\ stack_depth \in [Logs -> Nat] /\ i \in made /\ i \notin gone
  BY DEF IndentersInv, L!IndentersOK, StacksInv, L!Live
<1>1. CASE m_log[i] = None
  <2>1. UNCHANGED stacks /\ UNCHANGED m_log
    BY <1>1 DEF L!Pop, L!vars, L!indenting, stacks
  <2>2. L!IndentersOK' /\ IsFiniteSet(made')
    BY <1>0, <1>1, <2>1 DEF IndentersInv, L!IndentersOK, L!Live
  <2>3. \A l \in Logs : L!Indenting(l)' = L!Indenting(l)
    BY <1>0, <1>1, <2>1, IndentersAssumption DEF L!Indenting, L!Live
  <2>4. \A l \in Logs : Cardinality(L!Indenting(l)') <= Indented(l)
    <3>1. \A l \in Logs : Indented(l) \in Nat
      BY IndentingFinite DEF IndentersInv
    <3>2. QED
      BY <2>3, <3>1 DEF Indented
  <2>5. \A l \in Logs : ~(stack_depth'[l] < stack_depth[l])
    BY <1>0, <2>1 DEF stacks
  <2>6. QED
    BY <2>1, <2>2, <2>4, <2>5, NoneMore
<1>2. CASE m_log[i] # None
  <2>1. PICK l \in Logs : l = m_log[i]
    BY <1>0, <1>2
  <2>2. L!PopIndent(l) /\ m_log' = [m_log EXCEPT ![i] = None]
    BY <1>2, <2>1 DEF L!Pop
  <2>3. /\ StacksInv' /\ stack_depth[l] > 0 /\ stack_depth' = [stack_depth EXCEPT ![l] = @ - 1]
        /\ indent'[l] = L!Last(before[l])
    BY <2>2, PopKeeps DEF IndentersInv
  <2>4. /\ m_log' \in [Indenters -> Logs \union {None}]
        /\ \A k \in Indenters : m_log'[k] = IF k = i THEN None ELSE m_log[k]
    BY <1>0, <2>2
  <2>5. L!IndentersOK' /\ IsFiniteSet(made')
    BY <1>0, <2>4 DEF IndentersInv, L!IndentersOK, L!Live
  <2>6. ASSUME NEW k \in Logs PROVE Indented(k)' <= stack_depth'[k]
    <3>1. PICK A : A = L!Indenting(k)
      OBVIOUS
    <3>2. IsFiniteSet(A) /\ Cardinality(A) = Indented(k) /\ Indented(k) \in Nat
      BY <3>1, IndentingFinite DEF IndentersInv, Indented
    <3>3. PICK a \in Nat, s \in Nat : a = Indented(k) /\ s = stack_depth[k] /\ a <= s
      <4>1. stack_depth[k] \in Nat /\ Indented(k) <= stack_depth[k]
        BY OnePushIs DEF IndentersInv, StacksInv
      <4>2. QED
        BY <3>2, <4>1
    <3>4. \A j : j \in A <=> j \in made /\ j \notin gone /\ m_log[j] = k
      BY <3>1 DEF L!Indenting, L!Live
    <3>5. \A j : j \in L!Indenting(k)' <=> j \in made /\ j \notin gone' /\ m_log'[j] = k
      BY DEF L!Indenting, L!Live
    <3>6. k # None
      BY IndentersAssumption
    <3>7. CASE k = l
      <4>1. i \in A
        BY <1>0, <2>1, <3>4, <3>7
      <4>2. L!Indenting(k)' = A \ {i}
        BY <1>0, <2>4, <3>4, <3>5, <3>6
      <4>3. Cardinality(A \ {i}) = IF i \in A THEN Cardinality(A) - 1 ELSE Cardinality(A)
        BY <3>2, FS_RemoveElement
      <4>4. Indented(k)' = a - 1
        BY <3>2, <3>3, <4>1, <4>2, <4>3 DEF Indented
      <4>5. stack_depth'[k] = s - 1
        BY <1>0, <2>3, <3>3, <3>7
      <4>6. QED
        BY <3>3, <4>4, <4>5
    <3>8. CASE k # l
      <4>1. L!Indenting(k)' = A
        BY <1>0, <2>1, <2>4, <3>4, <3>5, <3>6, <3>8
      <4>2. Indented(k)' = a
        BY <3>2, <3>3, <4>1 DEF Indented
      <4>3. stack_depth'[k] = s
        BY <1>0, <2>3, <3>3, <3>8
      <4>4. QED
        BY <3>3, <4>2, <4>3
    <3>9. QED
      BY <3>7, <3>8
  <2>7. L!OnePushEach'
    BY <2>6, SameCardinality DEF L!OnePushEach, Indented
  <2>8. \A k \in Logs : stack_depth'[k] < stack_depth[k] => indent'[k] = L!Last(before[k])
    BY <1>0, <2>3
  <2>9. QED
    BY <2>3, <2>5, <2>7, <2>8 DEF IndentersInv
<1>3. QED
  BY <1>1, <1>2

-----------------------------------------------------------------------------
Paired == \A l \in Logs : stack_depth'[l] < stack_depth[l] => indent'[l] = L!Last(before[l])

LEMMA StayPaired == StacksInv /\ UNCHANGED stacks => Paired
BY DEF StacksInv, stacks, Paired

LEMMA IndentersInduction ==
  ASSUME IndentersInv, [L!NextIndenters]_L!allVars
  PROVE  IndentersInv' /\ Paired
<1>1. CASE UNCHANGED L!allVars
  <2>1. UNCHANGED stacks /\ UNCHANGED <<m_log, made, gone>>
    BY <1>1 DEF L!allVars, L!vars, L!indenting, L!indenterVars, stacks
  <2>2. QED
    BY <2>1, NothingIndents, StayPaired DEF IndentersInv
<1>2. CASE (L!Finished \/ \E l \in Logs : L!Write(l)) /\ UNCHANGED L!indenterVars
  <2>1. UNCHANGED stacks
    BY <1>2, WriteLeavesStacks DEF L!Finished, L!vars, L!indenting, stacks
  <2>2. UNCHANGED <<m_log, made, gone>>
    BY <1>2 DEF L!indenterVars
  <2>3. QED
    BY <2>1, <2>2, NothingIndents, StayPaired DEF IndentersInv
<1>3. ASSUME NEW i \in Indenters, L!LogIndenterOfNothing(i) PROVE IndentersInv' /\ Paired
  BY <1>3, OfNothingKeeps, StayPaired DEF IndentersInv
<1>4. ASSUME NEW i \in Indenters, L!PopEarly(i) \/ L!Destroy(i) PROVE IndentersInv' /\ Paired
  <2>1. /\ i \in L!Live /\ L!Pop(i) /\ UNCHANGED made
        /\ gone' = gone \/ gone' = gone \union {i}
    BY <1>4 DEF L!PopEarly, L!Destroy
  <2>2. QED
    BY <2>1, PopStepKeeps DEF Paired
<1>5. ASSUME NEW i \in Indenters, NEW l \in Logs, L!LogIndenter(i, l) PROVE IndentersInv' /\ Paired
  <2>1. IndentersInv' /\ \A k \in Logs : stack_depth'[k] >= stack_depth[k]
    BY <1>5, LogIndenterKeeps
  <2>2. stack_depth \in [Logs -> Nat] /\ stack_depth' \in [Logs -> Nat]
    BY <2>1 DEF IndentersInv, StacksInv
  <2>3. QED
    BY <2>1, <2>2 DEF Paired
<1>6. ASSUME NEW i \in Indenters, NEW from \in Indenters, L!MoveConstruct(i, from) \/ L!MoveAssign(i, from)
      PROVE  IndentersInv' /\ Paired
  BY <1>6, MoveKeeps, StayPaired DEF IndentersInv
<1>7. QED
  BY <1>1, <1>2, <1>3, <1>4, <1>5, <1>6 DEF L!NextIndenters

(* However many indenters there are and however they are moved, popped     *)
(* early and destroyed, a pop brings back the indent from before its push, *)
(* deeper than the stack of the log too, and no log has more indenters     *)
(* than pushes to take back (log.cpp:388, log.cpp:450).                    *)
THEOREM PushesAlwaysPaired == L!SpecIndenters => PushesPaired
<1>1. IndentersInv /\ [L!NextIndenters]_L!allVars => IndentersInv'
  BY IndentersInduction
<1>2. IndentersInv /\ IndentersInv' /\ [L!NextIndenters]_L!allVars =>
        [/\ L!IndentersOK' /\ L!OnePushEach'
         /\ \A l \in Logs : stack_depth'[l] < stack_depth[l] => indent'[l] = L!Last(before[l])]_L!allVars
  BY IndentersInduction DEF Paired, IndentersInv
<1>3. QED
  BY <1>1, <1>2, IndentersInitially, PTL DEF L!SpecIndenters, PushesPaired, L!PushesPaired

-----------------------------------------------------------------------------
(***************************************************************************)
(* Paths.                                                                  *)
(***************************************************************************)
(* The greatest of some positions, and 0 if there are none.                *)
LEMMA GreatestPosition ==
  ASSUME NEW n \in Nat, NEW I, I \subseteq 1..n, NEW m, m = IF I # {} THEN Path!Max(I) ELSE 0
  PROVE  /\ m \in 0..n
         /\ m # 0 => m \in I
         /\ \A i \in I : i <= m
<1>1. CASE I = {}
  BY <1>1
<1>2. CASE I # {}
  <2> DEFINE Above == {k \in Nat : \A i \in I : i <= k}
  <2>1. n \in Above
    OBVIOUS
  <2>2. PICK k \in Above : \A l \in Above : k <= l
    BY <2>1, LeastNumber
  <2>3. k \in I
    <3>1. SUFFICES ASSUME k \notin I PROVE FALSE
      OBVIOUS
    <3>2. PICK i \in I : i \in 1..n
      BY <1>2
    <3>3. k - 1 \in Nat /\ \A j \in I : j <= k - 1
      <4>1. \A j \in I : j \in Nat /\ j <= k /\ j # k /\ j > 0
        BY <3>1
      <4>2. QED
        BY <3>2, <4>1
    <3>4. k - 1 \in Above
      BY <3>3
    <3>5. QED
      BY <2>2, <3>4
  <2>4. \A i \in I : k >= i
    BY <2>2
  <2>5. Path!Max(I) \in I /\ \A i \in I : Path!Max(I) >= i
    BY <2>3, <2>4 DEF Path!Max
  <2>6. m \in I /\ \A i \in I : m >= i
    BY <1>2, <2>5
  <2>7. m \in 1..n /\ \A i \in I : i \in 1..n
    BY <2>6
  <2>8. \A i \in I : i <= m
    BY <2>6, <2>7
  <2>9. QED
    BY <2>6, <2>7, <2>8
<1>3. QED
  BY <1>1, <1>2

(* The last separator, the dot of the extension, and the last character    *)
(* that is no separator.                                                   *)
Separators == {Path!SLASH, Path!BACKSLASH}

LEMMA LastSeparatorRight ==
  ASSUME NEW path \in Seq(Int)
  PROVE  /\ Path!LastSeparator(path) \in 0..Len(path)
         /\ Path!LastSeparator(path) # 0 => path[Path!LastSeparator(path)] \in Separators
         /\ \A i \in 1..Len(path) : path[i] \in Separators => i <= Path!LastSeparator(path)
<1> DEFINE I == {i \in 1..Len(path) : path[i] \in Separators}
<1>1. Path!LastSeparator(path) = IF I # {} THEN Path!Max(I) ELSE 0
  BY DEF Path!LastSeparator, Path!LastPosition, Path!SelectLastInSeq, Path!PathIsSeparatorChar, Separators
<1>2. Len(path) \in Nat /\ I \subseteq 1..Len(path)
  OBVIOUS
<1> HIDE DEF I
<1>3. /\ Path!LastSeparator(path) \in 0..Len(path)
      /\ Path!LastSeparator(path) # 0 => Path!LastSeparator(path) \in I
      /\ \A i \in I : i <= Path!LastSeparator(path)
  BY <1>1, <1>2, GreatestPosition
<1>4. QED
  BY <1>3 DEF I

LEMMA ExtensionDotRight ==
  ASSUME NEW path \in Seq(Int)
  PROVE  LET dot == Path!ExtensionDot(path) IN
           /\ dot \in 0..Len(path)
           /\ dot # 0 => /\ path[dot] = Path!DOT
                         /\ dot > Path!LastSeparator(path)
                         /\ \A i \in 1..Len(path) : path[i] = Path!DOT => i <= dot
<1> DEFINE I == {i \in 1..Len(path) : path[i] = Path!DOT}
           dot == IF I # {} THEN Path!Max(I) ELSE 0
<1>1. Path!ExtensionDot(path) = IF dot < Path!LastSeparator(path) THEN 0 ELSE dot
  BY DEF Path!ExtensionDot, Path!LastPosition, Path!SelectLastInSeq
<1>2. Len(path) \in Nat /\ I \subseteq 1..Len(path)
  OBVIOUS
<1> HIDE DEF I
<1>3. dot \in 0..Len(path) /\ (dot # 0 => dot \in I) /\ \A i \in I : i <= dot
  <2>1. PICK d : d = dot
    OBVIOUS
  <2>2. d \in 0..Len(path) /\ (d # 0 => d \in I) /\ \A i \in I : i <= d
    BY <1>2, <2>1, GreatestPosition
  <2>3. QED
    BY <2>1, <2>2
<1> HIDE DEF dot
<1> USE DEF I
<1>4. dot # 0 => dot # Path!LastSeparator(path)
  BY <1>3, LastSeparatorRight DEF Separators, Path!DOT, Path!SLASH, Path!BACKSLASH
<1>5. QED
  BY <1>1, <1>3, <1>4, LastSeparatorRight

(* A sequence is what it has up to a place, and what it has behind it.     *)
LEMMA CutAt ==
  ASSUME NEW s \in Seq(Int), NEW k \in 0..Len(s)
  PROVE  /\ SubSeq(s, 1, k) \in Seq(Int) /\ SubSeq(s, k + 1, Len(s)) \in Seq(Int)
         /\ Len(SubSeq(s, 1, k)) = k /\ Len(SubSeq(s, k + 1, Len(s))) = Len(s) - k
         /\ \A i \in 1..k : SubSeq(s, 1, k)[i] = s[i]
         /\ \A i \in 1..Len(s) - k : SubSeq(s, k + 1, Len(s))[i] = s[k + i]
         /\ SubSeq(s, 1, k) \o SubSeq(s, k + 1, Len(s)) = s
<1>1. Len(s) \in Nat /\ k \in Nat /\ k <= Len(s)
  OBVIOUS
<1>2. /\ SubSeq(s, 1, k) \in Seq(Int) /\ SubSeq(s, k + 1, Len(s)) \in Seq(Int)
      /\ Len(SubSeq(s, 1, k)) = k /\ Len(SubSeq(s, k + 1, Len(s))) = Len(s) - k
  BY <1>1
<1>3. \A i \in 1..k : SubSeq(s, 1, k)[i] = s[i]
  BY <1>1
<1>4. \A i \in 1..Len(s) - k : SubSeq(s, k + 1, Len(s))[i] = s[k + i]
  BY <1>1
<1>5. SubSeq(s, 1, k) \o SubSeq(s, k + 1, Len(s)) = s
  <2>1. 1 \in 1 .. Len(s) + 1 /\ k \in 1 - 1 .. Len(s) /\ Len(s) \in k .. Len(s)
    BY <1>1
  <2>2. QED
    BY <2>1, ConcatAdjacentSubSeq, SubSeqFull
<1>6. QED
  BY <1>2, <1>3, <1>4, <1>5

(* Two sequences that have the same at each place are one.                 *)
LEMMA SameAtEach ==
  ASSUME NEW s \in Seq(Int), NEW t \in Seq(Int), Len(s) = Len(t), \A i \in 1..Len(s) : s[i] = t[i]
  PROVE  s = t
OBVIOUS

(* What is before the last separator, with it, and what is behind it; what *)
(* is before the dot, and what is behind it, with it.                      *)
LEMMA FolderAndName ==
  ASSUME NEW path \in Seq(Int), NEW sep, sep = Path!LastSeparator(path)
  PROVE  /\ Path!PathGetFolder(path) \in Seq(Int) /\ Len(Path!PathGetFolder(path)) = sep
         /\ \A i \in 1..sep : Path!PathGetFolder(path)[i] = path[i]
         /\ Path!PathGetName(path) \in Seq(Int) /\ Len(Path!PathGetName(path)) = Len(path) - sep
         /\ \A i \in 1..Len(path) - sep : Path!PathGetName(path)[i] = path[sep + i]
         /\ Path!PathGetFolder(path) \o Path!PathGetName(path) = path
<1>1. sep \in 0..Len(path)
  BY LastSeparatorRight
<1>2. Path!PathGetFolder(path) = SubSeq(path, 1, sep) /\ Path!PathGetName(path) = SubSeq(path, sep + 1, Len(path))
  BY DEF Path!PathGetFolder, Path!PathGetName
<1>3. /\ SubSeq(path, 1, sep) \in Seq(Int) /\ SubSeq(path, sep + 1, Len(path)) \in Seq(Int)
      /\ Len(SubSeq(path, 1, sep)) = sep /\ Len(SubSeq(path, sep + 1, Len(path))) = Len(path) - sep
      /\ \A i \in 1..sep : SubSeq(path, 1, sep)[i] = path[i]
      /\ \A i \in 1..Len(path) - sep : SubSeq(path, sep + 1, Len(path))[i] = path[sep + i]
      /\ SubSeq(path, 1, sep) \o SubSeq(path, sep + 1, Len(path)) = path
  BY <1>1, CutAt, Zenon
<1>4. QED
  BY <1>2, <1>3, Zenon

LEMMA StemAndExtension ==
  ASSUME NEW path \in Seq(Int), NEW dot, dot = Path!ExtensionDot(path), dot # 0
  PROVE  /\ Path!PathGetExtension(path) \in Seq(Int) /\ Len(Path!PathGetExtension(path)) = Len(path) - dot + 1
         /\ \A i \in 1..Len(path) - dot + 1 : Path!PathGetExtension(path)[i] = path[dot - 1 + i]
         /\ Path!PathWithoutExtension(path) \o Path!PathGetExtension(path) = path
<1>1. dot \in 0..Len(path) /\ Len(path) \in Nat
  BY ExtensionDotRight
<1>2. PICK k \in 0..Len(path) : k = dot - 1 /\ k + 1 = dot /\ Len(path) - k = Len(path) - dot + 1
  BY <1>1
<1>3. Path!PathWithoutExtension(path) = SubSeq(path, 1, k) /\ Path!PathGetExtension(path) = SubSeq(path, k + 1, Len(path))
  BY <1>2 DEF Path!PathWithoutExtension, Path!PathGetExtension
<1> DEFINE x == SubSeq(path, k + 1, Len(path))
<1>4. /\ x \in Seq(Int) /\ Len(x) = Len(path) - k
      /\ \A i \in 1..Len(path) - k : x[i] = path[k + i]
      /\ SubSeq(path, 1, k) \o x = path
  BY CutAt, Zenon
<1>5. Path!PathGetExtension(path) = x /\ Path!PathWithoutExtension(path) = SubSeq(path, 1, k) /\ dot - 1 = k
  BY <1>1, <1>2, <1>3
<1> HIDE DEF x
<1>6. QED
  BY <1>2, <1>4, <1>5

(* A sequence ends with another one if it has the same at each place,      *)
(* counted from the end.                                                   *)
LEMMA EndsWith ==
  ASSUME NEW s \in Seq(Int), NEW t \in Seq(Int), Len(s) <= Len(t),
         \A i \in 0..Len(s) - 1 : s[Len(s) - i] = t[Len(t) - i]
  PROVE  Path!IsSuffix(s, t)
<1> DEFINE r == Path!Reverse(s)
           u == Path!Reverse(t)
<1>1. Len(s) \in Nat /\ Len(t) \in Nat
  OBVIOUS
<1>2. r \in Seq(Int) /\ Len(r) = Len(s) /\ \A i \in 1..Len(s) : r[i] = s[(Len(s) - i) + 1]
  BY <1>1 DEF Path!Reverse
<1>3. u \in Seq(Int) /\ Len(u) = Len(t) /\ \A i \in 1..Len(t) : u[i] = t[(Len(t) - i) + 1]
  BY <1>1 DEF Path!Reverse
<1>4. ASSUME NEW i \in 1..Len(s) PROVE r[i] = u[i]
  <2>1. PICK k \in 0..Len(s) - 1 : k = i - 1 /\ (Len(s) - i) + 1 = Len(s) - k /\ (Len(t) - i) + 1 = Len(t) - k
    BY <1>1
  <2>2. i \in 1..Len(t)
    BY <1>1
  <2>3. r[i] = s[Len(s) - k] /\ u[i] = t[Len(t) - k]
    BY <1>2, <1>3, <2>1, <2>2, Zenon
  <2>4. QED
    BY <2>1, <2>3
<1> HIDE DEF r, u
<1>5. SubSeq(r, 1, Len(r)) = SubSeq(u, 1, Len(r))
  BY <1>1, <1>2, <1>3, <1>4
<1>6. QED
  BY <1>1, <1>2, <1>3, <1>5 DEF Path!IsSuffix, Path!IsPrefix, r, u

LEMMA NothingEnds == \A s \in Seq(Int) : Path!IsSuffix(<<>>, s)
<1> SUFFICES ASSUME NEW s \in Seq(Int) PROVE Path!IsSuffix(<<>>, s)
  OBVIOUS
<1>1. Path!Reverse(<<>>) = <<>> /\ Path!Reverse(s) \in Seq(Int)
  BY DEF Path!Reverse
<1>2. ASSUME NEW r \in Seq(Int) PROVE Path!IsPrefix(<<>>, r)
  BY DEF Path!IsPrefix
<1>3. QED
  BY <1>1, <1>2 DEF Path!IsSuffix

LEMMA SplitsAlwaysBack == \A path \in Seq(Int) : Path!SplitsBack(path)
<1> SUFFICES ASSUME NEW path \in Seq(Int) PROVE Path!SplitsBack(path)
  OBVIOUS
<1> DEFINE n == Len(path)
           sep == Path!LastSeparator(path)
           dot == Path!ExtensionDot(path)
           folder == Path!PathGetFolder(path)
           name == Path!PathGetName(path)
           extension == Path!PathGetExtension(path)
           bare == Path!PathWithoutTrailingSeparators(path)
<1>1. /\ n \in Nat /\ sep \in 0..n /\ dot \in 0..n
      /\ sep # 0 => path[sep] \in Separators
      /\ \A i \in 1..n : path[i] \in Separators => i <= sep
      /\ dot # 0 => path[dot] = Path!DOT /\ dot > sep /\ \A i \in 1..n : path[i] = Path!DOT => i <= dot
  BY LastSeparatorRight, ExtensionDotRight
<1>2. /\ folder \in Seq(Int) /\ Len(folder) = sep /\ \A i \in 1..sep : folder[i] = path[i]
      /\ name \in Seq(Int) /\ Len(name) = n - sep /\ \A i \in 1..n - sep : name[i] = path[sep + i]
      /\ folder \o name = path
  BY FolderAndName
<1>3. dot # 0 => /\ extension \in Seq(Int) /\ Len(extension) = n - dot + 1
                 /\ \A i \in 1..n - dot + 1 : extension[i] = path[dot - 1 + i]
                 /\ Path!PathWithoutExtension(path) \o extension = path
  BY StemAndExtension
<1>4. dot = 0 => extension = <<>> /\ Path!PathWithoutExtension(path) = path
  BY DEF Path!PathWithoutExtension, Path!PathGetExtension
<1>5. \A c : Path!PathIsSeparatorChar(c) <=> c \in Separators
  BY DEF Path!PathIsSeparatorChar, Separators
<1>6. Path!DOT \notin Separators
  BY DEF Separators, Path!DOT, Path!SLASH, Path!BACKSLASH
<1> HIDE DEF n, sep, dot, folder, name, extension, bare
<1>7. Path!PathWithoutExtension(path) \o extension = path
  <2>1. CASE dot = 0
    BY <1>4, <2>1, ConcatEmptySeq
  <2>2. QED
    BY <1>3, <2>1
<1>8. \A c \in Path!ToSet(name) \union Path!ToSet(extension) : ~Path!PathIsSeparatorChar(c)
  <2>1. ASSUME NEW i \in 1..n - sep PROVE name[i] \notin Separators
    <3>1. PICK j \in 1..n : j = sep + i /\ ~(j <= sep)
      BY <1>1
    <3>2. QED
      BY <1>1, <1>2, <3>1
  <2>2. ASSUME dot # 0, NEW i \in 1..n - dot + 1 PROVE extension[i] \notin Separators
    <3>1. PICK j \in 1..n : j = dot - 1 + i /\ ~(j <= sep)
      BY <1>1, <2>2
    <3>2. extension[i] = path[j]
      BY <1>3, <2>2, <3>1
    <3>3. QED
      BY <1>1, <3>1, <3>2
  <2>3. \A c \in Path!ToSet(name) : c \notin Separators
    BY <1>2, <2>1 DEF Path!ToSet
  <2>4. \A c \in Path!ToSet(extension) : c \notin Separators
    <3>1. CASE dot = 0
      BY <1>4, <3>1 DEF Path!ToSet
    <3>2. CASE dot # 0
      BY <1>3, <2>2, <3>2 DEF Path!ToSet
    <3>3. QED
      BY <3>1, <3>2
  <2>5. QED
    BY <1>5, <2>3, <2>4
<1>9. extension # <<>> => extension[1] = Path!DOT /\ Path!DOT \notin Path!ToSet(Tail(extension))
  <2>1. SUFFICES ASSUME dot # 0 PROVE extension[1] = Path!DOT /\ Path!DOT \notin Path!ToSet(Tail(extension))
    BY <1>4
  <2>2. 1 \in 1..n - dot + 1 /\ dot - 1 + 1 = dot
    BY <1>1, <2>1
  <2>3. extension[1] = Path!DOT
    BY <1>1, <1>3, <2>1, <2>2
  <2>4. ASSUME NEW i \in DOMAIN Tail(extension) PROVE Tail(extension)[i] # Path!DOT
    <3>1. extension \in Seq(Int) /\ Len(extension) = n - dot + 1 /\ Len(extension) > 0
      BY <1>1, <1>3, <2>1
    <3>2. DOMAIN Tail(extension) = 1..n - dot /\ Tail(extension)[i] = extension[i + 1]
      <4>1. extension # <<>>
        BY <3>1, EmptySeq
      <4>2. /\ Tail(extension) \in Seq(Int) /\ Len(Tail(extension)) = Len(extension) - 1
            /\ \A k \in 1..Len(Tail(extension)) : Tail(extension)[k] = extension[k + 1]
        BY <3>1, <4>1, HeadTailProperties, Zenon
      <4>3. DOMAIN Tail(extension) = 1..Len(Tail(extension)) /\ Len(Tail(extension)) = n - dot
        BY <1>1, <3>1, <4>2
      <4>4. QED
        BY <4>2, <4>3
    <3>3. PICK j \in 1..n : j = dot + i /\ ~(j <= dot)
      BY <1>1, <3>2
    <3>4. extension[i + 1] = path[j]
      <4>1. i + 1 \in 1..n - dot + 1 /\ dot - 1 + (i + 1) = j
        BY <1>1, <3>2, <3>3
      <4>2. QED
        BY <1>3, <2>1, <4>1
    <3>5. QED
      BY <1>1, <2>1, <3>2, <3>3, <3>4
  <2>5. QED
    BY <2>3, <2>4 DEF Path!ToSet
<1>10. Path!IsSuffix(extension, name)
  <2>1. CASE dot = 0
    BY <1>2, <1>4, <2>1, NothingEnds
  <2>2. CASE dot # 0
    <3>1. ASSUME NEW i \in 0..Len(extension) - 1
          PROVE  extension[Len(extension) - i] = name[Len(name) - i]
      <4>1. PICK j \in 1..n - dot + 1 : j = Len(extension) - i /\ dot - 1 + j = n - i
        BY <1>1, <1>3, <2>2
      <4>2. PICK k \in 1..n - sep : k = Len(name) - i /\ sep + k = n - i
        BY <1>1, <1>2, <1>3, <2>2
      <4>3. extension[j] = path[n - i] /\ name[k] = path[n - i]
        BY <1>2, <1>3, <2>2, <4>1, <4>2
      <4>4. QED
        BY <4>1, <4>2, <4>3
    <3>2. Len(extension) <= Len(name)
      BY <1>1, <1>2, <1>3, <2>2
    <3>3. QED
      BY <1>2, <1>3, <2>2, <3>1, <3>2, EndsWith
  <2>3. QED
    BY <2>1, <2>2
<1>11. Path!PathGetFolder(folder) = folder
  <2>1. PICK s : s = Path!LastSeparator(folder)
    OBVIOUS
  <2>2. /\ s \in 0..sep /\ \A i \in 1..sep : folder[i] \in Separators => i <= s
    BY <1>2, <2>1, LastSeparatorRight
  <2>3. sep # 0 => sep \in 1..sep /\ folder[sep] \in Separators
    BY <1>1, <1>2
  <2>4. s = sep
    BY <1>1, <2>2, <2>3
  <2>5. Path!PathGetFolder(folder) = SubSeq(folder, 1, Len(folder))
    BY <1>2, <2>1, <2>4 DEF Path!PathGetFolder
  <2>6. QED
    BY <1>2, <2>5, SubSeqFull
<1>12. bare = <<>> \/ Path!PathGetName(bare) # <<>>
  <2> DEFINE I == {i \in 1..n : path[i] \notin Separators}
             m == IF I # {} THEN Path!Max(I) ELSE 0
  <2>1. bare = SubSeq(path, 1, m)
    BY <1>5 DEF bare, n, Path!PathWithoutTrailingSeparators, Path!LastPosition, Path!SelectLastInSeq
  <2>2. I \subseteq 1..n
    OBVIOUS
  <2>3. PICK k : k = m
    OBVIOUS
  <2> HIDE DEF I
  <2>4. k \in 0..n /\ (k # 0 => k \in I)
    BY <1>1, <2>2, <2>3, GreatestPosition
  <2>5. bare \in Seq(Int) /\ Len(bare) = k /\ \A i \in 1..k : bare[i] = path[i]
    BY <2>1, <2>3, <2>4, CutAt DEF n
  <2>6. k = 0 => bare = <<>>
    BY <2>5
  <2>7. ASSUME k # 0 PROVE Path!PathGetName(bare) # <<>>
    <3>1. PICK s : s = Path!LastSeparator(bare)
      OBVIOUS
    <3>2. s \in 0..k /\ (s # 0 => bare[s] \in Separators)
      BY <2>5, <3>1, LastSeparatorRight
    <3>3. bare[k] \notin Separators
      BY <1>1, <2>4, <2>5, <2>7 DEF I
    <3>4. Len(Path!PathGetName(bare)) = Len(bare) - s
      BY <2>5, <3>1, FolderAndName
    <3>5. k \in 1..n /\ s # k
      BY <1>1, <2>4, <2>7, <3>2, <3>3
    <3>6. Len(Path!PathGetName(bare)) # 0
      BY <2>5, <3>2, <3>4, <3>5
    <3>7. QED
      BY <3>6, EmptySeq
  <2>8. QED
    BY <2>6, <2>7
<1>13. QED
  BY <1>2, <1>7, <1>8, <1>9, <1>10, <1>11, <1>12 DEF Path!SplitsBack, folder, name, extension, bare

(* What joins two paths, if neither is empty and the second not absolute.  *)
Between(a) == IF Path!PathIsSeparatorChar(Path!Last(a)) THEN <<>> ELSE <<Path!SLASH>>

LEMMA BetweenType == \A a : Between(a) \in Seq(Int)
BY DEF Between, Path!SLASH

LEMMA JoinedCases ==
  ASSUME NEW a \in Seq(Int), NEW b \in Seq(Int)
  PROVE  /\ a = <<>> => Path!PathJoined(a, b) = b
         /\ b = <<>> => Path!PathJoined(a, b) = a
         /\ a # <<>> /\ b # <<>> /\ Path!PathIsAbsolute(b) => Path!PathJoined(a, b) = b
         /\ a # <<>> /\ b # <<>> /\ ~Path!PathIsAbsolute(b) => Path!PathJoined(a, b) = a \o (Between(a) \o b)
<1>1. ASSUME a # <<>>, b # <<>>, ~Path!PathIsAbsolute(b)
      PROVE  Path!PathJoined(a, b) = IF Path!PathIsSeparatorChar(Path!Last(a)) THEN a \o b ELSE (a \o <<Path!SLASH>>) \o b
  BY <1>1 DEF Path!PathJoined
<1>2. <<>> \o b = b /\ (a \o <<Path!SLASH>>) \o b = a \o (<<Path!SLASH>> \o b)
  <2>1. <<Path!SLASH>> \in Seq(Int)
    BY DEF Path!SLASH
  <2>2. QED
    BY <2>1, ConcatAssociative, ConcatEmptySeq
<1>3. ASSUME a # <<>>, b # <<>>, ~Path!PathIsAbsolute(b)
      PROVE  Path!PathJoined(a, b) = a \o (Between(a) \o b)
  BY <1>1, <1>2, <1>3 DEF Between
<1>4. a = <<>> /\ b = <<>> => a = b
  OBVIOUS
<1>5. /\ a = <<>> => Path!PathJoined(a, b) = b
      /\ b = <<>> => Path!PathJoined(a, b) = a
      /\ a # <<>> /\ b # <<>> /\ Path!PathIsAbsolute(b) => Path!PathJoined(a, b) = b
  BY DEF Path!PathJoined
<1>6. QED
  BY <1>3, <1>5

LEMMA AbsoluteIs == \A a \in Seq(Int) : Path!PathIsAbsolute(a) <=> a # <<>> /\ a[1] \in Separators
BY DEF Path!PathIsAbsolute, Path!PathIsSeparatorChar, Separators

(* Two sequences, one behind the other.                                    *)
LEMMA Behind ==
  ASSUME NEW a \in Seq(Int), NEW b \in Seq(Int)
  PROVE  /\ a \o b \in Seq(Int)
         /\ a # <<>> => a \o b # <<>> /\ (a \o b)[1] = a[1]
         /\ b # <<>> => a \o b # <<>> /\ Path!Last(a \o b) = Path!Last(b)
         /\ Path!IsPrefix(a, a \o b)
         /\ Path!IsSuffix(b, a \o b)
<1>1. /\ a \o b \in Seq(Int) /\ Len(a \o b) = Len(a) + Len(b) /\ Len(a) \in Nat /\ Len(b) \in Nat
      /\ \A i \in 1..Len(a) + Len(b) : (a \o b)[i] = IF i <= Len(a) THEN a[i] ELSE b[i - Len(a)]
  BY ConcatProperties, LenProperties
<1> DEFINE s == a \o b
<1>0. /\ s \in Seq(Int) /\ Len(s) = Len(a) + Len(b) /\ Len(a) \in Nat /\ Len(b) \in Nat
      /\ \A i \in 1..Len(a) + Len(b) : s[i] = IF i <= Len(a) THEN a[i] ELSE b[i - Len(a)]
  BY <1>1
<1> HIDE DEF s
<1>2. a # <<>> => Len(a) > 0
  BY EmptySeq
<1>3. b # <<>> => Len(b) > 0
  BY EmptySeq
<1>4. a # <<>> => s # <<>> /\ s[1] = a[1]
  <2>1. SUFFICES ASSUME a # <<>> PROVE s # <<>> /\ s[1] = a[1]
    OBVIOUS
  <2>2. 1 \in 1..Len(a) + Len(b) /\ 1 <= Len(a) /\ Len(s) # 0
    BY <1>1, <1>2, <2>1 DEF s
  <2>3. QED
    BY <1>1, <2>2, EmptySeq DEF s
<1>5. b # <<>> => s # <<>> /\ Path!Last(s) = Path!Last(b)
  <2>1. SUFFICES ASSUME b # <<>> PROVE s # <<>> /\ s[Len(s)] = b[Len(b)]
    BY DEF Path!Last
  <2>2. PICK k \in 1..Len(a) + Len(b) : k = Len(s) /\ ~(k <= Len(a)) /\ k - Len(a) = Len(b) /\ k # 0
    BY <1>0, <1>3, <2>1
  <2>3. s[k] = b[k - Len(a)]
    BY <1>0, <2>2
  <2>4. QED
    BY <2>2, <2>3, EmptySeq
<1>6. Path!IsPrefix(a, s)
  <2>1. Len(a) <= Len(s) /\ \A i \in 1..Len(a) : s[i] = a[i] /\ a[i] \in Int /\ s[i] \in Int
    BY <1>1 DEF s
  <2>2. SubSeq(a, 1, Len(a)) \in Seq(Int) /\ SubSeq(s, 1, Len(a)) \in Seq(Int)
    BY <1>1, <2>1 DEF s
  <2>3. SubSeq(a, 1, Len(a)) = SubSeq(s, 1, Len(a))
    BY <1>1, <2>1 DEF s
  <2>4. QED
    BY <2>1, <2>3 DEF Path!IsPrefix
<1>7. Path!IsSuffix(b, s)
  <2>1. ASSUME NEW i \in 0..Len(b) - 1 PROVE b[Len(b) - i] = s[Len(s) - i]
    <3>1. PICK x \in Nat, y \in Nat, k \in Int : x = Len(a) /\ y = Len(b) /\ k = (x + y) - i
      BY <1>0
    <3>2. k \in 1..x + y /\ ~(k <= x) /\ k - x = y - i
      BY <3>1
    <3>3. s[k] = b[k - x] /\ Len(s) - i = k
      BY <1>0, <3>1, <3>2
    <3>4. QED
      BY <3>1, <3>2, <3>3
  <2>2. s \in Seq(Int) /\ Len(b) <= Len(s)
    BY <1>1 DEF s
  <2>3. QED
    BY <2>1, <2>2, EndsWith
<1>8. QED
  BY <1>1, <1>4, <1>5, <1>6, <1>7 DEF s

LEMMA JoinedType == \A a, b \in Seq(Int) : Path!PathJoined(a, b) \in Seq(Int)
<1> SUFFICES ASSUME NEW a \in Seq(Int), NEW b \in Seq(Int) PROVE Path!PathJoined(a, b) \in Seq(Int)
  OBVIOUS
<1>1. a \o (Between(a) \o b) \in Seq(Int)
  BY BetweenType, ConcatProperties
<1>2. QED
  BY <1>1, JoinedCases

LEMMA JoinsWhatItSplits ==
  \A a \in Seq(Int) : Path!PathJoined(Path!PathGetFolder(a), Path!PathGetName(a)) = a
<1> SUFFICES ASSUME NEW a \in Seq(Int) PROVE Path!PathJoined(Path!PathGetFolder(a), Path!PathGetName(a)) = a
  OBVIOUS
<1> DEFINE folder == Path!PathGetFolder(a)
           name == Path!PathGetName(a)
           sep == Path!LastSeparator(a)
<1>1. /\ folder \in Seq(Int) /\ Len(folder) = sep /\ \A i \in 1..sep : folder[i] = a[i]
      /\ name \in Seq(Int) /\ Len(name) = Len(a) - sep /\ \A i \in 1..Len(a) - sep : name[i] = a[sep + i]
      /\ folder \o name = a
  BY FolderAndName
<1>2. /\ Len(a) \in Nat /\ sep \in 0..Len(a)
      /\ sep # 0 => a[sep] \in Separators
      /\ \A i \in 1..Len(a) : a[i] \in Separators => i <= sep
  BY LastSeparatorRight
<1> HIDE DEF folder, name, sep
<1>3. CASE folder = <<>>
  BY <1>1, <1>3, JoinedCases, ConcatEmptySeq DEF folder, name
<1>4. CASE name = <<>>
  BY <1>1, <1>4, JoinedCases, ConcatEmptySeq DEF folder, name
<1>5. CASE folder # <<>> /\ name # <<>>
  <2>1. 1 \in 1..Len(a) - sep /\ sep # 0
    BY <1>1, <1>2, <1>5, EmptySeq
  <2>2. name[1] \notin Separators
    <3>1. PICK i \in 1..Len(a) : i = sep + 1 /\ ~(i <= sep)
      BY <1>2, <2>1
    <3>2. name[1] = a[i]
      BY <1>1, <2>1, <3>1
    <3>3. QED
      BY <1>2, <3>1, <3>2
  <2>3. folder[Len(folder)] \in Separators
    BY <1>1, <1>2, <2>1
  <2>4. ~Path!PathIsAbsolute(name)
    BY <1>1, <2>2, AbsoluteIs
  <2>5. Between(folder) = <<>>
    BY <2>3 DEF Between, Path!PathIsSeparatorChar, Separators, Path!Last
  <2>6. Path!PathJoined(folder, name) = folder \o (Between(folder) \o name)
    BY <1>1, <1>5, <2>4, JoinedCases
  <2>7. QED
    BY <1>1, <2>5, <2>6, ConcatEmptySeq DEF folder, name
<1>6. QED
  BY <1>3, <1>4, <1>5

LEMMA JoinedContains ==
  ASSUME NEW a \in Seq(Int), NEW b \in Seq(Int), b # <<>>, ~Path!PathIsAbsolute(b)
  PROVE  Path!IsPrefix(a, Path!PathJoined(a, b)) /\ Path!IsSuffix(b, Path!PathJoined(a, b))
<1>1. CASE a = <<>>
  <2>1. <<>> \o b = b /\ Path!PathJoined(a, b) = <<>> \o b
    BY <1>1, JoinedCases, ConcatEmptySeq
  <2>2. QED
    BY <1>1, <2>1, Behind
<1>2. CASE a # <<>>
  <2>1. PICK m \in Seq(Int) : m = Between(a)
    BY BetweenType
  <2>2. Path!PathJoined(a, b) = a \o (m \o b)
    BY <1>2, <2>1, JoinedCases
  <2>3. m \o b \in Seq(Int) /\ a \o m \in Seq(Int) /\ a \o (m \o b) = (a \o m) \o b
    BY ConcatProperties, ConcatAssociative
  <2>4. Path!IsPrefix(a, a \o (m \o b)) /\ Path!IsSuffix(b, (a \o m) \o b)
    BY <2>3, Behind
  <2>5. QED
    BY <2>2, <2>3, <2>4
<1>3. QED
  BY <1>1, <1>2

LEMMA JoinedAbsolute ==
  ASSUME NEW a \in Seq(Int), NEW b \in Seq(Int)
  PROVE  Path!PathIsAbsolute(Path!PathJoined(a, b)) <=> Path!PathIsAbsolute(b) \/ Path!PathIsAbsolute(a)
<1>1. CASE a = <<>> \/ b = <<>>
  BY <1>1, JoinedCases, AbsoluteIs
<1>2. CASE a # <<>> /\ b # <<>> /\ Path!PathIsAbsolute(b)
  BY <1>2, JoinedCases
<1>3. CASE a # <<>> /\ b # <<>> /\ ~Path!PathIsAbsolute(b)
  <2>1. PICK m \in Seq(Int) : m = Between(a) \o b
    BY BetweenType, ConcatProperties
  <2>2. Path!PathJoined(a, b) = a \o m
    BY <1>3, <2>1, JoinedCases
  <2>3. a \o m \in Seq(Int) /\ a \o m # <<>> /\ (a \o m)[1] = a[1]
    BY <1>3, Behind
  <2>4. QED
    BY <1>3, <2>2, <2>3, AbsoluteIs
<1>4. QED
  BY <1>1, <1>2, <1>3

LEMMA ThreeInARow == \A x, y, z \in Seq(Int) : (x \o y) \o z = x \o (y \o z)
<1> SUFFICES ASSUME NEW x \in Seq(Int), NEW y \in Seq(Int), NEW z \in Seq(Int)
             PROVE  (x \o y) \o z = x \o (y \o z)
  OBVIOUS
<1>1. QED
  BY ConcatAssociative

LEMMA JoinsInEitherOrder ==
  ASSUME NEW a \in Seq(Int), NEW b \in Seq(Int), NEW c \in Seq(Int)
  PROVE  Path!PathJoined3(a, b, c) = Path!PathJoined(a, Path!PathJoined(b, c))
<1> DEFINE J(x, y) == Path!PathJoined(x, y)
           Cat(x, y) == x \o y
           Texts == Seq(Int)
           Absolute(x) == Path!PathIsAbsolute(x)
<1> SUFFICES J(J(a, b), c) = J(a, J(b, c))
  BY DEF Path!PathJoined3
<1>1. \A x, y \in Texts : /\ J(x, y) \in Texts
                          /\ x = <<>> => J(x, y) = y
                          /\ y = <<>> => J(x, y) = x
                          /\ x # <<>> /\ y # <<>> /\ Absolute(y) => J(x, y) = y
                          /\ x # <<>> /\ y # <<>> /\ ~Absolute(y) => J(x, y) = Cat(x, Cat(Between(x), y))
                          /\ Absolute(J(x, y)) <=> Absolute(y) \/ Absolute(x)
  BY JoinedCases, JoinedType, JoinedAbsolute
<1>2. \A x, y, z \in Texts : Cat(Cat(x, y), z) = Cat(x, Cat(y, z))
  BY ThreeInARow, Zenon
<1>3. \A x, y \in Texts : /\ Cat(x, y) \in Texts
                          /\ x # <<>> => Cat(x, y) # <<>>
                          /\ y # <<>> => Path!Last(Cat(x, y)) = Path!Last(y) /\ Cat(x, y) # <<>>
  BY Behind
<1>4. \A x : Between(x) \in Texts
  BY BetweenType
<1>5. a \in Texts /\ b \in Texts /\ c \in Texts
  OBVIOUS
<1> HIDE DEF J, Cat, Texts, Absolute
<1>6. CASE a = <<>>
  BY <1>1, <1>5, <1>6
<1>7. CASE b = <<>>
  BY <1>1, <1>5, <1>7
<1>8. CASE c = <<>>
  BY <1>1, <1>5, <1>8
<1>9. CASE a # <<>> /\ b # <<>> /\ c # <<>>
  <2>1. ASSUME NEW x \in Texts, NEW y \in Texts, x # <<>>, y # <<>> PROVE J(x, y) # <<>>
    BY <1>1, <1>3, <1>4, <2>1
  <2>2. /\ J(a, b) \in Texts /\ J(a, b) # <<>>
        /\ J(b, c) \in Texts /\ J(b, c) # <<>>
    BY <1>1, <1>5, <1>9, <2>1
  <2>3. CASE Absolute(c)
    <3>1. J(b, c) = c /\ J(a, c) = c /\ J(J(a, b), c) = c
      BY <1>1, <1>5, <1>9, <2>2, <2>3
    <3>2. QED
      BY <3>1
  <2>4. CASE ~Absolute(c) /\ Absolute(b)
    <3>1. J(a, b) = b /\ Absolute(J(b, c))
      BY <1>1, <1>5, <1>9, <2>4
    <3>2. J(a, J(b, c)) = J(b, c)
      BY <1>1, <1>5, <1>9, <2>2, <3>1
    <3>3. QED
      BY <3>1, <3>2
  <2>5. CASE ~Absolute(c) /\ ~Absolute(b)
    <3>1. PICK m \in Texts, l \in Texts : m = Between(a) /\ l = Between(b)
      BY <1>4
    <3>2. PICK p \in Texts, q \in Texts : p = Cat(m, b) /\ q = Cat(l, c)
      BY <1>3, <1>5, <3>1
    <3>3. J(a, b) = Cat(a, p) /\ J(b, c) = Cat(b, q)
      BY <1>1, <1>5, <1>9, <2>5, <3>1, <3>2
    <3>4. Path!Last(J(a, b)) = Path!Last(b)
      BY <1>3, <1>5, <1>9, <3>1, <3>2, <3>3
    <3>5. Between(J(a, b)) = l
      BY <3>1, <3>4 DEF Between
    <3>6. J(J(a, b), c) = Cat(Cat(a, p), q)
      BY <1>1, <1>5, <1>9, <2>2, <2>5, <3>2, <3>3, <3>5
    <3>7. ~Absolute(J(b, c))
      BY <1>1, <1>5, <2>5
    <3>8. J(a, J(b, c)) = Cat(a, Cat(m, Cat(b, q)))
      BY <1>1, <1>5, <1>9, <2>2, <3>1, <3>3, <3>7
    <3>9. Cat(Cat(a, p), q) = Cat(a, Cat(p, q)) /\ Cat(p, q) = Cat(m, Cat(b, q))
      BY <1>2, <1>5, <3>1, <3>2
    <3>10. QED
      BY <3>6, <3>8, <3>9
  <2>6. QED
    BY <2>3, <2>4, <2>5
<1>10. QED
  BY <1>6, <1>7, <1>8, <1>9

LEMMA JoinsAlwaysBack == \A a, b, c \in Seq(Int) : Path!JoinsBack(a, b, c)
<1> SUFFICES ASSUME NEW a \in Seq(Int), NEW b \in Seq(Int), NEW c \in Seq(Int) PROVE Path!JoinsBack(a, b, c)
  OBVIOUS
<1>1. Path!PathIsAbsolute(Path!PathJoined(a, b)) = (Path!PathIsAbsolute(b) \/ Path!PathIsAbsolute(a))
  <2>1. \A x : Path!PathIsAbsolute(x) \in BOOLEAN
    BY DEF Path!PathIsAbsolute
  <2>2. QED
    BY <2>1, JoinedAbsolute
<1>2. QED
  BY <1>1, JoinsWhatItSplits, JoinedContains, JoinsInEitherOrder DEF Path!JoinsBack

(* The first place at which two paths differ, and PathCompare by it.       *)
Differ(a, b, i) == i > Len(a) \/ i > Len(b) \/ a[i] # b[i]
AgreeTo(a, b, i) == \A k \in 1..i - 1 : ~Differ(a, b, k)
CharAt(a, i) == IF i > Len(a) THEN 0 ELSE a[i]

LEMMA CompareIs ==
  ASSUME NEW a \in Seq(Int), NEW b \in Seq(Int)
  PROVE  \E f \in Nat \ {0} :
           /\ Differ(a, b, f) /\ AgreeTo(a, b, f)
           /\ Path!PathCompare(a, b) = IF f > Len(a) /\ f > Len(b) THEN 0
                                       ELSE IF f > Len(a) \/ CharAt(a, f) < CharAt(b, f) THEN -1 ELSE 1
<1> DEFINE D(i) == i > Len(a) \/ i > Len(b) \/ a[i] # b[i]
           First(i) == D(i) /\ \A k \in 1..i - 1 : ~D(k)
           All == 1..Len(a) + Len(b) + 1
           f == CHOOSE i \in All : First(i)
<1>1. Len(a) \in Nat /\ Len(b) \in Nat
  OBVIOUS
<1>2. \E i \in All : First(i)
  <2> DEFINE S == {i \in Nat : i # 0 /\ D(i)}
  <2>1. Len(a) + Len(b) + 1 \in S
    BY <1>1
  <2>2. PICK i \in S : \A k \in S : i <= k
    BY <2>1, LeastNumber
  <2>3. i \in All
    BY <1>1, <2>1, <2>2
  <2>4. ASSUME NEW k \in 1..i - 1 PROVE ~D(k)
    <3>1. k \in Nat /\ k # 0 /\ ~(i <= k)
      BY <2>2
    <3>2. k \notin S
      BY <2>2, <3>1
    <3>3. QED
      BY <3>1, <3>2
  <2>5. QED
    BY <2>2, <2>3, <2>4
<1>3. f \in All /\ First(f)
  <2> HIDE DEF First, All
  <2>1. QED
    BY <1>2
<1>4. Path!PathCompare(a, b) = IF f > Len(a) /\ f > Len(b) THEN 0
                               ELSE IF f > Len(a) \/ CharAt(a, f) < CharAt(b, f) THEN -1 ELSE 1
  BY DEF Path!PathCompare, CharAt
<1> HIDE DEF f
<1>5. f \in Nat \ {0}
  BY <1>1, <1>3
<1>6. QED
  BY <1>3, <1>4, <1>5 DEF Differ, AgreeTo

LEMMA FirstIsOne ==
  ASSUME NEW a, NEW b, NEW f \in Nat \ {0}, NEW g \in Nat \ {0},
         Differ(a, b, f), AgreeTo(a, b, f), Differ(b, a, g), AgreeTo(b, a, g)
  PROVE  f = g
<1>1. \A k : Differ(a, b, k) <=> Differ(b, a, k)
  BY DEF Differ
<1>2. ~(f \in 1..g - 1) /\ ~(g \in 1..f - 1)
  BY <1>1 DEF AgreeTo
<1>3. QED
  BY <1>2

(* Before the first place at which paths differ, none has ended.           *)
LEMMA AgreeBefore ==
  ASSUME NEW a \in Seq(Int), NEW b \in Seq(Int), NEW f \in Nat \ {0}, AgreeTo(a, b, f)
  PROVE  f - 1 <= Len(a) /\ f - 1 <= Len(b) /\ \A k \in 1..f - 1 : a[k] = b[k]
<1>1. \A k \in 1..f - 1 : ~(k > Len(a)) /\ ~(k > Len(b)) /\ a[k] = b[k]
  BY DEF AgreeTo, Differ
<1>2. f = 1 \/ f - 1 \in 1..f - 1
  OBVIOUS
<1>3. Len(a) \in Nat /\ Len(b) \in Nat
  OBVIOUS
<1>4. f - 1 <= Len(a) /\ f - 1 <= Len(b)
  BY <1>1, <1>2, <1>3
<1>5. QED
  BY <1>1, <1>4

LEMMA ComparesEqual ==
  ASSUME NEW a \in Seq(Int), NEW b \in Seq(Int)
  PROVE  Path!PathCompare(a, b) = 0 <=> a = b
<1>1. PICK f \in Nat \ {0} :
        /\ Differ(a, b, f) /\ AgreeTo(a, b, f)
        /\ Path!PathCompare(a, b) = IF f > Len(a) /\ f > Len(b) THEN 0
                                    ELSE IF f > Len(a) \/ CharAt(a, f) < CharAt(b, f) THEN -1 ELSE 1
  BY CompareIs
<1>2. Len(a) \in Nat /\ Len(b) \in Nat
  OBVIOUS
<1>3. f - 1 <= Len(a) /\ f - 1 <= Len(b) /\ \A k \in 1..f - 1 : a[k] = b[k]
  BY <1>1, AgreeBefore
<1>4. ASSUME a = b PROVE f > Len(a) /\ f > Len(b)
  BY <1>1, <1>4 DEF Differ
<1>5. ASSUME f > Len(a), f > Len(b) PROVE a = b
  <2>1. Len(a) = f - 1 /\ Len(b) = f - 1
    BY <1>2, <1>3, <1>5
  <2>2. QED
    BY <1>3, <2>1, SameAtEach
<1>6. Path!PathCompare(a, b) = 0 <=> f > Len(a) /\ f > Len(b)
  BY <1>1
<1>7. QED
  BY <1>4, <1>5, <1>6

(* The characters of ASCII paths are not below 0.                          *)
LEMMA AsciiParts ==
  ASSUME NEW a \in Seq(Int), NEW b \in Seq(Int), Path!IsAscii(a \o b)
  PROVE  Path!IsAscii(a) /\ Path!IsAscii(b)
<1>1. /\ a \o b \in Seq(Int) /\ Len(a \o b) = Len(a) + Len(b) /\ Len(a) \in Nat /\ Len(b) \in Nat
      /\ \A i \in 1..Len(a) + Len(b) : (a \o b)[i] = IF i <= Len(a) THEN a[i] ELSE b[i - Len(a)]
  BY ConcatProperties, LenProperties
<1>0. PICK m \in Nat, n \in Nat : m = Len(a) /\ n = Len(b)
  BY <1>1
<1> DEFINE s == a \o b
<1>2. /\ DOMAIN s = 1..m + n /\ DOMAIN a = 1..m /\ DOMAIN b = 1..n
      /\ \A i \in 1..m + n : s[i] = IF i <= m THEN a[i] ELSE b[i - m]
  <2>1. s \in Seq(Int) /\ Len(s) = m + n
    BY <1>0, <1>1, Zenon
  <2>2. DOMAIN s = 1..Len(s) /\ DOMAIN a = 1..Len(a) /\ DOMAIN b = 1..Len(b)
    BY <2>1, LenProperties
  <2>3. \A i \in 1..m + n : s[i] = IF i <= m THEN a[i] ELSE b[i - m]
    BY <1>0, <1>1
  <2>4. QED
    BY <1>0, <2>1, <2>2, <2>3, Zenon
<1>3. \A i \in DOMAIN s : s[i] >= 0
  BY <1>2 DEF Path!IsAscii, Path!ToSet
<1> HIDE DEF s
<1>4. \A i \in 1..m : a[i] >= 0
  <2> TAKE i \in 1..m
  <2>1. i \in 1..m + n /\ i <= m
    OBVIOUS
  <2>2. QED
    BY <1>2, <1>3, <2>1
<1>5. \A i \in 1..n : b[i] >= 0
  <2> TAKE i \in 1..n
  <2>1. PICK k \in 1..m + n : k = m + i /\ ~(k <= m) /\ k - m = i
    OBVIOUS
  <2>2. QED
    BY <1>2, <1>3, <2>1
<1>6. QED
  BY <1>2, <1>4, <1>5 DEF Path!IsAscii, Path!ToSet

(* The order of the arguments changes the sign, unless one path begins the *)
(* other and a character is below 0.                                       *)
LEMMA StrictPrefixIs ==
  ASSUME NEW a \in Seq(Int), NEW b \in Seq(Int), Len(a) < Len(b), \A k \in 1..Len(a) : a[k] = b[k]
  PROVE  Path!IsStrictPrefix(a, b)
<1>1. Len(a) \in Nat /\ Len(b) \in Nat
  OBVIOUS
<1>2. SubSeq(a, 1, Len(a)) = SubSeq(b, 1, Len(a))
  BY <1>1
<1>3. a # b
  BY <1>1
<1>4. QED
  BY <1>1, <1>2, <1>3 DEF Path!IsStrictPrefix, Path!IsPrefix

LEMMA AsciiAt ==
  ASSUME NEW a \in Seq(Int), Path!IsAscii(a), NEW i \in 1..Len(a)
  PROVE  a[i] \in Nat
<1>1. DOMAIN a = 1..Len(a) /\ a[i] \in Int
  BY LenProperties
<1>2. QED
  BY <1>1 DEF Path!IsAscii, Path!ToSet

LEMMA OneBeginsTheOther ==
  ASSUME NEW a \in Seq(Int), NEW b \in Seq(Int), NEW f \in Nat \ {0},
         AgreeTo(a, b, f), f > Len(a), f <= Len(b)
  PROVE  Path!IsStrictPrefix(a, b) /\ (Path!IsAscii(b) => b[f] >= 0)
<1>1. Len(a) \in Nat /\ Len(b) \in Nat
  OBVIOUS
<1>2. f - 1 <= Len(a) /\ \A k \in 1..f - 1 : a[k] = b[k]
  BY AgreeBefore
<1>3. Len(a) = f - 1 /\ Len(a) < Len(b) /\ f \in 1..Len(b)
  BY <1>1, <1>2
<1>4. Path!IsStrictPrefix(a, b)
  BY <1>2, <1>3, StrictPrefixIs
<1>5. Path!IsAscii(b) => b[f] \in Nat
  BY <1>3, AsciiAt
<1>6. QED
  BY <1>4, <1>5

LEMMA AgreeIsSymmetric ==
  ASSUME NEW a, NEW b, NEW f, AgreeTo(a, b, f)
  PROVE  AgreeTo(b, a, f)
BY DEF AgreeTo, Differ

LEMMA OppositeIs == \A x, y : (x = 0 /\ y = 0) \/ (x = 1 /\ y = -1) \/ (x = -1 /\ y = 1) => x = -y
<1> SUFFICES ASSUME NEW x, NEW y, (x = 0 /\ y = 0) \/ (x = 1 /\ y = -1) \/ (x = -1 /\ y = 1) PROVE x = -y
  OBVIOUS
<1>1. PICK n \in Int, m \in Int : n = x /\ m = y /\ n + m = 0
  OBVIOUS
<1>2. n = -m
  BY <1>1
<1>3. QED
  BY <1>1, <1>2, Zenon

LEMMA ComparesBothWays ==
  ASSUME NEW a \in Seq(Int), NEW b \in Seq(Int)
  PROVE  \/ Path!PathCompare(a, b) = -Path!PathCompare(b, a)
         \/ ~Path!IsAscii(a \o b) /\ (Path!IsStrictPrefix(a, b) \/ Path!IsStrictPrefix(b, a))
<1> DEFINE Ends(s, i) == i > Len(s)
           Below(s, t, i) == CharAt(s, i) < CharAt(t, i)
           Sign(s, t, i) == IF Ends(s, i) /\ Ends(t, i) THEN 0 ELSE IF Ends(s, i) \/ Below(s, t, i) THEN -1 ELSE 1
<1>1. PICK f \in Nat \ {0} : Differ(a, b, f) /\ AgreeTo(a, b, f) /\ Path!PathCompare(a, b) = Sign(a, b, f)
  BY CompareIs
<1>2. PICK g \in Nat \ {0} : Differ(b, a, g) /\ AgreeTo(b, a, g) /\ Path!PathCompare(b, a) = Sign(b, a, g)
  BY CompareIs
<1>3. f = g
  BY <1>1, <1>2, FirstIsOne
<1>4. Path!PathCompare(b, a) = Sign(b, a, f)
  BY <1>2, <1>3
<1>5. /\ Ends(a, f) => CharAt(a, f) = 0
      /\ Ends(b, f) => CharAt(b, f) = 0
      /\ ~Ends(a, f) => CharAt(a, f) = a[f] /\ f \in 1..Len(a) /\ a[f] \in Int
      /\ ~Ends(b, f) => CharAt(b, f) = b[f] /\ f \in 1..Len(b) /\ b[f] \in Int
  BY DEF CharAt
<1>6. CASE Ends(a, f) /\ Ends(b, f)
  <2>1. Path!PathCompare(a, b) = 0 /\ Path!PathCompare(b, a) = 0
    BY <1>1, <1>4, <1>6
  <2>2. QED
    BY <2>1, OppositeIs, Zenon
<1>7. CASE ~Ends(a, f) /\ ~Ends(b, f)
  <2>1. a[f] # b[f]
    BY <1>1, <1>7 DEF Differ
  <2>2. Below(a, b, f) <=> ~Below(b, a, f)
    BY <1>5, <1>7, <2>1
  <2>3. QED
    BY <1>1, <1>4, <1>7, <2>2
<1>8. CASE Ends(a, f) /\ ~Ends(b, f)
  <2>1. Path!IsStrictPrefix(a, b) /\ (Path!IsAscii(b) => b[f] >= 0)
    BY <1>1, <1>5, <1>8, OneBeginsTheOther
  <2>2. CASE Path!IsAscii(a \o b)
    <3>1. b[f] >= 0
      BY <2>1, <2>2, AsciiParts
    <3>2. ~Below(b, a, f)
      BY <1>5, <1>8, <3>1
    <3>3. Path!PathCompare(a, b) = -1 /\ Path!PathCompare(b, a) = 1
      BY <1>1, <1>4, <1>8, <3>2
    <3>4. QED
      BY <3>3, OppositeIs, Zenon
  <2>3. QED
    BY <2>1, <2>2
<1>9. CASE ~Ends(a, f) /\ Ends(b, f)
  <2>1. Path!IsStrictPrefix(b, a) /\ (Path!IsAscii(a) => a[f] >= 0)
    BY <1>2, <1>3, <1>5, <1>9, OneBeginsTheOther
  <2>2. CASE Path!IsAscii(a \o b)
    <3>1. a[f] >= 0
      BY <2>1, <2>2, AsciiParts
    <3>2. ~Below(a, b, f)
      BY <1>5, <1>9, <3>1
    <3>3. Path!PathCompare(a, b) = 1 /\ Path!PathCompare(b, a) = -1
      BY <1>1, <1>4, <1>9, <3>2
    <3>4. QED
      BY <3>3, OppositeIs, Zenon
  <2>3. QED
    BY <2>1, <2>2
<1>10. QED
  BY <1>6, <1>7, <1>8, <1>9

(* ASCII paths are in the order of the words of a dictionary, in which the *)
(* end of a path comes before every character.                             *)
Letter(a, i) == IF i <= Len(a) THEN a[i] ELSE -1
InOrder(a, b) ==
  \A i \in Nat \ {0} : (\A k \in 1..i - 1 : Letter(a, k) = Letter(b, k)) => Letter(a, i) <= Letter(b, i)

LEMMA LetterType ==
  ASSUME NEW a \in Seq(Int), NEW i \in Nat \ {0}
  PROVE  Letter(a, i) \in Int
<1>1. Len(a) \in Nat
  OBVIOUS
<1>2. i <= Len(a) => i \in 1..Len(a)
  BY <1>1
<1>3. QED
  BY <1>2 DEF Letter

LEMMA InOrderTransitive ==
  ASSUME NEW a \in Seq(Int), NEW b \in Seq(Int), NEW c \in Seq(Int), InOrder(a, b), InOrder(b, c)
  PROVE  InOrder(a, c)
<1> SUFFICES ASSUME NEW i \in Nat \ {0}, \A k \in 1..i - 1 : Letter(a, k) = Letter(c, k)
             PROVE  Letter(a, i) <= Letter(c, i)
  BY DEF InOrder
<1> DEFINE At(s, k) == Letter(s, k)
           Out(j) == At(a, j) # At(b, j) \/ At(b, j) # At(c, j)
           S == {j \in Nat : j # 0 /\ Out(j)}
<1>1. \A k \in Nat \ {0} : At(a, k) \in Int /\ At(b, k) \in Int /\ At(c, k) \in Int
  BY LetterType
<1>2. \A k \in 1..i - 1 : At(a, k) = At(c, k)
  OBVIOUS
<1>3. /\ \A j \in Nat \ {0} : (\A k \in 1..j - 1 : At(a, k) = At(b, k)) => At(a, j) <= At(b, j)
      /\ \A j \in Nat \ {0} : (\A k \in 1..j - 1 : At(b, k) = At(c, k)) => At(b, j) <= At(c, j)
  BY DEF InOrder
<1> HIDE DEF At
<1>4. SUFFICES At(a, i) <= At(c, i)
  BY DEF At
<1>5. CASE \A j \in S : i <= j
  <2>1. ASSUME NEW k \in 1..i - 1 PROVE At(a, k) = At(b, k) /\ At(b, k) = At(c, k)
    <3>1. k \in Nat /\ k # 0 /\ ~(i <= k)
      OBVIOUS
    <3>2. QED
      BY <1>5, <3>1
  <2>2. At(a, i) <= At(b, i) /\ At(b, i) <= At(c, i)
    BY <1>3, <2>1
  <2>3. QED
    BY <1>1, <2>2
<1>6. CASE \E j \in S : ~(i <= j)
  <2>1. PICK j \in S : \A k \in S : j <= k
    <3>1. S \subseteq Nat /\ S # {}
      BY <1>6
    <3>2. QED
      BY <3>1, LeastNumber
  <2>2. j \in 1..i - 1 /\ j \in Nat \ {0} /\ Out(j)
    <3>1. PICK h \in S : ~(i <= h)
      BY <1>6
    <3>2. j <= h /\ j \in Nat /\ h \in Nat /\ j # 0
      BY <2>1, <3>1
    <3>3. QED
      BY <2>1, <3>1, <3>2
  <2>3. ASSUME NEW k \in 1..j - 1 PROVE At(a, k) = At(b, k) /\ At(b, k) = At(c, k)
    <3>1. k \in Nat /\ k # 0 /\ ~(j <= k)
      BY <2>2
    <3>2. k \notin S
      BY <2>1, <3>1
    <3>3. QED
      BY <3>1, <3>2
  <2>4. At(a, j) <= At(b, j) /\ At(b, j) <= At(c, j)
    BY <1>3, <2>2, <2>3
  <2>5. At(a, j) = At(c, j)
    BY <1>2, <2>2
  <2>6. QED
    BY <1>1, <2>2, <2>4, <2>5
<1>7. QED
  BY <1>5, <1>6

LEMMA AsciiOrder ==
  ASSUME NEW a \in Seq(Int), NEW b \in Seq(Int), Path!IsAscii(a), Path!IsAscii(b)
  PROVE  Path!PathCompare(a, b) <= 0 <=> InOrder(a, b)
<1>1. PICK f \in Nat \ {0} :
        /\ Differ(a, b, f) /\ AgreeTo(a, b, f)
        /\ Path!PathCompare(a, b) = IF f > Len(a) /\ f > Len(b) THEN 0
                                    ELSE IF f > Len(a) \/ CharAt(a, f) < CharAt(b, f) THEN -1 ELSE 1
  BY CompareIs
<1>2. Len(a) \in Nat /\ Len(b) \in Nat
  OBVIOUS
<1>3. f - 1 <= Len(a) /\ f - 1 <= Len(b) /\ \A k \in 1..f - 1 : a[k] = b[k]
  BY <1>1, AgreeBefore
<1>4. \A k \in 1..f - 1 : Letter(a, k) = Letter(b, k)
  BY <1>2, <1>3 DEF Letter
<1>5. /\ f > Len(a) => CharAt(a, f) = 0 /\ Letter(a, f) = -1
      /\ f > Len(b) => CharAt(b, f) = 0 /\ Letter(b, f) = -1
      /\ ~(f > Len(a)) => CharAt(a, f) = a[f] /\ Letter(a, f) = a[f] /\ f \in 1..Len(a)
      /\ ~(f > Len(b)) => CharAt(b, f) = b[f] /\ Letter(b, f) = b[f] /\ f \in 1..Len(b)
  BY <1>2 DEF CharAt, Letter
<1>6. /\ ~(f > Len(a)) => a[f] \in Nat
      /\ ~(f > Len(b)) => b[f] \in Nat
  BY <1>5, AsciiAt
<1>7. Path!PathCompare(a, b) <= 0 <=> Letter(a, f) <= Letter(b, f)
  <2>1. CASE f > Len(a) /\ f > Len(b)
    BY <1>1, <1>5, <2>1
  <2>2. CASE f > Len(a) /\ ~(f > Len(b))
    BY <1>1, <1>5, <1>6, <2>2
  <2>3. CASE ~(f > Len(a)) /\ f > Len(b)
    <3>1. ~(CharAt(a, f) < CharAt(b, f)) /\ ~(Letter(a, f) <= Letter(b, f))
      BY <1>5, <1>6, <2>3
    <3>2. QED
      BY <1>1, <2>3, <3>1
  <2>4. CASE ~(f > Len(a)) /\ ~(f > Len(b))
    <3>1. a[f] # b[f]
      BY <1>1, <2>4 DEF Differ
    <3>2. CharAt(a, f) < CharAt(b, f) <=> Letter(a, f) <= Letter(b, f)
      BY <1>5, <1>6, <2>4, <3>1
    <3>3. QED
      BY <1>1, <2>4, <3>2
  <2>5. QED
    BY <2>1, <2>2, <2>3, <2>4
<1>8. InOrder(a, b) => Letter(a, f) <= Letter(b, f)
  BY <1>4 DEF InOrder
<1>9. ASSUME Letter(a, f) <= Letter(b, f) PROVE InOrder(a, b)
  <2>1. SUFFICES ASSUME NEW i \in Nat \ {0}, \A k \in 1..i - 1 : Letter(a, k) = Letter(b, k)
                 PROVE  Letter(a, i) <= Letter(b, i)
    BY DEF InOrder
  <2>2. CASE i < f
    <3>1. Letter(a, i) = Letter(b, i) /\ Letter(a, i) \in Int
      BY <1>4, <2>2, LetterType
    <3>2. QED
      BY <3>1
  <2>3. CASE i = f
    BY <1>9, <2>3
  <2>4. CASE i > f
    <3>1. Letter(a, f) = Letter(b, f)
      BY <2>1, <2>4
    <3>2. f > Len(a) /\ f > Len(b)
      <4>1. CASE ~(f > Len(a)) /\ ~(f > Len(b))
        BY <1>1, <1>5, <3>1, <4>1 DEF Differ
      <4>2. CASE f > Len(a) /\ ~(f > Len(b))
        BY <1>5, <1>6, <3>1, <4>2
      <4>3. CASE ~(f > Len(a)) /\ f > Len(b)
        BY <1>5, <1>6, <3>1, <4>3
      <4>4. QED
        BY <4>1, <4>2, <4>3
    <3>3. ~(i <= Len(a)) /\ ~(i <= Len(b))
      BY <1>2, <2>4, <3>2
    <3>4. QED
      BY <3>3 DEF Letter
  <2>5. QED
    BY <2>2, <2>3, <2>4
<1>10. QED
  BY <1>7, <1>8, <1>9

LEMMA ComparesAlwaysInOrder == \A a, b, c \in Seq(Int) : Path!ComparesInOrder(a, b, c)
<1> SUFFICES ASSUME NEW a \in Seq(Int), NEW b \in Seq(Int), NEW c \in Seq(Int) PROVE Path!ComparesInOrder(a, b, c)
  OBVIOUS
<1>1. ASSUME Path!IsAscii(a \o b \o c), Path!PathCompare(a, b) <= 0, Path!PathCompare(b, c) <= 0
      PROVE  Path!PathCompare(a, c) <= 0
  <2>1. a \o b \in Seq(Int)
    BY ConcatProperties
  <2>2. Path!IsAscii(a) /\ Path!IsAscii(b) /\ Path!IsAscii(c)
    BY <1>1, <2>1, AsciiParts
  <2>3. InOrder(a, b) /\ InOrder(b, c)
    BY <1>1, <2>2, AsciiOrder
  <2>4. InOrder(a, c)
    BY <2>3, InOrderTransitive
  <2>5. QED
    BY <2>2, <2>4, AsciiOrder
<1>2. QED
  BY <1>1, ComparesEqual, ComparesBothWays DEF Path!ComparesInOrder

(* The functions of paths (path.cpp) split, join and compare as PathsRight *)
(* says, of paths of any characters and of any length: nothing is lost by  *)
(* a path that is split or joined, and the order of ASCII paths is total.  *)
THEOREM PathsAlwaysRight ==
  ASSUME input.of = "one path" => input.a \in Seq(Int),
         input.of = "paths" => input.a \in Seq(Int) /\ input.b \in Seq(Int) /\ input.c \in Seq(Int)
  PROVE  PathsRight
BY SplitsAlwaysBack, JoinsAlwaysBack, ComparesAlwaysInOrder DEF PathsRight
=============================================================================
