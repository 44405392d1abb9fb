------------------------- MODULE MutexRegistryProofs -------------------------
(***************************************************************************)
(* Theorems of MutexRegistry, for any finite set of mutexes, any callers   *)
(* and any number of polls; and that the registry implements LiveList.     *)
(***************************************************************************)
EXTENDS MutexRegistry, DataLemmas, FiniteSetTheorems, SequenceTheorems, TLAPS

(***************************************************************************)
(* Whoever has the list's mutex is in one of its critical sections.        *)
(***************************************************************************)
InSection(m) == phase[m] \in {"linking", "linked", "unlinking", "unlinked"}
InCall(c) == caller[c].pc \in {"listing", "copying"}

HolderInv ==
  /\ \A m \in Mutexes : InSection(m) <=> holder = m
  /\ \A c \in Callers : InCall(c) <=> holder = c

(***************************************************************************)
(* A node has links once it is made, its own until it is linked; the mutex *)
(* of the list is made before it; and no caller is left after the end.     *)
(***************************************************************************)
NodeInv ==
  /\ \A m \in Mutexes : phase[m] # "none" => next[m] \in Mutexes /\ prev[m] \in Mutexes /\ initialised
  /\ \A m \in Mutexes : phase[m] \in {"ready", "linking"} => next[m] = m /\ prev[m] = m

CallerInv ==
  \A c \in Callers : /\ caller[c].pc # "idle" => initialised
                     /\ exited => caller[c].pc = "idle"

(***************************************************************************)
(* The list as a sequence q of n mutexes, oldest first, whose ends meet.   *)
(***************************************************************************)
IsRing(n, q) ==
  /\ q \in [1..n -> Mutexes]
  /\ \A i, j \in 1..n : q[i] = q[j] => i = j
  /\ \A m \in Mutexes : m \in Live <=> \E i \in 1..n : q[i] = m
  /\ head = IF n = 0 THEN None ELSE q[1]
  /\ \A i \in 1..n : /\ next[q[i]] = IF i = n THEN q[1] ELSE q[i + 1]
                     /\ prev[q[i]] = IF i = 1 THEN q[n] ELSE q[i - 1]

RingInv == \E n \in Nat : \E q \in [1..n -> Mutexes] : IsRing(n, q)

(***************************************************************************)
(* No counter is ahead of the list's, and what has the list's counter is   *)
(* the list, unless a change of it is under way.                           *)
(***************************************************************************)
VersionInv ==
  /\ last_change_counter <= change_counter
  /\ \A c \in Callers : /\ caller[c].polled <= change_counter
                        /\ caller[c].known <= change_counter

CacheInv ==
  /\ ~exited /\ ~Changing /\ last_change_counter = change_counter => cache = Walk
  /\ \A c \in Callers : caller[c].pc = "copying" => last_change_counter = change_counter

StateInv == TypeOK /\ HolderInv /\ NodeInv /\ CallerInv
ListInv == VersionInv /\ CacheInv /\ CacheKeepsNoneAlive /\ KnownIsCurrent
Inv == StateInv /\ RingInv /\ ListInv

-----------------------------------------------------------------------------
LEMMA RingLinks ==
  ASSUME RingInv
  PROVE  /\ head # None => head \in Live
         /\ \A m \in Live : next[m] \in Live /\ prev[m] \in Live
<1>1. PICK n \in Nat : \E q \in [1..n -> Mutexes] : IsRing(n, q)
  BY DEF RingInv
<1>2. PICK q \in [1..n -> Mutexes] : IsRing(n, q)
  BY <1>1
<1>3. \A i \in 1..n : q[i] \in Live
  BY <1>2 DEF IsRing
<1>4. head # None => head \in Live
  BY <1>2, <1>3 DEF IsRing
<1>5. ASSUME NEW m \in Live PROVE next[m] \in Live /\ prev[m] \in Live
  <2>1. PICK i \in 1..n : q[i] = m
    BY <1>2 DEF IsRing, Live
  <2>2. 1 \in 1..n /\ n \in 1..n /\ (i # n => i + 1 \in 1..n) /\ (i # 1 => i - 1 \in 1..n)
    OBVIOUS
  <2>3. next[m] = (IF i = n THEN q[1] ELSE q[i + 1]) /\ prev[m] = (IF i = 1 THEN q[n] ELSE q[i - 1])
    BY <1>2, <2>1 DEF IsRing
  <2>4. QED
    BY <1>3, <2>2, <2>3
<1>6. QED
  BY <1>4, <1>5

LEMMA ConstructStep ==
  ASSUME StateInv, NEW m \in Mutexes, Construct(m)
  PROVE  StateInv'
<1> USE NoneAssumption, MutexesAssumption, MaxCallsAssumption DEF StateInv, Construct, Phase, links, cached
<1>1. TypeOK'
  BY DEF TypeOK, Phases
<1>2. HolderInv'
  BY DEF TypeOK, HolderInv, InSection, InCall
<1>3. NodeInv'
  BY DEF TypeOK, NodeInv, HolderInv, InSection
<1>4. CallerInv'
  BY DEF TypeOK, CallerInv, HolderInv, InCall
<1>5. QED
  BY <1>1, <1>2, <1>3, <1>4

LEMMA ConstructLockStep ==
  ASSUME StateInv, NEW m \in Mutexes, ConstructLock(m)
  PROVE  StateInv'
<1> USE NoneAssumption, MutexesAssumption, MaxCallsAssumption DEF StateInv, ConstructLock, Phase, Lock, links, cached
<1>1. TypeOK'
  BY DEF TypeOK, Phases
<1>2. HolderInv'
  BY DEF TypeOK, HolderInv, InSection, InCall
<1>3. NodeInv'
  BY DEF TypeOK, NodeInv, HolderInv, InSection
<1>4. CallerInv'
  BY DEF TypeOK, CallerInv, HolderInv, InCall
<1>5. QED
  BY <1>1, <1>2, <1>3, <1>4

LEMMA LinkStep ==
  ASSUME StateInv, RingInv, NEW m \in Mutexes, Link(m)
  PROVE  StateInv'
<1> USE NoneAssumption, MutexesAssumption, MaxCallsAssumption DEF StateInv, Link, Phase, links, cached
<1>0. head # None => head \in Mutexes /\ head \in Live /\ prev[head] \in Mutexes /\ prev[head] \in Live
  BY RingLinks DEF Live
<1>1. TypeOK'
  <2>1. CASE head = None
    BY <2>1 DEF TypeOK, Phases
  <2>2. CASE head # None
    <3>1. next' \in [Mutexes -> Mutexes \union {None}]
      BY <1>0, <2>2 DEF TypeOK
    <3>2. prev' \in [Mutexes -> Mutexes \union {None}]
      BY <1>0, <2>2 DEF TypeOK
    <3>3. QED
      BY <2>2, <3>1, <3>2 DEF TypeOK, Phases
  <2>3. QED
    BY <2>1, <2>2
<1>2. HolderInv'
  BY DEF TypeOK, HolderInv, InSection, InCall
<1>3. NodeInv'
  <2>1. CASE head = None
    BY <2>1 DEF TypeOK, NodeInv
  <2>2. CASE head # None
    <3>1. /\ phase[head] \in {"linked", "alive", "unlinking"}
          /\ phase[prev[head]] \in {"linked", "alive", "unlinking"}
      BY <1>0, <2>2 DEF Live
    <3>2. ASSUME NEW x \in Mutexes
          PROVE  /\ next'[x] = IF x = prev[head] THEN m ELSE IF x = m THEN head ELSE next[x]
                 /\ prev'[x] = IF x = head THEN m ELSE IF x = m THEN prev[head] ELSE prev[x]
      BY <1>0, <2>2 DEF TypeOK
    <3>3. QED
      BY <1>0, <2>2, <3>1, <3>2 DEF TypeOK, NodeInv
  <2>3. QED
    BY <2>1, <2>2
<1>4. CallerInv'
  BY DEF TypeOK, CallerInv, HolderInv, InCall
<1>5. QED
  BY <1>1, <1>2, <1>3, <1>4

LEMMA ConstructedStep ==
  ASSUME StateInv, NEW m \in Mutexes, Constructed(m)
  PROVE  StateInv'
<1> USE NoneAssumption, MutexesAssumption, MaxCallsAssumption DEF StateInv, Constructed, Phase, Invalidate, Unlock, links, cached
<1>1. TypeOK'
  BY DEF TypeOK, Phases
<1>2. HolderInv'
  BY DEF TypeOK, HolderInv, InSection, InCall
<1>3. NodeInv'
  BY DEF TypeOK, NodeInv, HolderInv, InSection
<1>4. CallerInv'
  BY DEF TypeOK, CallerInv, HolderInv, InCall
<1>5. QED
  BY <1>1, <1>2, <1>3, <1>4

LEMMA DestroyStep ==
  ASSUME StateInv, NEW m \in Mutexes, Destroy(m)
  PROVE  StateInv'
<1> USE NoneAssumption, MutexesAssumption, MaxCallsAssumption DEF StateInv, Destroy, Phase, Lock, links, cached
<1>1. TypeOK'
  BY DEF TypeOK, Phases
<1>2. HolderInv'
  BY DEF TypeOK, HolderInv, InSection, InCall
<1>3. NodeInv'
  BY DEF TypeOK, NodeInv, HolderInv, InSection
<1>4. CallerInv'
  BY DEF TypeOK, CallerInv, HolderInv, InCall
<1>5. QED
  BY <1>1, <1>2, <1>3, <1>4

LEMMA UnlinkStep ==
  ASSUME StateInv, RingInv, NEW m \in Mutexes, Unlink(m)
  PROVE  StateInv'
<1> USE NoneAssumption, MutexesAssumption, MaxCallsAssumption DEF StateInv, Unlink, Phase, HeadWithout, links, cached
<1>1. TypeOK'
  BY DEF TypeOK, Phases
<1>2. HolderInv'
  BY DEF TypeOK, HolderInv, InSection, InCall
<1>3. NodeInv'
  <2>1. /\ next[m] \in Live /\ prev[m] \in Live
    BY RingLinks DEF Live
  <2>2. ASSUME NEW x \in Mutexes
        PROVE  /\ next'[x] = IF x = prev[m] THEN next[m] ELSE next[x]
               /\ prev'[x] = IF x = next[m] THEN prev[m] ELSE prev[x]
    BY DEF TypeOK
  <2>3. QED
    BY <2>1, <2>2 DEF TypeOK, NodeInv, Live
<1>4. CallerInv'
  BY DEF TypeOK, CallerInv, HolderInv, InCall
<1>5. QED
  BY <1>1, <1>2, <1>3, <1>4

LEMMA DestroyedStep ==
  ASSUME StateInv, NEW m \in Mutexes, Destroyed(m)
  PROVE  StateInv'
<1> USE NoneAssumption, MutexesAssumption, MaxCallsAssumption DEF StateInv, Destroyed, Phase, Invalidate, Unlock, links, cached
<1>1. TypeOK'
  BY DEF TypeOK, Phases
<1>2. HolderInv'
  BY DEF TypeOK, HolderInv, InSection, InCall
<1>3. NodeInv'
  BY DEF TypeOK, NodeInv, HolderInv, InSection
<1>4. CallerInv'
  BY DEF TypeOK, CallerInv, HolderInv, InCall
<1>5. QED
  BY <1>1, <1>2, <1>3, <1>4

LEMMA GetMetadataChangeCounterStep ==
  ASSUME StateInv, NEW c \in Callers, GetMetadataChangeCounter(c)
  PROVE  StateInv'
<1> USE NoneAssumption, MutexesAssumption, MaxCallsAssumption DEF StateInv, GetMetadataChangeCounter, At, links, cached
<1>1. TypeOK'
  <2>1. calls + 1 \in 0..MaxCalls
    BY DEF TypeOK
  <2>2. [[caller[c] EXCEPT !.polled = change_counter] EXCEPT !.pc = "polled"]
          \in [pc : {"idle", "polled", "listing", "copying"}, polled : Nat, known : Nat, list : Seq(Mutexes)]
    BY DEF TypeOK
  <2>3. caller' \in [Callers -> [pc : {"idle", "polled", "listing", "copying"},
                               polled : Nat, known : Nat, list : Seq(Mutexes)]]
    BY <2>2 DEF TypeOK
  <2>4. QED
    BY <2>1, <2>3 DEF TypeOK
<1>2. HolderInv'
  BY DEF TypeOK, HolderInv, InSection, InCall
<1>3. NodeInv'
  BY DEF TypeOK, NodeInv, HolderInv, InSection
<1>4. CallerInv'
  BY DEF TypeOK, CallerInv, HolderInv, InCall
<1>5. QED
  BY <1>1, <1>2, <1>3, <1>4

LEMMA StillKnownStep ==
  ASSUME StateInv, NEW c \in Callers, StillKnown(c)
  PROVE  StateInv'
<1> USE NoneAssumption, MutexesAssumption, MaxCallsAssumption DEF StateInv, StillKnown, At, links, cached
<1>1. TypeOK'
  BY DEF TypeOK, Phases
<1>2. HolderInv'
  BY DEF TypeOK, HolderInv, InSection, InCall
<1>3. NodeInv'
  BY DEF TypeOK, NodeInv, HolderInv, InSection
<1>4. CallerInv'
  BY DEF TypeOK, CallerInv, HolderInv, InCall
<1>5. QED
  BY <1>1, <1>2, <1>3, <1>4

LEMMA GetAllMetadataStep ==
  ASSUME StateInv, NEW c \in Callers, GetAllMetadata(c)
  PROVE  StateInv'
<1> USE NoneAssumption, MutexesAssumption, MaxCallsAssumption DEF StateInv, GetAllMetadata, At, Lock, links, cached
<1>1. TypeOK'
  BY DEF TypeOK, Phases
<1>2. HolderInv'
  BY DEF TypeOK, HolderInv, InSection, InCall
<1>3. NodeInv'
  BY DEF TypeOK, NodeInv, HolderInv, InSection
<1>4. CallerInv'
  BY DEF TypeOK, CallerInv, HolderInv, InCall
<1>5. QED
  BY <1>1, <1>2, <1>3, <1>4

LEMMA RegenerateStep ==
  ASSUME StateInv, RingInv, Walk \in Seq(Mutexes), NEW c \in Callers, Regenerate(c)
  PROVE  StateInv'
<1> USE NoneAssumption, MutexesAssumption, MaxCallsAssumption DEF StateInv, Regenerate, At, links, cached
<1>1. TypeOK'
  BY DEF TypeOK, Phases
<1>2. HolderInv'
  BY DEF TypeOK, HolderInv, InSection, InCall
<1>3. NodeInv'
  BY DEF TypeOK, NodeInv, HolderInv, InSection
<1>4. CallerInv'
  BY DEF TypeOK, CallerInv, HolderInv, InCall
<1>5. QED
  BY <1>1, <1>2, <1>3, <1>4

LEMMA ReturnStep ==
  ASSUME StateInv, NEW c \in Callers, Return(c)
  PROVE  StateInv'
<1> USE NoneAssumption, MutexesAssumption, MaxCallsAssumption DEF StateInv, Return, At, Unlock, links, cached
<1>1. TypeOK'
  BY DEF TypeOK, Phases
<1>2. HolderInv'
  BY DEF TypeOK, HolderInv, InSection, InCall
<1>3. NodeInv'
  BY DEF TypeOK, NodeInv, HolderInv, InSection
<1>4. CallerInv'
  BY DEF TypeOK, CallerInv, HolderInv, InCall
<1>5. QED
  BY <1>1, <1>2, <1>3, <1>4

LEMMA DropStep ==
  ASSUME StateInv, NEW c \in Callers, Drop(c)
  PROVE  StateInv'
<1> USE NoneAssumption, MutexesAssumption, MaxCallsAssumption DEF StateInv, Drop, At, links, cached
<1>1. TypeOK'
  <2>1. <<>> \in Seq(Mutexes)
    OBVIOUS
  <2>2. [[caller[c] EXCEPT !.list = <<>>, !.known = 0] EXCEPT !.pc = "idle"]
          \in [pc : {"idle", "polled", "listing", "copying"}, polled : Nat, known : Nat, list : Seq(Mutexes)]
    BY <2>1 DEF TypeOK
  <2>3. caller' \in [Callers -> [pc : {"idle", "polled", "listing", "copying"},
                               polled : Nat, known : Nat, list : Seq(Mutexes)]]
    BY <2>2 DEF TypeOK
  <2>4. QED
    BY <2>3 DEF TypeOK
<1>2. HolderInv'
  BY DEF TypeOK, HolderInv, InSection, InCall
<1>3. NodeInv'
  BY DEF TypeOK, NodeInv, HolderInv, InSection
<1>4. CallerInv'
  BY DEF TypeOK, CallerInv, HolderInv, InCall
<1>5. QED
  BY <1>1, <1>2, <1>3, <1>4

LEMMA ExitStep ==
  ASSUME StateInv, Exit
  PROVE  StateInv'
<1> USE NoneAssumption, MutexesAssumption, MaxCallsAssumption DEF StateInv, Exit, links, cached
<1>1. TypeOK'
  BY DEF TypeOK, Phases
<1>2. HolderInv'
  BY DEF TypeOK, HolderInv, InSection, InCall
<1>3. NodeInv'
  BY DEF TypeOK, NodeInv, HolderInv, InSection
<1>4. CallerInv'
  BY DEF TypeOK, CallerInv, HolderInv, InCall
<1>5. QED
  BY <1>1, <1>2, <1>3, <1>4

-----------------------------------------------------------------------------
(***************************************************************************)
(* The loop over the links visits the list.                                *)
(***************************************************************************)
LEMMA WalkIsRing ==
  ASSUME NEW n \in Nat, NEW q \in [1..n -> Mutexes], IsRing(n, q)
  PROVE  Walk = q
<1> USE NoneAssumption
<1> DEFINE N == Cardinality(Mutexes)
           visit == CHOOSE v : v = [i \in 0..N |-> IF i = 0 THEN head ELSE next[v[i - 1]]]
           closes(k) == visit[k] = head
           length == IF \E k \in 1..N : closes(k)
                       THEN CHOOSE k \in 1..N : closes(k) /\ \A j \in 1..(k - 1) : ~closes(j)
                       ELSE N
<1>1. Walk = IF head = None THEN <<>> ELSE [i \in 1..length |-> visit[i - 1]]
  BY DEF Walk
<1>2. N \in Nat /\ n <= N
  <2>1. N \in Nat
    BY MutexesAssumption, FS_CardinalityType
  <2>2. q \in Injection(1..n, Mutexes)
    BY DEF Injection, IsInjective, IsRing
  <2>3. Cardinality(1..n) = n
    BY FS_Interval
  <2>4. QED
    BY <2>1, <2>2, <2>3, MutexesAssumption, FS_Injection
<1> HIDE DEF N
<1>3. visit = [i \in 0..N |-> IF i = 0 THEN head ELSE next[visit[i - 1]]]
  <2>1. PICK w : Iterates(w, N, next, head)
    BY <1>2, Iteration
  <2>2. QED
    BY <2>1, Zenon DEF Iterates
<1> HIDE DEF visit
<1>4. CASE n = 0
  <2>1. q = <<>>
    BY <1>4
  <2>2. QED
    BY <1>1, <1>4, <2>1 DEF IsRing
<1>5. CASE n # 0
  <2>1. head = q[1] /\ head # None
    BY <1>5 DEF IsRing
  <2>2. \A i \in 0..(n - 1) : visit[i] = q[i + 1]
    <3> DEFINE S == {i \in Nat : visit[i] = q[i + 1]}
    <3>1. 0 \in S
      BY <1>2, <1>3, <2>1
    <3>2. ASSUME NEW i \in 0..(n - 1), i < n - 1, i \in S PROVE i + 1 \in S
      <4>1. visit[i + 1] = next[visit[i]]
        BY <1>2, <1>3, <3>2
      <4>2. next[q[i + 1]] = q[(i + 1) + 1]
        BY <3>2 DEF IsRing
      <4>3. QED
        BY <3>2, <4>1, <4>2
    <3>3. n - 1 \in Nat
      BY <1>5
    <3> HIDE DEF S
    <3>4. 0..(n - 1) \subseteq S
      BY <3>1, <3>2, <3>3, EveryNumberTo
    <3>5. QED
      BY <3>4 DEF S
  <2>3. closes(n)
    <3>1. visit[n] = next[visit[n - 1]]
      BY <1>2, <1>3, <1>5
    <3>2. visit[n - 1] = q[n]
      BY <1>5, <2>2
    <3>3. QED
      BY <1>5, <2>1, <3>1, <3>2 DEF IsRing
  <2>4. ASSUME NEW k \in 1..(n - 1) PROVE ~closes(k)
    BY <2>1, <2>2 DEF IsRing
  <2>5. length = n
    <3>1. n \in 1..N
      BY <1>2, <1>5
    <3>2. \A k \in 1..N : (closes(k) /\ \A j \in 1..(k - 1) : ~closes(j)) <=> k = n
      BY <1>2, <1>5, <2>3, <2>4, <3>1
    <3> HIDE DEF closes
    <3>3. QED
      BY <2>3, <3>1, <3>2
  <2> HIDE DEF length
  <2>6. Walk = [i \in 1..n |-> visit[i - 1]]
    BY <1>1, <2>1, <2>5
  <2>7. \A i \in 1..n : visit[i - 1] = q[i]
    BY <2>2
  <2>8. QED
    BY <2>6, <2>7
<1>6. QED
  BY <1>4, <1>5

LEMMA NextWalkIsRing ==
  (\A n \in Nat : \A q \in [1..n -> Mutexes] : IsRing(n, q) => Walk = q)'
<1>1. \A n \in Nat : \A q \in [1..n -> Mutexes] : IsRing(n, q) => Walk = q
  BY WalkIsRing
<1>2. QED
  BY <1>1, PTL

LEMMA WalkType ==
  ASSUME RingInv
  PROVE  /\ Len(Walk) \in Nat
         /\ Walk \in Seq(Mutexes)
         /\ IsRing(Len(Walk), Walk)
<1>1. PICK n \in Nat : \E q \in [1..n -> Mutexes] : IsRing(n, q)
  BY DEF RingInv
<1>2. PICK q \in [1..n -> Mutexes] : IsRing(n, q)
  BY <1>1
<1>3. Walk = q
  BY <1>2, WalkIsRing
<1>4. q \in Seq(Mutexes) /\ Len(q) = n
  OBVIOUS
<1>5. QED
  BY <1>2, <1>3, <1>4

(***************************************************************************)
(* RemoveAt, element by element.                                           *)
(***************************************************************************)
LEMMA RemoveAtElements ==
  ASSUME NEW S, NEW s \in Seq(S), NEW k \in 1..Len(s)
  PROVE  RemoveAt(s, k) = [i \in 1..(Len(s) - 1) |-> IF i < k THEN s[i] ELSE s[i + 1]]
<1> DEFINE a == SubSeq(s, 1, k - 1)
           b == SubSeq(s, k + 1, Len(s))
           ab == a \o b
<1>1. Len(s) \in Nat /\ \A i \in 1..Len(s) : s[i] \in S
  OBVIOUS
<1>2. a \in Seq(S) /\ Len(a) = k - 1 /\ \A i \in 1..(k - 1) : a[i] = s[i]
  BY <1>1
<1>3. b \in Seq(S) /\ Len(b) = Len(s) - k /\ \A i \in 1..(Len(s) - k) : b[i] = s[k + i]
  BY <1>1
<1> HIDE DEF a, b
<1>4. ab \in Seq(S) /\ Len(ab) = Len(s) - 1
  <2>1. ab \in Seq(S) /\ Len(ab) = Len(a) + Len(b)
    BY <1>2, <1>3, ConcatProperties
  <2>2. QED
    BY <1>1, <1>2, <1>3, <2>1
<1>5. ASSUME NEW i \in 1..(Len(s) - 1) PROVE ab[i] = IF i < k THEN s[i] ELSE s[i + 1]
  <2>1. CASE i < k
    <3>1. ab[i] = a[i]
      BY <1>1, <1>2, <1>3, <2>1
    <3>2. QED
      BY <1>1, <1>2, <2>1, <3>1
  <2>2. CASE ~(i < k)
    <3>1. ab[i] = b[i - (k - 1)]
      BY <1>1, <1>2, <1>3, <2>2
    <3>2. i - (k - 1) \in 1..(Len(s) - k) /\ k + (i - (k - 1)) = i + 1
      BY <1>1, <2>2
    <3>3. QED
      BY <1>3, <2>2, <3>1, <3>2
  <2>3. QED
    BY <2>1, <2>2
<1>6. ab \in [1..(Len(s) - 1) -> S]
  <2>1. \A x \in Seq(S) : x \in [1..Len(x) -> S]
    OBVIOUS
  <2>2. QED
    BY <1>4, <2>1
<1>7. RemoveAt(s, k) = ab
  BY DEF RemoveAt, a, b
<1> HIDE DEF ab
<1>8. QED
  BY <1>5, <1>6, <1>7

(***************************************************************************)
(* What the steps do to the list: Link appends, Unlink removes, and no     *)
(* other step changes it.                                                  *)
(***************************************************************************)
LEMMA WalkStays == ASSUME UNCHANGED links PROVE Walk' = Walk
  BY DEF Walk, links

LEMMA RingStays ==
  ASSUME RingInv, UNCHANGED links, \A m \in Mutexes : (m \in Live)' <=> m \in Live
  PROVE  RingInv'
<1>1. PICK n \in Nat : \E q \in [1..n -> Mutexes] : IsRing(n, q)
  BY DEF RingInv
<1>2. PICK q \in [1..n -> Mutexes] : IsRing(n, q)
  BY <1>1
<1>3. IsRing(n, q)'
  BY <1>2 DEF IsRing, links
<1>4. QED
  BY <1>3 DEF RingInv

LEMMA LinkRing ==
  ASSUME StateInv, RingInv, NEW m \in Mutexes, Link(m)
  PROVE  /\ RingInv'
         /\ m \notin ToSet(Walk)
         /\ Walk' = Append(Walk, m)
<1> USE NoneAssumption DEF StateInv
<1>1. PICK n \in Nat : \E q \in [1..n -> Mutexes] : IsRing(n, q)
  BY DEF RingInv
<1>2. PICK q \in [1..n -> Mutexes] : IsRing(n, q)
  BY <1>1
<1>3. m \notin Live /\ next[m] = m /\ prev[m] = m
  BY DEF Link, Phase, Live, NodeInv
<1>4. \A x \in Mutexes : (x \in Live)' <=> (x \in Live \/ x = m)
  BY DEF Link, Phase, Live, TypeOK
<1> DEFINE r == [i \in 1..(n + 1) |-> IF i = n + 1 THEN m ELSE q[i]]
<1>5. \A i \in 1..n : q[i] # m /\ q[i] \in Mutexes
  BY <1>2, <1>3 DEF IsRing
<1>6. /\ r \in [1..(n + 1) -> Mutexes]
      /\ r[n + 1] = m
      /\ \A i \in 1..n : r[i] = q[i]
      /\ 1..(n + 1) = 1..n \union {n + 1}
  OBVIOUS
<1> HIDE DEF r
<1>7. r = Append(q, m)
  <2>1. q \in Seq(Mutexes) /\ Len(q) = n
    OBVIOUS
  <2>2. Append(q, m) \in Seq(Mutexes) /\ Len(Append(q, m)) = n + 1
    BY <2>1
  <2>3. \A i \in 1..(n + 1) : Append(q, m)[i] = r[i]
    BY <1>6, <2>1
  <2>4. Append(q, m) \in [1..(n + 1) -> Mutexes]
    <3>1. \A s \in Seq(Mutexes) : s \in [1..Len(s) -> Mutexes]
      OBVIOUS
    <3>2. QED
      BY <2>2, <3>1
  <2>5. QED
    BY <1>6, <2>3, <2>4
<1>8. \A i, j \in 1..(n + 1) : r[i] = r[j] => i = j
  BY <1>2, <1>5, <1>6 DEF IsRing
<1>9. \A x \in Mutexes : (x \in Live)' <=> \E i \in 1..(n + 1) : r[i] = x
  BY <1>2, <1>4, <1>5, <1>6 DEF IsRing
<1>10. ASSUME n = 0 PROVE IsRing(n + 1, r)'
  <2>1. head' = m /\ next'[m] = m /\ prev'[m] = m
    BY <1>2, <1>3, <1>10 DEF IsRing, Link
  <2>2. head' = IF n + 1 = 0 THEN None ELSE r[1]
    BY <1>6, <1>10, <2>1
  <2>3. ASSUME NEW i \in 1..(n + 1)
        PROVE  /\ next'[r[i]] = IF i = n + 1 THEN r[1] ELSE r[i + 1]
               /\ prev'[r[i]] = IF i = 1 THEN r[n + 1] ELSE r[i - 1]
    BY <1>6, <1>10, <2>1
  <2>4. QED
    BY <1>6, <1>8, <1>9, <2>2, <2>3, Zenon DEF IsRing
<1>11. ASSUME n # 0 PROVE IsRing(n + 1, r)'
  <2>1. head = q[1] /\ head # None /\ prev[head] = q[n] /\ 1 \in 1..n /\ n \in 1..n
    BY <1>2, <1>11 DEF IsRing
  <2>2. head' = q[1]
    BY <2>1 DEF Link
  <2>3. \A x \in Mutexes : next'[x] = IF x = q[n] THEN m ELSE IF x = m THEN q[1] ELSE next[x]
    BY <1>5, <2>1 DEF Link, TypeOK
  <2>4. \A x \in Mutexes : prev'[x] = IF x = q[1] THEN m ELSE IF x = m THEN q[n] ELSE prev[x]
    BY <1>5, <2>1 DEF Link, TypeOK
  <2>5. head' = IF n + 1 = 0 THEN None ELSE r[1]
    BY <1>6, <2>1, <2>2
  <2>6. ASSUME NEW i \in 1..(n + 1)
        PROVE  /\ next'[r[i]] = IF i = n + 1 THEN r[1] ELSE r[i + 1]
               /\ prev'[r[i]] = IF i = 1 THEN r[n + 1] ELSE r[i - 1]
    <3>1. CASE i = n + 1
      BY <1>5, <1>6, <2>1, <2>3, <2>4, <3>1
    <3>2. CASE i = n
      <4>1. r[i] = q[n] /\ next'[r[i]] = m
        BY <1>5, <1>6, <2>1, <2>3, <3>2
      <4>2. prev'[r[i]] = IF i = 1 THEN m ELSE q[i - 1]
        BY <1>2, <1>5, <1>6, <2>1, <2>4, <3>2 DEF IsRing
      <4>3. QED
        BY <1>6, <2>1, <3>2, <4>1, <4>2
    <3>3. CASE i \in 1..n /\ i # n
      <4>1. r[i] = q[i] /\ i + 1 \in 1..n /\ q[i] # q[n]
        BY <1>2, <1>6, <2>1, <3>3 DEF IsRing
      <4>2. next'[r[i]] = q[i + 1]
        BY <1>2, <1>5, <2>3, <3>3, <4>1 DEF IsRing
      <4>3. prev'[r[i]] = IF i = 1 THEN m ELSE q[i - 1]
        BY <1>2, <1>5, <2>1, <2>4, <3>3, <4>1 DEF IsRing
      <4>4. QED
        BY <1>6, <3>3, <4>1, <4>2, <4>3
    <3>4. QED
      BY <1>6, <3>1, <3>2, <3>3
  <2>7. QED
    BY <1>6, <1>8, <1>9, <2>5, <2>6, Zenon DEF IsRing
<1>12. n + 1 \in Nat /\ IsRing(n + 1, r)'
  BY <1>10, <1>11
<1>13. Walk' = r
  BY <1>6, <1>12, NextWalkIsRing
<1>14. Walk = q
  BY <1>2, WalkIsRing
<1>15. m \notin ToSet(Walk)
  BY <1>5, <1>14 DEF ToSet
<1>16. QED
  BY <1>6, <1>7, <1>12, <1>13, <1>14, <1>15 DEF RingInv

LEMMA UnlinkRing ==
  ASSUME StateInv, RingInv, NEW m \in Mutexes, Unlink(m)
  PROVE  /\ RingInv'
         /\ \E i \in 1..Len(Walk) : Walk[i] = m /\ Walk' = RemoveAt(Walk, i)
<1> USE NoneAssumption DEF StateInv
<1>1. PICK n \in Nat : \E q \in [1..n -> Mutexes] : IsRing(n, q)
  BY DEF RingInv
<1>2. PICK q \in [1..n -> Mutexes] : IsRing(n, q)
  BY <1>1
<1>3. m \in Live
  BY DEF Unlink, Phase, Live
<1>4. \A x \in Mutexes : (x \in Live)' <=> (x \in Live /\ x # m)
  BY DEF Unlink, Phase, Live, TypeOK
<1>5. PICK k \in 1..n : q[k] = m
  BY <1>2, <1>3 DEF IsRing
<1> DEFINE before == IF k = 1 THEN q[n] ELSE q[k - 1]
           after == IF k = n THEN q[1] ELSE q[k + 1]
           r == [i \in 1..(n - 1) |-> IF i < k THEN q[i] ELSE q[i + 1]]
<1>6. next[m] = after /\ prev[m] = before /\ before \in Mutexes /\ after \in Mutexes
  BY <1>2, <1>5 DEF IsRing
<1>7. /\ \A x \in Mutexes : next'[x] = IF x = before THEN after ELSE next[x]
      /\ \A x \in Mutexes : prev'[x] = IF x = after THEN before ELSE prev[x]
      /\ head' = IF head # m THEN head ELSE IF after = m THEN None ELSE after
  BY <1>6 DEF Unlink, HeadWithout, TypeOK
<1>8. /\ n - 1 \in Nat
      /\ r \in [1..(n - 1) -> Mutexes]
      /\ \A i \in 1..(n - 1) : r[i] = IF i < k THEN q[i] ELSE q[i + 1]
  OBVIOUS
<1>9. \A i, j \in 1..n : q[i] = q[j] => i = j
  BY <1>2 DEF IsRing
<1> HIDE DEF r
<1>10. \A i, j \in 1..(n - 1) : r[i] = r[j] => i = j
  <2> TAKE i, j \in 1..(n - 1)
  <2>1. i \in 1..n /\ i + 1 \in 1..n /\ j \in 1..n /\ j + 1 \in 1..n
    OBVIOUS
  <2>2. QED
    BY <1>8, <1>9, <2>1
<1>11. \A x \in Mutexes : (x \in Live)' <=> \E i \in 1..(n - 1) : r[i] = x
  <2>1. ASSUME NEW x \in Mutexes, (x \in Live)' PROVE \E i \in 1..(n - 1) : r[i] = x
    <3>1. PICK j \in 1..n : q[j] = x /\ j # k
      BY <1>2, <1>4, <1>5, <2>1 DEF IsRing
    <3>2. CASE j < k
      BY <1>8, <3>1, <3>2
    <3>3. CASE j > k
      <4>1. j - 1 \in 1..(n - 1) /\ ~(j - 1 < k)
        BY <3>3
      <4>2. r[j - 1] = q[j]
        BY <1>8, <4>1
      <4>3. QED
        BY <3>1, <4>1, <4>2
    <3>4. QED
      BY <3>1, <3>2, <3>3
  <2>2. ASSUME NEW i \in 1..(n - 1) PROVE r[i] # m /\ \E j \in 1..n : q[j] = r[i]
    BY <1>5, <1>8, <1>9
  <2>3. ASSUME NEW x \in Mutexes, NEW i \in 1..(n - 1), r[i] = x PROVE (x \in Live)'
    <3>1. x # m /\ \E j \in 1..n : q[j] = x
      BY <2>2, <2>3
    <3>2. x \in Live
      BY <1>2, <3>1 DEF IsRing
    <3>3. QED
      BY <1>4, <3>1, <3>2
  <2>4. QED
    BY <2>1, <2>3
<1>12. head' = IF n - 1 = 0 THEN None ELSE r[1]
  <2>1. head = q[1] /\ 1 \in 1..n
    BY <1>2, <1>5 DEF IsRing
  <2>2. CASE k = 1
    BY <1>5, <1>7, <1>8, <1>9, <2>1, <2>2
  <2>3. CASE k # 1
    BY <1>5, <1>7, <1>8, <1>9, <2>1, <2>3
  <2>4. QED
    BY <2>2, <2>3
<1>13. ASSUME NEW i \in 1..(n - 1)
       PROVE  next'[r[i]] = IF i = n - 1 THEN r[1] ELSE r[i + 1]
  <2>1. r[i] \in Mutexes /\ 1 \in 1..n /\ n \in 1..n
    BY <1>8
  <2>2. CASE i + 1 < k
    <3>1. r[i] = q[i] /\ r[i + 1] = q[i + 1] /\ i + 1 \in 1..(n - 1)
      BY <1>8, <2>2
    <3>2. q[i] # before
      BY <1>9, <2>1, <2>2
    <3>3. next[q[i]] = q[i + 1]
      BY <1>2, <2>2 DEF IsRing
    <3>4. QED
      BY <1>7, <2>1, <2>2, <3>1, <3>2, <3>3
  <2>3. CASE i + 1 = k
    <3>1. r[i] = before
      BY <1>8, <2>3
    <3>2. after = IF i = n - 1 THEN r[1] ELSE r[i + 1]
      BY <1>8, <2>1, <2>3
    <3>3. QED
      BY <1>7, <2>1, <3>1, <3>2
  <2>4. CASE i + 1 > k
    <3>1. r[i] = q[i + 1] /\ i + 1 \in 1..n
      BY <1>8, <2>4
    <3>2. CASE i = n - 1
      <4>1. r[i] = q[n] /\ next[q[n]] = q[1]
        BY <1>2, <2>1, <3>1, <3>2 DEF IsRing
      <4>2. CASE k = 1
        BY <1>7, <1>8, <2>1, <3>2, <4>1, <4>2
      <4>3. CASE k # 1
        <5>1. q[n] # before
          BY <1>9, <2>4, <4>3
        <5>2. r[1] = q[1]
          BY <1>8, <4>3
        <5>3. QED
          BY <1>7, <2>1, <3>2, <4>1, <5>1, <5>2
      <4>4. QED
        BY <4>2, <4>3
    <3>3. CASE i # n - 1
      <4>1. r[i + 1] = q[(i + 1) + 1] /\ next[q[i + 1]] = q[(i + 1) + 1]
        BY <1>2, <1>8, <2>4, <3>1, <3>3 DEF IsRing
      <4>2. q[i + 1] # before
        BY <1>9, <2>1, <2>4, <3>1, <3>3
      <4>3. QED
        BY <1>7, <2>1, <3>1, <3>3, <4>1, <4>2
    <3>4. QED
      BY <3>2, <3>3
  <2>5. QED
    BY <2>2, <2>3, <2>4
<1>14. ASSUME NEW i \in 1..(n - 1)
       PROVE  prev'[r[i]] = IF i = 1 THEN r[n - 1] ELSE r[i - 1]
  <2>1. r[i] \in Mutexes /\ 1 \in 1..n /\ n \in 1..n /\ n - 1 \in 1..(n - 1)
    BY <1>8
  <2>2. CASE i < k
    <3>1. r[i] = q[i] /\ i \in 1..n
      BY <1>8, <2>2
    <3>2. CASE i = 1
      <4>1. prev[q[1]] = q[n]
        BY <1>2, <2>1 DEF IsRing
      <4>2. CASE k = n
        <5>1. q[1] = after /\ before = q[n - 1] /\ r[n - 1] = q[n - 1]
          BY <1>8, <2>1, <2>2, <3>2, <4>2
        <5>2. QED
          BY <1>7, <2>1, <3>1, <3>2, <5>1
      <4>3. CASE k # n
        <5>1. q[1] # after
          BY <1>9, <2>1, <2>2, <4>3
        <5>2. r[n - 1] = q[n]
          BY <1>8, <2>1, <4>3
        <5>3. QED
          BY <1>7, <2>1, <3>1, <3>2, <4>1, <5>1, <5>2
      <4>4. QED
        BY <4>2, <4>3
    <3>3. CASE i # 1
      <4>1. prev[q[i]] = q[i - 1] /\ r[i - 1] = q[i - 1]
        BY <1>2, <1>8, <2>2, <3>1, <3>3 DEF IsRing
      <4>2. q[i] # after
        BY <1>9, <2>1, <2>2, <3>1, <3>3
      <4>3. QED
        BY <1>7, <2>1, <3>1, <3>3, <4>1, <4>2
    <3>4. QED
      BY <3>2, <3>3
  <2>3. CASE i = k
    <3>1. r[i] = after
      BY <1>8, <2>3
    <3>2. before = IF i = 1 THEN r[n - 1] ELSE r[i - 1]
      BY <1>8, <2>1, <2>3
    <3>3. QED
      BY <1>7, <2>1, <3>1, <3>2
  <2>4. CASE i > k
    <3>1. r[i] = q[i + 1] /\ r[i - 1] = q[i] /\ i + 1 \in 1..n
      BY <1>8, <2>4
    <3>2. q[i + 1] # after
      BY <1>9, <2>1, <2>4, <3>1
    <3>3. prev[q[i + 1]] = q[i]
      BY <1>2, <2>4, <3>1 DEF IsRing
    <3>4. QED
      BY <1>7, <2>1, <2>4, <3>1, <3>2, <3>3
  <2>5. QED
    BY <2>2, <2>3, <2>4
<1>15. IsRing(n - 1, r)'
  BY <1>8, <1>10, <1>11, <1>12, <1>13, <1>14, Zenon DEF IsRing
<1>16. Walk' = r
  BY <1>8, <1>15, NextWalkIsRing
<1>17. Walk = q
  BY <1>2, WalkIsRing
<1>18. q \in Seq(Mutexes) /\ Len(q) = n /\ k \in 1..Len(q)
  OBVIOUS
<1>19. r = RemoveAt(q, k)
  BY <1>18, RemoveAtElements DEF r
<1>20. QED
  BY <1>5, <1>8, <1>15, <1>16, <1>17, <1>18, <1>19 DEF RingInv

LEMMA OtherStepsRing ==
  ASSUME StateInv, RingInv, [Next]_vars, \A m \in Mutexes : ~Link(m) /\ ~Unlink(m)
  PROVE  RingInv' /\ Walk' = Walk
<1> USE DEF StateInv
<1>1. ASSUME NEW m \in Mutexes, Construct(m) PROVE RingInv' /\ Walk' = Walk
  <2>1. PICK n \in Nat : \E q \in [1..n -> Mutexes] : IsRing(n, q)
    BY DEF RingInv
  <2>2. PICK q \in [1..n -> Mutexes] : IsRing(n, q)
    BY <2>1
  <2>3. \A x \in Mutexes : (x \in Live)' <=> x \in Live
    BY <1>1 DEF Construct, Phase, Live, TypeOK
  <2>4. \A i \in 1..n : q[i] # m /\ q[i] \in Mutexes
    BY <1>1, <2>2 DEF IsRing, Construct, Phase, Live
  <2>5. \A i \in 1..n : next'[q[i]] = next[q[i]] /\ prev'[q[i]] = prev[q[i]]
    BY <1>1, <2>4 DEF Construct, TypeOK
  <2>6. UNCHANGED head
    BY <1>1 DEF Construct
  <2>7. IsRing(n, q)'
    BY <2>2, <2>3, <2>5, <2>6 DEF IsRing
  <2>8. QED
    BY <2>2, <2>7, WalkIsRing, NextWalkIsRing DEF RingInv
<1>2. ASSUME NEW m \in Mutexes,
             ConstructLock(m) \/ Constructed(m) \/ Destroy(m) \/ Destroyed(m)
      PROVE  RingInv' /\ Walk' = Walk
  <2>1. UNCHANGED links
    BY <1>2 DEF ConstructLock, Constructed, Destroy, Destroyed
  <2>2. \A x \in Mutexes : (x \in Live)' <=> x \in Live
    BY <1>2 DEF ConstructLock, Constructed, Destroy, Destroyed, Phase, Live, TypeOK
  <2>3. QED
    BY <2>1, <2>2, RingStays, WalkStays
<1>3. ASSUME UNCHANGED <<links, phase>> PROVE RingInv' /\ Walk' = Walk
  BY <1>3, RingStays, WalkStays DEF Live
<1>4. ASSUME NEW c \in Callers, Poll(c) PROVE UNCHANGED <<links, phase>>
  BY <1>4 DEF Poll, GetMetadataChangeCounter, StillKnown, GetAllMetadata, Regenerate, Return, Drop, links
<1>5. ASSUME Exit \/ Finished \/ UNCHANGED vars PROVE UNCHANGED <<links, phase>>
  BY <1>5 DEF Exit, Finished, vars, links
<1>6. QED
  BY <1>1, <1>2, <1>3, <1>4, <1>5 DEF Next, Life

LEMMA StateStep ==
  ASSUME StateInv, RingInv, [Next]_vars
  PROVE  StateInv'
<1>1. ASSUME NEW m \in Mutexes, Life(m) PROVE StateInv'
  BY <1>1, ConstructStep, ConstructLockStep, LinkStep, ConstructedStep, DestroyStep, UnlinkStep, DestroyedStep
     DEF Life
<1>2. ASSUME NEW c \in Callers, Poll(c) PROVE StateInv'
  BY <1>2, WalkType, GetMetadataChangeCounterStep, StillKnownStep, GetAllMetadataStep, RegenerateStep, ReturnStep,
     DropStep DEF Poll
<1>3. ASSUME UNCHANGED vars PROVE StateInv'
  BY <1>3 DEF StateInv, vars, links, cached, TypeOK, HolderInv, InSection, InCall, NodeInv, CallerInv
<1>4. QED
  BY <1>1, <1>2, <1>3, ExitStep DEF Next, Finished

LEMMA RingStep ==
  ASSUME StateInv, RingInv, [Next]_vars
  PROVE  RingInv'
<1>1. CASE \A m \in Mutexes : ~Link(m) /\ ~Unlink(m)
  BY <1>1, OtherStepsRing
<1>2. ASSUME NEW m \in Mutexes, Link(m) \/ Unlink(m) PROVE RingInv'
  BY <1>2, LinkRing, UnlinkRing
<1>3. QED
  BY <1>1, <1>2

-----------------------------------------------------------------------------
(***************************************************************************)
(* The counters, the cached list, and what the callers know.               *)
(***************************************************************************)
LEMMA PollStep ==
  ASSUME TypeOK, NEW c \in Callers, Poll(c), NEW d \in Callers
  PROVE  /\ caller'[d].polled \in {caller[d].polled, change_counter}
         /\ caller'[d].known \in {caller[d].known, caller[d].polled, 0}
         /\ ~Return(c) => /\ caller'[d].pc = "copying" => caller[d].pc = "copying" \/ Regenerate(c)
                          /\ \/ caller'[d].known = 0
                             \/ caller'[d].known = caller[d].known /\ caller'[d].list = caller[d].list
         /\ ~Return(c) /\ ~Drop(c) => caller'[d].list = caller[d].list
<1> USE DEF TypeOK, At
<1>1. CASE d # c
  BY <1>1 DEF Poll, GetMetadataChangeCounter, StillKnown, GetAllMetadata, Regenerate, Return, Drop
<1>2. CASE d = c /\ GetMetadataChangeCounter(c)
  BY <1>2 DEF GetMetadataChangeCounter
<1>3. CASE d = c /\ StillKnown(c)
  BY <1>3 DEF StillKnown
<1>4. CASE d = c /\ GetAllMetadata(c)
  BY <1>4 DEF GetAllMetadata
<1>5. CASE d = c /\ Regenerate(c)
  BY <1>5 DEF Regenerate
<1>6. CASE d = c /\ Return(c)
  BY <1>6 DEF Return
<1>7. CASE d = c /\ Drop(c)
  BY <1>7 DEF Drop
<1>8. QED
  BY <1>1, <1>2, <1>3, <1>4, <1>5, <1>6, <1>7 DEF Poll

LEMMA WalkContents ==
  ASSUME RingInv
  PROVE  ToSet(Walk) = Live
<1>1. Walk \in [1..Len(Walk) -> Mutexes] /\ \A m \in Mutexes : m \in Live <=> \E i \in 1..Len(Walk) : Walk[i] = m
  BY WalkType DEF IsRing
<1>2. Live \subseteq Mutexes
  BY DEF Live
<1>3. ToSet(Walk) = {Walk[i] : i \in 1..Len(Walk)}
  BY <1>1 DEF ToSet
<1>4. \A i \in 1..Len(Walk) : Walk[i] \in Mutexes
  BY <1>1
<1>5. HIDE DEF Walk, Live
<1>6. QED
  BY <1>1, <1>2, <1>3, <1>4

LEMMA VersionStep ==
  ASSUME StateInv, VersionInv, [Next]_vars
  PROVE  VersionInv'
<1>0. TypeOK
  BY DEF StateInv
<1>1. ASSUME NEW m \in Mutexes, Life(m) PROVE VersionInv'
  BY <1>0, <1>1 DEF Life, Construct, ConstructLock, Link, Constructed, Destroy, Unlink, Destroyed, Invalidate, cached,
                    VersionInv, TypeOK
<1>2. ASSUME NEW c \in Callers, Poll(c) PROVE VersionInv'
  <2>1. UNCHANGED change_counter /\ last_change_counter' \in {last_change_counter, change_counter}
    BY <1>2 DEF Poll, GetMetadataChangeCounter, StillKnown, GetAllMetadata, Regenerate, Return, Drop, cached
  <2>2. change_counter \in Nat /\ last_change_counter \in Nat
    BY <1>0 DEF TypeOK
  <2>3. ASSUME NEW d \in Callers
        PROVE  caller'[d].polled <= change_counter /\ caller'[d].known <= change_counter
    <3>1. /\ caller'[d].polled \in {caller[d].polled, change_counter}
          /\ caller'[d].known \in {caller[d].known, caller[d].polled, 0}
      BY <1>0, <1>2, PollStep
    <3>2. QED
      BY <2>2, <3>1 DEF VersionInv
  <2>4. QED
    BY <2>1, <2>2, <2>3 DEF VersionInv
<1>3. ASSUME Exit \/ Finished \/ UNCHANGED vars PROVE VersionInv'
  BY <1>3 DEF Exit, Finished, vars, cached, VersionInv
<1>4. QED
  BY <1>1, <1>2, <1>3 DEF Next

LEMMA CopyIsWalk ==
  ASSUME Inv, NEW c \in Callers, caller[c].pc = "copying"
  PROVE  cache = Walk
<1>1. ~exited
  BY DEF Inv, StateInv, CallerInv
<1>2. last_change_counter = change_counter
  BY DEF Inv, ListInv, CacheInv
<1>3. ~Changing
  BY MutexesAssumption DEF Inv, StateInv, HolderInv, InCall, InSection, Changing
<1>4. QED
  BY <1>1, <1>2, <1>3 DEF Inv, ListInv, CacheInv

LEMMA ListStep ==
  ASSUME Inv, [Next]_vars, StateInv'
  PROVE  CacheInv' /\ CacheKeepsNoneAlive' /\ KnownIsCurrent'
<1> DEFINE Goal == CacheInv' /\ CacheKeepsNoneAlive' /\ KnownIsCurrent'
<1> USE DEF Inv, StateInv, ListInv
<1>1. ASSUME NEW m \in Mutexes, Construct(m) \/ ConstructLock(m) \/ Destroy(m) PROVE Goal
  <2>1. UNCHANGED <<cached, exited, caller>>
    BY <1>1 DEF Construct, ConstructLock, Destroy
  <2>2. \A x \in Mutexes : /\ (x \in Live)' <=> x \in Live
                          /\ \A p \in {"linked", "unlinked"} : phase'[x] = p <=> phase[x] = p
    BY <1>1 DEF Construct, ConstructLock, Destroy, Phase, Live, TypeOK
  <2>3. Walk' = Walk
    BY <1>1, OtherStepsRing DEF Construct, ConstructLock, Destroy, Link, Unlink, Phase, Next, Life, TypeOK
  <2>4. CacheInv'
    BY <2>1, <2>2, <2>3 DEF CacheInv, Changing, cached
  <2>5. CacheKeepsNoneAlive'
    BY <2>1, <2>2 DEF CacheKeepsNoneAlive, cached, Live
  <2>6. KnownIsCurrent'
    BY <2>1, <2>2, <2>3 DEF KnownIsCurrent, cached
  <2>7. QED
    BY <2>4, <2>5, <2>6
<1>2. ASSUME NEW m \in Mutexes, Link(m) \/ Unlink(m) PROVE Goal
  <2>1. UNCHANGED <<cached, exited, caller>>
    BY <1>2 DEF Link, Unlink
  <2>2. phase'[m] \in {"linked", "unlinked"}
    BY <1>2 DEF Link, Unlink, Phase, TypeOK
  <2>3. \A x \in Mutexes : x \in Live \/ phase[x] = "unlinked" => (x \in Live)' \/ phase'[x] = "unlinked"
    BY <1>2 DEF Link, Unlink, Phase, Live, TypeOK
  <2>4. CacheInv'
    BY <2>1, <2>2 DEF CacheInv, Changing, cached
  <2>5. CacheKeepsNoneAlive'
    BY <2>1, <2>3 DEF CacheKeepsNoneAlive, cached, Live
  <2>6. KnownIsCurrent'
    BY <2>2 DEF KnownIsCurrent
  <2>7. QED
    BY <2>4, <2>5, <2>6
<1>3. ASSUME NEW m \in Mutexes, Constructed(m) \/ Destroyed(m) PROVE Goal
  <2>1. change_counter' = change_counter + 1 /\ cache' = <<>> /\ UNCHANGED <<last_change_counter, caller>>
    BY <1>3 DEF Constructed, Destroyed, Invalidate
  <2>2. \A c \in Callers : caller[c].pc # "copying"
    BY <1>3, MutexesAssumption DEF Constructed, Destroyed, Unlock, HolderInv, InCall
  <2>3. CacheInv'
    BY <2>1, <2>2 DEF CacheInv, VersionInv, TypeOK
  <2>4. CacheKeepsNoneAlive'
    BY <2>1 DEF CacheKeepsNoneAlive, ToSet
  <2>5. KnownIsCurrent'
    BY <2>1 DEF KnownIsCurrent, VersionInv, TypeOK
  <2>6. QED
    BY <2>3, <2>4, <2>5
<1>4. ASSUME NEW c \in Callers, GetMetadataChangeCounter(c) \/ StillKnown(c) \/ GetAllMetadata(c) \/ Drop(c)
      PROVE  Goal
  <2>1. UNCHANGED <<links, phase, cached, exited>>
    BY <1>4 DEF GetMetadataChangeCounter, StillKnown, GetAllMetadata, Drop, links, cached
  <2>2. Walk' = Walk
    BY <2>1, WalkStays
  <2>3. ~Return(c) /\ ~Regenerate(c)
    BY <1>4 DEF GetMetadataChangeCounter, StillKnown, GetAllMetadata, Drop, Return, Regenerate, At
  <2>4. Poll(c)
    BY <1>4 DEF Poll
  <2>5. \A d \in Callers : caller'[d].pc = "copying" => caller[d].pc = "copying"
    BY <2>3, <2>4, PollStep
  <2>6. \A d \in Callers :
          caller'[d].known = 0 \/ (caller'[d].known = caller[d].known /\ caller'[d].list = caller[d].list)
    BY <2>3, <2>4, PollStep
  <2>7. CacheInv'
    <3>1. /\ cache' = cache /\ last_change_counter' = last_change_counter
          /\ change_counter' = change_counter /\ exited' = exited
          /\ Changing' => Changing
          /\ Changing => Changing'
      BY <2>1 DEF cached, Changing
    <3>2. ~exited /\ ~Changing /\ last_change_counter = change_counter => cache = Walk
      BY DEF CacheInv
    <3>3. ~exited' /\ ~Changing' /\ last_change_counter' = change_counter' => cache' = Walk'
      BY <2>2, <3>1, <3>2, Zenon
    <3>4. \A d \in Callers : caller'[d].pc = "copying" => last_change_counter' = change_counter'
      <4>1. \A d \in Callers : caller[d].pc = "copying" => last_change_counter = change_counter
        BY Zenon DEF CacheInv
      <4>2. QED
        BY <2>5, <3>1, <4>1
    <3>5. QED
      BY <3>3, <3>4, Zenon DEF CacheInv
  <2>8. CacheKeepsNoneAlive'
    BY <2>1 DEF CacheKeepsNoneAlive, cached, Live
  <2>9. KnownIsCurrent'
    BY <2>1, <2>2, <2>6 DEF KnownIsCurrent, cached, TypeOK
  <2>10. QED
    BY <2>7, <2>8, <2>9
<1>5. ASSUME NEW c \in Callers, Regenerate(c) PROVE Goal
  <2>1. /\ UNCHANGED <<links, phase, change_counter, exited>>
        /\ last_change_counter' = change_counter
        /\ cache' = IF last_change_counter # change_counter THEN Walk ELSE cache
    BY <1>5 DEF Regenerate, links
  <2>2. Walk' = Walk
    BY <2>1, WalkStays
  <2>3. \A d \in Callers : UNCHANGED <<caller[d].known, caller[d].list>>
    BY <1>5 DEF Regenerate, At, TypeOK
  <2>4. CacheInv'
    BY <2>1, <2>2 DEF CacheInv, Changing
  <2>5. CacheKeepsNoneAlive'
    <3>1. ToSet(Walk) = Live
      BY WalkContents
    <3>2. QED
      BY <2>1, <3>1 DEF CacheKeepsNoneAlive, Live
  <2>6. KnownIsCurrent'
    BY <2>1, <2>2, <2>3 DEF KnownIsCurrent
  <2>7. QED
    BY <2>4, <2>5, <2>6
<1>6. ASSUME NEW c \in Callers, Return(c) PROVE Goal
  <2>1. UNCHANGED <<links, phase, cached, exited>> /\ caller[c].pc = "copying"
    BY <1>6 DEF Return, At, links, cached
  <2>2. Walk' = Walk
    BY <2>1, WalkStays
  <2>3. /\ \A d \in Callers : caller'[d].pc = "copying" => caller[d].pc = "copying"
        /\ \A d \in Callers \ {c} : UNCHANGED <<caller[d].known, caller[d].list>>
        /\ caller'[c].list = cache
    BY <1>6 DEF Return, At, TypeOK
  <2>4. cache = Walk
    BY <2>1, CopyIsWalk
  <2>5. CacheInv'
    BY <2>1, <2>2, <2>3 DEF CacheInv, Changing, cached
  <2>6. CacheKeepsNoneAlive'
    BY <2>1 DEF CacheKeepsNoneAlive, cached, Live
  <2>7. KnownIsCurrent'
    BY <2>1, <2>2, <2>3, <2>4 DEF KnownIsCurrent, cached
  <2>8. QED
    BY <2>5, <2>6, <2>7
<1>7. ASSUME Exit PROVE Goal
  <2>1. UNCHANGED <<links, phase, last_change_counter, change_counter, caller>> /\ cache' = <<>> /\ exited'
    BY <1>7 DEF Exit, links
  <2>2. Walk' = Walk
    BY <2>1, WalkStays
  <2>3. CacheInv'
    BY <2>1 DEF CacheInv
  <2>4. CacheKeepsNoneAlive'
    BY <2>1 DEF CacheKeepsNoneAlive, ToSet
  <2>5. KnownIsCurrent'
    BY <2>1, <2>2 DEF KnownIsCurrent
  <2>6. QED
    BY <2>3, <2>4, <2>5
<1>8. ASSUME UNCHANGED vars PROVE Goal
  <2>1. UNCHANGED <<links, phase, cached, exited, caller>>
    BY <1>8 DEF vars
  <2>2. Walk' = Walk
    BY <2>1, WalkStays
  <2>3. QED
    BY <2>1, <2>2 DEF cached, CacheInv, Changing, CacheKeepsNoneAlive, Live, KnownIsCurrent
<1>9. QED
  BY <1>1, <1>2, <1>3, <1>4, <1>5, <1>6, <1>7, <1>8 DEF Next, Life, Poll, Finished

LEMMA InitInv == Init => Inv
<1> SUFFICES ASSUME Init PROVE Inv
    OBVIOUS
<1> USE NoneAssumption, MutexesAssumption, MaxCallsAssumption DEF Init
<1>1. TypeOK
  <2>1. <<>> \in Seq(Mutexes)
    OBVIOUS
  <2>2. \A c \in Callers : caller[c] \in [pc : {"idle", "polled", "listing", "copying"},
                                        polled : Nat, known : Nat, list : Seq(Mutexes)]
    BY <2>1
  <2>3. caller \in [Callers -> [pc : {"idle", "polled", "listing", "copying"},
                               polled : Nat, known : Nat, list : Seq(Mutexes)]]
    BY <2>2
  <2>4. phase \in [Mutexes -> Phases]
    BY DEF Phases
  <2>5. calls \in 0..MaxCalls
    OBVIOUS
  <2>6. /\ next \in [Mutexes -> Mutexes \union {None}]
        /\ prev \in [Mutexes -> Mutexes \union {None}]
        /\ head \in Mutexes \union {None}
        /\ holder \in Mutexes \union Callers \union {None}
    OBVIOUS
  <2>7. /\ cache \in Seq(Mutexes)
        /\ last_change_counter \in Nat
        /\ change_counter \in Nat \ {0}
    BY <2>1
  <2>8. initialised \in BOOLEAN /\ exited \in BOOLEAN
    OBVIOUS
  <2>9. QED
    BY <2>3, <2>4, <2>5, <2>6, <2>7, <2>8, Zenon DEF TypeOK
<1>2. HolderInv /\ NodeInv /\ CallerInv
  BY DEF HolderInv, InSection, InCall, NodeInv, CallerInv
<1>3. IsRing(0, <<>>)
  BY DEF IsRing, Live
<1>4. RingInv
  <2>1. <<>> \in [1..0 -> Mutexes]
    OBVIOUS
  <2>2. QED
    BY <1>3, <2>1 DEF RingInv
<1>5. VersionInv /\ CacheInv /\ KnownIsCurrent
  BY DEF VersionInv, CacheInv, KnownIsCurrent
<1>6. CacheKeepsNoneAlive
  BY DEF CacheKeepsNoneAlive, ToSet
<1>7. QED
  BY <1>1, <1>2, <1>4, <1>5, <1>6 DEF Inv, StateInv, ListInv

LEMMA InvStep == Inv /\ [Next]_vars => Inv'
  BY StateStep, RingStep, VersionStep, ListStep DEF Inv, ListInv

(***************************************************************************)
(* What is said of the locks, the list, the cache and the callers holds in *)
(* every reachable state.                                                  *)
(***************************************************************************)
THEOREM RegistryInv == Spec => []Inv
  BY InitInv, InvStep, PTL DEF Spec

-----------------------------------------------------------------------------
LEMMA RingIsSound ==
  ASSUME StateInv, RingInv
  PROVE  ListSound
<1> DEFINE n == Len(Walk)
<1>1. n \in Nat /\ IsRing(n, Walk)
  BY WalkType
<1>2. ToSet(Walk) = Live
  BY WalkContents
<1>3. Cardinality(Live) = n
  <2>1. \A i \in 1..n : Walk[i] \in Live
    BY <1>1 DEF IsRing
  <2>2. Walk \in [1..n -> Live]
    BY <1>1, <2>1 DEF IsRing
  <2>3. \A i, j \in 1..n : i # j => Walk[i] # Walk[j]
    BY <1>1 DEF IsRing
  <2>4. \A m \in Live : \E i \in 1..n : Walk[i] = m
    BY <1>1 DEF IsRing, Live
  <2>5. HIDE DEF n
  <2>6. Walk \in Bijection(1..n, Live)
    BY <2>2, <2>3, <2>4 DEF Bijection, Injection, Surjection, IsInjective
  <2>7. ExistsBijection(1..n, Live)
    BY <2>6 DEF ExistsBijection
  <2>8. QED
    BY <1>1, <2>7, FS_CountingElements
<1>4. ASSUME NEW m \in Live PROVE next[prev[m]] = m /\ prev[next[m]] = m
  <2>1. PICK i \in 1..n : Walk[i] = m
    BY <1>1 DEF IsRing, Live
  <2>2. 1 \in 1..n /\ n \in 1..n /\ (i # n => i + 1 \in 1..n) /\ (i # 1 => i - 1 \in 1..n)
    BY <1>1
  <2>3. \A j \in 1..n : /\ next[Walk[j]] = IF j = n THEN Walk[1] ELSE Walk[j + 1]
                       /\ prev[Walk[j]] = IF j = 1 THEN Walk[n] ELSE Walk[j - 1]
    BY <1>1 DEF IsRing
  <2>4. next[prev[m]] = m
    <3>1. CASE i = 1
      BY <2>1, <2>2, <2>3, <3>1
    <3>2. CASE i # 1
      <4>1. prev[m] = Walk[i - 1] /\ i - 1 \in 1..n /\ i - 1 # n /\ i - 1 + 1 = i
        BY <2>1, <2>2, <2>3, <3>2
      <4>2. QED
        BY <2>1, <2>3, <4>1
    <3>3. QED
      BY <3>1, <3>2
  <2>5. prev[next[m]] = m
    <3>1. CASE i = n
      BY <2>1, <2>2, <2>3, <3>1
    <3>2. CASE i # n
      <4>1. next[m] = Walk[i + 1] /\ i + 1 \in 1..n /\ i + 1 # 1 /\ i + 1 - 1 = i
        BY <2>1, <2>2, <2>3, <3>2
      <4>2. QED
        BY <2>1, <2>3, <4>1
    <3>3. QED
      BY <3>1, <3>2
  <2>6. QED
    BY <2>4, <2>5
<1>5. QED
  BY <1>2, <1>3, <1>4 DEF ListSound, StateInv

(***************************************************************************)
(* The list stays what CheckLockedMetadataList asserts: its links invert   *)
(* each other, and a loop over it meets every mutex that exists, once.     *)
(***************************************************************************)
THEOREM RegistryStaysSound == Spec => []ListSound
<1>1. Inv => ListSound
  BY RingIsSound DEF Inv
<1>2. QED
  BY <1>1, RegistryInv, PTL

(***************************************************************************)
(* The cached vector keeps no metadata of a destroyed Mutex alive, so that *)
(* a Mutex takes its control block with it.                                *)
(***************************************************************************)
THEOREM CacheKeepsNone == Spec => []CacheKeepsNoneAlive
  BY RegistryInv, PTL DEF Inv, ListInv

(***************************************************************************)
(* GetMetadataChangeCounter and GetAllMetadata are two calls, but a caller *)
(* whose counter is still current has the current list.                    *)
(***************************************************************************)
THEOREM CounterMeansList == Spec => []KnownIsCurrent
  BY RegistryInv, PTL DEF Inv, ListInv

(***************************************************************************)
(* The mutex of the list is alive while somebody has it: a caller has it   *)
(* only before the end of the program, and a Mutex refers to it.           *)
(***************************************************************************)
THEOREM ListMutexStaysAlive == Spec => []LockedIsAlive
<1>1. ASSUME Inv, holder # None PROVE ListMutexAlive
  <2>1. CASE holder \in Mutexes
    <3>1. InSection(holder)
      BY <1>1, <2>1 DEF Inv, StateInv, HolderInv
    <3>2. InMemory(holder) /\ next[holder] \in Mutexes
      BY <1>1, <2>1, <3>1 DEF InSection, InMemory, Inv, StateInv, NodeInv
    <3>3. QED
      BY <2>1, <3>2, NoneAssumption DEF ListMutexAlive, RefersToListMutex
  <2>2. CASE holder \in Callers
    <3>1. InCall(holder)
      BY <1>1, <2>2 DEF Inv, StateInv, HolderInv
    <3>2. QED
      BY <1>1, <2>2, <3>1 DEF InCall, ListMutexAlive, Inv, StateInv, CallerInv
  <2>3. QED
    BY <1>1, <2>1, <2>2 DEF Inv, StateInv, TypeOK
<1>2. Inv => LockedIsAlive
  BY <1>1 DEF LockedIsAlive
<1>3. QED
  BY <1>2, RegistryInv, PTL

-----------------------------------------------------------------------------
(***************************************************************************)
(* The registry implements LiveList.  Link and Unlink are its Create and   *)
(* Destroy, Return tells a caller and Drop forgets; no other step shows.   *)
(***************************************************************************)
Version == IF Changing THEN change_counter + 1 ELSE change_counter
Answers == [c \in Callers |-> caller[c].list]

LEMMA OneChangeAtATime ==
  ASSUME StateInv, NEW m \in Mutexes, holder = m
  PROVE  Changing <=> phase[m] \in {"linked", "unlinked"}
BY DEF StateInv, HolderInv, InSection, Changing

LEMMA ChangeShows ==
  ASSUME StateInv, NEW m \in Mutexes, Link(m) \/ Unlink(m)
  PROVE  Version' = Version + 1 /\ Answers' = Answers
<1>1. holder = m
  BY DEF Link, Unlink, Phase, StateInv, HolderInv, InSection
<1>2. ~Changing
  BY <1>1, OneChangeAtATime DEF Link, Unlink, Phase
<1>3. Changing'
  BY DEF Link, Unlink, Phase, Changing, StateInv, TypeOK
<1>4. UNCHANGED <<change_counter, caller>>
  BY DEF Link, Unlink, cached
<1>5. Version = change_counter /\ Version' = change_counter + 1
  BY <1>2, <1>3, <1>4 DEF Version
<1>6. QED
  BY <1>4, <1>5 DEF Answers

LEMMA ChangeShown ==
  ASSUME StateInv, NEW m \in Mutexes, Constructed(m) \/ Destroyed(m)
  PROVE  Version' = Version /\ Answers' = Answers
<1>1. holder = m
  BY DEF Constructed, Destroyed, Unlock
<1>2. Changing
  BY <1>1, OneChangeAtATime DEF Constructed, Destroyed, Phase
<1>3. \A x \in Mutexes : x # m => phase[x] \notin {"linked", "unlinked"}
  BY <1>1 DEF StateInv, HolderInv, InSection
<1>4. ~Changing'
  BY <1>3 DEF Constructed, Destroyed, Phase, Changing, StateInv, TypeOK
<1>5. change_counter' = change_counter + 1 /\ UNCHANGED caller
  BY DEF Constructed, Destroyed, Invalidate
<1>6. QED
  BY <1>2, <1>4, <1>5 DEF Version, Answers

LEMMA RefinementInit ==
  ASSUME Init
  PROVE  A!Init
<1>1. IsRing(0, <<>>) /\ <<>> \in [1..0 -> Mutexes]
  BY DEF Init, IsRing, Live
<1>2. Walk = <<>>
  BY <1>1, WalkIsRing
<1>3. ~Changing /\ change_counter = 1
  BY DEF Init, Changing
<1>4. Answers = [c \in Callers |-> <<>>]
  BY DEF Init, Answers
<1>5. QED
  BY <1>2, <1>3, <1>4 DEF A!Init, Answers

LEMMA RefinementStep ==
  ASSUME Inv, [Next]_vars
  PROVE  A!Next \/ UNCHANGED <<Walk, Version, Answers>>
<1> USE DEF Inv, StateInv
<1>1. ASSUME NEW m \in Mutexes, Link(m) PROVE A!Create(m)
  <2>1. m \notin ToSet(Walk) /\ Walk' = Append(Walk, m)
    BY <1>1, LinkRing
  <2>2. Version' = Version + 1 /\ Answers' = Answers
    BY <1>1, ChangeShows
  <2>3. ~\E i \in 1..Len(Walk) : Walk[i] = m
    BY <2>1, WalkType DEF ToSet, IsRing
  <2>4. QED
    BY <2>1, <2>2, <2>3 DEF A!Create, A!Listed, Version, Answers
<1>2. ASSUME NEW m \in Mutexes, Unlink(m) PROVE A!Destroy(m)
  <2>1. \E i \in 1..Len(Walk) : Walk[i] = m /\ Walk' = RemoveAt(Walk, i)
    BY <1>2, UnlinkRing
  <2>2. Version' = Version + 1 /\ Answers' = Answers
    BY <1>2, ChangeShows
  <2>3. QED
    BY <2>1, <2>2 DEF A!Destroy, A!RemoveAt, RemoveAt, Version, Answers
<1>3. ASSUME \A m \in Mutexes : ~Link(m) /\ ~Unlink(m) PROVE Walk' = Walk
  BY <1>3, OtherStepsRing
<1>4. ASSUME NEW m \in Mutexes, Construct(m) \/ ConstructLock(m) \/ Destroy(m)
      PROVE  UNCHANGED <<Walk, Version, Answers>>
  <2>1. Walk' = Walk
    BY <1>4, OtherStepsRing DEF Construct, ConstructLock, Destroy, Link, Unlink, Phase, Next, Life, TypeOK
  <2>2. UNCHANGED <<change_counter, caller>>
    BY <1>4 DEF Construct, ConstructLock, Destroy, cached
  <2>3. Changing' <=> Changing
    BY <1>4 DEF Construct, ConstructLock, Destroy, Phase, Changing, TypeOK
  <2>4. QED
    BY <2>1, <2>2, <2>3 DEF Version, Answers
<1>5. ASSUME NEW m \in Mutexes, Constructed(m) \/ Destroyed(m)
      PROVE  UNCHANGED <<Walk, Version, Answers>>
  <2>1. Walk' = Walk
    BY <1>5, WalkStays DEF Constructed, Destroyed
  <2>2. QED
    BY <1>5, <2>1, ChangeShown
<1>6. ASSUME NEW c \in Callers, Poll(c) PROVE Walk' = Walk /\ Version' = Version
  <2>1. UNCHANGED <<links, phase, change_counter>>
    BY <1>6 DEF Poll, GetMetadataChangeCounter, StillKnown, GetAllMetadata, Regenerate, Return, Drop, links, cached
  <2>2. QED
    BY <2>1, WalkStays DEF Version, Changing
<1>7. ASSUME NEW c \in Callers, Return(c) PROVE A!Tell(c)
  <2>1. cache = Walk
    BY <1>7, CopyIsWalk DEF Return, At
  <2>2. Answers' = [Answers EXCEPT ![c] = Walk]
    BY <1>7, <2>1 DEF Return, At, TypeOK, Answers
  <2>3. QED
    BY <1>6, <1>7, <2>2 DEF Poll, A!Tell, Version, Answers
<1>8. ASSUME NEW c \in Callers, Drop(c) PROVE A!Forget(c)
  <2>1. Answers' = [Answers EXCEPT ![c] = <<>>]
    BY <1>8 DEF Drop, At, TypeOK, Answers
  <2>2. QED
    BY <1>6, <1>8, <2>1 DEF Poll, A!Forget, Version, Answers
<1>9. ASSUME NEW c \in Callers,
             GetMetadataChangeCounter(c) \/ StillKnown(c) \/ GetAllMetadata(c) \/ Regenerate(c)
      PROVE  UNCHANGED <<Walk, Version, Answers>>
  <2>1. \A d \in Callers : caller'[d].list = caller[d].list
    <3>1. CASE ~Return(c) /\ ~Drop(c)
      BY <1>9, <3>1, PollStep DEF Poll
    <3>2. ~Return(c)
      BY <1>9 DEF GetMetadataChangeCounter, StillKnown, GetAllMetadata, Regenerate, Return, At, TypeOK
    <3>3. ~Drop(c)
      BY <1>9 DEF GetMetadataChangeCounter, StillKnown, GetAllMetadata, Regenerate, Drop, At, TypeOK
    <3>4. QED
      BY <3>1, <3>2, <3>3
  <2>2. Answers' = Answers
    BY <2>1 DEF Answers
  <2>3. QED
    BY <1>6, <1>9, <2>2 DEF Poll
<1>10. ASSUME Exit \/ Finished \/ UNCHANGED vars PROVE UNCHANGED <<Walk, Version, Answers>>
  <2>1. UNCHANGED <<links, phase, change_counter, caller>>
    BY <1>10 DEF Exit, Finished, vars, links, cached
  <2>2. QED
    BY <2>1, WalkStays DEF Version, Changing, Answers
<1>11. QED
  BY <1>1, <1>2, <1>4, <1>5, <1>7, <1>8, <1>9, <1>10 DEF Next, Life, Poll, A!Next

(***************************************************************************)
(* However the steps of constructors, destructors and callers interleave,  *)
(* the registry is a list of the mutexes that exist, oldest first, whose   *)
(* version goes up at every change and whose answers are whole.            *)
(***************************************************************************)
THEOREM RegistryImplementsLiveList == Spec => RefinesLiveList
<1>1. Init => A!Init
  BY RefinementInit
<1>2. Inv /\ [Next]_vars => [A!Next]_(A!vars)
  BY RefinementStep DEF A!vars, Version, Answers
<1>3. QED
  BY <1>1, <1>2, RegistryInv, PTL DEF Spec, A!Spec, RefinesLiveList
=============================================================================
