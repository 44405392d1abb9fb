----------------------------- MODULE DataLemmas -----------------------------
(***************************************************************************)
(* Induction on the natural numbers, stated of a set of them: the provers  *)
(* cannot instantiate the induction theorems of the library, which take a  *)
(* predicate, but they can use these.  And what follows for FlattenSeq.    *)
(***************************************************************************)
EXTENDS Naturals, SequencesExt, WellFoundedInduction, SequenceTheorems, TLAPS

(***************************************************************************)
(* A set of numbers that is not empty has a least element.                 *)
(***************************************************************************)
LEMMA LeastNumber ==
  ASSUME NEW T, T \subseteq Nat, T # {}
  PROVE  \E x \in T : \A y \in T : x <= y
<1>1. IsWellFoundedOn(OpToRel(<, Nat), Nat)
  BY NatLessThanWellFounded, Zenon
<1>2. PICK x \in T : \A y \in T : ~(<<y, x>> \in OpToRel(<, Nat))
  BY <1>1, WFMin, Zenon
<1>3. ASSUME NEW y \in T PROVE x <= y
  <2>1. ~(<<y, x>> \in {ss \in Nat \X Nat : ss[1] < ss[2]})
    BY <1>2, Zenon DEF OpToRel
  <2>2. ~(y < x)
    BY <2>1
  <2>3. x \in Nat /\ y \in Nat
    OBVIOUS
  <2>4. QED
    BY <2>2, <2>3
<1>4. QED
  BY <1>3

(***************************************************************************)
(* A set with 0 and the successor of each of its numbers has them all.     *)
(***************************************************************************)
LEMMA EveryNumber ==
  ASSUME NEW S, 0 \in S, \A n \in Nat : n \in S => n + 1 \in S
  PROVE  Nat \subseteq S
<1> SUFFICES ASSUME Nat \ S # {} PROVE FALSE
    OBVIOUS
<1>1. PICK x \in Nat \ S : \A y \in Nat \ S : x <= y
  BY LeastNumber
<1>2. x # 0 /\ x - 1 \in Nat /\ x - 1 \in S
  BY <1>1
<1>3. QED
  BY <1>1, <1>2

(***************************************************************************)
(* The numbers up to n: what holds of 0 and goes from each to the next     *)
(* holds of all of them.                                                   *)
(***************************************************************************)
LEMMA EveryNumberTo ==
  ASSUME NEW n \in Nat, NEW S, 0 \in S, \A i \in 0..n : i < n /\ i \in S => i + 1 \in S
  PROVE  0..n \subseteq S
<1> DEFINE T == {i \in Nat : i <= n => i \in S}
<1>1. 0 \in T
  OBVIOUS
<1>2. \A i \in Nat : i \in T => i + 1 \in T
  OBVIOUS
<1> HIDE DEF T
<1>3. Nat \subseteq T
  BY <1>1, <1>2, EveryNumber
<1>4. QED
  BY <1>3 DEF T

(***************************************************************************)
(* A function that takes the first n steps from a along f; there is one.   *)
(***************************************************************************)
Iterates(v, n, f, a) == v = [i \in 0..n |-> IF i = 0 THEN a ELSE f[v[i - 1]]]

LEMMA Iteration ==
  ASSUME NEW n \in Nat, NEW f, NEW a
  PROVE  \E v : Iterates(v, n, f, a)
<1> DEFINE S == {k \in Nat : \E v : Iterates(v, k, f, a)}
<1>1. 0 \in S
  <2> DEFINE v == [i \in 0..0 |-> a]
  <2>1. v = [i \in 0..0 |-> IF i = 0 THEN a ELSE f[v[i - 1]]]
    OBVIOUS
  <2>2. QED
    BY <2>1 DEF Iterates
<1>2. ASSUME NEW k \in Nat, k \in S PROVE k + 1 \in S
  <2>1. PICK v : Iterates(v, k, f, a)
    BY <1>2
  <2> DEFINE w == [i \in 0..(k + 1) |-> IF i = k + 1 THEN f[v[k]] ELSE v[i]]
  <2>2. ASSUME NEW i \in 0..(k + 1) PROVE w[i] = IF i = 0 THEN a ELSE f[w[i - 1]]
    <3>1. CASE i = 0
      BY <2>1, <3>1 DEF Iterates
    <3>2. CASE i \in 1..k
      <4>1. i \in 0..k /\ i - 1 \in 0..(k + 1) /\ i - 1 # k + 1 /\ i # k + 1 /\ i # 0
        BY <3>2
      <4>2. w[i] = v[i] /\ w[i - 1] = v[i - 1]
        BY <4>1
      <4>3. v[i] = f[v[i - 1]]
        BY <2>1, <4>1 DEF Iterates
      <4>4. QED
        BY <4>1, <4>2, <4>3
    <3>3. CASE i = k + 1
      <4>1. w[i] = f[v[k]] /\ i - 1 = k /\ k \in 0..(k + 1) /\ k # k + 1
        BY <3>3
      <4>2. w[i - 1] = v[k]
        BY <4>1
      <4>3. QED
        BY <3>3, <4>1, <4>2
    <3>4. QED
      BY <3>1, <3>2, <3>3
  <2>3. Iterates(w, k + 1, f, a)
    BY <2>2 DEF Iterates
  <2>4. QED
    <3>1. k + 1 \in Nat
      OBVIOUS
    <3> HIDE DEF w
    <3>2. QED
      BY <2>3, <3>1, Zenon
<1>3. n \in S
  <2> HIDE DEF S
  <2>1. QED
    BY <1>1, <1>2, EveryNumber
<1>4. QED
  BY <1>3

-----------------------------------------------------------------------------
(***************************************************************************)
(* FlattenSeq is defined by a recursive function.  There is one, and what  *)
(* it does with one sequence more follows.                                 *)
(***************************************************************************)
Flattens(v, s) == v = [i \in 1..Len(s) |-> IF i = 1 THEN s[i] ELSE v[i - 1] \o s[i]]

LEMMA FlattensAt ==
  ASSUME NEW v, NEW s, Flattens(v, s), NEW i \in 1..Len(s)
  PROVE  v[i] = IF i = 1 THEN s[i] ELSE v[i - 1] \o s[i]
BY DEF Flattens

LEMMA FlattensGrows ==
  ASSUME NEW S, NEW s \in Seq(S), NEW x \in S, NEW v, Flattens(v, s)
  PROVE  LET n == Len(s) + 1
         IN  Flattens([i \in 1..n |-> IF i < n THEN v[i] ELSE IF n = 1 THEN x ELSE v[n - 1] \o x],
                      Append(s, x))
<1> DEFINE n == Len(s) + 1
           w == [i \in 1..n |-> IF i < n THEN v[i] ELSE IF n = 1 THEN x ELSE v[n - 1] \o x]
           t == Append(s, x)
<1>1. Len(s) \in Nat /\ Len(t) = n /\ t[n] = x /\ \A i \in 1..Len(s) : t[i] = s[i]
  BY AppendProperties
<1>2. ASSUME NEW i \in 1..n PROVE w[i] = IF i = 1 THEN t[i] ELSE w[i - 1] \o t[i]
  <2>1. CASE i < n
    <3>1. i \in 1..Len(s) /\ t[i] = s[i] /\ w[i] = v[i]
      BY <1>1, <2>1
    <3>2. v[i] = IF i = 1 THEN s[i] ELSE v[i - 1] \o s[i]
      BY <3>1 DEF Flattens
    <3>3. i # 1 => i - 1 \in 1..n /\ i - 1 < n
      BY <1>1, <3>1
    <3>4. i # 1 => w[i - 1] = v[i - 1]
      BY <3>3
    <3>5. QED
      BY <3>1, <3>2, <3>4
  <2>2. CASE i = n
    <3>1. i # 1 => n - 1 \in 1..n /\ n - 1 < n /\ n # 1
      BY <1>1, <2>2
    <3>2. i # 1 => w[n - 1] = v[n - 1]
      BY <3>1
    <3>3. n \in 1..n /\ ~(n < n)
      BY <1>1
    <3>4. w[n] = IF n = 1 THEN x ELSE v[n - 1] \o x
      BY <3>3
    <3>5. QED
      BY <1>1, <2>2, <3>2, <3>4
  <2>3. QED
    BY <1>1, <2>1, <2>2
<1>3. QED
  BY <1>1, <1>2 DEF Flattens

LEMMA FlattensExists ==
  ASSUME NEW S, NEW s \in Seq(S)
  PROVE  \E v : Flattens(v, s)
<1> DEFINE T == {n \in Nat : n <= Len(s) => \E v : Flattens(v, SubSeq(s, 1, n))}
<1>1. 0 \in T
  <2>1. SubSeq(s, 1, 0) = <<>>
    BY SubSeqEmpty
  <2>2. Flattens([i \in 1..0 |-> <<>>], <<>>)
    BY DEF Flattens
  <2>3. QED
    BY <2>1, <2>2
<1>2. ASSUME NEW n \in Nat, n \in T PROVE n + 1 \in T
  <2> SUFFICES ASSUME n + 1 <= Len(s) PROVE \E v : Flattens(v, SubSeq(s, 1, n + 1))
    OBVIOUS
  <2>0. Len(s) \in Nat /\ n + 1 \in 1..Len(s) /\ n <= Len(s)
    OBVIOUS
  <2>1. PICK v : Flattens(v, SubSeq(s, 1, n))
    BY <1>2, <2>0
  <2>2. SubSeq(s, 1, n) \in Seq(S) /\ s[n + 1] \in S
    BY <2>0
  <2>3. SubSeq(s, 1, n + 1) = Append(SubSeq(s, 1, n), s[n + 1])
    BY <2>0, <2>2, SubSeqRecursiveSecond, AppendIsConcat
  <2>4. QED
    BY <2>1, <2>2, <2>3, FlattensGrows
<1> HIDE DEF T
<1>3. Nat \subseteq T
  BY <1>1, <1>2, EveryNumber
<1>4. Len(s) \in T /\ Len(s) <= Len(s)
  BY <1>3
<1>5. \E v : Flattens(v, SubSeq(s, 1, Len(s)))
  BY <1>4, Zenon DEF T
<1>6. QED
  BY <1>5, SubSeqFull

LEMMA FlattensUnique ==
  ASSUME NEW S, NEW s \in Seq(S), NEW v, Flattens(v, s), NEW w, Flattens(w, s)
  PROVE  v = w
<1> DEFINE T == {n \in Nat : n + 1 \in 1..Len(s) => v[n + 1] = w[n + 1]}
<1>0. Len(s) \in Nat
  OBVIOUS
<1>1. 0 \in T
  BY DEF Flattens
<1>2. ASSUME NEW n \in Nat, n \in T PROVE n + 1 \in T
  <2> SUFFICES ASSUME n + 1 + 1 \in 1..Len(s) PROVE v[n + 1 + 1] = w[n + 1 + 1]
    OBVIOUS
  <2>1. n + 1 \in 1..Len(s) /\ n + 1 + 1 # 1 /\ n + 1 + 1 - 1 = n + 1
    BY <1>0
  <2>2. \A k \in 1..Len(s) : k # 1 => v[k] = v[k - 1] \o s[k] /\ w[k] = w[k - 1] \o s[k]
    BY FlattensAt
  <2>3. v[n + 1] = w[n + 1]
    BY <1>2, <2>1
  <2>4. \A k : k = n + 1 + 1 => v[k] = w[k]
    <3>1. ASSUME NEW k, k = n + 1 + 1 PROVE v[k] = w[k]
      <4>1. k \in 1..Len(s) /\ k # 1 /\ k - 1 = n + 1
        BY <2>1, <3>1
      <4>2. QED
        BY <2>2, <2>3, <4>1
    <3>2. QED
      BY <3>1
  <2>5. QED
    BY <2>4
<1> HIDE DEF T
<1>3. Nat \subseteq T
  BY <1>1, <1>2, EveryNumber
<1>4. ASSUME NEW i \in 1..Len(s) PROVE v[i] = w[i]
  <2>1. i - 1 \in Nat /\ i - 1 + 1 = i
    BY <1>0
  <2>2. QED
    BY <1>3, <2>1 DEF T
<1>5. QED
  BY <1>4 DEF Flattens

LEMMA FlattenIsLast ==
  ASSUME NEW S, NEW s \in Seq(S), s # <<>>, NEW v, Flattens(v, s)
  PROVE  FlattenSeq(s) = v[Len(s)]
<1> DEFINE f[i \in 1..Len(s)] == IF i = 1 THEN s[i] ELSE f[i - 1] \o s[i]
<1>1. f = CHOOSE g : Flattens(g, s)
  BY DEF Flattens
<1>2. Flattens(f, s)
  BY <1>1
<1>3. FlattenSeq(s) = f[Len(s)]
  BY DEF FlattenSeq
<1> HIDE DEF f
<1>4. QED
  BY <1>2, <1>3, FlattensUnique

LEMMA FlattenEmpty == FlattenSeq(<<>>) = <<>>
BY DEF FlattenSeq

(***************************************************************************)
(* A sequence of sequences that grows by one: its text grows by that one.  *)
(***************************************************************************)
LEMMA FlattenAppend ==
  ASSUME NEW S, NEW s \in Seq(Seq(S)), NEW x \in Seq(S)
  PROVE  FlattenSeq(Append(s, x)) = FlattenSeq(s) \o x
<1>1. PICK v : Flattens(v, s)
  BY FlattensExists
<1> DEFINE n == Len(s) + 1
           w == [i \in 1..n |-> IF i < n THEN v[i] ELSE IF n = 1 THEN x ELSE v[n - 1] \o x]
<1>2. Append(s, x) \in Seq(Seq(S)) /\ Append(s, x) # <<>> /\ Len(Append(s, x)) = n /\ Len(s) \in Nat
  BY AppendProperties
<1>3. FlattenSeq(Append(s, x)) = w[n]
  BY <1>1, <1>2, FlattensGrows, FlattenIsLast
<1>4. w[n] = IF n = 1 THEN x ELSE v[n - 1] \o x
  BY <1>2
<1>5. CASE s = <<>>
  BY <1>3, <1>4, <1>5, FlattenEmpty, ConcatEmptySeq
<1>6. CASE s # <<>>
  <2>1. FlattenSeq(s) = v[Len(s)] /\ n # 1 /\ n - 1 = Len(s)
    BY <1>1, <1>2, <1>6, FlattenIsLast, EmptySeq
  <2>2. QED
    BY <1>3, <1>4, <2>1
<1>7. QED
  BY <1>5, <1>6

LEMMA FlattenType ==
  ASSUME NEW S, NEW s \in Seq(Seq(S))
  PROVE  FlattenSeq(s) \in Seq(S)
<1>1. CASE s = <<>>
  <2>1. FlattenSeq(s) = <<>> /\ <<>> \in Seq(S)
    BY <1>1, FlattenEmpty, EmptySeq
  <2>2. QED
    BY <2>1
<1>2. CASE s # <<>>
  <2>1. PICK v : Flattens(v, s)
    BY FlattensExists
  <2> DEFINE T == {n \in Nat : n + 1 \in 1..Len(s) => v[n + 1] \in Seq(S)}
  <2>2. Len(s) \in Nat \ {0} /\ \A i \in 1..Len(s) : s[i] \in Seq(S)
    BY <1>2, EmptySeq, ElementOfSeq
  <2>3. 0 \in T
    BY <2>1, <2>2 DEF Flattens
  <2>4. ASSUME NEW n \in Nat, n \in T PROVE n + 1 \in T
    <3> SUFFICES ASSUME n + 1 + 1 \in 1..Len(s) PROVE v[n + 1 + 1] \in Seq(S)
      OBVIOUS
    <3>1. n + 1 \in 1..Len(s) /\ n + 1 + 1 # 1 /\ n + 1 + 1 - 1 = n + 1
      BY <2>2
    <3>2. \A k \in 1..Len(s) : k # 1 => v[k] = v[k - 1] \o s[k]
      BY <2>1, FlattensAt
    <3>3. v[n + 1] \in Seq(S)
      BY <2>4, <3>1
    <3>4. ASSUME NEW k, k = n + 1 + 1 PROVE v[k] \in Seq(S)
      <4>1. k \in 1..Len(s) /\ k # 1 /\ k - 1 = n + 1
        BY <3>1, <3>4
      <4>2. v[k] = v[n + 1] \o s[k] /\ s[k] \in Seq(S)
        BY <2>2, <3>2, <4>1
      <4>3. QED
        BY <3>3, <4>2, ConcatProperties
    <3>5. QED
      BY <3>4
  <2> HIDE DEF T
  <2>5. Nat \subseteq T
    BY <2>3, <2>4, EveryNumber
  <2>6. Len(s) - 1 \in Nat /\ Len(s) - 1 + 1 = Len(s) /\ Len(s) \in 1..Len(s)
    BY <2>2
  <2>7. v[Len(s)] \in Seq(S)
    BY <2>5, <2>6 DEF T
  <2>8. QED
    BY <1>2, <2>1, <2>7, FlattenIsLast
<1>3. QED
  BY <1>1, <1>2

-----------------------------------------------------------------------------
(***************************************************************************)
(* A value for each step is what the steps before it make of the first.    *)
(***************************************************************************)
FollowsFrom(v, n, a, f) == v = [i \in 0..n |-> IF i = 0 THEN a ELSE f[i][v[i - 1]]]

LEMMA Recurs ==
  ASSUME NEW T, NEW n \in Nat, NEW a \in T, NEW f \in [Nat -> [T -> T]]
  PROVE  \E v \in [0..n -> T] : FollowsFrom(v, n, a, f)
<1> USE DEF FollowsFrom
<1> DEFINE Good(v, k) == FollowsFrom(v, k, a, f)
           S == {k \in Nat : \E v \in [0..k -> T] : Good(v, k)}
<1>1. 0 \in S
  <2> DEFINE v == [i \in 0..0 |-> a]
  <2>1. v \in [0..0 -> T] /\ Good(v, 0)
    OBVIOUS
  <2>2. QED
    BY <2>1
<1>2. ASSUME NEW k \in Nat, k \in S PROVE k + 1 \in S
  <2>1. PICK v \in [0..k -> T] : Good(v, k)
    BY <1>2
  <2>2. f[k + 1][v[k]] \in T
    <3>1. k \in 0..k /\ k + 1 \in Nat
      OBVIOUS
    <3>2. v[k] \in T /\ f[k + 1] \in [T -> T]
      BY <3>1
    <3>3. QED
      BY <3>2
  <2> DEFINE w == [i \in 0..(k + 1) |-> IF i = k + 1 THEN f[k + 1][v[k]] ELSE v[i]]
  <2>3. w \in [0..(k + 1) -> T]
    <3>1. \A i \in 0..(k + 1) : i # k + 1 => i \in 0..k
      OBVIOUS
    <3>2. \A i \in 0..(k + 1) : i # k + 1 => v[i] \in T
      BY <3>1
    <3>3. QED
      BY <2>2, <3>2
  <2>4. ASSUME NEW i \in 0..(k + 1) PROVE w[i] = IF i = 0 THEN a ELSE f[i][w[i - 1]]
    <3>1. CASE i = 0
      BY <2>1, <3>1
    <3>2. CASE i \in 1..k
      <4>1. i \in 0..k /\ i - 1 \in 0..(k + 1) /\ i - 1 # k + 1 /\ i # k + 1 /\ i # 0
        BY <3>2
      <4>2. w[i] = v[i] /\ w[i - 1] = v[i - 1]
        BY <4>1
      <4>3. v[i] = f[i][v[i - 1]]
        BY <2>1, <4>1
      <4>4. QED
        BY <4>1, <4>2, <4>3
    <3>3. CASE i = k + 1
      <4>1. w[i] = f[k + 1][v[k]] /\ i - 1 = k /\ k \in 0..(k + 1) /\ k # k + 1 /\ i # 0
        BY <3>3
      <4>2. w[i - 1] = v[k]
        BY <4>1
      <4>3. QED
        BY <3>3, <4>1, <4>2
    <3>4. QED
      BY <3>1, <3>2, <3>3
  <2>5. Good(w, k + 1)
    BY <2>4
  <2>6. k + 1 \in Nat
    OBVIOUS
  <2> HIDE DEF w, Good
  <2>7. QED
    BY <2>3, <2>5, <2>6, Zenon
<1>3. n \in S
  <2> HIDE DEF S
  <2>1. QED
    BY <1>1, <1>2, EveryNumber
<1>4. QED
  BY <1>3

(***************************************************************************)
(* Behind sequences of one element each, the first element of the next one *)
(* is at its place.                                                        *)
(***************************************************************************)
LEMMA FlattenBehindSingles ==
  ASSUME NEW S, NEW s \in Seq(Seq(S)), NEW p \in 1..Len(s), s[p] # <<>>,
         \A q \in 1..(p - 1) : Len(s[q]) = 1
  PROVE  p \in 1..Len(FlattenSeq(s)) /\ FlattenSeq(s)[p] = s[p][1]
<1>1. PICK v : Flattens(v, s)
  BY FlattensExists
<1>2. Len(s) \in Nat /\ \A i \in 1..Len(s) : s[i] \in Seq(S)
  BY ElementOfSeq
<1> DEFINE Good(i) == /\ v[i] \in Seq(S)
                      /\ i < p => Len(v[i]) = i
                      /\ i >= p => p \in 1..Len(v[i]) /\ v[i][p] = s[p][1]
           T == {n \in Nat : n + 1 \in 1..Len(s) => Good(n + 1)}
<1>3. 1 \in 1..Len(s) => Good(1)
  <2> SUFFICES ASSUME 1 \in 1..Len(s) PROVE Good(1)
    OBVIOUS
  <2>1. v[1] = s[1] /\ s[1] \in Seq(S)
    BY <1>1, <1>2, FlattensAt
  <2>2. CASE p = 1
    <3>1. Len(v[1]) \in Nat /\ Len(v[1]) # 0
      BY <2>1, <2>2, EmptySeq
    <3>2. QED
      BY <2>1, <2>2, <3>1
  <2>3. CASE p # 1
    <3>1. 1 \in 1..(p - 1) /\ 1 < p /\ ~(1 >= p)
      BY <2>3
    <3>2. QED
      BY <2>1, <3>1
  <2>4. QED
    BY <2>2, <2>3
<1>4. ASSUME NEW i \in 1..Len(s), i + 1 \in 1..Len(s), Good(i) PROVE Good(i + 1)
  <2>1. PICK k : k = i + 1
    OBVIOUS
  <2>2. k \in 1..Len(s) /\ k # 1 /\ k - 1 = i /\ i \in Nat
    BY <1>2, <1>4, <2>1
  <2>3. v[k] = v[i] \o s[k] /\ s[k] \in Seq(S)
    BY <1>1, <1>2, <2>2, FlattensAt
  <2>4. v[i] \in Seq(S)
    BY <1>4
  <2> DEFINE x == v[i]
             y == s[k]
             z == v[k]
  <2>9. x \in Seq(S) /\ y \in Seq(S) /\ z = x \o y /\ v[i] = x /\ s[k] = y /\ v[k] = z
    BY <2>3, <2>4
  <2>10. /\ i < p => Len(x) = i
         /\ i >= p => p \in 1..Len(x) /\ x[p] = s[p][1]
    BY <1>4
  <2>11. k < p => Len(y) = 1
    BY <2>2
  <2> HIDE DEF x, y, z
  <2>12. /\ z \in Seq(S)
         /\ Len(z) = Len(x) + Len(y)
         /\ \A m \in 1..(Len(x) + Len(y)) : z[m] = IF m <= Len(x) THEN x[m] ELSE y[m - Len(x)]
         /\ Len(x) \in Nat /\ Len(y) \in Nat
    BY <2>9, ConcatProperties, LenProperties
  <2>5. CASE k < p
    <3>1. i < p /\ ~(k >= p) /\ k \in Int /\ p \in Int
      BY <1>2, <2>2, <2>5
    <3>2. Len(x) = i /\ Len(y) = 1
      BY <2>5, <2>10, <2>11, <3>1
    <3>3. Len(z) = k
      BY <2>2, <2>12, <3>1, <3>2
    <3>4. QED
      BY <2>1, <2>9, <2>12, <3>1, <3>3
  <2>6. CASE k = p
    <3>1. Len(x) = i /\ Len(y) # 0 /\ y[1] = s[p][1]
      BY <2>2, <2>6, <2>9, <2>10, EmptySeq
    <3>2. k \in 1..(Len(x) + Len(y)) /\ ~(k <= Len(x)) /\ k - Len(x) = 1
      BY <2>2, <2>12, <3>1
    <3>3. p \in 1..Len(z) /\ z[p] = s[p][1] /\ ~(k < p)
      BY <2>2, <2>6, <2>12, <3>1, <3>2
    <3>4. QED
      BY <2>1, <2>9, <2>12, <3>3
  <2>7. CASE k > p
    <3>1. p \in 1..Len(x) /\ x[p] = s[p][1] /\ ~(k < p)
      BY <2>2, <2>7, <2>10
    <3>2. p \in 1..Len(z) /\ z[p] = x[p]
      BY <2>12, <3>1
    <3>3. QED
      BY <2>1, <2>9, <2>12, <3>1, <3>2
  <2>8. QED
    BY <2>2, <2>5, <2>6, <2>7
<1>5. 0 \in T
  BY <1>3
<1>6. ASSUME NEW n \in Nat, n \in T PROVE n + 1 \in T
  <2> HIDE DEF Good
  <2> SUFFICES ASSUME n + 1 + 1 \in 1..Len(s) PROVE Good(n + 1 + 1)
    OBVIOUS
  <2>1. n + 1 \in 1..Len(s)
    BY <1>2
  <2>2. QED
    BY <1>4, <1>6, <2>1
<1> HIDE DEF T, Good
<1>7. Nat \subseteq T
  BY <1>5, <1>6, EveryNumber
<1>8. Len(s) - 1 \in Nat /\ Len(s) - 1 + 1 = Len(s) /\ Len(s) \in 1..Len(s) /\ Len(s) >= p
  BY <1>2
<1>9. Good(Len(s))
  BY <1>7, <1>8 DEF T
<1>10. FlattenSeq(s) = v[Len(s)]
  BY <1>1, <1>8, FlattenIsLast, EmptySeq
<1>11. QED
  BY <1>8, <1>9, <1>10 DEF Good

(* What a sequence is when one more is appended to it.                     *)
LEMMA AppendedIs ==
  ASSUME NEW S, NEW s \in Seq(S), NEW d \in S
  PROVE  /\ Len(s) \in Nat /\ DOMAIN s = 1 .. Len(s)
         /\ Append(s, d) \in Seq(S)
         /\ DOMAIN Append(s, d) = 1 .. Len(s) + 1
         /\ \A i \in 1 .. Len(s) : Append(s, d)[i] = s[i]
         /\ Append(s, d)[Len(s) + 1] = d
         /\ ToSet(Append(s, d)) = ToSet(s) \union {d}
<1>1. /\ Len(s) \in Nat /\ DOMAIN s = 1 .. Len(s)
      /\ Append(s, d) \in Seq(S)
      /\ DOMAIN Append(s, d) = 1 .. Len(s) + 1
      /\ \A i \in 1 .. Len(s) : Append(s, d)[i] = s[i]
      /\ Append(s, d)[Len(s) + 1] = d
  OBVIOUS
<1>2. 1 .. Len(s) + 1 = (1 .. Len(s)) \union {Len(s) + 1}
  BY <1>1
<1>3. ToSet(Append(s, d)) = ToSet(s) \union {d}
  BY <1>1, <1>2 DEF ToSet
<1> QED
  BY <1>1, <1>3
=============================================================================
