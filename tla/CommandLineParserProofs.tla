---------------------- MODULE CommandLineParserProofs ----------------------
(***************************************************************************)
(* For any options, any shapes of the texts, and command lines of any      *)
(* length: Parse accepts the command lines that are well-formed, what it   *)
(* leaves in the variables is what the command line means, and one that    *)
(* fails leaves what it met up to the error.                               *)
(***************************************************************************)
EXTENDS CommandLineParser, DataLemmas, FiniteSetTheorems, TLAPS

(***************************************************************************)
(* What a command line means, as a function of the options and of the      *)
(* command line, so that a step that changes neither is seen to keep it.   *)
(***************************************************************************)
HelpOption == SetIfPresent(NewOption(None, "help"), m_help)
Known == Options \union {HelpOption}

LongIn(opts, name) ==
  LET ks == {k \in DOMAIN opts : opts[k].long_option = name} IN IF ks = {} THEN {} ELSE {opts[Min(ks)]}

ShortIn(opts, char) ==
  LET ks == {k \in DOMAIN opts : opts[k].short_option = char} IN IF ks = {} THEN {} ELSE {opts[Min(ks)]}

TakesIn(opts, args, k) ==
  LET look == Shape[args[k]] IN
    look.dashes = 1 /\ look.letters # <<>> /\ \E o \in ShortIn(opts, Last(look.letters)) : NeedsArgument(o)

TakenIn(opts, args, k) ==
  LET taken[n \in DOMAIN args] == n > 1 /\ ~taken[n - 1] /\ TakesIn(opts, args, n - 1) IN taken[k]

LettersIn(opts, args, k) ==
  LET look == Shape[args[k]] IN
    [n \in DOMAIN look.letters |->
       Use(ShortIn(opts, look.letters[n]),
           IF n = Len(look.letters) /\ TakesIn(opts, args, k) /\ k < Len(args) THEN args[k + 1] ELSE None)]

UsesOfIn(opts, args, k) ==
  LET look == Shape[args[k]] IN
    CASE TakenIn(opts, args, k) -> <<>>
      [] ~TakenIn(opts, args, k) /\ look.dashes = 2 -> <<Use(LongIn(opts, look.name), look.arg)>>
      [] ~TakenIn(opts, args, k) /\ look.dashes = 1 -> LettersIn(opts, args, k)
      [] OTHER -> <<>>

UsesTo(opts, args, n) == FlattenSeq([k \in 1..n |-> UsesOfIn(opts, args, k)])
UsesIn(opts, args) == FlattenSeq([k \in DOMAIN args |-> UsesOfIn(opts, args, k)])

NamingIn(uses, f, n) == {k \in 1..n : Names(uses[k], f)}

FlagFrom(uses, held, f, n) ==
  IF NamingIn(uses, f, n) = {} THEN f # m_help /\ held[f]
  ELSE \A o \in uses[Max(NamingIn(uses, f, n))].options : o.reset_if_present # f

Told(uses, x, n) ==
  FlattenSeq([k \in 1..n |-> IF Tells(uses[k], x) THEN <<uses[k].text>> ELSE <<>>])

VariableFrom(uses, held, x, n) ==
  CASE KindOf[x] = "strv" -> held[x] \o Told(uses, x, n)
    [] KindOf[x] # "strv" /\ Told(uses, x, n) = <<>> -> held[x]
    [] OTHER -> Converted(KindOf[x], Last(Told(uses, x, n)), held[x])

OthersTo(opts, args, n) == {k \in 1..n : ~TakenIn(opts, args, k) /\ Shape[args[k]].dashes = 0}

(***************************************************************************)
(* held is what the first n uses have made of old.                         *)
(***************************************************************************)
Holds(uses, old, held, n) ==
  /\ \A f \in Flags : held[f] = FlagFrom(uses, old, f, n)
  /\ \A x \in Variables : held[x] = VariableFrom(uses, old, x, n)

Listed(list, args, ks) ==
  /\ Len(list) = Cardinality(ks)
  /\ \A k \in ks : list[Cardinality({j \in ks : j <= k})] = args[k]

(***************************************************************************)
(* The inductive invariant: while Parse goes on, the variables hold what   *)
(* the uses that it has met say, and the list has the other arguments that *)
(* it has passed.                                                          *)
(***************************************************************************)
Types ==
  /\ m_options \in Seq(Known)
  /\ has_flag \in BOOLEAN /\ help_flag \in BOOLEAN /\ wants \in BOOLEAN
  /\ Typed(value) /\ Typed(before)
  /\ pc \in {"idle", "parsing", "letters"}
  /\ argv \in Seq(Texts) /\ i \in 1..(Len(argv) + 1)
  /\ pc = "letters" => /\ i <= Len(argv)
                       /\ Shape[argv[i]].dashes = 1
                       /\ letter \in DOMAIN Shape[argv[i]].letters
  /\ other_args \in Seq(Texts)
  /\ result \in {"none", "ok", "failed"}
  /\ given \in 0..MaxArgs

AllUses == UsesIn(m_options, argv)
Met == Len(UsesTo(m_options, argv, i - 1)) + (IF pc = "letters" THEN letter - 1 ELSE 0)

Going ==
  pc # "idle" =>
    /\ i <= Len(argv) => ~TakenIn(m_options, argv, i)
    /\ \A k \in 1..Met : WellUsed(AllUses[k])
    /\ Holds(AllUses, before, value, Met)
    /\ OthersTo(m_options, argv, i - 1) # {} => wants
    /\ Listed(other_args, argv, OthersTo(m_options, argv, i - 1))
    /\ has_flag => ~help_flag

Accepts ==
  /\ Parsed => (result = "ok" <=> WellFormed /\ ~AsksForHelp)
  /\ Parsed /\ has_flag => (help_flag <=> WellFormed /\ AsksForHelp)

CmdInv == Types /\ Going /\ Accepts /\ MeansWhatItSays /\ FailureStopsThere

-----------------------------------------------------------------------------
(***************************************************************************)
(* The least and the greatest of some numbers.                             *)
(***************************************************************************)
LEMMA MinOf ==
  ASSUME NEW ks, ks \subseteq Nat, ks # {}
  PROVE  Min(ks) \in ks
<1>1. \E x \in ks : \A y \in ks : x <= y
  BY LeastNumber
<1>2. QED
  BY <1>1 DEF Min

LEMMA MaxOf ==
  ASSUME NEW n \in Nat, NEW ks, ks \subseteq 1..n, ks # {}
  PROVE  Max(ks) \in ks /\ \A y \in ks : Max(ks) >= y
<1> DEFINE gaps == {n - k : k \in ks}
<1>1. gaps \subseteq Nat /\ gaps # {}
  <2>1. \A k \in ks : k \in 1..n
    OBVIOUS
  <2>2. \A k \in 1..n : n - k \in Nat
    OBVIOUS
  <2>3. QED
    BY <2>1, <2>2
<1>2. PICK gap \in gaps : \A other \in gaps : gap <= other
  BY <1>1, LeastNumber
<1>3. PICK x \in ks : gap = n - x
  BY <1>2
<1>4. ASSUME NEW y \in ks PROVE x >= y
  <2>1. n - y \in gaps
    OBVIOUS
  <2>2. n - x <= n - y /\ x \in 1..n /\ y \in 1..n
    BY <1>2, <1>3, <2>1
  <2>3. QED
    BY <2>2
<1>5. QED
  BY <1>4 DEF Max

(***************************************************************************)
(* An argument is that of a short option when the one before it is not,    *)
(* and takes one.                                                          *)
(***************************************************************************)
LEMMA TurnsExist ==
  ASSUME NEW n \in Nat, NEW takes
  PROVE  \E v : v = [k \in 1..n |-> k > 1 /\ ~v[k - 1] /\ takes[k - 1]]
<1> DEFINE Turns(v, m) == v = [k \in 1..m |-> k > 1 /\ ~v[k - 1] /\ takes[k - 1]]
           S == {m \in Nat : \E v : Turns(v, m)}
<1>1. 0 \in S
  <2>1. Turns([k \in 1..0 |-> FALSE], 0)
    OBVIOUS
  <2>2. QED
    BY <2>1
<1>2. ASSUME NEW m \in Nat, m \in S PROVE m + 1 \in S
  <2>1. PICK v : Turns(v, m)
    BY <1>2
  <2> DEFINE w == [k \in 1..(m + 1) |-> IF k <= m THEN v[k] ELSE k > 1 /\ ~v[k - 1] /\ takes[k - 1]]
  <2>2. ASSUME NEW k \in 1..(m + 1) PROVE w[k] = (k > 1 /\ ~w[k - 1] /\ takes[k - 1])
    <3>1. CASE k <= m
      <4>1. k \in 1..m /\ w[k] = v[k] /\ (k > 1 => w[k - 1] = v[k - 1])
        BY <3>1
      <4>2. v[k] = (k > 1 /\ ~v[k - 1] /\ takes[k - 1])
        BY <2>1, <4>1
      <4>3. QED
        BY <4>1, <4>2
    <3>2. CASE k = m + 1
      <4>1. k > 1 => w[k - 1] = v[k - 1]
        BY <3>2
      <4>2. w[k] = (k > 1 /\ ~v[k - 1] /\ takes[k - 1])
        BY <3>2
      <4>3. QED
        BY <4>1, <4>2
    <3>3. QED
      BY <3>1, <3>2
  <2>3. w = [k \in 1..(m + 1) |-> w[k]]
    OBVIOUS
  <2> HIDE DEF w
  <2>4. Turns(w, m + 1)
    BY <2>2, <2>3
  <2>5. QED
    BY <2>4
<1> HIDE DEF S
<1>3. n \in S
  BY <1>1, <1>2, EveryNumber
<1>4. QED
  BY <1>3 DEF S

LEMMA TakenInTurn ==
  ASSUME NEW opts, NEW args \in Seq(Texts), NEW k \in 1..Len(args)
  PROVE  /\ TakenIn(opts, args, k) \in BOOLEAN
         /\ TakenIn(opts, args, k) <=> k > 1 /\ ~TakenIn(opts, args, k - 1) /\ TakesIn(opts, args, k - 1)
<1> DEFINE takes == [j \in Nat |-> TakesIn(opts, args, j)]
           taken[n \in DOMAIN args] == n > 1 /\ ~taken[n - 1] /\ TakesIn(opts, args, n - 1)
<1>1. DOMAIN args = 1..Len(args) /\ Len(args) \in Nat
  OBVIOUS
<1>2. PICK v : v = [n \in 1..Len(args) |-> n > 1 /\ ~v[n - 1] /\ takes[n - 1]]
  BY <1>1, TurnsExist
<1>3. v = [n \in DOMAIN args |-> n > 1 /\ ~v[n - 1] /\ TakesIn(opts, args, n - 1)]
  <2>1. \A n \in 1..Len(args) : n > 1 => takes[n - 1] = TakesIn(opts, args, n - 1)
    OBVIOUS
  <2>2. QED
    BY <1>1, <1>2, <2>1
<1>4. taken = CHOOSE g : g = [n \in DOMAIN args |-> n > 1 /\ ~g[n - 1] /\ TakesIn(opts, args, n - 1)]
  OBVIOUS
<1>5. \A n \in 1..Len(args) : TakenIn(opts, args, n) = taken[n]
  BY DEF TakenIn
<1> HIDE DEF taken
<1>6. taken = [n \in DOMAIN args |-> n > 1 /\ ~taken[n - 1] /\ TakesIn(opts, args, n - 1)]
  BY <1>3, <1>4
<1>7. taken[k] = (k > 1 /\ ~taken[k - 1] /\ TakesIn(opts, args, k - 1))
  BY <1>1, <1>6
<1>8. k > 1 => TakenIn(opts, args, k - 1) = taken[k - 1]
  BY <1>5
<1>9. QED
  BY <1>5, <1>7, <1>8

(***************************************************************************)
(* The option found is one that was added; there is at most one.           *)
(***************************************************************************)
LEMMA FoundIsKnown ==
  ASSUME NEW opts \in Seq(Known), NEW word
  PROVE  /\ LongIn(opts, word) \subseteq Known /\ ShortIn(opts, word) \subseteq Known
         /\ \A o, p \in LongIn(opts, word) : o = p
         /\ \A o, p \in ShortIn(opts, word) : o = p
<1>1. \A k \in DOMAIN opts : k \in Nat /\ opts[k] \in Known
  OBVIOUS
<1>2. LongIn(opts, word) \subseteq Known /\ \A o, p \in LongIn(opts, word) : o = p
  <2> DEFINE ks == {k \in DOMAIN opts : opts[k].long_option = word}
  <2>1. ks # {} => Min(ks) \in ks
    BY <1>1, MinOf
  <2>2. QED
    BY <1>1, <2>1 DEF LongIn
<1>3. ShortIn(opts, word) \subseteq Known /\ \A o, p \in ShortIn(opts, word) : o = p
  <2> DEFINE ks == {k \in DOMAIN opts : opts[k].short_option = word}
  <2>1. ks # {} => Min(ks) \in ks
    BY <1>1, MinOf
  <2>2. QED
    BY <1>1, <2>1 DEF ShortIn
<1>4. QED
  BY <1>2, <1>3

-----------------------------------------------------------------------------
(***************************************************************************)
(* The uses of an argument, and those of the arguments up to one: a prefix *)
(* of all of them.                                                         *)
(***************************************************************************)
UseType == [options : SUBSET Known, text : Texts \union {None}]

LEMMA UsesOfType ==
  ASSUME NEW opts \in Seq(Known), NEW args \in Seq(Texts), NEW k \in 1..Len(args)
  PROVE  /\ UsesOfIn(opts, args, k) \in Seq(UseType)
         /\ Shape[args[k]].dashes = 1 =>
              /\ LettersIn(opts, args, k) \in Seq(UseType)
              /\ Len(LettersIn(opts, args, k)) = Len(Shape[args[k]].letters)
<1> DEFINE look == Shape[args[k]]
<1>1. args[k] \in Texts /\ Len(args) \in Nat /\ k \in Nat
  OBVIOUS
<1>2. /\ look.dashes = 1 => look.letters \in Seq(STRING)
      /\ look.dashes = 2 => look.arg \in Texts \union {None}
  BY <1>1, ShapeAssumption
<1>3. ASSUME look.dashes = 2
      PROVE  <<Use(LongIn(opts, look.name), look.arg)>> \in Seq(UseType)
  <2>1. LongIn(opts, look.name) \in SUBSET Known
    BY FoundIsKnown
  <2>2. Use(LongIn(opts, look.name), look.arg) \in UseType
    BY <1>2, <1>3, <2>1 DEF Use, UseType
  <2>3. QED
    BY <2>2
<1>4. ASSUME look.dashes = 1
      PROVE  LettersIn(opts, args, k) \in Seq(UseType) /\ Len(LettersIn(opts, args, k)) = Len(look.letters)
  <2> DEFINE text(n) == IF n = Len(look.letters) /\ TakesIn(opts, args, k) /\ k < Len(args) THEN args[k + 1] ELSE None
  <2>1. DOMAIN look.letters = 1..Len(look.letters) /\ Len(look.letters) \in Nat
    BY <1>2, <1>4
  <2>2. ASSUME NEW n \in 1..Len(look.letters)
        PROVE  Use(ShortIn(opts, look.letters[n]), text(n)) \in UseType
    <3>1. ShortIn(opts, look.letters[n]) \in SUBSET Known
      BY FoundIsKnown
    <3>2. k < Len(args) => args[k + 1] \in Texts
      BY <1>1
    <3>3. text(n) \in Texts \union {None}
      BY <3>2
    <3> HIDE DEF text
    <3>4. QED
      BY <3>1, <3>3 DEF Use, UseType
  <2>3. LettersIn(opts, args, k) = [n \in 1..Len(look.letters) |-> Use(ShortIn(opts, look.letters[n]), text(n))]
    BY <2>1 DEF LettersIn
  <2> HIDE DEF text
  <2>4. QED
    BY <2>1, <2>2, <2>3
<1>5. UsesOfIn(opts, args, k) \in Seq(UseType)
  <2>1. TakenIn(opts, args, k) \in BOOLEAN /\ <<>> \in Seq(UseType)
    BY TakenInTurn
  <2>2. QED
    BY <1>3, <1>4, <2>1 DEF UsesOfIn
<1>6. QED
  BY <1>4, <1>5

LEMMA UsesToStep ==
  ASSUME NEW opts \in Seq(Known), NEW args \in Seq(Texts)
  PROVE  /\ UsesTo(opts, args, 0) = <<>>
         /\ \A n \in 1..Len(args) :
              UsesTo(opts, args, n) = UsesTo(opts, args, n - 1) \o UsesOfIn(opts, args, n)
         /\ \A n \in 0..Len(args) : UsesTo(opts, args, n) \in Seq(UseType)
         /\ UsesIn(opts, args) = UsesTo(opts, args, Len(args))
<1> DEFINE parts(n) == [k \in 1..n |-> UsesOfIn(opts, args, k)]
<1>1. Len(args) \in Nat /\ DOMAIN args = 1..Len(args)
  OBVIOUS
<1>2. \A k \in 1..Len(args) : UsesOfIn(opts, args, k) \in Seq(UseType)
  BY UsesOfType
<1>3. ASSUME NEW n \in 0..Len(args) PROVE parts(n) \in Seq(Seq(UseType))
  BY <1>1, <1>2
<1>4. UsesTo(opts, args, 0) = <<>>
  <2>1. parts(0) = <<>>
    OBVIOUS
  <2>2. QED
    BY <2>1, FlattenEmpty DEF UsesTo
<1>5. ASSUME NEW n \in 1..Len(args)
      PROVE  UsesTo(opts, args, n) = UsesTo(opts, args, n - 1) \o UsesOfIn(opts, args, n)
  <2>1. parts(n) = Append(parts(n - 1), UsesOfIn(opts, args, n))
    <3> DEFINE s == parts(n - 1)
               u == UsesOfIn(opts, args, n)
    <3>1. s \in Seq(Seq(UseType)) /\ u \in Seq(UseType) /\ Len(s) = n - 1
      BY <1>1, <1>2, <1>3
    <3>2. \A k \in 1..(n - 1) : s[k] = UsesOfIn(opts, args, k)
      OBVIOUS
    <3> HIDE DEF s
    <3>3. /\ Append(s, u) \in Seq(Seq(UseType)) /\ Len(Append(s, u)) = n
          /\ \A k \in 1..(n - 1) : Append(s, u)[k] = s[k]
          /\ Append(s, u)[n] = u
      BY <3>1, AppendProperties
    <3>4. \A k \in 1..n : Append(s, u)[k] = UsesOfIn(opts, args, k)
      BY <3>2, <3>3
    <3> HIDE DEF u
    <3>5. QED
      BY <3>3, <3>4 DEF s, u
  <2>2. parts(n - 1) \in Seq(Seq(UseType)) /\ UsesOfIn(opts, args, n) \in Seq(UseType)
    BY <1>1, <1>2, <1>3
  <2> HIDE DEF parts
  <2>3. FlattenSeq(parts(n)) = FlattenSeq(parts(n - 1)) \o UsesOfIn(opts, args, n)
    BY <2>1, <2>2, FlattenAppend
  <2>4. QED
    BY <2>3 DEF UsesTo, parts
<1>6. \A n \in 0..Len(args) : UsesTo(opts, args, n) \in Seq(UseType)
  BY <1>3, FlattenType DEF UsesTo
<1>7. UsesIn(opts, args) = UsesTo(opts, args, Len(args))
  BY <1>1 DEF UsesIn, UsesTo
<1>8. QED
  BY <1>4, <1>5, <1>6, <1>7

LEMMA UsesToPrefix ==
  ASSUME NEW opts \in Seq(Known), NEW args \in Seq(Texts), NEW n \in 0..Len(args)
  PROVE  /\ Len(UsesTo(opts, args, n)) <= Len(UsesIn(opts, args))
         /\ \A k \in 1..Len(UsesTo(opts, args, n)) : UsesIn(opts, args)[k] = UsesTo(opts, args, n)[k]
<1> DEFINE to(m) == UsesTo(opts, args, m)
           S == {d \in Nat : n + d <= Len(args) =>
                   Len(to(n)) <= Len(to(n + d)) /\ \A k \in 1..Len(to(n)) : to(n + d)[k] = to(n)[k]}
<1>0. Len(args) \in Nat /\ n \in Nat
  OBVIOUS
<1>1. to(n) \in Seq(UseType) /\ Len(to(n)) \in Nat
  BY UsesToStep
<1>2. 0 \in S
  BY <1>0, <1>1
<1>3. ASSUME NEW d \in Nat, d \in S PROVE d + 1 \in S
  <2> SUFFICES ASSUME n + (d + 1) <= Len(args)
               PROVE  /\ Len(to(n)) <= Len(to(n + (d + 1)))
                      /\ \A k \in 1..Len(to(n)) : to(n + (d + 1))[k] = to(n)[k]
    OBVIOUS
  <2> DEFINE m == n + (d + 1)
  <2>1. m \in 1..Len(args) /\ m - 1 = n + d /\ n + d \in 0..Len(args) /\ n + d <= Len(args)
    BY <1>0
  <2>2. to(m) = to(n + d) \o UsesOfIn(opts, args, m)
    BY <2>1, UsesToStep
  <2>3. to(n + d) \in Seq(UseType)
    BY <2>1, UsesToStep
  <2>4. UsesOfIn(opts, args, m) \in Seq(UseType)
    BY <2>1, UsesOfType
  <2>5. Len(to(n)) <= Len(to(n + d)) /\ \A k \in 1..Len(to(n)) : to(n + d)[k] = to(n)[k]
    BY <1>3, <2>1
  <2> HIDE DEF to, m
  <2>6. /\ Len(to(m)) = Len(to(n + d)) + Len(UsesOfIn(opts, args, m))
        /\ Len(to(n + d)) \in Nat /\ Len(UsesOfIn(opts, args, m)) \in Nat
        /\ \A k \in 1..Len(to(n + d)) : to(m)[k] = to(n + d)[k]
    BY <2>2, <2>3, <2>4, ConcatProperties
  <2>7. Len(to(n)) <= Len(to(m)) /\ \A k \in 1..Len(to(n)) : to(m)[k] = to(n)[k]
    BY <1>1, <2>5, <2>6
  <2>8. QED
    BY <2>7 DEF m
<1>4. Len(args) - n \in Nat /\ n + (Len(args) - n) = Len(args)
  BY <1>0
<1> HIDE DEF S
<1>5. Len(args) - n \in S
  BY <1>2, <1>3, <1>4, EveryNumber
<1>6. Len(to(n)) <= Len(to(Len(args))) /\ \A k \in 1..Len(to(n)) : to(Len(args))[k] = to(n)[k]
  BY <1>0, <1>4, <1>5 DEF S
<1>7. UsesIn(opts, args) = to(Len(args))
  BY UsesToStep
<1>8. QED
  BY <1>6, <1>7

(***************************************************************************)
(* Where the uses of one argument are among all of them.                   *)
(***************************************************************************)
LEMMA UsesHere ==
  ASSUME NEW opts \in Seq(Known), NEW args \in Seq(Texts), NEW k \in 1..Len(args)
  PROVE  LET first == Len(UsesTo(opts, args, k - 1))
             here == UsesOfIn(opts, args, k)
         IN /\ Len(UsesTo(opts, args, k)) = first + Len(here)
            /\ \A j \in 1..Len(here) : /\ first + j \in 1..Len(UsesIn(opts, args))
                                       /\ UsesIn(opts, args)[first + j] = here[j]
<1> DEFINE to(m) == UsesTo(opts, args, m)
           here == UsesOfIn(opts, args, k)
<1>1. k \in 0..Len(args) /\ k - 1 \in 0..Len(args) /\ Len(args) \in Nat
  OBVIOUS
<1>2. to(k) = to(k - 1) \o here /\ to(k - 1) \in Seq(UseType)
  BY <1>1, UsesToStep
<1>3. here \in Seq(UseType)
  BY UsesOfType
<1>4. /\ Len(to(k)) <= Len(UsesIn(opts, args))
      /\ \A j \in 1..Len(to(k)) : UsesIn(opts, args)[j] = to(k)[j]
  BY <1>1, UsesToPrefix
<1>5. UsesIn(opts, args) \in Seq(UseType)
  <2>1. Len(args) \in 0..Len(args)
    BY <1>1
  <2>2. QED
    BY <2>1, UsesToStep
<1> HIDE DEF to, here
<1>6. /\ Len(to(k)) = Len(to(k - 1)) + Len(here)
      /\ \A j \in 1..Len(to(k - 1)) + Len(here) : to(k)[j] = IF j <= Len(to(k - 1)) THEN to(k - 1)[j] ELSE here[j - Len(to(k - 1))]
  BY <1>2, <1>3, ConcatProperties
<1>7. Len(to(k - 1)) \in Nat /\ Len(here) \in Nat /\ Len(UsesIn(opts, args)) \in Nat
  BY <1>2, <1>3, <1>5
<1>8. ASSUME NEW j \in 1..Len(here)
      PROVE  /\ Len(to(k - 1)) + j \in 1..Len(UsesIn(opts, args))
             /\ UsesIn(opts, args)[Len(to(k - 1)) + j] = here[j]
  <2>1. /\ Len(to(k - 1)) + j \in 1..Len(to(k - 1)) + Len(here)
        /\ ~(Len(to(k - 1)) + j <= Len(to(k - 1)))
        /\ Len(to(k - 1)) + j - Len(to(k - 1)) = j
    BY <1>7
  <2>2. to(k)[Len(to(k - 1)) + j] = here[j]
    BY <1>6, <2>1
  <2>3. Len(to(k - 1)) + j \in 1..Len(to(k)) /\ Len(to(k - 1)) + j \in 1..Len(UsesIn(opts, args))
    BY <1>4, <1>6, <1>7, <2>1
  <2>4. QED
    BY <1>4, <2>2, <2>3
<1>9. QED
  BY <1>6, <1>8 DEF to, here

-----------------------------------------------------------------------------
(***************************************************************************)
(* What one more use makes of a flag.                                      *)
(***************************************************************************)
LEMMA FlagNamed ==
  ASSUME NEW uses, NEW held, NEW f, NEW n \in Nat, Names(uses[n + 1], f)
  PROVE  FlagFrom(uses, held, f, n + 1) = \A o \in uses[n + 1].options : o.reset_if_present # f
<1>1. NamingIn(uses, f, n + 1) \subseteq 1..(n + 1) /\ n + 1 \in NamingIn(uses, f, n + 1) /\ n + 1 \in Nat
  BY DEF NamingIn
<1>2. Max(NamingIn(uses, f, n + 1)) \in NamingIn(uses, f, n + 1) /\ Max(NamingIn(uses, f, n + 1)) >= n + 1
  BY <1>1, MaxOf
<1>3. Max(NamingIn(uses, f, n + 1)) = n + 1
  BY <1>1, <1>2
<1>4. NamingIn(uses, f, n + 1) # {}
  BY <1>1
<1>5. QED
  BY <1>3, <1>4 DEF FlagFrom

LEMMA FlagNotNamed ==
  ASSUME NEW uses, NEW held, NEW f, NEW n \in Nat, ~Names(uses[n + 1], f)
  PROVE  FlagFrom(uses, held, f, n + 1) = FlagFrom(uses, held, f, n)
<1>1. NamingIn(uses, f, n + 1) = NamingIn(uses, f, n)
  BY DEF NamingIn
<1>2. QED
  BY <1>1 DEF FlagFrom

LEMMA ToldNext ==
  ASSUME NEW uses \in Seq(UseType), NEW x
  PROVE  /\ Told(uses, x, 0) = <<>>
         /\ \A n \in 0..Len(uses) : Told(uses, x, n) \in Seq(Texts)
         /\ \A n \in Nat : n + 1 <= Len(uses) =>
              Told(uses, x, n + 1) = IF Tells(uses[n + 1], x) THEN Append(Told(uses, x, n), uses[n + 1].text)
                                     ELSE Told(uses, x, n)
<1> DEFINE told(k) == IF Tells(uses[k], x) THEN <<uses[k].text>> ELSE <<>>
           parts(n) == [k \in 1..n |-> told(k)]
<1>1. ASSUME NEW k \in 1..Len(uses) PROVE told(k) \in Seq(Texts)
  <2>1. uses[k] \in UseType
    OBVIOUS
  <2>2. Tells(uses[k], x) => uses[k].text \in Texts
    BY <2>1 DEF Tells, UseType
  <2>3. QED
    BY <2>2
<1>2. Told(uses, x, 0) = <<>>
  <2>1. parts(0) = <<>>
    OBVIOUS
  <2>2. QED
    BY <2>1, FlattenEmpty DEF Told
<1>3. \A n : Told(uses, x, n) = FlattenSeq(parts(n))
  BY DEF Told
<1> HIDE DEF told
<1>4. ASSUME NEW n \in 0..Len(uses) PROVE parts(n) \in Seq(Seq(Texts)) /\ Len(parts(n)) = n
  BY <1>1
<1>5. ASSUME NEW n \in 0..Len(uses) PROVE Told(uses, x, n) \in Seq(Texts)
  BY <1>3, <1>4, FlattenType
<1>6. ASSUME NEW n \in Nat, n + 1 <= Len(uses)
      PROVE  Told(uses, x, n + 1) = IF Tells(uses[n + 1], x) THEN Append(Told(uses, x, n), uses[n + 1].text)
                                    ELSE Told(uses, x, n)
  <2>1. n \in 0..Len(uses) /\ n + 1 \in 1..Len(uses) /\ n + 1 \in 0..Len(uses)
    BY <1>6
  <2>2. parts(n) \in Seq(Seq(Texts)) /\ Len(parts(n)) = n /\ told(n + 1) \in Seq(Texts)
    BY <1>1, <1>4, <2>1
  <2>3. parts(n + 1) = Append(parts(n), told(n + 1))
    BY <2>2, AppendProperties
  <2> HIDE DEF parts
  <2>4. Told(uses, x, n + 1) = Told(uses, x, n) \o told(n + 1)
    <3>1. FlattenSeq(Append(parts(n), told(n + 1))) = FlattenSeq(parts(n)) \o told(n + 1)
      BY <2>2, FlattenAppend
    <3>2. QED
      BY <1>3, <2>3, <3>1
  <2>5. Told(uses, x, n) \in Seq(Texts)
    BY <1>5, <2>1
  <2>6. CASE Tells(uses[n + 1], x)
    <3>1. uses[n + 1] \in UseType
      BY <2>1
    <3>2. uses[n + 1].text \in Texts /\ told(n + 1) = <<uses[n + 1].text>>
      BY <2>6, <3>1 DEF Tells, UseType, told
    <3>3. Append(Told(uses, x, n), uses[n + 1].text) = Told(uses, x, n) \o <<uses[n + 1].text>>
      BY <2>5, <3>2, AppendIsConcat
    <3>4. QED
      BY <2>4, <2>6, <3>2, <3>3
  <2>7. CASE ~Tells(uses[n + 1], x)
    <3>1. told(n + 1) = <<>>
      BY <2>7 DEF told
    <3>2. Told(uses, x, n) \o <<>> = Told(uses, x, n)
      BY <2>5, ConcatEmptySeq
    <3>3. QED
      BY <2>4, <2>7, <3>1, <3>2
  <2>8. QED
    BY <2>6, <2>7
<1>7. QED
  BY <1>2, <1>5, <1>6

LEMMA ConcatAppend ==
  ASSUME NEW S, NEW s \in Seq(S), NEW t \in Seq(S), NEW x \in S
  PROVE  s \o Append(t, x) = Append(s \o t, x)
<1> DEFINE u == <<x>>
<1>1. u \in Seq(S) /\ s \o t \in Seq(S)
  BY ConcatProperties
<1>2. Append(t, x) = t \o u /\ Append(s \o t, x) = (s \o t) \o u
  BY <1>1, AppendIsConcat
<1> HIDE DEF u
<1>3. (s \o t) \o u = s \o (t \o u)
  BY <1>1, ConcatAssociative
<1>4. QED
  BY <1>1, <1>2, <1>3

(***************************************************************************)
(* What one more use makes of a variable: it converts the text, if there   *)
(* is one that is valid for it, or leaves it as it was.                    *)
(***************************************************************************)
LEMMA VariableNext ==
  ASSUME NEW uses \in Seq(UseType), NEW held, Typed(held), NEW x \in Variables,
         NEW n \in Nat, n + 1 <= Len(uses)
  PROVE  VariableFrom(uses, held, x, n + 1) =
           IF Tells(uses[n + 1], x)
             THEN Converted(KindOf[x], uses[n + 1].text, VariableFrom(uses, held, x, n))
             ELSE VariableFrom(uses, held, x, n)
<1> DEFINE old == Told(uses, x, n)
           new == Told(uses, x, n + 1)
           text == uses[n + 1].text
<1>1. old \in Seq(Texts)
  <2>1. n \in 0..Len(uses)
    OBVIOUS
  <2>2. QED
    BY <2>1, ToldNext
<1>2. new = IF Tells(uses[n + 1], x) THEN Append(old, text) ELSE old
  BY ToldNext
<1>3. CASE ~Tells(uses[n + 1], x)
  BY <1>2, <1>3 DEF VariableFrom
<1>4. CASE Tells(uses[n + 1], x)
  <2>1. uses[n + 1] \in UseType
    OBVIOUS
  <2>2. text \in Texts
    BY <1>4, <2>1 DEF Tells, UseType
  <2> HIDE DEF old, new, text
  <2>3. new \in Seq(Texts) /\ new # <<>> /\ Len(new) = Len(old) + 1 /\ new[Len(old) + 1] = text
    BY <1>1, <1>2, <1>4, <2>2, AppendProperties
  <2>4. new = Append(old, text) /\ Last(new) = text
    BY <1>2, <1>4, <2>3 DEF Last
  <2>5. CASE KindOf[x] = "strv"
    <3>1. held[x] \in Seq(Texts)
      BY <2>5 DEF Typed, ValueType
    <3>2. held[x] \o new = Append(held[x] \o old, text)
      <4>1. \A h \in Seq(Texts) : h \o Append(old, text) = Append(h \o old, text)
        BY <1>1, <2>2, ConcatAppend
      <4>2. QED
        BY <2>4, <3>1, <4>1
    <3>3. VariableFrom(uses, held, x, n + 1) = held[x] \o new /\ VariableFrom(uses, held, x, n) = held[x] \o old
      BY <2>5 DEF VariableFrom, old, new
    <3>4. Converted(KindOf[x], text, held[x] \o old) = Append(held[x] \o old, text)
      BY <2>5 DEF Converted
    <3>5. QED
      BY <1>4, <3>2, <3>3, <3>4 DEF text
  <2>6. CASE KindOf[x] # "strv"
    <3>1. VariableFrom(uses, held, x, n + 1) = Converted(KindOf[x], text, held[x])
      BY <2>3, <2>4, <2>6 DEF VariableFrom, new
    <3>2. \A a, b : Converted(KindOf[x], text, a) = Converted(KindOf[x], text, b)
      BY <2>6 DEF Converted
    <3>3. QED
      BY <1>4, <3>1, <3>2 DEF text
  <2>7. QED
    BY <2>5, <2>6
<1>5. QED
  BY <1>3, <1>4

-----------------------------------------------------------------------------
(***************************************************************************)
(* The options of the parser, and what each kind makes of a text.          *)
(***************************************************************************)
LEMMA KnownOption ==
  ASSUME NEW o \in Known
  PROVE  /\ o.args \subseteq Variables
         /\ o.set_if_present \in Flags \union {None} /\ o.reset_if_present \in Flags \union {None}
         /\ o.reset_if_present # m_help
         /\ NeedsArgument(o) => o.set_if_present # m_help
<1>1. HelpOption.args = {} /\ HelpOption.set_if_present = m_help /\ HelpOption.reset_if_present = None
  BY DEF HelpOption, SetIfPresent, NewOption
<1>2. m_help \in Flags /\ m_help # None
  BY TargetsAssumption, OptionsAssumption
<1>3. CASE o = HelpOption
  BY <1>1, <1>2, <1>3 DEF NeedsArgument
<1>4. CASE o \in Options
  <2>1. o.args \subseteq Variables /\ {o.set_if_present, o.reset_if_present} \subseteq (Flags \ {m_help}) \union {None}
    BY <1>4, OptionsAssumption
  <2>2. QED
    BY <1>2, <2>1
<1>5. QED
  BY <1>3, <1>4 DEF Known

LEMMA KindOfVariable ==
  ASSUME NEW x \in Variables
  PROVE  /\ KindOf[x] \in {"str", "strv", "int", "float", "size", "enum"}
         /\ \E k \in DOMAIN Kinds : KindOf[x] = Kinds[k]
<1>1. KindOf[x] \in {Kinds[k] : k \in DOMAIN Kinds}
  BY KindsAssumption DEF ToSet
<1>2. QED
  BY <1>1 DEF Kinds

LEMMA ConvertedType ==
  ASSUME NEW x \in Variables, NEW text \in Texts, Valid(KindOf[x], text), NEW old \in ValueType(KindOf[x])
  PROVE  Converted(KindOf[x], text, old) \in ValueType(KindOf[x])
<1>1. Number[text] \in Int \union {NaN}
  BY NumberAssumption
<1>2. CASE KindOf[x] = "int"
  BY <1>1, <1>2, RangeAssumption DEF Valid, InRange, Converted, ValueType
<1>3. CASE KindOf[x] = "float"
  BY <1>1, <1>3 DEF Valid, Converted, ValueType
<1>4. CASE KindOf[x] = "size"
  <2>1. Number[text] \in Int
    BY <1>1, <1>4 DEF Valid
  <2>2. \A n \in Int : SizeOf(n) \in 0..SIZE_MAX
    BY RangeAssumption DEF SizeOf
  <2>3. QED
    BY <1>4, <2>1, <2>2 DEF Converted, ValueType
<1>5. CASE KindOf[x] = "strv"
  BY <1>5, AppendProperties DEF Converted, ValueType
<1>6. CASE KindOf[x] = "str"
  BY <1>6 DEF Converted, ValueType
<1>7. CASE KindOf[x] = "enum"
  BY <1>7 DEF Valid, Converted, ValueType
<1>8. QED
  BY <1>2, <1>3, <1>4, <1>5, <1>6, <1>7, KindOfVariable

(***************************************************************************)
(* Parse starts by clearing m_help: what no use at all makes of the        *)
(* variables.                                                              *)
(***************************************************************************)
LEMMA StartHolds ==
  ASSUME NEW uses \in Seq(UseType), NEW old, Typed(old)
  PROVE  LET start == [old EXCEPT ![m_help] = FALSE]
         IN  Typed(start) /\ Holds(uses, old, start, 0)
<1> DEFINE start == [old EXCEPT ![m_help] = FALSE]
<1>1. m_help \in Flags /\ m_help \notin Variables /\ \A x \in Variables : x \notin Flags
  BY TargetsAssumption
<1>2. /\ DOMAIN start = Flags \union Variables
      /\ \A f \in Flags : old[f] \in BOOLEAN /\ start[f] = (f # m_help /\ old[f])
      /\ \A x \in Variables : start[x] = old[x] /\ old[x] \in ValueType(KindOf[x])
  BY <1>1 DEF Typed
<1> HIDE DEF start
<1>3. Typed(start)
  BY <1>2 DEF Typed
<1>4. ASSUME NEW f \in Flags PROVE start[f] = FlagFrom(uses, old, f, 0)
  <2>1. NamingIn(uses, f, 0) = {}
    BY DEF NamingIn
  <2>2. QED
    BY <1>2, <2>1 DEF FlagFrom
<1>5. ASSUME NEW x \in Variables PROVE start[x] = VariableFrom(uses, old, x, 0)
  <2>1. Told(uses, x, 0) = <<>>
    BY ToldNext
  <2>2. CASE KindOf[x] = "strv"
    <3>1. old[x] \in Seq(Texts)
      BY <1>2, <2>2 DEF ValueType
    <3>2. old[x] \o <<>> = old[x]
      BY <3>1, ConcatEmptySeq
    <3>3. QED
      BY <1>2, <2>1, <2>2, <3>2 DEF VariableFrom
  <2>3. CASE KindOf[x] # "strv"
    BY <1>2, <2>1, <2>3 DEF VariableFrom
  <2>4. QED
    BY <2>2, <2>3
<1>6. QED
  BY <1>3, <1>4, <1>5 DEF Holds, start

(***************************************************************************)
(* An option sets and resets its flags as its use says, and touches no     *)
(* variable.                                                               *)
(***************************************************************************)
LEMMA OptionSets ==
  ASSUME Typed(value), NEW o \in Known
  PROVE  /\ Typed(HandleOption(o))
         /\ \A x \in Variables : HandleOption(o)[x] = value[x]
         /\ \A f \in Flags : HandleOption(o)[f] =
              IF f \in {o.set_if_present, o.reset_if_present} THEN o.reset_if_present # f ELSE value[f]
<1>1. /\ None \notin Flags \union Variables /\ \A x \in Variables : x \notin Flags
      /\ o.set_if_present \in Flags \union {None} /\ o.reset_if_present \in Flags \union {None}
  BY TargetsAssumption, OptionsAssumption, KnownOption
<1>2. /\ DOMAIN value = Flags \union Variables
      /\ \A f \in Flags : value[f] \in BOOLEAN
      /\ \A x \in Variables : value[x] \in ValueType(KindOf[x])
  BY DEF Typed
<1>3. \A x \in Variables : HandleOption(o)[x] = value[x]
  BY <1>1, <1>2 DEF HandleOption
<1>4. ASSUME NEW f \in Flags
      PROVE  /\ HandleOption(o)[f] \in BOOLEAN
             /\ HandleOption(o)[f] =
                  IF f \in {o.set_if_present, o.reset_if_present} THEN o.reset_if_present # f ELSE value[f]
  <2>1. HandleOption(o)[f] = IF o.reset_if_present = f THEN FALSE ELSE IF o.set_if_present = f THEN TRUE ELSE value[f]
    BY <1>2 DEF HandleOption
  <2>2. value[f] \in BOOLEAN
    BY <1>2
  <2>3. QED
    BY <2>1, <2>2
<1>5. DOMAIN HandleOption(o) = Flags \union Variables
  BY <1>2 DEF HandleOption
<1>6. Typed(HandleOption(o))
  BY <1>2, <1>3, <1>4, <1>5 DEF Typed
<1>7. QED
  BY <1>3, <1>4, <1>6

LEMMA FlagStep ==
  ASSUME Typed(value), NEW uses, NEW old, NEW n \in Nat, NEW o \in Known, uses[n + 1].options = {o},
         NEW f \in Flags, value[f] = FlagFrom(uses, old, f, n)
  PROVE  HandleOption(o)[f] = FlagFrom(uses, old, f, n + 1)
<1>1. HandleOption(o)[f] = IF f \in {o.set_if_present, o.reset_if_present} THEN o.reset_if_present # f ELSE value[f]
  BY OptionSets
<1>2. FlagFrom(uses, old, f, n + 1) =
        IF f \in {o.set_if_present, o.reset_if_present} THEN o.reset_if_present # f ELSE FlagFrom(uses, old, f, n)
  <2>1. Names(uses[n + 1], f) <=> f \in {o.set_if_present, o.reset_if_present}
    BY DEF Names
  <2>2. (\A p \in uses[n + 1].options : p.reset_if_present # f) <=> (o.reset_if_present # f)
    OBVIOUS
  <2>3. CASE f \in {o.set_if_present, o.reset_if_present}
    <3>1. FlagFrom(uses, old, f, n + 1) = \A p \in uses[n + 1].options : p.reset_if_present # f
      BY <2>1, <2>3, FlagNamed
    <3>2. QED
      BY <2>2, <2>3, <3>1
  <2>4. CASE f \notin {o.set_if_present, o.reset_if_present}
    <3>1. ~Names(uses[n + 1], f)
      BY <2>1, <2>4
    <3>2. FlagFrom(uses, old, f, n + 1) = FlagFrom(uses, old, f, n)
      BY <3>1, FlagNotNamed
    <3>3. QED
      BY <2>4, <3>2
  <2>5. QED
    BY <2>3, <2>4
<1>3. QED
  BY <1>1, <1>2

(***************************************************************************)
(* A use whose option has no text to convert.                              *)
(***************************************************************************)
LEMMA OptionStep ==
  ASSUME Typed(value), NEW uses \in Seq(UseType), NEW old, Typed(old), NEW n \in Nat, n + 1 <= Len(uses),
         NEW o \in Known, uses[n + 1].options = {o}, o.args = {} \/ uses[n + 1].text = None,
         Holds(uses, old, value, n)
  PROVE  Holds(uses, old, HandleOption(o), n + 1)
<1>1. ASSUME NEW f \in Flags PROVE HandleOption(o)[f] = FlagFrom(uses, old, f, n + 1)
  BY FlagStep DEF Holds
<1>2. ASSUME NEW x \in Variables PROVE HandleOption(o)[x] = VariableFrom(uses, old, x, n + 1)
  <2>1. ~Tells(uses[n + 1], x)
    BY DEF Tells
  <2>2. VariableFrom(uses, old, x, n + 1) = VariableFrom(uses, old, x, n)
    BY <2>1, VariableNext
  <2>3. HandleOption(o)[x] = value[x]
    BY OptionSets
  <2>4. QED
    BY <2>2, <2>3 DEF Holds
<1>3. QED
  BY <1>1, <1>2 DEF Holds

(***************************************************************************)
(* A use with a text: the variables take it one after another, up to one   *)
(* that it is not valid for.                                               *)
(***************************************************************************)
LEMMA ArgumentStep ==
  ASSUME Typed(value), NEW uses \in Seq(UseType), NEW old, Typed(old), NEW n \in Nat, n + 1 <= Len(uses),
         NEW o \in Known, NEW text \in Texts, uses[n + 1] = Use({o}, text),
         Holds(uses, old, value, n)
  PROVE  LET held == DoArgument(o, text, HandleOption(o))
         IN  /\ Typed(held)
             /\ \A f \in Flags : held[f] = FlagFrom(uses, old, f, n + 1)
             /\ \A x \in Variables : held[x] \in {VariableFrom(uses, old, x, n), VariableFrom(uses, old, x, n + 1)}
             /\ ArgumentFits(o, text) => Holds(uses, old, held, n + 1)
<1> DEFINE before_it == HandleOption(o)
           held == DoArgument(o, text, before_it)
           taken(x) == x \in o.args /\ KindOf[x] \in {Kinds[k] : k \in Reached(o, text)}
<1>1. uses[n + 1].options = {o} /\ uses[n + 1].text = text /\ text # None
  BY ShapeAssumption DEF Use
<1>2. /\ Typed(before_it) /\ o.args \subseteq Variables
      /\ \A x \in Variables : before_it[x] = value[x] /\ value[x] = VariableFrom(uses, old, x, n)
  BY OptionSets, KnownOption DEF Holds
<1>3. \A f \in Flags : before_it[f] = FlagFrom(uses, old, f, n + 1)
  BY <1>1, FlagStep DEF Holds
<1> HIDE DEF before_it
<1>4. /\ DOMAIN before_it = Flags \union Variables /\ \A x \in Variables : x \notin Flags
      /\ \A f \in Flags : before_it[f] \in BOOLEAN
      /\ \A x \in Variables : before_it[x] \in ValueType(KindOf[x])
  BY <1>2, TargetsAssumption DEF Typed
<1>5. /\ DOMAIN held = Flags \union Variables
      /\ \A x \in Flags \union Variables :
           held[x] = IF taken(x) THEN Converted(KindOf[x], text, before_it[x]) ELSE before_it[x]
  BY <1>4 DEF DoArgument
<1>6. ASSUME NEW x \in Variables, taken(x) PROVE Valid(KindOf[x], text) /\ Tells(uses[n + 1], x)
  <2>1. PICK k \in Reached(o, text) : KindOf[x] = Kinds[k]
    BY <1>6
  <2>2. k \in DOMAIN Kinds /\ k \in 1..k
    BY <2>1 DEF Reached, Kinds
  <2>3. Valid(KindOf[x], text)
    BY <1>6, <2>1, <2>2 DEF Reached
  <2>4. QED
    BY <1>1, <1>6, <2>3 DEF Tells
<1> HIDE DEF held, taken
<1>7. ASSUME NEW x \in Variables
      PROVE  /\ held[x] \in ValueType(KindOf[x])
             /\ held[x] \in {VariableFrom(uses, old, x, n), VariableFrom(uses, old, x, n + 1)}
             /\ taken(x) \/ ~Tells(uses[n + 1], x) => held[x] = VariableFrom(uses, old, x, n + 1)
  <2>1. VariableFrom(uses, old, x, n + 1) =
          IF Tells(uses[n + 1], x) THEN Converted(KindOf[x], text, VariableFrom(uses, old, x, n))
          ELSE VariableFrom(uses, old, x, n)
    BY <1>1, VariableNext
  <2>2. CASE taken(x)
    <3>1. Valid(KindOf[x], text) /\ Tells(uses[n + 1], x)
      BY <1>6, <2>2
    <3>2. held[x] = Converted(KindOf[x], text, before_it[x]) /\ before_it[x] = VariableFrom(uses, old, x, n)
      BY <1>2, <1>5, <2>2
    <3>3. held[x] \in ValueType(KindOf[x])
      BY <1>4, <3>1, <3>2, ConvertedType
    <3>4. QED
      BY <2>1, <3>1, <3>2, <3>3
  <2>3. CASE ~taken(x)
    <3>1. held[x] = before_it[x] /\ before_it[x] = VariableFrom(uses, old, x, n)
      BY <1>2, <1>5, <2>3
    <3>2. QED
      BY <1>4, <2>1, <2>3, <3>1
  <2>4. QED
    BY <2>2, <2>3
<1>8. ASSUME NEW f \in Flags PROVE held[f] = before_it[f]
  <2>1. ~taken(f)
    BY <1>2, <1>4 DEF taken
  <2>2. QED
    BY <1>5, <2>1
<1>9. ASSUME ArgumentFits(o, text), NEW x \in Variables PROVE taken(x) \/ ~Tells(uses[n + 1], x)
  <2>1. Tells(uses[n + 1], x) => x \in o.args
    BY <1>1 DEF Tells
  <2>2. PICK k \in DOMAIN Kinds : KindOf[x] = Kinds[k]
    BY KindOfVariable
  <2>3. k \in Reached(o, text)
    BY <1>9 DEF ArgumentFits, Reached
  <2>4. QED
    BY <2>1, <2>2, <2>3 DEF taken
<1>10. Typed(held)
  BY <1>4, <1>5, <1>7, <1>8 DEF Typed
<1>11. \A f \in Flags : held[f] = FlagFrom(uses, old, f, n + 1)
  BY <1>3, <1>8
<1>12. ArgumentFits(o, text) => Holds(uses, old, held, n + 1)
  BY <1>7, <1>9, <1>11 DEF Holds
<1>13. QED
  BY <1>7, <1>10, <1>11, <1>12 DEF held, before_it

-----------------------------------------------------------------------------
(***************************************************************************)
(* The definitions of CommandLineParser are these functions of its state,  *)
(* and so are their primes.                                                *)
(***************************************************************************)
WellFormedIn(opts, args, wanted) ==
  /\ \A k \in DOMAIN UsesIn(opts, args) : WellUsed(UsesIn(opts, args)[k])
  /\ OthersTo(opts, args, Len(args)) # {} => wanted

AsksIn(uses) == \E k \in DOMAIN uses : \E o \in uses[k].options : o.set_if_present = m_help

OthersIn(opts, args) == {k \in DOMAIN args : ~TakenIn(opts, args, k) /\ Shape[args[k]].dashes = 0}

LEMMA FindsInOptions ==
  /\ \A word : FindByLongOption(word) = LongIn(m_options, word)
  /\ \A word : FindByShortOption(word) = ShortIn(m_options, word)
  /\ \A word : FindByLongOption(word)' = LongIn(m_options', word)
  /\ \A word : FindByShortOption(word)' = ShortIn(m_options', word)
BY DEF FindByLongOption, FindByShortOption, First, LongIn, ShortIn

LEMMA SameMeaning ==
  /\ Uses = UsesIn(m_options, argv)
  /\ Others = OthersIn(m_options, argv)
BY DEF Uses, UsesIn, UsesOf, UsesOfIn, LettersIn, Taken, TakenIn, Takes, TakesIn, Others, OthersIn,
       FindByLongOption, FindByShortOption, First, LongIn, ShortIn

LEMMA SameMeaningNext ==
  /\ Uses' = UsesIn(m_options', argv')
  /\ Others' = OthersIn(m_options', argv')
BY DEF Uses, UsesIn, UsesOf, UsesOfIn, LettersIn, Taken, TakenIn, Takes, TakesIn, Others, OthersIn,
       FindByLongOption, FindByShortOption, First, LongIn, ShortIn

LEMMA SameFlags ==
  \A f, n : FlagAfter(f, n)' = FlagFrom(UsesIn(m_options', argv'), before', f, n)
BY SameMeaningNext DEF FlagAfter, FlagFrom, Naming, NamingIn

LEMMA SameVariables ==
  \A x, n : VariableAfter(x, n)' = VariableFrom(UsesIn(m_options', argv'), before', x, n)
BY SameMeaningNext DEF VariableAfter, VariableFrom, Told

LEMMA OthersAreAll ==
  ASSUME NEW opts, NEW args \in Seq(Texts)
  PROVE  OthersIn(opts, args) = OthersTo(opts, args, Len(args))
<1>1. DOMAIN args = 1..Len(args)
  OBVIOUS
<1>2. QED
  BY <1>1 DEF OthersIn, OthersTo

LEMMA SameJudgement ==
  ASSUME argv' \in Seq(Texts)
  PROVE  /\ WellFormed' <=> WellFormedIn(m_options', argv', wants')
         /\ AsksForHelp' <=> AsksIn(UsesIn(m_options', argv'))
<1>1. Others' = OthersTo(m_options', argv', Len(argv'))
  BY SameMeaningNext, OthersAreAll
<1>2. WellFormed' <=> WellFormedIn(m_options', argv', wants')
  BY <1>1, SameMeaningNext DEF WellFormed, WellFormedIn
<1>3. AsksForHelp' <=> AsksIn(UsesIn(m_options', argv'))
  BY SameMeaningNext DEF AsksForHelp, AsksIn
<1>4. QED
  BY <1>2, <1>3

-----------------------------------------------------------------------------
(***************************************************************************)
(* How a step of Parse ends: it fails, or goes on at a later argument.     *)
(***************************************************************************)
Kept == UNCHANGED <<options, help_flag, line, shown>>

LEMMA KeptLine ==
  ASSUME Kept
  PROVE  /\ m_options' = m_options /\ has_flag' = has_flag /\ help_flag' = help_flag
         /\ argv' = argv /\ wants' = wants /\ before' = before /\ given' = given
         /\ AllUses' = AllUses
BY DEF Kept, options, line, AllUses

LEMMA AllUsesType ==
  ASSUME Types
  PROVE  AllUses \in Seq(UseType) /\ Len(AllUses) \in Nat
<1>1. m_options \in Seq(Known) /\ argv \in Seq(Texts)
  BY DEF Types
<1>2. Len(argv) \in 0..Len(argv)
  BY <1>1
<1>3. UsesIn(m_options, argv) \in Seq(UseType)
  BY <1>1, <1>2, UsesToStep
<1>4. QED
  BY <1>3 DEF AllUses

LEMMA Stops ==
  ASSUME CmdInv, pc # "idle", Kept, Fail, other_args' = other_args, Typed(value'),
         ~WellFormedIn(m_options, argv, wants),
         NEW n \in 0..Len(AllUses), NEW m \in 0..Len(AllUses), m \in {n, n + 1},
         \A k \in 1..n : WellUsed(AllUses[k]),
         \A f \in Flags : value'[f] \in {FlagFrom(AllUses, before, f, n), FlagFrom(AllUses, before, f, m)},
         \A x \in Variables : value'[x] \in {VariableFrom(AllUses, before, x, n), VariableFrom(AllUses, before, x, m)}
  PROVE  CmdInv'
<1>1. /\ m_options' = m_options /\ has_flag' = has_flag /\ help_flag' = help_flag
      /\ argv' = argv /\ wants' = wants /\ before' = before /\ given' = given
  BY KeptLine
<1>2. pc' = "idle" /\ result' = "failed" /\ i' = i
  BY DEF Fail
<1>3. Types'
  BY <1>1, <1>2 DEF CmdInv, Types
<1>4. Going'
  BY <1>2 DEF Going
<1>5. Accepts'
  <2>1. argv' \in Seq(Texts)
    BY <1>3 DEF Types
  <2>2. ~WellFormed'
    BY <1>1, <2>1, SameJudgement
  <2>3. has_flag' => ~help_flag'
    BY <1>1 DEF CmdInv, Going
  <2>4. QED
    BY <1>2, <2>2, <2>3 DEF Accepts
<1>6. MeansWhatItSays'
  BY <1>2 DEF MeansWhatItSays
<1>7. FailureStopsThere'
  <2>1. Uses' = AllUses
    BY <1>1, SameMeaningNext DEF AllUses
  <2>2. ASSUME NEW f \in Flags PROVE value'[f] \in {FlagAfter(f, n)', FlagAfter(f, m)'}
    BY <1>1, SameFlags DEF AllUses
  <2>3. ASSUME NEW x \in Variables PROVE value'[x] \in {VariableAfter(x, n)', VariableAfter(x, m)'}
    BY <1>1, SameVariables DEF AllUses
  <2>4. n \in 0..Len(Uses') /\ m \in 0..Len(Uses') /\ \A k \in 1..n : WellUsed(Uses'[k])
    BY <2>1
  <2>5. QED
    BY <2>2, <2>3, <2>4 DEF FailureStopsThere
<1>8. QED
  BY <1>3, <1>4, <1>5, <1>6, <1>7 DEF CmdInv

LEMMA GoesOn ==
  ASSUME CmdInv, pc # "idle", Kept, NEW next \in 1..(Len(argv) + 1), Onward(next), Typed(value'),
         other_args' \in Seq(Texts),
         next <= Len(argv) => ~TakenIn(m_options, argv, next),
         \A k \in 1..Len(UsesTo(m_options, argv, next - 1)) : WellUsed(AllUses[k]),
         Holds(AllUses, before, value', Len(UsesTo(m_options, argv, next - 1))),
         OthersTo(m_options, argv, next - 1) # {} => wants,
         Listed(other_args', argv, OthersTo(m_options, argv, next - 1))
  PROVE  CmdInv'
<1>1. /\ m_options' = m_options /\ has_flag' = has_flag /\ help_flag' = help_flag
      /\ argv' = argv /\ wants' = wants /\ before' = before /\ given' = given
      /\ AllUses' = AllUses
  BY KeptLine
<1>2. pc' = "parsing" /\ i' = next /\ result' = result
  BY DEF Onward
<1>3. Types'
  BY <1>1, <1>2 DEF CmdInv, Types
<1>4. Met' = Len(UsesTo(m_options, argv, next - 1))
  <2>1. Met' = Len(UsesTo(m_options, argv, next - 1)) + 0
    BY <1>1, <1>2 DEF Met
  <2>2. m_options \in Seq(Known) /\ argv \in Seq(Texts)
    BY DEF CmdInv, Types
  <2>3. next - 1 \in 0..Len(argv)
    BY <2>2
  <2>4. UsesTo(m_options, argv, next - 1) \in Seq(UseType)
    BY <2>2, <2>3, UsesToStep
  <2>5. QED
    BY <2>1, <2>4
<1>5. has_flag' => ~help_flag'
  BY <1>1 DEF CmdInv, Going
<1>6. Going'
  BY <1>1, <1>2, <1>4, <1>5 DEF Going
<1>7. Accepts' /\ MeansWhatItSays' /\ FailureStopsThere'
  BY <1>2 DEF Accepts, MeansWhatItSays, FailureStopsThere, Parsed
<1>8. QED
  BY <1>3, <1>6, <1>7 DEF CmdInv

(***************************************************************************)
(* An argument that takes none, or is not one of other arguments, leaves   *)
(* the arguments passed as they were.                                      *)
(***************************************************************************)
LEMMA OthersStep ==
  ASSUME NEW opts, NEW args \in Seq(Texts), NEW k \in 1..Len(args)
  PROVE  OthersTo(opts, args, k) =
           IF ~TakenIn(opts, args, k) /\ Shape[args[k]].dashes = 0 THEN OthersTo(opts, args, k - 1) \union {k}
           ELSE OthersTo(opts, args, k - 1)
<1>1. 1..k = (1..(k - 1)) \union {k}
  OBVIOUS
<1>2. QED
  BY <1>1 DEF OthersTo

LEMMA ListedStep ==
  ASSUME NEW args \in Seq(Texts), NEW k \in 1..Len(args), NEW ks, ks \subseteq 1..(k - 1),
         NEW list \in Seq(Texts), Listed(list, args, ks)
  PROVE  Listed(Append(list, args[k]), args, ks \union {k})
<1>1. IsFiniteSet(ks) /\ k \in Nat /\ k \notin ks /\ args[k] \in Texts
  <2>1. k \in Nat /\ k \notin ks /\ args[k] \in Texts
    OBVIOUS
  <2>2. 1 \in Int /\ k - 1 \in Int
    OBVIOUS
  <2>3. IsFiniteSet(1..(k - 1))
    BY <2>2, FS_Interval
  <2>4. IsFiniteSet(ks)
    BY <2>3, FS_Subset
  <2>5. QED
    BY <2>1, <2>4
<1>2. Cardinality(ks) \in Nat /\ Cardinality(ks \union {k}) = Cardinality(ks) + 1
  <2>1. Cardinality(ks) \in Nat
    BY <1>1, FS_CardinalityType
  <2>2. Cardinality(ks \union {k}) = IF k \in ks THEN Cardinality(ks) ELSE Cardinality(ks) + 1
    BY <1>1, FS_AddElement
  <2>3. QED
    BY <1>1, <2>1, <2>2
<1>3. Len(list) = Cardinality(ks) /\ \A j \in ks : list[Cardinality({m \in ks : m <= j})] = args[j]
  BY DEF Listed
<1>4. /\ Len(Append(list, args[k])) = Len(list) + 1
      /\ \A j \in 1..Len(list) : Append(list, args[k])[j] = list[j]
      /\ Append(list, args[k])[Len(list) + 1] = args[k]
  BY <1>1, AppendProperties
<1>5. ASSUME NEW j \in ks PROVE Append(list, args[k])[Cardinality({m \in ks \union {k} : m <= j})] = args[j]
  <2> DEFINE upto == {m \in ks : m <= j}
  <2>1. {m \in ks \union {k} : m <= j} = upto
    <3>1. j \in 1..(k - 1) /\ ~(k <= j)
      BY <1>1
    <3>2. QED
      BY <3>1
  <2>2. upto \subseteq ks /\ j \in upto
    OBVIOUS
  <2>3. Cardinality(upto) \in 1..Cardinality(ks)
    <3>1. IsFiniteSet(upto) /\ Cardinality(upto) \in Nat /\ Cardinality(upto) <= Cardinality(ks)
      BY <1>1, <2>2, FS_Subset, FS_CardinalityType
    <3>2. Cardinality(upto) # 0
      BY <2>2, <3>1, FS_EmptySet
    <3>3. QED
      BY <1>2, <3>1, <3>2
  <2>4. list[Cardinality(upto)] = args[j]
    BY <1>3
  <2>5. QED
    BY <1>3, <1>4, <2>1, <2>3, <2>4
<1>6. Append(list, args[k])[Cardinality({m \in ks \union {k} : m <= k})] = args[k]
  <2>1. {m \in ks \union {k} : m <= k} = ks \union {k}
    <3>1. ASSUME NEW m \in ks \union {k} PROVE m <= k
      <4>1. m \in 1..(k - 1) \/ m = k
        OBVIOUS
      <4>2. k \in Int
        OBVIOUS
      <4>3. QED
        BY <4>1, <4>2
    <3>2. QED
      BY <3>1
  <2>2. QED
    BY <1>2, <1>3, <1>4, <2>1
<1>7. QED
  BY <1>2, <1>3, <1>4, <1>5, <1>6 DEF Listed

-----------------------------------------------------------------------------
(***************************************************************************)
(* What is known at an argument that Parse looks at.                       *)
(***************************************************************************)
LEMMA Here ==
  ASSUME CmdInv, pc # "idle"
  PROVE  /\ m_options \in Seq(Known) /\ argv \in Seq(Texts) /\ Typed(value) /\ Typed(before)
         /\ other_args \in Seq(Texts) /\ Len(argv) \in Nat /\ i \in 1..(Len(argv) + 1)
         /\ Len(UsesTo(m_options, argv, i - 1)) \in Nat
         /\ \A k \in 1..Met : WellUsed(AllUses[k])
         /\ Holds(AllUses, before, value, Met)
         /\ OthersTo(m_options, argv, i - 1) # {} => wants
         /\ Listed(other_args, argv, OthersTo(m_options, argv, i - 1))
         /\ i <= Len(argv) => i \in 1..Len(argv) /\ argv[i] \in Texts /\ ~TakenIn(m_options, argv, i)
<1>1. /\ m_options \in Seq(Known) /\ argv \in Seq(Texts) /\ Typed(value) /\ Typed(before)
      /\ other_args \in Seq(Texts) /\ i \in 1..(Len(argv) + 1)
  BY DEF CmdInv, Types
<1>2. Len(argv) \in Nat /\ i - 1 \in 0..Len(argv) /\ (i <= Len(argv) => i \in 1..Len(argv) /\ argv[i] \in Texts)
  BY <1>1
<1>3. Len(UsesTo(m_options, argv, i - 1)) \in Nat
  <2>1. UsesTo(m_options, argv, i - 1) \in Seq(UseType)
    BY <1>1, <1>2, UsesToStep
  <2>2. QED
    BY <2>1
<1>4. Going
  BY DEF CmdInv
<1>5. QED
  BY <1>1, <1>2, <1>3, <1>4 DEF Going

(***************************************************************************)
(* The ways to fail at a use: no option is found, an option with no text   *)
(* to convert, and a text that does not fit.                               *)
(***************************************************************************)
LEMMA NotFoundFails ==
  ASSUME CmdInv, pc # "idle", Kept, Fail, other_args' = other_args, value' = value,
         Met \in Nat, Met + 1 \in 1..Len(AllUses), AllUses[Met + 1].options = {}
  PROVE  CmdInv'
<1>1. ~WellUsed(AllUses[Met + 1])
  BY DEF WellUsed
<1>2. ~WellFormedIn(m_options, argv, wants)
  <2>1. AllUses \in Seq(UseType)
    BY AllUsesType DEF CmdInv
  <2>2. Met + 1 \in DOMAIN AllUses
    BY <2>1
  <2>3. QED
    BY <1>1, <2>2 DEF WellFormedIn, AllUses
<1>3. Met \in 0..Len(AllUses)
  <2>1. Len(AllUses) \in Nat
    BY AllUsesType DEF CmdInv
  <2>2. QED
    BY <2>1
<1>4. Typed(value')
  BY Here
<1>5. /\ \A k \in 1..Met : WellUsed(AllUses[k])
      /\ \A f \in Flags : value'[f] = FlagFrom(AllUses, before, f, Met)
      /\ \A x \in Variables : value'[x] = VariableFrom(AllUses, before, x, Met)
  BY Here DEF Holds
<1> HIDE DEF Met, AllUses
<1>6. PICK n : n = Met
  OBVIOUS
<1>7. /\ n \in 0..Len(AllUses) /\ n \in {n, n + 1} /\ \A k \in 1..n : WellUsed(AllUses[k])
      /\ \A f \in Flags : value'[f] \in {FlagFrom(AllUses, before, f, n), FlagFrom(AllUses, before, f, n)}
      /\ \A x \in Variables : value'[x] \in {VariableFrom(AllUses, before, x, n), VariableFrom(AllUses, before, x, n)}
  BY <1>3, <1>5, <1>6
<1>8. QED
  BY <1>2, <1>4, <1>7, Stops

LEMMA UseFails ==
  ASSUME CmdInv, pc # "idle", Kept, Fail, other_args' = other_args, Typed(value'),
         Met \in Nat, Met + 1 \in 1..Len(AllUses), ~WellUsed(AllUses[Met + 1]),
         \A f \in Flags : value'[f] = FlagFrom(AllUses, before, f, Met + 1),
         \A x \in Variables : value'[x] \in {VariableFrom(AllUses, before, x, Met), VariableFrom(AllUses, before, x, Met + 1)}
  PROVE  CmdInv'
<1>1. AllUses \in Seq(UseType) /\ Len(AllUses) \in Nat
  BY AllUsesType DEF CmdInv
<1>2. ~WellFormedIn(m_options, argv, wants)
  <2>1. Met + 1 \in DOMAIN AllUses
    BY <1>1
  <2>2. QED
    BY <2>1 DEF WellFormedIn, AllUses
<1>3. Met \in 0..Len(AllUses) /\ Met + 1 \in 0..Len(AllUses)
  BY <1>1
<1>4. \A k \in 1..Met : WellUsed(AllUses[k])
  BY Here
<1>5. PICK n, m : n = Met /\ m = Met + 1
  OBVIOUS
<1>6. /\ n \in 0..Len(AllUses) /\ m \in 0..Len(AllUses) /\ m \in {n, n + 1} /\ \A k \in 1..n : WellUsed(AllUses[k])
      /\ \A f \in Flags : value'[f] \in {FlagFrom(AllUses, before, f, n), FlagFrom(AllUses, before, f, m)}
      /\ \A x \in Variables : value'[x] \in {VariableFrom(AllUses, before, x, n), VariableFrom(AllUses, before, x, m)}
  BY <1>3, <1>4, <1>5
<1>7. QED
  BY <1>2, <1>6, Stops

LEMMA OptionFails ==
  ASSUME CmdInv, pc # "idle", Kept, Fail, other_args' = other_args,
         Met \in Nat, Met + 1 \in 1..Len(AllUses), ~WellUsed(AllUses[Met + 1]),
         NEW o \in Known, AllUses[Met + 1].options = {o}, o.args = {} \/ AllUses[Met + 1].text = None,
         value' = HandleOption(o)
  PROVE  CmdInv'
<1>1. /\ AllUses \in Seq(UseType) /\ Len(AllUses) \in Nat /\ Typed(value) /\ Typed(before)
      /\ Holds(AllUses, before, value, Met)
  BY AllUsesType, Here DEF CmdInv
<1>2. Met + 1 <= Len(AllUses)
  BY <1>1
<1>3. Typed(HandleOption(o))
  BY <1>1, OptionSets
<1>4. Holds(AllUses, before, HandleOption(o), Met + 1)
  BY <1>1, <1>2, OptionStep
<1>5. /\ \A f \in Flags : value'[f] = FlagFrom(AllUses, before, f, Met + 1)
      /\ \A x \in Variables : value'[x] = VariableFrom(AllUses, before, x, Met + 1)
  BY <1>4 DEF Holds
<1>6. QED
  BY <1>3, <1>5, UseFails

LEMMA ArgumentFails ==
  ASSUME CmdInv, pc # "idle", Kept, Fail, other_args' = other_args,
         Met \in Nat, Met + 1 \in 1..Len(AllUses), ~WellUsed(AllUses[Met + 1]),
         NEW o \in Known, NEW text \in Texts, AllUses[Met + 1] = Use({o}, text),
         value' = DoArgument(o, text, HandleOption(o))
  PROVE  CmdInv'
<1>1. /\ AllUses \in Seq(UseType) /\ Len(AllUses) \in Nat /\ Typed(value) /\ Typed(before)
      /\ Holds(AllUses, before, value, Met)
  BY AllUsesType, Here DEF CmdInv
<1>2. Met + 1 <= Len(AllUses)
  BY <1>1
<1>3. /\ Typed(value')
      /\ \A f \in Flags : value'[f] = FlagFrom(AllUses, before, f, Met + 1)
      /\ \A x \in Variables :
           value'[x] \in {VariableFrom(AllUses, before, x, Met), VariableFrom(AllUses, before, x, Met + 1)}
  BY <1>1, <1>2, ArgumentStep
<1>4. QED
  BY <1>3, UseFails

-----------------------------------------------------------------------------
(***************************************************************************)
(* An argument that begins with dashes and takes no other with it.         *)
(***************************************************************************)
LEMMA NextArgument ==
  ASSUME CmdInv, pc # "idle", Kept, i <= Len(argv), Shape[argv[i]].dashes # 0,
         ~TakesIn(m_options, argv, i), Onward(i + 1), Typed(value'), other_args' = other_args,
         \A k \in 1..Len(UsesTo(m_options, argv, i)) : WellUsed(AllUses[k]),
         Holds(AllUses, before, value', Len(UsesTo(m_options, argv, i)))
  PROVE  CmdInv'
<1>1. /\ argv \in Seq(Texts) /\ other_args \in Seq(Texts) /\ i \in 1..Len(argv) /\ Len(argv) \in Nat
      /\ OthersTo(m_options, argv, i - 1) # {} => wants
      /\ Listed(other_args, argv, OthersTo(m_options, argv, i - 1))
  BY Here
<1>2. i + 1 \in 1..(Len(argv) + 1) /\ (i + 1) - 1 = i
  BY <1>1
<1>3. i + 1 <= Len(argv) => ~TakenIn(m_options, argv, i + 1)
  <2>1. SUFFICES ASSUME i + 1 <= Len(argv) PROVE ~TakenIn(m_options, argv, i + 1)
    OBVIOUS
  <2>2. i + 1 \in 1..Len(argv)
    BY <1>1, <2>1
  <2>3. QED
    BY <1>1, <1>2, <2>2, TakenInTurn
<1>4. OthersTo(m_options, argv, i) = OthersTo(m_options, argv, i - 1)
  BY <1>1, OthersStep
<1>5. PICK next : next = i + 1
  OBVIOUS
<1>6. /\ next \in 1..(Len(argv) + 1) /\ next - 1 = i /\ Onward(next)
      /\ next <= Len(argv) => ~TakenIn(m_options, argv, next)
  BY <1>2, <1>3, <1>5
<1>7. other_args' \in Seq(Texts) /\ Listed(other_args', argv, OthersTo(m_options, argv, i))
  BY <1>1, <1>4
<1>8. QED
  BY <1>1, <1>4, <1>6, <1>7, GoesOn

(***************************************************************************)
(* "--name", or "--name=argument".                                         *)
(***************************************************************************)
LEMMA LongHere ==
  ASSUME CmdInv, Looking(2)
  PROVE  LET look == Shape[argv[i]]
         IN /\ look.arg \in Texts \union {None}
            /\ Met \in Nat /\ Met + 1 \in 1..Len(AllUses)
            /\ AllUses[Met + 1] = Use(LongIn(m_options, look.name), look.arg)
            /\ Len(UsesTo(m_options, argv, i)) = Met + 1
            /\ \A k \in 1..Met : WellUsed(AllUses[k])
            /\ ~TakesIn(m_options, argv, i)
<1> DEFINE look == Shape[argv[i]]
           use == Use(LongIn(m_options, look.name), look.arg)
           first == Len(UsesTo(m_options, argv, i - 1))
<1>1. pc = "parsing" /\ i <= Len(argv) /\ look.dashes = 2
  BY DEF Looking
<1>2. /\ m_options \in Seq(Known) /\ argv \in Seq(Texts) /\ i \in 1..Len(argv) /\ argv[i] \in Texts
      /\ ~TakenIn(m_options, argv, i) /\ first \in Nat /\ \A k \in 1..Met : WellUsed(AllUses[k])
  BY <1>1, Here
<1>3. UsesOfIn(m_options, argv, i) = <<use>>
  BY <1>1, <1>2 DEF UsesOfIn
<1>4. /\ Len(UsesTo(m_options, argv, i)) = first + Len(UsesOfIn(m_options, argv, i))
      /\ \A j \in 1..Len(UsesOfIn(m_options, argv, i)) :
           /\ first + j \in 1..Len(AllUses)
           /\ AllUses[first + j] = UsesOfIn(m_options, argv, i)[j]
  BY <1>2, UsesHere DEF AllUses
<1>5. Met = first
  BY <1>1, <1>2 DEF Met
<1>6. Len(<<use>>) = 1 /\ <<use>>[1] = use /\ 1 \in 1..Len(<<use>>)
  OBVIOUS
<1> HIDE DEF use, first
<1>7. /\ Len(UsesTo(m_options, argv, i)) = Met + 1 /\ Met + 1 \in 1..Len(AllUses)
      /\ AllUses[Met + 1] = use
  BY <1>3, <1>4, <1>5, <1>6
<1>8. look.arg \in Texts \union {None}
  BY <1>1, <1>2, ShapeAssumption
<1>9. ~TakesIn(m_options, argv, i)
  BY <1>1 DEF TakesIn
<1>10. Met \in Nat
  BY <1>2, <1>5
<1>11. QED
  BY <1>2, <1>7, <1>8, <1>9, <1>10 DEF use

LEMMA LongArgStep ==
  ASSUME CmdInv, LongArg
  PROVE  CmdInv'
<1> DEFINE look == Shape[argv[i]]
           found == LongIn(m_options, look.name)
           got_arg == look.arg # None
<1>1. Looking(2) /\ other_args' = other_args
  BY DEF LongArg
<1>2. pc = "parsing" /\ pc # "idle" /\ i <= Len(argv) /\ look.dashes = 2 /\ look.dashes # 0 /\ Kept
  BY <1>1 DEF Looking, Kept
<1>3. /\ look.arg \in Texts \union {None}
      /\ Met \in Nat /\ Met + 1 \in 1..Len(AllUses)
      /\ AllUses[Met + 1] = Use(found, look.arg)
      /\ Len(UsesTo(m_options, argv, i)) = Met + 1
      /\ \A k \in 1..Met : WellUsed(AllUses[k])
      /\ ~TakesIn(m_options, argv, i)
  BY <1>1, LongHere
<1>4. AllUses[Met + 1].options = found /\ AllUses[Met + 1].text = look.arg
  BY <1>3 DEF Use
<1>5. /\ m_options \in Seq(Known) /\ Typed(value) /\ Typed(before) /\ Holds(AllUses, before, value, Met)
  BY <1>2, Here
<1>6. found \subseteq Known /\ \A o, p \in found : o = p
  BY <1>5, FoundIsKnown
<1>7. AllUses \in Seq(UseType) /\ Len(AllUses) \in Nat /\ Met + 1 <= Len(AllUses)
  BY <1>3, AllUsesType DEF CmdInv
<1>8. \/ found = {} /\ Fail /\ UNCHANGED value
      \/ \E o \in found : ~LongFits(o, got_arg) /\ Fail /\ value' = HandleOption(o)
      \/ \E o \in found :
           /\ LongFits(o, got_arg) /\ NeedsArgument(o)
           /\ value' = DoArgument(o, look.arg, HandleOption(o))
           /\ IF ArgumentFits(o, look.arg) THEN Onward(i + 1) ELSE Fail
      \/ \E o \in found :
           /\ LongFits(o, got_arg) /\ ~NeedsArgument(o)
           /\ value' = HandleOption(o)
           /\ Onward(i + 1)
  BY FindsInOptions DEF LongArg
<1> HIDE DEF look, found, got_arg
<1>9. CASE found = {} /\ Fail /\ UNCHANGED value
  BY <1>1, <1>2, <1>3, <1>4, <1>9, NotFoundFails
<1>10. ASSUME NEW o \in found, ~LongFits(o, got_arg), Fail, value' = HandleOption(o) PROVE CmdInv'
  <2>1. o \in Known /\ found = {o}
    BY <1>6
  <2>2. o.args = {} \/ look.arg = None
    BY <1>10 DEF LongFits, NeedsArgument, got_arg
  <2>3. ~WellUsed(AllUses[Met + 1])
    BY <1>4, <1>10, <2>1 DEF WellUsed, LongFits, got_arg
  <2>4. QED
    BY <1>1, <1>2, <1>3, <1>4, <1>10, <2>1, <2>2, <2>3, OptionFails
<1>11. ASSUME NEW o \in found, LongFits(o, got_arg), NeedsArgument(o),
              value' = DoArgument(o, look.arg, HandleOption(o))
       PROVE  /\ ArgumentFits(o, look.arg) /\ Onward(i + 1) => CmdInv'
              /\ ~ArgumentFits(o, look.arg) /\ Fail => CmdInv'
  <2>1. o \in Known /\ found = {o}
    BY <1>6
  <2>2. look.arg \in Texts
    BY <1>3, <1>11 DEF LongFits, got_arg
  <2>3. PICK text \in Texts : text = look.arg
    BY <2>2
  <2>4. AllUses[Met + 1] = Use({o}, text) /\ value' = DoArgument(o, text, HandleOption(o)) /\ text # None
    BY <1>3, <1>11, <2>1, <2>3, ShapeAssumption
  <2>5. ASSUME ~ArgumentFits(o, look.arg), Fail PROVE CmdInv'
    <3>1. ~WellUsed(AllUses[Met + 1])
      BY <1>4, <1>11, <2>1, <2>5 DEF WellUsed
    <3>2. QED
      BY <1>1, <1>2, <1>3, <2>1, <2>4, <2>5, <3>1, ArgumentFails
  <2>6. ASSUME ArgumentFits(o, look.arg), Onward(i + 1) PROVE CmdInv'
    <3>1. WellUsed(AllUses[Met + 1])
      BY <1>4, <1>11, <2>1, <2>3, <2>4, <2>6 DEF WellUsed
    <3>2. \A k \in 1..(Met + 1) : WellUsed(AllUses[k])
      BY <1>3, <3>1
    <3>3. Typed(value') /\ Holds(AllUses, before, value', Met + 1)
      BY <1>3, <1>5, <1>7, <2>1, <2>3, <2>4, <2>6, ArgumentStep
    <3>4. QED
      BY <1>1, <1>2, <1>3, <2>6, <3>2, <3>3, NextArgument DEF look
  <2>7. QED
    BY <2>5, <2>6
<1>12. ASSUME NEW o \in found, LongFits(o, got_arg), ~NeedsArgument(o), value' = HandleOption(o), Onward(i + 1)
       PROVE  CmdInv'
  <2>1. o \in Known /\ found = {o}
    BY <1>6
  <2>2. o.args = {} /\ look.arg = None
    BY <1>12 DEF LongFits, NeedsArgument, got_arg
  <2>3. WellUsed(AllUses[Met + 1])
    BY <1>4, <1>12, <2>1, <2>2 DEF WellUsed
  <2>4. \A k \in 1..(Met + 1) : WellUsed(AllUses[k])
    BY <1>3, <2>3
  <2>5. Typed(value') /\ Holds(AllUses, before, value', Met + 1)
    BY <1>3, <1>4, <1>5, <1>7, <1>12, <2>1, <2>2, OptionStep, OptionSets
  <2>6. QED
    BY <1>1, <1>2, <1>3, <1>12, <2>4, <2>5, NextArgument DEF look
<1>13. QED
  BY <1>8, <1>9, <1>10, <1>11, <1>12

-----------------------------------------------------------------------------
(***************************************************************************)
(* "-", and the letters of "-...".                                         *)
(***************************************************************************)
LEMMA LettersHere ==
  ASSUME CmdInv, pc # "idle", i <= Len(argv), Shape[argv[i]].dashes = 1
  PROVE  LET letters == Shape[argv[i]].letters
             first == Len(UsesTo(m_options, argv, i - 1))
         IN /\ letters \in Seq(STRING)
            /\ first \in Nat /\ Len(UsesTo(m_options, argv, i)) = first + Len(letters)
            /\ \A j \in 1..Len(letters) :
                 /\ first + j \in 1..Len(AllUses)
                 /\ AllUses[first + j].options = ShortIn(m_options, letters[j])
                 /\ AllUses[first + j].text =
                      IF j = Len(letters) /\ TakesIn(m_options, argv, i) /\ i < Len(argv) THEN argv[i + 1] ELSE None
<1> DEFINE letters == Shape[argv[i]].letters
           first == Len(UsesTo(m_options, argv, i - 1))
           text(j) == IF j = Len(letters) /\ TakesIn(m_options, argv, i) /\ i < Len(argv) THEN argv[i + 1] ELSE None
<1>1. /\ m_options \in Seq(Known) /\ argv \in Seq(Texts) /\ i \in 1..Len(argv) /\ argv[i] \in Texts
      /\ ~TakenIn(m_options, argv, i) /\ first \in Nat
  BY Here
<1>2. letters \in Seq(STRING) /\ DOMAIN letters = 1..Len(letters)
  <2>1. letters \in Seq(STRING)
    BY <1>1, ShapeAssumption
  <2>2. QED
    BY <2>1
<1>3. UsesOfIn(m_options, argv, i) = LettersIn(m_options, argv, i)
  BY <1>1 DEF UsesOfIn
<1>4. Len(LettersIn(m_options, argv, i)) = Len(letters)
  BY <1>1, UsesOfType
<1>5. ASSUME NEW j \in 1..Len(letters)
      PROVE  LettersIn(m_options, argv, i)[j] = Use(ShortIn(m_options, letters[j]), text(j))
  BY <1>2 DEF LettersIn
<1>6. /\ Len(UsesTo(m_options, argv, i)) = first + Len(UsesOfIn(m_options, argv, i))
      /\ \A j \in 1..Len(UsesOfIn(m_options, argv, i)) :
           /\ first + j \in 1..Len(AllUses)
           /\ AllUses[first + j] = UsesOfIn(m_options, argv, i)[j]
  BY <1>1, UsesHere DEF AllUses
<1> HIDE DEF first, letters
<1>7. /\ Len(UsesTo(m_options, argv, i)) = first + Len(letters)
      /\ \A j \in 1..Len(letters) : /\ first + j \in 1..Len(AllUses)
                                    /\ AllUses[first + j] = LettersIn(m_options, argv, i)[j]
  BY <1>3, <1>4, <1>6
<1> HIDE DEF text
<1>8. ASSUME NEW j \in 1..Len(letters)
      PROVE  /\ AllUses[first + j].options = ShortIn(m_options, letters[j])
             /\ AllUses[first + j].text = text(j)
  <2>1. AllUses[first + j] = Use(ShortIn(m_options, letters[j]), text(j))
    BY <1>5, <1>7
  <2>2. QED
    BY <2>1 DEF Use
<1>9. QED
  BY <1>1, <1>2, <1>7, <1>8 DEF first, letters, text

LEMMA ShortArgStep ==
  ASSUME CmdInv, ShortArg
  PROVE  CmdInv'
<1> DEFINE letters == Shape[argv[i]].letters
           first == Len(UsesTo(m_options, argv, i - 1))
<1>1. /\ pc = "parsing" /\ pc # "idle" /\ i <= Len(argv) /\ Shape[argv[i]].dashes = 1 /\ Shape[argv[i]].dashes # 0
      /\ Kept /\ value' = value /\ other_args' = other_args
  BY DEF ShortArg, Looking, Kept
<1>2. /\ letters \in Seq(STRING) /\ first \in Nat /\ Len(UsesTo(m_options, argv, i)) = first + Len(letters)
  BY <1>1, LettersHere
<1>3. Met = first
  BY <1>1, <1>2 DEF Met
<1>4. /\ Typed(value) /\ \A k \in 1..Met : WellUsed(AllUses[k])
      /\ Holds(AllUses, before, value, Met) /\ i \in 1..Len(argv)
  BY <1>1, Here
<1>5. CASE letters = <<>>
  <2>1. Onward(i + 1)
    BY <1>5 DEF ShortArg
  <2>2. ~TakesIn(m_options, argv, i)
    BY <1>5 DEF TakesIn
  <2>3. Len(UsesTo(m_options, argv, i)) = Met
    BY <1>2, <1>3, <1>5
  <2>4. QED
    BY <1>1, <1>4, <2>1, <2>2, <2>3, NextArgument
<1>6. CASE letters # <<>>
  <2>1. pc' = "letters" /\ letter' = 1 /\ i' = i /\ result' = result
    BY <1>6 DEF ShortArg
  <2>2. /\ m_options' = m_options /\ has_flag' = has_flag /\ help_flag' = help_flag
        /\ argv' = argv /\ wants' = wants /\ before' = before /\ given' = given /\ AllUses' = AllUses
    BY <1>1, KeptLine
  <2>3. 1 \in DOMAIN letters
    BY <1>2, <1>6
  <2>4. Types'
    BY <1>1, <2>1, <2>2, <2>3 DEF CmdInv, Types
  <2>5. Met' = Met
    BY <1>2, <1>3, <2>1, <2>2 DEF Met
  <2>6. Going'
    BY <1>1, <2>1, <2>2, <2>5 DEF CmdInv, Going
  <2>7. Accepts' /\ MeansWhatItSays' /\ FailureStopsThere'
    BY <2>1 DEF Accepts, MeansWhatItSays, FailureStopsThere, Parsed
  <2>8. QED
    BY <2>4, <2>6, <2>7 DEF CmdInv
<1>7. QED
  BY <1>5, <1>6

(***************************************************************************)
(* After the argument of a short option: the argument passed over has no   *)
(* uses of its own, and the one after it is not taken.                     *)
(***************************************************************************)
LEMMA AfterTaken ==
  ASSUME CmdInv, pc # "idle", Kept, i < Len(argv), Shape[argv[i]].dashes # 0,
         TakesIn(m_options, argv, i), Onward(i + 2), Typed(value'), other_args' = other_args,
         \A k \in 1..Len(UsesTo(m_options, argv, i)) : WellUsed(AllUses[k]),
         Holds(AllUses, before, value', Len(UsesTo(m_options, argv, i)))
  PROVE  CmdInv'
<1>1. /\ m_options \in Seq(Known) /\ argv \in Seq(Texts) /\ other_args \in Seq(Texts)
      /\ i \in 1..Len(argv) /\ Len(argv) \in Nat
      /\ OthersTo(m_options, argv, i - 1) # {} => wants
      /\ Listed(other_args, argv, OthersTo(m_options, argv, i - 1))
      /\ ~TakenIn(m_options, argv, i)
  BY Here
<1>2. i + 1 \in 1..Len(argv) /\ i + 1 > 1 /\ (i + 1) - 1 = i
  BY <1>1
<1>3. TakenIn(m_options, argv, i + 1)
  BY <1>1, <1>2, TakenInTurn
<1>4. i + 2 <= Len(argv) => ~TakenIn(m_options, argv, i + 2)
  <2>1. SUFFICES ASSUME i + 2 <= Len(argv) PROVE ~TakenIn(m_options, argv, i + 2)
    OBVIOUS
  <2>2. i + 2 \in 1..Len(argv) /\ (i + 2) - 1 = i + 1
    BY <1>1, <2>1
  <2>3. QED
    BY <1>1, <1>3, <2>2, TakenInTurn
<1>5. UsesTo(m_options, argv, i + 1) = UsesTo(m_options, argv, i)
  <2>1. UsesOfIn(m_options, argv, i + 1) = <<>>
    BY <1>3 DEF UsesOfIn
  <2>2. UsesTo(m_options, argv, i + 1) = UsesTo(m_options, argv, i) \o <<>>
    BY <1>1, <1>2, <2>1, UsesToStep
  <2>3. i \in 0..Len(argv)
    BY <1>1
  <2>4. UsesTo(m_options, argv, i) \in Seq(UseType)
    BY <1>1, <2>3, UsesToStep
  <2>5. QED
    BY <2>2, <2>4, ConcatEmptySeq
<1>6. OthersTo(m_options, argv, i + 1) = OthersTo(m_options, argv, i - 1)
  <2>1. OthersTo(m_options, argv, i) = OthersTo(m_options, argv, i - 1)
    BY <1>1, OthersStep
  <2>2. OthersTo(m_options, argv, i + 1) = OthersTo(m_options, argv, i)
    BY <1>1, <1>2, <1>3, OthersStep
  <2>3. QED
    BY <2>1, <2>2
<1>7. PICK next : next = i + 2
  OBVIOUS
<1>8. /\ next \in 1..(Len(argv) + 1) /\ next - 1 = i + 1 /\ Onward(next)
      /\ next <= Len(argv) => ~TakenIn(m_options, argv, next)
  BY <1>1, <1>4, <1>7
<1>9. other_args' \in Seq(Texts) /\ Listed(other_args', argv, OthersTo(m_options, argv, i + 1))
  BY <1>1, <1>6
<1>10. QED
  BY <1>1, <1>5, <1>6, <1>8, <1>9, GoesOn

LEMMA ShortLetterStep ==
  ASSUME CmdInv, ShortLetter
  PROVE  CmdInv'
<1> DEFINE letters == Shape[argv[i]].letters
           found == ShortIn(m_options, letters[letter])
           last == letter = Len(letters)
           first == Len(UsesTo(m_options, argv, i - 1))
           text == IF last /\ TakesIn(m_options, argv, i) /\ i < Len(argv) THEN argv[i + 1] ELSE None
<1>1. pc = "letters" /\ pc # "idle" /\ Kept /\ other_args' = other_args
  BY DEF ShortLetter, Kept
<1>2. i <= Len(argv) /\ Shape[argv[i]].dashes = 1 /\ Shape[argv[i]].dashes # 0 /\ letter \in DOMAIN letters
  BY <1>1 DEF CmdInv, Types
<1>3. letters \in Seq(STRING) /\ first \in Nat /\ Len(UsesTo(m_options, argv, i)) = first + Len(letters)
  BY <1>1, <1>2, LettersHere
<1>4. letter \in 1..Len(letters) /\ Len(letters) \in Nat
  BY <1>2, <1>3
<1>5. Met = first + (letter - 1)
  BY <1>1 DEF Met
<1>6. Met \in Nat /\ Met + 1 = first + letter /\ (last => Len(UsesTo(m_options, argv, i)) = Met + 1)
  <2> HIDE DEF first, letters
  <2>1. letter \in Nat /\ letter >= 1
    BY <1>4
  <2>2. Met \in Nat /\ Met + 1 = first + letter
    BY <1>3, <1>5, <2>1
  <2>3. QED
    BY <1>3, <2>2
<1>7. /\ Met + 1 \in 1..Len(AllUses)
      /\ AllUses[Met + 1].options = found /\ AllUses[Met + 1].text = text
  BY <1>1, <1>2, <1>4, <1>6, LettersHere
<1>8. /\ m_options \in Seq(Known) /\ argv \in Seq(Texts) /\ Typed(value) /\ Typed(before)
      /\ Len(argv) \in Nat /\ i \in 1..Len(argv) /\ other_args \in Seq(Texts)
      /\ Holds(AllUses, before, value, Met) /\ \A k \in 1..Met : WellUsed(AllUses[k])
  BY <1>1, <1>2, Here
<1>9. found \subseteq Known /\ \A o, p \in found : o = p
  BY <1>8, FoundIsKnown
<1>10. AllUses \in Seq(UseType) /\ Len(AllUses) \in Nat /\ Met + 1 <= Len(AllUses)
  BY <1>7, AllUsesType DEF CmdInv
<1>11. last => (TakesIn(m_options, argv, i) <=> \E o \in found : NeedsArgument(o))
  <2>1. letters # <<>>
    BY <1>3, <1>4
  <2>2. last => letters[letter] = Last(letters)
    BY DEF Last
  <2>3. QED
    BY <1>2, <2>1, <2>2 DEF TakesIn
<1>12. \/ found = {} /\ Fail /\ UNCHANGED value
       \/ \E o \in found :
            /\ ~NeedsArgument(o) /\ value' = HandleOption(o)
            /\ IF last THEN Onward(i + 1) ELSE letter' = letter + 1 /\ UNCHANGED <<pc, i, result>>
       \/ \E o \in found :
            /\ NeedsArgument(o)
            /\ IF ~last \/ i = Len(argv) THEN value' = HandleOption(o) /\ Fail
               ELSE /\ value' = DoArgument(o, argv[i + 1], HandleOption(o))
                    /\ IF ArgumentFits(o, argv[i + 1]) THEN Onward(i + 2) ELSE Fail
  BY FindsInOptions DEF ShortLetter, AfterArgument
<1>13. /\ m_options' = m_options /\ has_flag' = has_flag /\ help_flag' = help_flag
       /\ argv' = argv /\ wants' = wants /\ before' = before /\ given' = given /\ AllUses' = AllUses
  BY <1>1, KeptLine
<1> HIDE DEF found, last, text
<1>14. CASE found = {} /\ Fail /\ UNCHANGED value
  BY <1>1, <1>6, <1>7, <1>14, NotFoundFails
<1>15. ASSUME NEW o \in found, ~NeedsArgument(o), value' = HandleOption(o)
       PROVE  /\ last /\ Onward(i + 1) => CmdInv'
              /\ ~last /\ letter' = letter + 1 /\ UNCHANGED <<pc, i, result>> => CmdInv'
  <2>1. o \in Known /\ found = {o} /\ o.args = {}
    BY <1>9, <1>15 DEF NeedsArgument
  <2>2. last => ~TakesIn(m_options, argv, i)
    BY <1>11, <1>15, <2>1
  <2>3. text = None
    BY <2>2 DEF text
  <2>4. WellUsed(AllUses[Met + 1])
    BY <1>7, <1>15, <2>1, <2>3 DEF WellUsed
  <2>5. \A k \in 1..(Met + 1) : WellUsed(AllUses[k])
    BY <1>6, <1>8, <2>4
  <2>6. Typed(value') /\ Holds(AllUses, before, value', Met + 1)
    BY <1>6, <1>7, <1>8, <1>10, <1>15, <2>1, OptionStep, OptionSets
  <2>7. ASSUME last, Onward(i + 1) PROVE CmdInv'
    BY <1>1, <1>2, <1>6, <2>2, <2>5, <2>6, <2>7, NextArgument
  <2>8. ASSUME ~last, letter' = letter + 1, UNCHANGED <<pc, i, result>> PROVE CmdInv'
    <3>1. letter' \in DOMAIN letters /\ letter + 1 - 1 = letter
      BY <1>3, <1>4, <2>8 DEF last
    <3>2. Types'
      BY <1>1, <1>13, <2>6, <2>8, <3>1 DEF CmdInv, Types
    <3>3. Met' = Met + 1
      <4>1. Met' = Len(UsesTo(m_options', argv', i' - 1)) + (IF pc' = "letters" THEN letter' - 1 ELSE 0)
        BY DEF Met
      <4>2. pc' = "letters" /\ i' = i /\ letter' = letter + 1 /\ m_options' = m_options /\ argv' = argv
        BY <1>1, <1>13, <2>8
      <4>3. letter \in Int /\ i \in Int
        BY <1>4, <1>8
      <4>4. Met' = first + (letter + 1 - 1)
        BY <4>1, <4>2, <4>3
      <4>5. QED
        BY <1>6, <3>1, <4>4
    <3> HIDE DEF first, letters
    <3>4. Going'
      BY <1>1, <1>13, <2>5, <2>6, <2>8, <3>3 DEF CmdInv, Going
    <3>5. Accepts' /\ MeansWhatItSays' /\ FailureStopsThere'
      BY <1>1, <2>8 DEF Accepts, MeansWhatItSays, FailureStopsThere, Parsed
    <3>6. QED
      BY <3>2, <3>4, <3>5 DEF CmdInv
  <2>9. QED
    BY <2>7, <2>8
<1>16. ASSUME NEW o \in found, NeedsArgument(o), ~last \/ i = Len(argv), value' = HandleOption(o), Fail
       PROVE  CmdInv'
  <2>1. o \in Known /\ found = {o}
    BY <1>9
  <2>2. text = None
    BY <1>8, <1>16 DEF text
  <2>3. ~WellUsed(AllUses[Met + 1])
    BY <1>7, <1>16, <2>1, <2>2 DEF WellUsed
  <2>4. QED
    BY <1>1, <1>6, <1>7, <1>16, <2>1, <2>2, <2>3, OptionFails
<1>17. ASSUME NEW o \in found, NeedsArgument(o), last, i # Len(argv),
              value' = DoArgument(o, argv[i + 1], HandleOption(o))
       PROVE  /\ ArgumentFits(o, argv[i + 1]) /\ Onward(i + 2) => CmdInv'
              /\ ~ArgumentFits(o, argv[i + 1]) /\ Fail => CmdInv'
  <2>1. o \in Known /\ found = {o}
    BY <1>9
  <2>2. TakesIn(m_options, argv, i) /\ i < Len(argv)
    BY <1>8, <1>11, <1>17
  <2>3. text = argv[i + 1] /\ text \in Texts /\ text # None
    BY <1>8, <1>17, <2>2, ShapeAssumption DEF text
  <2>4. AllUses[Met + 1] = Use({o}, text)
    <3>1. AllUses[Met + 1] \in UseType
      BY <1>7, <1>10
    <3>2. QED
      BY <1>7, <2>1, <3>1 DEF UseType, Use
  <2>5. PICK given_text \in Texts : given_text = text
    BY <2>3
  <2>6. /\ AllUses[Met + 1] = Use({o}, given_text)
        /\ value' = DoArgument(o, given_text, HandleOption(o))
    BY <1>17, <2>3, <2>4, <2>5
  <2>7. ASSUME ~ArgumentFits(o, argv[i + 1]), Fail PROVE CmdInv'
    <3>1. ~WellUsed(AllUses[Met + 1])
      BY <1>7, <1>17, <2>1, <2>3, <2>7 DEF WellUsed
    <3>2. QED
      BY <1>1, <1>6, <1>7, <2>1, <2>6, <2>7, <3>1, ArgumentFails
  <2>8. ASSUME ArgumentFits(o, argv[i + 1]), Onward(i + 2) PROVE CmdInv'
    <3>1. WellUsed(AllUses[Met + 1])
      BY <1>7, <1>17, <2>1, <2>3, <2>8 DEF WellUsed
    <3>2. \A k \in 1..(Met + 1) : WellUsed(AllUses[k])
      BY <1>6, <1>8, <3>1
    <3>3. ArgumentFits(o, given_text)
      BY <2>3, <2>5, <2>8
    <3>4. Typed(value') /\ Holds(AllUses, before, value', Met + 1)
      BY <1>6, <1>8, <1>10, <2>1, <2>6, <3>3, ArgumentStep
    <3>5. Len(UsesTo(m_options, argv, i)) = Met + 1
      BY <1>6, <1>17
    <3>6. QED
      BY <1>1, <1>2, <2>2, <2>8, <3>2, <3>4, <3>5, AfterTaken
  <2>9. QED
    BY <2>7, <2>8
<1>18. QED
  BY <1>12, <1>14, <1>15, <1>16, <1>17

-----------------------------------------------------------------------------
(***************************************************************************)
(* An argument without dashes.                                             *)
(***************************************************************************)
LEMMA OtherArgStep ==
  ASSUME CmdInv, OtherArg
  PROVE  CmdInv'
<1>1. /\ pc = "parsing" /\ pc # "idle" /\ i <= Len(argv) /\ Shape[argv[i]].dashes = 0
      /\ Kept /\ value' = value
  BY DEF OtherArg, Looking, Kept
<1>2. /\ m_options \in Seq(Known) /\ argv \in Seq(Texts) /\ Typed(value) /\ other_args \in Seq(Texts)
      /\ Len(argv) \in Nat /\ i \in 1..Len(argv) /\ argv[i] \in Texts /\ ~TakenIn(m_options, argv, i)
      /\ Len(UsesTo(m_options, argv, i - 1)) \in Nat
      /\ \A k \in 1..Met : WellUsed(AllUses[k])
      /\ Holds(AllUses, before, value, Met)
      /\ Listed(other_args, argv, OthersTo(m_options, argv, i - 1))
  BY <1>1, Here
<1>3. OthersTo(m_options, argv, i) = OthersTo(m_options, argv, i - 1) \union {i}
  BY <1>1, <1>2, OthersStep
<1>4. Met = Len(UsesTo(m_options, argv, i - 1))
  BY <1>1, <1>2 DEF Met
<1>5. CASE wants
  <2>1. other_args' = Append(other_args, argv[i]) /\ Onward(i + 1)
    BY <1>5 DEF OtherArg
  <2>2. UsesTo(m_options, argv, i) = UsesTo(m_options, argv, i - 1)
    <3>1. UsesOfIn(m_options, argv, i) = <<>>
      BY <1>1, <1>2 DEF UsesOfIn
    <3>2. UsesTo(m_options, argv, i) = UsesTo(m_options, argv, i - 1) \o <<>>
      BY <1>2, <3>1, UsesToStep
    <3>3. i - 1 \in 0..Len(argv)
      BY <1>2
    <3>4. UsesTo(m_options, argv, i - 1) \in Seq(UseType)
      BY <1>2, <3>3, UsesToStep
    <3>5. QED
      BY <3>2, <3>4, ConcatEmptySeq
  <2>3. i + 1 <= Len(argv) => ~TakenIn(m_options, argv, i + 1)
    <3>1. SUFFICES ASSUME i + 1 <= Len(argv) PROVE ~TakenIn(m_options, argv, i + 1)
      OBVIOUS
    <3>2. i + 1 \in 1..Len(argv) /\ (i + 1) - 1 = i
      BY <1>2, <3>1
    <3>3. ~TakesIn(m_options, argv, i)
      BY <1>1 DEF TakesIn
    <3>4. QED
      BY <1>2, <3>2, <3>3, TakenInTurn
  <2>4. OthersTo(m_options, argv, i - 1) \subseteq 1..(i - 1)
    BY DEF OthersTo
  <2>5. Listed(Append(other_args, argv[i]), argv, OthersTo(m_options, argv, i - 1) \union {i})
    BY <1>2, <2>4, ListedStep
  <2>6. other_args' \in Seq(Texts) /\ Listed(other_args', argv, OthersTo(m_options, argv, i))
    BY <1>2, <1>3, <2>1, <2>5, AppendProperties
  <2>7. PICK next : next = i + 1
    OBVIOUS
  <2>8. /\ next \in 1..(Len(argv) + 1) /\ next - 1 = i /\ Onward(next)
        /\ next <= Len(argv) => ~TakenIn(m_options, argv, next)
    BY <1>2, <2>1, <2>3, <2>7
  <2>9. /\ Typed(value') /\ Holds(AllUses, before, value', Len(UsesTo(m_options, argv, i)))
        /\ \A k \in 1..Len(UsesTo(m_options, argv, i)) : WellUsed(AllUses[k])
    BY <1>1, <1>2, <1>4, <2>2
  <2>10. QED
    BY <1>1, <1>5, <2>6, <2>8, <2>9, GoesOn
<1>6. CASE ~wants
  <2>1. other_args' = other_args /\ Fail
    BY <1>6 DEF OtherArg
  <2>2. i \in OthersTo(m_options, argv, Len(argv))
    BY <1>1, <1>2 DEF OthersTo
  <2>3. ~WellFormedIn(m_options, argv, wants)
    BY <1>6, <2>2 DEF WellFormedIn
  <2>4. PICK n : n = Met
    OBVIOUS
  <2>5. n \in 0..Len(AllUses)
    <3>1. i - 1 \in 0..Len(argv)
      BY <1>2
    <3>2. Len(UsesTo(m_options, argv, i - 1)) <= Len(AllUses)
      BY <1>2, <3>1, UsesToPrefix DEF AllUses
    <3>3. Len(AllUses) \in Nat
      BY AllUsesType DEF CmdInv
    <3>4. QED
      BY <1>2, <1>4, <2>4, <3>2, <3>3
  <2>6. /\ \A k \in 1..n : WellUsed(AllUses[k]) /\ n \in {n, n + 1} /\ Typed(value')
        /\ \A f \in Flags : value'[f] \in {FlagFrom(AllUses, before, f, n), FlagFrom(AllUses, before, f, n)}
        /\ \A x \in Variables : value'[x] \in {VariableFrom(AllUses, before, x, n), VariableFrom(AllUses, before, x, n)}
    BY <1>1, <1>2, <2>4 DEF Holds
  <2>7. n \in {n, n + 1} /\ Typed(value')
    BY <1>1, <1>2
  <2>8. QED
    BY <1>1, <2>1, <2>3, <2>5, <2>6, <2>7, Stops
<1>7. QED
  BY <1>5, <1>6

(***************************************************************************)
(* m_help is set by the uses of the help option, and reset by none.        *)
(***************************************************************************)
LEMMA HelpAsked ==
  ASSUME NEW uses \in Seq(UseType), NEW old
  PROVE  FlagFrom(uses, old, m_help, Len(uses)) <=> AsksIn(uses)
<1>1. Len(uses) \in Nat /\ DOMAIN uses = 1..Len(uses)
  OBVIOUS
<1>2. ASSUME NEW k \in 1..Len(uses), NEW o \in uses[k].options PROVE o.reset_if_present # m_help
  <2>1. uses[k] \in UseType
    OBVIOUS
  <2>2. o \in Known
    BY <2>1 DEF UseType
  <2>3. QED
    BY <2>2, KnownOption
<1>3. \A k \in 1..Len(uses) : Names(uses[k], m_help) <=> \E o \in uses[k].options : o.set_if_present = m_help
  BY <1>2 DEF Names
<1>4. AsksIn(uses) <=> NamingIn(uses, m_help, Len(uses)) # {}
  BY <1>1, <1>3 DEF AsksIn, NamingIn
<1>5. CASE NamingIn(uses, m_help, Len(uses)) = {}
  BY <1>4, <1>5 DEF FlagFrom
<1>6. CASE NamingIn(uses, m_help, Len(uses)) # {}
  <2>1. NamingIn(uses, m_help, Len(uses)) \subseteq 1..Len(uses)
    BY DEF NamingIn
  <2>2. Max(NamingIn(uses, m_help, Len(uses))) \in 1..Len(uses)
    BY <1>1, <1>6, <2>1, MaxOf
  <2>3. FlagFrom(uses, old, m_help, Len(uses))
    BY <1>2, <1>6, <2>2 DEF FlagFrom
  <2>4. QED
    BY <1>4, <1>6, <2>3
<1>7. QED
  BY <1>5, <1>6

LEMMA FinishStep ==
  ASSUME CmdInv, Finish
  PROVE  CmdInv'
<1>0. PICK n : n = Len(AllUses)
  OBVIOUS
<1>1. /\ pc = "parsing" /\ pc # "idle" /\ i > Len(argv) /\ pc' = "idle"
      /\ m_options' = m_options /\ has_flag' = has_flag /\ value' = value /\ i' = i /\ letter' = letter
      /\ argv' = argv /\ wants' = wants /\ before' = before /\ given' = given /\ other_args' = other_args
  BY DEF Finish, options, line
<1>2. /\ argv \in Seq(Texts) /\ Len(argv) \in Nat /\ m_options \in Seq(Known) /\ i \in 1..(Len(argv) + 1)
      /\ \A k \in 1..Met : WellUsed(AllUses[k])
      /\ Holds(AllUses, before, value, Met)
      /\ OthersTo(m_options, argv, i - 1) # {} => wants
      /\ Listed(other_args, argv, OthersTo(m_options, argv, i - 1))
      /\ Typed(value)
  BY <1>1, Here
<1>3. i - 1 = Len(argv)
  BY <1>1, <1>2
<1>4. AllUses \in Seq(UseType) /\ n \in Nat /\ DOMAIN AllUses = 1..n
  BY <1>0, AllUsesType DEF CmdInv
<1>5. Met = n
  <2>1. UsesTo(m_options, argv, i - 1) = AllUses
    BY <1>2, <1>3, UsesToStep DEF AllUses
  <2>2. QED
    BY <1>0, <1>1, <1>4, <2>1 DEF Met
<1>6. WellFormedIn(m_options, argv, wants)
  BY <1>2, <1>3, <1>4, <1>5 DEF WellFormedIn, AllUses
<1>7. value[m_help] <=> AsksIn(AllUses)
  <2>1. value[m_help] = FlagFrom(AllUses, before, m_help, n)
    BY <1>2, <1>5, TargetsAssumption DEF Holds
  <2>2. QED
    BY <1>0, <1>4, <2>1, HelpAsked
<1>8. /\ value[m_help] => result' = "failed" /\ help_flag' = (help_flag \/ has_flag)
      /\ ~value[m_help] => result' = "ok" /\ help_flag' = help_flag
  BY DEF Finish
<1>9. value[m_help] \in BOOLEAN
  BY <1>2, TargetsAssumption DEF Typed
<1>10. Types'
  <2>1. help_flag' \in BOOLEAN /\ result' \in {"ok", "failed"}
    BY <1>8, <1>9 DEF CmdInv, Types
  <2>2. QED
    BY <1>1, <2>1 DEF CmdInv, Types
<1>11. Going'
  BY <1>1 DEF Going
<1>12. /\ Uses' = AllUses /\ (WellFormed' <=> WellFormedIn(m_options, argv, wants))
       /\ AsksForHelp' <=> AsksIn(AllUses)
  BY <1>1, <1>2, SameMeaningNext, SameJudgement DEF AllUses
<1>13. has_flag => ~help_flag
  BY <1>1 DEF CmdInv, Going
<1>14. Accepts'
  <2>1. CASE value[m_help]
    <3>1. result' = "failed" /\ help_flag' = (help_flag \/ has_flag) /\ AsksForHelp' /\ WellFormed'
      BY <1>6, <1>7, <1>8, <1>12, <2>1
    <3>2. has_flag' => help_flag'
      BY <1>1, <3>1
    <3>3. QED
      BY <3>1, <3>2 DEF Accepts
  <2>2. CASE ~value[m_help]
    <3>1. result' = "ok" /\ help_flag' = help_flag /\ ~AsksForHelp' /\ WellFormed'
      BY <1>6, <1>7, <1>8, <1>12, <2>2
    <3>2. has_flag' => ~help_flag'
      BY <1>1, <1>13, <3>1
    <3>3. QED
      BY <3>1, <3>2 DEF Accepts
  <2>3. QED
    BY <2>1, <2>2
<1>15. /\ \A f \in Flags : value'[f] = FlagAfter(f, n)'
       /\ \A x \in Variables : value'[x] = VariableAfter(x, n)'
  <2>1. UsesIn(m_options', argv') = AllUses
    BY <1>1 DEF AllUses
  <2>2. ASSUME NEW f \in Flags PROVE value'[f] = FlagAfter(f, n)'
    <3>1. value'[f] = FlagFrom(AllUses, before, f, n)
      BY <1>1, <1>2, <1>5 DEF Holds
    <3>2. QED
      BY <1>1, <2>1, <3>1, SameFlags
  <2>3. ASSUME NEW x \in Variables PROVE value'[x] = VariableAfter(x, n)'
    <3>1. value'[x] = VariableFrom(AllUses, before, x, n)
      BY <1>1, <1>2, <1>5 DEF Holds
    <3>2. QED
      BY <1>1, <2>1, <3>1, SameVariables
  <2>4. QED
    BY <2>2, <2>3
<1>16. MeansWhatItSays'
  <2>1. Others' = OthersTo(m_options, argv, Len(argv))
    BY <1>1, <1>2, SameMeaningNext, OthersAreAll
  <2>2. Listed(other_args', argv', Others')
    BY <1>1, <1>2, <1>3, <2>1
  <2>3. Len(Uses') = n
    BY <1>0, <1>12
  <2>4. /\ \A f \in Flags : value'[f] = FlagAfter(f, Len(Uses))'
        /\ \A x \in Variables : value'[x] = VariableAfter(x, Len(Uses))'
    BY <1>15, <2>3 DEF FlagAfter, VariableAfter, Naming
  <2>5. QED
    BY <2>2, <2>4 DEF MeansWhatItSays, Listed
<1>17. FailureStopsThere'
  <2>1. n \in 0..Len(Uses') /\ n \in {n, n + 1} /\ \A k \in 1..n : WellUsed(Uses'[k])
    BY <1>0, <1>2, <1>4, <1>5, <1>12
  <2>2. \A f \in Flags : value'[f] \in {FlagAfter(f, n)', FlagAfter(f, n)'}
    BY <1>15
  <2>3. \A x \in Variables : value'[x] \in {VariableAfter(x, n)', VariableAfter(x, n)'}
    BY <1>15
  <2>4. QED
    BY <2>1, <2>2, <2>3 DEF FailureStopsThere
<1>18. QED
  BY <1>10, <1>11, <1>14, <1>16, <1>17 DEF CmdInv

-----------------------------------------------------------------------------
(***************************************************************************)
(* Parse begins, and an option is added.                                   *)
(***************************************************************************)
LEMMA ParseStep ==
  ASSUME CmdInv, NEW args \in CommandLines, NEW others \in BOOLEAN, Parse(args, others)
  PROVE  CmdInv'
<1>1. /\ pc' = "parsing" /\ argv' = args /\ wants' = others /\ other_args' = <<>> /\ i' = 1
      /\ before' = value /\ value' = [value EXCEPT ![m_help] = FALSE]
      /\ help_flag' = (help_flag /\ ~has_flag) /\ result' = "none"
      /\ m_options' = m_options /\ has_flag' = has_flag
      /\ given' = given + Len(args) /\ given + Len(args) <= MaxArgs
  BY DEF Parse, HelpForgotten, options
<1>2. args \in Seq(Texts) /\ Len(args) \in Nat
  BY DEF CommandLines
<1>3. m_options \in Seq(Known) /\ Typed(value) /\ given \in Nat /\ MaxArgs \in Nat
  BY BoundAssumption DEF CmdInv, Types
<1>4. UsesIn(m_options, args) \in Seq(UseType)
  <2>1. Len(args) \in 0..Len(args)
    BY <1>2
  <2>2. QED
    BY <1>2, <1>3, <2>1, UsesToStep
<1>5. Typed(value') /\ Holds(UsesIn(m_options, args), value, value', 0)
  BY <1>1, <1>3, <1>4, StartHolds
<1>6. Types'
  <2>1. given' \in 0..MaxArgs
    BY <1>1, <1>2, <1>3
  <2>2. help_flag' \in BOOLEAN /\ has_flag' \in BOOLEAN
    BY <1>1 DEF CmdInv, Types
  <2>3. i' \in 1..(Len(argv') + 1)
    BY <1>1, <1>2
  <2>4. QED
    BY <1>1, <1>2, <1>3, <1>5, <2>1, <2>2, <2>3 DEF Types
<1>7. Going'
  <2>1. UsesTo(m_options, args, 0) = <<>>
    BY <1>2, <1>3, UsesToStep
  <2>2. Met' = 0
    <3>1. Met' = Len(UsesTo(m_options', argv', i' - 1)) + (IF pc' = "letters" THEN letter' - 1 ELSE 0)
      BY DEF Met
    <3>2. QED
      BY <1>1, <2>1, <3>1
  <2>3. 1 <= Len(args) => ~TakenIn(m_options, args, 1)
    <3>1. SUFFICES ASSUME 1 <= Len(args) PROVE ~TakenIn(m_options, args, 1)
      OBVIOUS
    <3>2. 1 \in 1..Len(args)
      BY <1>2, <3>1
    <3>3. QED
      BY <1>2, <3>2, TakenInTurn
  <2>4. OthersTo(m_options, args, 0) = {}
    BY DEF OthersTo
  <2>5. Listed(<<>>, args, {})
    BY FS_EmptySet DEF Listed
  <2>6. AllUses' = UsesIn(m_options, args)
    BY <1>1 DEF AllUses
  <2>7. i' - 1 = 0
    BY <1>1
  <2>8. has_flag' => ~help_flag'
    BY <1>1
  <2>9. i' <= Len(argv') => ~TakenIn(m_options', argv', i')
    BY <1>1, <2>3
  <2>10. \A k \in 1..Met' : WellUsed(AllUses'[k])
    BY <2>2
  <2>11. Holds(AllUses', before', value', Met')
    BY <1>1, <1>5, <2>2, <2>6
  <2>12. OthersTo(m_options', argv', i' - 1) = {}
    BY <2>4, <2>7 DEF OthersTo
  <2>13. Listed(other_args', argv', OthersTo(m_options', argv', i' - 1))
    BY <1>1, <2>5, <2>12
  <2>14. QED
    BY <2>8, <2>9, <2>10, <2>11, <2>12, <2>13 DEF Going
<1>8. Accepts' /\ MeansWhatItSays' /\ FailureStopsThere'
  BY <1>1 DEF Accepts, MeansWhatItSays, FailureStopsThere, Parsed
<1>9. QED
  BY <1>6, <1>7, <1>8 DEF CmdInv

LEMMA AddStep ==
  ASSUME CmdInv, NEW o \in Known, Add(o), has_flag' \in BOOLEAN
  PROVE  CmdInv'
<1>1. /\ pc = "idle" /\ pc' = "idle" /\ m_options' = Append(m_options, o) /\ result' = "none"
      /\ help_flag' = help_flag /\ value' = value /\ i' = i /\ other_args' = other_args
      /\ argv' = argv /\ wants' = wants /\ before' = before /\ given' = given
  BY DEF Add, line
<1>2. m_options' \in Seq(Known)
  BY <1>1, AppendProperties DEF CmdInv, Types
<1>3. Types'
  BY <1>1, <1>2 DEF CmdInv, Types
<1>4. Going' /\ Accepts' /\ MeansWhatItSays' /\ FailureStopsThere'
  BY <1>1 DEF Going, Accepts, MeansWhatItSays, FailureStopsThere, Parsed
<1>5. QED
  BY <1>3, <1>4 DEF CmdInv

LEMMA CmdInitially ==
  ASSUME Init
  PROVE  CmdInv
<1>1. /\ m_options = <<>> /\ has_flag = FALSE /\ help_flag = FALSE /\ value = Default /\ pc = "idle"
      /\ argv = <<>> /\ i = 1 /\ wants = FALSE /\ other_args = <<>> /\ result = "none"
      /\ before = Default /\ given = 0
  BY DEF Init
<1>2. Types
  <2>1. given \in 0..MaxArgs
    BY <1>1, BoundAssumption
  <2>2. i \in 1..(Len(argv) + 1)
    BY <1>1
  <2>3. m_options \in Seq(Known) /\ argv \in Seq(Texts) /\ other_args \in Seq(Texts)
    BY <1>1
  <2>4. Typed(value) /\ Typed(before)
    BY <1>1, DefaultAssumption
  <2>5. pc = "idle" /\ result \in {"none", "ok", "failed"} /\ {has_flag, help_flag, wants} \subseteq BOOLEAN
    BY <1>1
  <2>6. QED
    BY <2>1, <2>2, <2>3, <2>4, <2>5 DEF Types
<1>3. Going /\ Accepts /\ MeansWhatItSays /\ FailureStopsThere
  BY <1>1 DEF Going, Accepts, MeansWhatItSays, FailureStopsThere, Parsed
<1>4. QED
  BY <1>2, <1>3 DEF CmdInv

LEMMA CmdStep ==
  ASSUME CmdInv, [Next]_vars
  PROVE  CmdInv'
<1>1. ASSUME NEW o \in Options, AddOption(o) PROVE CmdInv'
  <2>1. Add(o) /\ has_flag' \in BOOLEAN /\ o \in Known
    BY <1>1 DEF AddOption, CmdInv, Types, Known
  <2>2. QED
    BY <2>1, AddStep
<1>2. ASSUME NEW flag \in BOOLEAN, AddHelpOption(flag) PROVE CmdInv'
  <2>1. Add(HelpOption) /\ has_flag' \in BOOLEAN /\ HelpOption \in Known
    BY <1>2 DEF AddHelpOption, HelpOption, Known
  <2>2. QED
    BY <2>1, AddStep
<1>3. ASSUME NEW args \in CommandLines, NEW others \in BOOLEAN, Parse(args, others) PROVE CmdInv'
  BY <1>3, ParseStep
<1>4. CASE LongArg
  BY <1>4, LongArgStep
<1>5. CASE ShortArg
  BY <1>5, ShortArgStep
<1>6. CASE ShortLetter
  BY <1>6, ShortLetterStep
<1>7. CASE OtherArg
  BY <1>7, OtherArgStep
<1>8. CASE Finish
  BY <1>8, FinishStep
<1>9. CASE UNCHANGED vars
  <2>1. /\ UNCHANGED <<m_options, has_flag, argv, wants, before, given>>
        /\ UNCHANGED <<help_flag, value, pc, i, letter, other_args, result, shown>>
    BY <1>9 DEF vars, options, line
  <2>2. Types'
    BY <2>1 DEF CmdInv, Types
  <2>3. AllUses' = AllUses /\ Met' = Met
    BY <2>1 DEF AllUses, Met
  <2>4. Going'
    BY <2>1, <2>3 DEF CmdInv, Going
  <2>5. /\ Uses' = Uses /\ Others' = Others
        /\ \A f, n : FlagAfter(f, n)' = FlagAfter(f, n)
        /\ \A x, n : VariableAfter(x, n)' = VariableAfter(x, n)
    <3>1. Uses' = Uses /\ Others' = Others
      BY <2>1, SameMeaning, SameMeaningNext
    <3>2. \A f, n : FlagAfter(f, n)' = FlagAfter(f, n)
      BY <2>1, <3>1 DEF FlagAfter, Naming
    <3>3. \A x, n : VariableAfter(x, n)' = VariableAfter(x, n)
      BY <2>1, <3>1 DEF VariableAfter
    <3>4. QED
      BY <3>1, <3>2, <3>3
  <2>6. Accepts'
    BY <2>1, <2>5 DEF CmdInv, Accepts, Parsed, WellFormed, AsksForHelp
  <2>7. MeansWhatItSays'
    BY <2>1, <2>5 DEF CmdInv, MeansWhatItSays, Parsed
  <2>8. FailureStopsThere'
    BY <2>1, <2>5 DEF CmdInv, FailureStopsThere, Parsed
  <2>9. QED
    BY <2>2, <2>4, <2>6, <2>7, <2>8 DEF CmdInv
<1>10. QED
  BY <1>1, <1>2, <1>3, <1>4, <1>5, <1>6, <1>7, <1>8, <1>9 DEF Next

LEMMA CmdTypeOK ==
  ASSUME CmdInv
  PROVE  TypeOK
<1>1. Types
  BY DEF CmdInv
<1>2. \A k \in DOMAIN m_options : m_options[k].args \subseteq Variables
  <2>1. \A k \in DOMAIN m_options : m_options[k] \in Known
    BY <1>1 DEF Types
  <2>2. QED
    BY <2>1, KnownOption
<1>3. QED
  BY <1>1, <1>2 DEF Types, TypeOK

LEMMA CmdAlways == Spec => []CmdInv
<1>1. Init => CmdInv
  BY CmdInitially
<1>2. CmdInv /\ [Next]_vars => CmdInv'
  BY CmdStep
<1>3. QED
  BY <1>1, <1>2, PTL DEF Spec

(***************************************************************************)
(* Parse accepts exactly the command lines that are well-formed and do not *)
(* ask for help, and the flag of the help option tells a caller which of   *)
(* the two a failure was, whatever options there are, in whatever order    *)
(* they were added, and whatever was parsed before.                        *)
(***************************************************************************)
THEOREM AcceptsWellFormedOnly == Spec => []AcceptsWellFormed
<1>1. CmdInv => AcceptsWellFormed
  BY CmdTypeOK DEF CmdInv, Accepts, AcceptsWellFormed
<1>2. QED
  BY <1>1, CmdAlways, PTL

(***************************************************************************)
(* After a Parse that succeeded the flags, the variables and the list of   *)
(* other arguments hold what the command line says, whatever its length.   *)
(***************************************************************************)
THEOREM AlwaysMeansWhatItSays == Spec => []MeansWhatItSays
<1>1. CmdInv => MeansWhatItSays
  BY DEF CmdInv
<1>2. QED
  BY <1>1, CmdAlways, PTL

(***************************************************************************)
(* A Parse that failed leaves what the options before the wrong one said,  *)
(* and at most part of what the wrong one said.                            *)
(***************************************************************************)
THEOREM FailureAlwaysStopsThere == Spec => []FailureStopsThere
<1>1. CmdInv => FailureStopsThere
  BY DEF CmdInv
<1>2. QED
  BY <1>1, CmdAlways, PTL
=============================================================================
