------------------------- MODULE CommandLineParser -------------------------
(***************************************************************************)
(* src/CommandLineParser.cpp: a program adds options, each with the        *)
(* variables it writes to, and parses command lines, one after another.    *)
(* Parse writes to the variables as it meets the options, and stops at the *)
(* first error.                                                            *)
(*                                                                         *)
(* A string is a member of Texts; what it looks like as an argument, and   *)
(* as a number, are given as functions of it.  Left out: the messages, the *)
(* layout of the help, and a Help that the program asks for itself.        *)
(***************************************************************************)
EXTENDS Integers, Sequences, FiniteSets, SequencesExt

CONSTANTS
  Texts,      (* the strings on command lines                              *)
  Shape,      (* what Parse sees in each: the number of leading dashes     *)
              (* (0 to 2), and the letters, or the name and the argument   *)
  Number,     (* what strtol makes of each; NaN when it does not end there *)
  NaN,
  None,       (* nullptr, and the short option of an option without        *)
  NoName,     (* the empty string, and the long option of one without      *)
  Flags,      (* the bools that options set and reset                      *)
  Variables,  (* the other variables that options write to                 *)
  KindOf,     (* the kind of each of them                                  *)
  Default,    (* the value that each of both has before the first Parse    *)
  Options,    (* the options that the program adds                         *)
  INT_MIN, INT_MAX, SIZE_MAX,
  MaxOptions, (* bounds the model: the options of the parser               *)
  MaxArgs     (* bounds the model: the arguments of all command lines      *)

m_help == "m_help"
Kinds == <<"str", "strv", "int", "float", "size", "enum">>

ASSUME TargetsAssumption == m_help \in Flags /\ Flags \cap Variables = {}
ASSUME KindsAssumption == KindOf \in [Variables -> ToSet(Kinds)]
ASSUME ShapeAssumption ==
  /\ None \notin Texts
  /\ \A text \in Texts : LET look == Shape[text] IN
       /\ look.dashes \in 0..2
       /\ look.dashes = 1 => look.letters \in Seq(STRING)
       /\ look.dashes = 2 => look.arg \in Texts \union {None}
ASSUME NumberAssumption == Number \in [Texts -> Int \union {NaN}]
ASSUME RangeAssumption == INT_MIN \in Int /\ INT_MAX \in Int /\ SIZE_MAX \in Nat
ASSUME BoundAssumption == MaxOptions \in Nat /\ MaxArgs \in Nat

VARIABLES
  m_options,        (* the options, in the order in which they were added  *)
  has_flag,         (* is m_help_flag_ptr set?                             *)
  help_flag,        (* what it points to                                   *)
  value,            (* what the variables and the flags hold               *)
  pc,               (* is Parse in progress, and in the letters of "-..."? *)
  argv, i,          (* the command line without argv[0], and the position  *)
  letter,           (* the position in the letters of argv[i]              *)
  wants, other_args,(* is there a vector for other arguments, and what is  *)
                    (* in it                                               *)
  result,           (* what the last Parse returned                        *)
  shown,            (* the defaults that its help showed                   *)
  before,           (* history: value before that Parse                    *)
  given             (* history: the number of arguments parsed             *)

options == <<m_options, has_flag>>
line == <<argv, wants, before, given>>
vars == <<options, help_flag, value, pc, line, i, letter, other_args, result, shown>>

Init ==
  /\ m_options = <<>>
  /\ has_flag = FALSE
  /\ help_flag = FALSE
  /\ value = Default
  /\ pc = "idle"
  /\ argv = <<>>
  /\ i = 1
  /\ letter = 1
  /\ wants = FALSE
  /\ other_args = <<>>
  /\ result = "none"
  /\ shown = {}
  /\ before = Default
  /\ given = 0

-----------------------------------------------------------------------------
(***************************************************************************)
(* An option, and the methods that complete it.                            *)
(***************************************************************************)
NewOption(short, long) ==
  [short_option |-> short, long_option |-> long, show_default |-> FALSE,
   set_if_present |-> None, reset_if_present |-> None, args |-> {}]

ShowDefault(o) == [o EXCEPT !.show_default = TRUE]
SetIfPresent(o, flag) == [o EXCEPT !.set_if_present = flag]
ResetIfPresent(o, flag) == [o EXCEPT !.reset_if_present = flag]
Arg(o, variable) ==
  [o EXCEPT !.args = {x \in @ : KindOf[x] # KindOf[variable]} \union {variable}]

Add(o) ==
  /\ pc = "idle"
  /\ Len(m_options) < MaxOptions
  /\ m_options' = Append(m_options, o)
  /\ result' = "none"
  /\ UNCHANGED <<help_flag, value, pc, line, i, letter, other_args, shown>>

AddOption(o) == Add(o) /\ UNCHANGED has_flag

AddHelpOption(flag) ==
  /\ Add(SetIfPresent(NewOption(None, "help"), m_help))
  /\ has_flag' = flag

-----------------------------------------------------------------------------
(***************************************************************************)
(* The first option with a name or a letter, as a set of at most one.  The *)
(* argument "--" has the name of the options without one.                  *)
(***************************************************************************)
First(ks) == IF ks = {} THEN {} ELSE {m_options[Min(ks)]}

FindByLongOption(name) == First({k \in DOMAIN m_options : m_options[k].long_option = name})
FindByShortOption(char) == First({k \in DOMAIN m_options : m_options[k].short_option = char})

NeedsArgument(o) == o.args # {}

HandleOption(o) ==
  [f \in DOMAIN value |-> IF o.reset_if_present = f THEN FALSE
                          ELSE IF o.set_if_present = f THEN TRUE
                          ELSE value[f]]

(***************************************************************************)
(* strtol, on a long that is wider than an int, and strtoull on a 64-bit   *)
(* size_t: a number too large is the largest, a negative one wraps.        *)
(***************************************************************************)
SizeOf(n) ==
  IF n > SIZE_MAX \/ -n > SIZE_MAX THEN SIZE_MAX ELSE n % (SIZE_MAX + 1)

InRange(n) == INT_MIN <= n /\ n <= INT_MAX

EnumNames == {"one", "two"}

Valid(kind, text) ==
  CASE kind = "int" -> Number[text] # NaN /\ InRange(Number[text])
    [] kind \in {"float", "size"} -> Number[text] # NaN
    [] kind = "enum" -> text \in EnumNames
    [] OTHER -> TRUE

Converted(kind, text, old) ==
  CASE kind = "strv" -> Append(old, text)
    [] kind \in {"int", "float"} -> Number[text]
    [] kind = "size" -> SizeOf(Number[text])
    [] OTHER -> text

(***************************************************************************)
(* DoArgument: the kinds one after another, up to one that is not valid.   *)
(***************************************************************************)
\* Mutant: a number is written before its range is looked at.
ReachedUnchecked(o, text) ==
  {k \in DOMAIN Kinds : (\E x \in o.args, j \in 1..k : KindOf[x] = Kinds[j] /\ KindOf[x] \in {"int", "size"})
                          => Number[text] # NaN}

Reached(o, text) ==
  {k \in DOMAIN Kinds : \A x \in o.args, j \in 1..k : KindOf[x] = Kinds[j] => Valid(KindOf[x], text)}

DoArgument(o, text, held) ==
  [x \in DOMAIN held |->
     IF x \in o.args /\ KindOf[x] \in {Kinds[k] : k \in Reached(o, text)}
       THEN Converted(KindOf[x], text, held[x])
       ELSE held[x]]

ArgumentFits(o, text) == \A x \in o.args : Valid(KindOf[x], text)

-----------------------------------------------------------------------------
(***************************************************************************)
(* Parse, one argument, or one letter of an argument, at a time.           *)
(***************************************************************************)
\* Mutant: m_help keeps what the last Parse left in it.
HelpKept == value
HelpForgotten == [value EXCEPT ![m_help] = FALSE]

Parse(args, others) ==
  /\ pc = "idle"
  /\ given + Len(args) <= MaxArgs
  /\ given' = given + Len(args)
  /\ argv' = args
  /\ wants' = others
  /\ other_args' = <<>>
  /\ i' = 1
  /\ before' = value
  /\ value' = HelpForgotten
  /\ help_flag' = (help_flag /\ ~has_flag)
  /\ result' = "none"
  /\ pc' = "parsing"
  /\ shown' = {}
  /\ UNCHANGED <<options, letter>>

Looking(dashes) ==
  /\ pc = "parsing"
  /\ i <= Len(argv)
  /\ Shape[argv[i]].dashes = dashes
  /\ UNCHANGED <<options, help_flag, line, shown>>

Fail == pc' = "idle" /\ result' = "failed" /\ UNCHANGED <<i, letter>>

Onward(next) == i' = next /\ pc' = "parsing" /\ UNCHANGED <<letter, result>>

LongFits(o, got_arg) == NeedsArgument(o) <=> got_arg

LongArg ==
  /\ Looking(2)
  /\ UNCHANGED other_args
  /\ LET look == Shape[argv[i]]
         found == FindByLongOption(look.name)
         got_arg == look.arg # None
     IN \/ found = {} /\ Fail /\ UNCHANGED value
        \/ \E o \in found : ~LongFits(o, got_arg) /\ Fail /\ value' = HandleOption(o)
        \/ \E o \in found :
             /\ LongFits(o, got_arg)
             /\ IF NeedsArgument(o) THEN /\ value' = DoArgument(o, look.arg, HandleOption(o))
                                         /\ IF ArgumentFits(o, look.arg) THEN Onward(i + 1) ELSE Fail
                                    ELSE /\ value' = HandleOption(o)
                                         /\ Onward(i + 1)

ShortArg ==
  /\ Looking(1)
  /\ IF Shape[argv[i]].letters = <<>> THEN Onward(i + 1)
     ELSE pc' = "letters" /\ letter' = 1 /\ UNCHANGED <<i, result>>
  /\ UNCHANGED <<value, other_args>>

\* Mutant: the argument of a short option is not passed over.
AfterLetterOnly == i + 1
AfterArgument == i + 2

ShortLetter ==
  /\ pc = "letters"
  /\ LET letters == Shape[argv[i]].letters
         found == FindByShortOption(letters[letter])
         last == letter = Len(letters)
     IN \/ found = {} /\ Fail /\ UNCHANGED value
        \/ \E o \in found :
             /\ ~NeedsArgument(o)
             /\ value' = HandleOption(o)
             /\ IF last THEN Onward(i + 1) ELSE letter' = letter + 1 /\ UNCHANGED <<pc, i, result>>
        \/ \E o \in found :
             /\ NeedsArgument(o)
             /\ IF ~last \/ i = Len(argv) THEN value' = HandleOption(o) /\ Fail
                ELSE /\ value' = DoArgument(o, argv[i + 1], HandleOption(o))
                     /\ IF ArgumentFits(o, argv[i + 1]) THEN Onward(AfterArgument) ELSE Fail
  /\ UNCHANGED <<options, help_flag, line, other_args, shown>>

OtherArg ==
  /\ Looking(0)
  /\ IF wants THEN other_args' = Append(other_args, argv[i]) /\ Onward(i + 1)
              ELSE UNCHANGED other_args /\ Fail
  /\ UNCHANGED value

(***************************************************************************)
(* The help shows one default of an option that asks for it.               *)
(***************************************************************************)
ShownOf(o) ==
  LET of(kind) == {x \in o.args : KindOf[x] = kind}
      first == SelectSeq(<<"int", "float", "size", "str", "enum">>, LAMBDA kind : of(kind) # {})
  IN IF o.show_default /\ first # <<>> THEN {<<x, value[x]>> : x \in of(Head(first))} ELSE {}

Help == UNION {ShownOf(m_options[k]) : k \in DOMAIN m_options}

Finish ==
  /\ pc = "parsing"
  /\ i > Len(argv)
  /\ pc' = "idle"
  /\ IF value[m_help]
       THEN result' = "failed" /\ shown' = Help /\ help_flag' = (help_flag \/ has_flag)
       ELSE result' = "ok" /\ UNCHANGED <<shown, help_flag>>
  /\ UNCHANGED <<options, value, line, i, letter, other_args>>

CommandLines == UNION {[1..n -> Texts] : n \in 0..MaxArgs}

Next ==
  \/ \E o \in Options : AddOption(o)
  \/ \E flag \in BOOLEAN : AddHelpOption(flag)
  \/ \E args \in CommandLines, others \in BOOLEAN : Parse(args, others)
  \/ LongArg \/ ShortArg \/ ShortLetter \/ OtherArg \/ Finish

Spec == Init /\ [][Next]_vars

-----------------------------------------------------------------------------
ValueType(kind) ==
  CASE kind = "int" -> INT_MIN..INT_MAX
    [] kind = "float" -> Int
    [] kind = "size" -> 0..SIZE_MAX
    [] kind = "strv" -> Seq(Texts)
    [] kind = "str" -> Texts
    [] kind = "enum" -> EnumNames

Typed(held) ==
  /\ DOMAIN held = Flags \union Variables
  /\ \A f \in Flags : held[f] \in BOOLEAN
  /\ \A x \in Variables : held[x] \in ValueType(KindOf[x])

(***************************************************************************)
(* What the program sees to: no option of its own names m_help, which is   *)
(* private, and its variables hold values of their types at the start.     *)
(***************************************************************************)
ASSUME OptionsAssumption ==
  /\ None \notin Flags \union Variables
  /\ \A o \in Options : /\ o.args \subseteq Variables
                         /\ {o.set_if_present, o.reset_if_present} \subseteq (Flags \ {m_help}) \union {None}

ASSUME DefaultAssumption == Typed(Default)

(* Every variable has its type, an int its range, and a position is one of *)
(* the command line, or the one after it.                                  *)
TypeOK ==
  /\ \A k \in DOMAIN m_options : m_options[k].args \subseteq Variables
  /\ has_flag \in BOOLEAN /\ help_flag \in BOOLEAN /\ wants \in BOOLEAN
  /\ Typed(value)
  /\ pc \in {"idle", "parsing", "letters"}
  /\ argv \in Seq(Texts) /\ i \in 1..(Len(argv) + 1)
  /\ pc = "letters" => letter \in DOMAIN Shape[argv[i]].letters
  /\ other_args \in Seq(Texts)
  /\ result \in {"none", "ok", "failed"}
  /\ given \in 0..MaxArgs

(***************************************************************************)
(* What a command line means, not step by step: which of its arguments are *)
(* the argument of a short option, and the options that it uses, in order, *)
(* each with its argument.                                                 *)
(***************************************************************************)
Takes(k) ==
  LET look == Shape[argv[k]] IN
    look.dashes = 1 /\ look.letters # <<>> /\ \E o \in FindByShortOption(Last(look.letters)) : NeedsArgument(o)

Taken(k) ==
  LET taken[n \in DOMAIN argv] == n > 1 /\ ~taken[n - 1] /\ Takes(n - 1) IN taken[k]

Use(found, text) == [options |-> found, text |-> text]

UsesOf(k) ==
  LET look == Shape[argv[k]] IN
    CASE Taken(k) -> <<>>
      [] ~Taken(k) /\ look.dashes = 2 -> <<Use(FindByLongOption(look.name), look.arg)>>
      [] ~Taken(k) /\ look.dashes = 1 ->
           [n \in DOMAIN look.letters |->
              Use(FindByShortOption(look.letters[n]),
                  IF n = Len(look.letters) /\ Takes(k) /\ k < Len(argv) THEN argv[k + 1] ELSE None)]
      [] OTHER -> <<>>

Uses == FlattenSeq([k \in DOMAIN argv |-> UsesOf(k)])

WellUsed(use) ==
  \E o \in use.options : IF NeedsArgument(o) THEN use.text # None /\ ArgumentFits(o, use.text)
                                             ELSE use.text = None

Others == {k \in DOMAIN argv : ~Taken(k) /\ Shape[argv[k]].dashes = 0}

WellFormed == (\A k \in DOMAIN Uses : WellUsed(Uses[k])) /\ (Others # {} => wants)

AsksForHelp == \E k \in DOMAIN Uses : \E o \in Uses[k].options : o.set_if_present = m_help

(***************************************************************************)
(* What the first n uses leave in a flag or a variable: what the last use  *)
(* of it says, or all of them for a list.                                  *)
(***************************************************************************)
Names(use, f) == \E o \in use.options : f \in {o.set_if_present, o.reset_if_present}

Naming(f, n) == {k \in 1..n : Names(Uses[k], f)}

FlagAfter(f, n) ==
  IF Naming(f, n) = {} THEN f # m_help /\ before[f]
  ELSE \A o \in Uses[Max(Naming(f, n))].options : o.reset_if_present # f

Tells(use, x) == \E o \in use.options : x \in o.args /\ use.text # None /\ Valid(KindOf[x], use.text)

VariableAfter(x, n) ==
  LET texts == FlattenSeq([k \in 1..n |-> IF Tells(Uses[k], x) THEN <<Uses[k].text>> ELSE <<>>])
  IN CASE KindOf[x] = "strv" -> before[x] \o texts
       [] KindOf[x] # "strv" /\ texts = <<>> -> before[x]
       [] OTHER -> Converted(KindOf[x], Last(texts), before[x])

Parsed == pc = "idle" /\ result # "none"

(* Parse accepts the command lines that are well-formed and do not ask for *)
(* help, and no others, whatever was parsed before.  A caller whose Parse  *)
(* failed can tell by the flag of the help option whether the help or an   *)
(* error was shown: it is not set when an argument before or after         *)
(* "--help" is wrong, nor left from a Parse before.                        *)
AcceptsWellFormed ==
  /\ TypeOK
  /\ Parsed => (result = "ok" <=> WellFormed /\ ~AsksForHelp)
  /\ Parsed /\ has_flag => (help_flag <=> WellFormed /\ AsksForHelp)

(* After a Parse that succeeded every flag and variable holds what the     *)
(* last option that names it said, a list everything that was said, and    *)
(* every argument that belongs to no option is an other argument, in order.*)
MeansWhatItSays ==
  Parsed /\ result = "ok" =>
    /\ \A f \in Flags : value[f] = FlagAfter(f, Len(Uses))
    /\ \A x \in Variables : value[x] = VariableAfter(x, Len(Uses))
    /\ Len(other_args) = Cardinality(Others)
    /\ \A k \in Others : other_args[Cardinality({j \in Others : j <= k})] = argv[k]

(* What a Parse that failed leaves behind is what the options before the   *)
(* wrong one said, and at most part of what the wrong one said: nothing of *)
(* what comes after it, and no number out of a text that is none.          *)
FailureStopsThere ==
  Parsed /\ result = "failed" =>
    \E n, m \in 0..Len(Uses) :
      /\ m \in {n, n + 1}
      /\ \A k \in 1..n : WellUsed(Uses[k])
      /\ \A f \in Flags : value[f] \in {FlagAfter(f, n), FlagAfter(f, m)}
      /\ \A x \in Variables : value[x] \in {VariableAfter(x, n), VariableAfter(x, m)}

-----------------------------------------------------------------------------
(* The help says "(Default: " and a value: what the variable held before   *)
(* the command line was parsed.                                            *)
ShownIsDefault == Parsed => \A entry \in shown : entry[2] = before[entry[1]]
=============================================================================
