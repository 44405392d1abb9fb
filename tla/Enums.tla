------------------------------- MODULE Enums -------------------------------
(***************************************************************************)
(* src/enums.cpp: the traits of every enum link themselves into one list   *)
(* when they are constructed, and the first that looks at the list fixes   *)
(* it and validates all of it.  A failed assertion ends the program, as it *)
(* does where ASSERT is enabled, which is not in the configuration Final,  *)
(* and no debugger is attached (debug.cpp:107).                            *)
(*                                                                         *)
(* A description of an enum is a record of                                 *)
(*   signed, bits, wip  the fields of EnumTraitsBase                       *)
(*   hash               "none", "right" or "wrong": the serializable hash  *)
(*   values             a sequence of records of value, shift, width, the  *)
(*                      values of its enum ({} if it has none, with        *)
(*                      enum = "none", "signed" or "unsigned"), and limit: *)
(*                      whether it is called Count or MaxValue             *)
(***************************************************************************)
EXTENDS Integers, SequencesExt

CONSTANTS
  Threads,
  Descriptions,   (* the enums of the program                              *)
  MAX_BITS        (* of an enum: 64                                        *)

VARIABLES
  first_traits,   (* the list, from g_first_enum_traits on                 *)
  initialised,    (* g_enums_list_initialised                              *)
  fixed,          (* g_enums_list_fixed                                    *)
  doing,          (* what each thread does                                 *)
  toValidate,     (* what the thread that validates still has to do        *)
  walked,         (* the list that GetFirst gave each thread               *)
  aborted         (* whether an assertion failed                           *)

vars == <<first_traits, initialised, fixed, doing, toValidate, walked, aborted>>

Init ==
  /\ first_traits = <<>>
  /\ initialised = FALSE
  /\ fixed = FALSE
  /\ doing = [t \in Threads |-> "idle"]
  /\ toValidate = <<>>
  /\ walked = [t \in Threads |-> <<>>]
  /\ aborted = FALSE

-----------------------------------------------------------------------------
(* Init2, and what EnsureEnumsInitialised asserts of one enum.  Where the  *)
(* code has 1 << n, it is Power2[n].                                       *)
Power2[n \in 0 .. MAX_BITS] == IF n = 0 THEN 1 ELSE 2 * Power2[n - 1]

Values(d) == ToSet(d.values)
IsBitfield(d) == \E v \in Values(d) : v.width > 0

Initialises(d) == d.values # <<>> /\ d.bits > 0

(* Behind a Count, what is compared is the address of a signed value.      *)
LimitIsLast(d) ==
  \A i, k \in DOMAIN d.values :
    i < k /\ d.values[i].limit =>
      LET count == CHOOSE c \in DOMAIN d.values :
                     d.values[c].limit /\ \A b \in 1 .. c - 1 : ~d.values[b].limit
      IN  ~d.signed /\ d.values[k].value < d.values[count].value

InRange(d) ==
  LET min == IF d.signed THEN -Power2[d.bits - 1] ELSE 0
      max == IF d.signed THEN Power2[d.bits - 1] - 1 ELSE Power2[d.bits]
  IN  d.bits < MAX_BITS =>
        \A v \in Values(d) : v.value >= min /\ v.value <= (IF v.limit THEN max + 1 ELSE max)

AllFieldsOrNone(d) ==
  d.wip \/ \A v \in Values(d) : IF v.shift < 0 THEN v.width = 0 /\ ~IsBitfield(d) ELSE v.width > 0

FieldMask(v) == (Power2[v.width] - 1) * Power2[v.shift]

(* Within the width of the enum, and no bit in two of them.                *)
FieldsFit(d) ==
  /\ \A v \in Values(d) : v.shift >= 0 /\ v.shift < d.bits /\ v.shift + v.width <= d.bits
  /\ \A i, k \in DOMAIN d.values :
       LET v == d.values[i]
           w == d.values[k]
       IN  i = k \/ 0 \in {v.width, w.width} \/ v.shift + v.width <= w.shift \/ w.shift + w.width <= v.shift

GoodFields(d) ==
  /\ ~d.signed
  /\ FieldsFit(d)
  /\ \A v \in Values(d) : v.value = FieldMask(v)
  /\ \A v \in Values(d) : v.enum # "signed" /\ \A u \in v.values : u <= FieldMask(v)
  /\ d.hash # "none" => \A v \in Values(d) : v.width = 1 /\ v.enum = "none"

(* Whether no assertion fails for the enum; the wrong hashes are reported  *)
(* one by one, and asserted of all enums at the end.                       *)
Accepts(d) ==
  /\ d.bits <= MAX_BITS
  /\ LimitIsLast(d)
  /\ InRange(d)
  /\ AllFieldsOrNone(d)
  /\ IsBitfield(d) => GoodFields(d)

-----------------------------------------------------------------------------
\* Mutant: the list may grow when it is fixed.
ConstructLate(d) ==
  /\ ~aborted
  /\ d \notin ToSet(first_traits)
  /\ IF ~Initialises(d)
       THEN aborted' = TRUE /\ UNCHANGED first_traits
       ELSE first_traits' = <<d>> \o first_traits /\ UNCHANGED aborted
  /\ UNCHANGED <<initialised, fixed, doing, toValidate, walked>>

(* The constructors of EnumTraitsBase and of the traits of one enum.       *)
Construct(d) ==
  /\ ~aborted
  /\ d \notin ToSet(first_traits)
  /\ IF fixed \/ ~Initialises(d)
       THEN aborted' = TRUE /\ UNCHANGED first_traits
       ELSE first_traits' = <<d>> \o first_traits /\ UNCHANGED aborted
  /\ UNCHANGED <<initialised, fixed, doing, toValidate, walked>>

(* GetFirst begins with EnsureEnumsInitialised, where one thread finds the *)
(* flag unset; any other returns at once.                                  *)
EnsureEnumsInitialised(t) ==
  /\ ~aborted
  /\ doing[t] = "idle"
  /\ initialised' = TRUE
  /\ doing' = [doing EXCEPT ![t] = IF initialised THEN "getting" ELSE "ensuring"]
  /\ UNCHANGED <<first_traits, fixed, toValidate, walked, aborted>>

(* The thread that validates calls GetFirst itself, and that this function *)
(* again.                                                                  *)
BeginValidation(t) ==
  /\ ~aborted
  /\ doing[t] = "ensuring"
  /\ fixed' = TRUE
  /\ toValidate' = first_traits
  /\ doing' = [doing EXCEPT ![t] = "validating"]
  /\ UNCHANGED <<first_traits, initialised, walked, aborted>>

Validate(t) ==
  /\ ~aborted
  /\ doing[t] = "validating"
  /\ toValidate # <<>>
  /\ aborted' = ~Accepts(Head(toValidate))
  /\ toValidate' = Tail(toValidate)
  /\ UNCHANGED <<first_traits, initialised, fixed, doing, walked>>

AllGood(t) ==
  /\ ~aborted
  /\ doing[t] = "validating"
  /\ toValidate = <<>>
  /\ aborted' = \E d \in ToSet(first_traits) : d.hash = "wrong"
  /\ doing' = [doing EXCEPT ![t] = "getting"]
  /\ UNCHANGED <<first_traits, initialised, fixed, toValidate, walked>>

GetFirst(t) ==
  /\ ~aborted
  /\ doing[t] = "getting"
  /\ fixed' = TRUE
  /\ walked' = [walked EXCEPT ![t] = first_traits]
  /\ doing' = [doing EXCEPT ![t] = "idle"]
  /\ UNCHANGED <<first_traits, initialised, toValidate, aborted>>

Next ==
  \/ \E d \in Descriptions : Construct(d)
  \/ \E t \in Threads : \/ EnsureEnumsInitialised(t) \/ BeginValidation(t)
                        \/ Validate(t) \/ AllGood(t) \/ GetFirst(t)

Spec == Init /\ [][Next]_vars

-----------------------------------------------------------------------------
TypeOK ==
  /\ ToSet(first_traits) \subseteq Descriptions
  /\ doing \in [Threads -> {"idle", "ensuring", "validating", "getting"}]
  /\ {initialised, fixed, aborted} \subseteq BOOLEAN

(* What the comments in enums.cpp and enums.h say of an enum, in terms of  *)
(* bits and values: fields are sets of bits of the enum, all different; a  *)
(* value is the mask of its field; it fits the type, a Count one more.  As *)
(* the code is, an unsigned value may be one more than fits and its Count  *)
(* two, and the values of an enum in a field that is not the lowest need   *)
(* not fit the field.                                                      *)
Bits(v) == {b \in 0 .. MAX_BITS - 1 : v.shift <= b /\ b < v.shift + v.width}
Mask(bits) ==
  LET below[n \in 0 .. MAX_BITS] ==
        IF n = 0 THEN 0 ELSE below[n - 1] + (IF n - 1 \in bits THEN Power2[n - 1] ELSE 0)
  IN  below[MAX_BITS]

IsLegal(d) ==
  /\ d.hash # "wrong"
  /\ \A v \in Values(d) :
       LET room == IF v.limit THEN 1 ELSE 0
       IN  \/ d.bits = MAX_BITS
           \/ d.signed /\ v.value + Power2[d.bits - 1] \in 0 .. Power2[d.bits] - 1 + room
           \/ ~d.signed /\ v.value \in 0 .. Power2[d.bits] + room
  /\ \/ ~IsBitfield(d)
     \/ /\ \A v \in Values(d) : /\ v.value = Mask(Bits(v))
                                /\ Bits(v) \subseteq 0 .. d.bits - 1
                                /\ v.shift = 0 => \A u \in v.values : u < Power2[v.width]
        /\ \A i, k \in DOMAIN d.values : i # k => Bits(d.values[i]) \intersect Bits(d.values[k]) = {}

(* Once no thread is in the middle of the validation, every enum that a    *)
(* thread has got is a legal one, or the program has ended; until then it  *)
(* may walk enums that nobody has looked at (enums.cpp:135).               *)
WalkedAreLegal ==
  /\ TypeOK
  /\ ~aborted /\ (\A t \in Threads : doing[t] \notin {"ensuring", "validating"}) =>
       \A t \in Threads : \A d \in ToSet(walked[t]) : IsLegal(d)
=============================================================================
