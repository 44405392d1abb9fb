------------------------------- MODULE Guids --------------------------------
(***************************************************************************)
(* src/guid.cpp: a Guid is sixteen bytes, its text 38 characters.          *)
(***************************************************************************)
EXTENDS Integers, SequencesExt

Bytes == INSTANCE LoadStore WITH BYTE <- 256

NUL == 0
GUID_STR_LEN == 38

(* What is not a digit, and where: {207af3bc-e5f3-4660-8278-6f4dd93f3b47}. *)
Punctuation == [p \in {1, 10, 15, 20, 25, 38} |-> CASE p = 1 -> 123 [] p = 38 -> 125 [] OTHER -> 45]
IsDigit(p) == p \in 1 .. GUID_STR_LEN /\ p \notin DOMAIN Punctuation

(* The byte that a digit belongs to, and whether it is the high one.       *)
DigitsBefore(p) == Cardinality({q \in 1 .. p - 1 : IsDigit(q)})
ByteAt(p) == DigitsBefore(p) \div 2 + 1
IsHigh(p) == DigitsBefore(p) % 2 = 0

HEX_CHARS_LC == [n \in 0 .. 15 |-> IF n < 10 THEN 48 + n ELSE 87 + n]

GetNybble(ch) ==
  CASE ch \in 48 .. 57 -> ch - 48
    [] ch \in 65 .. 70 -> ch - 55
    [] ch \in 97 .. 102 -> ch - 87
    [] OTHER -> -1

GetGuidFromDEFINE_GUID(data1, data2, data3, data4) ==
  Bytes!StoreBE(TRUE, 4, data1) \o Bytes!StoreBE(TRUE, 2, data2) \o Bytes!StoreBE(TRUE, 2, data3) \o data4

GetStringFromGuid(guid) ==
  [p \in 1 .. GUID_STR_LEN |->
    IF ~IsDigit(p) THEN Punctuation[p]
    ELSE HEX_CHARS_LC[IF IsHigh(p) THEN guid[ByteAt(p)] \div 16 ELSE guid[ByteAt(p)] % 16]]
    \o <<NUL>>

\* Mutant: letters in upper case are no digits.
FitsLowerCase(str, p) ==
  IF IsDigit(p) THEN \E n \in 0 .. 15 : HEX_CHARS_LC[n] = str[p] ELSE str[p] = Punctuation[p]

Fits(str, p) == IF IsDigit(p) THEN GetNybble(str[p]) >= 0 ELSE str[p] = Punctuation[p]

(* Each byte is stored as soon as both its digits were read, and the first *)
(* character that does not fit ends it: text that is too short has its NUL *)
(* there.  What follows the last brace is not looked at.                   *)
GetGuidFromString(guid, str) ==
  LET read == CHOOSE p \in 0 .. GUID_STR_LEN :
                /\ \A q \in 1 .. p : Fits(str, q)
                /\ p = GUID_STR_LEN \/ ~Fits(str, p + 1)
      Read(i) == {p \in 1 .. read : IsDigit(p) /\ ByteAt(p) = i}
      high(i) == CHOOSE p \in Read(i) : IsHigh(p)
  IN  [good |-> read = GUID_STR_LEN,
       guid |-> [i \in 1 .. 16 |->
         IF Cardinality(Read(i)) = 2 THEN 16 * GetNybble(str[high(i)]) + GetNybble(str[high(i) + 1]) ELSE guid[i]]]

Less(a, b) == \E i \in DOMAIN a : a[i] < b[i] /\ \A k \in 1 .. i - 1 : a[k] = b[k]

-----------------------------------------------------------------------------
(* The text of a Guid is parsed to it, whatever was there, and in upper    *)
(* case too; with one character changed or missing it is rejected, unless  *)
(* it is another digit or behind the brace, and no byte behind that place  *)
(* has been touched; and the Guids are in the order of their texts.        *)
UpperCase(ch) == IF ch \in 97 .. 102 THEN ch - 32 ELSE ch

ParsesBack(guid, old, p, ch) ==
  LET text == GetStringFromGuid(guid)
      upper == [q \in DOMAIN text |-> UpperCase(text[q])]
      changed == [text EXCEPT ![p] = ch]
      parsed == GetGuidFromString(old, changed)
      digit == IsDigit(p) /\ GetNybble(ch) >= 0
  IN  /\ GetGuidFromString(old, text) = [good |-> TRUE, guid |-> guid]
      /\ GetGuidFromString(old, upper) = [good |-> TRUE, guid |-> guid]
      /\ parsed.good = (changed = text \/ digit \/ p > GUID_STR_LEN)
      /\ ~parsed.good => \A i \in 1 .. 16 : parsed.guid[i] = IF i < ByteAt(p) THEN guid[i] ELSE old[i]
      /\ Less(guid, old) = Less(GetStringFromGuid(guid), GetStringFromGuid(old))

(* The three numbers of DEFINE_GUID are the first three groups of digits.  *)
NumbersShow(data1, data2, data3, data4) ==
  LET text == GetStringFromGuid(GetGuidFromDEFINE_GUID(data1, data2, data3, data4))
      Number(first, last) == FoldLeft(LAMBDA n, ch : 16 * n + GetNybble(ch), 0, SubSeq(text, first, last))
  IN  Number(2, 9) = data1 /\ Number(11, 14) = data2 /\ Number(16, 19) = data3
=============================================================================
