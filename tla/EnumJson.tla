------------------------------ MODULE EnumJson ------------------------------
(***************************************************************************)
(* to_json and from_json of src/include/shared/enums.h, for serializable   *)
(* enums.  The names of an enum are a function on its values; those of a   *)
(* set of flags one on its bits, and its value is the set of its ones.     *)
(***************************************************************************)
EXTENDS Integers, SequencesExt

CONSTANT BITS      (* of a set of flags                                    *)

UNNAMED == "?"     (* what GET_NAME_FN gives for anything else             *)
GetName(names, x) == IF x \in DOMAIN names THEN names[x] ELSE UNNAMED

-----------------------------------------------------------------------------
EnumToJson(names, value) == GetName(names, value)

(* The values are tried from 0 on, until one has no name; the value stays  *)
(* what it was if none has the name.                                       *)
EnumFromJson(names, str, value) ==
  LET Tried(i) == \A k \in 0 .. i : GetName(names, k) # UNNAMED
      found == {i \in DOMAIN names : i >= 0 /\ Tried(i) /\ names[i] = str}
  IN  IF found = {} THEN value ELSE CHOOSE i \in found : \A k \in found : i <= k

-----------------------------------------------------------------------------
FlagsToJson(names, flags) ==
  LET named == SelectSeq([i \in 1 .. BITS |-> i - 1], LAMBDA bit : bit \in flags /\ GetName(names, bit) # UNNAMED)
  IN  [i \in DOMAIN named |-> names[named[i]]]

(* The first bit of the name of each string in the array.                  *)
FlagsFromJson(names, array) ==
  {bit \in DOMAIN names : \E i \in DOMAIN array :
    names[bit] = array[i] /\ \A lower \in DOMAIN names : lower < bit => names[lower] # array[i]}

-----------------------------------------------------------------------------
(* A value with a name is found again if all from 0 to it have names, and  *)
(* only then; a name that no value has changes nothing.                    *)
EnumComesBack(names, value, old) ==
  LET parsed == EnumFromJson(names, EnumToJson(names, value), old)
  IN  /\ (value >= 0 /\ 0 .. value \subseteq DOMAIN names) => parsed = value
      /\ parsed # old => parsed \in DOMAIN names /\ names[parsed] = EnumToJson(names, value)
      /\ parsed = value \/ parsed = old

(* The flags that have names come back, in whatever order they are listed, *)
(* and what is listed besides them changes nothing.                        *)
FlagsComeBack(names, flags, other) ==
  LET array == FlagsToJson(names, flags)
  IN  /\ FlagsFromJson(names, Reverse(array) \o <<other>>) = flags \intersect DOMAIN names
      /\ FlagsToJson(names, FlagsFromJson(names, array)) = array
=============================================================================
