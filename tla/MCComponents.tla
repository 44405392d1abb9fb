---------------------------- MODULE MCComponents ----------------------------
(***************************************************************************)
(* The parts of the library that do not share state, side by side: a       *)
(* behaviour is one of a single part, which Init picks, and the others     *)
(* stay as they were.  The parts that are functions have no steps: Init    *)
(* picks an input, and their properties speak of that.                     *)
(***************************************************************************)
EXTENDS Components, TLC

CONSTANTS
  BITS, BYTE, NULL, INDENT, NARROW                             (* the functions         *)

VARIABLE part     (* the part that this behaviour is about                 *)

-----------------------------------------------------------------------------
(***************************************************************************)
(* Enums for TLC: legal ones, one for every assertion that fails, and the  *)
(* ones that the code accepts although its comments do not.                *)
(***************************************************************************)
Value(v, limit) == [value |-> v, shift |-> -1, width |-> 0, enum |-> "none", values |-> {}, limit |-> limit]
Field(v, shift, width) == [value |-> v, shift |-> shift, width |-> width, enum |-> "none", values |-> {}, limit |-> FALSE]
FieldOf(v, shift, width, values) == [Field(v, shift, width) EXCEPT !.enum = "unsigned", !.values = values]
Enum(signed, bits, values) == [signed |-> signed, bits |-> bits, wip |-> FALSE, hash |-> "none", values |-> values]

EnumDescriptions ==
  { Enum(TRUE, 2, <<Value(-2, FALSE), Value(1, FALSE), Value(2, TRUE)>>),
    Enum(FALSE, 2, <<Value(0, FALSE), Value(4, FALSE), Value(5, TRUE)>>),
    Enum(FALSE, 3, <<Field(1, 0, 1), FieldOf(6, 1, 2, {0, 6})>>),
    Enum(FALSE, 3, <<Field(3, 0, 2), Field(4, 2, 1)>>),
    Enum(TRUE, 2, <<Value(-3, FALSE)>>),
    Enum(FALSE, 3, <<Field(3, 0, 2), Field(6, 1, 2)>>),
    Enum(FALSE, 2, <<Field(1, 0, 1), Field(6, 1, 2)>>),
    Enum(FALSE, 2, <<Field(2, 0, 1)>>),
    Enum(FALSE, 2, <<FieldOf(1, 0, 1, {2})>>),
    Enum(FALSE, 2, <<Field(1, 0, 1), Value(2, FALSE)>>),
    Enum(FALSE, 2, <<Value(0, FALSE), Value(1, TRUE), Value(2, FALSE)>>),
    Enum(FALSE, 2, <<>>),
    [Enum(FALSE, 1, <<Field(1, 0, 1)>>) EXCEPT !.hash = "right"],
    [Enum(FALSE, 1, <<Value(0, FALSE)>>) EXCEPT !.hash = "wrong"],
    [Enum(FALSE, 2, <<Field(3, 0, 2)>>) EXCEPT !.hash = "right"],
    [Enum(FALSE, 3, <<Field(0, 1, 0), Field(7, 0, 3)>>) EXCEPT !.wip = TRUE] }

(***************************************************************************)
(* The parts.                                                              *)
(***************************************************************************)
FileContents == {<<"a", "b">>, <<"c">>}

Guid == INSTANCE Guids
Bytes == INSTANCE LoadStore
Text == INSTANCE TextLines
Report == INSTANCE Reports
CStr == INSTANCE CStrings
Json == INSTANCE EnumJson
Layout == INSTANCE HelpLayout
Sha == INSTANCE Sha1
\* The digest of the model is the blocks it was made of.
Cuts == INSTANCE Sha1Blocks WITH BLOCK_SIZE <- 8, COUNT_SIZE <- 2, INITIAL_STATE <- <<>>, Transform <- Append

-----------------------------------------------------------------------------
(***************************************************************************)
(* The inputs of the functions.                                            *)
(***************************************************************************)
Strings(letters, n) == UNION {[1 .. k -> letters] : k \in 0 .. n}

A == 97      (* a letter, which is a digit in hexadecimal                  *)
Eacute == -61
LongString == [i \in 1 .. 30 |-> IF i = 6 THEN 10 ELSE 110 + (i % 7)]

PathInputs ==
  [of : {"one path"}, a : Strings({Path!DOT, Path!SLASH, Path!BACKSLASH, A}, 5)]
  \union [of : {"paths"}, a : Strings({Path!DOT, Path!SLASH, A, Eacute}, 3),
                          b : Strings({Path!DOT, Path!SLASH, A, Eacute}, 2),
                          c : Strings({Path!SLASH, A, Eacute}, 2)]

SomeGuid == <<32, 122, 243, 188, 229, 243, 70, 96, 130, 120, 111, 77, 217, 63, 59, 71>>
OtherGuid == [SomeGuid EXCEPT ![5] = 16, ![16] = 255]

\* Values and flags with names, each another one, and without.
Named(values) == [v \in values |-> CASE v = -1 -> "none" [] v = 0 -> "zero" [] v = 1 -> "one" [] v = 2 -> "two" [] v = 3 -> "three"]
EnumNames == {Named(values) : values \in SUBSET (-1 .. 3)}
FlagNames == {Named(bits) : bits \in SUBSET (0 .. BITS - 1)}

ConversionInputs ==
  [of : {"guid"}, guid : {SomeGuid, OtherGuid}, old : {SomeGuid, [i \in 1 .. 16 |-> 0]},
   p : {1, 2, 3, 9, 10, 19, 37, 38, 39}, ch : {0, 45, 48, 70, 71, 102, 125}]
  \union [of : {"numbers"}, data1 : {0, 545977276, 2147483647}, data2 : {0, 58867, 65535}, data3 : {1, 18016}]
  \union [of : {"integer"}, n : {1}, value : 0 .. BYTE - 1]
  \union [of : {"integer"}, n : {2}, value : 0 .. BYTE ^ 2 - 1]
  \union [of : {"integer"}, n : {4}, value : 0 .. BYTE ^ 4 - 1]
  \union [of : {"integer"}, n : {8}, value : {0, 1, 6939, 16384, 30000, BYTE ^ 8 - 1}]
  \union [of : {"copy"}, src : Strings({1, 2}, 4), behind : Strings({0, 3}, 1), size : 0 .. 5]
  \union [of : {"enum name"}, names : EnumNames, value : -1 .. 3, old : {0, 2}]
  \union [of : {"flags"}, names : FlagNames, flags : SUBSET (0 .. BITS - 1), other : {"x", Json!UNNAMED}]
  \union [of : {"lines"}, lines : Strings(Strings({"x"}, 1), 3), text : Strings({"x", "\r", "\n"}, 4)]

DigestInputs ==
  [of : {"vectors"}] \union {[of |-> "cut", size |-> size, cut |-> cut] : size \in 0 .. 26, cut \in 0 .. 26}

FormatInputs ==
  [of : {"dump"}, size : {0, 1, 2, 15, 16, 17, 32, 33, 70}, columns : {0, 1, 3, 16, 40}, address : {0, 256}, marked : {0, 16, 20}]
  \union [of : {"printable"}, str : Strings({7, 10, 31, 48, A, 103, 92, 200}, 3)]
  \union [of : {"strings"}, got : Strings({120, 121, 10}, 3) \union {NULL, LongString},
                            wanted : Strings({120, 121, 10}, 3) \union {NULL} \union {[LongString EXCEPT ![i] = 0] : i \in DOMAIN LongString}]
  \union [of : {"bytes"}, size : {1, 17, 33, 50, 65}, differs : 1 .. 65]
  \union [of : {"words"}, column : {0, 2, 5, 20}, width : {5, 8, 12}, words : Strings({1, 3, 9}, 3)]

Inputs == PathInputs \union ConversionInputs \union DigestInputs \union FormatInputs
NoInput == [of |-> "none"]

-----------------------------------------------------------------------------
MCInit ==
  /\ Init /\ U!Init /\ T!Init /\ E!Init /\ F!Init /\ M!Init /\ L!InitIndenters /\ N!Init /\ O!Init
  /\ \/ part \in {"sets", "locks", "tests", "enums", "contents", "indenters", "names", "logs"} /\ input = NoInput /\ depth = 0
     \/ part = "files" /\ input = NoInput
     \/ part = "functions" /\ input \in Inputs /\ depth = 0

MCNext ==
  /\ UNCHANGED <<part, input>>
  /\ \/ part = "sets" /\ Next /\ UNCHANGED <<locks, tests, enums, files, contents, indenters, names, logs>>
     \/ part = "locks" /\ U!Next /\ UNCHANGED <<vars, tests, enums, files, contents, indenters, names, logs>>
     \/ part = "tests" /\ T!Next /\ UNCHANGED <<vars, locks, enums, files, contents, indenters, names, logs>>
     \/ part = "enums" /\ E!Next /\ UNCHANGED <<vars, locks, tests, files, contents, indenters, names, logs>>
     \/ part = "files" /\ F!Next /\ UNCHANGED <<vars, locks, tests, enums, contents, indenters, names, logs>>
     \/ part = "contents" /\ M!Next /\ UNCHANGED <<vars, locks, tests, enums, files, indenters, names, logs>>
     \/ part = "indenters" /\ L!NextIndenters /\ UNCHANGED <<vars, locks, tests, enums, files, contents, names, logs>>
     \/ part = "names" /\ N!Next /\ UNCHANGED <<vars, locks, tests, enums, files, contents, indenters, logs>>
     \/ part = "logs" /\ O!Next /\ UNCHANGED <<vars, locks, tests, enums, files, contents, indenters, names>>

allVars == <<part, input, vars, locks, tests, enums, files, contents, indenters, names, logs>>
MCSpec == MCInit /\ [][MCNext]_allVars

FewEnums == Len(first_traits) <= 2

-----------------------------------------------------------------------------
(* What is formatted is parsed back and what is damaged is rejected        *)
(* (guid.cpp:123); integers come back on CPUs of either order; and lines   *)
(* are the same with all endings (strings.cpp:39).                         *)
ConversionsRight ==
  /\ input.of = "guid" => Guid!ParsesBack(input.guid, input.old, input.p, input.ch)
  /\ input.of = "numbers" => Guid!NumbersShow(input.data1, input.data2, input.data3, SubSeq(SomeGuid, 9, 16))
  /\ input.of = "integer" => Bytes!OrdersRight(input.n, input.value)
  /\ input.of = "copy" => CStr!CopiesWhatFits([i \in 1 .. 5 |-> 9], Append(input.src, 0) \o input.behind, input.size)
  /\ input.of = "enum name" => Json!EnumComesBack(input.names, input.value, input.old)
  /\ input.of = "flags" => Json!FlagsComeBack(input.names, input.flags, input.other)
  /\ input.of = "lines" => Text!EndingsEqual(input.lines, input.text)

(* SHA1 gives the digests of the standard's examples, and the same digest  *)
(* however a message is cut into calls of Update (sha1.cpp:192).           *)
DigestsRight ==
  /\ input.of = "vectors" => Sha!TestVectors
  /\ input.of = "cut" /\ input.cut <= input.size => Cuts!DigestOfWhole([i \in 1 .. input.size |-> i], input.cut)

(* Dumps, printable strings and the reports of tests show what was given,  *)
(* and where it differs (log.cpp:667, testing.cpp:273 and 363); wrapped    *)
(* text has every word, within the terminal (CommandLineParser.cpp:317).   *)
FormatsRight ==
  /\ input.of = "dump" => Report!DumpShowsAll([i \in 1 .. input.size |-> i], input.columns, input.address, input.marked)
  /\ input.of = "printable" => Report!PrintsBack(input.str)
  /\ input.of = "strings" => /\ Report!StringReportShows(input.got, input.wanted)
                             /\ Report!NullsCompare(input.got, input.wanted)
  /\ input.of = "bytes" /\ input.differs <= input.size =>
       LET got == [i \in 1 .. input.size |-> i]
       IN  Report!BytesReportShows(got, [got EXCEPT ![input.differs] = 0])
  /\ input.of = "words" => /\ Layout!WrapsRight(input.column, [i \in DOMAIN input.words |-> [at |-> i, length |-> input.words[i]]], input.width)
                           /\ Layout!MovesRight(input.column, input.width)
=============================================================================
