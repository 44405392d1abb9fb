------------------------------ MODULE Reports -------------------------------
(***************************************************************************)
(* What is shown of data: LogDumpBytesEx and LogStringPrintable of         *)
(* src/log.cpp, and the comparisons of src/testing.cpp that use them.      *)
(* Strings and data are sequences of codes, positions count from 1 and     *)
(* offsets, as in the code, from 0.                                        *)
(***************************************************************************)
EXTENDS Integers, SequencesExt

CONSTANT NULL        (* the null pointer                                   *)

Lesser(m, n) == IF m < n THEN m ELSE n
IsPrintable(x) == x \in 32 .. 126

-----------------------------------------------------------------------------
(***************************************************************************)
(* LogDumpBytesEx: rows of an address, cells and characters.  A cell is a  *)
(* byte or Blank, and has a mark if its offset is one of those for which   *)
(* the highlight function is true.                                         *)
(***************************************************************************)
Blank == -1
MAX_NUM_DUMP_COLUMNS == 32

Columns(num_dump_columns) == IF num_dump_columns = 0 THEN 16 ELSE Lesser(num_dump_columns, MAX_NUM_DUMP_COLUMNS)

Rows(data, columns, first_address, highlighted) ==
  [r \in 1 .. (Len(data) + columns - 1) \div columns |->
    [address |-> first_address + (r - 1) * columns,
     cells |-> [i \in 1 .. columns |->
       LET offset == (r - 1) * columns + i - 1
       IN  IF offset < Len(data) THEN data[offset + 1] ELSE Blank],
     marks |-> {i \in 1 .. columns : (r - 1) * columns + i - 1 \in highlighted}]]

LogDumpBytesEx(data, num_dump_columns, first_address, highlighted) ==
  Rows(data, Columns(num_dump_columns), first_address, highlighted)

(* The characters of a row.                                                *)
Characters(row) ==
  [i \in DOMAIN row.cells |->
    CASE row.cells[i] = Blank -> 32
      [] IsPrintable(row.cells[i]) -> row.cells[i]
      [] OTHER -> 46]

(* A reader finds each byte once, in order, at its address, and blanks     *)
(* behind the last one only, in rows of the same width; and what is        *)
(* highlighted is at its offset.                                           *)
DumpShowsAll(data, num_dump_columns, first_address, marked) ==
  LET rows == LogDumpBytesEx(data, num_dump_columns, first_address, {marked})
      shown == FlattenSeq([r \in DOMAIN rows |-> rows[r].cells])
      At(r, i) == rows[r].address - first_address + i
  IN  /\ IsPrefix(data, shown)
      /\ Len(shown) - Len(data) < Columns(num_dump_columns)
      /\ \A r \in DOMAIN rows, i \in 1 .. Columns(num_dump_columns) :
           At(r, i) <= Len(data) => /\ rows[r].cells[i] = data[At(r, i)]
                                    /\ (i \in rows[r].marks) = (At(r, i) = marked + 1)

-----------------------------------------------------------------------------
(***************************************************************************)
(* LogStringPrintable: an escape in hexadecimal would take the digits that *)
(* follow it, so that an octal one, of three digits, stands before them.   *)
(* A backslash of the string is not escaped.                               *)
(***************************************************************************)
IsHexDigit(x) == x \in (48 .. 57) \union (65 .. 70) \union (97 .. 102)
HexDigit(n) == IF n < 10 THEN 48 + n ELSE 87 + n
Short == [x \in {8, 9, 10, 13} |-> CASE x = 8 -> 98 [] x = 9 -> 116 [] x = 10 -> 110 [] x = 13 -> 114]

\* Mutant: always hexadecimal.
EscapeHex(x, next) == <<92, 120, HexDigit(x \div 16), HexDigit(x % 16)>>

Escape(x, next) ==
  IF IsHexDigit(next) THEN <<92, 48 + (x \div 64), 48 + ((x \div 8) % 8), 48 + (x % 8)>>
  ELSE <<92, 120, HexDigit(x \div 16), HexDigit(x % 16)>>

LogStringPrintable(str) ==
  FlattenSeq([i \in DOMAIN str |->
    CASE IsPrintable(str[i]) -> <<str[i]>>
      [] str[i] \in DOMAIN Short -> <<92, Short[str[i]]>>
      [] OTHER -> Escape(str[i], IF i < Len(str) THEN str[i + 1] ELSE 0)])

(* How C reads a string literal: an octal escape has up to three digits, a *)
(* hexadecimal one as many as there are.                                   *)
DigitValue(x) == IF x < 58 THEN x - 48 ELSE IF x < 71 THEN x - 55 ELSE x - 87
Run(text, IsDigit(_), limit) ==
  LET lengths == {n \in 0 .. Lesser(Len(text), limit) : \A i \in 1 .. n : IsDigit(text[i])}
  IN  SubSeq(text, 1, CHOOSE n \in lengths : \A m \in lengths : m <= n)
NumberOf(digits, base) == FoldLeft(LAMBDA n, x : base * n + DigitValue(x), 0, digits)

RECURSIVE ReadLiteral(_)
ReadLiteral(text) ==
  IF text = <<>> THEN <<>>
  ELSE IF text[1] # 92 THEN <<text[1]>> \o ReadLiteral(Tail(text))
  ELSE LET rest == Tail(text)
           hex == Run(Tail(rest), IsHexDigit, Len(rest))
           octal == Run(rest, LAMBDA x : x \in 48 .. 55, 3)
       IN  CASE rest[1] = 120 -> <<NumberOf(hex, 16)>> \o ReadLiteral(SubSeq(rest, Len(hex) + 2, Len(rest)))
             [] rest[1] \in 48 .. 55 -> <<NumberOf(octal, 8)>> \o ReadLiteral(SubSeq(rest, Len(octal) + 1, Len(rest)))
             [] OTHER -> <<CHOOSE x \in DOMAIN Short : Short[x] = rest[1]>> \o ReadLiteral(Tail(rest))

(* What is printed is printable, and is the string itself to a reader of C *)
(* if there is no backslash in it.                                         *)
PrintsBack(str) ==
  /\ \A x \in ToSet(LogStringPrintable(str)) : IsPrintable(x)
  /\ 92 \notin ToSet(str) => ReadLiteral(LogStringPrintable(str)) = str

-----------------------------------------------------------------------------
(* TestEqSS and TestNeSS: whether the test passes; either may be null.     *)
TestEqSS(got, wanted) == got = wanted
TestNeSS(got, unwanted) == ~((got = NULL /\ unwanted = NULL) \/ (got # NULL /\ unwanted # NULL /\ got = unwanted))

(* Where strings of one length first differ, and what of both is shown.    *)
FirstDifference(got, wanted) ==
  CHOOSE i \in DOMAIN got : got[i] # wanted[i] /\ \A k \in 1 .. i - 1 : got[k] = wanted[k]

IsLineEnd(x) == x \in {10, 13}

PartFrom(got, i) == SelectLastInSubSeq(got, 1, i, IsLineEnd)
PartLength(got, i) == (i - 1) - PartFrom(got, i) + 10
Part(str, begin, n) == SubSeq(str, begin + 1, Lesser(begin + n, Len(str)))

(* TestEqAA: the rows around the first difference, by their offsets, and   *)
(* the offset within them that is highlighted.                             *)
WindowBegin(i) == LET row == i - (i % 16) IN IF row >= 16 THEN row - 16 ELSE row
WindowEnd(i, n) == Lesser(WindowBegin(i) + 48, n)

TestEqAA(got, wanted) ==
  IF got = wanted THEN NULL
  ELSE LET i == FirstDifference(got, wanted) - 1
       IN  [index |-> i,
            rows |-> LogDumpBytesEx(SubSeq(got, WindowBegin(i) + 1, WindowEnd(i, Len(got))), 0, 0, {i})]

(* The report of a failed comparison of strings shows the line up to the   *)
(* difference, the same in both, and the difference, unless it is an end   *)
(* of a line that was got: the part that is shown then begins behind it.   *)
(* That of a comparison of bytes has the byte that differs and the row     *)
(* before it, and marks that byte, unless it has two rows before it: the   *)
(* offset that is compared then is not the one within the window.          *)
StringReportShows(got, wanted) ==
  got # NULL /\ wanted # NULL /\ Len(got) = Len(wanted) /\ ~TestEqSS(got, wanted) =>
    LET i == FirstDifference(got, wanted)
        begin == PartFrom(got, i)
        n == PartLength(got, i)
        same == i - 1 - begin
    IN  ~IsLineEnd(got[i]) =>
          /\ Part(got, begin, same) = Part(wanted, begin, same)
          /\ Part(got, begin, n)[same + 1] # Part(wanted, begin, n)[same + 1]
          /\ \A x \in ToSet(Part(got, begin, same)) : ~IsLineEnd(x)

NullsCompare(got, wanted) ==
  TestEqSS(got, wanted) = ~TestNeSS(got, wanted)

BytesReportShows(got, wanted) ==
  got # wanted =>
    LET report == TestEqAA(got, wanted)
        i == report.index
        begin == WindowBegin(i)
        row == ((i - begin) \div 16) + 1
        column == ((i - begin) % 16) + 1
    IN  /\ report.rows[row].cells[column] = got[i + 1]
        /\ i >= 16 => row = 2
        /\ column \in report.rows[row].marks <=> begin = 0
=============================================================================
