----------------------------- MODULE HelpLayout -----------------------------
(***************************************************************************)
(* PrintWrappedLines and MoveToColumn of src/CommandLineParser.cpp, on a   *)
(* log whose lines begin with an indent.  A word is its length and what    *)
(* tells it from others.  The page is a sequence of lines: the column      *)
(* where the text of a line begins, and its words.                         *)
(***************************************************************************)
EXTENDS Integers, SequencesExt

CONSTANTS
  INDENT,      (* of the log                                               *)
  NARROW       (* the width for text that is already beyond the terminal:  *)
               (* 80                                                       *)

(* The log: its column, and what was printed.  At the beginning of a line  *)
(* the column is 0, and the first character puts the indent before it.     *)
AtBOL(log) == log.column = 0
Newline(log) == [log EXCEPT !.column = 0, !.lines = Append(@, [at |-> INDENT, words |-> <<>>])]
Start(log) == IF AtBOL(log) THEN INDENT ELSE log.column
Space(log) == [log EXCEPT !.column = Start(log) + 1]
Put(log, word) ==
  [column |-> Start(log) + word.length,
   lines |-> [log.lines EXCEPT ![Len(log.lines)].words = Append(@, word)]]

WrapColumn(log, width) == IF log.column > width - 1 THEN NARROW ELSE width - 1

NoRoom(log, word, wrap) == log.column + word.length >= wrap

PrintWord(log, word, wrap, first) ==
  LET wrapped == IF NoRoom(log, word, wrap) THEN Newline(log) ELSE log
  IN  Put(IF first \/ AtBOL(wrapped) THEN wrapped ELSE Space(wrapped), word)

PrintWrappedLines(log, words, width) ==
  LET wrap == WrapColumn(log, width)
  IN  FoldLeft(LAMBDA l, i : PrintWord(l, words[i], wrap, i = 1), log, [i \in DOMAIN words |-> i])

MoveToColumn(log, col) ==
  LET moved == IF log.column >= col THEN Newline(log) ELSE log
  IN  IF moved.column >= col THEN moved
      ELSE [moved EXCEPT !.column = IF Start(moved) + 1 > col THEN Start(moved) + 1 ELSE col]

EndOf(line) == FoldLeft(LAMBDA n, word : n + word.length, line.at + Len(line.words) - 1, line.words)

(* Every word is printed once, in order; and a line ends before the last   *)
(* column of the terminal, unless it has one word only that is too long    *)
(* with its indent, or the text began beyond the terminal.                 *)
WrapsRight(column, words, width) ==
  LET log == [column |-> column, lines |-> <<[at |-> IF column = 0 THEN INDENT ELSE column, words |-> <<>>]>>]
      lines == PrintWrappedLines(log, words, width).lines
  IN  /\ FlattenSeq([i \in DOMAIN lines |-> lines[i].words]) = words
      /\ \A i \in DOMAIN lines : Len(lines[i].words) > 1 => EndOf(lines[i]) <= WrapColumn(log, width)
      /\ \A i \in 2 .. Len(lines) : lines[i].words # <<>>

(* The text of an option begins at its column, on a new line if there is   *)
(* something in it already, as long as the indent is before that column.   *)
MovesRight(column, col) ==
  LET log == MoveToColumn([column |-> column, lines |-> <<[at |-> 0, words |-> <<>>]>>], col)
  IN  INDENT < col /\ col > 0 => log.column = col /\ (Len(log.lines) = 2 <=> column >= col)
=============================================================================
