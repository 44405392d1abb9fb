-------------------------------- MODULE Log --------------------------------
(***************************************************************************)
(* The logs of src/log.cpp.  A Log is used by one thread: it lays out what *)
(* it is given (prefix, indentation, the meaning of a tab at the start of  *)
(* a line) in a buffer of its own, and prints the buffer when a line ends  *)
(* or the buffer is full.  Logs of several threads share a LogPrinter,     *)
(* which is locked while it prints one buffer.                             *)
(*                                                                         *)
(* c is modelled with the characters it hands to RawChar in "todo"; f, v   *)
(* and s write character by character with c.  Left out: prefixes that     *)
(* change, and what a particular LogPrinter does with the text.            *)
(***************************************************************************)
EXTENDS Integers, Sequences, FiniteSets, SequencesExt

CONSTANTS
  Logs,                    (* the logs, each with a thread of its own      *)
  Printers,
  None,                    (* nullptr, and the holder of a free mutex      *)
  Prefix,                  (* m_prefix of each log, as a sequence          *)
  MAX_BUFFER_SIZE,
  MAX_INDENT_STACK_DEPTH,
  Deltas,                  (* the arguments of PushIndent                  *)
  MaxWritten,              (* bounds the model: the characters written     *)
  MaxIndents, MaxOther     (* bound the model: the calls about indents,    *)
                           (* and the others                               *)

Letter == "x"
Space == " "
Newline == "\n"
Return == "\r"
Tab == "\t"
Chars == {Letter, Newline, Return, Tab}

ASSUME SizeAssumption == MAX_BUFFER_SIZE \in Nat \ {0, 1} /\ MAX_INDENT_STACK_DEPTH \in Nat
ASSUME BoundAssumption == MaxWritten \in Nat /\ MaxIndents \in Nat /\ MaxOther \in Nat
ASSUME NoneAssumption == None \notin Logs \union Printers
ASSUME DeltasAssumption == \A delta \in Deltas : delta \in Int

VARIABLES
  enable_count, enabled,
  bol, column,             (* m_bol, m_column                              *)
  indent, indent_stack,    (* m_indent, m_indent_stack                     *)
  stack_depth,             (* m_indent_stack_depth, may exceed the stack   *)
  buffer,                  (* m_buffer up to m_buffer_size                 *)
  printer,                 (* m_printer                                    *)
  holder,                  (* the holder of the mutex of each printer      *)
  pc, todo,                (* the call in progress: the characters to come *)
  printed,                 (* how much of the buffer Print has printed     *)
  to,                      (* what SetLogPrinter will set                  *)
  text,                    (* history: everything that was printed         *)
  wrote,                   (* history: what was written, with the indents  *)
  before,                  (* history: m_indent before each push           *)
  asked,                   (* history: the lines that were flushed early   *)
  indents, calls           (* history: the number of calls of each kind    *)

enabling == <<enable_count, enabled>>
indenting == <<indent, indent_stack, stack_depth, before, indents>>
history == <<wrote, asked, calls>>
vars == <<enabling, bol, column, indenting, buffer, printer, holder, pc, todo, printed, to, text,
          history>>

Init ==
  /\ enable_count = [l \in Logs |-> 1]
  /\ enabled = [l \in Logs |-> TRUE]
  /\ bol = [l \in Logs |-> TRUE]
  /\ column = [l \in Logs |-> 0]
  /\ indent = [l \in Logs |-> 0]
  /\ indent_stack = [l \in Logs |-> [i \in 1..MAX_INDENT_STACK_DEPTH |-> 0]]
  /\ stack_depth = [l \in Logs |-> 0]
  /\ buffer = [l \in Logs |-> <<>>]
  /\ \E p \in Printers : printer = [l \in Logs |-> p]
  /\ holder = [p \in Printers |-> None]
  /\ pc = [l \in Logs |-> "idle"]
  /\ todo = [l \in Logs |-> <<>>]
  /\ printed = [l \in Logs |-> 0]
  /\ to = printer
  /\ text = <<>>
  /\ wrote = [l \in Logs |-> <<>>]
  /\ before = [l \in Logs |-> <<>>]
  /\ asked = {}
  /\ indents = 0
  /\ calls = 0

-----------------------------------------------------------------------------
Goto(l, from, step) == pc[l] = from /\ pc' = [pc EXCEPT ![l] = step]

(***************************************************************************)
(* The start of a call that is not about a character.                      *)
(***************************************************************************)
Call(l, step) ==
  /\ Goto(l, "idle", step)
  /\ calls < MaxOther
  /\ calls' = calls + 1

Indents(l) ==
  /\ Goto(l, "idle", "idle")
  /\ indents < MaxIndents
  /\ indents' = indents + 1

(***************************************************************************)
(* What l had printed, and how many lines of it have ended; entries of the *)
(* history have .log, .printer, .char.                                     *)
(***************************************************************************)
PrintedBy(l) ==
  FlattenSeq([i \in 1..Len(text) |-> IF text[i].log = l THEN <<text[i].char>> ELSE <<>>])

Line(l) == Cardinality({i \in 1..Len(text) : text[i].log = l /\ text[i].char = Newline})

-----------------------------------------------------------------------------
(***************************************************************************)
(* Log::c.  ColumnZero stands for the assignment between the prefix and    *)
(* the indentation.                                                        *)
(***************************************************************************)
ColumnZero == "m_column = 0"

(* A prefix is a text within a line.                                       *)
ASSUME PrefixAssumption ==
  \A l \in Logs : /\ Prefix[l] \in Seq(ToSet(Prefix[l]))
                  /\ ToSet(Prefix[l]) \intersect {Newline, Return, ColumnZero} = {}

Repeat(char, n) == [i \in 1..n |-> char]

StartOfLine(prefix, char) ==
  IF prefix = <<>> THEN <<>>
  ELSE IF char = Tab THEN Repeat(Space, Len(prefix) + 2) ELSE prefix \o <<":", Space>>

\* Mutant: a tab at the start of a line is printed.
LayoutWithTab(l, char) ==
  IF ~bol[l] THEN <<char>>
  ELSE StartOfLine(Prefix[l], char) \o <<ColumnZero>> \o Repeat(Space, indent[l]) \o <<char>>

Layout(l, char) ==
  IF ~bol[l] THEN <<char>>
  ELSE StartOfLine(Prefix[l], char) \o <<ColumnZero>> \o Repeat(Space, indent[l])
         \o (IF char = Tab THEN <<>> ELSE <<char>>)

c(l, char) ==
  /\ enabled[l]
  /\ FoldFunction(LAMBDA w, n : n + Len(w), 0, wrote) < MaxWritten
  /\ Goto(l, "idle", "writing")
  /\ todo' = [todo EXCEPT ![l] = Layout(l, char)]
  /\ bol' = [bol EXCEPT ![l] = char = Newline]
  /\ wrote' = [wrote EXCEPT ![l] = Append(@, [char |-> char, indent |-> indent[l]])]
  /\ UNCHANGED <<enabling, column, indenting, buffer, printer, holder, printed, to, text, asked,
                 calls>>

(***************************************************************************)
(* Log::EnsureBOL without text of its own.                                 *)
(***************************************************************************)
EnsureBOL(l) == ~bol[l] /\ c(l, Newline)

Onward(l) == IF Tail(todo[l]) = <<>> THEN "idle" ELSE "writing"

ZeroColumn(l) ==
  /\ todo[l] # <<>>
  /\ Head(todo[l]) = ColumnZero
  /\ Goto(l, "writing", Onward(l))
  /\ column' = [column EXCEPT ![l] = 0]
  /\ todo' = [todo EXCEPT ![l] = Tail(@)]
  /\ UNCHANGED <<enabling, bol, indenting, buffer, printer, holder, printed, to, text, history>>

(***************************************************************************)
(* Log::RawChar: the buffer is flushed when a line ends or it is full.     *)
(***************************************************************************)
IsFull(size) == size = MAX_BUFFER_SIZE - 1

EndsBuffer(char, size) == char = Newline \/ IsFull(size)

\* Mutant: a carriage return does not go back to the first column.
ColumnAfterLine(col, char) == IF char = Newline THEN 0 ELSE col + 1
ColumnAfter(col, char) == IF char \in {Newline, Return} THEN 0 ELSE col + 1

RawChar(l) ==
  /\ todo[l] # <<>>
  /\ LET char == Head(todo[l]) IN
     /\ char # ColumnZero
     /\ buffer' = [buffer EXCEPT ![l] = Append(@, char)]
     /\ Goto(l, "writing",
             IF EndsBuffer(char, Len(buffer[l]) + 1) THEN "flushing" ELSE Onward(l))
     /\ column' = [column EXCEPT ![l] = ColumnAfter(@, char)]
  /\ todo' = [todo EXCEPT ![l] = Tail(@)]
  /\ UNCHANGED <<enabling, bol, indenting, printer, holder, printed, to, text, history>>

-----------------------------------------------------------------------------
(***************************************************************************)
(* Log::Flush, of a buffer that is not empty: lock the printer, print,     *)
(* unlock.  Print passes the buffer on one character at a time.            *)
(***************************************************************************)
\* Mutant: the printer is not locked.
LockNothing(l) ==
  /\ Goto(l, "flushing", "printing")
  /\ UNCHANGED <<enabling, bol, column, indenting, buffer, printer, holder, todo, printed, to,
                 text, history>>

Lock(l) ==
  /\ Goto(l, "flushing", "printing")
  /\ holder[printer[l]] = None
  /\ holder' = [holder EXCEPT ![printer[l]] = l]
  /\ UNCHANGED <<enabling, bol, column, indenting, buffer, printer, todo, printed, to, text,
                 history>>

PrintChar(l) ==
  /\ pc[l] = "printing"
  /\ printed[l] < Len(buffer[l])
  /\ text' = Append(text, [log |-> l, printer |-> printer[l], char |-> buffer[l][printed[l] + 1]])
  /\ printed' = [printed EXCEPT ![l] = @ + 1]
  /\ UNCHANGED <<enabling, bol, column, indenting, buffer, printer, holder, pc, todo, to, history>>

Flushed(l) ==
  /\ printed[l] = Len(buffer[l])
  /\ Goto(l, "printing",
          IF todo[l] # <<>> THEN "writing" ELSE IF to[l] = None THEN "gone" ELSE "idle")
  /\ holder' = [holder EXCEPT ![printer[l]] = None]
  /\ buffer' = [buffer EXCEPT ![l] = <<>>]
  /\ printed' = [printed EXCEPT ![l] = 0]
  /\ printer' = [printer EXCEPT ![l] = to[l]]
  /\ UNCHANGED <<enabling, bol, column, indenting, todo, to, text, wrote, asked, calls>>

Flush(l) ==
  /\ buffer[l] # <<>>
  /\ Call(l, "flushing")
  /\ asked' = asked \union {<<l, Line(l)>>}
  /\ UNCHANGED <<enabling, bol, column, indenting, buffer, printer, holder, todo, printed, to,
                 text, wrote>>

(***************************************************************************)
(* Log::SetLogPrinter: what is in the buffer still goes to the old one.    *)
(* The destructor sets no printer.                                         *)
(***************************************************************************)
SetLogPrinter(l, p) ==
  /\ p # printer[l]
  /\ Call(l, IF buffer[l] # <<>> THEN "flushing" ELSE IF p = None THEN "gone" ELSE "idle")
  /\ to' = [to EXCEPT ![l] = p]
  /\ printer' = [printer EXCEPT ![l] = IF buffer[l] = <<>> THEN p ELSE @]
  /\ asked' = IF buffer[l] = <<>> THEN asked ELSE asked \union {<<l, Line(l)>>}
  /\ UNCHANGED <<enabling, bol, column, indenting, buffer, holder, todo, printed, text, wrote>>

-----------------------------------------------------------------------------
(***************************************************************************)
(* PushIndent, PopIndent: only the first pushes have a place in the stack, *)
(* all of them are counted.                                                *)
(***************************************************************************)
PushIndentInternal(l, new) ==
  /\ Indents(l)
  /\ IF stack_depth[l] < MAX_INDENT_STACK_DEPTH
       THEN /\ indent_stack' = [indent_stack EXCEPT ![l][stack_depth[l] + 1] = indent[l]]
            /\ indent' = [indent EXCEPT ![l] = new]
       ELSE UNCHANGED <<indent_stack, indent>>
  /\ stack_depth' = [stack_depth EXCEPT ![l] = @ + 1]
  /\ before' = [before EXCEPT ![l] = Append(@, indent[l])]
  /\ UNCHANGED <<enabling, bol, column, buffer, printer, holder, todo, printed, to, text,
                 history>>

PushIndent(l) ==
  \/ PushIndentInternal(l, column[l])
  \/ \E delta \in Deltas : PushIndentInternal(l, indent[l] + delta)

PopIndent(l) ==
  /\ Indents(l)
  /\ stack_depth[l] > 0
  /\ stack_depth' = [stack_depth EXCEPT ![l] = @ - 1]
  /\ indent' = IF stack_depth[l] <= MAX_INDENT_STACK_DEPTH
                 THEN [indent EXCEPT ![l] = indent_stack[l][stack_depth[l]]] ELSE indent
  /\ before' = [before EXCEPT ![l] = IF @ = <<>> THEN @ ELSE Front(@)]
  /\ UNCHANGED <<enabling, bol, column, indent_stack, buffer, printer, holder, todo, printed, to,
                 text, history>>

(***************************************************************************)
(* Enable, Disable, and the public member "enabled".                       *)
(***************************************************************************)
Count(l, n) ==
  /\ Call(l, "idle")
  /\ enable_count' = [enable_count EXCEPT ![l] = @ + n]
  /\ enabled' = [enabled EXCEPT ![l] = enable_count'[l] > 0]
  /\ UNCHANGED <<bol, column, indenting, buffer, printer, holder, todo, printed, to, text, wrote,
                 asked>>

Enable(l) == Count(l, 1)
Disable(l) == Count(l, -1)

-----------------------------------------------------------------------------
Write(l) ==
  \/ \E char \in Chars : c(l, char)
  \/ EnsureBOL(l) \/ ZeroColumn(l) \/ RawChar(l)
  \/ Lock(l) \/ PrintChar(l) \/ Flushed(l) \/ Flush(l)

Step(l) ==
  \/ Write(l)
  \/ \E p \in Printers \union {None} : SetLogPrinter(l, p)
  \/ PushIndent(l) \/ PopIndent(l)
  \/ Enable(l) \/ Disable(l)

(***************************************************************************)
(* No log has more to write.                                               *)
(***************************************************************************)
Finished == (\A l \in Logs : pc[l] \in {"idle", "gone"}) /\ UNCHANGED vars

Next == Finished \/ \E l \in Logs : Step(l)

Spec == Init /\ [][Next]_vars

-----------------------------------------------------------------------------
(* Every variable has its type; "ASSERT(m_buffer_size < MAX_BUFFER_SIZE)". *)
TypeOK ==
  /\ enable_count \in [Logs -> Int]
  /\ enabled \in [Logs -> BOOLEAN]
  /\ bol \in [Logs -> BOOLEAN]
  /\ column \in [Logs -> Nat]
  /\ indent \in [Logs -> Int]
  /\ indent_stack \in [Logs -> [1..MAX_INDENT_STACK_DEPTH -> Int]]
  /\ stack_depth \in [Logs -> Nat]
  /\ \A l \in Logs : /\ buffer[l] \in Seq(Chars \union {Space, ":"} \union ToSet(Prefix[l]))
                     /\ Len(buffer[l]) < MAX_BUFFER_SIZE
                     /\ printed[l] \in 0..Len(buffer[l])
  /\ printer \in [Logs -> Printers \union {None}]
  /\ to \in [Logs -> Printers \union {None}]
  /\ holder \in [Printers -> Logs \union {None}]
  /\ pc \in [Logs -> {"idle", "writing", "flushing", "printing", "gone"}]
  /\ indents \in 0..MaxIndents /\ calls \in 0..MaxOther

Idle(l) == pc[l] \in {"idle", "gone"}

(***************************************************************************)
(* The text of a log, in two ways: what it has handed on and still has,    *)
(* and what the characters it was given look like, laid out at once.       *)
(***************************************************************************)
Emitted(l) == PrintedBy(l) \o buffer[l]

StartsLine(w, i) == i = 1 \/ w[i - 1].char = Newline

LaidOutAt(l, w, i) ==
  (IF StartsLine(w, i) THEN StartOfLine(Prefix[l], w[i].char) \o Repeat(Space, w[i].indent) ELSE <<>>)
    \o (IF StartsLine(w, i) /\ w[i].char = Tab THEN <<>> ELSE <<w[i].char>>)

LaidOut(l) == FlattenSeq([i \in 1..Len(wrote[l]) |-> LaidOutAt(l, wrote[l], i)])

(* No character is lost, repeated or laid out in the wrong place, however  *)
(* a log is cut into buffers, flushed early, given another printer,        *)
(* disabled in the middle of a line, or destroyed; and the buffer never    *)
(* has more than fits.                                                     *)
TextIntact == TypeOK /\ \A l \in Logs : Idle(l) => Emitted(l) = LaidOut(l)

(***************************************************************************)
(* The line of its log that an entry of the text is in.                    *)
(***************************************************************************)
LineAt(i) ==
  <<text[i].log, Cardinality({j \in 1..(i - 1) : text[j].log = text[i].log /\ text[j].char = Newline})>>

LineOf(line) == {i \in 1..Len(text) : LineAt(i) = line}

(* "This will most likely be an entire line, prefix and all, but it might  *)
(* not be": a line that is shorter than the buffer and that nobody flushed *)
(* early comes out in one piece, with nothing between its characters on    *)
(* the printer that it shares with logs of other threads.                  *)
ShortLinesWhole ==
  \A i \in 1..Len(text) :
    LET mine == LineOf(LineAt(i)) IN
    LineAt(i) \notin asked /\ Cardinality(mine) < MAX_BUFFER_SIZE - 1
      => \A k \in i..Max(mine) : text[k].printer = text[i].printer => k \in mine

(* The column that PushIndent indents to is where the text is: as many     *)
(* characters as there are since the line began, the prefix not counted;   *)
(* and a log that says it is at the beginning of a line has printed        *)
(* everything it was given.                                                *)
ColumnIsWhereTextIs ==
  \A l \in Logs :
    LET out == Emitted(l)
        ends == {i \in 1..Len(out) : out[i] \in {Newline, Return}}
        last == IF ends = {} THEN 0 ELSE Max(ends)
        prefixed == last < Len(out) /\ (last = 0 \/ out[last] = Newline)
        prefix == IF prefixed THEN Len(StartOfLine(Prefix[l], Letter)) ELSE 0
    IN Idle(l) => /\ column[l] = Len(out) - last - prefix
                  /\ bol[l] => buffer[l] = <<>>
=============================================================================
