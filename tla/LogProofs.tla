------------------------------ MODULE LogProofs ------------------------------
(***************************************************************************)
(* Theorems of Log, for any logs, printers, prefixes and buffer size: text *)
(* comes out intact, the column is where the text is, and short lines come *)
(* out in one piece.                                                       *)
(*                                                                         *)
(* StateInv says where a call may be and what its buffer may be like, and  *)
(* LayInv how far the layout of the last character has come: what has been *)
(* shown and what is still owed is what the calls of c ask for.  LineInv   *)
(* follows the line that each log is in until it is printed.               *)
(***************************************************************************)
EXTENDS Log, DataLemmas, FiniteSetTheorems, SequenceTheorems, TLAPS

(***************************************************************************)
(* The types that TypeOK leaves to the histories, where a call is, and     *)
(* what its buffer may be like there: it has the end of a line only as     *)
(* its last character, and has room unless it is being flushed.            *)
(***************************************************************************)
Text(l) == Chars \union {Space, ":"} \union ToSet(Prefix[l])
Glyphs == UNION {Text(l) : l \in Logs}

TextTypes ==
  /\ buffer \in [Logs -> Seq(Glyphs)]
  /\ todo \in [Logs -> Seq(Glyphs \union {ColumnZero})]
  /\ \A l \in Logs : todo[l] \in Seq(Text(l) \union {ColumnZero})
  /\ printed \in [Logs -> Nat]
  /\ wrote \in [Logs -> Seq([char : Chars, indent : Int])]
  /\ text \in Seq([log : Logs, printer : Printers, char : Glyphs])

CallOK(l) ==
  /\ pc[l] \in {"idle", "gone"} => todo[l] = <<>>
  /\ pc[l] = "writing" => todo[l] # <<>>
  /\ pc[l] \in {"flushing", "printing"} => buffer[l] # <<>>
  /\ pc[l] # "printing" => printed[l] = 0
  /\ pc[l] \notin {"flushing", "printing"} => to[l] = printer[l]
  /\ pc[l] = "gone" => buffer[l] = <<>>
  /\ printer[l] = None => pc[l] = "gone"
  /\ to[l] = None => todo[l] = <<>>
  /\ pc[l] = "printing" => holder[printer[l]] = l

BufferOK(l) ==
  /\ \A i \in 1..Len(buffer[l]) :
       buffer[l][i] = Newline => i = Len(buffer[l]) /\ pc[l] \in {"flushing", "printing"}
  /\ pc[l] \in {"idle", "writing"} => Len(buffer[l]) < MAX_BUFFER_SIZE - 1

StateInv == TypeOK /\ TextTypes /\ \A l \in Logs : CallOK(l) /\ BufferOK(l)

(***************************************************************************)
(* What c does.                                                            *)
(***************************************************************************)
LEMMA CEffect ==
  ASSUME NEW l, NEW char, c(l, char)
  PROVE  /\ pc[l] = "idle" /\ pc' = [pc EXCEPT ![l] = "writing"]
         /\ todo' = [todo EXCEPT ![l] = Layout(l, char)]
         /\ bol' = [bol EXCEPT ![l] = char = Newline]
         /\ wrote' = [wrote EXCEPT ![l] = Append(@, [char |-> char, indent |-> indent[l]])]
         /\ UNCHANGED <<enabling, column, indenting, buffer, printer, holder, printed, to, text,
                        asked, calls>>
BY Zenon DEF c, Goto

(***************************************************************************)
(* A step of one log leaves the others alone, but for what it appends to   *)
(* the text.                                                               *)
(***************************************************************************)
LEMMA OthersStay ==
  ASSUME StateInv, NEW l \in Logs, Step(l), NEW m \in Logs, m # l
  PROVE  /\ pc'[m] = pc[m] /\ todo'[m] = todo[m] /\ buffer'[m] = buffer[m]
         /\ printed'[m] = printed[m] /\ to'[m] = to[m] /\ printer'[m] = printer[m]
         /\ bol'[m] = bol[m] /\ column'[m] = column[m] /\ wrote'[m] = wrote[m]
<1>1. ASSUME NEW char, c(l, char)
      PROVE /\ pc'[m] = pc[m] /\ todo'[m] = todo[m] /\ buffer'[m] = buffer[m]
            /\ printed'[m] = printed[m] /\ to'[m] = to[m] /\ printer'[m] = printer[m]
            /\ bol'[m] = bol[m] /\ column'[m] = column[m] /\ wrote'[m] = wrote[m]
  <2>1. /\ pc' = [pc EXCEPT ![l] = "writing"]
        /\ todo' = [todo EXCEPT ![l] = Layout(l, char)]
        /\ bol' = [bol EXCEPT ![l] = char = Newline]
        /\ wrote' = [wrote EXCEPT ![l] = Append(@, [char |-> char, indent |-> indent[l]])]
        /\ UNCHANGED <<buffer, printed, to, printer, column>>
    BY <1>1, CEffect
  <2>2. QED
    BY <2>1 DEF StateInv, TypeOK, TextTypes
<1>2. CASE \E char \in Chars : c(l, char)
  BY <1>1, <1>2
<1>3. CASE EnsureBOL(l)
  BY <1>1, <1>3 DEF EnsureBOL
<1>4. CASE ZeroColumn(l) \/ RawChar(l) \/ Lock(l) \/ PrintChar(l) \/ Flushed(l) \/ Flush(l)
  BY <1>4 DEF ZeroColumn, RawChar, Lock, PrintChar, Flushed, Flush, Call, Goto, StateInv, TypeOK,
     TextTypes, history
<1>5. CASE \E p \in Printers \union {None} : SetLogPrinter(l, p)
  BY <1>5 DEF SetLogPrinter, Call, Goto, StateInv, TypeOK, TextTypes
<1>6. CASE PushIndent(l) \/ PopIndent(l)
  BY <1>6 DEF PushIndent, PushIndentInternal, PopIndent, Indents, Goto, StateInv, TypeOK, TextTypes,
     history
<1>7. CASE Enable(l) \/ Disable(l)
  BY <1>7 DEF Enable, Disable, Count, Call, Goto, StateInv, TypeOK, TextTypes
<1>8. QED
  BY <1>2, <1>3, <1>4, <1>5, <1>6, <1>7 DEF Step, Write

(***************************************************************************)
(* Who prints has the printer, and nobody else prints to it meanwhile.     *)
(***************************************************************************)
LEMMA OnePrints ==
  ASSUME StateInv, NEW l \in Logs, pc[l] = "printing", NEW m \in Logs, pc[m] = "printing",
         printer[l] = printer[m]
  PROVE  l = m
BY DEF StateInv, CallOK

LEMMA HolderStays ==
  ASSUME StateInv, NEW l \in Logs, Step(l), NEW m \in Logs, m # l, pc[m] = "printing"
  PROVE  holder'[printer[m]] = m
<1>1. holder[printer[m]] = m /\ printer[m] \in Printers
  BY DEF StateInv, TypeOK, CallOK
<1>2. CASE Lock(l)
  BY <1>1, <1>2, NoneAssumption DEF Lock, StateInv, TypeOK
<1>3. CASE Flushed(l)
  <2>1. printer[l] # printer[m]
    BY <1>3, OnePrints DEF Flushed, Goto
  <2>2. QED
    BY <1>1, <1>3, <2>1 DEF Flushed, StateInv, TypeOK
<1>4. ASSUME ~Lock(l), ~Flushed(l) PROVE holder' = holder
  <2>1. \A char : c(l, char) => holder' = holder
    BY DEF c
  <2>2. QED
    BY <1>4, <2>1 DEF Step, Write, EnsureBOL, ZeroColumn, RawChar, PrintChar, Flush, SetLogPrinter,
       PushIndent, PushIndentInternal, PopIndent, Enable, Disable, Count
<1>5. QED
  BY <1>1, <1>2, <1>3, <1>4

LEMMA OthersCall ==
  ASSUME StateInv, NEW l \in Logs, Step(l), NEW m \in Logs, m # l
  PROVE  CallOK(m)' /\ BufferOK(m)'
<1>1. pc'[m] = pc[m] /\ todo'[m] = todo[m] /\ buffer'[m] = buffer[m] /\ printed'[m] = printed[m]
      /\ to'[m] = to[m] /\ printer'[m] = printer[m]
  BY OthersStay
<1>2. pc[m] = "printing" => holder'[printer[m]] = m
  BY HolderStays
<1>3. CallOK(m) /\ BufferOK(m)
  BY DEF StateInv
<1>4. CallOK(m)'
  BY <1>1, <1>2, <1>3 DEF CallOK
<1>5. BufferOK(m)'
  BY <1>1, <1>3 DEF BufferOK
<1>6. QED
  BY <1>4, <1>5

-----------------------------------------------------------------------------
(***************************************************************************)
(* What a character is laid out as.  The margin of a line has no end of a  *)
(* line in it, and is as long for a tab as for another character.          *)
(***************************************************************************)
Inside(l) == {Space, ":"} \union ToSet(Prefix[l])
Margin(l, char) == StartOfLine(Prefix[l], char)
PrefixLength(l) == IF Prefix[l] = <<>> THEN 0 ELSE Len(Prefix[l]) + 2
Body(n, char) == Repeat(Space, n) \o (IF char = Tab THEN <<>> ELSE <<char>>)

LEMMA Sets ==
  ASSUME NEW l \in Logs
  PROVE  /\ Inside(l) \subseteq Text(l) /\ Text(l) \subseteq Glyphs /\ Chars \subseteq Text(l)
         /\ ColumnZero \notin Text(l) /\ ColumnZero \notin Glyphs
         /\ Inside(l) \intersect {Newline, Return} = {}
<1>1. \A m \in Logs : ToSet(Prefix[m]) \intersect {Newline, Return, ColumnZero} = {}
  BY PrefixAssumption
<1>2. \A m \in Logs : ColumnZero \notin Text(m)
  BY <1>1 DEF Text, Chars, Letter, Newline, Return, Tab, Space, ColumnZero
<1>3. Inside(l) \intersect {Newline, Return} = {}
  BY <1>1 DEF Inside, Newline, Return, Space
<1>4. Inside(l) \subseteq Text(l) /\ Chars \subseteq Text(l)
  BY DEF Inside, Text
<1>5. Text(l) \subseteq Glyphs
  BY DEF Glyphs
<1>6. ColumnZero \notin Glyphs
  BY <1>2 DEF Glyphs
<1>7. QED
  BY <1>2, <1>3, <1>4, <1>5, <1>6

LEMMA OneSeq ==
  ASSUME NEW S, NEW x \in S
  PROVE  <<x>> \in Seq(S) /\ Len(<<x>>) = 1 /\ <<x>>[1] = x /\ <<x>> # <<>>
OBVIOUS

LEMMA RepeatType ==
  ASSUME NEW S, NEW x \in S, NEW n \in Int
  PROVE  Repeat(x, n) \in Seq(S) /\ Len(Repeat(x, n)) = IF n > 0 THEN n ELSE 0
<1>1. CASE n > 0
  BY <1>1 DEF Repeat
<1>2. CASE n <= 0
  <2>1. 1..n = 1..0
    BY <1>2
  <2>2. Repeat(x, n) = [i \in 1..0 |-> x]
    BY <2>1 DEF Repeat
  <2>3. QED
    BY <1>2, <2>2
<1>3. QED
  BY <1>1, <1>2

LEMMA MarginType ==
  ASSUME NEW l \in Logs, NEW char
  PROVE  /\ Margin(l, char) \in Seq(Inside(l))
         /\ Len(Margin(l, char)) = PrefixLength(l)
         /\ PrefixLength(l) \in Nat
<1>1. Prefix[l] \in Seq(Inside(l)) /\ Len(Prefix[l]) \in Nat
  BY PrefixAssumption, SeqMonotonic DEF Inside
<1>2. Space \in Inside(l) /\ ":" \in Inside(l)
  BY DEF Inside
<1>3. <<":", Space>> \in Seq(Inside(l)) /\ Len(<<":", Space>>) = 2
  BY <1>2
<1>4. CASE Prefix[l] = <<>>
  BY <1>1, <1>4, EmptySeq DEF Margin, StartOfLine, PrefixLength
<1>5. CASE Prefix[l] # <<>> /\ char = Tab
  <2>1. Margin(l, char) = Repeat(Space, Len(Prefix[l]) + 2)
    BY <1>5 DEF Margin, StartOfLine
  <2>2. Len(Prefix[l]) + 2 \in Int /\ Len(Prefix[l]) + 2 > 0
    BY <1>1
  <2>3. QED
    BY <1>2, <1>5, <2>1, <2>2, RepeatType DEF PrefixLength
<1>6. CASE Prefix[l] # <<>> /\ char # Tab
  BY <1>1, <1>3, <1>6, ConcatProperties DEF Margin, StartOfLine, PrefixLength
<1>7. QED
  BY <1>4, <1>5, <1>6

LEMMA PrefixLengthType == \A l \in Logs : PrefixLength(l) \in Nat
BY MarginType

LEMMA BodyType ==
  ASSUME NEW l \in Logs, NEW n \in Int, NEW char \in Chars
  PROVE  LET b == Body(n, char) IN
         /\ b \in Seq(Text(l))
         /\ \A i \in 1..(Len(b) - 1) : b[i] \notin {Newline, Return}
         /\ b # <<>> => b[Len(b)] = IF char = Tab THEN Space ELSE char
         /\ b = <<>> => char = Tab
<1> DEFINE r == Repeat(Space, n)
           b == Body(n, char)
<1>1. Space \in Inside(l) /\ Space \in Text(l) /\ char \in Text(l)
  BY Sets DEF Inside, Text
<1>2. r \in Seq(Text(l)) /\ Len(r) \in Nat /\ \A i \in 1..Len(r) : r[i] = Space
  <2>1. r \in Seq({Space}) /\ r \in Seq(Text(l))
    BY <1>1, RepeatType
  <2>2. QED
    BY <2>1, ElementOfSeq
<1>3. Space \notin {Newline, Return}
  BY DEF Space, Newline, Return
<1>4. CASE char = Tab
  <2>1. b = r
    BY <1>2, <1>4, ConcatEmptySeq DEF Body
  <2>2. b # <<>> => Len(b) \in 1..Len(b)
    BY <1>2, <2>1, EmptySeq
  <2>3. QED
    BY <1>2, <1>3, <1>4, <2>1, <2>2
<1>5. CASE char # Tab
  <2>1. b = r \o <<char>> /\ <<char>> \in Seq(Text(l)) /\ Len(<<char>>) = 1
    BY <1>1, <1>5 DEF Body
  <2>2. /\ b \in Seq(Text(l)) /\ Len(b) = Len(r) + 1
        /\ \A i \in 1..(Len(r) + 1) : b[i] = IF i <= Len(r) THEN r[i] ELSE <<char>>[i - Len(r)]
    BY <1>2, <2>1, ConcatProperties
  <2>3. b[Len(r) + 1] = char
    BY <1>2, <2>2
  <2>4. b # <<>>
    BY <1>2, <2>2, EmptySeq
  <2> HIDE DEF r, b
  <2>5. QED
    BY <1>2, <1>3, <1>5, <2>2, <2>3, <2>4 DEF b
<1>6. QED
  BY <1>4, <1>5

LEMMA LayoutIs ==
  ASSUME NEW l \in Logs, indent[l] \in Int, NEW char \in Chars
  PROVE  /\ bol[l] => Layout(l, char) = Margin(l, char) \o <<ColumnZero>> \o Body(indent[l], char)
         /\ ~bol[l] => Layout(l, char) = <<char>>
         /\ Layout(l, char) \in Seq(Text(l) \union {ColumnZero})
         /\ Layout(l, char) # <<>>
<1> DEFINE S == Text(l) \union {ColumnZero}
           r == Repeat(Space, indent[l])
           t == IF char = Tab THEN <<>> ELSE <<char>>
           a == Margin(l, char) \o <<ColumnZero>>
<1>1. Inside(l) \subseteq S /\ Text(l) \subseteq S /\ char \in S /\ Space \in S /\ ColumnZero \in S
  BY Sets DEF Text
<1>2. Margin(l, char) \in Seq(S) /\ <<ColumnZero>> \in Seq(S) /\ r \in Seq(S) /\ t \in Seq(S)
      /\ <<char>> \in Seq(S)
  <2>1. Margin(l, char) \in Seq(S)
    BY <1>1, MarginType, SeqMonotonic
  <2>2. r \in Seq(S)
    BY <1>1, RepeatType
  <2>3. <<ColumnZero>> \in Seq(S) /\ <<char>> \in Seq(S) /\ <<>> \in Seq(S)
    BY <1>1, OneSeq, EmptySeq
  <2>4. QED
    BY <2>1, <2>2, <2>3
<1>3. a \in Seq(S) /\ Len(a) > 0
  BY <1>2, ConcatProperties
<1>4. (a \o r) \o t = a \o (r \o t) /\ r \o t \in Seq(S)
  <2> HIDE DEF a, r, t, S
  <2>1. (a \o r) \o t = a \o (r \o t)
    BY <1>2, <1>3, ConcatAssociative, SMTT(30)
  <2>2. r \o t \in Seq(S)
    BY <1>2, ConcatProperties
  <2>3. QED
    BY <2>1, <2>2
<1>5. ASSUME bol[l]
      PROVE  Layout(l, char) = a \o (r \o t) /\ Layout(l, char) \in Seq(S) /\ Layout(l, char) # <<>>
  <2>1. Layout(l, char) = a \o (r \o t)
    BY <1>4, <1>5 DEF Layout, Margin
  <2>2. a \o (r \o t) \in Seq(S) /\ Len(a \o (r \o t)) > 0
    BY <1>3, <1>4, ConcatProperties
  <2>3. QED
    BY <2>1, <2>2, EmptySeq
<1>6. ~bol[l] => Layout(l, char) = <<char>>
  BY DEF Layout
<1>7. Body(indent[l], char) = r \o t
  BY DEF Body
<1> HIDE DEF a, r, t
<1>8. bol[l] => Layout(l, char) = a \o Body(indent[l], char)
  BY <1>5, <1>7
<1>9. Layout(l, char) \in Seq(S) /\ Layout(l, char) # <<>>
  <2>1. CASE bol[l]
    BY <1>5, <2>1
  <2>2. CASE ~bol[l]
    BY <1>1, <1>6, <2>2, OneSeq
  <2>3. QED
    BY <2>1, <2>2
<1>10. QED
  BY <1>6, <1>8, <1>9, Zenon DEF a

-----------------------------------------------------------------------------
(***************************************************************************)
(* What each action does to the log that it is of.                         *)
(***************************************************************************)
OwnOK(l) == CallOK(l)' /\ BufferOK(l)' /\ TypeOK' /\ TextTypes'

LEMMA CStep ==
  ASSUME StateInv, NEW l \in Logs, NEW char \in Chars, c(l, char)
  PROVE  OwnOK(l)
<1>1. /\ pc[l] = "idle" /\ pc' = [pc EXCEPT ![l] = "writing"]
      /\ todo' = [todo EXCEPT ![l] = Layout(l, char)]
      /\ bol' = [bol EXCEPT ![l] = char = Newline]
      /\ wrote' = [wrote EXCEPT ![l] = Append(@, [char |-> char, indent |-> indent[l]])]
      /\ UNCHANGED <<enable_count, enabled, column, indent, indent_stack, stack_depth, indents,
                     buffer, printer, holder, printed, to, text, calls>>
  BY CEffect DEF enabling, indenting
<1>2. Layout(l, char) \in Seq(Text(l) \union {ColumnZero}) /\ Layout(l, char) # <<>>
  BY LayoutIs DEF StateInv, TypeOK
<1>3. Layout(l, char) \in Seq(Glyphs \union {ColumnZero})
  BY <1>2, Sets, SeqMonotonic
<1>4. TypeOK'
  BY <1>1 DEF StateInv, TypeOK
<1>5. TextTypes'
  <2>1. [char |-> char, indent |-> indent[l]] \in [char : Chars, indent : Int]
    BY DEF StateInv, TypeOK
  <2>2. wrote' \in [Logs -> Seq([char : Chars, indent : Int])]
    <3>1. wrote[l] \in Seq([char : Chars, indent : Int]) /\ wrote \in [Logs -> Seq([char : Chars, indent : Int])]
      BY DEF StateInv, TextTypes
    <3>2. Append(wrote[l], [char |-> char, indent |-> indent[l]]) \in Seq([char : Chars, indent : Int])
      BY <2>1, <3>1, AppendProperties
    <3>3. QED
      BY <1>1, <3>1, <3>2
  <2>3. QED
    BY <1>1, <1>2, <1>3, <2>2 DEF StateInv, TextTypes
<1>6. pc'[l] = "writing" /\ todo'[l] = Layout(l, char)
  BY <1>1 DEF StateInv, TypeOK, TextTypes
<1>7. CallOK(l)'
  <2>1. printer[l] # None /\ to[l] = printer[l] /\ printed[l] = 0
    BY <1>1 DEF StateInv, CallOK
  <2>2. QED
    BY <1>1, <1>2, <1>6, <2>1 DEF CallOK
<1>8. BufferOK(l)'
  BY <1>1, <1>6 DEF StateInv, BufferOK
<1>9. QED
  BY <1>4, <1>5, <1>7, <1>8 DEF OwnOK

LEMMA ZeroColumnStep ==
  ASSUME StateInv, NEW l \in Logs, ZeroColumn(l)
  PROVE  OwnOK(l)
<1>1. /\ pc[l] = "writing" /\ pc' = [pc EXCEPT ![l] = Onward(l)] /\ todo[l] # <<>>
      /\ column' = [column EXCEPT ![l] = 0] /\ todo' = [todo EXCEPT ![l] = Tail(@)]
      /\ UNCHANGED <<enable_count, enabled, bol, indent, indent_stack, stack_depth, indents,
                     buffer, printer, holder, printed, to, text, wrote, calls>>
  BY DEF ZeroColumn, Goto, enabling, indenting, history
<1>2. Tail(todo[l]) \in Seq(Text(l) \union {ColumnZero})
      /\ Tail(todo[l]) \in Seq(Glyphs \union {ColumnZero})
  BY <1>1, HeadTailProperties DEF StateInv, TextTypes
<1>3. TypeOK'
  BY <1>1 DEF StateInv, TypeOK, Onward
<1>4. TextTypes'
  BY <1>1, <1>2 DEF StateInv, TextTypes
<1>5. pc'[l] = Onward(l) /\ todo'[l] = Tail(todo[l])
  BY <1>1 DEF StateInv, TypeOK, TextTypes
<1>6. CallOK(l)'
  <2>1. /\ to[l] # None /\ printer[l] # None /\ to[l] = printer[l] /\ printed[l] = 0
    BY <1>1 DEF StateInv, CallOK
  <2>2. CASE Tail(todo[l]) = <<>>
    <3>1. pc'[l] = "idle" /\ todo'[l] = <<>>
      BY <1>5, <2>2, Zenon DEF Onward
    <3>2. QED
      BY <1>1, <2>1, <3>1 DEF CallOK
  <2>3. CASE Tail(todo[l]) # <<>>
    BY <1>1, <1>5, <2>1, <2>3 DEF CallOK, Onward
  <2>4. QED
    BY <2>2, <2>3
<1>7. BufferOK(l)'
  BY <1>1, <1>5 DEF StateInv, BufferOK, Onward
<1>8. QED
  BY <1>3, <1>4, <1>6, <1>7 DEF OwnOK

LEMMA RawCharStep ==
  ASSUME StateInv, NEW l \in Logs, RawChar(l)
  PROVE  OwnOK(l)
<1> DEFINE char == Head(todo[l])
           end == EndsBuffer(char, Len(buffer[l]) + 1)
           new == Append(buffer[l], char)
<1>1. /\ pc[l] = "writing" /\ todo[l] # <<>> /\ char # ColumnZero
      /\ pc' = [pc EXCEPT ![l] = IF end THEN "flushing" ELSE Onward(l)]
      /\ buffer' = [buffer EXCEPT ![l] = new]
      /\ column' = [column EXCEPT ![l] = ColumnAfter(@, char)]
      /\ todo' = [todo EXCEPT ![l] = Tail(@)]
      /\ UNCHANGED <<enable_count, enabled, bol, indent, indent_stack, stack_depth, indents,
                     printer, holder, printed, to, text, wrote, calls>>
  BY DEF RawChar, Goto, enabling, indenting, history
<1>2. /\ Tail(todo[l]) \in Seq(Text(l) \union {ColumnZero})
      /\ Tail(todo[l]) \in Seq(Glyphs \union {ColumnZero})
      /\ char \in Text(l) /\ char \in Glyphs
  BY <1>1, HeadTailProperties, Sets DEF StateInv, TextTypes
<1>3. /\ buffer[l] \in Seq(Text(l)) /\ buffer[l] \in Seq(Glyphs) /\ Len(buffer[l]) \in Nat
      /\ Len(buffer[l]) < MAX_BUFFER_SIZE - 1
      /\ \A i \in 1..Len(buffer[l]) : buffer[l][i] # Newline
  <2>1. buffer[l] \in Seq(Text(l)) /\ buffer[l] \in Seq(Glyphs) /\ Len(buffer[l]) \in Nat
    BY DEF StateInv, TypeOK, TextTypes, Text
  <2>2. BufferOK(l)
    BY DEF StateInv
  <2>3. QED
    BY <1>1, <2>1, <2>2 DEF BufferOK
<1>4. /\ new \in Seq(Text(l)) /\ new \in Seq(Glyphs) /\ Len(new) = Len(buffer[l]) + 1
      /\ new # <<>> /\ new[Len(new)] = char
      /\ \A i \in 1..Len(buffer[l]) : new[i] # Newline
  BY <1>2, <1>3, AppendProperties
<1>5. ColumnAfter(column[l], char) \in Nat /\ MAX_BUFFER_SIZE \in Nat
  BY SizeAssumption DEF ColumnAfter, StateInv, TypeOK
<1> HIDE DEF char, end, new
<1>6. pc'[l] = (IF end THEN "flushing" ELSE Onward(l)) /\ todo'[l] = Tail(todo[l]) /\ buffer'[l] = new
  BY <1>1 DEF StateInv, TypeOK, TextTypes
<1>7. TypeOK'
  <2>1. /\ pc' \in [Logs -> {"idle", "writing", "flushing", "printing", "gone"}]
        /\ column' \in [Logs -> Nat]
    BY <1>1, <1>5 DEF StateInv, TypeOK, Onward
  <2>2. ASSUME NEW m \in Logs
        PROVE  /\ buffer'[m] \in Seq(Chars \union {Space, ":"} \union ToSet(Prefix[m]))
               /\ Len(buffer'[m]) < MAX_BUFFER_SIZE
               /\ printed'[m] \in 0..Len(buffer'[m])
    <3>1. CASE m = l
      <4>1. printed[l] = 0
        BY <1>1 DEF StateInv, CallOK
      <4>2. QED
        BY <1>1, <1>3, <1>4, <1>5, <1>6, <3>1, <4>1 DEF Text
    <3>2. CASE m # l
      BY <1>1, <3>2 DEF StateInv, TypeOK, TextTypes
    <3>3. QED
      BY <3>1, <3>2
  <2>3. QED
    BY <1>1, <2>1, <2>2 DEF StateInv, TypeOK
<1>8. TextTypes'
  BY <1>1, <1>2, <1>4 DEF StateInv, TextTypes
<1>9. CallOK(l)'
  <2>1. /\ to[l] # None /\ printer[l] # None /\ to[l] = printer[l] /\ printed[l] = 0
    BY <1>1 DEF StateInv, CallOK
  <2>2. CASE Tail(todo[l]) = <<>>
    <3>1. pc'[l] = (IF end THEN "flushing" ELSE "idle") /\ todo'[l] = <<>>
      BY <1>6, <2>2, Zenon DEF Onward
    <3>2. QED
      BY <1>1, <1>4, <1>6, <2>1, <3>1 DEF CallOK
  <2>3. CASE Tail(todo[l]) # <<>>
    BY <1>1, <1>4, <1>6, <2>1, <2>3 DEF CallOK, Onward
  <2>4. QED
    BY <2>2, <2>3
<1>10. BufferOK(l)'
  <2>1. \A i \in 1..Len(new) : new[i] = Newline => i = Len(new) /\ char = Newline
    BY <1>3, <1>4
  <2>2. char = Newline => end
    BY DEF end, EndsBuffer
  <2>3. ~end => Len(new) < MAX_BUFFER_SIZE - 1
    BY <1>3, <1>4, <1>5 DEF end, EndsBuffer, IsFull
  <2>4. Onward(l) \in {"idle", "writing"}
    BY DEF Onward
  <2>5. QED
    BY <1>6, <2>1, <2>2, <2>3, <2>4 DEF BufferOK
<1>11. QED
  BY <1>7, <1>8, <1>9, <1>10 DEF OwnOK

LEMMA LockStep ==
  ASSUME StateInv, NEW l \in Logs, Lock(l)
  PROVE  OwnOK(l)
<1>1. /\ pc[l] = "flushing" /\ pc' = [pc EXCEPT ![l] = "printing"]
      /\ holder[printer[l]] = None /\ holder' = [holder EXCEPT ![printer[l]] = l]
      /\ UNCHANGED <<enable_count, enabled, bol, column, indent, indent_stack, stack_depth, indents,
                     buffer, printer, todo, printed, to, text, wrote, calls>>
  BY DEF Lock, Goto, enabling, indenting, history
<1>2. printer[l] \in Printers
  BY <1>1 DEF StateInv, TypeOK, CallOK
<1>3. TypeOK'
  BY <1>1 DEF StateInv, TypeOK
<1>4. TextTypes'
  BY <1>1 DEF StateInv, TextTypes
<1>5. pc'[l] = "printing" /\ holder'[printer[l]] = l
  BY <1>1, <1>2 DEF StateInv, TypeOK
<1>6. CallOK(l)'
  BY <1>1, <1>5 DEF StateInv, CallOK
<1>7. BufferOK(l)'
  BY <1>1, <1>5 DEF StateInv, BufferOK
<1>8. QED
  BY <1>3, <1>4, <1>6, <1>7 DEF OwnOK

LEMMA PrintCharStep ==
  ASSUME StateInv, NEW l \in Logs, PrintChar(l)
  PROVE  OwnOK(l)
<1> DEFINE entry == [log |-> l, printer |-> printer[l], char |-> buffer[l][printed[l] + 1]]
<1>1. /\ pc[l] = "printing" /\ printed[l] < Len(buffer[l])
      /\ text' = Append(text, entry) /\ printed' = [printed EXCEPT ![l] = @ + 1]
      /\ UNCHANGED <<enable_count, enabled, bol, column, indent, indent_stack, stack_depth, indents,
                     buffer, printer, holder, pc, todo, to, wrote, calls>>
  BY DEF PrintChar, enabling, indenting, history
<1>2. /\ buffer[l] \in Seq(Glyphs) /\ printed[l] \in Nat /\ Len(buffer[l]) \in Nat
      /\ printer[l] \in Printers
  BY <1>1 DEF StateInv, TypeOK, TextTypes, CallOK
<1>3. printed[l] + 1 \in 1..Len(buffer[l])
  BY <1>1, <1>2
<1>4. buffer[l][printed[l] + 1] \in Glyphs
  BY <1>2, <1>3, ElementOfSeq
<1>5. TypeOK'
  <2>1. ASSUME NEW m \in Logs
        PROVE  /\ buffer'[m] \in Seq(Chars \union {Space, ":"} \union ToSet(Prefix[m]))
               /\ Len(buffer'[m]) < MAX_BUFFER_SIZE
               /\ printed'[m] \in 0..Len(buffer'[m])
    <3>1. /\ buffer[m] \in Seq(Chars \union {Space, ":"} \union ToSet(Prefix[m]))
          /\ Len(buffer[m]) < MAX_BUFFER_SIZE
          /\ printed[m] \in 0..Len(buffer[m])
      BY DEF StateInv, TypeOK
    <3>2. printed' = [printed EXCEPT ![l] = @ + 1] /\ buffer' = buffer /\ printed \in [Logs -> Nat]
      BY <1>1 DEF StateInv, TextTypes
    <3>3. QED
      BY <1>2, <1>3, <3>1, <3>2
  <2>2. QED
    BY <1>1, <2>1 DEF StateInv, TypeOK
<1>6. TextTypes'
  <2>1. entry \in [log : Logs, printer : Printers, char : Glyphs]
    BY <1>2, <1>4
  <2>2. text' \in Seq([log : Logs, printer : Printers, char : Glyphs])
    BY <1>1, <2>1, AppendProperties DEF StateInv, TextTypes
  <2>3. printed' \in [Logs -> Nat]
    <3>1. printed \in [Logs -> Nat] /\ printed' = [printed EXCEPT ![l] = printed[l] + 1]
      BY <1>1 DEF StateInv, TextTypes
    <3>2. QED
      BY <1>2, <3>1
  <2>4. QED
    BY <1>1, <2>2, <2>3 DEF StateInv, TextTypes
<1>7. CallOK(l)'
  BY <1>1 DEF StateInv, CallOK
<1>8. BufferOK(l)'
  BY <1>1 DEF StateInv, BufferOK
<1>9. QED
  BY <1>5, <1>6, <1>7, <1>8 DEF OwnOK

LEMMA FlushedStep ==
  ASSUME StateInv, NEW l \in Logs, Flushed(l)
  PROVE  OwnOK(l)
<1> DEFINE next == IF todo[l] # <<>> THEN "writing" ELSE IF to[l] = None THEN "gone" ELSE "idle"
<1>1. /\ pc[l] = "printing" /\ pc' = [pc EXCEPT ![l] = next]
      /\ holder' = [holder EXCEPT ![printer[l]] = None]
      /\ buffer' = [buffer EXCEPT ![l] = <<>>] /\ printed' = [printed EXCEPT ![l] = 0]
      /\ printer' = [printer EXCEPT ![l] = to[l]]
      /\ UNCHANGED <<enable_count, enabled, bol, column, indent, indent_stack, stack_depth, indents,
                     todo, to, text, wrote, calls>>
  BY DEF Flushed, Goto, enabling, indenting
<1>2. next \in {"idle", "writing", "gone"}
  OBVIOUS
<1>3. TypeOK'
  <2>1. ASSUME NEW m \in Logs
        PROVE  /\ buffer'[m] \in Seq(Chars \union {Space, ":"} \union ToSet(Prefix[m]))
               /\ Len(buffer'[m]) < MAX_BUFFER_SIZE
               /\ printed'[m] \in 0..Len(buffer'[m])
    <3>1. CASE m = l
      <4>1. buffer'[m] = <<>> /\ printed'[m] = 0
        BY <1>1, <3>1 DEF StateInv, TextTypes
      <4>2. QED
        BY <4>1, EmptySeq, SizeAssumption
    <3>2. CASE m # l
      BY <1>1, <3>2 DEF StateInv, TypeOK, TextTypes
    <3>3. QED
      BY <3>1, <3>2
  <2>2. QED
    BY <1>1, <2>1 DEF StateInv, TypeOK
<1>4. TextTypes'
  <2>1. <<>> \in Seq(Glyphs)
    BY EmptySeq
  <2>2. buffer' \in [Logs -> Seq(Glyphs)]
    BY <1>1, <2>1 DEF StateInv, TextTypes
  <2>3. QED
    BY <1>1, <2>2 DEF StateInv, TextTypes
<1> HIDE DEF next
<1>5. pc'[l] = next /\ buffer'[l] = <<>> /\ printed'[l] = 0 /\ printer'[l] = to[l] /\ to'[l] = to[l]
      /\ todo'[l] = todo[l]
  BY <1>1 DEF StateInv, TypeOK, TextTypes
<1>6. CallOK(l)'
  <2>1. CASE todo[l] # <<>>
    <3>1. next = "writing" /\ to[l] # None
      BY <2>1 DEF next, StateInv, CallOK
    <3>2. QED
      BY <1>5, <2>1, <3>1 DEF CallOK
  <2>2. CASE todo[l] = <<>>
    <3>1. next = IF to[l] = None THEN "gone" ELSE "idle"
      BY <2>2, Zenon DEF next
    <3>2. QED
      BY <1>5, <2>2, <3>1 DEF CallOK
  <2>3. QED
    BY <2>1, <2>2
<1>7. BufferOK(l)'
  <2>1. MAX_BUFFER_SIZE \in Nat \ {0, 1} /\ Len(<<>>) = 0
    BY SizeAssumption
  <2>2. QED
    BY <1>5, <2>1 DEF BufferOK
<1>8. QED
  BY <1>3, <1>4, <1>6, <1>7 DEF OwnOK

LEMMA FlushStep ==
  ASSUME StateInv, NEW l \in Logs, Flush(l)
  PROVE  OwnOK(l)
<1>1. /\ pc[l] = "idle" /\ pc' = [pc EXCEPT ![l] = "flushing"] /\ buffer[l] # <<>>
      /\ calls < MaxOther /\ calls' = calls + 1
      /\ UNCHANGED <<enable_count, enabled, bol, column, indent, indent_stack, stack_depth, indents,
                     buffer, printer, holder, todo, printed, to, text, wrote>>
  BY DEF Flush, Call, Goto, enabling, indenting
<1>2. TypeOK'
  <2>1. calls' \in 0..MaxOther
    BY <1>1, BoundAssumption DEF StateInv, TypeOK
  <2>2. QED
    BY <1>1, <2>1 DEF StateInv, TypeOK
<1>3. TextTypes'
  BY <1>1 DEF StateInv, TextTypes
<1>4. pc'[l] = "flushing"
  BY <1>1 DEF StateInv, TypeOK
<1>5. CallOK(l)'
  BY <1>1, <1>4 DEF StateInv, CallOK
<1>6. BufferOK(l)'
  BY <1>1, <1>4 DEF StateInv, BufferOK
<1>7. QED
  BY <1>2, <1>3, <1>5, <1>6 DEF OwnOK

LEMMA SetLogPrinterStep ==
  ASSUME StateInv, NEW l \in Logs, NEW p \in Printers \union {None}, SetLogPrinter(l, p)
  PROVE  OwnOK(l)
<1> DEFINE next == IF buffer[l] # <<>> THEN "flushing" ELSE IF p = None THEN "gone" ELSE "idle"
<1>1. /\ pc[l] = "idle" /\ pc' = [pc EXCEPT ![l] = next]
      /\ calls < MaxOther /\ calls' = calls + 1
      /\ to' = [to EXCEPT ![l] = p]
      /\ printer' = [printer EXCEPT ![l] = IF buffer[l] = <<>> THEN p ELSE @]
      /\ UNCHANGED <<enable_count, enabled, bol, column, indent, indent_stack, stack_depth, indents,
                     buffer, holder, todo, printed, text, wrote>>
  BY DEF SetLogPrinter, Call, Goto, enabling, indenting
<1>2. TypeOK'
  <2>1. calls' \in 0..MaxOther
    BY <1>1, BoundAssumption DEF StateInv, TypeOK
  <2>2. QED
    BY <1>1, <2>1 DEF StateInv, TypeOK
<1>3. TextTypes'
  BY <1>1 DEF StateInv, TextTypes
<1> HIDE DEF next
<1>4. /\ pc'[l] = next /\ to'[l] = p /\ printer'[l] = (IF buffer[l] = <<>> THEN p ELSE printer[l])
  BY <1>1 DEF StateInv, TypeOK
<1>5. printed[l] = 0 /\ todo[l] = <<>> /\ printer[l] # None
  BY <1>1 DEF StateInv, CallOK
<1>6. CASE buffer[l] = <<>>
  <2>1. next = (IF p = None THEN "gone" ELSE "idle") /\ printer'[l] = p
    BY <1>4, <1>6, Zenon DEF next
  <2>2. CallOK(l)'
    BY <1>1, <1>4, <1>5, <1>6, <2>1 DEF CallOK
  <2>3. BufferOK(l)'
    BY <1>1, <1>4, <1>6, <2>1 DEF BufferOK, StateInv
  <2>4. QED
    BY <1>2, <1>3, <2>2, <2>3 DEF OwnOK
<1>7. CASE buffer[l] # <<>>
  <2>1. next = "flushing" /\ printer'[l] = printer[l]
    BY <1>4, <1>7, Zenon DEF next
  <2>2. CallOK(l)'
    BY <1>1, <1>4, <1>5, <1>7, <2>1 DEF CallOK
  <2>3. BufferOK(l)'
    BY <1>1, <1>4, <2>1 DEF BufferOK, StateInv
  <2>4. QED
    BY <1>2, <1>3, <2>2, <2>3 DEF OwnOK
<1>8. QED
  BY <1>6, <1>7

LEMMA IndentStep ==
  ASSUME StateInv, NEW l \in Logs, PushIndent(l) \/ PopIndent(l)
  PROVE  OwnOK(l)
<1>1. /\ pc[l] = "idle" /\ pc' = [pc EXCEPT ![l] = "idle"]
      /\ indents < MaxIndents /\ indents' = indents + 1
      /\ UNCHANGED <<enable_count, enabled, bol, column, buffer, printer, holder, todo, printed, to,
                     text, wrote, calls>>
  BY DEF PushIndent, PushIndentInternal, PopIndent, Indents, Goto, enabling, history
<1>2. pc' = pc
  BY <1>1 DEF StateInv, TypeOK
<1>3. /\ indent' \in [Logs -> Int]
      /\ indent_stack' \in [Logs -> [1..MAX_INDENT_STACK_DEPTH -> Int]]
      /\ stack_depth' \in [Logs -> Nat]
  <2>1. ASSUME NEW new \in Int, PushIndentInternal(l, new)
        PROVE  /\ indent' \in [Logs -> Int]
               /\ indent_stack' \in [Logs -> [1..MAX_INDENT_STACK_DEPTH -> Int]]
               /\ stack_depth' \in [Logs -> Nat]
    <3>1. /\ indent \in [Logs -> Int] /\ stack_depth \in [Logs -> Nat]
          /\ indent_stack \in [Logs -> [1..MAX_INDENT_STACK_DEPTH -> Int]]
      BY DEF StateInv, TypeOK
    <3>2. stack_depth' \in [Logs -> Nat]
      BY <2>1, <3>1 DEF PushIndentInternal
    <3>3. indent' \in [Logs -> Int]
      BY <2>1, <3>1 DEF PushIndentInternal
    <3>4. ASSUME stack_depth[l] < MAX_INDENT_STACK_DEPTH
          PROVE  indent_stack' \in [Logs -> [1..MAX_INDENT_STACK_DEPTH -> Int]]
      <4>1. indent_stack' = [indent_stack EXCEPT ![l] = [indent_stack[l] EXCEPT ![stack_depth[l] + 1] = indent[l]]]
        BY <2>1, <3>4 DEF PushIndentInternal
      <4>2. [indent_stack[l] EXCEPT ![stack_depth[l] + 1] = indent[l]] \in [1..MAX_INDENT_STACK_DEPTH -> Int]
        BY <3>1
      <4>3. QED
        BY <3>1, <4>1, <4>2
    <3>5. ~(stack_depth[l] < MAX_INDENT_STACK_DEPTH) => indent_stack' = indent_stack
      BY <2>1 DEF PushIndentInternal
    <3>6. QED
      BY <3>1, <3>2, <3>3, <3>4, <3>5
  <2>2. CASE PushIndent(l)
    <3>1. column[l] \in Int /\ \A delta \in Deltas : indent[l] + delta \in Int
      BY DeltasAssumption DEF StateInv, TypeOK
    <3>2. QED
      BY <2>1, <2>2, <3>1 DEF PushIndent
  <2>3. CASE PopIndent(l)
    BY <2>3, SizeAssumption DEF PopIndent, StateInv, TypeOK
  <2>4. QED
    BY <2>2, <2>3
<1>4. TypeOK'
  <2>1. indents' \in 0..MaxIndents
    BY <1>1, BoundAssumption DEF StateInv, TypeOK
  <2>2. QED
    BY <1>1, <1>2, <1>3, <2>1 DEF StateInv, TypeOK
<1>5. TextTypes' /\ CallOK(l)' /\ BufferOK(l)'
  BY <1>1, <1>2 DEF StateInv, TextTypes, CallOK, BufferOK
<1>6. QED
  BY <1>4, <1>5 DEF OwnOK

LEMMA CountStep ==
  ASSUME StateInv, NEW l \in Logs, Enable(l) \/ Disable(l)
  PROVE  OwnOK(l)
<1>1. PICK n \in {1, -1} : Count(l, n)
  BY DEF Enable, Disable
<1>2. /\ pc[l] = "idle" /\ pc' = [pc EXCEPT ![l] = "idle"]
      /\ calls < MaxOther /\ calls' = calls + 1
      /\ enable_count' = [enable_count EXCEPT ![l] = @ + n]
      /\ enabled' = [enabled EXCEPT ![l] = enable_count'[l] > 0]
      /\ UNCHANGED <<bol, column, indent, indent_stack, stack_depth, indents, buffer, printer, holder,
                     todo, printed, to, text, wrote>>
  BY <1>1 DEF Count, Call, Goto, indenting
<1>3. pc' = pc
  BY <1>2 DEF StateInv, TypeOK
<1>4. TypeOK'
  <2>1. calls' \in 0..MaxOther
    BY <1>2, BoundAssumption DEF StateInv, TypeOK
  <2>2. enable_count' \in [Logs -> Int] /\ enabled' \in [Logs -> BOOLEAN]
    BY <1>2 DEF StateInv, TypeOK
  <2>3. QED
    BY <1>2, <1>3, <2>1, <2>2 DEF StateInv, TypeOK
<1>5. TextTypes' /\ CallOK(l)' /\ BufferOK(l)'
  BY <1>2, <1>3 DEF StateInv, TextTypes, CallOK, BufferOK
<1>6. QED
  BY <1>4, <1>5 DEF OwnOK

LEMMA StateStep ==
  ASSUME StateInv, [Next]_vars
  PROVE  StateInv'
<1>1. ASSUME NEW l \in Logs, Step(l) PROVE StateInv'
  <2>1. OwnOK(l)
    BY <1>1, CStep, ZeroColumnStep, RawCharStep, LockStep, PrintCharStep, FlushedStep, FlushStep,
       SetLogPrinterStep, IndentStep, CountStep DEF Step, Write, EnsureBOL, Chars
  <2>2. \A m \in Logs : CallOK(m)' /\ BufferOK(m)'
    BY <1>1, <2>1, OthersCall DEF OwnOK
  <2>3. QED
    BY <2>1, <2>2 DEF StateInv, OwnOK
<1>2. CASE UNCHANGED vars
  <2>1. TypeOK' /\ TextTypes'
    BY <1>2 DEF StateInv, TypeOK, TextTypes, vars, enabling, indenting, history
  <2>2. ASSUME NEW m \in Logs PROVE CallOK(m)' /\ BufferOK(m)'
    BY <1>2 DEF StateInv, CallOK, BufferOK, vars, enabling, indenting, history
  <2>3. QED
    BY <2>1, <2>2 DEF StateInv
<1>3. QED
  BY <1>1, <1>2 DEF Next, Finished

LEMMA StateInit == Init => StateInv
<1> SUFFICES ASSUME Init PROVE StateInv
  OBVIOUS
<1>1. PICK p \in Printers : printer = [l \in Logs |-> p]
  BY DEF Init
<1>2. /\ to = printer /\ pc = [l \in Logs |-> "idle"] /\ buffer = [l \in Logs |-> <<>>]
      /\ todo = [l \in Logs |-> <<>>] /\ printed = [l \in Logs |-> 0] /\ text = <<>>
      /\ wrote = [l \in Logs |-> <<>>]
  BY DEF Init
<1>3. \A S : <<>> \in Seq(S) /\ Len(<<>>) = 0
  BY EmptySeq
<1>4. MAX_BUFFER_SIZE \in Nat \ {0, 1} /\ p # None
  BY SizeAssumption, NoneAssumption
<1>5. TypeOK
  <2>1. /\ enable_count \in [Logs -> Int] /\ enabled \in [Logs -> BOOLEAN] /\ bol \in [Logs -> BOOLEAN]
        /\ column \in [Logs -> Nat] /\ indent \in [Logs -> Int] /\ stack_depth \in [Logs -> Nat]
        /\ indents \in 0..MaxIndents /\ calls \in 0..MaxOther
        /\ holder \in [Printers -> Logs \union {None}]
    BY BoundAssumption DEF Init
  <2>2. indent_stack \in [Logs -> [1..MAX_INDENT_STACK_DEPTH -> Int]]
    BY DEF Init
  <2>3. /\ printer \in [Logs -> Printers \union {None}] /\ to \in [Logs -> Printers \union {None}]
        /\ pc \in [Logs -> {"idle", "writing", "flushing", "printing", "gone"}]
    BY <1>1, <1>2
  <2>4. ASSUME NEW l \in Logs
        PROVE  /\ buffer[l] \in Seq(Chars \union {Space, ":"} \union ToSet(Prefix[l]))
               /\ Len(buffer[l]) < MAX_BUFFER_SIZE
               /\ printed[l] \in 0..Len(buffer[l])
    BY <1>2, <1>3, <1>4
  <2>5. QED
    BY <2>1, <2>2, <2>3, <2>4 DEF TypeOK
<1>6. TextTypes
  BY <1>2, <1>3 DEF TextTypes
<1>7. ASSUME NEW l \in Logs PROVE CallOK(l) /\ BufferOK(l)
  BY <1>1, <1>2, <1>3, <1>4 DEF CallOK, BufferOK
<1>8. QED
  BY <1>5, <1>6, <1>7 DEF StateInv

-----------------------------------------------------------------------------
(***************************************************************************)
(* What a log shows: what was printed of it and the rest of its buffer.    *)
(***************************************************************************)
Rest(l) == SubSeq(buffer[l], printed[l] + 1, Len(buffer[l]))
Shown(l) == PrintedBy(l) \o Rest(l)
Pieces(l) == [i \in 1..Len(text) |-> IF text[i].log = l THEN <<text[i].char>> ELSE <<>>]

LEMMA PiecesType ==
  ASSUME TextTypes, NEW l
  PROVE  Pieces(l) \in Seq(Seq(Glyphs)) /\ Len(Pieces(l)) = Len(text) /\ PrintedBy(l) \in Seq(Glyphs)
<1>1. Len(text) \in Nat /\ \A i \in 1..Len(text) : text[i].char \in Glyphs
  <2>1. text \in Seq([log : Logs, printer : Printers, char : Glyphs])
    BY DEF TextTypes
  <2>2. \A i \in 1..Len(text) : text[i] \in [log : Logs, printer : Printers, char : Glyphs]
    BY <2>1, ElementOfSeq
  <2>3. QED
    BY <2>1, <2>2
<1>2. ASSUME NEW i \in 1..Len(text)
      PROVE  (IF text[i].log = l THEN <<text[i].char>> ELSE <<>>) \in Seq(Glyphs)
  BY <1>1, OneSeq, EmptySeq
<1>3. Pieces(l) \in [1..Len(text) -> Seq(Glyphs)]
  BY <1>2 DEF Pieces
<1>4. Pieces(l) \in Seq(Seq(Glyphs)) /\ Len(Pieces(l)) = Len(text)
  BY <1>1, <1>3
<1>5. QED
  BY <1>4, FlattenType DEF PrintedBy, Pieces

LEMMA PrintedGrows ==
  ASSUME TextTypes, NEW entry \in [log : Logs, printer : Printers, char : Glyphs],
         text' = Append(text, entry), NEW m \in Logs
  PROVE  PrintedBy(m)' = PrintedBy(m) \o (IF entry.log = m THEN <<entry.char>> ELSE <<>>)
<1> DEFINE x == IF entry.log = m THEN <<entry.char>> ELSE <<>>
<1>1. x \in Seq(Glyphs)
  BY OneSeq, EmptySeq
<1>2. /\ Len(text) \in Nat /\ Len(text') = Len(text) + 1 /\ text'[Len(text) + 1] = entry
      /\ \A i \in 1..Len(text) : text'[i] = text[i]
  BY AppendProperties DEF TextTypes
<1>3. Pieces(m) \in Seq(Seq(Glyphs)) /\ Len(Pieces(m)) = Len(text)
  BY PiecesType
<1>4. /\ Append(Pieces(m), x) \in Seq(Seq(Glyphs)) /\ Len(Append(Pieces(m), x)) = Len(text) + 1
      /\ \A i \in 1..Len(text) : Append(Pieces(m), x)[i] = Pieces(m)[i]
      /\ Append(Pieces(m), x)[Len(text) + 1] = x
  BY <1>1, <1>3, AppendProperties
<1>5. Pieces(m)' = [i \in 1..(Len(text) + 1) |-> IF text'[i].log = m THEN <<text'[i].char>> ELSE <<>>]
  BY <1>2 DEF Pieces
<1>6. Pieces(m)' = Append(Pieces(m), x)
  <2>1. ASSUME NEW i \in 1..(Len(text) + 1) PROVE Pieces(m)'[i] = Append(Pieces(m), x)[i]
    <3>1. CASE i \in 1..Len(text)
      BY <1>2, <1>4, <1>5, <3>1 DEF Pieces
    <3>2. CASE i = Len(text) + 1
      BY <1>2, <1>4, <1>5, <3>2
    <3>3. i \in 1..Len(text) \/ i = Len(text) + 1
      BY <1>2
    <3>4. QED
      BY <3>1, <3>2, <3>3, Zenon
  <2>2. /\ Pieces(m)' = [i \in 1..(Len(text) + 1) |-> Pieces(m)'[i]]
        /\ Append(Pieces(m), x) = [i \in 1..(Len(text) + 1) |-> Append(Pieces(m), x)[i]]
    BY <1>4, <1>5, LenProperties
  <2> HIDE DEF x
  <2>3. QED
    BY <2>1, <2>2
<1>7. PrintedBy(m)' = FlattenSeq(Pieces(m)')
  BY DEF PrintedBy, Pieces
<1>8. PrintedBy(m) = FlattenSeq(Pieces(m))
  BY DEF PrintedBy, Pieces
<1> HIDE DEF x
<1>9. QED
  BY <1>1, <1>3, <1>6, <1>7, <1>8, FlattenAppend DEF x

LEMMA ShownType ==
  ASSUME StateInv, NEW l \in Logs
  PROVE  /\ Shown(l) \in Seq(Glyphs) /\ Rest(l) \in Seq(Glyphs) /\ PrintedBy(l) \in Seq(Glyphs)
         /\ printed[l] = 0 => Shown(l) = PrintedBy(l) \o buffer[l]
<1>1. buffer[l] \in Seq(Glyphs) /\ printed[l] \in Nat /\ Len(buffer[l]) \in Nat
  BY DEF StateInv, TextTypes
<1>2. \A i \in (printed[l] + 1)..Len(buffer[l]) : buffer[l][i] \in Glyphs
  BY <1>1
<1>3. Rest(l) \in Seq(Glyphs)
  BY <1>1, <1>2, SubSeqProperties DEF Rest
<1>4. PrintedBy(l) \in Seq(Glyphs)
  BY PiecesType DEF StateInv
<1>5. printed[l] = 0 => Rest(l) = buffer[l]
  BY <1>1, SubSeqFull DEF Rest
<1>6. QED
  BY <1>3, <1>4, <1>5, ConcatProperties DEF Shown

(***************************************************************************)
(* Only RawChar changes what a log shows: printing moves it.               *)
(***************************************************************************)
LEMMA PrintCharShows ==
  ASSUME StateInv, NEW l \in Logs, PrintChar(l), NEW m \in Logs
  PROVE  Shown(m)' = Shown(m)
<1> DEFINE x == buffer[l][printed[l] + 1]
           entry == [log |-> l, printer |-> printer[l], char |-> x]
<1>1. /\ pc[l] = "printing" /\ printed[l] < Len(buffer[l]) /\ text' = Append(text, entry)
      /\ printed' = [printed EXCEPT ![l] = printed[l] + 1] /\ buffer' = buffer
  BY DEF PrintChar
<1>2. buffer[l] \in Seq(Glyphs) /\ printed[l] \in Nat /\ Len(buffer[l]) \in Nat /\ printer[l] \in Printers
  BY <1>1 DEF StateInv, TypeOK, TextTypes, CallOK
<1>3. printed[l] + 1 \in 1..Len(buffer[l]) /\ x \in Glyphs
  BY <1>1, <1>2
<1>4. entry \in [log : Logs, printer : Printers, char : Glyphs] /\ entry.log = l /\ entry.char = x
  BY <1>2, <1>3
<1> HIDE DEF entry
<1>5. PrintedBy(m)' = PrintedBy(m) \o (IF l = m THEN <<x>> ELSE <<>>)
  BY <1>1, <1>4, PrintedGrows DEF StateInv
<1>6. PrintedBy(m) \in Seq(Glyphs) /\ Rest(m) \in Seq(Glyphs)
  BY ShownType
<1>7. CASE m = l
  <2>1. printed'[l] = printed[l] + 1
    BY <1>1 DEF StateInv, TextTypes
  <2>2. Rest(l)' = SubSeq(buffer[l], (printed[l] + 1) + 1, Len(buffer[l]))
    BY <1>1, <2>1 DEF Rest
  <2>3. Rest(l) = <<x>> \o Rest(l)'
    <3>1. Len(buffer[l]) \in (printed[l] + 1)..Len(buffer[l])
      BY <1>2, <1>3
    <3>2. SubSeq(buffer[l], printed[l] + 1, Len(buffer[l])) = <<x>> \o SubSeq(buffer[l], (printed[l] + 1) + 1, Len(buffer[l]))
      BY <1>2, <1>3, <3>1, SubSeqRecursiveFirst
    <3>3. QED
      BY <2>2, <3>2 DEF Rest
  <2>4. \A i \in ((printed[l] + 1) + 1)..Len(buffer[l]) : buffer[l][i] \in Glyphs
    BY <1>2
  <2>5. Rest(l)' \in Seq(Glyphs)
    BY <1>2, <2>2, <2>4, SubSeqProperties
  <2>6. <<x>> \in Seq(Glyphs)
    BY <1>3, OneSeq
  <2>7. (PrintedBy(l) \o <<x>>) \o Rest(l)' = PrintedBy(l) \o (<<x>> \o Rest(l)')
    BY <1>6, <1>7, <2>5, <2>6, ConcatAssociative
  <2>8. QED
    BY <1>5, <1>7, <2>3, <2>7 DEF Shown
<1>8. CASE m # l
  <2>1. PrintedBy(m)' = PrintedBy(m)
    BY <1>5, <1>6, <1>8, ConcatEmptySeq
  <2>2. Rest(m)' = Rest(m)
    BY <1>1, <1>8 DEF Rest, StateInv, TextTypes
  <2>3. QED
    BY <2>1, <2>2 DEF Shown
<1>9. QED
  BY <1>7, <1>8

LEMMA TextStays ==
  ASSUME NEW l \in Logs, Step(l), ~PrintChar(l)
  PROVE  text' = text
<1>1. ASSUME NEW char, c(l, char) PROVE text' = text
  BY <1>1, CEffect
<1>2. QED
  BY <1>1 DEF Step, Write, EnsureBOL, ZeroColumn, RawChar, Lock, Flushed, Flush, SetLogPrinter,
     PushIndent, PushIndentInternal, PopIndent, Enable, Disable, Count

LEMMA ShownStays ==
  ASSUME StateInv, NEW l \in Logs, Step(l), NEW m \in Logs, m # l \/ ~RawChar(l)
  PROVE  Shown(m)' = Shown(m)
<1>1. CASE PrintChar(l)
  BY <1>1, PrintCharShows
<1>2. CASE Flushed(l) /\ m = l
  <2>1. /\ printed[l] = Len(buffer[l]) /\ text' = text
        /\ buffer' = [buffer EXCEPT ![l] = <<>>] /\ printed' = [printed EXCEPT ![l] = 0]
    BY <1>2 DEF Flushed
  <2>2. buffer'[l] = <<>> /\ printed'[l] = 0 /\ Len(<<>>) = 0 /\ Len(buffer[l]) \in Nat
    BY <2>1 DEF StateInv, TextTypes
  <2>3. Rest(l) = <<>>
    BY <2>1, <2>2, SubSeqEmpty DEF Rest
  <2>4. Rest(l)' = <<>>
    BY <2>2, SubSeqEmpty DEF Rest
  <2>5. QED
    BY <1>2, <2>1, <2>3, <2>4 DEF Shown, PrintedBy
<1>3. CASE ~PrintChar(l) /\ ~(Flushed(l) /\ m = l)
  <2>1. text' = text
    BY <1>3, TextStays
  <2>2. buffer'[m] = buffer[m] /\ printed'[m] = printed[m]
    <3>1. CASE m # l
      BY <3>1, OthersStay
    <3>2. CASE m = l
      <4>1. ASSUME NEW char, c(l, char) PROVE buffer' = buffer /\ printed' = printed
        BY <4>1, CEffect
      <4>2. QED
        BY <1>3, <3>2, <4>1 DEF Step, Write, EnsureBOL, ZeroColumn, Lock, Flush, SetLogPrinter,
           PushIndent, PushIndentInternal, PopIndent, Enable, Disable, Count
    <3>3. QED
      BY <3>1, <3>2
  <2>3. QED
    BY <2>1, <2>2 DEF Shown, PrintedBy, Rest
<1>4. QED
  BY <1>1, <1>2, <1>3

-----------------------------------------------------------------------------
(***************************************************************************)
(* What was written, laid out: one character more adds what c hands on.    *)
(***************************************************************************)
BolOK(l) == bol[l] <=> (wrote[l] = <<>> \/ wrote[l][Len(wrote[l])].char = Newline)

Written == [char : Chars, indent : Int]

LEMMA LaidOutAtIs ==
  ASSUME NEW l \in Logs, NEW w, NEW i, w[i] \in Written
  PROVE  /\ LaidOutAt(l, w, i) \in Seq(Glyphs)
         /\ LaidOutAt(l, w, i) = IF StartsLine(w, i)
                                   THEN Margin(l, w[i].char) \o Body(w[i].indent, w[i].char)
                                   ELSE <<w[i].char>>
<1> DEFINE char == w[i].char
           a == Margin(l, char)
           r == Repeat(Space, w[i].indent)
           t == IF char = Tab THEN <<>> ELSE <<char>>
<1>1. char \in Chars /\ w[i].indent \in Int /\ char \in Glyphs /\ Space \in Glyphs
      /\ Inside(l) \subseteq Glyphs
  BY Sets DEF Written, Inside
<1>2. a \in Seq(Glyphs) /\ r \in Seq(Glyphs) /\ t \in Seq(Glyphs) /\ <<char>> \in Seq(Glyphs)
  BY <1>1, MarginType, SeqMonotonic, RepeatType, OneSeq, EmptySeq
<1>3. (a \o r) \o t = a \o (r \o t) /\ r \o t \in Seq(Glyphs) /\ a \o (r \o t) \in Seq(Glyphs)
  <2> HIDE DEF a, r, t, char
  <2>1. (a \o r) \o t = a \o (r \o t)
    BY <1>2, ConcatAssociative, SMTT(30)
  <2>2. r \o t \in Seq(Glyphs)
    BY <1>2, ConcatProperties
  <2>3. a \o (r \o t) \in Seq(Glyphs)
    BY <1>2, <2>2, ConcatProperties
  <2>4. QED
    BY <2>1, <2>2, <2>3
<1>4. CASE StartsLine(w, i)
  <2>1. LaidOutAt(l, w, i) = (a \o r) \o t
    BY <1>4 DEF LaidOutAt, Margin
  <2> HIDE DEF a
  <2>2. QED
    BY <1>3, <1>4, <2>1 DEF Body, a
<1>5. CASE ~StartsLine(w, i)
  <2>1. LaidOutAt(l, w, i) = <<>> \o <<char>>
    BY <1>5 DEF LaidOutAt
  <2>2. QED
    BY <1>2, <1>5, <2>1, ConcatEmptySeq
<1>6. QED
  BY <1>4, <1>5

LEMMA LaidOutGrows ==
  ASSUME StateInv, NEW l \in Logs, BolOK(l), NEW char \in Chars, c(l, char)
  PROVE  /\ LaidOut(l) \in Seq(Glyphs)
         /\ LaidOut(l)' = LaidOut(l) \o (IF bol[l] THEN Margin(l, char) \o Body(indent[l], char)
                                                  ELSE <<char>>)
         /\ BolOK(l)'
<1> DEFINE e == [char |-> char, indent |-> indent[l]]
           w == wrote[l]
           v == Append(w, e)
           n == Len(w)
           s == [i \in 1..n |-> LaidOutAt(l, w, i)]
           x == LaidOutAt(l, v, n + 1)
<1>1. w \in Seq(Written) /\ n \in Nat /\ e \in Written /\ e.char = char /\ e.indent = indent[l]
  <2>1. w \in Seq(Written) /\ indent[l] \in Int
    BY DEF StateInv, TypeOK, TextTypes, Written
  <2>2. e \in Written /\ e.char = char /\ e.indent = indent[l]
    BY <2>1 DEF Written
  <2>3. n \in Nat
    BY <2>1, LenProperties
  <2>4. QED
    BY <2>1, <2>2, <2>3
<1>2. /\ v \in Seq(Written) /\ Len(v) = n + 1 /\ v[n + 1] = e /\ \A i \in 1..n : v[i] = w[i]
      /\ v # <<>>
  BY <1>1, AppendProperties
<1>3. /\ wrote' = [wrote EXCEPT ![l] = Append(@, [char |-> char, indent |-> indent[l]])]
      /\ bol' = [bol EXCEPT ![l] = char = Newline]
  BY CEffect
<1>4. wrote'[l] = v /\ bol'[l] = (char = Newline)
  BY <1>3 DEF StateInv, TypeOK, TextTypes
<1>5. \A i \in 1..n : w[i] \in Written
  BY <1>1, ElementOfSeq
<1> HIDE DEF e, w, v, n
<1>6. x \in Seq(Glyphs)
  BY <1>1, <1>2, LaidOutAtIs
<1>7. s \in Seq(Seq(Glyphs)) /\ Len(s) = n
  <2>1. \A i \in 1..n : LaidOutAt(l, w, i) \in Seq(Glyphs)
    BY <1>5, LaidOutAtIs
  <2>2. QED
    BY <1>1, <2>1
<1>8. [i \in 1..Len(v) |-> LaidOutAt(l, v, i)] = Append(s, x)
  <2> DEFINE q == [i \in 1..Len(v) |-> LaidOutAt(l, v, i)]
  <2>1. /\ Append(s, x) \in Seq(Seq(Glyphs)) /\ Len(Append(s, x)) = n + 1
        /\ \A i \in 1..n : Append(s, x)[i] = s[i]
        /\ Append(s, x)[n + 1] = x
    <3> HIDE DEF q, s, x
    <3>1. /\ Append(s, x) \in Seq(Seq(Glyphs)) /\ Len(Append(s, x)) = Len(s) + 1
          /\ \A i \in 1..Len(s) : Append(s, x)[i] = s[i]
          /\ Append(s, x)[Len(s) + 1] = x
      BY <1>6, <1>7, AppendProperties
    <3>2. QED
      BY <1>7, <3>1
  <2>2. ASSUME NEW i \in 1..n PROVE q[i] = s[i]
    <3>1. v[i] = w[i] /\ (i # 1 => v[i - 1] = w[i - 1])
      BY <1>1, <1>2
    <3>2. LaidOutAt(l, v, i) = LaidOutAt(l, w, i)
      BY <3>1 DEF LaidOutAt, StartsLine
    <3>3. i \in 1..Len(v)
      BY <1>1, <1>2
    <3>4. QED
      BY <3>2, <3>3
  <2>3. q[n + 1] = x
    BY <1>1, <1>2
  <2>4. ASSUME NEW i \in 1..(n + 1) PROVE q[i] = Append(s, x)[i]
    <3>1. i \in 1..n \/ i = n + 1
      BY <1>1
    <3> HIDE DEF q, s, x
    <3>2. QED
      BY <2>1, <2>2, <2>3, <3>1
  <2>5. Append(s, x) = [i \in 1..(n + 1) |-> Append(s, x)[i]] /\ q = [i \in 1..(n + 1) |-> q[i]]
    BY <1>2, <2>1, LenProperties
  <2> HIDE DEF q, s, x
  <2>6. q = Append(s, x)
    BY <2>4, <2>5
  <2>7. QED
    BY <2>6 DEF q
<1>9. LaidOut(l)' = FlattenSeq(Append(s, x))
  BY <1>4, <1>8 DEF LaidOut
<1>10. LaidOut(l) = FlattenSeq(s)
  BY DEF LaidOut, w, n
<1>11. LaidOut(l)' = LaidOut(l) \o x /\ LaidOut(l) \in Seq(Glyphs)
  BY <1>6, <1>7, <1>9, <1>10, FlattenAppend, FlattenType
<1>12. StartsLine(v, n + 1) <=> bol[l]
  <2>1. n + 1 = 1 <=> w = <<>>
    BY <1>1, EmptySeq DEF n
  <2>2. w # <<>> => n \in 1..n
    BY <1>1, <2>1
  <2>3. w # <<>> => v[n + 1 - 1].char = w[n].char
    BY <1>1, <1>2, <2>2
  <2>4. QED
    BY <2>1, <2>3 DEF StartsLine, BolOK, n, w
<1>13. x = IF bol[l] THEN Margin(l, char) \o Body(indent[l], char) ELSE <<char>>
  BY <1>1, <1>2, <1>12, LaidOutAtIs
<1>14. BolOK(l)'
  BY <1>1, <1>2, <1>4 DEF BolOK
<1>15. QED
  BY <1>11, <1>13, <1>14

-----------------------------------------------------------------------------
(***************************************************************************)
(* How far the layout of the last character has come: a of the margin and  *)
(* b of the body are still to be shown.  k is where the last line that was *)
(* shown has ended, by a newline or a carriage return; the column counts   *)
(* from there, the margin of a new line not counted.                       *)
(***************************************************************************)
LineEnds == {Newline, Return}

LastEnd(out, k) ==
  /\ k \in 0..Len(out)
  /\ k # 0 => out[k] \in LineEnds
  /\ \A i \in (k + 1)..Len(out) : out[i] \notin LineEnds

NewLine(out, k) == k = 0 \/ out[k] = Newline

Starting(l, a, b, k) ==
  /\ todo[l] = (a \o <<ColumnZero>>) \o b
  /\ NewLine(Shown(l), k)
  /\ Len(Shown(l)) - k + Len(a) = PrefixLength(l)
  /\ b = <<>> => ~bol[l]

Going(l, a, b, k) ==
  /\ a = <<>>
  /\ todo[l] = b
  /\ column[l] = Len(Shown(l)) - k - (IF k < Len(Shown(l)) /\ NewLine(Shown(l), k) THEN PrefixLength(l) ELSE 0)
  /\ IF b = <<>> /\ bol[l]
       THEN k = Len(Shown(l)) /\ NewLine(Shown(l), k)
       ELSE PrefixLength(l) = 0 \/ k < Len(Shown(l)) \/ ~NewLine(Shown(l), k)

Laying(l, a, b, k) ==
  /\ LastEnd(Shown(l), k)
  /\ Starting(l, a, b, k) \/ Going(l, a, b, k)
  /\ (Shown(l) \o a) \o b = LaidOut(l)
  /\ b # <<>> => (bol[l] <=> b[Len(b)] = Newline)
  /\ \A i \in 1..(Len(b) - 1) : b[i] \notin LineEnds

LayOK(l) == \E a \in Seq(Inside(l)), b \in Seq(Glyphs), k \in Nat : Laying(l, a, b, k)

LayInv == \A l \in Logs : BolOK(l) /\ LayOK(l)

LEMMA EndGrows ==
  ASSUME NEW S, NEW out \in Seq(S), NEW x \in S, NEW k \in Nat, LastEnd(out, k)
  PROVE  /\ Append(out, x) \in Seq(S) /\ Len(Append(out, x)) = Len(out) + 1 /\ k <= Len(out)
         /\ x \in LineEnds => /\ LastEnd(Append(out, x), Len(out) + 1)
                              /\ NewLine(Append(out, x), Len(out) + 1) <=> x = Newline
         /\ x \notin LineEnds => /\ LastEnd(Append(out, x), k)
                                 /\ NewLine(Append(out, x), k) <=> NewLine(out, k)
<1>1. /\ Append(out, x) \in Seq(S) /\ Len(Append(out, x)) = Len(out) + 1 /\ Len(out) \in Nat
      /\ Append(out, x)[Len(out) + 1] = x
      /\ \A i \in 1..Len(out) : Append(out, x)[i] = out[i]
  BY AppendProperties
<1>2. k <= Len(out)
  BY DEF LastEnd
<1>3. ASSUME x \in LineEnds
      PROVE  /\ LastEnd(Append(out, x), Len(out) + 1)
             /\ NewLine(Append(out, x), Len(out) + 1) <=> x = Newline
  BY <1>1, <1>3 DEF LastEnd, NewLine
<1>4. ASSUME x \notin LineEnds
      PROVE  /\ LastEnd(Append(out, x), k)
             /\ NewLine(Append(out, x), k) <=> NewLine(out, k)
  <2>1. k # 0 => k \in 1..Len(out)
    BY <1>1, <1>2
  <2>2. k # 0 => Append(out, x)[k] = out[k]
    BY <1>1, <2>1
  <2>3. ASSUME NEW i \in (k + 1)..(Len(out) + 1) PROVE Append(out, x)[i] \notin LineEnds
    <3>1. (i \in (k + 1)..Len(out) /\ i \in 1..Len(out)) \/ i = Len(out) + 1
      BY <1>1, <1>2
    <3>2. QED
      BY <1>1, <1>4, <3>1 DEF LastEnd
  <2>4. QED
    BY <1>1, <1>2, <2>2, <2>3 DEF LastEnd, NewLine
<1>5. QED
  BY <1>1, <1>2, <1>3, <1>4

LEMMA HeadOfConcat ==
  ASSUME NEW S, NEW a \in Seq(S), a # <<>>, NEW t \in Seq(S)
  PROVE  /\ Head(a \o t) = Head(a) /\ Tail(a \o t) = Tail(a) \o t
         /\ Head(a) \in S /\ Tail(a) \in Seq(S) /\ Len(a) \in Nat /\ Len(Tail(a)) = Len(a) - 1
<1>1. /\ Tail(a) \in Seq(S) /\ Head(a) \in S /\ Len(a) \in Nat \ {0} /\ Len(Tail(a)) = Len(a) - 1
      /\ \A i \in 1..Len(Tail(a)) : Tail(a)[i] = a[i + 1]
      /\ Head(a) = a[1]
  BY HeadTailProperties, EmptySeq
<1>2. /\ a \o t \in Seq(S) /\ Len(a \o t) = Len(a) + Len(t) /\ Len(t) \in Nat
      /\ \A i \in 1..(Len(a) + Len(t)) : (a \o t)[i] = IF i <= Len(a) THEN a[i] ELSE t[i - Len(a)]
  BY ConcatProperties
<1>3. a \o t # <<>>
  BY <1>1, <1>2, EmptySeq
<1>4. /\ Tail(a \o t) \in Seq(S) /\ Head(a \o t) = (a \o t)[1]
      /\ Len(Tail(a \o t)) = Len(a \o t) - 1
      /\ \A i \in 1..Len(Tail(a \o t)) : Tail(a \o t)[i] = (a \o t)[i + 1]
  BY <1>2, <1>3, HeadTailProperties
<1>5. Head(a \o t) = Head(a)
  BY <1>1, <1>2, <1>4
<1>6. /\ Tail(a) \o t \in Seq(S) /\ Len(Tail(a) \o t) = Len(Tail(a)) + Len(t)
      /\ \A i \in 1..(Len(Tail(a)) + Len(t)) :
           (Tail(a) \o t)[i] = IF i <= Len(Tail(a)) THEN Tail(a)[i] ELSE t[i - Len(Tail(a))]
  BY <1>1, ConcatProperties
<1>7. ASSUME NEW i \in 1..(Len(a) - 1 + Len(t)) PROVE Tail(a \o t)[i] = (Tail(a) \o t)[i]
  <2>1. Tail(a \o t)[i] = (a \o t)[i + 1]
    BY <1>1, <1>2, <1>4
  <2>2. i + 1 \in 1..(Len(a) + Len(t))
    BY <1>1, <1>2
  <2>3. (a \o t)[i + 1] = IF i + 1 <= Len(a) THEN a[i + 1] ELSE t[i + 1 - Len(a)]
    BY <1>2, <2>2
  <2>4. (Tail(a) \o t)[i] = IF i <= Len(a) - 1 THEN a[i + 1] ELSE t[i - (Len(a) - 1)]
    BY <1>1, <1>6
  <2>5. i - (Len(a) - 1) = i + 1 - Len(a) /\ (i + 1 <= Len(a) <=> i <= Len(a) - 1)
    BY <1>1
  <2>6. QED
    BY <2>1, <2>3, <2>4, <2>5
<1>8. Tail(a \o t) = Tail(a) \o t
  BY <1>1, <1>2, <1>4, <1>6, <1>7, SeqEqual
<1>9. QED
  BY <1>1, <1>5, <1>8

LEMMA OneAfterAnother ==
  ASSUME NEW S, NEW out \in Seq(S), NEW a \in Seq(S), a # <<>>
  PROVE  Append(out, Head(a)) \o Tail(a) = out \o a
<1>1. Head(a) \in S /\ Tail(a) \in Seq(S) /\ <<Head(a)>> \in Seq(S) /\ a = <<Head(a)>> \o Tail(a)
  <2>1. Head(a) \in S /\ Tail(a) \in Seq(S) /\ Len(a) \in Nat \ {0} /\ Head(a) = a[1]
        /\ Tail(a) = SubSeq(a, 2, Len(a))
    BY HeadTailProperties, TailIsSubSeq, EmptySeq
  <2>2. 1 \in 1..Len(a) /\ Len(a) \in 1..Len(a)
    BY <2>1
  <2>3. SubSeq(a, 1, Len(a)) = <<a[1]>> \o SubSeq(a, 1 + 1, Len(a))
    BY <2>2, SubSeqRecursiveFirst
  <2>4. SubSeq(a, 1, Len(a)) = a
    BY SubSeqFull
  <2>5. QED
    BY <2>1, <2>3, <2>4, OneSeq
<1>2. Append(out, Head(a)) = out \o <<Head(a)>>
  BY <1>1, AppendIsConcat
<1>3. (out \o <<Head(a)>>) \o Tail(a) = out \o (<<Head(a)>> \o Tail(a))
  BY <1>1, ConcatAssociative
<1>4. QED
  BY <1>1, <1>2, <1>3

(***************************************************************************)
(* A call of c begins: the margin and the body of its character are owed.  *)
(***************************************************************************)
LEMMA CWrites ==
  ASSUME StateInv, NEW l \in Logs, NEW char \in Chars, c(l, char)
  PROVE  /\ pc[l] = "idle" /\ todo[l] = <<>> /\ indent[l] \in Int
         /\ todo'[l] = Layout(l, char) /\ (bol'[l] <=> char = Newline) /\ column'[l] = column[l]
<1>1. /\ pc[l] = "idle" /\ todo' = [todo EXCEPT ![l] = Layout(l, char)]
      /\ bol' = [bol EXCEPT ![l] = char = Newline] /\ column' = column
  BY Zenon DEF c, Goto
<1>2. QED
  BY <1>1 DEF StateInv, TypeOK, TextTypes, CallOK

LEMMA CLays ==
  ASSUME StateInv, NEW l \in Logs, BolOK(l), LayOK(l), NEW char \in Chars, c(l, char)
  PROVE  LayOK(l)'
<1> DEFINE out == Shown(l)
           A == Margin(l, char)
           B == Body(indent[l], char)
<1>1. PICK a \in Seq(Inside(l)), b \in Seq(Glyphs), k \in Nat : Laying(l, a, b, k)
  BY Zenon DEF LayOK
<1>2. /\ pc[l] = "idle" /\ todo[l] = <<>> /\ indent[l] \in Int
      /\ todo'[l] = Layout(l, char) /\ (bol'[l] <=> char = Newline) /\ column'[l] = column[l]
  <2> HIDE DEF out, A, B
  <2>1. QED
    BY CWrites
<1>3. todo[l] = <<>> /\ indent[l] \in Int
  BY <1>2
<1>4. todo'[l] = Layout(l, char) /\ (bol'[l] <=> char = Newline) /\ column'[l] = column[l]
  BY <1>2
<1>5. Inside(l) \subseteq Glyphs /\ Text(l) \subseteq Glyphs /\ char \in Glyphs
  BY Sets
<1>6. a = <<>> /\ b = <<>> /\ Going(l, a, b, k)
  <2>1. ASSUME Starting(l, a, b, k) PROVE FALSE
    <3> DEFINE S == Glyphs \union {ColumnZero}
    <3>1. a \in Seq(S) /\ b \in Seq(S) /\ <<ColumnZero>> \in Seq(S) /\ Len(<<ColumnZero>>) = 1
      BY <1>5, SeqMonotonic, OneSeq
    <3>2. a \o <<ColumnZero>> \in Seq(S) /\ Len(a \o <<ColumnZero>>) = Len(a) + 1
      BY <3>1, ConcatProperties
    <3>3. Len((a \o <<ColumnZero>>) \o b) = Len(a) + 1 + Len(b)
      BY <3>1, <3>2, ConcatProperties
    <3>4. Len(a) \in Nat /\ Len(b) \in Nat /\ Len(<<>>) = 0
      OBVIOUS
    <3>5. Len((a \o <<ColumnZero>>) \o b) = 0
      BY <1>3, <2>1, <3>4 DEF Starting
    <3> HIDE DEF S
    <3>6. QED
      BY <3>3, <3>4, <3>5
  <2>2. Going(l, a, b, k)
    BY <1>1, <2>1 DEF Laying
  <2>3. QED
    BY <1>3, <2>2 DEF Going
<1>7. out \in Seq(Glyphs) /\ Len(out) \in Nat
  BY ShownType
<1>8. Shown(l)' = out
  <2>1. ~RawChar(l)
    BY <1>2 DEF RawChar, Goto
  <2>2. Step(l)
    BY DEF Step, Write
  <2>3. QED
    BY <2>1, <2>2, ShownStays
<1>9. /\ A \in Seq(Inside(l)) /\ Len(A) = PrefixLength(l) /\ PrefixLength(l) \in Nat
      /\ B \in Seq(Text(l)) /\ B \in Seq(Glyphs) /\ A \in Seq(Glyphs)
      /\ \A i \in 1..(Len(B) - 1) : B[i] \notin LineEnds
      /\ B # <<>> => B[Len(B)] = IF char = Tab THEN Space ELSE char
      /\ B = <<>> => char = Tab
  BY <1>3, <1>5, MarginType, BodyType, SeqMonotonic DEF LineEnds
<1>10. LaidOut(l) = out
  <2>1. (out \o <<>>) \o <<>> = LaidOut(l)
    BY <1>1, <1>6 DEF Laying
  <2>2. QED
    BY <1>7, <2>1, ConcatEmptySeq
<1>11. LaidOut(l)' = out \o (IF bol[l] THEN A \o B ELSE <<char>>)
  BY <1>10, LaidOutGrows
<1>12. LastEnd(out, k) /\ k <= Len(out)
  BY <1>1 DEF Laying, LastEnd
<1>13. Tab # Newline /\ Space # Newline
  BY DEF Tab, Newline, Space
<1> HIDE DEF out, A, B
<1>14. CASE bol[l]
  <2>1. k = Len(out) /\ NewLine(out, k)
    BY <1>6, <1>14 DEF Going, out
  <2>2. todo'[l] = (A \o <<ColumnZero>>) \o B
    BY <1>3, <1>4, <1>14, LayoutIs DEF A, B
  <2>3. Len(out) - k + Len(A) = PrefixLength(l) /\ (B = <<>> => ~bol'[l])
    <3>1. Len(out) - k + Len(A) = PrefixLength(l)
      BY <1>7, <1>9, <2>1
    <3>2. QED
      BY <1>4, <1>9, <1>13, <3>1
  <2>4. (out \o A) \o B = LaidOut(l)'
    <3>1. (out \o A) \o B = out \o (A \o B)
      BY <1>7, <1>9, ConcatAssociative
    <3>2. LaidOut(l)' = out \o (A \o B)
      BY <1>11, <1>14
    <3>3. QED
      BY <3>1, <3>2, Zenon
  <2>5. B # <<>> => (bol'[l] <=> B[Len(B)] = Newline)
    BY <1>4, <1>9, <1>13
  <2>6. \E u \in Seq(Inside(l)), v \in Seq(Glyphs) : u = A /\ v = B
    BY <1>9
  <2>7. PICK u \in Seq(Inside(l)), v \in Seq(Glyphs) : u = A /\ v = B
    BY <2>6
  <2>8. Starting(l, u, v, k)'
    BY <1>8, <2>1, <2>2, <2>3, <2>7 DEF Starting
  <2>9. Laying(l, u, v, k)'
    BY <1>8, <1>9, <1>12, <2>4, <2>5, <2>7, <2>8 DEF Laying
  <2>10. QED
    BY <2>9 DEF LayOK
<1>15. CASE ~bol[l]
  <2>1. todo'[l] = <<char>>
    BY <1>3, <1>4, <1>15, LayoutIs
  <2>2. PICK v \in Seq(Glyphs) : v = <<char>>
    BY <1>5, OneSeq
  <2>3. Len(v) = 1 /\ v[1] = char /\ v # <<>>
    BY <1>5, <2>2, OneSeq
  <2>4. Going(l, <<>>, v, k)'
    BY <1>4, <1>6, <1>8, <1>15, <2>1, <2>2, <2>3 DEF Going, out
  <2>5. (out \o <<>>) \o v = LaidOut(l)'
    BY <1>7, <1>11, <1>15, <2>2, ConcatEmptySeq
  <2>6. Laying(l, <<>>, v, k)'
    <3>1. LastEnd(Shown(l), k)' /\ ((Shown(l) \o <<>>) \o v = LaidOut(l))'
      BY <1>8, <1>12, <2>5
    <3>2. (v # <<>> => (bol[l] <=> v[Len(v)] = Newline))'
      BY <1>4, <2>3
    <3>3. \A i \in 1..(Len(v) - 1) : v[i] \notin LineEnds
      BY <2>3
    <3>4. QED
      BY <2>4, <3>1, <3>2, <3>3 DEF Laying
  <2>7. <<>> \in Seq(Inside(l))
    BY EmptySeq
  <2>8. QED
    BY <2>6, <2>7 DEF LayOK
<1>16. QED
  BY <1>14, <1>15

(***************************************************************************)
(* The margin is done.                                                     *)
(***************************************************************************)
LEMMA NotYetMarked ==
  ASSUME NEW l \in Logs, NEW a \in Seq(Inside(l)), NEW b \in Seq(Glyphs)
  PROVE  /\ a # <<>> => Head((a \o <<ColumnZero>>) \o b) = Head(a) /\ Head(a) \in Inside(l)
                        /\ Tail((a \o <<ColumnZero>>) \o b) = (Tail(a) \o <<ColumnZero>>) \o b
         /\ a = <<>> => Head((a \o <<ColumnZero>>) \o b) = ColumnZero
                        /\ Tail((a \o <<ColumnZero>>) \o b) = b
<1> DEFINE S == Glyphs \union {ColumnZero}
<1>1. /\ a \in Seq(S) /\ b \in Seq(S) /\ <<ColumnZero>> \in Seq(S)
      /\ <<ColumnZero>> # <<>> /\ Head(<<ColumnZero>>) = ColumnZero /\ Tail(<<ColumnZero>>) = <<>>
  BY Sets, SeqMonotonic, OneSeq
<1> HIDE DEF S
<1>2. /\ (a \o <<ColumnZero>>) \o b = a \o (<<ColumnZero>> \o b) /\ <<ColumnZero>> \o b \in Seq(S)
  BY <1>1, ConcatAssociative, ConcatProperties
<1>3. ASSUME a # <<>>
      PROVE  /\ Head((a \o <<ColumnZero>>) \o b) = Head(a) /\ Head(a) \in Inside(l)
             /\ Tail((a \o <<ColumnZero>>) \o b) = (Tail(a) \o <<ColumnZero>>) \o b
  <2>1. Head(a) \in Inside(l)
    BY <1>3, HeadTailProperties
  <2>2. /\ Head(a \o (<<ColumnZero>> \o b)) = Head(a) /\ Tail(a) \in Seq(S)
        /\ Tail(a \o (<<ColumnZero>> \o b)) = Tail(a) \o (<<ColumnZero>> \o b)
    BY <1>1, <1>2, <1>3, HeadOfConcat
  <2>3. (Tail(a) \o <<ColumnZero>>) \o b = Tail(a) \o (<<ColumnZero>> \o b)
    BY <1>1, <2>2, ConcatAssociative
  <2>4. QED
    BY <1>2, <2>1, <2>2, <2>3
<1>4. ASSUME a = <<>>
      PROVE  /\ Head((a \o <<ColumnZero>>) \o b) = ColumnZero
             /\ Tail((a \o <<ColumnZero>>) \o b) = b
  <2>1. (a \o <<ColumnZero>>) \o b = <<ColumnZero>> \o b
    BY <1>1, <1>4, ConcatEmptySeq
  <2>2. Head(<<ColumnZero>> \o b) = ColumnZero /\ Tail(<<ColumnZero>> \o b) = <<>> \o b
    BY <1>1, HeadOfConcat
  <2>3. QED
    BY <1>1, <2>1, <2>2, ConcatEmptySeq
<1>5. QED
  BY <1>3, <1>4

LEMMA ZeroColumnLays ==
  ASSUME StateInv, NEW l \in Logs, LayOK(l), ZeroColumn(l)
  PROVE  LayOK(l)'
<1>1. PICK a \in Seq(Inside(l)), b \in Seq(Glyphs), k \in Nat : Laying(l, a, b, k)
  BY Zenon DEF LayOK
<1>2. /\ todo[l] # <<>> /\ Head(todo[l]) = ColumnZero
      /\ todo' = [todo EXCEPT ![l] = Tail(@)] /\ column' = [column EXCEPT ![l] = 0]
      /\ bol' = bol /\ wrote' = wrote
  BY DEF ZeroColumn, history
<1>3. todo'[l] = Tail(todo[l]) /\ column'[l] = 0 /\ bol'[l] = bol[l]
  BY <1>2 DEF StateInv, TypeOK, TextTypes
<1>4. ~Going(l, a, b, k)
  <2>1. b # <<>> => Head(b) \in Glyphs
    BY HeadTailProperties
  <2>2. QED
    BY <1>2, <2>1, Sets DEF Going
<1>5. Starting(l, a, b, k)
  BY <1>1, <1>4 DEF Laying
<1>6. a = <<>>
  <2>1. ASSUME a # <<>> PROVE FALSE
    <3>1. Head(todo[l]) \in Inside(l)
      BY <1>5, <2>1, NotYetMarked DEF Starting
    <3>2. QED
      BY <1>2, <3>1, Sets
  <2>2. QED
    BY <2>1
<1>7. todo'[l] = b
  BY <1>3, <1>5, <1>6, NotYetMarked DEF Starting
<1>8. Shown(l)' = Shown(l)
  <2>1. ~RawChar(l)
    BY <1>2 DEF RawChar
  <2>2. QED
    BY <2>1, ShownStays DEF Step, Write
<1>9. LaidOut(l)' = LaidOut(l)
  BY <1>2 DEF LaidOut, LaidOutAt, StartsLine
<1>10. Shown(l) \in Seq(Glyphs) /\ Len(Shown(l)) \in Nat /\ PrefixLength(l) \in Nat
  BY ShownType, LenProperties, PrefixLengthType
<1>11. Len(Shown(l)) - k = PrefixLength(l) /\ NewLine(Shown(l), k) /\ (b = <<>> => ~bol[l])
  <2>1. Len(a) = 0
    BY <1>6
  <2>2. QED
    BY <1>5, <1>10, <2>1 DEF Starting
<1>12. Going(l, a, b, k)'
  <2>1. k <= Len(Shown(l))
    BY <1>1 DEF Laying, LastEnd
  <2>2. column'[l] = Len(Shown(l)) - k -
          (IF k < Len(Shown(l)) /\ NewLine(Shown(l), k) THEN PrefixLength(l) ELSE 0)
    BY <1>3, <1>10, <1>11, <2>1
  <2>3. PrefixLength(l) = 0 \/ k < Len(Shown(l))
    BY <1>10, <1>11
  <2>4. ~(b = <<>> /\ bol'[l])
    BY <1>3, <1>11
  <2>5. QED
    BY <1>6, <1>7, <1>8, <2>2, <2>3, <2>4 DEF Going
<1>13. Laying(l, a, b, k)'
  BY <1>1, <1>3, <1>8, <1>9, <1>12 DEF Laying
<1>14. QED
  BY <1>13 DEF LayOK

(***************************************************************************)
(* A character is shown.                                                   *)
(***************************************************************************)
LEMMA RawCharShows ==
  ASSUME StateInv, NEW l \in Logs, RawChar(l)
  PROVE  /\ Shown(l)' = Append(Shown(l), Head(todo[l]))
         /\ todo[l] # <<>> /\ Head(todo[l]) # ColumnZero /\ Head(todo[l]) \in Glyphs
         /\ todo'[l] = Tail(todo[l]) /\ column'[l] = ColumnAfter(column[l], Head(todo[l]))
         /\ (bol'[l] <=> bol[l]) /\ LaidOut(l)' = LaidOut(l)
<1> DEFINE x == Head(todo[l])
<1>1. /\ pc[l] = "writing" /\ todo[l] # <<>> /\ x # ColumnZero
      /\ buffer' = [buffer EXCEPT ![l] = Append(@, x)]
      /\ column' = [column EXCEPT ![l] = ColumnAfter(@, x)]
      /\ todo' = [todo EXCEPT ![l] = Tail(@)]
      /\ UNCHANGED <<bol, printed, text, wrote>>
  BY DEF RawChar, Goto, history
<1>2. x \in Glyphs
  BY <1>1, HeadTailProperties, Sets DEF StateInv, TextTypes
<1>3. printed[l] = 0 /\ printed'[l] = 0
  BY <1>1 DEF StateInv, CallOK
<1>4. buffer[l] \in Seq(Glyphs) /\ PrintedBy(l) \in Seq(Glyphs)
  BY ShownType DEF StateInv, TextTypes
<1> HIDE DEF x
<1>5. buffer'[l] = Append(buffer[l], x) /\ Append(buffer[l], x) \in Seq(Glyphs)
  BY <1>1, <1>2, <1>4, AppendProperties DEF StateInv, TextTypes
<1>6. Rest(l)' = Append(buffer[l], x) /\ Rest(l) = buffer[l]
  BY <1>3, <1>4, <1>5, SubSeqFull DEF Rest
<1>7. PrintedBy(l)' = PrintedBy(l)
  BY <1>1 DEF PrintedBy
<1>8. Shown(l)' = PrintedBy(l) \o Append(buffer[l], x)
  BY <1>6, <1>7 DEF Shown
<1>9. PrintedBy(l) \o Append(buffer[l], x) = Append(PrintedBy(l) \o buffer[l], x)
  <2>1. <<x>> \in Seq(Glyphs) /\ PrintedBy(l) \o buffer[l] \in Seq(Glyphs)
    BY <1>2, <1>4, OneSeq, ConcatProperties
  <2>2. Append(buffer[l], x) = buffer[l] \o <<x>>
    BY <1>2, <1>4, AppendIsConcat
  <2>3. Append(PrintedBy(l) \o buffer[l], x) = (PrintedBy(l) \o buffer[l]) \o <<x>>
    BY <1>2, <2>1, AppendIsConcat
  <2>4. (PrintedBy(l) \o buffer[l]) \o <<x>> = PrintedBy(l) \o (buffer[l] \o <<x>>)
    <3>1. \A p, b, t \in Seq(Glyphs) : (p \o b) \o t = p \o (b \o t)
      BY ConcatAssociative
    <3>2. QED
      BY <1>4, <2>1, <3>1
  <2>5. QED
    BY <2>2, <2>3, <2>4
<1>10. Shown(l)' = Append(Shown(l), x)
  BY <1>6, <1>8, <1>9 DEF Shown
<1>11. LaidOut(l)' = LaidOut(l)
  BY <1>1 DEF LaidOut, LaidOutAt, StartsLine
<1>12. todo'[l] = Tail(todo[l]) /\ column'[l] = ColumnAfter(column[l], x) /\ (bol'[l] <=> bol[l])
  BY <1>1 DEF StateInv, TypeOK, TextTypes
<1>13. QED
  BY <1>1, <1>2, <1>10, <1>11, <1>12 DEF x

LEMMA RawCharLays ==
  ASSUME StateInv, NEW l \in Logs, LayOK(l), RawChar(l)
  PROVE  LayOK(l)'
<1> DEFINE out == Shown(l)
           x == Head(todo[l])
           new == Append(out, x)
<1>1. PICK a \in Seq(Inside(l)), b \in Seq(Glyphs), k \in Nat : Laying(l, a, b, k)
  BY Zenon DEF LayOK
<1>2. /\ Shown(l)' = new /\ todo[l] # <<>> /\ x # ColumnZero /\ x \in Glyphs
      /\ todo'[l] = Tail(todo[l]) /\ column'[l] = ColumnAfter(column[l], x)
      /\ (bol'[l] <=> bol[l]) /\ LaidOut(l)' = LaidOut(l)
  BY RawCharShows
<1>3. out \in Seq(Glyphs) /\ Len(out) \in Nat /\ PrefixLength(l) \in Nat /\ column[l] \in Nat
      /\ Len(a) \in Nat /\ Len(b) \in Nat
  BY ShownType, LenProperties, PrefixLengthType DEF StateInv, TypeOK
<1>4. LastEnd(out, k) /\ (out \o a) \o b = LaidOut(l)
  BY <1>1 DEF Laying
<1> HIDE DEF out, x
<1>5. /\ Len(new) = Len(out) + 1 /\ k <= Len(out)
      /\ x \in LineEnds => /\ LastEnd(new, Len(out) + 1)
                           /\ NewLine(new, Len(out) + 1) <=> x = Newline
      /\ x \notin LineEnds => /\ LastEnd(new, k)
                              /\ NewLine(new, k) <=> NewLine(out, k)
  BY <1>2, <1>3, <1>4, EndGrows
<1>6. Inside(l) \subseteq Glyphs /\ Inside(l) \intersect LineEnds = {}
  BY Sets DEF LineEnds
<1> HIDE DEF new
<1>7. CASE Starting(l, a, b, k)
  <2>1. a # <<>>
    BY <1>2, <1>7, NotYetMarked DEF Starting, x
  <2>2. x = Head(a) /\ x \in Inside(l) /\ todo'[l] = (Tail(a) \o <<ColumnZero>>) \o b
    BY <1>2, <1>7, <2>1, NotYetMarked DEF Starting, x
  <2>3. x \notin LineEnds
    BY <1>6, <2>2
  <2>4. Tail(a) \in Seq(Inside(l)) /\ Len(Tail(a)) = Len(a) - 1
    BY <2>1, HeadTailProperties
  <2>5. Len(new) - k + Len(Tail(a)) = PrefixLength(l)
    BY <1>3, <1>5, <1>7, <2>4 DEF Starting, out
  <2>6. PICK u \in Seq(Inside(l)) : u = Tail(a)
    BY <2>4
  <2>7. Starting(l, u, b, k)'
    BY <1>2, <1>5, <1>7, <2>2, <2>3, <2>5, <2>6 DEF Starting, out
  <2>8. (new \o u) \o b = LaidOut(l)
    <3>1. a \in Seq(Glyphs)
      BY <1>6, SeqMonotonic
    <3>2. new \o u = out \o a
      BY <1>3, <2>1, <2>2, <2>6, <3>1, OneAfterAnother DEF new
    <3>3. QED
      BY <1>4, <3>2
  <2>9. Laying(l, u, b, k)'
    BY <1>1, <1>2, <1>5, <2>3, <2>7, <2>8 DEF Laying
  <2>10. QED
    BY <2>9 DEF LayOK
<1>8. CASE Going(l, a, b, k)
  <2>1. a = <<>> /\ todo[l] = b /\ b # <<>> /\ x = Head(b)
    BY <1>2, <1>8 DEF Going, x
  <2>2. /\ Tail(b) \in Seq(Glyphs) /\ Len(Tail(b)) = Len(b) - 1 /\ x = b[1] /\ Len(b) > 0
        /\ \A i \in 1..Len(Tail(b)) : Tail(b)[i] = b[i + 1]
    BY <1>3, <2>1, HeadTailProperties, EmptySeq
  <2>3. PICK v \in Seq(Glyphs) : v = Tail(b)
    BY <2>2
  <2>4. Len(v) = Len(b) - 1 /\ (v = <<>> <=> Len(b) = 1)
    <3>1. v = <<>> <=> Len(v) = 0
      BY EmptySeq
    <3>2. QED
      BY <1>3, <2>2, <2>3, <3>1
  <2>5. (new \o <<>>) \o v = LaidOut(l)
    <3>1. new \in Seq(Glyphs)
      BY <1>2, <1>3, EndGrows, <1>4 DEF new
    <3>2. new \o v = out \o b
      BY <1>3, <2>1, <2>3, OneAfterAnother DEF new
    <3>3. (out \o a) \o b = out \o b /\ new \o <<>> = new
      BY <1>3, <2>1, <3>1, ConcatEmptySeq
    <3>4. QED
      BY <1>4, <3>2, <3>3
  <2>6. x \in LineEnds => v = <<>>
    <3>1. \A i \in 1..(Len(b) - 1) : b[i] \notin LineEnds
      BY <1>1 DEF Laying
    <3>2. QED
      BY <1>3, <2>2, <2>4, <3>1
  <2>7. v # <<>> => v[Len(v)] = b[Len(b)]
    BY <1>3, <2>2, <2>3, <2>4
  <2>8. \A i \in 1..(Len(v) - 1) : v[i] \notin LineEnds
    <3>1. ASSUME NEW i \in 1..(Len(v) - 1) PROVE v[i] \notin LineEnds
      <4>1. v[i] = b[i + 1] /\ i + 1 \in 1..(Len(b) - 1)
        BY <1>3, <2>2, <2>3, <2>4
      <4>2. QED
        BY <1>1, <4>1 DEF Laying
    <3>2. QED
      BY <3>1
  <2>9. bol[l] <=> b[Len(b)] = Newline
    BY <1>1, <2>1 DEF Laying
  <2>10. v # <<>> => (bol'[l] <=> v[Len(v)] = Newline)
    BY <1>2, <2>7, <2>9
  <2>11. v = <<>> => (bol[l] <=> x = Newline)
    BY <2>2, <2>4, <2>9
  <2>12. todo'[l] = v
    BY <1>2, <2>1, <2>3
  <2>13. /\ column[l] = Len(out) - k - (IF k < Len(out) /\ NewLine(out, k) THEN PrefixLength(l) ELSE 0)
         /\ PrefixLength(l) = 0 \/ k < Len(out) \/ ~NewLine(out, k)
    BY <1>8, <2>1 DEF Going, out
  <2>14. <<>> \in Seq(Inside(l))
    BY EmptySeq
  <2>15. CASE x \in LineEnds
    <3>1. column'[l] = 0
      BY <1>2, <2>15 DEF ColumnAfter, LineEnds
    <3>2. PICK m \in Nat : m = Len(out) + 1
      BY <1>3
    <3>3. m = Len(new) /\ (NewLine(new, m) <=> x = Newline) /\ LastEnd(new, m)
      BY <1>5, <2>15, <3>2
    <3>4. Going(l, <<>>, v, m)'
      <4>1. v = <<>> /\ Len(new) - m = 0 /\ m # 0
        BY <1>3, <1>5, <2>6, <2>15, <3>2
      <4>2. column'[l] = Len(new) - m - (IF m < Len(new) /\ NewLine(new, m) THEN PrefixLength(l) ELSE 0)
        BY <1>3, <1>5, <3>1, <3>2
      <4>3. bol'[l] <=> NewLine(new, m)
        BY <1>2, <2>11, <3>3, <4>1
      <4>4. QED
        BY <1>2, <2>12, <3>3, <4>1, <4>2, <4>3 DEF Going
    <3>5. Laying(l, <<>>, v, m)'
      BY <1>2, <2>5, <2>8, <2>10, <3>3, <3>4 DEF Laying
    <3>6. QED
      BY <2>14, <3>5 DEF LayOK
  <2>16. CASE x \notin LineEnds
    <3>1. column'[l] = column[l] + 1
      BY <1>2, <2>16 DEF ColumnAfter, LineEnds
    <3>2. LastEnd(new, k) /\ (NewLine(new, k) <=> NewLine(out, k)) /\ k < Len(new)
      BY <1>3, <1>5, <2>16
    <3>3. column'[l] = Len(new) - k - (IF k < Len(new) /\ NewLine(new, k) THEN PrefixLength(l) ELSE 0)
      BY <1>3, <1>5, <2>13, <3>1, <3>2
    <3>4. v = <<>> => ~bol[l]
      BY <2>11, <2>16 DEF LineEnds
    <3>5. Going(l, <<>>, v, k)'
      BY <1>2, <2>12, <3>2, <3>3, <3>4 DEF Going
    <3>6. Laying(l, <<>>, v, k)'
      BY <1>2, <2>5, <2>8, <2>10, <3>2, <3>5 DEF Laying
    <3>7. QED
      BY <2>14, <3>6 DEF LayOK
  <2>17. QED
    BY <2>15, <2>16
<1>9. QED
  BY <1>1, <1>7, <1>8 DEF Laying

LEMMA LayStays ==
  ASSUME NEW l \in Logs, LayOK(l), Shown(l)' = Shown(l), todo'[l] = todo[l],
         column'[l] = column[l], bol'[l] = bol[l], wrote'[l] = wrote[l]
  PROVE  LayOK(l)'
<1>1. PICK a \in Seq(Inside(l)), b \in Seq(Glyphs), k \in Nat : Laying(l, a, b, k)
  BY Zenon DEF LayOK
<1>2. LaidOut(l)' = LaidOut(l)
  BY DEF LaidOut, LaidOutAt, StartsLine
<1>3. (Starting(l, a, b, k) <=> Starting(l, a, b, k)') /\ (Going(l, a, b, k) <=> Going(l, a, b, k)')
  BY DEF Starting, Going
<1>4. Laying(l, a, b, k)'
  BY <1>1, <1>2, <1>3 DEF Laying
<1>5. QED
  BY <1>4 DEF LayOK

LEMMA LayStep ==
  ASSUME StateInv, LayInv, [Next]_vars
  PROVE  LayInv'
<1>1. ASSUME NEW l \in Logs, Step(l), NEW m \in Logs PROVE BolOK(m)' /\ LayOK(m)'
  <2>1. CASE m # l
    <3>1. Shown(m)' = Shown(m)
      BY <1>1, <2>1, ShownStays
    <3>2. /\ todo'[m] = todo[m] /\ bol'[m] = bol[m] /\ column'[m] = column[m]
          /\ wrote'[m] = wrote[m]
      BY <1>1, <2>1, OthersStay
    <3>3. BolOK(m)'
      BY <3>2 DEF LayInv, BolOK
    <3>4. QED
      BY <3>1, <3>2, <3>3, LayStays DEF LayInv
  <2>2. CASE m = l
    <3>1. ASSUME NEW char \in Chars, c(l, char) PROVE BolOK(l)' /\ LayOK(l)'
      BY <3>1, CLays, LaidOutGrows DEF LayInv
    <3>2. CASE ZeroColumn(l)
      <4>1. BolOK(l)'
        BY <3>2 DEF ZeroColumn, history, LayInv, BolOK
      <4>2. QED
        BY <2>2, <3>2, <4>1, ZeroColumnLays DEF LayInv
    <3>3. CASE RawChar(l)
      <4>1. BolOK(l)'
        BY <3>3 DEF RawChar, history, LayInv, BolOK
      <4>2. QED
        BY <2>2, <3>3, <4>1, RawCharLays DEF LayInv
    <3>4. ASSUME ~ZeroColumn(l), ~RawChar(l), \A char \in Chars : ~c(l, char)
          PROVE  BolOK(l)' /\ LayOK(l)'
      <4>1. Shown(l)' = Shown(l)
        BY <1>1, <3>4, ShownStays
      <4>2. UNCHANGED <<todo, bol, column, wrote>>
        BY <1>1, <3>4 DEF Step, Write, EnsureBOL, Chars, Lock, PrintChar, Flushed, Flush,
           SetLogPrinter, PushIndent, PushIndentInternal, PopIndent, Enable, Disable, Count, history
      <4>3. BolOK(l)'
        BY <4>2 DEF LayInv, BolOK
      <4>4. QED
        BY <4>1, <4>2, <4>3, LayStays DEF LayInv
    <3>5. QED
      BY <2>2, <3>1, <3>2, <3>3, <3>4
  <2>3. QED
    BY <2>1, <2>2
<1>2. CASE UNCHANGED vars
  <2>1. ASSUME NEW m \in Logs PROVE BolOK(m)' /\ LayOK(m)'
    <3>1. UNCHANGED <<todo, bol, column, wrote, text, buffer, printed>>
      BY <1>2 DEF vars, history
    <3>2. Shown(m)' = Shown(m)
      BY <3>1 DEF Shown, PrintedBy, Rest
    <3>3. BolOK(m)'
      BY <3>1 DEF LayInv, BolOK
    <3>4. QED
      BY <3>1, <3>2, <3>3, LayStays DEF LayInv
  <2>2. QED
    BY <2>1 DEF LayInv
<1>3. QED
  BY <1>1, <1>2 DEF Next, Finished, LayInv

-----------------------------------------------------------------------------
(***************************************************************************)
(* The lines of a text t: which of its entries end a line of l, and how    *)
(* many do; the line that entry i is in; and the entries of a line.        *)
(***************************************************************************)
Entries == [log : Logs, printer : Printers, char : Glyphs]

EndsIn(t, l, n) == {j \in 1..n : t[j].log = l /\ t[j].char = Newline}
LinesIn(t, l) == Cardinality(EndsIn(t, l, Len(t)))
AtIn(t, i) == <<t[i].log, Cardinality(EndsIn(t, t[i].log, i - 1))>>
NowIn(t, l) == <<l, LinesIn(t, l)>>
OfIn(t, line) == {i \in 1..Len(t) : AtIn(t, i) = line}

LEMMA LinesAreThose ==
  /\ \A l : Line(l) = LinesIn(text, l)
  /\ \A i : LineAt(i) = AtIn(text, i)
  /\ \A line : LineOf(line) = OfIn(text, line)
BY DEF Line, LineAt, LineOf, LinesIn, AtIn, OfIn, EndsIn

LEMMA EndsFinite ==
  ASSUME NEW t, NEW l, NEW n \in Nat
  PROVE  IsFiniteSet(EndsIn(t, l, n)) /\ Cardinality(EndsIn(t, l, n)) \in Nat
<1>1. IsFiniteSet(1..n) /\ EndsIn(t, l, n) \subseteq 1..n
  BY FS_Interval DEF EndsIn
<1>2. QED
  BY <1>1, FS_Subset, FS_CardinalityType

LEMMA LinesGoUp ==
  ASSUME NEW t \in Seq(Entries), NEW i \in 1..Len(t), NEW l, NEW n, AtIn(t, i) = <<l, n>>
  PROVE  n <= LinesIn(t, l) /\ n \in Nat /\ LinesIn(t, l) \in Nat /\ t[i].log = l
<1>1. Len(t) \in Nat /\ t[i].log = l /\ n = Cardinality(EndsIn(t, l, i - 1))
  BY DEF AtIn
<1>2. i - 1 \in Nat /\ i - 1 <= Len(t)
  BY <1>1
<1>3. EndsIn(t, l, i - 1) \subseteq EndsIn(t, l, Len(t))
  BY <1>1, <1>2 DEF EndsIn
<1>4. IsFiniteSet(EndsIn(t, l, Len(t))) /\ Cardinality(EndsIn(t, l, Len(t))) \in Nat
      /\ Cardinality(EndsIn(t, l, i - 1)) \in Nat
  BY <1>1, <1>2, EndsFinite
<1>5. Cardinality(EndsIn(t, l, i - 1)) <= Cardinality(EndsIn(t, l, Len(t)))
  BY <1>3, <1>4, FS_Subset
<1>6. QED
  BY <1>1, <1>4, <1>5 DEF LinesIn

LEMMA LineFinite ==
  ASSUME NEW t \in Seq(Entries), NEW line
  PROVE  /\ OfIn(t, line) \subseteq 1..Len(t) /\ IsFiniteSet(OfIn(t, line))
         /\ Cardinality(OfIn(t, line)) \in Nat
<1>1. Len(t) \in Nat /\ OfIn(t, line) \subseteq 1..Len(t)
  BY DEF OfIn
<1>2. IsFiniteSet(1..Len(t))
  BY <1>1, FS_Interval
<1>3. IsFiniteSet(OfIn(t, line))
  BY <1>1, <1>2, FS_Subset
<1>4. QED
  BY <1>1, <1>3, FS_CardinalityType

LEMMA MaxIsLast ==
  ASSUME NEW n \in Nat, NEW S, S \subseteq 1..n, S # {}
  PROVE  Max(S) \in S /\ \A y \in S : y <= Max(S)
<1> DEFINE T == {m \in Nat : \A y \in S : y <= m}
<1>1. n \in T
  OBVIOUS
<1>2. T \subseteq Nat /\ T # {}
  BY <1>1
<1> HIDE DEF T
<1>3. PICK m \in T : \A y \in T : m <= y
  BY <1>2, LeastNumber
<1>4. m \in Nat /\ \A y \in S : y <= m
  BY <1>3 DEF T
<1>5. m \in S
  <2>1. ASSUME m \notin S PROVE FALSE
    <3>1. PICK z \in S : TRUE
      OBVIOUS
    <3>2. z \in 1..n /\ z <= m
      BY <1>4
    <3>3. m - 1 \in Nat /\ \A y \in S : y <= m - 1
      BY <1>4, <2>1, <3>2
    <3>4. m - 1 \in T
      BY <3>3 DEF T
    <3>5. QED
      BY <1>3, <1>4, <3>4
  <2>2. QED
    BY <2>1
<1>6. \E x \in S : \A y \in S : x >= y
  BY <1>4, <1>5
<1>7. Max(S) \in S /\ \A y \in S : Max(S) >= y
  BY <1>6 DEF Max
<1>8. QED
  BY <1>4, <1>7

(***************************************************************************)
(* What one entry more does to the lines.                                  *)
(***************************************************************************)
Grows(t, e, u) ==
  /\ Len(t) \in Nat /\ Len(u) = Len(t) + 1 /\ u[Len(t) + 1] = e
  /\ \A i \in 1..Len(t) : u[i] = t[i] /\ AtIn(u, i) = AtIn(t, i)
  /\ \A m : LinesIn(t, m) \in Nat
  /\ \A m : m = e.log /\ e.char = Newline => LinesIn(u, m) = LinesIn(t, m) + 1
  /\ \A m : m # e.log \/ e.char # Newline => LinesIn(u, m) = LinesIn(t, m)
  /\ \A line : line # NowIn(t, e.log) => OfIn(u, line) = OfIn(t, line)
  /\ \A line : line = NowIn(t, e.log) => OfIn(u, line) = OfIn(t, line) \union {Len(t) + 1}

LEMMA LinesGrow ==
  ASSUME NEW t \in Seq(Entries), NEW e \in Entries, NEW u, u = Append(t, e)
  PROVE  Grows(t, e, u)
<1> DEFINE n == Len(t) + 1
           now == NowIn(t, e.log)
<1>1. /\ Len(t) \in Nat /\ Len(u) = n /\ u[n] = e
      /\ \A i \in 1..Len(t) : u[i] = t[i]
  BY AppendProperties
<1> HIDE DEF n
<1>2. n \in Nat \ {0} /\ n = Len(t) + 1 /\ n - 1 = Len(t)
  BY <1>1 DEF n
<1>3. ASSUME NEW m, NEW i \in 0..Len(t) PROVE EndsIn(u, m, i) = EndsIn(t, m, i)
  <2>1. \A j \in 1..i : u[j] = t[j]
    BY <1>1
  <2>2. QED
    BY <2>1 DEF EndsIn
<1>4. ASSUME NEW i \in 1..Len(t) PROVE AtIn(u, i) = AtIn(t, i)
  <2>1. i - 1 \in 0..Len(t) /\ u[i] = t[i]
    BY <1>1
  <2>2. QED
    BY <1>3, <2>1 DEF AtIn
<1>5. AtIn(u, n) = now
  <2>1. Len(t) \in 0..Len(t)
    BY <1>1
  <2>2. QED
    BY <1>1, <1>2, <1>3, <2>1 DEF AtIn, LinesIn, NowIn
<1>6. ASSUME NEW m
      PROVE  /\ LinesIn(u, m) = IF m = e.log /\ e.char = Newline THEN LinesIn(t, m) + 1 ELSE LinesIn(t, m)
             /\ LinesIn(t, m) \in Nat
  <2> DEFINE old == EndsIn(t, m, Len(t))
             new == EndsIn(u, m, n)
  <2>1. \A i \in 1..n : i \in 1..Len(t) \/ i = n
    BY <1>1, <1>2
  <2>2. 1..Len(t) \subseteq 1..n /\ n \in 1..n /\ n \notin 1..Len(t)
    BY <1>1, <1>2
  <2>3. CASE m = e.log /\ e.char = Newline
    <3>1. new = old \union {n}
      BY <1>1, <2>1, <2>2, <2>3 DEF EndsIn
    <3>2. IsFiniteSet(old) /\ n \notin old /\ Cardinality(old) \in Nat
      BY <1>1, <2>2, EndsFinite DEF EndsIn
    <3>3. Cardinality(old \union {n}) = Cardinality(old) + 1
      BY <3>2, FS_AddElement
    <3>4. QED
      BY <1>1, <2>3, <3>1, <3>2, <3>3 DEF LinesIn
  <2>4. CASE ~(m = e.log /\ e.char = Newline)
    <3>1. new = old
      BY <1>1, <2>1, <2>2, <2>4 DEF EndsIn
    <3>2. Cardinality(old) \in Nat
      BY <1>1, EndsFinite
    <3>3. QED
      BY <1>1, <2>4, <3>1, <3>2 DEF LinesIn
  <2>5. QED
    BY <2>3, <2>4
<1> HIDE DEF now
<1>7. ASSUME NEW line
      PROVE  OfIn(u, line) = IF line = now THEN OfIn(t, line) \union {n} ELSE OfIn(t, line)
  <2>1. \A i \in 1..n : i \in 1..Len(t) \/ i = n
    BY <1>1, <1>2
  <2>2. 1..Len(t) \subseteq 1..n /\ n \in 1..n
    BY <1>1, <1>2
  <2>3. OfIn(u, line) = {i \in 1..n : AtIn(u, i) = line}
    BY <1>1 DEF OfIn
  <2>4. OfIn(t, line) = {i \in 1..Len(t) : AtIn(t, i) = line}
    BY DEF OfIn
  <2>5. QED
    BY <1>4, <1>5, <2>1, <2>2, <2>3, <2>4
<1>8. QED
  BY <1>1, <1>4, <1>6, <1>7 DEF n, now, Grows

-----------------------------------------------------------------------------
(***************************************************************************)
(* The line that a log is in has nothing in the text until its buffer is   *)
(* printed, unless a part of it was flushed early or filled a buffer;      *)
(* while the buffer is printed, it is in one piece.  A buffer is flushed   *)
(* because it ends a line, because it is full, or because somebody asked.  *)
(***************************************************************************)
Now(l) == NowIn(text, l)
Mine(l) == OfIn(text, Now(l))

Ended(l) == printed[l] = Len(buffer[l]) /\ buffer[l][Len(buffer[l])] = Newline

Together(t, line) ==
  \A i \in OfIn(t, line) : \A k \in i..Len(t) : t[k].printer = t[i].printer => k \in OfIn(t, line)

Whole(t, line) ==
  \A i \in OfIn(t, line) : \A k \in i..Max(OfIn(t, line)) :
    t[k].printer = t[i].printer => k \in OfIn(t, line)

Coming(l) ==
  /\ ~Ended(l)
  /\ Cardinality(Mine(l)) = printed[l]
  /\ \A i \in Mine(l) : text[i].printer = printer[l]
  /\ Together(text, Now(l))

LineOK(l) ==
  \/ Now(l) \in asked
  \/ Cardinality(Mine(l)) >= MAX_BUFFER_SIZE - 1
  \/ (pc[l] # "printing" \/ Ended(l)) /\ Mine(l) = {}
  \/ pc[l] = "printing" /\ Coming(l)

FlushOK(l) ==
  pc[l] \in {"flushing", "printing"} =>
    \/ buffer[l][Len(buffer[l])] = Newline
    \/ Len(buffer[l]) = MAX_BUFFER_SIZE - 1
    \/ Now(l) \in asked

WholeLines ==
  \A line : line \notin asked /\ Cardinality(OfIn(text, line)) < MAX_BUFFER_SIZE - 1
              => Whole(text, line)

LineInv == WholeLines /\ \A l \in Logs : LineOK(l) /\ FlushOK(l)

LEMMA TogetherIsWhole ==
  ASSUME NEW t \in Seq(Entries), NEW line, Together(t, line)
  PROVE  Whole(t, line)
<1>1. Len(t) \in Nat /\ OfIn(t, line) \subseteq 1..Len(t)
  BY LineFinite
<1>2. ASSUME NEW i \in OfIn(t, line) PROVE i \in Nat /\ Max(OfIn(t, line)) \in Nat /\ Max(OfIn(t, line)) <= Len(t)
  BY <1>1, MaxIsLast
<1>3. ASSUME NEW i \in OfIn(t, line), NEW k \in i..Max(OfIn(t, line)) PROVE k \in i..Len(t)
  BY <1>1, <1>2
<1>4. QED
  BY <1>3 DEF Together, Whole

(***************************************************************************)
(* A line that gets no more stays as whole as it was.                      *)
(***************************************************************************)
LEMMA OtherLineStaysWhole ==
  ASSUME NEW t \in Seq(Entries), NEW e \in Entries, NEW u, u = Append(t, e),
         NEW line, line # NowIn(t, e.log), Whole(t, line)
  PROVE  Whole(u, line)
<1>0. Grows(t, e, u)
  BY LinesGrow
<1>1. /\ Len(t) \in Nat /\ OfIn(u, line) = OfIn(t, line)
      /\ \A i \in 1..Len(t) : u[i] = t[i]
  BY <1>0 DEF Grows
<1>2. OfIn(t, line) \subseteq 1..Len(t)
  BY LineFinite
<1>3. ASSUME NEW i \in OfIn(t, line), NEW k \in i..Max(OfIn(t, line)) PROVE u[k] = t[k] /\ u[i] = t[i]
  <2>1. Max(OfIn(t, line)) \in Nat /\ Max(OfIn(t, line)) <= Len(t)
    BY <1>1, <1>2, MaxIsLast
  <2>2. i \in 1..Len(t) /\ k \in 1..Len(t)
    BY <1>1, <1>2, <2>1
  <2>3. QED
    BY <1>1, <2>2
<1>4. QED
  BY <1>1, <1>3 DEF Whole

(***************************************************************************)
(* What PrintChar does: the entry that it appends.                         *)
(***************************************************************************)
LEMMA PrintCharEntry ==
  ASSUME StateInv, NEW l \in Logs, PrintChar(l)
  PROVE  LET x == buffer[l][printed[l] + 1]
             e == [log |-> l, printer |-> printer[l], char |-> x]
         IN  /\ e \in Entries /\ e.log = l /\ e.printer = printer[l] /\ e.char = x
             /\ text \in Seq(Entries) /\ text' = Append(text, e) /\ text' \in Seq(Entries)
             /\ pc[l] = "printing" /\ printed[l] \in Nat /\ Len(buffer[l]) \in Nat
             /\ printed[l] < Len(buffer[l]) /\ printed'[l] = printed[l] + 1
             /\ x = Newline => printed'[l] = Len(buffer[l])
             /\ UNCHANGED <<pc, buffer, printer, asked>>
<1> DEFINE x == buffer[l][printed[l] + 1]
           e == [log |-> l, printer |-> printer[l], char |-> x]
<1>1. /\ pc[l] = "printing" /\ printed[l] < Len(buffer[l]) /\ text' = Append(text, e)
      /\ printed' = [printed EXCEPT ![l] = printed[l] + 1]
      /\ UNCHANGED <<pc, buffer, printer, asked>>
  BY DEF PrintChar, history
<1>2. printed[l] \in Nat /\ buffer[l] \in Seq(Glyphs) /\ Len(buffer[l]) \in Nat
      /\ printed'[l] = printed[l] + 1 /\ printed[l] + 1 \in 1..Len(buffer[l])
  BY <1>1 DEF StateInv, TextTypes
<1>3. x = Newline => printed[l] + 1 = Len(buffer[l])
  BY <1>2 DEF StateInv, BufferOK
<1>4. text \in Seq(Entries)
  BY DEF StateInv, TextTypes, Entries
<1>5. x \in Glyphs
  BY <1>2, ElementOfSeq
<1>6. printer[l] \in Printers
  BY <1>1 DEF StateInv, TypeOK, CallOK
<1> HIDE DEF x
<1>7. e \in Entries /\ e.log = l /\ e.printer = printer[l] /\ e.char = x
  BY <1>5, <1>6 DEF Entries
<1> HIDE DEF e
<1>8. text' \in Seq(Entries)
  BY <1>1, <1>4, <1>7, AppendProperties
<1>9. QED
  BY <1>1, <1>2, <1>3, <1>4, <1>7, <1>8 DEF x, e

(***************************************************************************)
(* The next character of a line that has all there is of it in one piece:  *)
(* it is still in one piece.                                               *)
(***************************************************************************)
Near(t, line, p) == (\A i \in OfIn(t, line) : t[i].printer = p) /\ Together(t, line)

LEMMA OneMoreTogether ==
  ASSUME NEW t \in Seq(Entries), NEW e \in Entries, NEW u, u = Append(t, e),
         NEW now, now = NowIn(t, e.log), Near(t, now, e.printer)
  PROVE  Near(u, now, e.printer)
<1> DEFINE n == Len(t) + 1
<1>0. Grows(t, e, u)
  BY LinesGrow
<1>1. /\ Len(t) \in Nat /\ Len(u) = n /\ u[n] = e
      /\ \A i \in 1..Len(t) : u[i] = t[i]
  BY <1>0 DEF Grows
<1>2. OfIn(u, now) = OfIn(t, now) \union {n}
  BY <1>0 DEF Grows
<1>3. OfIn(t, now) \subseteq 1..Len(t)
  BY LineFinite
<1>4. (\A i \in OfIn(t, now) : t[i].printer = e.printer) /\ Together(t, now)
  BY DEF Near
<1>5. ASSUME NEW i \in OfIn(u, now) PROVE u[i].printer = e.printer
  BY <1>1, <1>2, <1>3, <1>4
<1>6. ASSUME NEW i \in OfIn(u, now), NEW k \in i..Len(u), u[k].printer = u[i].printer
      PROVE k \in OfIn(u, now)
  <2>1. CASE k = n
    BY <1>2, <2>1
  <2>2. CASE k # n
    <3>1. i \in 1..Len(t) /\ k \in i..Len(t) /\ k \in 1..Len(t) /\ i \in OfIn(t, now)
      BY <1>1, <1>2, <1>3, <1>6, <2>2
    <3>2. t[k].printer = t[i].printer
      BY <1>1, <1>6, <3>1
    <3>3. QED
      BY <1>2, <1>4, <3>1, <3>2 DEF Together
  <2>3. QED
    BY <2>1, <2>2
<1>7. Together(u, now)
  BY <1>6 DEF Together
<1>8. QED
  BY <1>5, <1>7 DEF Near

LEMMA PrintCharMine ==
  ASSUME StateInv, LineInv, NEW l \in Logs, PrintChar(l)
  PROVE  LineOK(l)' /\ FlushOK(l)' /\ WholeLines'
<1> DEFINE x == buffer[l][printed[l] + 1]
           e == [log |-> l, printer |-> printer[l], char |-> x]
           n == Len(text) + 1
           now == Now(l)
<1>1. /\ e \in Entries /\ e.log = l /\ e.printer = printer[l] /\ e.char = x
      /\ text \in Seq(Entries) /\ text' = Append(text, e) /\ text' \in Seq(Entries)
      /\ pc[l] = "printing" /\ printed[l] \in Nat /\ Len(buffer[l]) \in Nat
      /\ printed[l] < Len(buffer[l]) /\ printed'[l] = printed[l] + 1
      /\ x = Newline => printed'[l] = Len(buffer[l])
      /\ UNCHANGED <<pc, buffer, printer, asked>>
  BY PrintCharEntry
<1>x. x = buffer[l][printed[l] + 1]
  OBVIOUS
<1> HIDE DEF x, e
<1>g. Grows(text, e, text')
  BY <1>1, LinesGrow
<1>2. /\ Len(text) \in Nat /\ Len(text') = n /\ text'[n] = e
      /\ \A m : LinesIn(text, m) \in Nat
      /\ \A m : m = e.log /\ e.char = Newline => LinesIn(text', m) = LinesIn(text, m) + 1
      /\ \A m : m # e.log \/ e.char # Newline => LinesIn(text', m) = LinesIn(text, m)
      /\ \A line : line # NowIn(text, e.log) => OfIn(text', line) = OfIn(text, line)
      /\ \A line : line = NowIn(text, e.log) => OfIn(text', line) = OfIn(text, line) \union {n}
  BY <1>g DEF Grows
<1>3. now = Now(l) /\ now = NowIn(text, e.log) /\ Mine(l) = OfIn(text, now)
      /\ Now(l)' = NowIn(text', l) /\ Mine(l)' = OfIn(text', NowIn(text', l))
  BY <1>1 DEF Now, Mine
<1> HIDE DEF now
<1>4. LineOK(l) /\ FlushOK(l) /\ WholeLines /\ ~Ended(l)
  BY <1>1 DEF LineInv, Ended
<1>s. MAX_BUFFER_SIZE - 1 \in Int
  BY SizeAssumption
<1>5. OfIn(text', now) = OfIn(text, now) \union {n} /\ n \notin OfIn(text, now)
      /\ Cardinality(OfIn(text', now)) = Cardinality(OfIn(text, now)) + 1
      /\ Cardinality(OfIn(text, now)) \in Nat
  <2>1. OfIn(text', now) = OfIn(text, now) \union {n}
    BY <1>2, <1>3
  <2>2. OfIn(text, now) \subseteq 1..Len(text) /\ IsFiniteSet(OfIn(text, now))
        /\ Cardinality(OfIn(text, now)) \in Nat
    BY <1>1, LineFinite
  <2>3. n \notin OfIn(text, now)
    BY <1>2, <2>2
  <2>4. Cardinality(OfIn(text, now) \union {n}) = Cardinality(OfIn(text, now)) + 1
    BY <2>2, <2>3, FS_AddElement
  <2>5. QED
    BY <2>1, <2>2, <2>3, <2>4
<1>c. Cardinality(OfIn(text', now)) = Cardinality(OfIn(text, now)) + 1
      /\ Cardinality(OfIn(text, now)) \in Nat
  BY <1>5
<1>6. ASSUME now \notin asked, Cardinality(OfIn(text, now)) < MAX_BUFFER_SIZE - 1
      PROVE  /\ Cardinality(OfIn(text, now)) = printed[l]
             /\ \A i \in OfIn(text', now) : text'[i].printer = printer[l]
             /\ Together(text', now)
  <2>0. ~(Cardinality(OfIn(text, now)) >= MAX_BUFFER_SIZE - 1)
    BY <1>5, <1>6, <1>s
  <2>1. Coming(l)
    BY <1>1, <1>3, <1>4, <1>6, <2>0 DEF LineOK
  <2>2. /\ Cardinality(OfIn(text, now)) = printed[l]
        /\ \A i \in OfIn(text, now) : text[i].printer = e.printer
        /\ Together(text, now)
    BY <1>1, <1>3, <2>1 DEF Coming
  <2>3. (\A i \in OfIn(text', now) : text'[i].printer = e.printer) /\ Together(text', now)
    <3>1. Near(text, now, e.printer)
      BY <2>2 DEF Near
    <3>2. Near(text', now, e.printer)
      BY <1>1, <1>3, <3>1, OneMoreTogether
    <3>3. QED
      BY <3>2 DEF Near
  <2>4. QED
    BY <1>1, <2>2, <2>3
<1>7. WholeLines'
  <2>1. ASSUME NEW line, line \notin asked, Cardinality(OfIn(text', line)) < MAX_BUFFER_SIZE - 1
        PROVE  Whole(text', line)
    <3>1. CASE line = now
      <4>1. now \notin asked /\ Cardinality(OfIn(text, now)) < MAX_BUFFER_SIZE - 1
        BY <1>c, <1>s, <2>1, <3>1
      <4>2. Together(text', now)
        BY <1>6, <4>1
      <4>3. QED
        BY <1>1, <3>1, <4>2, TogetherIsWhole
    <3>2. CASE line # now
      <4>1. OfIn(text', line) = OfIn(text, line)
        BY <1>2, <1>3, <3>2
      <4>2. Whole(text, line)
        BY <1>4, <2>1, <4>1 DEF WholeLines
      <4>3. QED
        BY <1>1, <1>3, <3>2, <4>2, OtherLineStaysWhole
    <3>3. QED
      BY <3>1, <3>2
  <2>2. QED
    BY <1>1, <2>1 DEF WholeLines
<1>8. CASE x = Newline
  <2>1. LinesIn(text', l) = LinesIn(text, l) + 1 /\ LinesIn(text, l) \in Nat
    BY <1>1, <1>2, <1>8
  <2>2. Now(l)' = <<l, LinesIn(text, l) + 1>> /\ Mine(l)' = OfIn(text, <<l, LinesIn(text, l) + 1>>)
    <3>1. Now(l)' = <<l, LinesIn(text, l) + 1>> /\ NowIn(text, e.log) = <<l, LinesIn(text, l)>>
      BY <1>1, <1>3, <2>1 DEF NowIn
    <3>2. Now(l)' # NowIn(text, e.log)
      BY <2>1, <3>1
    <3>3. QED
      BY <1>2, <1>3, <3>1, <3>2
  <2>3. Mine(l)' = {}
    <3>1. ASSUME NEW i \in OfIn(text, <<l, LinesIn(text, l) + 1>>) PROVE FALSE
      <4>1. i \in 1..Len(text) /\ AtIn(text, i) = <<l, LinesIn(text, l) + 1>>
        BY DEF OfIn
      <4>2. LinesIn(text, l) + 1 <= LinesIn(text, l)
        BY <1>1, <4>1, LinesGoUp
      <4>3. QED
        BY <2>1, <4>2
    <3>2. QED
      BY <2>2, <3>1
  <2>4. printed'[l] = Len(buffer'[l]) /\ buffer'[l][Len(buffer'[l])] = Newline
    BY <1>1, <1>8, <1>x
  <2>5. LineOK(l)'
    BY <2>3, <2>4 DEF LineOK, Ended
  <2>6. FlushOK(l)'
    BY <2>4 DEF FlushOK
  <2>7. QED
    BY <1>7, <2>5, <2>6
<1>9. CASE x # Newline
  <2>1. Now(l)' = now /\ Mine(l)' = OfIn(text', now)
    BY <1>1, <1>2, <1>3, <1>9 DEF NowIn
  <2>2. FlushOK(l)'
    BY <1>1, <1>3, <1>4, <2>1 DEF FlushOK, Now
  <2>3. LineOK(l)'
    <3>1. CASE now \in asked
      BY <1>1, <2>1, <3>1 DEF LineOK
    <3>2. CASE Cardinality(OfIn(text, now)) >= MAX_BUFFER_SIZE - 1
      BY <1>5, <1>s, <2>1, <3>2 DEF LineOK
    <3>3. CASE now \notin asked /\ Cardinality(OfIn(text, now)) < MAX_BUFFER_SIZE - 1
      <4>1. /\ Cardinality(OfIn(text, now)) = printed[l]
            /\ \A i \in OfIn(text', now) : text'[i].printer = printer[l]
            /\ Together(text', now)
        BY <1>6, <3>3
      <4>2. Cardinality(Mine(l)') = printed'[l]
        BY <1>1, <1>5, <2>1, <4>1
      <4>3. ~Ended(l)'
        BY <1>1, <1>9, <1>x DEF Ended
      <4>4. Coming(l)'
        BY <1>1, <2>1, <4>1, <4>2, <4>3 DEF Coming
      <4>5. QED
        BY <1>1, <4>4 DEF LineOK
    <3>4. QED
      BY <1>5, <1>s, <3>1, <3>2, <3>3
  <2>4. QED
    BY <1>7, <2>2, <2>3
<1>10. QED
  BY <1>8, <1>9

LEMMA PrintCharOthers ==
  ASSUME StateInv, LineInv, NEW l \in Logs, PrintChar(l), NEW m \in Logs, m # l
  PROVE  LineOK(m)' /\ FlushOK(m)'
<1> DEFINE x == buffer[l][printed[l] + 1]
           e == [log |-> l, printer |-> printer[l], char |-> x]
           n == Len(text) + 1
           now == Now(m)
<1>1. /\ e \in Entries /\ e.log = l /\ e.printer = printer[l]
      /\ text \in Seq(Entries) /\ text' = Append(text, e) /\ text' \in Seq(Entries)
      /\ pc[l] = "printing" /\ UNCHANGED <<pc, buffer, printer, asked>>
  BY PrintCharEntry
<1> HIDE DEF x, e
<1>g. Grows(text, e, text')
  BY <1>1, LinesGrow
<1>2. /\ Len(text) \in Nat /\ Len(text') = n /\ text'[n] = e
      /\ \A i \in 1..Len(text) : text'[i] = text[i]
      /\ \A ln : ln # NowIn(text, e.log) => OfIn(text', ln) = OfIn(text, ln)
      /\ \A k : k # e.log => LinesIn(text', k) = LinesIn(text, k)
  BY <1>g DEF Grows
<1>3. Now(m) = NowIn(text, m) /\ Now(m)' = Now(m) /\ Mine(m) = OfIn(text, Now(m))
      /\ Mine(m)' = Mine(m)
  <2>1. LinesIn(text', m) = LinesIn(text, m) /\ m # e.log
    BY <1>1, <1>2
  <2>2. Now(m) = NowIn(text, m) /\ Now(m)' = Now(m) /\ Now(m) # NowIn(text, e.log)
    BY <2>1 DEF Now, NowIn
  <2>3. QED
    BY <1>2, <2>2 DEF Mine
<1>4. printed'[m] = printed[m]
  BY OthersStay DEF Step, Write
<1>5. LineOK(m) /\ FlushOK(m)
  BY DEF LineInv
<1>6. FlushOK(m)'
  BY <1>1, <1>3, <1>5 DEF FlushOK
<1>7. Ended(m)' <=> Ended(m)
  BY <1>1, <1>4 DEF Ended
<1>8. CASE pc[m] = "printing" /\ Coming(m)
  <2>1. printer[m] # printer[l]
    BY <1>1, <1>8, OnePrints
  <2>2. Mine(m) \subseteq 1..Len(text)
    BY <1>1, LineFinite DEF Mine
  <2>3. \A i \in Mine(m) : text'[i].printer = printer[m]
    BY <1>2, <1>8, <2>2 DEF Coming
  <2>4. ASSUME NEW i \in Mine(m), NEW k \in i..n, text'[k].printer = text'[i].printer PROVE k \in Mine(m)
    <3>1. k # n
      BY <1>1, <1>2, <2>1, <2>3, <2>4
    <3>2. i \in 1..Len(text) /\ k \in i..Len(text) /\ k \in 1..Len(text)
      BY <1>2, <2>2, <2>4, <3>1
    <3>3. text[k].printer = text[i].printer
      BY <1>2, <2>4, <3>2
    <3>4. QED
      BY <1>3, <1>8, <3>2, <3>3 DEF Coming, Together
  <2>5. Together(text', Now(m))
    BY <1>2, <1>3, <2>4 DEF Together, Mine
  <2>6. Coming(m)'
    BY <1>1, <1>3, <1>4, <1>7, <1>8, <2>3, <2>5 DEF Coming
  <2>7. LineOK(m)'
    BY <1>1, <1>8, <2>6 DEF LineOK
  <2>8. QED
    BY <1>6, <2>7
<1>9. CASE ~(pc[m] = "printing" /\ Coming(m))
  <2>1. LineOK(m)'
    BY <1>1, <1>3, <1>5, <1>7, <1>9 DEF LineOK
  <2>2. QED
    BY <1>6, <2>1
<1>10. QED
  BY <1>8, <1>9

(***************************************************************************)
(* The other steps print nothing, and take back no request to flush.       *)
(***************************************************************************)
LEMMA AskedGrows ==
  ASSUME NEW l \in Logs, Step(l)
  PROVE  asked \subseteq asked'
<1>1. ASSUME NEW char, c(l, char) PROVE asked' = asked
  BY <1>1, CEffect
<1>2. CASE Write(l)
  BY <1>1, <1>2 DEF Write, EnsureBOL, ZeroColumn, RawChar, Lock, PrintChar, Flushed, Flush, history
<1>3. CASE ~Write(l)
  BY <1>3 DEF Step, SetLogPrinter, PushIndent, PushIndentInternal, PopIndent, Enable, Disable, Count,
     history
<1>4. QED
  BY <1>2, <1>3

LEMMA LineStays ==
  ASSUME NEW m \in Logs, text' = text, asked \subseteq asked', LineOK(m), FlushOK(m),
         pc'[m] = pc[m], printed'[m] = printed[m], buffer'[m] = buffer[m], printer'[m] = printer[m]
  PROVE  LineOK(m)' /\ FlushOK(m)'
<1>1. Now(m)' = Now(m) /\ Mine(m)' = Mine(m)
  BY DEF Now, Mine
<1>2. (Ended(m)' <=> Ended(m)) /\ (Coming(m)' <=> Coming(m))
  BY <1>1 DEF Ended, Coming
<1>3. QED
  BY <1>1, <1>2 DEF LineOK, FlushOK

(***************************************************************************)
(* A log that does not print and did not has its line in the same state.   *)
(***************************************************************************)
LEMMA LineWaits ==
  ASSUME NEW l \in Logs, text' = text, asked \subseteq asked', LineOK(l),
         pc[l] # "printing", pc'[l] # "printing"
  PROVE  LineOK(l)'
<1>1. Now(l)' = Now(l) /\ Mine(l)' = Mine(l)
  BY DEF Now, Mine
<1>2. QED
  BY <1>1 DEF LineOK

LEMMA OwnLine ==
  ASSUME StateInv, NEW l \in Logs, LineOK(l), FlushOK(l), Step(l), ~PrintChar(l)
  PROVE  LineOK(l)' /\ FlushOK(l)'
<1>1. text' = text /\ asked \subseteq asked'
  BY TextStays, AskedGrows
<1>2. Now(l)' = Now(l) /\ Mine(l)' = Mine(l)
  BY <1>1 DEF Now, Mine
<1>3. pc \in [Logs -> {"idle", "writing", "flushing", "printing", "gone"}]
      /\ buffer[l] \in Seq(Glyphs) /\ buffer \in [Logs -> Seq(Glyphs)] /\ printed \in [Logs -> Nat]
      /\ Len(buffer[l]) \in Nat
  BY DEF StateInv, TypeOK, TextTypes
<1>4. ASSUME pc[l] # "printing", pc'[l] \notin {"flushing", "printing"}
      PROVE  LineOK(l)' /\ FlushOK(l)'
  BY <1>1, <1>4, LineWaits DEF FlushOK
<1>5. ASSUME NEW char, c(l, char) PROVE LineOK(l)' /\ FlushOK(l)'
  <2>1. pc[l] = "idle" /\ pc' = [pc EXCEPT ![l] = "writing"]
    BY Zenon, <1>5 DEF c, Goto
  <2>2. QED
    BY <1>3, <1>4, <2>1
<1>6. CASE ZeroColumn(l)
  BY <1>3, <1>4, <1>6 DEF ZeroColumn, Goto, Onward
<1>7. CASE RawChar(l)
  <2> DEFINE char == Head(todo[l])
             new == Append(buffer[l], char)
  <2>1. /\ pc[l] = "writing" /\ char # ColumnZero /\ todo[l] # <<>>
        /\ pc' = [pc EXCEPT ![l] = IF EndsBuffer(char, Len(buffer[l]) + 1) THEN "flushing" ELSE Onward(l)]
        /\ buffer' = [buffer EXCEPT ![l] = new]
    BY <1>7 DEF RawChar, Goto
  <2>2. char \in Glyphs
    BY <2>1, HeadTailProperties, Sets DEF StateInv, TextTypes
  <2>3. Len(new) = Len(buffer[l]) + 1 /\ new[Len(new)] = char
    BY <1>3, <2>2, AppendProperties
  <2> HIDE DEF char, new
  <2>4. /\ pc'[l] = IF EndsBuffer(char, Len(buffer[l]) + 1) THEN "flushing" ELSE Onward(l)
        /\ buffer'[l] = new /\ Onward(l) \in {"idle", "writing"}
    BY <1>3, <2>1 DEF Onward
  <2>5. FlushOK(l)'
    BY <2>3, <2>4 DEF FlushOK, EndsBuffer, IsFull
  <2>6. LineOK(l)'
    BY <1>1, <2>1, <2>4, LineWaits
  <2>7. QED
    BY <2>5, <2>6
<1>8. CASE Lock(l)
  <2>1. /\ pc[l] = "flushing" /\ pc' = [pc EXCEPT ![l] = "printing"]
        /\ UNCHANGED <<buffer, printed, printer, asked>>
    BY <1>8 DEF Lock, Goto, history
  <2>2. pc'[l] = "printing" /\ printed[l] = 0 /\ buffer[l] # <<>>
    BY <1>3, <2>1 DEF StateInv, CallOK
  <2>3. FlushOK(l)'
    BY <1>2, <2>1, <2>2 DEF FlushOK
  <2>4. CASE Mine(l) = {}
    <3>1. Len(buffer[l]) # 0
      BY <1>3, <2>2, EmptySeq
    <3>2. ~Ended(l)'
      BY <2>1, <2>2, <3>1 DEF Ended
    <3>3. Cardinality({}) = 0
      BY FS_EmptySet
    <3>4. OfIn(text', Now(l)') = {}
      BY <1>1, <1>2, <2>4 DEF Mine
    <3>5. Together(text', Now(l)')
      BY <3>4 DEF Together
    <3>6. Coming(l)'
      BY <1>2, <2>1, <2>2, <2>4, <3>2, <3>3, <3>5 DEF Coming
    <3>7. QED
      BY <2>2, <2>3, <3>6 DEF LineOK
  <2>5. CASE Mine(l) # {}
    BY <1>1, <1>2, <2>1, <2>3, <2>5 DEF LineOK
  <2>6. QED
    BY <2>4, <2>5
<1>9. CASE Flushed(l)
  <2>1. /\ pc[l] = "printing" /\ printed[l] = Len(buffer[l])
        /\ pc' = [pc EXCEPT ![l] = IF todo[l] # <<>> THEN "writing" ELSE IF to[l] = None THEN "gone" ELSE "idle"]
    BY <1>9 DEF Flushed, Goto
  <2>2. pc'[l] \notin {"flushing", "printing"}
    BY <1>3, <2>1
  <2>3. FlushOK(l)'
    BY <2>2 DEF FlushOK
  <2>4. CASE Coming(l)
    <3>1. Cardinality(Mine(l)) = Len(buffer[l]) /\ ~Ended(l)
      BY <2>1, <2>4 DEF Coming
    <3>2. buffer[l][Len(buffer[l])] # Newline
      BY <2>1, <3>1 DEF Ended
    <3>3. Len(buffer[l]) = MAX_BUFFER_SIZE - 1 \/ Now(l) \in asked
      BY <2>1, <3>2 DEF FlushOK
    <3>4. Cardinality(Mine(l)) >= MAX_BUFFER_SIZE - 1 \/ Now(l) \in asked
      BY <1>3, <3>1, <3>3
    <3>5. QED
      BY <1>1, <1>2, <2>3, <3>4 DEF LineOK
  <2>5. CASE ~Coming(l)
    BY <1>1, <1>2, <2>2, <2>3, <2>5 DEF LineOK
  <2>6. QED
    BY <2>4, <2>5
<1>10. CASE Flush(l)
  <2>1. pc[l] = "idle" /\ pc' = [pc EXCEPT ![l] = "flushing"] /\ asked' = asked \union {<<l, Line(l)>>}
    BY <1>10 DEF Flush, Call, Goto
  <2>2. Now(l) \in asked'
    BY <2>1, LinesAreThose DEF Now, NowIn
  <2>3. QED
    BY <1>2, <2>2 DEF LineOK, FlushOK
<1>11. ASSUME NEW p, SetLogPrinter(l, p) PROVE LineOK(l)' /\ FlushOK(l)'
  <2>1. /\ pc[l] = "idle"
        /\ pc' = [pc EXCEPT ![l] = IF buffer[l] # <<>> THEN "flushing" ELSE IF p = None THEN "gone" ELSE "idle"]
        /\ asked' = IF buffer[l] = <<>> THEN asked ELSE asked \union {<<l, Line(l)>>}
    BY <1>11 DEF SetLogPrinter, Call, Goto
  <2>2. CASE buffer[l] # <<>>
    <3>1. Now(l) \in asked'
      BY <2>1, <2>2, LinesAreThose DEF Now, NowIn
    <3>2. QED
      BY <1>2, <3>1 DEF LineOK, FlushOK
  <2>3. CASE buffer[l] = <<>>
    BY <1>3, <1>4, <2>1, <2>3
  <2>4. QED
    BY <2>2, <2>3
<1>12. CASE PushIndent(l) \/ PopIndent(l)
  BY <1>3, <1>4, <1>12 DEF PushIndent, PushIndentInternal, PopIndent, Indents, Goto
<1>13. CASE Enable(l) \/ Disable(l)
  BY <1>3, <1>4, <1>13 DEF Enable, Disable, Count, Call, Goto
<1>14. QED
  BY <1>5, <1>6, <1>7, <1>8, <1>9, <1>10, <1>11, <1>12, <1>13 DEF Step, Write, EnsureBOL

LEMMA LineStep ==
  ASSUME StateInv, LineInv, [Next]_vars
  PROVE  LineInv'
<1>1. ASSUME NEW l \in Logs, PrintChar(l) PROVE LineInv'
  <2>1. Step(l)
    BY <1>1 DEF Step, Write
  <2>2. LineOK(l)' /\ FlushOK(l)' /\ WholeLines'
    BY <1>1, PrintCharMine
  <2>3. \A m \in Logs : m # l => LineOK(m)' /\ FlushOK(m)'
    BY <1>1, PrintCharOthers
  <2>4. QED
    BY <2>2, <2>3 DEF LineInv
<1>2. ASSUME text' = text, asked \subseteq asked' PROVE WholeLines'
  BY <1>2 DEF WholeLines, LineInv
<1>3. ASSUME NEW l \in Logs, Step(l), ~PrintChar(l) PROVE LineInv'
  <2>1. text' = text /\ asked \subseteq asked'
    BY <1>3, TextStays, AskedGrows
  <2>2. ASSUME NEW m \in Logs PROVE LineOK(m)' /\ FlushOK(m)'
    <3>1. LineOK(m) /\ FlushOK(m)
      BY DEF LineInv
    <3>2. CASE m = l
      BY <1>3, <3>1, <3>2, OwnLine
    <3>3. CASE m # l
      <4>1. /\ pc'[m] = pc[m] /\ buffer'[m] = buffer[m] /\ printed'[m] = printed[m]
            /\ printer'[m] = printer[m]
        BY <1>3, <3>3, OthersStay
      <4>2. QED
        BY <2>1, <3>1, <4>1, LineStays
    <3>4. QED
      BY <3>2, <3>3
  <2>3. QED
    BY <1>2, <2>1, <2>2 DEF LineInv
<1>4. CASE UNCHANGED vars
  <2>1. UNCHANGED <<text, asked, pc, buffer, printed, printer>>
    BY <1>4 DEF vars, history
  <2>2. ASSUME NEW m \in Logs PROVE LineOK(m)' /\ FlushOK(m)'
    BY <2>1, LineStays DEF LineInv
  <2>3. QED
    BY <1>2, <2>1, <2>2 DEF LineInv
<1>5. QED
  BY <1>1, <1>3, <1>4 DEF Next, Finished

-----------------------------------------------------------------------------
(***************************************************************************)
(* Together, the three are an invariant.                                   *)
(***************************************************************************)
Inv == StateInv /\ LayInv /\ LineInv

LEMMA LayInit == Init => LayInv
<1> SUFFICES ASSUME Init, NEW l \in Logs PROVE BolOK(l) /\ LayOK(l)
  BY DEF LayInv
<1>1. /\ bol[l] = TRUE /\ column[l] = 0 /\ todo[l] = <<>> /\ wrote[l] = <<>> /\ buffer[l] = <<>>
      /\ printed[l] = 0 /\ text = <<>>
  BY DEF Init
<1>2. \A S : <<>> \in Seq(S) /\ Len(<<>>) = 0
  BY EmptySeq
<1>3. Rest(l) = <<>>
  BY <1>1, <1>2, SubSeqEmpty DEF Rest
<1>4. PrintedBy(l) = <<>>
  <2>1. \A i \in 1..Len(text) : FALSE
    BY <1>1, <1>2
  <2>2. Pieces(l) = [i \in 1..0 |-> IF text[i].log = l THEN <<text[i].char>> ELSE <<>>]
    BY <1>1, <1>2 DEF Pieces
  <2>3. Pieces(l) = <<>>
    BY <2>2
  <2>4. QED
    BY <2>3, FlattenEmpty DEF PrintedBy, Pieces
<1>5. LaidOut(l) = <<>>
  <2>1. [i \in 1..Len(wrote[l]) |-> LaidOutAt(l, wrote[l], i)] = [i \in 1..0 |-> LaidOutAt(l, <<>>, i)]
    BY <1>1, <1>2
  <2>2. [i \in 1..0 |-> LaidOutAt(l, <<>>, i)] = <<>>
    OBVIOUS
  <2>3. QED
    BY <2>1, <2>2, FlattenEmpty DEF LaidOut
<1>6. Shown(l) = <<>>
  BY <1>2, <1>3, <1>4, ConcatEmptySeq DEF Shown
<1>7. LastEnd(Shown(l), 0)
  BY <1>2, <1>6 DEF LastEnd
<1>8. Going(l, <<>>, <<>>, 0)
  BY <1>1, <1>2, <1>6 DEF Going, NewLine
<1>9. (Shown(l) \o <<>>) \o <<>> = LaidOut(l)
  BY <1>2, <1>5, <1>6, ConcatEmptySeq
<1>10. Laying(l, <<>>, <<>>, 0)
  BY <1>2, <1>7, <1>8, <1>9 DEF Laying
<1>11. LayOK(l)
  BY <1>2, <1>10 DEF LayOK
<1>12. QED
  BY <1>1, <1>11 DEF BolOK

LEMMA LineInit == Init => LineInv
<1> SUFFICES ASSUME Init PROVE LineInv
  OBVIOUS
<1>1. text = <<>> /\ Len(text) = 0 /\ \A l \in Logs : pc[l] = "idle"
  BY EmptySeq DEF Init
<1>2. \A line : OfIn(text, line) = {}
  BY <1>1 DEF OfIn
<1>3. WholeLines
  BY <1>2 DEF WholeLines, Whole
<1>4. \A l \in Logs : LineOK(l) /\ FlushOK(l)
  BY <1>1, <1>2 DEF LineOK, FlushOK, Mine
<1>5. QED
  BY <1>3, <1>4 DEF LineInv

(***************************************************************************)
(* What the histories of Log are, where each call is and what its buffer   *)
(* may hold there, how far the layout of the last character has come, and  *)
(* what there is of the current line of each log in the text.              *)
(***************************************************************************)
THEOREM LogInv == Spec => []Inv
<1>1. Init => Inv
  BY StateInit, LayInit, LineInit DEF Inv
<1>2. Inv /\ [Next]_vars => Inv'
  BY StateStep, LayStep, LineStep DEF Inv
<1>3. QED
  BY <1>1, <1>2, PTL DEF Spec

(***************************************************************************)
(* Between two calls, nothing of the last character is owed.               *)
(***************************************************************************)
LEMMA IdleShows ==
  ASSUME StateInv, LayInv, NEW l \in Logs, Idle(l)
  PROVE  /\ Shown(l) \in Seq(Glyphs) /\ Emitted(l) = Shown(l) /\ LaidOut(l) = Shown(l)
         /\ \E k \in Nat : LastEnd(Shown(l), k) /\ Going(l, <<>>, <<>>, k)
<1>1. todo[l] = <<>> /\ printed[l] = 0
  BY DEF StateInv, CallOK, Idle
<1>2. Shown(l) \in Seq(Glyphs) /\ Emitted(l) = Shown(l)
  BY <1>1, ShownType DEF Emitted
<1>3. PICK a \in Seq(Inside(l)), b \in Seq(Glyphs), k \in Nat : Laying(l, a, b, k)
  BY Zenon DEF LayInv, LayOK
<1>4. ~Starting(l, a, b, k)
  <2>1. (a \o <<ColumnZero>>) \o b # <<>>
    <3>1. <<ColumnZero>> \in Seq({ColumnZero}) /\ Len(<<ColumnZero>>) = 1
      BY OneSeq
    <3>2. /\ a \in Seq(Inside(l) \union {ColumnZero} \union Glyphs)
          /\ b \in Seq(Inside(l) \union {ColumnZero} \union Glyphs)
          /\ <<ColumnZero>> \in Seq(Inside(l) \union {ColumnZero} \union Glyphs)
      BY <1>3, <3>1, SeqMonotonic
    <3>3. /\ a \o <<ColumnZero>> \in Seq(Inside(l) \union {ColumnZero} \union Glyphs)
          /\ Len(a \o <<ColumnZero>>) = Len(a) + 1
      BY <3>1, <3>2, ConcatProperties
    <3>4. Len((a \o <<ColumnZero>>) \o b) = Len(a) + 1 + Len(b) /\ Len(a) \in Nat /\ Len(b) \in Nat
      BY <3>2, <3>3, ConcatProperties
    <3>5. QED
      BY <3>4, EmptySeq
  <2>2. QED
    BY <1>1, <2>1 DEF Starting
<1>5. LastEnd(Shown(l), k) /\ Going(l, a, b, k) /\ (Shown(l) \o a) \o b = LaidOut(l)
  BY <1>3, <1>4 DEF Laying
<1>6. a = <<>> /\ b = <<>>
  BY <1>1, <1>5 DEF Going
<1>7. LaidOut(l) = Shown(l)
  BY <1>2, <1>5, <1>6, ConcatEmptySeq
<1>8. QED
  BY <1>2, <1>3, <1>5, <1>6, <1>7

(***************************************************************************)
(* Log::c, RawChar, Flush and SetLogPrinter lose, repeat and misplace no   *)
(* character, whatever the prefixes, the indents and the size of the       *)
(* buffer are, and however many logs share the printers; no buffer         *)
(* overflows.                                                              *)
(***************************************************************************)
THEOREM TextComesOutIntact == Spec => []TextIntact
<1>1. Inv => TextIntact
  BY IdleShows DEF Inv, TextIntact, StateInv
<1>2. QED
  BY <1>1, LogInv, PTL

(***************************************************************************)
(* m_column, as RawChar and c leave it between two calls, is how far the   *)
(* text of the line has come, the prefix not counted; and the buffer is    *)
(* empty whenever m_bol is set.                                            *)
(***************************************************************************)
THEOREM ColumnIsRight == Spec => []ColumnIsWhereTextIs
<1>1. ASSUME Inv, NEW l \in Logs, Idle(l)
      PROVE  LET out == Emitted(l)
                 ends == {i \in 1..Len(out) : out[i] \in {Newline, Return}}
                 last == IF ends = {} THEN 0 ELSE Max(ends)
                 prefixed == last < Len(out) /\ (last = 0 \/ out[last] = Newline)
                 prefix == IF prefixed THEN Len(StartOfLine(Prefix[l], Letter)) ELSE 0
             IN  /\ column[l] = Len(out) - last - prefix
                 /\ bol[l] => buffer[l] = <<>>
  <2> DEFINE out == Emitted(l)
             ends == {i \in 1..Len(out) : out[i] \in {Newline, Return}}
             last == IF ends = {} THEN 0 ELSE Max(ends)
             prefixed == last < Len(out) /\ (last = 0 \/ out[last] = Newline)
             prefix == IF prefixed THEN Len(StartOfLine(Prefix[l], Letter)) ELSE 0
  <2>1. out \in Seq(Glyphs) /\ Len(out) \in Nat /\ out = Shown(l)
    BY <1>1, IdleShows DEF Inv
  <2>2. PICK k \in Nat : LastEnd(Shown(l), k) /\ Going(l, <<>>, <<>>, k)
    BY <1>1, IdleShows DEF Inv
  <2>3. LastEnd(out, k) /\ Going(l, <<>>, <<>>, k)
    BY <2>1, <2>2
  <2> HIDE DEF out
  <2>4. last = k
    <3>1. /\ k \in 0..Len(out)
          /\ k # 0 => out[k] \in {Newline, Return}
          /\ \A i \in (k + 1)..Len(out) : out[i] \notin {Newline, Return}
      BY <2>3 DEF LastEnd, LineEnds
    <3>2. \A i \in ends : i \in 1..Len(out) /\ i <= k
      BY <2>1, <3>1
    <3>3. CASE k = 0
      <4>1. ends = {}
        BY <2>1, <3>2, <3>3
      <4>2. QED
        BY <3>3, <4>1
    <3>4. CASE k # 0
      <4>1. k \in ends
        BY <2>1, <3>1, <3>4
      <4> HIDE DEF ends
      <4>2. ends \subseteq 1..Len(out) /\ ends # {}
        BY <3>2, <4>1
      <4>3. Max(ends) \in ends /\ \A y \in ends : y <= Max(ends)
        BY <2>1, <4>2, MaxIsLast
      <4>4. Max(ends) = k
        <5>1. k <= Max(ends) /\ Max(ends) <= k
          BY <3>2, <4>1, <4>3
        <5>2. Max(ends) \in 1..Len(out)
          BY <4>2, <4>3
        <5>3. QED
          BY <2>1, <5>1, <5>2
      <4>5. QED
        BY <4>2, <4>4
    <3>5. QED
      BY <3>3, <3>4
  <2> HIDE DEF last
  <2>5. Len(StartOfLine(Prefix[l], Letter)) = PrefixLength(l)
    BY MarginType DEF Margin
  <2>6. prefix = IF k < Len(out) /\ NewLine(out, k) THEN PrefixLength(l) ELSE 0
    BY <2>4, <2>5 DEF NewLine
  <2> HIDE DEF prefix
  <2>7. column[l] = Len(out) - last - prefix
    BY <2>1, <2>3, <2>4, <2>6 DEF Going
  <2>8. ASSUME bol[l], buffer[l] # <<>> PROVE FALSE
    <3>1. k = Len(out) /\ NewLine(out, k)
      BY <2>1, <2>3, <2>8 DEF Going
    <3>2. /\ buffer[l] \in Seq(Glyphs) /\ pc[l] \notin {"flushing", "printing"}
          /\ Len(buffer[l]) \in Nat /\ Len(buffer[l]) # 0
          /\ \A i \in 1..Len(buffer[l]) : buffer[l][i] # Newline
      <4>1. buffer[l] \in Seq(Glyphs) /\ BufferOK(l) /\ pc[l] \notin {"flushing", "printing"}
        BY <1>1 DEF Inv, StateInv, TextTypes, Idle
      <4>2. QED
        BY <2>8, <4>1, EmptySeq DEF BufferOK
    <3>3. PrintedBy(l) \in Seq(Glyphs) /\ out = PrintedBy(l) \o buffer[l]
      BY <1>1, ShownType DEF Inv, out, Emitted
    <3>4. /\ Len(out) = Len(PrintedBy(l)) + Len(buffer[l]) /\ Len(PrintedBy(l)) \in Nat
          /\ \A i \in 1..(Len(PrintedBy(l)) + Len(buffer[l])) :
               out[i] = IF i <= Len(PrintedBy(l)) THEN PrintedBy(l)[i] ELSE buffer[l][i - Len(PrintedBy(l))]
      BY <3>2, <3>3, ConcatProperties
    <3>5. out[k] = buffer[l][k - Len(PrintedBy(l))] /\ k - Len(PrintedBy(l)) = Len(buffer[l]) /\ k # 0
      BY <3>1, <3>2, <3>4
    <3>6. QED
      BY <3>1, <3>2, <3>5 DEF NewLine
  <2>9. QED
    BY <2>7, <2>8 DEF out, last, prefix
<1>2. Inv => ColumnIsWhereTextIs
  BY <1>1, Zenon DEF ColumnIsWhereTextIs
<1>3. QED
  BY <1>2, LogInv, PTL

(***************************************************************************)
(* A line that fits in the buffer and that no Flush or SetLogPrinter cuts  *)
(* comes out in one piece: Flush holds the printer while it passes the     *)
(* buffer on, so no other log comes between.                               *)
(***************************************************************************)
THEOREM LinesStayWhole == Spec => []ShortLinesWhole
<1>1. ASSUME WholeLines PROVE ShortLinesWhole
  <2>1. ASSUME NEW i \in 1..Len(text), LineAt(i) \notin asked,
               Cardinality(LineOf(LineAt(i))) < MAX_BUFFER_SIZE - 1,
               NEW k \in i..Max(LineOf(LineAt(i))), text[k].printer = text[i].printer
        PROVE  k \in LineOf(LineAt(i))
    <3>1. PICK line : line = LineAt(i)
      OBVIOUS
    <3>2. LineOf(line) = OfIn(text, line)
      BY LinesAreThose
    <3>3. i \in OfIn(text, line)
      BY <3>1, LinesAreThose DEF OfIn
    <3>4. Whole(text, line)
      BY <1>1, <2>1, <3>1, <3>2 DEF WholeLines
    <3>5. QED
      BY <2>1, <3>1, <3>2, <3>3, <3>4 DEF Whole
  <2>2. QED
    BY <2>1 DEF ShortLinesWhole
<1>2. Inv => ShortLinesWhole
  BY <1>1 DEF Inv, LineInv
<1>3. QED
  BY <1>2, LogInv, PTL
=============================================================================
