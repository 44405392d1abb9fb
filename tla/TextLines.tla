----------------------------- MODULE TextLines ------------------------------
(***************************************************************************)
(* The lines that ForEachLine of src/strings.cpp gives to its function, as *)
(* long as that returns true.  A line ends with a carriage return, a line  *)
(* feed, or one of each in either order.                                   *)
(***************************************************************************)
EXTENDS Integers, SequencesExt

CR == "\r"
LF == "\n"
NoChar == ""

OtherOf(c) == IF c = CR THEN LF ELSE CR

(* After an ending the other character of the two is skipped.              *)
Step(acc, c) ==
  CASE c \in {CR, LF} /\ c = acc.skip -> [acc EXCEPT !.skip = NoChar]
    [] c \in {CR, LF} /\ c # acc.skip ->
         [lines |-> Append(acc.lines, acc.line), line |-> <<>>, skip |-> OtherOf(c)]
    [] OTHER -> [acc EXCEPT !.line = Append(@, c), !.skip = NoChar]

Lines(str) ==
  LET acc == FoldLeft(Step, [lines |-> <<>>, line |-> <<>>, skip |-> NoChar], str)
  IN  IF acc.line = <<>> THEN acc.lines ELSE Append(acc.lines, acc.line)

Endings == {<<CR>>, <<LF>>, <<CR, LF>>, <<LF, CR>>}

(* Lines written with any of the endings are given back, also the empty    *)
(* ones between two lines, with or without an ending of the last one; and  *)
(* no character but those of endings is lost, nor added.                   *)
EndingsEqual(lines, text) ==
  /\ \A ending \in Endings :
       LET ended == FlattenSeq([i \in DOMAIN lines |-> lines[i] \o ending])
       IN  /\ Lines(ended) = lines
           /\ lines # <<>> /\ Last(lines) # <<>> =>
                Lines(SubSeq(ended, 1, Len(ended) - Len(ending))) = lines
  /\ FlattenSeq(Lines(text)) = SelectSeq(text, LAMBDA c : c \notin {CR, LF})
=============================================================================
