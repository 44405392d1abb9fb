------------------------------ MODULE CStrings ------------------------------
(***************************************************************************)
(* strlcpy of src/system.cpp, for systems that have none.  Memory is a     *)
(* sequence of characters; a string ends with its first NUL.               *)
(***************************************************************************)
EXTENDS Integers, SequencesExt

NUL == 0

EndOf(str) == SelectInSeq(str, LAMBDA ch : ch = NUL)
StringIn(memory) == SubSeq(memory, 1, EndOf(memory) - 1)

(* With room for one more than is copied; the NUL of src is copied if      *)
(* there is room for it, and put where the copy ends if there is not.      *)
strlcpy(dest, src, size) ==
  LET room == IF size = 0 THEN 0 ELSE size - 1
      copied == IF EndOf(src) <= room THEN EndOf(src) ELSE room
  IN  [dest |-> [i \in DOMAIN dest |->
                  IF i <= copied THEN src[i]
                  ELSE IF i = size /\ EndOf(src) > room THEN NUL ELSE dest[i]],
       result |-> EndOf(src) - 1]

(* What is copied is a string that begins as src does, and is all of it if *)
(* the result is below size; nothing behind size bytes is touched.         *)
CopiesWhatFits(dest, src, size) ==
  LET copy == strlcpy(dest, src, size)
  IN  /\ \A i \in size + 1 .. Len(dest) : copy.dest[i] = dest[i]
      /\ copy.result = Len(StringIn(src))
      /\ size > 0 => /\ EndOf(copy.dest) \in 1 .. size
                     /\ IsPrefix(StringIn(copy.dest), StringIn(src))
                     /\ StringIn(copy.dest) = StringIn(src) <=> copy.result < size
=============================================================================
