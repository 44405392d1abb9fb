-------------------------------- MODULE Sha1 --------------------------------
(***************************************************************************)
(* SHA1::Transform and the digests of src/sha1.cpp.  A word of 32 bits is  *)
(* the set of the positions of its ones.                                   *)
(***************************************************************************)
EXTENDS Integers, FiniteSets, SequencesExt

WORD == 32

Bits(n, shift) == {b + shift : b \in {k \in 0 .. 15 : (n \div 2 ^ k) % 2 = 1}}
Word(high, low) == Bits(high, 16) \union Bits(low, 0)
Xor(x, y) == (x \ y) \union (y \ x)

Rol(x, n) == {(b + n) % WORD : b \in x}

(* Addition modulo 2^32: a carry comes from two ones below, through        *)
(* positions that have one.                                                *)
Plus(x, y) ==
  LET Carry(b) == \E k \in x \intersect y : k < b /\ \A i \in k + 1 .. b - 1 : i \in x \union y
  IN  {b \in 0 .. WORD - 1 : ((b \in x) # (b \in y)) # Carry(b)}

-----------------------------------------------------------------------------
(* blk0 and blk: the words of the block, and those made of earlier ones.   *)
FirstWord(block, i) ==
  Word(256 * block[4 * i + 1] + block[4 * i + 2], 256 * block[4 * i + 3] + block[4 * i + 4])

RECURSIVE Expand(_)
Expand(w) ==
  LET i == Len(w) + 1
  IN  IF i > 80 THEN w
      ELSE Expand(Append(w, Rol(Xor(Xor(w[i - 3], w[i - 8]), Xor(w[i - 14], w[i - 16])), 1)))

Schedule(block) == Expand([i \in 1 .. 16 |-> FirstWord(block, i - 1)])

(* R0 to R4: the function and the constant of a round.                     *)
Mix(round, w, x, y) ==
  CASE round < 20 -> Xor(w \intersect Xor(x, y), y)
    [] round \in 40 .. 59 -> ((w \union x) \intersect y) \union (w \intersect x)
    [] OTHER -> Xor(Xor(w, x), y)

RoundConstants == <<Word(23170, 31129), Word(28377, 60321), Word(36635, 48348), Word(51810, 49622)>>

(* A round adds to the last of five words, which is the first of the next. *)
Round(words, round, expanded) ==
  LET v == words[1]
      w == words[2]
      x == words[3]
      y == words[4]
      z == words[5]
      added == Plus(Plus(Mix(round, w, x, y), expanded), Plus(RoundConstants[round \div 20 + 1], Rol(v, 5)))
  IN  <<Plus(z, added), v, Rol(w, 30), x, y>>

RECURSIVE Rounds(_, _, _)
Rounds(words, round, expanded) ==
  IF round > 79 \/ words = <<>> THEN words
  ELSE Rounds(Round(words, round, expanded[round + 1]), round + 1, expanded)

Transform(state, block) ==
  LET words == Rounds(state, 0, Schedule(block))
  IN  [i \in 1 .. 5 |-> Plus(state[i], words[i])]

InitialState == <<Word(26437, 8961), Word(61389, 43913), Word(39098, 56574), Word(4146, 21622), Word(50130, 57840)>>

Blocks == INSTANCE Sha1Blocks WITH BLOCK_SIZE <- 64, COUNT_SIZE <- 8, INITIAL_STATE <- InitialState

(* Final and Finish: the bytes of the words, and their digits.             *)
ByteOf(word, i) == MapThenSumSet(LAMBDA k : 2 ^ k, {k \in 0 .. 7 : 8 * (3 - i) + k \in word})

Digest(data) ==
  LET state == Blocks!HashBuffer(data)
  IN  [i \in 1 .. 20 |-> ByteOf(state[(i - 1) \div 4 + 1], (i - 1) % 4)]

DigestString(data) ==
  LET digest == Digest(data)
  IN  [i \in 1 .. 40 |-> (digest[(i + 1) \div 2] \div (IF i % 2 = 1 THEN 16 ELSE 1)) % 16]

-----------------------------------------------------------------------------
(* The test vectors at the top of sha1.cpp, the second of which takes two  *)
(* blocks.                                                                 *)
TestVectors ==
  /\ DigestString([i \in 1 .. 3 |-> 96 + i]) =
       <<10, 9, 9, 9, 3, 14, 3, 6, 4, 7, 0, 6, 8, 1, 6, 10, 11, 10, 3, 14,
         2, 5, 7, 1, 7, 8, 5, 0, 12, 2, 6, 12, 9, 12, 13, 0, 13, 8, 9, 13>>
  /\ DigestString([i \in 1 .. 56 |-> 97 + ((i - 1) \div 4) + ((i - 1) % 4)]) =
       <<8, 4, 9, 8, 3, 14, 4, 4, 1, 12, 3, 11, 13, 2, 6, 14, 11, 10, 10, 14,
         4, 10, 10, 1, 15, 9, 5, 1, 2, 9, 14, 5, 14, 5, 4, 6, 7, 0, 15, 1>>
=============================================================================
