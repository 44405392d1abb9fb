----------------------------- MODULE Sha1Blocks -----------------------------
(***************************************************************************)
(* How the class SHA1 of src/sha1.cpp cuts a message into blocks: what     *)
(* Update, Pad and Final do, for any transformation and size of a block.   *)
(***************************************************************************)
EXTENDS Integers, SequencesExt

CONSTANTS
  BLOCK_SIZE,        (* of a block, in bytes: 64                           *)
  COUNT_SIZE,        (* of the count of bits at the end: 8                 *)
  INITIAL_STATE,
  Transform(_, _)    (* the state after a state and a block                *)

(* m_count counts bits, modulo what fits the integer.                      *)
NewContext == [state |-> INITIAL_STATE, count |-> 0, buffer |-> [i \in 1 .. BLOCK_SIZE |-> 0]]

Buffered(context) == (context.count \div 8) % BLOCK_SIZE

\* Mutant: what was in the buffer is forgotten when a block is complete.
UpdateDropping(context, data) ==
  LET whole == Len(data) - (Len(data) % BLOCK_SIZE)
      blocks == [k \in 1 .. whole \div BLOCK_SIZE |-> SubSeq(data, (k - 1) * BLOCK_SIZE + 1, k * BLOCK_SIZE)]
      rest == SubSeq(data, whole + 1, Len(data))
  IN  [state |-> FoldLeft(Transform, context.state, blocks),
       count |-> context.count + 8 * Len(data),
       buffer |-> rest \o SubSeq(context.buffer, Len(rest) + 1, BLOCK_SIZE)]

(* The first bytes fill the buffer up, whole blocks are transformed where  *)
(* they are, and the rest is kept at the beginning of the buffer.          *)
Update(context, data) ==
  LET j == Buffered(context)
      fill == BLOCK_SIZE - j
      blocks == (Len(data) - fill) \div BLOCK_SIZE
      Block(k) == SubSeq(data, fill + (k - 1) * BLOCK_SIZE + 1, fill + k * BLOCK_SIZE)
      rest == SubSeq(data, fill + blocks * BLOCK_SIZE + 1, Len(data))
      count == context.count + 8 * Len(data)
  IN  IF j + Len(data) < BLOCK_SIZE
        THEN [context EXCEPT !.count = count,
                             !.buffer = SubSeq(@, 1, j) \o data \o SubSeq(@, j + Len(data) + 1, BLOCK_SIZE)]
        ELSE [state |-> FoldLeft(Transform, context.state,
                                 <<SubSeq(context.buffer, 1, j) \o SubSeq(data, 1, fill)>> \o [k \in 1 .. blocks |-> Block(k)]),
              count |-> count,
              buffer |-> rest \o SubSeq(context.buffer, Len(rest) + 1, BLOCK_SIZE)]

(* The counts of the model are below 2^31: the bytes above are zero.       *)
BigEndian(n, size) == [i \in 1 .. size |-> IF size - i > 3 THEN 0 ELSE (n \div 256 ^ (size - i)) % 256]

RECURSIVE PadZeros(_)
PadZeros(context) ==
  IF Buffered(context) = BLOCK_SIZE - COUNT_SIZE THEN context ELSE PadZeros(Update(context, <<0>>))

Pad(context) == Update(PadZeros(Update(context, <<128>>)), BigEndian(context.count, COUNT_SIZE))

HashBuffer(data) == Pad(Update(NewContext, data)).state

-----------------------------------------------------------------------------
(* The message with its padding, as the standard defines it.               *)
Padded(data) ==
  LET zeros == CHOOSE z \in 0 .. BLOCK_SIZE - 1 : (Len(data) + 1 + z + COUNT_SIZE) % BLOCK_SIZE = 0
  IN  data \o <<128>> \o [i \in 1 .. zeros |-> 0] \o BigEndian(8 * Len(data), COUNT_SIZE)

(* However a message is cut into calls of Update, its digest is that of    *)
(* the padded message, block by block, and the calls leave the count and   *)
(* the buffer of one call.                                                 *)
DigestOfWhole(data, cut) ==
  LET message == Padded(data)
      blocks == [k \in 1 .. Len(message) \div BLOCK_SIZE |-> SubSeq(message, (k - 1) * BLOCK_SIZE + 1, k * BLOCK_SIZE)]
      context == Update(Update(NewContext, SubSeq(data, 1, cut)), SubSeq(data, cut + 1, Len(data)))
  IN  /\ Pad(context).state = FoldLeft(Transform, INITIAL_STATE, blocks)
      /\ context.count = 8 * Len(data)
      /\ Buffered(Pad(context)) = 0
=============================================================================
