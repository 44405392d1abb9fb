----------------------------- MODULE LoadStore ------------------------------
(***************************************************************************)
(* src/include/shared/load_store.h on both kinds of CPU: memcpy where the  *)
(* order of the bytes is the one that is wanted, shifts where it is not.   *)
(* Memory is a sequence of bytes.                                          *)
(***************************************************************************)
EXTENDS Integers, SequencesExt

CONSTANT BYTE      (* how many values a byte has: 256                      *)

(* What memory has of an integer of n bytes, and the integer it is.        *)
LittleBytes(n, value) == [i \in 1 .. n |-> (value \div BYTE ^ (i - 1)) % BYTE]
InMemory(little, n, value) == IF little THEN LittleBytes(n, value) ELSE Reverse(LittleBytes(n, value))

LittleValue(bytes) == FoldRight(LAMBDA byte, value : byte + BYTE * value, bytes, 0)
FromMemory(little, bytes) == LittleValue(IF little THEN bytes ELSE Reverse(bytes))

(* Load8LE to Load64LE, and Load8BE to Load64BE, by the shifts of each.    *)
LoadLE(little, src) ==
  IF little THEN FromMemory(little, src)
  ELSE FoldLeft(LAMBDA value, i : value + src[i] * BYTE ^ (i - 1), 0, [i \in DOMAIN src |-> i])

LoadBE(little, src) ==
  IF ~little THEN FromMemory(little, src)
  ELSE FoldLeft(LAMBDA value, i : value + src[i] * BYTE ^ (Len(src) - i), 0, [i \in DOMAIN src |-> i])

StoreLE(little, n, value) ==
  IF little THEN InMemory(little, n, value)
  ELSE [i \in 1 .. n |-> (value \div BYTE ^ (i - 1)) % BYTE]

StoreBE(little, n, value) ==
  IF ~little THEN InMemory(little, n, value)
  ELSE [i \in 1 .. n |-> (value \div BYTE ^ (n - i)) % BYTE]

(* ByteSwap16 to ByteSwap64 exchange the bytes at both ends, and so on.    *)
ByteSwap(little, n, value) ==
  LET p == InMemory(little, n, value)
  IN  FromMemory(little, [i \in 1 .. n |-> p[n + 1 - i]])

(* On either CPU a value that is stored is loaded again, what one CPU      *)
(* stores the other loads, the two orders are mirror images, and a swap    *)
(* takes the one for the other.                                            *)
OrdersRight(n, value) ==
  \A here, there \in BOOLEAN :
    /\ LoadLE(there, StoreLE(here, n, value)) = value
    /\ LoadBE(there, StoreBE(here, n, value)) = value
    /\ StoreBE(here, n, value) = Reverse(StoreLE(there, n, value))
    /\ ByteSwap(here, n, value) = LoadBE(there, StoreLE(here, n, value))
=============================================================================
