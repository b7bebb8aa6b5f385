------------------------------- MODULE Bytes --------------------------------
(***************************************************************************)
(* Numbers as rows of bytes, the least significant first.                  *)
(***************************************************************************)
EXTENDS Integers

CONSTANT ByteValues    \* the number of values of a byte, 256

ASSUME ByteAssumption == ByteValues \in Nat \ {0}

Byte == 0..(ByteValues - 1)

(* ByteValues to the n, the number of words of n bytes. *)
Power[n \in Nat] == IF n = 0 THEN 1 ELSE ByteValues * Power[n - 1]

(* The byte of d at place k. *)
ByteOf(d, k) == (d \div Power[k]) % ByteValues

(* The word of n bytes that has bytes[k] at place k. *)
IsWord(w, n, bytes) ==
    /\ w \in 0..(Power[n] - 1)
    /\ \A k \in 0..(n - 1) : ByteOf(w, k) = bytes[k]
WordOf(n, bytes) == CHOOSE w \in 0..(Power[n] - 1) : \A k \in 0..(n - 1) : ByteOf(w, k) = bytes[k]
=============================================================================
