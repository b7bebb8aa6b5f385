------------------------------- MODULE Words --------------------------------
(***************************************************************************)
(* Memory as an array of bytes that wraps around, and what whole words,    *)
(* raw files and image files write to it and read from it.                 *)
(***************************************************************************)
EXTENDS Bytes, Sequences, FiniteSetsExt

CONSTANTS
    AddressSpace,   \* the number of addresses
    Int64Limit,     \* the first number that is too large for an int64
    ElfEntry        \* the line "elf_entry" of an image file

Address == 0..(AddressSpace - 1)

(* Memory m after n bytes were written from address a on, bytes[k] at      *)
(* place k; a later byte wins.                                             *)
Overlay(m, a, n, bytes) ==
    [x \in Address |->
       LET ks == {k \in 0..(n - 1) : (a + k) % AddressSpace = x}
       IN  IF ks = {} THEN m[x] ELSE bytes[Max(ks)]]

(* A word of n bytes is little endian; the bytes of a file come in order.  *)
OverlayWord(m, a, n, d) == Overlay(m, a, n, [k \in 0..(n - 1) |-> ByteOf(d, k)])
OverlayRaw(m, a, bytes) ==
    Overlay(m, a, Len(bytes), [k \in 0..(Len(bytes) - 1) |-> bytes[k + 1] % ByteValues])

(* atoll and sscanf, as glibc reads a number that is too large (in the C    *)
(* standard its value is undefined): the largest one.                      *)
atoll(n)      == IF n < Int64Limit THEN n ELSE Int64Limit - 1
sscanf_u64(n) == IF n < AddressSpace THEN n ELSE AddressSpace - 1

(* A pair of lines of an image file; its numbers are numbers for atoll and *)
(* sscanf.                                                                 *)
Line == [addr : Nat \cup {ElfEntry}, data : Nat]
LineFits(line) ==
    IF line.addr = ElfEntry THEN line.data < AddressSpace
    ELSE line.addr < Int64Limit /\ line.data < Int64Limit

(* The last line of an image for an address wins. *)
LinesFor(lines, x) == {n \in DOMAIN lines : lines[n].addr = x}
OverlayImage(m, lines) ==
    [x \in Address |->
       IF LinesFor(lines, x) = {} THEN m[x]
       ELSE lines[Max(LinesFor(lines, x))].data % ByteValues]

EntryOf(e, lines) ==
    IF LinesFor(lines, ElfEntry) = {} THEN e ELSE lines[Max(LinesFor(lines, ElfEntry))].data

(* The n bytes from address a on, as a word. *)
Word(m, a, n) == WordOf(n, [k \in 0..(n - 1) |-> m[(a + k) % AddressSpace]])
=============================================================================
