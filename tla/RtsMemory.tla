----------------------------- MODULE RtsMemory ------------------------------
(***************************************************************************)
(* The memory of the C runtime (src/lib/rts.c).  Memory is a linked list   *)
(* of blocks, allocated when a byte of the block is first written and put  *)
(* at the front of the list; the tags are kept in a second list.  A word   *)
(* is written and read in a loop, one byte at a time, and so are the files *)
(* that are loaded before the model runs.                                  *)
(*                                                                         *)
(* The runtime is sequential: one call is in progress at a time, and an    *)
(* iteration of its loop is a step.                                        *)
(***************************************************************************)
EXTENDS Words       \* AddressSpace is 2^64, Int64Limit 2^63, ByteValues 256

CONSTANTS
    BlockSize,      \* MASK + 1, which divides AddressSpace
    FastWord,       \* 2^64, the values of an sbits
    Sizes,          \* bounds: the sizes of the words, in bytes,
    Data,           \*         the words written,
    Raws,           \*         the raw files,
    Images,         \*         the image files and
    Tagged          \*         the addresses whose tags are used

ASSUME MemoryAssumption ==
    /\ AddressSpace \in Nat \ {0}
    /\ Int64Limit \in 1..AddressSpace
    /\ BlockSize \in Nat \ {0}
    /\ FastWord \in Nat \ {0}
    /\ ElfEntry \notin Nat
    /\ Sizes \subseteq Nat
    /\ Data \subseteq Nat
    /\ Raws \subseteq Seq(Nat)
    /\ Images \subseteq Seq([addr : Nat \cup {ElfEntry}, data : Nat])
    /\ Tagged \subseteq 0..(AddressSpace - 1)

VARIABLES
    sail_memory,    \* the list of blocks, its head first
    sail_tags,      \* the list of tag blocks
    g_elf_entry,
    call,           \* the call in progress: its arguments and its loop
    input,          \* what a load has not read of its file
    result          \* what the last read returned

vars == <<sail_memory, sail_tags, g_elf_entry, call, input, result>>

Offset == 0..(BlockSize - 1)

Block(V) == [block_id : Address, mem : [Offset -> V]]

(* address & ~MASK and address & MASK *)
block_id(a) == a - (a % BlockSize)
offset(a)   == a % BlockSize

(* The blocks that hold address a; the search finds the first of them.     *)
Holders(list, a) == {n \in DOMAIN list : list[n].block_id = block_id(a)}
Found(list, a)   == CHOOSE n \in Holders(list, a) : \A m \in Holders(list, a) : n <= m

(* Mutants: only the first block of the list is searched; a new block is   *)
(* not zeroed.                                                             *)
MutSearchHead(list, a, v, zero) ==
    IF list # <<>> /\ Head(list).block_id = block_id(a)
    THEN [list EXCEPT ![1].mem[offset(a)] = v]
    ELSE <<[block_id |-> block_id(a),
            mem |-> [o \in Offset |-> IF o = offset(a) THEN v ELSE zero]]>> \o list
MutNotZeroed(list, a, v, zero) ==
    IF Holders(list, a) # {}
    THEN [list EXCEPT ![Found(list, a)].mem[offset(a)] = v]
    ELSE <<[block_id |-> block_id(a), mem |-> [o \in Offset |-> v]]>> \o list

(* Write v, in a new block that is otherwise zero if there is none. *)
write_block(list, a, v, zero) ==
    IF Holders(list, a) # {}
    THEN [list EXCEPT ![Found(list, a)].mem[offset(a)] = v]
    ELSE <<[block_id |-> block_id(a),
            mem |-> [o \in Offset |-> IF o = offset(a) THEN v ELSE zero]]>> \o list

read_block(list, a, zero) ==
    IF Holders(list, a) # {} THEN list[Found(list, a)].mem[offset(a)] ELSE zero

(* Mutant: the byte is stored whole. *)
MutStoreWide(a, byte) == sail_memory' = write_block(sail_memory, a, byte, 0)

write_mem(a, byte)   == sail_memory' = write_block(sail_memory, a, byte % ByteValues, 0)
read_mem(a)          == read_block(sail_memory, a, 0)
read_tag_bool(a)     == read_block(sail_tags, a, FALSE)

-----------------------------------------------------------------------------
(* addr, size and buf are the variables of the loops, i their counter.     *)
Idle == [op |-> "idle", addr |-> 0, size |-> 0, i |-> 0, buf |-> 0]

Init ==
    /\ sail_memory = <<>>
    /\ sail_tags = <<>>
    /\ g_elf_entry = 0
    /\ call = Idle
    /\ input = <<>>
    /\ result = 0

In(op) == call.op = op

(* uint64_t addition *)
Plus(a, n) == (a + n) % AddressSpace

(* Calls. *)
CallWriteRam ==
    /\ In("idle")
    /\ \E a \in Address, n \in Sizes, d \in Data :
         call' = [op |-> "write_ram", addr |-> a, size |-> n, i |-> 0, buf |-> d]
    /\ UNCHANGED <<sail_memory, sail_tags, g_elf_entry, input, result>>

CallReadRam ==
    /\ In("idle")
    /\ \E a \in Address, n \in Sizes, op \in {"read_ram", "fast_read_ram"} :
         call' = [op |-> op, addr |-> a, size |-> n, i |-> n, buf |-> 0]
    /\ UNCHANGED <<sail_memory, sail_tags, g_elf_entry, input, result>>

CallLoadRaw ==
    /\ In("idle")
    /\ \E a \in Address, bytes \in Raws :
         /\ call' = [Idle EXCEPT !.op = "load_raw", !.addr = a]
         /\ input' = bytes
    /\ UNCHANGED <<sail_memory, sail_tags, g_elf_entry, result>>

CallLoadImage ==
    /\ In("idle")
    /\ \E lines \in Images : input' = lines
    /\ call' = [Idle EXCEPT !.op = "load_image"]
    /\ UNCHANGED <<sail_memory, sail_tags, g_elf_entry, result>>

(* An iteration of the loop of write_ram: the 8 low bits of buf go to      *)
(* addr + i, and buf is shifted.                                           *)
WriteByte ==
    /\ In("write_ram")
    /\ call.i < call.size
    /\ write_mem(Plus(call.addr, call.i), call.buf)
    /\ call' = [call EXCEPT !.buf = @ \div ByteValues, !.i = @ + 1]
    /\ UNCHANGED <<sail_tags, g_elf_entry, input, result>>

WriteReturn ==
    /\ In("write_ram")
    /\ call.i = call.size
    /\ call' = Idle
    /\ UNCHANGED <<sail_memory, sail_tags, g_elf_entry, input, result>>

(* Mutant: the counter is not yet the index of the byte. *)
MutReadByte ==
    /\ In("read_ram")
    /\ call.i > 0
    /\ call' = [call EXCEPT !.buf = @ * ByteValues + read_mem(Plus(call.addr, call.i)),
                            !.i = @ - 1]
    /\ UNCHANGED <<sail_memory, sail_tags, g_elf_entry, input, result>>

(* The bytes are read from the last one, the most significant, on.         *)
ReadByte ==
    /\ In("read_ram")
    /\ call.i > 0
    /\ call' = [call EXCEPT !.buf = @ * ByteValues + read_mem(Plus(call.addr, call.i - 1)),
                            !.i = @ - 1]
    /\ UNCHANGED <<sail_memory, sail_tags, g_elf_entry, input, result>>

(* In a uint64_t. *)
FastReadByte ==
    /\ In("fast_read_ram")
    /\ call.i > 0
    /\ call' = [call EXCEPT !.buf = (@ * ByteValues + read_mem(Plus(call.addr, call.i - 1)))
                                        % FastWord,
                            !.i = @ - 1]
    /\ UNCHANGED <<sail_memory, sail_tags, g_elf_entry, input, result>>

ReadReturn ==
    /\ In("read_ram") \/ In("fast_read_ram")
    /\ call.i = 0
    /\ result' = call.buf
    /\ call' = Idle
    /\ UNCHANGED <<sail_memory, sail_tags, g_elf_entry, input>>

LoadRawByte ==
    /\ In("load_raw")
    /\ input # <<>>
    /\ write_mem(call.addr, Head(input))
    /\ call' = [call EXCEPT !.addr = Plus(@, 1)]
    /\ input' = Tail(input)
    /\ UNCHANGED <<sail_tags, g_elf_entry, result>>

(* Two lines: an address and a byte, or "elf_entry" and the entry point.   *)
LoadImagePair ==
    /\ In("load_image")
    /\ input # <<>>
    /\ input' = Tail(input)
    /\ LET line == Head(input)
       IN  \/ /\ line.addr = ElfEntry
              /\ g_elf_entry' = sscanf_u64(line.data)
              /\ UNCHANGED sail_memory
           \/ /\ line.addr # ElfEntry
              /\ write_mem(atoll(line.addr), atoll(line.data))
              /\ UNCHANGED g_elf_entry
    /\ UNCHANGED <<sail_tags, call, result>>

(* The end of the file; an address without a second line is ignored.       *)
LoadReturn ==
    /\ In("load_raw") \/ In("load_image")
    /\ input = <<>>
    /\ call' = Idle
    /\ UNCHANGED <<sail_memory, sail_tags, g_elf_entry, input, result>>

WriteTag ==
    /\ In("idle")
    /\ \E a \in Tagged, t \in BOOLEAN :
         sail_tags' = write_block(sail_tags, a, t, FALSE)
    /\ UNCHANGED <<sail_memory, g_elf_entry, call, input, result>>

ReadTag ==
    /\ In("idle")
    /\ \E a \in Tagged : result' = IF read_tag_bool(a) THEN 1 ELSE 0
    /\ UNCHANGED <<sail_memory, sail_tags, g_elf_entry, call, input>>

(* At the end of the model, before a possible next model_init.             *)
kill_mem ==
    /\ In("idle")
    /\ sail_memory' = <<>>
    /\ sail_tags' = <<>>
    /\ UNCHANGED <<g_elf_entry, call, input, result>>

Next ==
    \/ CallWriteRam \/ CallReadRam \/ CallLoadRaw \/ CallLoadImage
    \/ WriteByte \/ WriteReturn \/ ReadByte \/ FastReadByte \/ ReadReturn
    \/ LoadRawByte \/ LoadImagePair \/ LoadReturn
    \/ WriteTag \/ ReadTag \/ kill_mem

Spec == Init /\ [][Next]_vars

-----------------------------------------------------------------------------
Ops == {"idle", "write_ram", "read_ram", "fast_read_ram", "load_raw", "load_image"}

(* Type correctness: in particular a block never holds more than a byte    *)
(* per address, whatever the call was given.                               *)
TypeOK ==
    /\ sail_memory \in Seq(Block(Byte))
    /\ sail_tags \in Seq(Block(BOOLEAN))
    /\ g_elf_entry \in Address
    /\ call \in [op : Ops, addr : Address, size : Nat, i : Nat, buf : Nat]
    /\ input \in CASE In("load_raw")   -> Seq(Nat)
                    [] In("load_image") -> Seq(Line)
                    [] OTHER            -> {<<>>}
    /\ result \in Nat

UniqueIds(list) ==
    \A m, n \in DOMAIN list : list[m].block_id = list[n].block_id => m = n

(* No two blocks of a list are for the same addresses: a write would reach *)
(* one of them only, and the other would answer later, when the order of   *)
(* the list has changed.                                                   *)
UniqueBlocks == UniqueIds(sail_memory) /\ UniqueIds(sail_tags)

(* The lists of blocks are arrays of bytes and tags: a step of a call      *)
(* writes one address, and no other address of the same block, nor of a    *)
(* block allocated earlier, changes with it.                               *)
FlatRam  == [a \in Address |-> read_mem(a)]
FlatTags == [a \in Address |-> read_tag_bool(a)]

Flat == INSTANCE FlatMemory WITH ram <- FlatRam, tags <- FlatTags
ListIsFlat == Flat!Spec

(* Loading a line of an image puts its byte at its address, as the OCaml   *)
(* back end and the interpreter do when they load the ELF file itself.     *)
LineIsExact ==
    LET line == Head(input)
    IN  In("load_image") /\ input # <<>> /\ line.addr \in Address
            => FlatRam'[line.addr] = line.data % ByteValues
ImageIsExact == [][LineIsExact]_vars
=============================================================================
