-------------------------- MODULE RtsMemoryProofs ---------------------------
(***************************************************************************)
(* Proofs about the memory of the C runtime, for every word size, block    *)
(* size and address space: its lists of blocks are a flat memory, and its  *)
(* byte loops are single operations on words.                              *)
(***************************************************************************)
EXTENDS RtsAtomic, BytesProofs

(* An address is the number of its block and an offset within it. *)
LEMMA AddressSplit ==
    ASSUME NEW a \in Address
    PROVE  /\ block_id(a) \in Address
           /\ offset(a) \in Offset
           /\ a = block_id(a) + offset(a)
<1>1. a \in Nat /\ BlockSize \in Nat /\ BlockSize > 0
  BY MemoryAssumption DEF Address
<1>2. a % BlockSize \in 0..(BlockSize - 1)
  BY <1>1
<1>3. a % BlockSize <= a
  BY <1>1, <1>2
<1> QED
  BY <1>1, <1>2, <1>3, MemoryAssumption DEF Address, Offset, block_id, offset

(* A block is found when there is one, and it is the only one. *)
LEMMA FoundBlock ==
    ASSUME NEW S, NEW list \in Seq(S), NEW a,
           UniqueIds(list), Holders(list, a) # {}
    PROVE  /\ Found(list, a) \in DOMAIN list
           /\ list[Found(list, a)].block_id = block_id(a)
           /\ \A m \in DOMAIN list : list[m].block_id = block_id(a) => m = Found(list, a)
<1>1. PICK n \in DOMAIN list : list[n].block_id = block_id(a)
  BY DEF Holders
<1>2. n \in Nat /\ n \in Holders(list, a)
  BY <1>1 DEF Holders
<1>3. \A m \in Holders(list, a) : m = n
  BY <1>1 DEF Holders, UniqueIds
<1>4. Found(list, a) \in Holders(list, a)
  BY <1>2, <1>3 DEF Found
<1> QED
  BY <1>1, <1>3, <1>4 DEF Holders

(* The byte of a changes in its block. *)
Updates(new, list, a, v) ==
    \E n \in DOMAIN list :
        /\ list[n].block_id = block_id(a)
        /\ new = [list EXCEPT ![n].mem[offset(a)] = v]

(* A block with the id of a, unlike the ids of all others, is put in front. *)
Extends(new, list, V, a, v, zero) ==
    \E block \in Block(V) :
        /\ \A n \in DOMAIN list : list[n].block_id # block_id(a)
        /\ block.block_id = block_id(a)
        /\ block.mem = [o \in Offset |-> IF o = offset(a) THEN v ELSE zero]
        /\ new = <<block>> \o list

(* These are the two ways write_block changes a list. *)
LEMMA WriteBlockCases ==
    ASSUME NEW V, NEW list \in Seq(Block(V)), UniqueIds(list),
           NEW a \in Address, NEW v \in V, NEW zero \in V
    PROVE  LET new == write_block(list, a, v, zero)
           IN  Updates(new, list, a, v) \/ Extends(new, list, V, a, v, zero)
<1>1. CASE Holders(list, a) # {}
  BY <1>1, FoundBlock DEF write_block, Updates
<1>2. CASE Holders(list, a) = {}
  <2> DEFINE block == [block_id |-> block_id(a),
                       mem |-> [o \in Offset |-> IF o = offset(a) THEN v ELSE zero]]
  <2>1. block \in Block(V)
    BY AddressSplit DEF Block
  <2>2. \A n \in DOMAIN list : list[n].block_id # block_id(a)
    BY <1>2 DEF Holders
  <2>3. write_block(list, a, v, zero) = <<block>> \o list
    BY <1>2 DEF write_block
  <2> QED
    BY <2>1, <2>2, <2>3 DEF Extends
<1> QED
  BY <1>1, <1>2

(* The new first block of an extended list, and the others after it. *)
LEMMA FrontBlock ==
    ASSUME NEW S, NEW list \in Seq(S), NEW block, NEW new, new = <<block>> \o list
    PROVE  /\ 1 \in DOMAIN new /\ new[1] = block
           /\ \A m \in DOMAIN list : m + 1 \in DOMAIN new /\ new[m + 1] = list[m]
           /\ \A m \in DOMAIN new \ {1} : m - 1 \in DOMAIN list /\ new[m] = list[m - 1]
OBVIOUS

(* Writing a block keeps the type of the list. *)
LEMMA WriteBlockType ==
    ASSUME NEW V, NEW list \in Seq(Block(V)), UniqueIds(list),
           NEW a \in Address, NEW v \in V, NEW zero \in V
    PROVE  write_block(list, a, v, zero) \in Seq(Block(V))
<1> DEFINE new == write_block(list, a, v, zero)
<1>0. Updates(new, list, a, v) \/ Extends(new, list, V, a, v, zero)
  BY WriteBlockCases
<1> HIDE DEF new
<1>1. ASSUME Updates(new, list, a, v) PROVE new \in Seq(Block(V))
  <2>1. PICK n \in DOMAIN list : new = [list EXCEPT ![n].mem[offset(a)] = v]
    BY <1>1 DEF Updates
  <2>2. list[n] \in Block(V) /\ offset(a) \in Offset
    BY AddressSplit
  <2>3. [list[n] EXCEPT !.mem[offset(a)] = v] \in Block(V)
    BY <2>2 DEF Block
  <2>4. new = [list EXCEPT ![n] = [list[n] EXCEPT !.mem[offset(a)] = v]]
    BY <2>1
  <2> QED
    BY <2>3, <2>4
<1>2. ASSUME Extends(new, list, V, a, v, zero) PROVE new \in Seq(Block(V))
  <2>1. PICK block \in Block(V) : new = <<block>> \o list
    BY <1>2 DEF Extends
  <2> QED
    BY <2>1
<1>3. new \in Seq(Block(V))
  BY <1>0, <1>1, <1>2
<1> QED
  BY <1>3 DEF new

(* Writing a block keeps the ids of the blocks distinct. *)
LEMMA WriteBlockUnique ==
    ASSUME NEW V, NEW list \in Seq(Block(V)), UniqueIds(list),
           NEW a \in Address, NEW v \in V, NEW zero \in V
    PROVE  UniqueIds(write_block(list, a, v, zero))
<1> DEFINE new == write_block(list, a, v, zero)
<1>0. Updates(new, list, a, v) \/ Extends(new, list, V, a, v, zero)
  BY WriteBlockCases
<1> HIDE DEF new
<1>1. ASSUME Updates(new, list, a, v) PROVE UniqueIds(new)
  <2>1. PICK n \in DOMAIN list : new = [list EXCEPT ![n].mem[offset(a)] = v]
    BY <1>1 DEF Updates
  <2>2. DOMAIN new = DOMAIN list
    BY <2>1
  <2>3. \A m \in DOMAIN list : new[m].block_id = list[m].block_id
    BY <2>1 DEF Block
  <2> QED
    BY <2>2, <2>3 DEF UniqueIds
<1>2. ASSUME Extends(new, list, V, a, v, zero) PROVE UniqueIds(new)
  <2>1. PICK block \in Block(V) :
          /\ new = <<block>> \o list
          /\ \A n \in DOMAIN list : list[n].block_id # block.block_id
    BY <1>2 DEF Extends
  <2>2. new[1] = block
    BY <2>1, FrontBlock
  <2>3. \A m \in DOMAIN new \ {1} : m - 1 \in DOMAIN list /\ new[m] = list[m - 1]
    BY <2>1, FrontBlock
  <2>4. DOMAIN new \subseteq Nat
    BY <2>1
  <2> QED
    BY <2>1, <2>2, <2>3, <2>4 DEF UniqueIds
<1>3. UniqueIds(new)
  BY <1>0, <1>1, <1>2
<1> QED
  BY <1>3 DEF new

(* A read finds the only block with the id of its address. *)
LEMMA ReadFound ==
    ASSUME NEW S, NEW list \in Seq(S), UniqueIds(list), NEW x, NEW zero,
           NEW n \in DOMAIN list, list[n].block_id = block_id(x)
    PROVE  read_block(list, x, zero) = list[n].mem[offset(x)]
<1>1. n \in Holders(list, x)
  BY DEF Holders
<1>2. Found(list, x) = n
  BY <1>1, FoundBlock
<1> QED
  BY <1>1, <1>2 DEF read_block

LEMMA ReadMissing ==
    ASSUME NEW list, NEW x, NEW zero,
           \A n \in DOMAIN list : list[n].block_id # block_id(x)
    PROVE  read_block(list, x, zero) = zero
BY DEF read_block, Holders

(* A read after a write answers the byte written at its address, and what  *)
(* it answered before at any other.                                        *)
LEMMA ReadAfterWrite ==
    ASSUME NEW V, NEW list \in Seq(Block(V)), UniqueIds(list),
           NEW a \in Address, NEW v \in V, NEW zero \in V, NEW x \in Address
    PROVE  read_block(write_block(list, a, v, zero), x, zero)
             = IF x = a THEN v ELSE read_block(list, x, zero)
<1> DEFINE new == write_block(list, a, v, zero)
           Goal == read_block(new, x, zero) = IF x = a THEN v ELSE read_block(list, x, zero)
<1>0. Updates(new, list, a, v) \/ Extends(new, list, V, a, v, zero)
  BY WriteBlockCases
<1>1. new \in Seq(Block(V)) /\ UniqueIds(new)
  BY WriteBlockType, WriteBlockUnique
<1> HIDE DEF new
<1>2. offset(a) \in Offset /\ offset(x) \in Offset
  BY AddressSplit
<1>3. block_id(x) = block_id(a) => (x = a <=> offset(x) = offset(a))
  BY AddressSplit
<1>4. ASSUME Updates(new, list, a, v) PROVE Goal
  <2>1. PICK n \in DOMAIN list : /\ list[n].block_id = block_id(a)
                                 /\ new = [list EXCEPT ![n].mem[offset(a)] = v]
    BY <1>4 DEF Updates
  <2>2. list[n] \in Block(V) /\ list[n].mem \in [Offset -> V]
    <3>1. list[n] \in Block(V)
      OBVIOUS
    <3> QED
      BY <3>1 DEF Block
  <2>3. DOMAIN new = DOMAIN list /\ \A m \in DOMAIN list : new[m].block_id = list[m].block_id
    BY <2>1 DEF Block
  <2>4. new[n].mem = [list[n].mem EXCEPT ![offset(a)] = v]
    BY <2>1, <2>2 DEF Block
  <2>5. \A m \in DOMAIN list \ {n} : new[m] = list[m]
    BY <2>1
  <2>6. CASE block_id(x) = block_id(a)
    <3>1. new[n].block_id = block_id(x) /\ list[n].block_id = block_id(x)
      BY <2>1, <2>3, <2>6
    <3>2. read_block(new, x, zero) = new[n].mem[offset(x)]
      BY <1>1, <2>3, <3>1, ReadFound
    <3>3. read_block(list, x, zero) = list[n].mem[offset(x)]
      BY <3>1, ReadFound
    <3> QED
      BY <1>2, <1>3, <2>2, <2>4, <2>6, <3>2, <3>3
  <2>7. ASSUME block_id(x) # block_id(a), NEW m \in DOMAIN list, list[m].block_id = block_id(x)
        PROVE  read_block(new, x, zero) = read_block(list, x, zero)
    <3>1. m # n
      BY <2>1, <2>7
    <3>2. read_block(new, x, zero) = new[m].mem[offset(x)]
      BY <1>1, <2>3, <2>7, ReadFound
    <3>3. read_block(list, x, zero) = list[m].mem[offset(x)]
      BY <2>7, ReadFound
    <3> QED
      BY <2>5, <3>1, <3>2, <3>3
  <2>8. ASSUME block_id(x) # block_id(a), \A m \in DOMAIN list : list[m].block_id # block_id(x)
        PROVE  read_block(new, x, zero) = read_block(list, x, zero)
    BY <2>3, <2>8, ReadMissing
  <2> QED
    BY <2>6, <2>7, <2>8
<1>5. ASSUME Extends(new, list, V, a, v, zero) PROVE Goal
  <2>1. PICK block \in Block(V) :
          /\ \A n \in DOMAIN list : list[n].block_id # block_id(a)
          /\ block.block_id = block_id(a)
          /\ block.mem = [o \in Offset |-> IF o = offset(a) THEN v ELSE zero]
          /\ new = <<block>> \o list
    BY <1>5 DEF Extends
  <2>2. 1 \in DOMAIN new /\ new[1] = block
    BY <2>1, FrontBlock
  <2>3. \A m \in DOMAIN list : m + 1 \in DOMAIN new /\ new[m + 1] = list[m]
    BY <2>1, FrontBlock
  <2>4. CASE block_id(x) = block_id(a)
    <3> DEFINE n == 1
    <3>0. n \in DOMAIN new /\ new[n].block_id = block_id(x)
      BY <2>1, <2>2, <2>4
    <3> HIDE DEF n
    <3>1. read_block(new, x, zero) = new[n].mem[offset(x)]
      BY <1>1, <3>0, ReadFound
    <3>2. read_block(list, x, zero) = zero
      BY <2>1, <2>4, ReadMissing
    <3> QED
      BY <1>2, <1>3, <2>1, <2>2, <2>4, <3>1, <3>2 DEF n
  <2>5. ASSUME block_id(x) # block_id(a), NEW m \in DOMAIN list, list[m].block_id = block_id(x)
        PROVE  read_block(new, x, zero) = read_block(list, x, zero)
    <3> DEFINE n == m + 1
    <3>0. n \in DOMAIN new /\ new[n] = list[m] /\ new[n].block_id = block_id(x)
      BY <2>3, <2>5
    <3> HIDE DEF n
    <3>1. read_block(new, x, zero) = new[n].mem[offset(x)]
      BY <1>1, <3>0, ReadFound
    <3>2. read_block(list, x, zero) = list[m].mem[offset(x)]
      BY <2>5, ReadFound
    <3> QED
      BY <3>0, <3>1, <3>2
  <2>6. ASSUME block_id(x) # block_id(a), \A m \in DOMAIN list : list[m].block_id # block_id(x)
        PROVE  read_block(new, x, zero) = read_block(list, x, zero)
    <3>1. \A m \in DOMAIN new \ {1} : m - 1 \in DOMAIN list /\ new[m] = list[m - 1]
      BY <2>1, FrontBlock
    <3>2. \A m \in DOMAIN new : new[m].block_id # block_id(x)
      BY <2>1, <2>2, <2>6, <3>1
    <3> QED
      BY <2>6, <3>2, ReadMissing
  <2> QED
    BY <2>4, <2>5, <2>6
<1>6. Goal
  BY <1>0, <1>4, <1>5
<1> QED
  BY <1>6 DEF new

-----------------------------------------------------------------------------
(* The invariants of the lists are inductive together: only while the ids  *)
(* are unique is the block that a search finds the one that was written.   *)
IInv == TypeOK /\ UniqueBlocks

LEMMA WriteMemKeeps ==
    ASSUME IInv, NEW a \in Address, NEW byte \in Nat, write_mem(a, byte)
    PROVE  sail_memory' \in Seq(Block(Byte)) /\ UniqueIds(sail_memory')
<1>1. byte % ByteValues \in Byte /\ 0 \in Byte
  BY ByteAssumption DEF Byte
<1>2. sail_memory \in Seq(Block(Byte)) /\ UniqueIds(sail_memory)
  BY DEF IInv, TypeOK, UniqueBlocks
<1> QED
  BY <1>1, <1>2, WriteBlockType, WriteBlockUnique DEF write_mem

LEMMA WriteTagKeeps ==
    ASSUME IInv, WriteTag
    PROVE  sail_tags' \in Seq(Block(BOOLEAN)) /\ UniqueIds(sail_tags')
<1>1. PICK a \in Tagged, t \in BOOLEAN : sail_tags' = write_block(sail_tags, a, t, FALSE)
  BY DEF WriteTag
<1>2. a \in Address /\ FALSE \in BOOLEAN
  BY MemoryAssumption DEF Address
<1>3. sail_tags \in Seq(Block(BOOLEAN)) /\ UniqueIds(sail_tags)
  BY DEF IInv, TypeOK, UniqueBlocks
<1> QED
  BY <1>1, <1>2, <1>3, WriteBlockType, WriteBlockUnique

LEMMA ReadMemType ==
    ASSUME IInv, NEW a \in Address
    PROVE  read_mem(a) \in Byte
<1>1. sail_memory \in Seq(Block(Byte)) /\ UniqueIds(sail_memory) /\ 0 \in Byte
  BY ByteAssumption DEF IInv, TypeOK, UniqueBlocks, Byte
<1>2. CASE Holders(sail_memory, a) # {}
  <2>1. PICK n \in DOMAIN sail_memory : sail_memory[n].block_id = block_id(a)
    BY <1>2 DEF Holders
  <2>2. read_mem(a) = sail_memory[n].mem[offset(a)]
    BY <1>1, <2>1, ReadFound DEF read_mem
  <2>3. sail_memory[n] \in Block(Byte)
    BY <1>1
  <2> QED
    BY <2>2, <2>3, AddressSplit DEF Block
<1>3. CASE Holders(sail_memory, a) = {}
  BY <1>1, <1>3 DEF read_mem, read_block
<1> QED
  BY <1>2, <1>3

(* Z3 needs these facts about products and quotients as lemmas. *)
LEMMA TimesType ==
    ASSUME NEW m \in Nat, NEW n \in Nat
    PROVE  m * n \in Nat
OBVIOUS

LEMMA DivType ==
    ASSUME NEW m \in Nat, NEW n \in Nat \ {0}
    PROVE  m \div n \in Nat
OBVIOUS

(* What the parsers of an image line return is an address, and so fits in  *)
(* 64 bits.                                                                *)
LEMMA ParsedNumbers ==
    ASSUME NEW n \in Nat
    PROVE  atoll(n) \in Address /\ atoll(n) \in Nat /\ sscanf_u64(n) \in Address
BY MemoryAssumption DEF Address, atoll, sscanf_u64

LEMMA PlusType ==
    ASSUME NEW a \in Nat, NEW n \in Nat
    PROVE  Plus(a, n) \in Address
BY MemoryAssumption DEF Plus, Address

LEMMA InitIInv == Init => IInv
<1> SUFFICES ASSUME Init PROVE IInv
  OBVIOUS
<1>1. 0 \in Address
  BY MemoryAssumption DEF Address
<1>2. TypeOK
  BY <1>1 DEF Init, Idle, TypeOK, Ops, In
<1>3. UniqueBlocks
  BY DEF Init, UniqueBlocks, UniqueIds
<1> QED
  BY <1>2, <1>3 DEF IInv

LEMMA NextIInv == IInv /\ [Next]_vars => IInv'
<1> SUFFICES ASSUME IInv, [Next]_vars PROVE IInv'
  OBVIOUS
<1> USE DEF IInv, TypeOK, UniqueBlocks, Ops, In, Line
<1>0. 0 \in Address /\ Address \subseteq Nat
  BY MemoryAssumption DEF Address
<1>1. CASE CallWriteRam
  BY <1>0, <1>1, MemoryAssumption DEF CallWriteRam
<1>2. CASE CallReadRam
  BY <1>0, <1>2, MemoryAssumption DEF CallReadRam
<1>3. CASE CallLoadRaw
  BY <1>0, <1>3, MemoryAssumption DEF CallLoadRaw, Idle
<1>4. CASE CallLoadImage
  BY <1>0, <1>4, MemoryAssumption DEF CallLoadImage, Idle
<1>5. CASE WriteByte
  <2>1. Plus(call.addr, call.i) \in Address /\ call.buf \in Nat
    BY <1>0, PlusType
  <2>2. sail_memory' \in Seq(Block(Byte)) /\ UniqueIds(sail_memory')
    BY <1>5, <2>1, WriteMemKeeps DEF WriteByte
  <2>3. call.buf \div ByteValues \in Nat
    BY <2>1, ByteAssumption, DivType
  <2>4. call' \in [op : Ops, addr : Address, size : Nat, i : Nat, buf : Nat] /\ call'.op = "write_ram"
    <3>1. call' = [call EXCEPT !.buf = call.buf \div ByteValues, !.i = call.i + 1]
      BY <1>5 DEF WriteByte
    <3>2. call.i + 1 \in Nat /\ call.op = "write_ram"
      BY <1>5 DEF WriteByte
    <3> DEFINE buf == call.buf \div ByteValues
    <3> HIDE DEF buf
    <3>3. call' = [call EXCEPT !.buf = buf, !.i = call.i + 1]
      BY <3>1 DEF buf
    <3>4. buf \in Nat
      BY <2>3 DEF buf
    <3> QED
      BY <3>2, <3>3, <3>4
  <2> QED
    BY <1>5, <2>2, <2>4 DEF WriteByte
<1>6. CASE WriteReturn
  BY <1>0, <1>6 DEF WriteReturn, Idle
<1>7. CASE ReadByte
  <2>1. call.i - 1 \in Nat
    BY <1>7 DEF ReadByte
  <2>2. read_mem(Plus(call.addr, call.i - 1)) \in Nat
    BY <1>0, <2>1, PlusType, ReadMemType DEF Byte
  <2>3. call.buf * ByteValues + read_mem(Plus(call.addr, call.i - 1)) \in Nat
    <3>1. call.buf * ByteValues \in Nat
      BY ByteAssumption, TimesType
    <3> QED
      BY <2>2, <3>1
  <2> QED
    BY <1>7, <2>1, <2>3 DEF ReadByte
<1>8. CASE FastReadByte
  <2>1. call.i - 1 \in Nat
    BY <1>8 DEF FastReadByte
  <2>2. read_mem(Plus(call.addr, call.i - 1)) \in Nat
    BY <1>0, <2>1, PlusType, ReadMemType DEF Byte
  <2> DEFINE r == call.buf * ByteValues + read_mem(Plus(call.addr, call.i - 1))
  <2>3. r \in Nat
    <3>1. call.buf * ByteValues \in Nat
      BY ByteAssumption, TimesType
    <3> QED
      BY <2>2, <3>1
  <2> HIDE DEF r
  <2>4. r % FastWord \in Nat
    BY <2>3, MemoryAssumption
  <2> QED
    BY <1>8, <2>1, <2>4 DEF FastReadByte, r
<1>9. CASE ReadReturn
  BY <1>0, <1>9 DEF ReadReturn, Idle
<1>10. CASE LoadRawByte
  <2>1. input \in Seq(Nat) /\ input # <<>> /\ Head(input) \in Nat /\ Tail(input) \in Seq(Nat)
    BY <1>10 DEF LoadRawByte
  <2>2. sail_memory' \in Seq(Block(Byte)) /\ UniqueIds(sail_memory')
    BY <1>10, <2>1, WriteMemKeeps DEF LoadRawByte
  <2>3. Plus(call.addr, 1) \in Address
    BY <1>0, PlusType
  <2> QED
    BY <1>10, <2>1, <2>2, <2>3 DEF LoadRawByte
<1>11. CASE LoadImagePair
  <2>1. input \in Seq(Line) /\ input # <<>> /\ Head(input) \in Line /\ Tail(input) \in Seq(Line)
    <3>1. input \in Seq(Line) /\ input # <<>>
      BY <1>11 DEF LoadImagePair
    <3> HIDE DEF Line
    <3> QED
      BY <3>1
  <2>2. /\ sscanf_u64(Head(input).data) \in Address
        /\ atoll(Head(input).data) \in Nat
    BY <2>1, ParsedNumbers DEF Line, Address
  <2>3. CASE Head(input).addr = ElfEntry
    BY <1>11, <2>1, <2>2, <2>3 DEF LoadImagePair
  <2>4. CASE Head(input).addr # ElfEntry
    <3>1. atoll(Head(input).addr) \in Address
      <4>1. Head(input).addr \in Nat
        BY <2>1, <2>4
      <4> QED
        BY <4>1, ParsedNumbers
    <3>2. sail_memory' \in Seq(Block(Byte)) /\ UniqueIds(sail_memory')
      BY <1>0, <1>11, <2>2, <2>4, <3>1, WriteMemKeeps DEF LoadImagePair
    <3> QED
      BY <1>11, <2>1, <2>4, <3>2 DEF LoadImagePair
  <2> QED
    BY <2>3, <2>4
<1>12. CASE LoadReturn
  BY <1>0, <1>12 DEF LoadReturn, Idle
<1>13. CASE WriteTag
  BY <1>13, WriteTagKeeps DEF WriteTag
<1>14. CASE ReadTag
  BY <1>14 DEF ReadTag
<1>15. CASE kill_mem
  BY <1>15 DEF kill_mem, UniqueIds
<1>16. CASE UNCHANGED vars
  BY <1>16 DEF vars
<1> QED
  BY <1>1, <1>2, <1>3, <1>4, <1>5, <1>6, <1>7, <1>8, <1>9, <1>10, <1>11, <1>12,
     <1>13, <1>14, <1>15, <1>16 DEF Next

(* Every state of the memory is well typed: whatever the width of the data *)
(* written, a block holds bytes, and a read answers a number.              *)
THEOREM TypeCorrect == Spec => []TypeOK
<1>1. IInv => TypeOK
  BY DEF IInv
<1> QED
  BY <1>1, InitIInv, NextIInv, PTL DEF Spec

(* No list ever holds two blocks for the same addresses.                   *)
THEOREM BlocksAreUnique == Spec => []UniqueBlocks
<1>1. IInv => UniqueBlocks
  BY DEF IInv
<1> QED
  BY <1>1, InitIInv, NextIInv, PTL DEF Spec

-----------------------------------------------------------------------------
(* A write of a list is a store in the array it stands for. *)
Array(list, zero) == [x \in Address |-> read_block(list, x, zero)]

LEMMA WriteBlockStores ==
    ASSUME NEW V, NEW list \in Seq(Block(V)), UniqueIds(list),
           NEW a \in Address, NEW v \in V, NEW zero \in V
    PROVE  Array(write_block(list, a, v, zero), zero) = [Array(list, zero) EXCEPT ![a] = v]
<1>1. \A x \in Address : read_block(write_block(list, a, v, zero), x, zero)
                           = IF x = a THEN v ELSE read_block(list, x, zero)
  BY ReadAfterWrite
<1> QED
  BY <1>1 DEF Array

LEMMA WriteMemStores ==
    ASSUME IInv, NEW a \in Address, NEW byte \in Nat, write_mem(a, byte)
    PROVE  /\ byte % ByteValues \in Byte
           /\ FlatRam' = [FlatRam EXCEPT ![a] = byte % ByteValues]
<1>1. byte % ByteValues \in Byte /\ 0 \in Byte
  BY ByteAssumption DEF Byte
<1>2. sail_memory \in Seq(Block(Byte)) /\ UniqueIds(sail_memory)
  BY DEF IInv, TypeOK, UniqueBlocks
<1>3. FlatRam = Array(sail_memory, 0) /\ FlatRam' = Array(sail_memory', 0)
  BY DEF FlatRam, read_mem, Array
<1> QED
  BY <1>1, <1>2, <1>3, WriteBlockStores DEF write_mem

LEMMA WriteTagStores ==
    ASSUME IInv, NEW a \in Address, NEW t \in BOOLEAN,
           sail_tags' = write_block(sail_tags, a, t, FALSE)
    PROVE  FlatTags' = [FlatTags EXCEPT ![a] = t]
<1> DEFINE B == BOOLEAN
           f == FALSE
<1>1. sail_tags \in Seq(Block(B)) /\ UniqueIds(sail_tags) /\ f \in B
  BY DEF IInv, TypeOK, UniqueBlocks
<1> HIDE DEF B, f
<1>2. \A u \in B : Array(write_block(sail_tags, a, u, f), f) = [Array(sail_tags, f) EXCEPT ![a] = u]
  BY <1>1, WriteBlockStores
<1>3. FlatTags = Array(sail_tags, FALSE) /\ FlatTags' = Array(sail_tags', FALSE)
  BY DEF FlatTags, read_tag_bool, Array
<1> QED
  BY <1>2, <1>3, Zenon DEF B, f

LEMMA InitFlat == Init => Flat!Init
<1> SUFFICES ASSUME Init PROVE Flat!Init
  OBVIOUS
<1>1. \A x : read_block(sail_memory, x, 0) = 0 /\ read_block(sail_tags, x, FALSE) = FALSE
  BY DEF Init, read_block, Holders
<1> QED
  BY <1>1 DEF Flat!Init, FlatRam, FlatTags, read_mem, read_tag_bool

(* A step leaves the array alone, stores one byte or one tag, or zeroes    *)
(* everything.                                                             *)
LEMMA NextFlat == IInv /\ [Next]_vars => [Flat!Next]_<<FlatRam, FlatTags>>
<1> SUFFICES ASSUME IInv, [Next]_vars PROVE [Flat!Next]_<<FlatRam, FlatTags>>
  OBVIOUS
<1>1. ASSUME UNCHANGED sail_memory PROVE UNCHANGED FlatRam
  BY <1>1 DEF FlatRam, read_mem
<1>2. ASSUME UNCHANGED sail_tags PROVE UNCHANGED FlatTags
  BY <1>2 DEF FlatTags, read_tag_bool
<1>3. ASSUME NEW a \in Address, NEW byte \in Nat, write_mem(a, byte), UNCHANGED sail_tags
      PROVE  Flat!Next
  BY <1>2, <1>3, WriteMemStores DEF Flat!Next, Flat!Store
<1>4. CASE WriteByte
  <2>1. Plus(call.addr, call.i) \in Address /\ call.buf \in Nat
    BY PlusType DEF IInv, TypeOK, Address
  <2> QED
    BY <1>3, <1>4, <2>1 DEF WriteByte
<1>5. CASE LoadRawByte
  <2>1. call.addr \in Address /\ Head(input) \in Nat
    BY <1>5 DEF LoadRawByte, IInv, TypeOK, In
  <2> QED
    BY <1>3, <1>5, <2>1 DEF LoadRawByte
<1>6. CASE LoadImagePair
  <2>1. Head(input) \in Line
    <3>1. input \in Seq(Line) /\ input # <<>>
      BY <1>6 DEF LoadImagePair, IInv, TypeOK, In
    <3> QED
      BY <3>1
  <2>2. CASE Head(input).addr = ElfEntry
    BY <1>1, <1>2, <1>6, <2>2 DEF LoadImagePair
  <2>3. CASE Head(input).addr # ElfEntry
    <3>1. Head(input).addr \in Nat /\ Head(input).data \in Nat
      BY <2>1, <2>3 DEF Line
    <3>2. atoll(Head(input).addr) \in Address /\ atoll(Head(input).data) \in Nat
      BY <3>1, ParsedNumbers DEF Address
    <3> QED
      BY <1>3, <1>6, <2>3, <3>2 DEF LoadImagePair
  <2> QED
    BY <2>2, <2>3
<1>7. CASE WriteTag
  <2>1. PICK a \in Tagged, t \in BOOLEAN : sail_tags' = write_block(sail_tags, a, t, FALSE)
    BY <1>7 DEF WriteTag
  <2>2. a \in Address
    BY MemoryAssumption DEF Address
  <2>3. FlatTags' = [FlatTags EXCEPT ![a] = t]
    BY <2>1, <2>2, WriteTagStores
  <2>4. UNCHANGED FlatRam
    BY <1>1, <1>7 DEF WriteTag
  <2> QED
    BY <2>2, <2>3, <2>4 DEF Flat!Next, Flat!StoreTag
<1>8. CASE kill_mem
  <2>1. \A x : read_block(sail_memory', x, 0) = 0 /\ read_block(sail_tags', x, FALSE) = FALSE
    BY <1>8 DEF kill_mem, read_block, Holders
  <2>2. Flat!Kill
    BY <2>1 DEF Flat!Kill, FlatRam, FlatTags, read_mem, read_tag_bool
  <2> QED
    BY <2>2 DEF Flat!Next
<1>9. CASE CallWriteRam \/ CallReadRam \/ CallLoadRaw \/ CallLoadImage \/ WriteReturn
           \/ ReadByte \/ FastReadByte \/ ReadReturn \/ LoadReturn \/ ReadTag \/ UNCHANGED vars
  <2>1. UNCHANGED <<sail_memory, sail_tags>>
    BY <1>9 DEF CallWriteRam, CallReadRam, CallLoadRaw, CallLoadImage, WriteReturn,
                ReadByte, FastReadByte, ReadReturn, LoadReturn, ReadTag, vars
  <2> QED
    BY <1>1, <1>2, <2>1
<1> QED
  BY <1>4, <1>5, <1>6, <1>7, <1>8, <1>9 DEF Next

(* The list of blocks implements an array of bytes and one of tags.        *)
THEOREM MemoryIsFlat == Spec => ListIsFlat
<1>1. Spec => []IInv
  BY InitIInv, NextIInv, PTL DEF Spec
<1> QED
  BY <1>1, InitFlat, NextFlat, PTL DEF Spec, ListIsFlat, Flat!Spec

-----------------------------------------------------------------------------
(* Sums and products in words that wrap around. *)
LEMMA ModPlus ==
    ASSUME NEW A \in Nat \ {0}, NEW a \in Nat, NEW k \in Nat
    PROVE  ((a % A) + k) % A = (a + k) % A
<1> DEFINE q == a \div A
           r == a % A
           p == (r + k) \div A
           s == (r + k) % A
<1>1. q \in Nat /\ r \in Nat /\ a = A * q + r
  OBVIOUS
<1>2. p \in Nat /\ s \in 0..(A - 1) /\ r + k = A * p + s
  BY <1>1
<1> HIDE DEF q, r, p, s
<1>3. a + k = A * (q + p) + s /\ q + p \in Nat
  BY <1>1, <1>2
<1>4. (a + k) % A = s
  BY <1>2, <1>3, DivisionUnique
<1> QED
  BY <1>4 DEF r, s

LEMMA ModTimes ==
    ASSUME NEW F \in Nat \ {0}, NEW x \in Nat, NEW b \in Nat, NEW m \in Nat
    PROVE  ((x % F) * b + m) % F = (x * b + m) % F
<1> DEFINE q == x \div F
           r == x % F
           t == r * b + m
           p == t \div F
           s == t % F
<1>1. q \in Nat /\ r \in Nat /\ x = F * q + r
  OBVIOUS
<1>2. t \in Nat /\ t = r * b + m
  BY <1>1, TimesType
<1> HIDE DEF t
<1>3. p \in Nat /\ s \in 0..(F - 1) /\ t = F * p + s
  BY <1>2
<1> HIDE DEF q, r, p, s
<1>4. x * b = F * (q * b) + r * b
  BY <1>1
<1>5. q * b \in Nat /\ r * b \in Nat
  BY <1>1, TimesType
<1>6. x * b + m = F * ((q * b) + p) + s /\ (q * b) + p \in Nat
  <2> DEFINE u == q * b
             v == r * b
  <2> HIDE DEF u, v
  <2>1. F * (u + p) = F * u + F * p
    BY <1>3, <1>5 DEF u
  <2>2. x * b = F * u + v /\ t = v + m /\ u \in Nat /\ v \in Nat
    BY <1>2, <1>4, <1>5 DEF u, v
  <2>3. F * u \in Nat /\ F * p \in Nat
    BY <1>3, <2>2, TimesType
  <2>4. x * b + m = F * (u + p) + s /\ u + p \in Nat
    BY <1>3, <2>1, <2>2, <2>3
  <2> QED
    BY <2>4 DEF u
<1>7. (x * b + m) % F = s
  <2> DEFINE y == x * b + m
             z == (q * b) + p
  <2>1. y \in Nat
    BY TimesType
  <2>2. y = F * z + s /\ z \in Nat
    BY <1>6
  <2> HIDE DEF y, z
  <2>3. y % F = s
    BY <1>3, <2>1, <2>2, DivisionUnique
  <2> QED
    BY <2>3 DEF y
<1> QED
  BY <1>7 DEF r, s, t

LEMMA PlusPlus ==
    ASSUME NEW a \in Nat, NEW i \in Nat, NEW k \in Nat
    PROVE  Plus(Plus(a, i), k) = Plus(a, i + k)
<1>1. a + i \in Nat /\ (a + i) + k = a + (i + k) /\ AddressSpace \in Nat \ {0}
  BY MemoryAssumption
<1>2. (((a + i) % AddressSpace) + k) % AddressSpace = ((a + i) + k) % AddressSpace
  BY <1>1, ModPlus
<1> QED
  BY <1>1, <1>2, Zenon DEF Plus

LEMMA PlusZero ==
    ASSUME NEW a \in Address
    PROVE  Plus(a, 0) = a
BY MemoryAssumption DEF Plus, Address

-----------------------------------------------------------------------------
(* The first byte of an overlay is stored, and the others follow. *)
LEMMA OverlayNone ==
    ASSUME NEW m, DOMAIN m = Address, m = [x \in Address |-> m[x]], NEW a, NEW bytes
    PROVE  Overlay(m, a, 0, bytes) = m
BY DEF Overlay

(* The rows of bytes of the lemma, by name: the first is stored, and the   *)
(* rest has the others.                                                    *)
Stores(new, m, a, bytes) == new = [m EXCEPT ![a] = bytes[0]]
Follows(rest, bytes, n)  == \A k \in 0..(n - 1) : rest[k] = bytes[k + 1]

LEMMA OverlayNext ==
    ASSUME NEW m \in [Address -> Byte], NEW a \in Address, NEW n \in Nat,
           NEW bytes, bytes[0] \in Byte, NEW rest, Follows(rest, bytes, n),
           NEW new, Stores(new, m, a, bytes)
    PROVE  Overlay(new, Plus(a, 1), n, rest) = Overlay(m, a, n + 1, bytes)
<1> USE DEF Stores, Follows
<1> DEFINE A == AddressSpace
           K(x) == {k \in 0..((n + 1) - 1) : (a + k) % A = x}
           L(x) == {k \in 0..(n - 1) : (Plus(a, 1) + k) % A = x}
<1>0. a \in Nat /\ A \in Nat \ {0} /\ a % A = a
  BY MemoryAssumption DEF Address
<1>1. ASSUME NEW x \in Address
      PROVE  (IF L(x) = {} THEN new[x] ELSE rest[Max(L(x))])
               = (IF K(x) = {} THEN m[x] ELSE bytes[Max(K(x))])
  <2>1. \A k \in Nat : k \in L(x) <=> k \in 0..(n - 1) /\ k + 1 \in K(x)
    <3> TAKE k \in Nat
    <3>1. (Plus(a, 1) + k) % A = (a + (k + 1)) % A
      <4>1. Plus(Plus(a, 1), k) = Plus(a, 1 + k)
        BY <1>0, PlusPlus
      <4>2. 1 + k = k + 1
        OBVIOUS
      <4> QED
        BY <4>1, <4>2 DEF Plus
    <3> QED
      BY <3>1
  <2>2. \A k \in K(x) : k \in Nat /\ (k = 0 \/ (k - 1 \in Nat /\ k - 1 \in 0..(n - 1) /\ (k - 1) + 1 = k))
    OBVIOUS
  <2>3. 0 \in K(x) <=> x = a
    BY <1>0
  <2>4. \A k \in K(x) : k = 0 \/ k - 1 \in L(x)
    BY <2>1, <2>2
  <2>5. CASE L(x) # {}
    <3>1. PICK g \in L(x) : \A y \in L(x) : g >= y
      <4>1. L(x) \subseteq 0..n /\ n \in Nat
        OBVIOUS
      <4> QED
        BY <2>5, <4>1, GreatestNumber
    <3>2. g \in Nat /\ g \in 0..(n - 1) /\ g + 1 \in K(x)
      BY <2>1, <3>1
    <3>3. \A y \in K(x) : g + 1 >= y
      BY <2>2, <2>4, <3>1, <3>2
    <3>4. Max(K(x)) = g + 1
      <4>1. K(x) \subseteq Nat
        OBVIOUS
      <4> HIDE DEF K
      <4> QED
        BY <3>2, <3>3, <4>1, MaxIs
    <3>5. Max(L(x)) = g
      <4>1. L(x) \subseteq Nat
        OBVIOUS
      <4> HIDE DEF L
      <4> QED
        BY <3>1, <4>1, MaxIs
    <3> HIDE DEF K, L
    <3> QED
      BY <2>5, <3>2, <3>4, <3>5
  <2>6. CASE L(x) = {} /\ x = a
    <3>1. K(x) \subseteq Nat /\ 0 \in K(x) /\ \A y \in K(x) : 0 >= y
      BY <2>2, <2>3, <2>4, <2>6
    <3> HIDE DEF K, L
    <3>2. Max(K(x)) = 0
      BY <3>1, MaxIs
    <3> QED
      BY <2>6, <3>1, <3>2
  <2>7. CASE L(x) = {} /\ x # a
    <3>1. K(x) = {}
      BY <2>3, <2>4, <2>7
    <3> HIDE DEF K, L
    <3> QED
      BY <2>7, <3>1
  <2> QED
    BY <2>5, <2>6, <2>7
<1> QED
  BY <1>1 DEF Overlay

LEMMA OverlayWordNext ==
    ASSUME NEW m \in [Address -> Byte], NEW a \in Address, NEW n \in Nat, NEW d \in Nat
    PROVE  OverlayWord([m EXCEPT ![a] = d % ByteValues], Plus(a, 1), n, d \div ByteValues)
             = OverlayWord(m, a, n + 1, d)
<1> DEFINE bytes == [k \in 0..((n + 1) - 1) |-> ByteOf(d, k)]
           rest  == [k \in 0..(n - 1) |-> ByteOf(d \div ByteValues, k)]
<1>1. 0 \in 0..((n + 1) - 1) /\ \A k \in 0..(n - 1) : k \in Nat /\ k + 1 \in 0..((n + 1) - 1)
  OBVIOUS
<1>2. bytes[0] = d % ByteValues /\ bytes[0] \in Byte
  BY <1>1, FirstByte, ByteOfType
<1>3. \A k \in 0..(n - 1) : rest[k] = bytes[k + 1]
  BY <1>1, NextByte
<1> HIDE DEF bytes, rest
<1> DEFINE new == [m EXCEPT ![a] = bytes[0]]
<1>4. Stores(new, m, a, bytes) /\ Follows(rest, bytes, n)
  BY <1>3 DEF Stores, Follows
<1> HIDE DEF new
<1>5. Overlay(new, Plus(a, 1), n, rest) = Overlay(m, a, n + 1, bytes)
  BY <1>2, <1>4, OverlayNext
<1> QED
  BY <1>2, <1>5, Zenon DEF OverlayWord, new, bytes, rest

LEMMA OverlayRawNext ==
    ASSUME NEW m \in [Address -> Byte], NEW a \in Address, NEW file \in Seq(Nat), file # <<>>
    PROVE  OverlayRaw([m EXCEPT ![a] = Head(file) % ByteValues], Plus(a, 1), Tail(file))
             = OverlayRaw(m, a, file)
<1> DEFINE n     == Len(Tail(file))
           bytes == [k \in 0..(Len(file) - 1) |-> file[k + 1] % ByteValues]
           rest  == [k \in 0..(n - 1) |-> Tail(file)[k + 1] % ByteValues]
<1>1. n \in Nat /\ Len(file) = n + 1 /\ Head(file) = file[1] /\ file[1] \in Nat
  OBVIOUS
<1>2. \A k \in 0..(n - 1) : Tail(file)[k + 1] = file[(k + 1) + 1]
  OBVIOUS
<1>3. file[1] % ByteValues \in Byte
  <2> DEFINE d == file[1]
  <2>1. d \in Nat
    BY <1>1
  <2> HIDE DEF d
  <2>2. d % ByteValues \in Byte
    BY <2>1, ByteAssumption DEF Byte
  <2> QED
    BY <2>2 DEF d
<1> HIDE DEF n
<1>4. bytes[0] = Head(file) % ByteValues /\ bytes[0] \in Byte
  BY <1>1, <1>3
<1>5. \A k \in 0..(n - 1) : rest[k] = bytes[k + 1]
  <2> TAKE k \in 0..(n - 1)
  <2>1. k + 1 \in 0..(Len(file) - 1)
    BY <1>1
  <2> QED
    BY <1>2, <2>1
<1> HIDE DEF bytes, rest
<1> DEFINE new == [m EXCEPT ![a] = bytes[0]]
<1>6. Stores(new, m, a, bytes) /\ Follows(rest, bytes, n)
  BY <1>5 DEF Stores, Follows
<1> HIDE DEF new
<1>7. Overlay(new, Plus(a, 1), n, rest) = Overlay(m, a, n + 1, bytes)
  BY <1>1, <1>4, <1>6, OverlayNext
<1> QED
  BY <1>1, <1>4, <1>7, Zenon DEF OverlayRaw, new, n, bytes, rest

-----------------------------------------------------------------------------
(* The last line for an address is the first line only if no other is.     *)
LEMMA LastLine ==
    ASSUME NEW S, NEW lines \in Seq(S), lines # <<>>, NEW x
    PROVE  IF LinesFor(Tail(lines), x) # {}
           THEN /\ LinesFor(lines, x) # {}
                /\ lines[Max(LinesFor(lines, x))] = Tail(lines)[Max(LinesFor(Tail(lines), x))]
           ELSE IF Head(lines).addr = x
           THEN LinesFor(lines, x) # {} /\ lines[Max(LinesFor(lines, x))] = Head(lines)
           ELSE LinesFor(lines, x) = {}
<1> DEFINE t == Tail(lines)
           K == LinesFor(lines, x)
           L == LinesFor(t, x)
<1>1. t \in Seq(S) /\ Len(lines) = Len(t) + 1 /\ Len(t) \in Nat /\ Head(lines) = lines[1]
  OBVIOUS
<1>2. \A n \in 1..Len(t) : t[n] = lines[n + 1]
  OBVIOUS
<1> HIDE DEF t
<1>3. DOMAIN lines = 1..Len(lines) /\ DOMAIN t = 1..Len(t)
  BY <1>1
<1>4. \A n \in L : n \in Nat /\ n \in 1..Len(t) /\ n + 1 \in K
  BY <1>1, <1>2, <1>3 DEF LinesFor
<1>5. \A n \in K : n \in Nat /\ (n = 1 \/ (n - 1 \in L))
  <2> TAKE n \in K
  <2>1. n \in 1..Len(lines) /\ lines[n].addr = x
    BY <1>3 DEF LinesFor
  <2>2. CASE n # 1
    <3>1. n - 1 \in 1..Len(t) /\ (n - 1) + 1 = n
      BY <1>1, <2>1, <2>2
    <3>2. t[n - 1].addr = x
      BY <1>2, <2>1, <3>1
    <3> QED
      BY <1>3, <2>1, <3>1, <3>2 DEF LinesFor
  <2> QED
    BY <2>1, <2>2
<1>6. 1 \in K <=> Head(lines).addr = x
  BY <1>1, <1>3 DEF LinesFor
<1> HIDE DEF K, L
<1>7. CASE L # {}
  <2>1. PICK g \in L : \A y \in L : g >= y
    <3>1. L \subseteq 0..Len(t)
      BY <1>1, <1>4
    <3> QED
      BY <1>1, <1>7, <3>1, GreatestNumber
  <2>2. Max(L) = g
    BY <1>4, <2>1, MaxIs
  <2>3. g + 1 \in K /\ \A y \in K : g + 1 >= y
    BY <1>4, <1>5, <2>1
  <2>4. Max(K) = g + 1
    BY <1>5, <2>3, MaxIs
  <2>5. lines[g + 1] = t[g]
    BY <1>2, <1>4, <2>1
  <2> QED
    BY <1>7, <2>2, <2>3, <2>4, <2>5 DEF K, L, t
<1>8. CASE L = {} /\ Head(lines).addr = x
  <2>1. 1 \in K /\ \A y \in K : 1 >= y
    BY <1>5, <1>6, <1>8
  <2>2. Max(K) = 1
    BY <1>5, <2>1, MaxIs
  <2> QED
    BY <1>1, <1>8, <2>1, <2>2 DEF K, L, t
<1>9. CASE L = {} /\ Head(lines).addr # x
  <2>1. K = {}
    BY <1>5, <1>6, <1>9
  <2> QED
    BY <1>9, <2>1 DEF K, L, t
<1> QED
  BY <1>7, <1>8, <1>9 DEF L, t

LEMMA EntryNext ==
    ASSUME NEW S, NEW lines \in Seq(S), lines # <<>>, NEW e
    PROVE  EntryOf(e, lines)
             = EntryOf(IF Head(lines).addr = ElfEntry THEN Head(lines).data ELSE e, Tail(lines))
BY LastLine DEF EntryOf

LEMMA OverlayImageNext ==
    ASSUME NEW S, NEW lines \in Seq(S), lines # <<>>, NEW B, NEW m \in [Address -> B]
    PROVE  OverlayImage(m, lines)
             = OverlayImage(IF Head(lines).addr \in Address
                            THEN [m EXCEPT ![Head(lines).addr] = Head(lines).data % ByteValues]
                            ELSE m, Tail(lines))
<1> DEFINE new == IF Head(lines).addr \in Address
                  THEN [m EXCEPT ![Head(lines).addr] = Head(lines).data % ByteValues]
                  ELSE m
<1>1. \A x \in Address :
        new[x] = IF Head(lines).addr = x THEN Head(lines).data % ByteValues ELSE m[x]
  OBVIOUS
<1> HIDE DEF new
<1>2. ASSUME NEW x \in Address
      PROVE  (IF LinesFor(lines, x) = {} THEN m[x]
              ELSE lines[Max(LinesFor(lines, x))].data % ByteValues)
             = (IF LinesFor(Tail(lines), x) = {} THEN new[x]
                ELSE Tail(lines)[Max(LinesFor(Tail(lines), x))].data % ByteValues)
  BY <1>1, LastLine, Zenon
<1>3. OverlayImage(m, lines) = OverlayImage(new, Tail(lines))
  BY <1>2, Zenon DEF OverlayImage
<1> QED
  BY <1>3 DEF new

-----------------------------------------------------------------------------
(* The word from an address on is its first byte and the word after it.    *)
LEMMA WordNext ==
    ASSUME NEW m \in [Address -> Byte], NEW a \in Address, NEW n \in Nat
    PROVE  /\ Word(m, Plus(a, 1), n) \in Nat
           /\ Word(m, a, n + 1) = Word(m, Plus(a, 1), n) * ByteValues + m[a]
<1> DEFINE bytes == [k \in 0..((n + 1) - 1) |-> m[(a + k) % AddressSpace]]
           rest  == [k \in 0..(n - 1) |-> m[(Plus(a, 1) + k) % AddressSpace]]
           w     == WordOf(n, rest)
<1>1. \A b \in Nat, k \in Nat : m[(b + k) % AddressSpace] \in Byte
  <2>1. \A b \in Nat, k \in Nat : Plus(b, k) \in Address
    BY PlusType
  <2> QED
    BY <2>1 DEF Plus
<1>2. a \in Nat /\ Plus(a, 1) \in Nat /\ (a + 0) % AddressSpace = a
  BY PlusType, PlusZero DEF Address, Plus
<1>3. \A k \in 0..((n + 1) - 1) : bytes[k] \in Byte
  BY <1>1, <1>2
<1>4. \A k \in 0..(n - 1) : rest[k] \in Byte
  BY <1>1, <1>2
<1>5. \A k \in 0..(n - 1) : rest[k] = bytes[k + 1]
  <2> TAKE k \in 0..(n - 1)
  <2>1. k \in Nat /\ k + 1 \in 0..((n + 1) - 1) /\ 1 + k = k + 1
    OBVIOUS
  <2>2. Plus(Plus(a, 1), k) = Plus(a, 1 + k)
    BY <1>2, <2>1, PlusPlus
  <2> QED
    BY <2>1, <2>2 DEF Plus
<1>6. bytes[0] = m[a] /\ bytes[0] \in Byte
  BY <1>2
<1> HIDE DEF bytes, rest
<1>7. IsWord(w, n, rest) /\ w \in Nat
  BY <1>4, WordOfIsWord
<1> HIDE DEF w
<1>8. IsWord(ByteValues * w + bytes[0], n + 1, bytes)
  BY <1>5, <1>6, <1>7, WordStep
<1>9. ByteValues * w + bytes[0] = WordOf(n + 1, bytes)
  <2>1. n + 1 \in Nat
    OBVIOUS
  <2> QED
    BY <1>3, <1>8, <2>1, WordOfIsWord
<1>10. ByteValues * w = w * ByteValues
  BY <1>7, ByteAssumption
<1> QED
  BY <1>6, <1>7, <1>9, <1>10 DEF Word, w, bytes, rest

-----------------------------------------------------------------------------
(* The invariant of the calls: a read has the word of the bytes behind its *)
(* counter, and the lines of an image that are left fit.                   *)
ReadSoFar == Word(FlatRam, Plus(call.addr, call.i), call.size - call.i)
CallInv ==
    /\ call.i <= call.size
    /\ In("idle") => call = Idle
    /\ In("read_ram") => call.buf = ReadSoFar
    /\ In("fast_read_ram") => call.buf = ReadSoFar % FastWord
    /\ In("load_image") => \A n \in DOMAIN input : LineFits(input[n])
AInv == IInv /\ CallInv

LEMMA FlatRamType ==
    ASSUME IInv
    PROVE  FlatRam \in [Address -> Byte]
BY ReadMemType DEF FlatRam

LEMMA WordNone ==
    ASSUME NEW m, NEW a
    PROVE  Word(m, a, 0) = 0
<1> DEFINE bytes == [k \in 0..(0 - 1) |-> m[(a + k) % AddressSpace]]
<1>1. \A k \in 0..(0 - 1) : bytes[k] \in Byte /\ bytes[k] = ByteOf(0, k)
  OBVIOUS
<1>2. 0 \in Nat /\ 0 \in 0..(Power[0] - 1)
  BY PowerStep
<1> HIDE DEF bytes
<1>3. WordOf(0, bytes) = 0
  BY <1>1, <1>2, WordOfBytes
<1> QED
  BY <1>3 DEF Word, bytes

(* An iteration of a read puts a byte below what was read. *)
LEMMA ReadStep ==
    ASSUME AInv, call.i > 0
    PROVE  /\ ReadSoFar \in Nat
           /\ read_mem(Plus(call.addr, call.i - 1)) \in Nat
           /\ Word(FlatRam, Plus(call.addr, call.i - 1), call.size - (call.i - 1))
                = ReadSoFar * ByteValues + read_mem(Plus(call.addr, call.i - 1))
<1> DEFINE j == call.i - 1
           n == call.size - call.i
           a == Plus(call.addr, j)
<1>1. j \in Nat /\ n \in Nat /\ call.addr \in Nat /\ j + 1 = call.i /\ n + 1 = call.size - j
  BY DEF AInv, IInv, TypeOK, CallInv, Address
<1>2. a \in Address
  BY <1>1, PlusType
<1>3. Plus(a, 1) = Plus(call.addr, call.i)
  <2> HIDE DEF j
  <2>1. Plus(Plus(call.addr, j), 1) = Plus(call.addr, j + 1)
    BY <1>1, PlusPlus
  <2> QED
    BY <1>1, <2>1, Zenon DEF a
<1>4. FlatRam[a] = read_mem(a) /\ read_mem(a) \in Nat
  BY <1>2, ReadMemType DEF FlatRam, AInv, Byte
<1>5. FlatRam \in [Address -> Byte]
  BY FlatRamType DEF AInv
<1> HIDE DEF j, n, a
<1>6. Word(FlatRam, a, n + 1) = Word(FlatRam, Plus(a, 1), n) * ByteValues + FlatRam[a]
      /\ Word(FlatRam, Plus(a, 1), n) \in Nat
  BY <1>1, <1>2, <1>5, WordNext
<1> QED
  BY <1>1, <1>3, <1>4, <1>6, Zenon DEF ReadSoFar, j, n, a

LEMMA InitAInv == Init => AInv
<1> SUFFICES ASSUME Init PROVE AInv
  OBVIOUS
<1>1. CallInv
  BY DEF Init, CallInv, Idle, In
<1> QED
  BY <1>1, InitIInv DEF AInv

LEMMA NextAInv == ImagesFit /\ AInv /\ [Next]_vars => AInv'
<1> SUFFICES ASSUME ImagesFit, AInv, [Next]_vars PROVE CallInv'
  BY NextIInv DEF AInv
<1> USE DEF In, CallInv
<1>0. CallInv /\ TypeOK /\ call.size \in Nat /\ call.i \in Nat /\ call.addr \in Address
  BY DEF AInv, IInv, TypeOK
<1>1. CASE CallWriteRam
  BY <1>1, MemoryAssumption DEF CallWriteRam
<1>2. CASE CallReadRam
  <2>1. PICK a \in Address, n \in Sizes, op \in {"read_ram", "fast_read_ram"} :
          call' = [op |-> op, addr |-> a, size |-> n, i |-> n, buf |-> 0]
    BY <1>2 DEF CallReadRam
  <2>2. n - n = 0 /\ n <= n
    BY MemoryAssumption
  <2>3. ReadSoFar' = 0
    BY <2>1, <2>2, WordNone DEF ReadSoFar
  <2>4. 0 % FastWord = 0
    BY MemoryAssumption
  <2> QED
    BY <2>1, <2>2, <2>3, <2>4
<1>3. CASE CallLoadRaw
  BY <1>3 DEF CallLoadRaw, Idle
<1>4. CASE CallLoadImage
  BY <1>4 DEF CallLoadImage, Idle, ImagesFit
<1>5. CASE WriteByte
  <2>1. call'.op = "write_ram" /\ call'.size = call.size /\ call'.i = call.i + 1
    BY <1>0, <1>5 DEF WriteByte, TypeOK
  <2> QED
    BY <1>0, <1>5, <2>1 DEF WriteByte
<1>6. CASE WriteReturn \/ ReadReturn \/ LoadReturn
  BY <1>6 DEF WriteReturn, ReadReturn, LoadReturn, Idle
<1>7. CASE ReadByte
  <2>1. /\ call'.op = "read_ram" /\ call'.size = call.size /\ call'.i = call.i - 1
        /\ call'.addr = call.addr
        /\ call'.buf = call.buf * ByteValues + read_mem(Plus(call.addr, call.i - 1))
        /\ UNCHANGED sail_memory /\ call.i > 0
    BY <1>0, <1>7 DEF ReadByte, TypeOK
  <2>2. FlatRam' = FlatRam
    BY <2>1 DEF FlatRam, read_mem
  <2>3. ReadSoFar' = ReadSoFar * ByteValues + read_mem(Plus(call.addr, call.i - 1))
    BY <2>1, <2>2, ReadStep DEF ReadSoFar
  <2>4. call'.buf = ReadSoFar'
    BY <1>0, <1>7, <2>1, <2>3 DEF ReadByte
  <2> QED
    BY <1>0, <2>1, <2>4
<1>8. CASE FastReadByte
  <2>1. /\ call'.op = "fast_read_ram" /\ call'.size = call.size /\ call'.i = call.i - 1
        /\ call'.addr = call.addr
        /\ call'.buf = (call.buf * ByteValues + read_mem(Plus(call.addr, call.i - 1))) % FastWord
        /\ UNCHANGED sail_memory /\ call.i > 0
    BY <1>0, <1>8 DEF FastReadByte, TypeOK
  <2>2. FlatRam' = FlatRam
    BY <2>1 DEF FlatRam, read_mem
  <2> DEFINE r == ReadSoFar
             b == read_mem(Plus(call.addr, call.i - 1))
  <2>3. ReadSoFar' = r * ByteValues + b /\ r \in Nat /\ b \in Nat
    BY <2>1, <2>2, ReadStep DEF ReadSoFar
  <2>4. call.buf = r % FastWord
    BY <1>0, <1>8 DEF FastReadByte
  <2>5. call'.buf = ((r % FastWord) * ByteValues + b) % FastWord
    BY <2>1, <2>4
  <2> HIDE DEF r, b
  <2>6. ((r % FastWord) * ByteValues + b) % FastWord = (r * ByteValues + b) % FastWord
    <3>1. FastWord \in Nat \ {0} /\ ByteValues \in Nat
      BY MemoryAssumption, ByteAssumption
    <3> QED
      BY <2>3, <3>1, ModTimes, Zenon
  <2>7. call'.buf = ReadSoFar' % FastWord
    BY <2>3, <2>5, <2>6, Zenon
  <2> QED
    BY <1>0, <2>1, <2>7
<1>9. CASE LoadRawByte
  <2>1. call'.op = "load_raw" /\ call'.size = call.size /\ call'.i = call.i
    BY <1>0, <1>9 DEF LoadRawByte, TypeOK
  <2> QED
    BY <1>0, <2>1
<1>10. CASE LoadImagePair
  <2>1. call' = call /\ In("load_image") /\ input # <<>> /\ input' = Tail(input)
    BY <1>10 DEF LoadImagePair
  <2>2. input \in Seq(Line)
    BY <1>0, <2>1 DEF TypeOK
  <2>3. ASSUME NEW n \in DOMAIN input' PROVE LineFits(input'[n])
    <3>1. n + 1 \in DOMAIN input /\ input'[n] = input[n + 1]
      BY <2>1, <2>2
    <3> QED
      BY <1>0, <2>1, <3>1
  <2> QED
    BY <1>0, <2>1, <2>3
<1>11. CASE WriteTag \/ ReadTag \/ kill_mem \/ UNCHANGED vars
  <2>1. call' = call /\ input' = input /\ (In("idle") \/ UNCHANGED sail_memory)
    BY <1>11 DEF WriteTag, ReadTag, kill_mem, vars
  <2>2. CASE In("idle")
    BY <1>0, <2>1, <2>2
  <2>3. CASE UNCHANGED sail_memory
    <3>1. FlatRam' = FlatRam
      BY <2>3 DEF FlatRam, read_mem
    <3>2. ReadSoFar' = ReadSoFar
      BY <2>1, <3>1 DEF ReadSoFar
    <3> QED
      BY <1>0, <2>1, <3>2 DEF LineFits
  <2> QED
    BY <2>1, <2>2, <2>3
<1> QED
  BY <1>1, <1>2, <1>3, <1>4, <1>5, <1>6, <1>7, <1>8, <1>9, <1>10, <1>11 DEF Next

-----------------------------------------------------------------------------
(* The operators of the abstract memory are those on its arrays. *)
LEMMA SameOperators ==
    /\ \A m, a, n, d : Atomic!OverlayWord(m, a, n, d) = OverlayWord(m, a, n, d)
    /\ \A m, a, bytes : Atomic!OverlayRaw(m, a, bytes) = OverlayRaw(m, a, bytes)
    /\ \A m, lines : Atomic!OverlayImage(m, lines) = OverlayImage(m, lines)
    /\ \A e, lines : Atomic!EntryOf(e, lines) = EntryOf(e, lines)
    /\ \A m, a, n : Atomic!Word(m, a, n) = Word(m, a, n)
    /\ Atomic!Address = Address
<1>1. Atomic!Power = Power
  BY Zenon DEF Atomic!Power, Power
<1>2. \A d, k : Atomic!ByteOf(d, k) = ByteOf(d, k)
  BY <1>1, Zenon DEF Atomic!ByteOf, ByteOf
<1>3. \A S : Atomic!Max(S) = Max(S)
  BY Zenon DEF Atomic!Max, Max
<1>4. Atomic!Address = Address
  BY Zenon DEF Atomic!Address, Address
<1>5. \A m, a, n, bytes : Atomic!Overlay(m, a, n, bytes) = Overlay(m, a, n, bytes)
  BY <1>3, <1>4, Zenon DEF Atomic!Overlay, Overlay
<1>6. \A lines, x : Atomic!LinesFor(lines, x) = LinesFor(lines, x)
  BY Zenon DEF Atomic!LinesFor, LinesFor
<1>7. \A n, bytes : Atomic!WordOf(n, bytes) = WordOf(n, bytes)
  BY <1>1, <1>2, Zenon DEF Atomic!WordOf, WordOf
<1>8. \A m, a, n, d : Atomic!OverlayWord(m, a, n, d) = OverlayWord(m, a, n, d)
  BY <1>2, <1>5, Zenon DEF Atomic!OverlayWord, OverlayWord
<1>9. \A m, a, bytes : Atomic!OverlayRaw(m, a, bytes) = OverlayRaw(m, a, bytes)
  BY <1>5, Zenon DEF Atomic!OverlayRaw, OverlayRaw
<1>10. \A m, lines : Atomic!OverlayImage(m, lines) = OverlayImage(m, lines)
  BY <1>3, <1>4, <1>6, Zenon DEF Atomic!OverlayImage, OverlayImage
<1>11. \A e, lines : Atomic!EntryOf(e, lines) = EntryOf(e, lines)
  BY <1>3, <1>6, Zenon DEF Atomic!EntryOf, EntryOf
<1>12. \A m, a, n : Atomic!Word(m, a, n) = Word(m, a, n)
  BY <1>7, Zenon DEF Atomic!Word, Word
<1> QED
  BY <1>4, <1>8, <1>9, <1>10, <1>11, <1>12, Zenon

(* What is pending in each call. *)
Writes == {"write_ram", "load_raw", "load_image"}
PendingNow ==
    /\ In("write_ram") =>
         Pending = OverlayWord(FlatRam, Plus(call.addr, call.i), call.size - call.i, call.buf)
    /\ In("load_raw") => Pending = OverlayRaw(FlatRam, call.addr, input)
    /\ In("load_image") => /\ Pending = OverlayImage(FlatRam, input)
                           /\ PendingEntry = EntryOf(g_elf_entry, input)
    /\ call.op \notin Writes => Pending = FlatRam
    /\ ~ In("load_image") => PendingEntry = g_elf_entry
    /\ call.op \in {"load_raw", "load_image"} =>
         CurrentCall = [op |-> call.op, addr |-> 0, size |-> 0]
    /\ call.op \notin {"load_raw", "load_image"} =>
         CurrentCall = [op |-> call.op, addr |-> call.addr, size |-> call.size]

LEMMA PendingCases == PendingNow /\ PendingNow'
BY DEF PendingNow, Pending, PendingEntry, CurrentCall, Writes, In

(* Nothing the caller sees changes. *)
Stutters == UNCHANGED <<Pending, FlatTags, PendingEntry, CurrentCall, result>>

LEMMA FlatUnchanged ==
    /\ UNCHANGED sail_memory => UNCHANGED FlatRam
    /\ UNCHANGED sail_tags => UNCHANGED FlatTags
BY DEF FlatRam, FlatTags, read_mem, read_tag_bool

LEMMA WriteByteStutters ==
    ASSUME AInv, WriteByte
    PROVE  Stutters
<1> DEFINE a == Plus(call.addr, call.i)
           n == call.size - (call.i + 1)
           d == call.buf
<1>1. call \in [op : Ops, addr : Address, size : Nat, i : Nat, buf : Nat]
  BY DEF AInv, IInv, TypeOK
<1>2. n \in Nat /\ n + 1 = call.size - call.i /\ d \in Nat /\ call.addr \in Nat
  BY <1>1 DEF WriteByte, Address
<1>3. a \in Address /\ Plus(a, 1) = Plus(call.addr, call.i + 1)
  BY <1>1, <1>2, PlusType, PlusPlus
<1>4. FlatRam \in [Address -> Byte] /\ FlatRam' = [FlatRam EXCEPT ![a] = d % ByteValues]
  BY <1>2, <1>3, FlatRamType, WriteMemStores DEF AInv, WriteByte
<1>5. /\ In("write_ram") /\ call'.op = "write_ram" /\ call'.addr = call.addr
      /\ call'.size = call.size /\ call'.i = call.i + 1 /\ call'.buf = d \div ByteValues
      /\ UNCHANGED <<sail_tags, g_elf_entry, result>>
  BY <1>1 DEF WriteByte, In
<1>6. Pending = OverlayWord(FlatRam, a, n + 1, d)
  BY <1>2, <1>5, PendingCases, Zenon DEF PendingNow
<1>7. Pending' = OverlayWord(FlatRam', Plus(a, 1), n, d \div ByteValues)
  BY <1>3, <1>5, PendingCases, Zenon DEF PendingNow, In
<1> HIDE DEF a, n, d
<1>8. Pending' = Pending
  BY <1>2, <1>3, <1>4, <1>6, <1>7, OverlayWordNext, Zenon
<1>9. UNCHANGED <<FlatTags, PendingEntry, CurrentCall, result>>
  BY <1>5, PendingCases, FlatUnchanged DEF PendingNow, In
<1> QED
  BY <1>8, <1>9 DEF Stutters

LEMMA LoadRawByteStutters ==
    ASSUME AInv, LoadRawByte
    PROVE  Stutters
<1> DEFINE a == call.addr
<1>1. call \in [op : Ops, addr : Address, size : Nat, i : Nat, buf : Nat]
  BY DEF AInv, IInv, TypeOK
<1>2. input \in Seq(Nat) /\ input # <<>> /\ Head(input) \in Nat /\ In("load_raw") /\ a \in Address
  BY <1>1 DEF AInv, IInv, TypeOK, LoadRawByte, In
<1>3. /\ call'.op = "load_raw" /\ call'.addr = Plus(a, 1) /\ input' = Tail(input)
      /\ UNCHANGED <<sail_tags, g_elf_entry, result>>
  BY <1>1, <1>2 DEF LoadRawByte, In
<1>4. FlatRam \in [Address -> Byte] /\ FlatRam' = [FlatRam EXCEPT ![a] = Head(input) % ByteValues]
  BY <1>2, FlatRamType, WriteMemStores DEF AInv, LoadRawByte
<1>5. Pending = OverlayRaw(FlatRam, a, input)
  BY <1>2, PendingCases, Zenon DEF PendingNow
<1>6. Pending' = OverlayRaw(FlatRam', Plus(a, 1), Tail(input))
  BY <1>3, PendingCases, Zenon DEF PendingNow, In
<1> HIDE DEF a
<1>7. Pending' = Pending
  BY <1>2, <1>4, <1>5, <1>6, OverlayRawNext, Zenon
<1>8. UNCHANGED <<FlatTags, PendingEntry, CurrentCall, result>>
  BY <1>2, <1>3, PendingCases, FlatUnchanged DEF PendingNow, In
<1> QED
  BY <1>7, <1>8 DEF Stutters

(* A line that fits is read as it stands. *)
LEMMA LoadImagePairStutters ==
    ASSUME AInv, LoadImagePair
    PROVE  Stutters
<1> DEFINE line == Head(input)
<1>1. input \in Seq(Line) /\ input # <<>> /\ In("load_image")
  BY DEF AInv, IInv, TypeOK, LoadImagePair, In
<1>2. line \in Line /\ LineFits(line)
  <2>1. line = input[1] /\ 1 \in DOMAIN input /\ line \in Line
    BY <1>1
  <2> QED
    BY <1>1, <2>1 DEF AInv, CallInv
<1>3. /\ call' = call /\ In("load_image")' /\ input' = Tail(input)
      /\ UNCHANGED <<sail_tags, result>>
  BY <1>1 DEF LoadImagePair, In
<1>4. FlatRam \in [Address -> Byte]
  BY FlatRamType DEF AInv
<1>5. /\ Pending = OverlayImage(FlatRam, input)
      /\ PendingEntry = EntryOf(g_elf_entry, input)
      /\ Pending' = OverlayImage(FlatRam', Tail(input))
      /\ PendingEntry' = EntryOf(g_elf_entry', Tail(input))
  BY <1>1, <1>3, PendingCases, Zenon DEF PendingNow
<1>6. UNCHANGED <<FlatTags, CurrentCall, result>>
  BY <1>1, <1>3, PendingCases, FlatUnchanged DEF PendingNow, In
<1>7. CASE line.addr = ElfEntry
  <2>1. sscanf_u64(line.data) = line.data
    BY <1>2, <1>7 DEF LineFits, sscanf_u64
  <2>2. g_elf_entry' = line.data /\ UNCHANGED sail_memory
    BY <1>7, <2>1 DEF LoadImagePair
  <2>3. line.addr \notin Address
    BY <1>7, MemoryAssumption DEF Address
  <2>4. FlatRam' = FlatRam
    BY <2>2, FlatUnchanged
  <2>5. Pending' = Pending
    BY <1>1, <1>4, <1>5, <2>3, <2>4, OverlayImageNext, Zenon
  <2>6. PendingEntry' = PendingEntry
    BY <1>1, <1>5, <1>7, <2>2, EntryNext, Zenon
  <2> QED
    BY <1>6, <2>5, <2>6 DEF Stutters
<1>8. CASE line.addr # ElfEntry
  <2>1. atoll(line.addr) = line.addr /\ atoll(line.data) = line.data
    BY <1>2, <1>8 DEF LineFits, atoll
  <2>2. line.addr \in Address /\ line.data \in Nat
    BY <1>2, <1>8, MemoryAssumption DEF LineFits, Line, Address
  <2>3. write_mem(line.addr, line.data) /\ g_elf_entry' = g_elf_entry
    BY <1>8, <2>1 DEF LoadImagePair
  <2>4. FlatRam' = [FlatRam EXCEPT ![line.addr] = line.data % ByteValues]
    BY <2>2, <2>3, WriteMemStores DEF AInv
  <2>5. Pending' = Pending
    BY <1>1, <1>4, <1>5, <2>2, <2>4, OverlayImageNext, Zenon
  <2>6. PendingEntry' = PendingEntry
    BY <1>1, <1>5, <1>8, <2>3, EntryNext, Zenon
  <2> QED
    BY <1>6, <2>5, <2>6 DEF Stutters
<1> QED
  BY <1>7, <1>8

-----------------------------------------------------------------------------
(* Calls and returns are the steps of the abstract memory. *)
LEMMA CallSteps ==
    ASSUME AInv, CallWriteRam \/ CallReadRam \/ CallLoadRaw \/ CallLoadImage
    PROVE  Atomic!Next
<1>1. In("idle") /\ call = Idle /\ UNCHANGED <<FlatRam, FlatTags, g_elf_entry, result>>
  BY FlatUnchanged DEF AInv, CallInv, CallWriteRam, CallReadRam, CallLoadRaw, CallLoadImage
<1>2. Pending = FlatRam /\ PendingEntry = g_elf_entry /\ CurrentCall = Atomic!Idle
  BY <1>1, PendingCases DEF PendingNow, In, Idle, Writes, Atomic!Idle, Atomic!Request
<1>3. CASE CallWriteRam
  <2>1. PICK a \in Address, n \in Sizes, d \in Data :
          call' = [op |-> "write_ram", addr |-> a, size |-> n, i |-> 0, buf |-> d]
    BY <1>3 DEF CallWriteRam
  <2>2. Plus(a, 0) = a /\ n - 0 = n
    BY PlusZero, MemoryAssumption
  <2>3. Pending' = OverlayWord(FlatRam', a, n, d)
    BY <2>1, <2>2, PendingCases DEF PendingNow, In
  <2>4. PendingEntry' = g_elf_entry' /\ CurrentCall' = [op |-> "write_ram", addr |-> a, size |-> n]
    BY <2>1, PendingCases DEF PendingNow, In
  <2>5. Atomic!WriteRam
    BY <1>1, <1>2, <2>3, <2>4, SameOperators DEF Atomic!WriteRam, Atomic!Request
  <2> QED
    BY <2>5 DEF Atomic!Next
<1>4. CASE CallReadRam
  <2>1. PICK a \in Address, n \in Sizes, op \in {"read_ram", "fast_read_ram"} :
          call' = [op |-> op, addr |-> a, size |-> n, i |-> n, buf |-> 0]
    BY <1>4 DEF CallReadRam
  <2>2. /\ Pending' = FlatRam' /\ PendingEntry' = g_elf_entry'
        /\ CurrentCall' = [op |-> op, addr |-> a, size |-> n]
    BY <2>1, PendingCases DEF PendingNow, In, Writes
  <2>3. Atomic!CallRead
    BY <1>1, <1>2, <2>2, SameOperators DEF Atomic!CallRead, Atomic!Request
  <2> QED
    BY <2>3 DEF Atomic!Next
<1>5. CASE CallLoadRaw
  <2>1. PICK a \in Address, bytes \in Raws :
          call' = [Idle EXCEPT !.op = "load_raw", !.addr = a] /\ input' = bytes
    BY <1>5 DEF CallLoadRaw
  <2>2. call'.op = "load_raw" /\ call'.addr = a
    BY <2>1 DEF Idle
  <2>3. /\ Pending' = OverlayRaw(FlatRam', a, bytes) /\ PendingEntry' = g_elf_entry'
        /\ CurrentCall' = [op |-> "load_raw", addr |-> 0, size |-> 0]
    BY <2>1, <2>2, PendingCases DEF PendingNow, In
  <2>4. Atomic!LoadRaw
    BY <1>1, <1>2, <2>3, SameOperators DEF Atomic!LoadRaw, Atomic!Request
  <2> QED
    BY <2>4 DEF Atomic!Next
<1>6. CASE CallLoadImage
  <2>1. PICK lines \in Images :
          call' = [Idle EXCEPT !.op = "load_image"] /\ input' = lines
    BY <1>6 DEF CallLoadImage
  <2>2. call'.op = "load_image"
    BY <2>1 DEF Idle
  <2>3. /\ Pending' = OverlayImage(FlatRam', lines) /\ PendingEntry' = EntryOf(g_elf_entry', lines)
        /\ CurrentCall' = [op |-> "load_image", addr |-> 0, size |-> 0]
    BY <2>1, <2>2, PendingCases DEF PendingNow, In
  <2>4. Atomic!LoadImage
    BY <1>1, <1>2, <2>3, SameOperators DEF Atomic!LoadImage, Atomic!Request
  <2> QED
    BY <2>4 DEF Atomic!Next
<1> QED
  BY <1>3, <1>4, <1>5, <1>6

(* At the end of its loop a call that writes has nothing left to write. *)
LEMMA WriteReturnSteps ==
    ASSUME AInv, WriteReturn \/ LoadReturn
    PROVE  Atomic!WriteReturn
<1>1. FlatRam \in [Address -> Byte] /\ UNCHANGED <<FlatRam, FlatTags, g_elf_entry, result>>
  BY FlatRamType, FlatUnchanged DEF AInv, WriteReturn, LoadReturn
<1>2. DOMAIN FlatRam = Address /\ FlatRam = [x \in Address |-> FlatRam[x]]
  BY <1>1
<1>3. call' = Idle
  BY DEF WriteReturn, LoadReturn
<1>4. Pending' = FlatRam' /\ PendingEntry' = g_elf_entry' /\ CurrentCall' = Atomic!Idle
  BY <1>3, PendingCases DEF PendingNow, In, Idle, Writes, Atomic!Idle, Atomic!Request
<1>5. call \in [op : Ops, addr : Address, size : Nat, i : Nat, buf : Nat]
  BY DEF AInv, IInv, TypeOK
<1>6. CASE WriteReturn
  <2>1. In("write_ram") /\ call.size - call.i = 0
    BY <1>5, <1>6 DEF WriteReturn
  <2>2. Pending = FlatRam
    BY <1>2, <2>1, PendingCases, OverlayNone DEF PendingNow, OverlayWord
  <2>3. PendingEntry = g_elf_entry /\ CurrentCall.op = "write_ram"
    BY <2>1, PendingCases DEF PendingNow, In
  <2> QED
    BY <1>1, <1>4, <2>2, <2>3 DEF Atomic!WriteReturn
<1>7. CASE LoadReturn /\ In("load_raw")
  <2>1. input = <<>> /\ Len(input) = 0
    BY <1>7 DEF LoadReturn
  <2>2. Pending = FlatRam
    BY <1>2, <1>7, <2>1, PendingCases, OverlayNone DEF PendingNow, OverlayRaw
  <2>3. PendingEntry = g_elf_entry /\ CurrentCall.op = "load_raw"
    BY <1>7, PendingCases DEF PendingNow, In
  <2> QED
    BY <1>1, <1>4, <2>2, <2>3 DEF Atomic!WriteReturn
<1>8. CASE LoadReturn /\ In("load_image")
  <2>1. \A x : LinesFor(input, x) = {}
    BY <1>8 DEF LoadReturn, LinesFor
  <2>2. Pending = FlatRam
    BY <1>2, <1>8, <2>1, PendingCases DEF PendingNow, OverlayImage
  <2>3. PendingEntry = g_elf_entry /\ CurrentCall.op = "load_image"
    BY <1>8, <2>1, PendingCases DEF PendingNow, In, EntryOf
  <2> QED
    BY <1>1, <1>4, <2>2, <2>3 DEF Atomic!WriteReturn
<1> QED
  BY <1>6, <1>7, <1>8 DEF LoadReturn

(* At the end of its loop a read has the word that is there. *)
LEMMA ReadReturnSteps ==
    ASSUME AInv, ReadReturn
    PROVE  Atomic!ReadReturn
<1>1. UNCHANGED <<FlatRam, FlatTags, g_elf_entry>> /\ call' = Idle /\ result' = call.buf
  BY FlatUnchanged DEF ReadReturn
<1>2. Pending' = FlatRam' /\ PendingEntry' = g_elf_entry' /\ CurrentCall' = Atomic!Idle
  BY <1>1, PendingCases DEF PendingNow, In, Idle, Writes, Atomic!Idle, Atomic!Request
<1>3. /\ Pending = FlatRam /\ PendingEntry = g_elf_entry
      /\ CurrentCall = [op |-> call.op, addr |-> call.addr, size |-> call.size]
  BY PendingCases DEF PendingNow, ReadReturn, In, Writes
<1>4. ReadSoFar = Word(FlatRam, call.addr, call.size)
  <2>1. Plus(call.addr, call.i) = call.addr /\ call.size - call.i = call.size
    BY PlusZero DEF ReadReturn, AInv, IInv, TypeOK
  <2> QED
    BY <2>1 DEF ReadSoFar
<1>5. /\ In("read_ram") => result' = Word(FlatRam, call.addr, call.size)
      /\ In("fast_read_ram") => result' = Word(FlatRam, call.addr, call.size) % FastWord
  BY <1>1, <1>4 DEF AInv, CallInv
<1>6. In("read_ram") \/ In("fast_read_ram")
  BY DEF ReadReturn
<1> QED
  BY <1>1, <1>2, <1>3, <1>5, <1>6, SameOperators DEF Atomic!ReadReturn, In

(* Between calls memory is what it seems. *)
LEMMA IdleSteps ==
    ASSUME AInv, WriteTag \/ ReadTag \/ kill_mem
    PROVE  Atomic!Next
<1>1. In("idle") /\ call = Idle /\ UNCHANGED <<call, g_elf_entry>>
  BY DEF AInv, CallInv, WriteTag, ReadTag, kill_mem
<1>2. /\ Pending = FlatRam /\ PendingEntry = g_elf_entry /\ CurrentCall = Atomic!Idle
      /\ Pending' = FlatRam' /\ PendingEntry' = g_elf_entry' /\ CurrentCall' = Atomic!Idle
  BY <1>1, PendingCases DEF PendingNow, In, Idle, Writes, Atomic!Idle, Atomic!Request
<1>3. CASE WriteTag
  <2>1. PICK a \in Tagged, t \in BOOLEAN : sail_tags' = write_block(sail_tags, a, t, FALSE)
    BY <1>3 DEF WriteTag
  <2>2. a \in Address
    BY MemoryAssumption DEF Address
  <2>3. FlatTags' = [FlatTags EXCEPT ![a] = t]
    BY <2>1, <2>2, WriteTagStores DEF AInv
  <2>4. UNCHANGED <<FlatRam, result>>
    BY <1>3, FlatUnchanged DEF WriteTag
  <2>5. Atomic!WriteTag
    BY <1>1, <1>2, <2>2, <2>3, <2>4, SameOperators, Zenon DEF Atomic!WriteTag
  <2> QED
    BY <2>5 DEF Atomic!Next
<1>4. CASE ReadTag
  <2>1. PICK a \in Tagged : result' = IF read_tag_bool(a) THEN 1 ELSE 0
    BY <1>4 DEF ReadTag
  <2>2. a \in Address
    BY MemoryAssumption DEF Address
  <2>3. FlatTags[a] = read_tag_bool(a)
    BY <2>2 DEF FlatTags
  <2>4. UNCHANGED <<FlatRam, FlatTags>>
    BY <1>4, FlatUnchanged DEF ReadTag
  <2>5. Atomic!ReadTag
    BY <1>1, <1>2, <2>1, <2>2, <2>3, <2>4, SameOperators, Zenon DEF Atomic!ReadTag
  <2> QED
    BY <2>5 DEF Atomic!Next
<1>5. CASE kill_mem
  <2>1. \A x : read_block(sail_memory', x, 0) = 0 /\ read_block(sail_tags', x, FALSE) = FALSE
    BY <1>5 DEF kill_mem, read_block, Holders
  <2>2. FlatRam' = [a \in Address |-> 0] /\ FlatTags' = [a \in Address |-> FALSE]
    BY <2>1 DEF FlatRam, FlatTags, read_mem, read_tag_bool
  <2>3. result' = result
    BY <1>5 DEF kill_mem
  <2>4. Atomic!Kill
    BY <1>1, <1>2, <2>2, <2>3, SameOperators DEF Atomic!Kill
  <2> QED
    BY <2>4 DEF Atomic!Next
<1> QED
  BY <1>3, <1>4, <1>5

LEMMA InitAtomic == Init => Atomic!Init
<1> SUFFICES ASSUME Init PROVE Atomic!Init
  OBVIOUS
<1>1. \A x : read_block(sail_memory, x, 0) = 0 /\ read_block(sail_tags, x, FALSE) = FALSE
  BY DEF Init, read_block, Holders
<1>2. FlatRam = [a \in Address |-> 0] /\ FlatTags = [a \in Address |-> FALSE]
  BY <1>1 DEF FlatRam, FlatTags, read_mem, read_tag_bool
<1>3. Pending = FlatRam /\ PendingEntry = 0 /\ CurrentCall = Atomic!Idle
  BY PendingCases DEF Init, PendingNow, In, Idle, Writes, Atomic!Idle, Atomic!Request
<1> QED
  BY <1>2, <1>3, SameOperators DEF Init, Atomic!Init

LEMMA NextAtomic == AInv /\ [Next]_vars => [Atomic!Next]_(Atomic!vars)
<1> SUFFICES ASSUME AInv, [Next]_vars PROVE Atomic!Next \/ UNCHANGED Atomic!vars
  OBVIOUS
<1>1. ASSUME Stutters PROVE UNCHANGED Atomic!vars
  BY <1>1 DEF Stutters, Atomic!vars
<1>2. CASE CallWriteRam \/ CallReadRam \/ CallLoadRaw \/ CallLoadImage
  BY <1>2, CallSteps
<1>3. CASE WriteByte \/ LoadRawByte \/ LoadImagePair
  BY <1>1, <1>3, WriteByteStutters, LoadRawByteStutters, LoadImagePairStutters
<1>4. CASE WriteReturn \/ LoadReturn
  BY <1>4, WriteReturnSteps DEF Atomic!Next
<1>5. CASE ReadReturn
  BY <1>5, ReadReturnSteps DEF Atomic!Next
<1>6. CASE WriteTag \/ ReadTag \/ kill_mem
  BY <1>6, IdleSteps
<1>7. CASE ReadByte \/ FastReadByte
  <2>1. /\ UNCHANGED <<FlatRam, FlatTags, g_elf_entry, result>>
        /\ call.op \in {"read_ram", "fast_read_ram"}
        /\ call'.op = call.op /\ call'.addr = call.addr /\ call'.size = call.size
    BY <1>7, FlatUnchanged DEF ReadByte, FastReadByte, In, AInv, IInv, TypeOK
  <2>2. Stutters
    BY <2>1, PendingCases DEF Stutters, PendingNow, In, Writes
  <2> QED
    BY <1>1, <2>2
<1>8. CASE UNCHANGED vars
  <2>1. UNCHANGED <<FlatRam, FlatTags, g_elf_entry, result, call, input>>
    BY <1>8, FlatUnchanged DEF vars
  <2>2. Stutters
    BY <2>1 DEF Stutters, Pending, PendingEntry, CurrentCall, In
  <2> QED
    BY <1>1, <2>2
<1> QED
  BY <1>2, <1>3, <1>4, <1>5, <1>6, <1>7, <1>8 DEF Next

(* Every call of a builtin takes effect at once, on an array of bytes: a   *)
(* word that is written is read back whole and little endian, whatever     *)
(* blocks it covers and wherever the address space ends.                   *)
THEOREM CallsTakeEffectAtOnce ==
    ASSUME ImagesFit
    PROVE  Spec => CallsAreAtomic
<1>1. Spec => []AInv
  BY ImagesFit, InitAInv, NextAInv, PTL DEF Spec
<1> QED
  BY <1>1, InitAtomic, NextAtomic, PTL DEF Spec, CallsAreAtomic, Atomic!Spec
=============================================================================
