------------------------------ MODULE ElfProofs ------------------------------
(***************************************************************************)
(* ELF files: the loader reads the numbers that are in the file, of either *)
(* order of bytes and either class, accepts the files that are executables *)
(* with all they need, and loads their segments.                           *)
(***************************************************************************)
EXTENDS CommandLine, BytesProofs, FiniteSetTheorems

-----------------------------------------------------------------------------
(* The numbers of an ELF file, of either order of bytes, are read as they  *)
(* are.                                                                    *)
LEMMA Reading ==
    ASSUME NEW le \in BOOLEAN, NEW n \in Nat, NEW x \in Unsigned(n)
    PROVE  /\ rd(le, n, Written(le, n, x)) = x
           /\ le => Written(le, n, x) = x
<1>0. x \in Nat /\ x \in 0..(Power[n] - 1)
  BY PowerType DEF Unsigned
<1> DEFINE bytes == [k \in 0..(n - 1) |-> ByteOf(x, IF le THEN k ELSE n - 1 - k)]
           y     == WordOf(n, bytes)
<1>1. \A k \in 0..(n - 1) : n - 1 - k \in 0..(n - 1) /\ n - 1 - (n - 1 - k) = k
                            /\ k \in Nat /\ n - 1 - k \in Nat
  OBVIOUS
<1>2. \A k \in 0..(n - 1) : bytes[k] \in Byte
  BY <1>0, <1>1, ByteOfType
<1>3. Written(le, n, x) = y
  BY Zenon DEF Written
<1>4. CASE le
  <2>1. \A k \in 0..(n - 1) : bytes[k] = ByteOf(x, k)
    BY <1>4
  <2> HIDE DEF bytes
  <2>2. y = x
    BY <1>0, <2>1, WordOfBytes
  <2> QED
    BY <1>3, <1>4, <2>2 DEF rd
<1>5. CASE ~ le
  <2> DEFINE back == [k \in 0..(n - 1) |-> ByteOf(y, n - 1 - k)]
  <2>1. \A k \in 0..(n - 1) : bytes[k] = ByteOf(x, n - 1 - k)
    BY <1>5
  <2> HIDE DEF bytes
  <2>2. IsWord(y, n, bytes)
    BY <1>2, WordOfIsWord
  <2>3. \A k \in 0..(n - 1) : ByteOf(y, k) = bytes[k]
    BY <2>2 DEF IsWord
  <2> HIDE DEF y
  <2>4. \A k \in 0..(n - 1) : back[k] = ByteOf(x, k)
    <3> TAKE k \in 0..(n - 1)
    <3> DEFINE j == n - 1 - k
    <3>1. j \in 0..(n - 1) /\ n - 1 - j = k /\ back[k] = ByteOf(y, j)
      BY <1>1
    <3> HIDE DEF j
    <3>2. ByteOf(y, j) = bytes[j] /\ bytes[j] = ByteOf(x, n - 1 - j)
      BY <2>1, <2>3, <3>1
    <3> QED
      BY <3>1, <3>2
  <2>5. rd(le, n, y) = WordOf(n, back)
    BY <1>5 DEF rd, rev
  <2> HIDE DEF back
  <2>6. WordOf(n, back) = x
    BY <1>0, <2>4, WordOfBytes
  <2> QED
    BY <1>3, <1>5, <2>5, <2>6
<1> QED
  BY <1>4, <1>5

LEMMA Widths ==
    /\ HalfBytes \in Nat /\ WordBytes \in Nat
    /\ \A class : Wide(class) \in Nat
    /\ \A class : WideSpace(class) \in Nat \ {0} /\ WideSpace(class) = Power[Wide(class)]
    /\ WordSpace \in Nat \ {0} /\ WordSpace = Power[WordBytes]
    /\ AddressSpace \in Nat \ {0}
    /\ \A n \in Nat : Unsigned(n) \subseteq Nat
BY ElfAssumption, PowerType DEF Wide, WideSpace, WordSpace, AddressSpace, Unsigned

(* The header of a file. *)
LEMMA FileHeader ==
    ASSUME NEW e, IsElfFile(e)
    PROVE  LET f == Encode(e)
               le == little(f)
           IN  /\ le = e.le
               /\ f.size = e.size /\ f.magic = e.magic /\ f.class = e.class /\ f.buffer = e.bytes
               /\ rdHalf(le, f.e_type) = e.type
               /\ rdHalf(le, f.e_machine) = e.machine
               /\ rdHalf(le, f.e_phentsize) = e.phentsize
               /\ rdHalf(le, f.e_phnum) = Len(e.segments)
               /\ rdWide(e.class, le, f.e_phoff) = e.phoff
<1> DEFINE f == Encode(e)
<1>1. /\ f.size = e.size /\ f.magic = e.magic /\ f.class = e.class /\ f.buffer = e.bytes
      /\ f.data = IF e.le THEN 1 ELSE 2
      /\ f.e_type = Written(e.le, HalfBytes, e.type)
      /\ f.e_machine = Written(e.le, HalfBytes, e.machine)
      /\ f.e_phentsize = Written(e.le, HalfBytes, e.phentsize)
      /\ f.e_phnum = Written(e.le, HalfBytes, Len(e.segments))
      /\ f.e_phoff = Written(e.le, Wide(e.class), e.phoff)
  BY DEF Encode
<1> HIDE DEF f
<1>2. e.le \in BOOLEAN /\ little(f) = e.le
  BY <1>1 DEF IsElfFile, little, ELFDATA2LSB
<1>3. /\ {e.type, e.machine, e.phentsize, Len(e.segments)} \subseteq Unsigned(HalfBytes)
      /\ e.phoff \in Unsigned(Wide(e.class))
  BY DEF IsElfFile
<1>4. \A x \in Unsigned(HalfBytes) : rdHalf(e.le, Written(e.le, HalfBytes, x)) = x
  BY <1>2, Widths, Reading DEF rdHalf
<1>5. \A x \in Unsigned(Wide(e.class)) : rdWide(e.class, e.le, Written(e.le, Wide(e.class), x)) = x
  BY <1>2, Widths, Reading DEF rdWide
<1>6. /\ rdHalf(e.le, f.e_type) = e.type /\ rdHalf(e.le, f.e_machine) = e.machine
      /\ rdHalf(e.le, f.e_phentsize) = e.phentsize
      /\ rdHalf(e.le, f.e_phnum) = Len(e.segments)
      /\ rdWide(e.class, e.le, f.e_phoff) = e.phoff
  BY <1>1, <1>3, <1>4, <1>5, Zenon
<1> QED
  BY <1>1, <1>2, <1>6, Zenon DEF f
(* The header is accepted if it is that of an executable. *)
HeaderTold(e) ==
    /\ e.magic
    /\ e.type = ET_EXEC
    /\ \/ e.class = 32 /\ e.machine \in {EM_ARM, EM_RISCV}
       \/ e.class = 64 /\ e.machine \in {EM_AARCH64, EM_RISCV}
    /\ e.size >= EhdrSize[e.class]

LEMMA HeaderChecked ==
    ASSUME NEW e, IsElfFile(e)
    PROVE  checkELFHdr(Encode(e)) <=> HeaderTold(e)
<1> DEFINE f == Encode(e)
<1>1. /\ f.size = e.size /\ f.magic = e.magic /\ f.class = e.class
      /\ rdHalf(little(f), f.e_type) = e.type
      /\ rdHalf(little(f), f.e_machine) = e.machine
  BY FileHeader, Zenon
<1> HIDE DEF f
<1>2. /\ EhdrSize[32] \in Nat /\ EhdrSize[64] \in Nat /\ EhdrSize[32] <= EhdrSize[64]
      /\ e.class \in {32, 64} /\ e.size \in Nat
  <2>1. EhdrSize \in [{32, 64} -> Nat \ {0}] /\ EhdrSize[32] <= EhdrSize[64]
    BY ElfAssumption
  <2>2. Unsigned(Wide(e.class)) \subseteq Nat
    BY Widths
  <2> QED
    BY <2>1, <2>2 DEF IsElfFile
<1>3. checkELFHdr(f) <=> HeaderTold(e)
  BY <1>1, <1>2 DEF checkELFHdr, HeaderTold
<1> QED
  BY <1>3 DEF f

(* Row i of n rows of p bytes ends within them. *)
LEMMA RowFits ==
    ASSUME NEW n \in Nat, NEW p \in Nat, NEW i \in Nat, i < n
    PROVE  i * p \in Nat /\ n * p \in Nat /\ i * p + p <= n * p
<1>1. PICK d \in Nat : n = i + 1 + d
  <2>1. n - i - 1 \in Nat /\ n = i + 1 + (n - i - 1)
    OBVIOUS
  <2> QED
    BY <2>1
<1>2. n * p = i * p + p + d * p /\ d * p \in Nat /\ i * p \in Nat
  BY <1>1
<1> QED
  BY <1>2

(* A program header. *)
LEMMA FileSegment ==
    ASSUME NEW e, IsElfFile(e), NEW i \in Nat, i < Len(e.segments)
    PROVE  LET f    == Encode(e)
               le   == little(f)
               off  == e.phoff + i * e.phentsize
               phdr == f.phdrs[off]
               s    == e.segments[i + 1]
           IN  /\ off \in Nat
               /\ ProgHdrOffset(f, i) = off
               /\ s \in Headers(e.class)
               /\ rdWord(le, phdr.p_type) = s.type
               /\ rdWide(e.class, le, phdr.p_offset) = s.offset
               /\ rdWide(e.class, le, phdr.p_paddr) = s.paddr
               /\ rdWide(e.class, le, phdr.p_filesz) = s.filesz
               /\ rdWide(e.class, le, phdr.p_memsz) = s.memsz
<1> DEFINE f    == Encode(e)
           off  == e.phoff + i * e.phentsize
           s    == e.segments[i + 1]
           n    == Len(e.segments)
           p    == e.phentsize
<1>1. /\ e.segments \in Seq(Headers(e.class)) /\ n \in Nat /\ p \in Nat /\ p > 0
      /\ e.phoff \in Nat /\ e.phoff + n * p <= WideSpace(e.class) /\ e.le \in BOOLEAN
  BY Widths DEF IsElfFile
<1>2. s \in Headers(e.class)
  BY <1>1
<1>3. i * p \in Nat /\ off \in Nat /\ off < WideSpace(e.class)
  <2>1. i * p \in Nat /\ n * p \in Nat /\ i * p + p <= n * p
    BY <1>1, RowFits
  <2> DEFINE m == i * p
             t == n * p
  <2>2. m \in Nat /\ t \in Nat /\ p \in Nat /\ p > 0 /\ e.phoff \in Nat
        /\ m + p <= t /\ e.phoff + t <= WideSpace(e.class) /\ WideSpace(e.class) \in Nat
    BY <1>1, <2>1, Widths
  <2> HIDE DEF m, t, n, p
  <2>3. e.phoff + m \in Nat /\ e.phoff + m < WideSpace(e.class)
    BY <1>1, <2>2
  <2> QED
    BY <2>2, <2>3 DEF m, p
<1>4. (off - e.phoff) \div p = i
  <2> DEFINE m == i * p
  <2>1. m \in Nat /\ m = p * i + 0
    BY <1>1, <1>3
  <2>2. off - e.phoff = m
    <3> HIDE DEF m
    <3> QED
      BY <1>1, <2>1 DEF m
  <2>3. 0 \in 0..(p - 1) /\ p \in Nat \ {0}
    BY <1>1
  <2> HIDE DEF m, p
  <2>4. m \div p = i
    BY <2>1, <2>3, DivisionUnique
  <2> QED
    BY <2>2, <2>4
<1>5. off % WideSpace(e.class) = off
  <2> DEFINE w == WideSpace(e.class)
  <2>1. w \in Nat /\ off \in Nat /\ off < w
    BY <1>3, Widths
  <2> HIDE DEF w, off
  <2>2. off % w = off
    BY <2>1
  <2> QED
    BY <2>2 DEF w
<1>6. ProgHdrOffset(f, i) = off
  <2>1. /\ rdWide(e.class, little(f), f.e_phoff) = e.phoff /\ f.class = e.class
        /\ rdHalf(little(f), f.e_phentsize) = p
    BY FileHeader, Zenon
  <2> HIDE DEF f, p
  <2>2. ProgHdrOffset(f, i) = (e.phoff + i * p) % WideSpace(e.class)
    BY <2>1, Zenon DEF ProgHdrOffset
  <2> QED
    BY <1>5, <2>2 DEF p
<1> DEFINE phdr(t) ==
             [p_type |-> Written(e.le, WordBytes, t.type),
              p_offset |-> Written(e.le, Wide(e.class), t.offset),
              p_paddr |-> Written(e.le, Wide(e.class), t.paddr),
              p_filesz |-> Written(e.le, Wide(e.class), t.filesz),
              p_memsz |-> Written(e.le, Wide(e.class), t.memsz)]
           offsets == {e.phoff + k * e.phentsize : k \in 0..(n - 1)}
<1>7. off \in offsets
  <2>1. i \in 0..(n - 1)
    BY <1>1
  <2> QED
    BY <2>1, Zenon
<1>8. f.phdrs = [o \in offsets |-> phdr(e.segments[1 + (o - e.phoff) \div e.phentsize])]
  BY DEF Encode
<1>9. f.phdrs[off] = phdr(s)
  <2>1. f.phdrs[off] = phdr(e.segments[1 + (off - e.phoff) \div e.phentsize])
    BY <1>7, <1>8, Zenon
  <2>2. 1 + (off - e.phoff) \div e.phentsize = i + 1
    BY <1>4
  <2> QED
    BY <2>1, <2>2, Zenon
<1>10. little(f) = e.le
  BY FileHeader, Zenon
<1> DEFINE h == f.phdrs[off]
<1>11. /\ h.p_type = Written(e.le, WordBytes, s.type)
       /\ h.p_offset = Written(e.le, Wide(e.class), s.offset)
       /\ h.p_paddr = Written(e.le, Wide(e.class), s.paddr)
       /\ h.p_filesz = Written(e.le, Wide(e.class), s.filesz)
       /\ h.p_memsz = Written(e.le, Wide(e.class), s.memsz)
  <2> HIDE DEF f, off, s, n, p, offsets
  <2> QED
    BY <1>9
<1>12. /\ s.type \in Unsigned(WordBytes)
       /\ {s.offset, s.paddr, s.filesz, s.memsz} \subseteq Unsigned(Wide(e.class))
  BY <1>2 DEF Headers
<1> HIDE DEF f, off, s, n, p, phdr, offsets, h
<1>13. \A x \in Unsigned(WordBytes) : rdWord(e.le, Written(e.le, WordBytes, x)) = x
  BY <1>1, Widths, Reading DEF rdWord
<1>14. \A x \in Unsigned(Wide(e.class)) : rdWide(e.class, e.le, Written(e.le, Wide(e.class), x)) = x
  BY <1>1, Widths, Reading DEF rdWide
<1>15. /\ rdWord(little(f), h.p_type) = s.type
       /\ rdWide(e.class, little(f), h.p_offset) = s.offset
       /\ rdWide(e.class, little(f), h.p_paddr) = s.paddr
       /\ rdWide(e.class, little(f), h.p_filesz) = s.filesz
       /\ rdWide(e.class, little(f), h.p_memsz) = s.memsz
  BY <1>10, <1>11, <1>12, <1>13, <1>14, Zenon
<1> QED
  BY <1>2, <1>3, <1>6, <1>15, Zenon DEF f, off, s, h
LEMMA HeaderOffset ==
    ASSUME NEW e, IsElfFile(e), NEW i \in Nat, i < Len(e.segments)
    PROVE  ProgHdrOffset(Encode(e), i) = e.phoff + i * e.phentsize
BY FileSegment, Zenon

(* A program header is accepted if what it describes is in the file. *)
SegmentInFile(e, j) ==
    /\ e.phoff + (j - 1) * e.phentsize + PhdrSize[e.class] <= e.size
    /\ j \in Loaded(e) => e.segments[j].offset + e.segments[j].filesz <= e.size

LEMMA ExecutableParts ==
    ASSUME NEW e, IsElfFile(e)
    PROVE  Executable(e) <=> HeaderTold(e) /\ \A j \in DOMAIN e.segments : SegmentInFile(e, j)
<1>1. Loaded(e) \subseteq DOMAIN e.segments
  BY DEF Loaded
<1> QED
  BY <1>1 DEF Executable, HeaderTold, SegmentInFile

LEMMA SmallModulo ==
    ASSUME NEW x \in Nat, NEW w \in Nat, x < w
    PROVE  x % w = x
OBVIOUS

LEMMA SegmentNumbers ==
    ASSUME NEW e, IsElfFile(e), NEW s \in Headers(e.class)
    PROVE  /\ s.filesz \in Nat /\ s.filesz % WordSpace = s.filesz
           /\ s.memsz \in Nat /\ s.memsz % WordSpace = s.memsz
           /\ s.offset \in Nat /\ s.paddr \in Nat
<1>1. /\ s.filesz \in Unsigned(WordBytes) /\ s.memsz \in Unsigned(WordBytes)
      /\ s.offset \in Unsigned(Wide(e.class)) /\ s.paddr \in Unsigned(Wide(e.class))
  BY DEF Headers
<1>2. /\ s.filesz \in Nat /\ s.filesz < WordSpace /\ s.memsz \in Nat /\ s.memsz < WordSpace
      /\ s.offset \in Nat /\ s.paddr \in Nat /\ WordSpace \in Nat
  BY <1>1, Widths DEF Unsigned
<1> QED
  BY <1>2, SmallModulo

LEMMA SegmentFits ==
    ASSUME NEW e, IsElfFile(e), HeaderTold(e), NEW i \in Nat, i < Len(e.segments)
    PROVE  ProgHdrFits(Encode(e), e.phoff + i * e.phentsize) <=> SegmentInFile(e, i + 1)
<1> DEFINE f   == Encode(e)
           off == e.phoff + i * e.phentsize
           s   == e.segments[i + 1]
           h   == f.phdrs[off]
<1>1. /\ off \in Nat /\ s \in Headers(e.class)
      /\ rdWord(little(f), h.p_type) = s.type
      /\ rdWide(e.class, little(f), h.p_offset) = s.offset
      /\ rdWide(e.class, little(f), h.p_filesz) = s.filesz
  BY FileSegment, Zenon
<1>2. f.size = e.size /\ f.class = e.class
  BY FileHeader, Zenon
<1>3. /\ e.size \in Nat /\ e.size < WideSpace(e.class) /\ WideSpace(e.class) \in Nat
      /\ e.class \in {32, 64} /\ PhdrSize[e.class] \in Nat
  <2>1. PhdrSize \in [{32, 64} -> Nat \ {0}] /\ e.class \in {32, 64}
    BY ElfAssumption DEF IsElfFile
  <2>2. e.size \in Unsigned(Wide(e.class))
    BY DEF IsElfFile
  <2> QED
    BY <2>1, <2>2, Widths DEF Unsigned
<1>4. i + 1 \in Loaded(e) <=> s.type = PT_LOAD
  <2>1. i + 1 \in DOMAIN e.segments
    BY DEF IsElfFile
  <2> QED
    BY <2>1 DEF Loaded
<1>5. (i + 1) - 1 = i
  OBVIOUS
<1>6. SegmentInFile(e, i + 1) <=> /\ off + PhdrSize[e.class] <= e.size
                                  /\ s.type = PT_LOAD => s.offset + s.filesz <= e.size
  BY <1>4, <1>5, Zenon DEF SegmentInFile
<1>7. ProgHdrFits(f, off) <=>
        /\ off <= e.size - PhdrSize[e.class]
        /\ s.type = PT_LOAD => s.filesz % WordSpace <= (e.size - s.offset) % WideSpace(e.class)
  <2> HIDE DEF f, off, s
  <2> QED
    BY <1>1, <1>2, Zenon DEF ProgHdrFits
<1>8. s.type = PT_LOAD =>
        (s.filesz % WordSpace <= (e.size - s.offset) % WideSpace(e.class)
           <=> s.offset + s.filesz <= e.size)
  <2> SUFFICES ASSUME s.type = PT_LOAD
               PROVE  s.filesz % WordSpace <= (e.size - s.offset) % WideSpace(e.class)
                        <=> s.offset + s.filesz <= e.size
    OBVIOUS
  <2>1. s.offset <= e.size
    BY <1>4 DEF IsElfFile, HeaderTold
  <2> HIDE DEF s
  <2>2. s.filesz \in Nat /\ s.filesz % WordSpace = s.filesz /\ s.offset \in Nat
    BY <1>1, SegmentNumbers
  <2>3. e.size - s.offset \in Nat /\ e.size - s.offset < WideSpace(e.class)
    BY <1>3, <2>1, <2>2
  <2>4. (e.size - s.offset) % WideSpace(e.class) = e.size - s.offset
    BY <1>3, <2>3, SmallModulo
  <2>5. s.filesz <= e.size - s.offset <=> s.offset + s.filesz <= e.size
    BY <1>3, <2>2
  <2> QED
    BY <2>2, <2>4, <2>5, Zenon
<1>9. off <= e.size - PhdrSize[e.class] <=> off + PhdrSize[e.class] <= e.size
  <2> HIDE DEF off
  <2> QED
    BY <1>1, <1>3
<1> QED
  BY <1>6, <1>7, <1>8, <1>9, Zenon

-----------------------------------------------------------------------------
(* Loading a segment. *)
ByteIn(e, s, a) == IF a < s.paddr + s.filesz THEN e.bytes[s.offset + a - s.paddr] ELSE 0
PutSegment(m, e, s) == [a \in Address |-> IF a \in Segment(s) THEN ByteIn(e, s, a) ELSE m[a]]

LEMMA MaxTwo ==
    ASSUME NEW x \in Nat, NEW y \in Nat
    PROVE  Max({x, y}) = IF x >= y THEN x ELSE y
<1>1. CASE x >= y
  <2>1. {x, y} \subseteq Nat /\ x \in {x, y} /\ \A z \in {x, y} : x >= z
    BY <1>1
  <2> QED
    BY <1>1, <2>1, MaxIs
<1>2. CASE ~ (x >= y)
  <2>1. {x, y} \subseteq Nat /\ y \in {x, y} /\ \A z \in {x, y} : y >= z
    BY <1>2
  <2> QED
    BY <1>2, <2>1, MaxIs
<1> QED
  BY <1>1, <1>2

LEMMA SegmentLoads ==
    ASSUME NEW e, IsElfFile(e), NEW i \in Nat, i < Len(e.segments),
           i + 1 \in Loaded(e) => e.segments[i + 1].offset + e.segments[i + 1].filesz <= e.size,
           NEW m
    PROVE  loadProgHdr(m, Encode(e), e.phoff + i * e.phentsize)
             = IF i + 1 \in Loaded(e) THEN PutSegment(m, e, e.segments[i + 1]) ELSE m
<1> DEFINE f   == Encode(e)
           off == e.phoff + i * e.phentsize
           s   == e.segments[i + 1]
           h   == f.phdrs[off]
<1>1. /\ off \in Nat /\ s \in Headers(e.class)
      /\ rdWord(little(f), h.p_type) = s.type
      /\ rdWide(e.class, little(f), h.p_offset) = s.offset
      /\ rdWide(e.class, little(f), h.p_paddr) = s.paddr
      /\ rdWide(e.class, little(f), h.p_filesz) = s.filesz
      /\ rdWide(e.class, little(f), h.p_memsz) = s.memsz
  BY FileSegment, Zenon
<1>2. f.class = e.class /\ f.buffer = e.bytes
  BY FileHeader, Zenon
<1>3. i + 1 \in Loaded(e) <=> s.type = PT_LOAD
  <2>1. i + 1 \in DOMAIN e.segments
    BY DEF IsElfFile
  <2> QED
    BY <2>1 DEF Loaded
<1>4. /\ s.filesz \in Nat /\ s.filesz % WordSpace = s.filesz
      /\ s.memsz \in Nat /\ s.memsz % WordSpace = s.memsz
      /\ s.offset \in Nat /\ s.paddr \in Nat
  BY <1>1, SegmentNumbers, Zenon
<1>5. loadProgHdr(m, f, off)
        = IF s.type = PT_LOAD
          THEN loadBlock(m, e.class, e.bytes, s.offset, s.paddr, s.filesz, s.memsz)
          ELSE m
  <2> HIDE DEF f, off, s
  <2> QED
    BY <1>1, <1>2, <1>4, Zenon DEF loadProgHdr
<1>6. CASE s.type = PT_LOAD
  <2> DEFINE W == WideSpace(e.class)
             n == Max({s.filesz, s.memsz})
             K(a) == {k \in 0..(n - 1) : (s.paddr + k) % W = a}
  <2>1. /\ s.paddr + s.filesz <= W /\ s.paddr + s.memsz <= W
        /\ s.offset + s.filesz <= e.size
    BY <1>3, <1>6 DEF IsElfFile
  <2>2. \A o \in 0..(e.size - 1) : e.bytes[o] \in Byte
    BY DEF IsElfFile
  <2>3. e.size \in Nat /\ W \in Nat
    BY Widths DEF IsElfFile
  <2> HIDE DEF s
  <2>4. n \in Nat /\ s.paddr + n <= W /\ s.filesz <= n
    <3>1. n = IF s.filesz >= s.memsz THEN s.filesz ELSE s.memsz
      BY <1>4, MaxTwo
    <3> HIDE DEF n, W
    <3> QED
      BY <1>4, <2>1, <2>3, <3>1
  <2>5. Segment(s) = {a \in Address : s.paddr <= a /\ a < s.paddr + n}
    BY DEF Segment
  <2> HIDE DEF n, W
  <2>6. \A k \in 0..(n - 1) : (s.paddr + k) % W = s.paddr + k
    <3> TAKE k \in 0..(n - 1)
    <3>1. s.paddr + k \in Nat /\ s.paddr + k < W
      <4>1. k \in Nat /\ k < n
        BY <2>4
      <4>2. s.paddr + k < s.paddr + n
        BY <1>4, <2>4, <4>1
      <4> QED
        BY <1>4, <2>3, <2>4, <4>1, <4>2
    <3> QED
      BY <2>3, <3>1, SmallModulo
  <2>7. Address \subseteq Nat
    BY Widths DEF Address
  <2>8. ASSUME NEW a \in Address
        PROVE  (IF K(a) = {} THEN m[a]
                ELSE IF Max(K(a)) < s.filesz THEN e.bytes[s.offset + Max(K(a))] % ByteValues ELSE 0)
               = (IF a \in Segment(s) THEN ByteIn(e, s, a) ELSE m[a])
    <3>1. CASE a \in Segment(s)
      <4> DEFINE j == a - s.paddr
      <4>1. j \in 0..(n - 1) /\ s.paddr + j = a /\ j \in Nat
        BY <1>4, <2>4, <2>5, <2>7, <3>1
      <4>2. K(a) = {j}
        <5>1. (s.paddr + j) % W = a
          BY <2>6, <4>1
        <5>2. ASSUME NEW k \in 0..(n - 1), (s.paddr + k) % W = a PROVE k = j
          <6>1. s.paddr + k = s.paddr + j
            BY <2>6, <4>1, <5>2
          <6>2. k \in Nat
            OBVIOUS
          <6> HIDE DEF j
          <6> QED
            BY <1>4, <4>1, <6>1, <6>2
        <5> HIDE DEF j
        <5> QED
          BY <4>1, <5>1, <5>2
      <4>3. Max(K(a)) = j
        <5>1. K(a) \subseteq Nat /\ j \in K(a) /\ \A y \in K(a) : j >= y
          BY <4>1, <4>2
        <5> HIDE DEF K, j
        <5> QED
          BY <5>1, MaxIs
      <4>4. j < s.filesz <=> a < s.paddr + s.filesz
        BY <1>4, <4>1
      <4>5. s.offset + j = s.offset + a - s.paddr
        BY <1>4, <2>7
      <4>6. ASSUME j < s.filesz PROVE e.bytes[s.offset + j] % ByteValues = e.bytes[s.offset + j]
        <5>1. s.offset + j \in 0..(e.size - 1)
          <6>1. /\ j \in Nat /\ j < s.filesz /\ s.filesz \in Nat /\ s.offset \in Nat
                /\ s.offset + s.filesz <= e.size /\ e.size \in Nat
            BY <1>4, <2>1, <2>3, <4>1, <4>6
          <6> HIDE DEF j
          <6> QED
            BY <6>1
        <5> DEFINE b == e.bytes[s.offset + j]
        <5>2. b \in Byte
          BY <2>2, <5>1
        <5> HIDE DEF b
        <5>3. b \in Nat /\ b < ByteValues /\ ByteValues \in Nat
          BY <5>2, ByteAssumption DEF Byte
        <5>4. b % ByteValues = b
          BY <5>3, SmallModulo
        <5> QED
          BY <5>4 DEF b
      <4>7. K(a) # {}
        BY <4>2
      <4> HIDE DEF K, j
      <4> QED
        BY <3>1, <4>3, <4>4, <4>5, <4>6, <4>7, Zenon DEF ByteIn
    <3>2. CASE a \notin Segment(s)
      <4>1. ASSUME NEW k \in 0..(n - 1), (s.paddr + k) % W = a PROVE FALSE
        <5>1. s.paddr + k = a /\ k \in Nat /\ k < n
          BY <2>4, <2>6, <4>1
        <5>2. s.paddr <= a /\ a < s.paddr + n
          BY <1>4, <2>4, <5>1
        <5> QED
          BY <2>5, <3>2, <5>2
      <4>2. K(a) = {}
        BY <4>1
      <4> QED
        BY <3>2, <4>2, Zenon
    <3> QED
      BY <3>1, <3>2
  <2>9. loadBlock(m, e.class, e.bytes, s.offset, s.paddr, s.filesz, s.memsz) = PutSegment(m, e, s)
    BY <2>8, Zenon DEF loadBlock, PutSegment, n, W
  <2> QED
    BY <1>3, <1>5, <1>6, <2>9, Zenon DEF s
<1>7. CASE s.type # PT_LOAD
  BY <1>3, <1>5, <1>7, Zenon
<1> QED
  BY <1>6, <1>7
-----------------------------------------------------------------------------
(* Symbols, of a file in the order of the host. *)
LEMMA WrittenHere ==
    ASSUME NEW e, IsElfFile(e), e.le = TRUE
    PROVE  /\ \A x \in Unsigned(HalfBytes) : Written(e.le, HalfBytes, x) = x
           /\ \A x \in Unsigned(WordBytes) : Written(e.le, WordBytes, x) = x
           /\ \A x \in Unsigned(Wide(e.class)) : Written(e.le, Wide(e.class), x) = x
           /\ \A n, x : rd(e.le, n, x) = x
           /\ little(Encode(e)) = e.le
<1>1. \A n \in Nat : \A x \in Unsigned(n) : Written(TRUE, n, x) = x
  BY Reading
<1>2. HalfBytes \in Nat /\ WordBytes \in Nat /\ Wide(e.class) \in Nat
  BY Widths
<1>3. \A n, x : rd(e.le, n, x) = x
  BY DEF rd
<1>4. little(Encode(e)) = e.le
  BY FileHeader, Zenon
<1> QED
  BY <1>1, <1>2, <1>3, <1>4

LEMMA FileSections ==
    ASSUME NEW e, IsElfFile(e), e.le = TRUE
    PROVE  LET f == Encode(e)
               n == Len(e.sections)
           IN  /\ f.e_shoff = e.shoff /\ f.e_shnum = n /\ f.e_shtrndx = e.shtrndx
               /\ e.shoff \in DOMAIN f.shdrs
               /\ DOMAIN f.shdrs[e.shoff] = 0..(n - 1)
               /\ \A i \in 0..(n - 1) :
                    /\ f.shdrs[e.shoff][i].sh_type = e.sections[i + 1].type
                    /\ f.shdrs[e.shoff][i].sh_offset = e.sections[i + 1].offset
                    /\ f.shdrs[e.shoff][i].sh_size = e.sections[i + 1].size
<1> DEFINE f == Encode(e)
           n == Len(e.sections)
           shdr(s) == [sh_type |-> Written(e.le, WordBytes, s.type),
                       sh_offset |-> Written(e.le, Wide(e.class), s.offset),
                       sh_size |-> Written(e.le, Wide(e.class), s.size)]
           table == [i \in 0..(n - 1) |-> shdr(e.sections[i + 1])]
<1>1. /\ f.e_shoff = Written(e.le, Wide(e.class), e.shoff)
      /\ f.e_shnum = Written(e.le, HalfBytes, n)
      /\ f.e_shtrndx = Written(e.le, HalfBytes, e.shtrndx)
      /\ f.shdrs = [off \in {e.shoff} |-> table]
  BY DEF Encode
<1>2. /\ e.shoff \in Unsigned(Wide(e.class))
      /\ n \in Unsigned(HalfBytes) /\ e.shtrndx \in Unsigned(HalfBytes)
      /\ e.sections \in Seq(Sections(e.class))
  BY DEF IsElfFile
<1>3. e.shoff \in DOMAIN f.shdrs /\ f.shdrs[e.shoff] = table
  BY <1>1
<1>4. \A i \in 0..(n - 1) : e.sections[i + 1] \in Sections(e.class)
  BY <1>2
<1>5. ASSUME NEW i \in 0..(n - 1)
      PROVE  /\ table[i].sh_type = e.sections[i + 1].type
             /\ table[i].sh_offset = e.sections[i + 1].offset
             /\ table[i].sh_size = e.sections[i + 1].size
  <2> DEFINE s == e.sections[i + 1]
  <2>1. s.type \in Unsigned(WordBytes) /\ s.offset \in Unsigned(Wide(e.class))
        /\ s.size \in Unsigned(Wide(e.class))
    BY <1>4 DEF Sections
  <2>2. table[i] = shdr(s)
    OBVIOUS
  <2>3. /\ Written(e.le, WordBytes, s.type) = s.type
        /\ Written(e.le, Wide(e.class), s.offset) = s.offset
        /\ Written(e.le, Wide(e.class), s.size) = s.size
    BY <2>1, WrittenHere, Zenon
  <2>4. s = e.sections[i + 1]
    OBVIOUS
  <2> HIDE DEF table, s
  <2>5. /\ table[i].sh_type = s.type /\ table[i].sh_offset = s.offset /\ table[i].sh_size = s.size
    BY <2>2, <2>3
  <2> QED
    BY <2>4, <2>5, Zenon
<1>6. DOMAIN table = 0..(n - 1)
  OBVIOUS
<1>7. f.e_shoff = e.shoff /\ f.e_shnum = n /\ f.e_shtrndx = e.shtrndx
  BY <1>1, <1>2, WrittenHere, Zenon
<1> HIDE DEF f, n, table
<1> QED
  BY <1>3, <1>5, <1>6, <1>7, Zenon DEF f, n

LEMMA FileSymbols ==
    ASSUME NEW e, IsElfFile(e), e.le = TRUE, NEW off \in DOMAIN e.symbols,
           NEW i \in DOMAIN e.symbols[off]
    PROVE  /\ Encode(e).symbols[off][i].st_name = e.symbols[off][i].name
           /\ Encode(e).symbols[off][i].st_value = e.symbols[off][i].value
<1> DEFINE s == e.symbols[off][i]
           sym(t) == [st_name |-> Written(e.le, WordBytes, t.name),
                      st_value |-> Written(e.le, Wide(e.class), t.value)]
<1>0. Encode(e).symbols = [o \in DOMAIN e.symbols |->
                             [j \in DOMAIN e.symbols[o] |-> sym(e.symbols[o][j])]]
  BY DEF Encode
<1>1. Encode(e).symbols[off][i] = sym(s)
  <2> HIDE DEF sym
  <2>1. Encode(e).symbols[off] = [j \in DOMAIN e.symbols[off] |-> sym(e.symbols[off][j])]
    BY <1>0
  <2> QED
    BY <2>1
<1>2. s \in Symbols(e.class)
  <2>1. e.symbols[off] \in Seq(Symbols(e.class))
    BY DEF IsElfFile
  <2> QED
    BY <2>1
<1>3. s.name \in Unsigned(WordBytes) /\ s.value \in Unsigned(Wide(e.class))
  BY <1>2 DEF Symbols
<1>4. Written(e.le, WordBytes, s.name) = s.name /\ Written(e.le, Wide(e.class), s.value) = s.value
  BY <1>3, WrittenHere, Zenon
<1>5. s = e.symbols[off][i]
  OBVIOUS
<1> HIDE DEF s
<1>6. Encode(e).symbols[off][i].st_name = s.name /\ Encode(e).symbols[off][i].st_value = s.value
  BY <1>1, <1>4
<1> QED
  BY <1>5, <1>6, Zenon

(* The tables of a simple file, by their numbers in the file. *)
LEMMA SimpleTables ==
    ASSUME NEW e, IsElfFile(e), e.le = TRUE, Simple(e)
    PROVE  LET f     == Encode(e)
               shdrs == f.shdrs[e.shoff]
           IN  \E t, u \in 1..(Len(e.sections) - 1) :
                 /\ StrTabs(f, shdrs) = {t} /\ StrTab(e) = e.sections[t + 1]
                 /\ SymTabs(f, shdrs) = {u} /\ SymTab(e) = e.sections[u + 1]
<1> DEFINE f     == Encode(e)
           shdrs == f.shdrs[e.shoff]
           n     == Len(e.sections)
           T     == OfType(e, SHT_STRTAB)
           U     == OfType(e, SHT_SYMTAB)
           x     == e.shtrndx + 1
<1>1. /\ n \in Nat /\ DOMAIN e.sections = 1..n /\ e.shtrndx \in Nat
      /\ n > 0 => e.sections[1].type \notin {SHT_SYMTAB, SHT_STRTAB}
  <2>1. e.shtrndx \in Nat
    BY Widths DEF IsElfFile
  <2>2. e.sections \in Seq(Sections(e.class))
        /\ (e.sections # <<>> => e.sections[1].type \notin {SHT_SYMTAB, SHT_STRTAB})
    BY DEF IsElfFile
  <2> QED
    BY <2>1, <2>2
<1>2. /\ T \subseteq 1..n /\ U \subseteq 1..n /\ 1 \notin T /\ 1 \notin U
      /\ IsFiniteSet(T) /\ IsFiniteSet(U)
  <2>1. T \subseteq 1..n /\ U \subseteq 1..n /\ 1 \notin T /\ 1 \notin U
    BY <1>1 DEF OfType
  <2>2. IsFiniteSet(1..n)
    BY <1>1, FS_Interval
  <2> HIDE DEF T, U, n
  <2> QED
    BY <2>1, <2>2, FS_Subset
<1>3. Cardinality(U) = 1 /\ Cardinality(T) = 2 /\ x \in T
  BY DEF Simple
<1>4. PICK u : U = {u}
  <2> HIDE DEF U
  <2> QED
    BY <1>2, <1>3, FS_Singleton
<1>5. PICK t : T \ {x} = {t}
  <2> HIDE DEF T, x
  <2>1. IsFiniteSet(T \ {x}) /\ Cardinality(T \ {x}) = 1
    <3>1. IsFiniteSet(T \ {x}) /\ Cardinality(T \ {x}) = Cardinality(T) - 1
      BY <1>2, <1>3, FS_RemoveElement
    <3> QED
      BY <1>3, <3>1
  <2> QED
    BY <2>1, FS_Singleton
<1>6. (CHOOSE i \in U : TRUE) = u
  <2> HIDE DEF U
  <2> QED
    BY <1>4
<1>7. (CHOOSE i \in T : i # x) = t
  <2> HIDE DEF T, x
  <2> DEFINE c == CHOOSE i \in T : i # x
  <2>1. t \in T /\ t # x
    BY <1>5
  <2>2. c \in T /\ c # x
    BY <2>1
  <2> HIDE DEF c
  <2>3. c = t
    BY <1>5, <2>2
  <2> QED
    BY <2>3 DEF c
<1>8. SymTab(e) = e.sections[u] /\ StrTab(e) = e.sections[t]
  BY <1>6, <1>7, Zenon DEF SymTab, StrTab
<1>9. t \in 2..n /\ u \in 2..n
  <2> HIDE DEF T, U, x, n
  <2>1. t \in T /\ u \in U
    BY <1>4, <1>5
  <2> QED
    BY <1>1, <1>2, <2>1
<1>10. /\ DOMAIN shdrs = 0..(n - 1)
       /\ \A i \in 0..(n - 1) : shdrs[i].sh_type = e.sections[i + 1].type
       /\ rdHalf(little(f), f.e_shtrndx) = e.shtrndx
       /\ \A w : rdWord(little(f), w) = w
  <2>1. \A m, w : rd(little(f), m, w) = w
    BY WrittenHere
  <2>2. \A w : rdHalf(little(f), w) = w /\ rdWord(little(f), w) = w
    BY <2>1 DEF rdHalf, rdWord
  <2>3. /\ DOMAIN shdrs = 0..(n - 1) /\ f.e_shtrndx = e.shtrndx
        /\ \A i \in 0..(n - 1) : shdrs[i].sh_type = e.sections[i + 1].type
    BY FileSections, Zenon
  <2> HIDE DEF f, shdrs, n
  <2> QED
    BY <2>2, <2>3
<1> HIDE DEF f, shdrs
<1>11. SymTabs(f, shdrs) = {u - 1}
  <2>1. \A i \in 0..(n - 1) : e.sections[i + 1].type = SHT_SYMTAB <=> i + 1 \in U
    BY <1>1 DEF OfType
  <2> HIDE DEF U, n
  <2>2. \A i \in 0..(n - 1) : i + 1 \in U <=> i = u - 1
    BY <1>1, <1>4, <1>9
  <2>3. u - 1 \in 0..(n - 1)
    BY <1>1, <1>9
  <2> QED
    BY <1>10, <2>1, <2>2, <2>3 DEF SymTabs
<1>12. StrTabs(f, shdrs) = {t - 1}
  <2>1. \A i \in 0..(n - 1) : e.sections[i + 1].type = SHT_STRTAB <=> i + 1 \in T
    BY <1>1 DEF OfType
  <2>2. \A i \in 0..(n - 1) : i # e.shtrndx <=> i + 1 # x
    BY <1>1
  <2> HIDE DEF T, n, x
  <2>3. \A i \in 0..(n - 1) : i + 1 \in T /\ i + 1 # x <=> i = t - 1
    <3>1. \A i \in 0..(n - 1) : i + 1 \in T \ {x} <=> i + 1 = t
      BY <1>5
    <3> QED
      BY <1>1, <1>9, <3>1
  <2>4. t - 1 \in 0..(n - 1)
    BY <1>1, <1>9
  <2> QED
    BY <1>10, <2>1, <2>2, <2>3, <2>4 DEF StrTabs
<1>13. t - 1 \in 1..(n - 1) /\ u - 1 \in 1..(n - 1) /\ (t - 1) + 1 = t /\ (u - 1) + 1 = u
  BY <1>1, <1>9
<1> HIDE DEF n
<1> QED
  BY <1>8, <1>11, <1>12, <1>13, Zenon DEF f, shdrs, n

LEMMA ModuloBound ==
    ASSUME NEW x \in Nat, NEW w \in Nat \ {0}
    PROVE  x % w \in Nat /\ x % w <= x
<1>1. x % w \in 0..(w - 1)
  OBVIOUS
<1>2. CASE x < w
  BY <1>2, SmallModulo
<1>3. CASE ~ (x < w)
  BY <1>1, <1>3
<1> QED
  BY <1>1, <1>2, <1>3

(* The symbols of a simple file, read one after the other. *)
LEMMA SimpleSymbols ==
    ASSUME NEW e, IsElfFile(e), e.le = TRUE, Simple(e), NEW symname
    PROVE  LookupIn(Encode(e), Encode(e).shdrs[e.shoff], symname) = SymbolTold(e, symname)
<1> DEFINE f        == Encode(e)
           shdrs    == f.shdrs[e.shoff]
           wide(x)  == rdWide(f.class, little(f), x)
           strtab   == shdrs[Max(StrTabs(f, shdrs))]
           symtab   == shdrs[Max(SymTabs(f, shdrs))]
           names    == f.strings[wide(strtab.sh_offset)]
           syms     == f.symbols[wide(symtab.sh_offset)]
           count    == wide(symtab.sh_size) \div SymSize[f.class]
           size     == wide(strtab.sh_size)
           sidx(i)  == rdWord(little(f), syms[i].st_name)
           Bad      == {i \in 1..count : sidx(i) >= size \/ sidx(i) \notin DOMAIN names}
           Match    == {i \in 1..count : i \notin Bad /\ names[sidx(i)] = symname}
           off      == SymTab(e).offset
           told     == e.symbols[off]
           Named    == {i \in DOMAIN told : names[told[i].name] = symname}
<1>1. LookupIn(f, shdrs, symname)
        = IF StrTabs(f, shdrs) \subseteq {0} \/ SymTabs(f, shdrs) \subseteq {0} THEN NotFound
          ELSE IF Bad \cup Match = {} THEN NotFound
          ELSE IF Min(Bad \cup Match) \in Bad THEN Exits
          ELSE Symbol(wide(syms[Min(Match)].st_value))
  BY Zenon DEF LookupIn
<1>2. \A x : wide(x) = x /\ rdWord(little(f), x) = x
  <2>1. \A n, x : rd(little(f), n, x) = x
    BY WrittenHere
  <2> QED
    BY <2>1 DEF rdWide, rdWord
<1>3. PICK t, u \in 1..(Len(e.sections) - 1) :
        /\ StrTabs(f, shdrs) = {t} /\ StrTab(e) = e.sections[t + 1]
        /\ SymTabs(f, shdrs) = {u} /\ SymTab(e) = e.sections[u + 1]
  BY SimpleTables, Zenon
<1>4. t \in Nat /\ u \in Nat /\ t # 0 /\ u # 0
      /\ t \in 0..(Len(e.sections) - 1) /\ u \in 0..(Len(e.sections) - 1)
  OBVIOUS
<1>5. Max({t}) = t /\ Max({u}) = u
  BY <1>4, MaxTwo
<1>6. /\ shdrs[t].sh_offset = StrTab(e).offset /\ shdrs[t].sh_size = StrTab(e).size
      /\ shdrs[u].sh_offset = SymTab(e).offset /\ shdrs[u].sh_size = SymTab(e).size
  <2>1. \A i \in 0..(Len(e.sections) - 1) : /\ shdrs[i].sh_offset = e.sections[i + 1].offset
                                           /\ shdrs[i].sh_size = e.sections[i + 1].size
    BY FileSections, Zenon
  <2> HIDE DEF shdrs
  <2> QED
    BY <1>3, <1>4, <2>1
<1>7. f.strings = e.strings /\ f.class = e.class
  BY DEF Encode
<1> HIDE DEF f, shdrs
<1>8. strtab = shdrs[t] /\ symtab = shdrs[u]
  BY <1>3, <1>5
<1>9. /\ names = e.strings[StrTab(e).offset] /\ size = StrTab(e).size
      /\ syms = f.symbols[off]
      /\ count = SymTab(e).size \div SymSize[e.class]
  BY <1>2, <1>6, <1>7, <1>8
<1>10. /\ off \in DOMAIN e.symbols
       /\ SymTab(e).size = Len(told) * SymSize[e.class]
       /\ \A i \in DOMAIN told :
            told[i].name < StrTab(e).size /\ told[i].name \in DOMAIN e.strings[StrTab(e).offset]
  BY DEF Simple
<1>11. told \in Seq(Symbols(e.class)) /\ Len(told) \in Nat /\ DOMAIN told = 1..Len(told)
  <2>1. told \in Seq(Symbols(e.class))
    BY <1>10 DEF IsElfFile
  <2> QED
    BY <2>1
<1>12. \A i \in DOMAIN told : syms[i].st_name = told[i].name /\ syms[i].st_value = told[i].value
  <2> TAKE i \in DOMAIN told
  <2> HIDE DEF syms, off
  <2>1. i \in DOMAIN e.symbols[off]
    OBVIOUS
  <2>2. /\ f.symbols[off][i].st_name = e.symbols[off][i].name
        /\ f.symbols[off][i].st_value = e.symbols[off][i].value
    BY <1>10, <2>1, FileSymbols, Zenon DEF f
  <2> QED
    BY <1>9, <2>2
<1>13. count = Len(told)
  <2> DEFINE z == SymSize[e.class]
             n == Len(told)
             s == SymTab(e).size
  <2>1. z \in Nat \ {0}
    <3>1. SymSize \in [{32, 64} -> Nat \ {0}] /\ e.class \in {32, 64}
      BY ElfAssumption DEF IsElfFile
    <3> QED
      BY <3>1
  <2>2. s = n * z /\ n \in Nat
    BY <1>10, <1>11
  <2> HIDE DEF z, n, s
  <2>3. s \in Nat /\ s = z * n + 0 /\ 0 \in 0..(z - 1)
    BY <2>1, <2>2
  <2>4. s \div z = n
    BY <2>1, <2>2, <2>3, DivisionUnique
  <2> QED
    BY <1>9, <2>4, Zenon DEF z, n, s
<1>14. \A i \in DOMAIN told : sidx(i) = told[i].name /\ told[i].name \in Nat
                              /\ size \in Nat /\ told[i].name < size
  <2>1. \A i \in DOMAIN told : told[i] \in Symbols(e.class)
    BY <1>11
  <2>2. \A i \in DOMAIN told : told[i].name \in Unsigned(WordBytes)
    BY <2>1 DEF Symbols
  <2>3. size \in Nat
    <3>1. StrTab(e) \in Sections(e.class)
      <4>1. e.sections \in Seq(Sections(e.class)) /\ t + 1 \in 1..Len(e.sections)
        BY <1>3 DEF IsElfFile
      <4> QED
        BY <1>3, <4>1
    <3>2. StrTab(e).size \in Unsigned(Wide(e.class))
      BY <3>1 DEF Sections
    <3>3. Unsigned(Wide(e.class)) \subseteq Nat
      BY Widths
    <3> QED
      BY <1>9, <3>2, <3>3
  <2>4. Unsigned(WordBytes) \subseteq Nat
    BY Widths
  <2>5. \A i \in DOMAIN told : sidx(i) = told[i].name
    BY <1>2, <1>12
  <2> HIDE DEF sidx, size, told
  <2> QED
    BY <1>9, <1>10, <2>2, <2>3, <2>4, <2>5
<1> HIDE DEF sidx, size, told, names, count, syms
<1>15. Bad = {}
  BY <1>9, <1>10, <1>11, <1>13, <1>14
<1>16. Match = Named
  BY <1>11, <1>13, <1>14, <1>15
<1>17. SymbolTold(e, symname)
         = IF Named = {} THEN NotFound ELSE Symbol(told[Min(Named)].value)
  BY <1>9, Zenon DEF SymbolTold, told
<1> HIDE DEF wide, Bad, Match, Named
<1>18. LookupIn(f, shdrs, symname)
         = IF Named = {} THEN NotFound ELSE Symbol(syms[Min(Named)].st_value)
  <2>1. ~ (StrTabs(f, shdrs) \subseteq {0}) /\ ~ (SymTabs(f, shdrs) \subseteq {0})
    BY <1>3, <1>4
  <2>2. Bad \cup Match = Named
    BY <1>15, <1>16
  <2> QED
    BY <1>1, <1>2, <1>15, <1>16, <2>1, <2>2
<1>19. ASSUME Named # {} PROVE syms[Min(Named)].st_value = told[Min(Named)].value
  <2>1. Named \subseteq DOMAIN told /\ Named \subseteq Nat
    BY <1>11 DEF Named
  <2>2. PICK i \in Named : \A j \in Named : i <= j
    BY <1>19, <2>1, SmallestNumber
  <2>3. Min(Named) = i
    BY <2>1, <2>2, MinIs
  <2> QED
    BY <1>12, <2>1, <2>3
<1>20. LookupIn(f, shdrs, symname) = SymbolTold(e, symname)
  BY <1>17, <1>18, <1>19
<1> QED
  BY <1>20 DEF f, shdrs

(* lookup_sym of a simple file: no check fails, and the first symbol of    *)
(* the name is found.                                                      *)
LEMMA SimpleLookup ==
    ASSUME NEW e, IsElfFile(e), e.le = TRUE, Simple(e), NEW symname
    PROVE  lookupSymbol(Encode(e), symname) = {SymbolTold(e, symname)}
<1> DEFINE f     == Encode(e)
           n     == Len(e.sections)
           x     == e.shtrndx
           names == f.shdrs[e.shoff][x]
           z     == ShdrSize[e.class]
<1>1. checkELFHdr(f)
  BY HeaderChecked, ExecutableParts DEF Simple
<1>2. /\ f.e_shoff = e.shoff /\ f.e_shnum = n /\ f.e_shtrndx = x /\ e.shoff \in DOMAIN f.shdrs
      /\ \A i \in 0..(n - 1) : /\ f.shdrs[e.shoff][i].sh_offset = e.sections[i + 1].offset
                              /\ f.shdrs[e.shoff][i].sh_size = e.sections[i + 1].size
  BY FileSections, Zenon
<1>3. little(f) /\ f.size = e.size /\ f.class = e.class
  BY FileHeader, Zenon
<1>4. /\ \A w : rdHalf(little(f), w) = w
      /\ \A class, w : rdWide(class, little(f), w) = w
  <2>1. \A m, w : rd(little(f), m, w) = w
    BY WrittenHere
  <2> QED
    BY <2>1 DEF rdHalf, rdWide
<1>5. /\ e.size \in Nat /\ e.shoff \in Nat /\ n \in Nat /\ x \in Nat /\ z \in Nat
      /\ WideSpace(e.class) \in Nat \ {0} /\ AddressSpace \in Nat \ {0}
  <2>1. ShdrSize \in [{32, 64} -> Nat \ {0}] /\ e.class \in {32, 64}
    BY ElfAssumption DEF IsElfFile
  <2>2. /\ {x, n} \subseteq Unsigned(HalfBytes)
        /\ {e.size, e.shoff} \subseteq Unsigned(Wide(e.class))
    BY DEF IsElfFile
  <2>3. z \in Nat
    BY <2>1
  <2> HIDE DEF x, n, z
  <2>4. x \in Nat /\ n \in Nat /\ e.size \in Nat /\ e.shoff \in Nat
    BY <2>2, Widths
  <2>5. WideSpace(e.class) \in Nat \ {0} /\ AddressSpace \in Nat \ {0}
    BY Widths DEF IsElfFile
  <2> QED
    BY <2>3, <2>4, <2>5
<1>6. x < n /\ x + 1 \in 1..n
  <2>1. x + 1 \in DOMAIN e.sections
    BY DEF Simple, OfType
  <2>2. DOMAIN e.sections = 1..n
    BY DEF IsElfFile
  <2> HIDE DEF x, n
  <2> QED
    BY <1>5, <2>1, <2>2
<1>7. ~ (e.size < (e.shoff + n * z) % AddressSpace)
  <2> DEFINE s == e.shoff + n * z
  <2>1. s <= e.size
    BY DEF Simple
  <2>2. s \in Nat
    <3> HIDE DEF n, z
    <3>1. n * z \in Nat
      BY <1>5
    <3> QED
      BY <1>5, <3>1
  <2> HIDE DEF s
  <2>3. s % AddressSpace \in Nat /\ s % AddressSpace <= s
    BY <1>5, <2>2, ModuloBound
  <2> QED
    BY <1>5, <2>1, <2>2, <2>3 DEF s
<1>8. ~ (e.size < (names.sh_offset + names.sh_size) % WideSpace(e.class))
  <2> DEFINE t == e.sections[x + 1]
             s == t.offset + t.size
             w == WideSpace(e.class)
  <2>1. names.sh_offset = t.offset /\ names.sh_size = t.size
    <3>1. x \in 0..(n - 1)
      BY <1>5, <1>6
    <3> QED
      BY <1>2, <3>1, Zenon
  <2>2. t.offset \in Nat /\ t.size \in Nat
    <3>1. t \in Sections(e.class)
      BY <1>6 DEF IsElfFile
    <3>2. Unsigned(Wide(e.class)) \subseteq Nat
      BY Widths
    <3> QED
      BY <3>1, <3>2 DEF Sections
  <2>3. s <= e.size
    BY DEF Simple
  <2>4. s \in Nat /\ w \in Nat \ {0}
    <3> HIDE DEF t, w
    <3> QED
      BY <1>5, <2>2 DEF w
  <2>5. (names.sh_offset + names.sh_size) % WideSpace(e.class) = s % w
    BY <2>1
  <2> HIDE DEF s, w
  <2>6. s % w \in Nat /\ s % w <= s
    BY <2>4, ModuloBound
  <2> QED
    BY <1>5, <2>3, <2>4, <2>5, <2>6
<1>9. LookupIn(f, f.shdrs[e.shoff], symname) = SymbolTold(e, symname)
  BY SimpleSymbols, Zenon
<1> HIDE DEF f, n, x, z
<1>10. lookupSymbol(f, symname)
         = IF \/ ~ checkELFHdr(f)
              \/ e.size < (e.shoff + n * z) % AddressSpace
              \/ x >= n
           THEN {Exits}
           ELSE IF e.shoff \notin DOMAIN f.shdrs
           THEN {Exits, NotFound} \cup {Symbol(v) : v \in {0, 1}}
           ELSE IF e.size < (names.sh_offset + names.sh_size) % WideSpace(e.class)
           THEN {Exits}
           ELSE {LookupIn(f, f.shdrs[e.shoff], symname)}
  <2> DEFINE le       == little(f)
             wide(w)  == rdWide(f.class, le, w)
             shnum    == rdHalf(le, f.e_shnum)
             shtrndx  == rdHalf(le, f.e_shtrndx)
             shstrtab == f.shdrs[f.e_shoff][shtrndx]
             strsize  == IF le THEN shstrtab.sh_size
                         ELSE rdWord(le, shstrtab.sh_size % WordSpace)
             table    == (wide(f.e_shoff) + shnum * ShdrSize[f.class]) % AddressSpace
             end      == (wide(shstrtab.sh_offset) + strsize) % WideSpace(f.class)
  <2>1. lookupSymbol(f, symname)
          = IF \/ ~ checkELFHdr(f)
               \/ f.size < table
               \/ shtrndx >= shnum
            THEN {Exits}
            ELSE IF f.e_shoff \notin DOMAIN f.shdrs
            THEN {Exits, NotFound} \cup {Symbol(v) : v \in {0, 1}}
            ELSE IF f.size < end
            THEN {Exits}
            ELSE {LookupIn(f, f.shdrs[f.e_shoff], symname)}
    BY Zenon DEF lookupSymbol
  <2>2. shnum = n /\ shtrndx = x /\ shstrtab = names /\ \A w : wide(w) = w
    BY <1>2, <1>4
  <2>3. strsize = names.sh_size
    BY <1>3, <2>2
  <2> HIDE DEF le, wide, shnum, shtrndx, shstrtab, strsize, names
  <2>4. table = (e.shoff + n * z) % AddressSpace
    BY <1>2, <1>3, <2>2, Zenon DEF z
  <2>5. end = (names.sh_offset + names.sh_size) % WideSpace(e.class)
    BY <1>3, <2>2, <2>3, Zenon
  <2>6. ASSUME NEW p, NEW q, p = table, q = end
        PROVE  lookupSymbol(f, symname)
                 = IF ~ checkELFHdr(f) \/ e.size < p \/ x >= n THEN {Exits}
                   ELSE IF e.shoff \notin DOMAIN f.shdrs
                   THEN {Exits, NotFound} \cup {Symbol(v) : v \in {0, 1}}
                   ELSE IF e.size < q THEN {Exits}
                   ELSE {LookupIn(f, f.shdrs[e.shoff], symname)}
    <3> HIDE DEF table, end
    <3> QED
      BY <1>2, <1>3, <2>1, <2>2, <2>6
  <2> QED
    BY <2>4, <2>5, <2>6, Zenon
<1>11. ~ (x >= n)
  BY <1>5, <1>6
<1>12. lookupSymbol(f, symname) = {SymbolTold(e, symname)}
  <2> HIDE DEF names
  <2> QED
    BY <1>1, <1>2, <1>7, <1>8, <1>9, <1>10, <1>11
<1> QED
  BY <1>12 DEF f
=============================================================================
