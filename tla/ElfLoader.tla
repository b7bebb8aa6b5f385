----------------------------- MODULE ElfLoader ------------------------------
(***************************************************************************)
(* The ELF loader of the C runtime (src/lib/elf.c): what load_elf writes   *)
(* to memory, one program header after the other, and what lookup_sym      *)
(* finds.  The host is little endian and reads the words of a file in its  *)
(* own order, so a file is a record whose fields have the values the host  *)
(* reads, and the tables of the file are functions from their offsets.     *)
(* The code has each function twice, for the two classes of files; here    *)
(* the class is a parameter, 32 or 64, that selects the widths.            *)
(***************************************************************************)
EXTENDS Bytes, Sequences, FiniteSetsExt      \* ByteValues is 256

CONSTANTS
    HalfBytes, WordBytes, XwordBytes,         \* 2, 4 and 8
    EhdrSize, PhdrSize, ShdrSize, SymSize,    \* sizeof, by class
    ET_EXEC, EM_ARM, EM_AARCH64, EM_RISCV, PT_LOAD, SHT_SYMTAB, SHT_STRTAB

ASSUME ElfAssumption ==
    /\ {HalfBytes, WordBytes, XwordBytes} \subseteq Nat
    /\ {EhdrSize, PhdrSize, ShdrSize, SymSize} \subseteq [{32, 64} -> Nat \ {0}]
    /\ EhdrSize[32] <= EhdrSize[64]
    /\ SHT_SYMTAB # SHT_STRTAB

-----------------------------------------------------------------------------
(* Words. *)
rev(bytes, x) == WordOf(bytes, [k \in 0..(bytes - 1) |-> ByteOf(x, bytes - 1 - k)])

(* Mutant: words are never reversed. *)
MutRd(le, bytes, x) == x

rd(le, bytes, x) == IF le THEN x ELSE rev(bytes, x)

(* An address, an offset or a size has the width of the class. *)
Wide(class)          == IF class = 32 THEN WordBytes ELSE XwordBytes
rdHalf(le, x)        == rd(le, HalfBytes, x)
rdWord(le, x)        == rd(le, WordBytes, x)
rdWide(class, le, x) == rd(le, Wide(class), x)

WordSpace       == Power[WordBytes]
WideSpace(class) == Power[Wide(class)]
AddressSpace    == WideSpace(64)
Address         == 0..(AddressSpace - 1)

-----------------------------------------------------------------------------
(* Loading. *)

(* EI_DATA is compared with the little endian value only. *)
ELFDATA2LSB == 1
little(file) == file.data = ELFDATA2LSB

checkELFHdr(file) ==
    LET half(x) == rdHalf(little(file), x)
    IN  /\ file.size >= EhdrSize[32]
        /\ file.magic
        /\ \/ /\ file.class = 32
              /\ half(file.e_machine) \in {EM_ARM, EM_RISCV}
           \/ /\ file.class = 64
              /\ file.size >= EhdrSize[64]
              /\ half(file.e_machine) \in {EM_AARCH64, EM_RISCV}
        /\ half(file.e_type) = ET_EXEC

ProgHdrs(file) == rdHalf(little(file), file.e_phnum)
ProgHdrOffset(file, i) ==
    LET le == little(file)
    IN  (rdWide(file.class, le, file.e_phoff) + i * rdHalf(le, file.e_phentsize))
            % WideSpace(file.class)

(* Mutant: a segment is not filled up with zeros. *)
MutLoadBlock(m, class, buffer, off, addr, filesz, memsz) ==
    [a \in Address |->
       LET is == {i \in 0..(filesz - 1) : (addr + i) % WideSpace(class) = a}
       IN  IF is = {} THEN m[a] ELSE buffer[off + Max(is)] % ByteValues]

(* Two loops over i, the bytes of the file and then zeros; the sums wrap   *)
(* around in the words of the class.                                       *)
loadBlock(m, class, buffer, off, addr, filesz, memsz) ==
    [a \in Address |->
       LET is == {i \in 0..(Max({filesz, memsz}) - 1) : (addr + i) % WideSpace(class) = a}
       IN  IF is = {} THEN m[a]
           ELSE IF Max(is) < filesz THEN buffer[off + Max(is)] % ByteValues ELSE 0]

(* The program header at off: whether it is within the file, and memory    *)
(* with its segment.  Sizes are cut to a word in both classes.  (What a    *)
(* segment that starts behind the end of the file loads is undefined; no   *)
(* file here has one.)                                                     *)
ProgHdrFits(file, off) ==
    LET le   == little(file)
        phdr == file.phdrs[off]
    IN  /\ off <= file.size - PhdrSize[file.class]
        /\ rdWord(le, phdr.p_type) = PT_LOAD =>
               rdWide(file.class, le, phdr.p_filesz) % WordSpace
                 <= (file.size - rdWide(file.class, le, phdr.p_offset)) % WideSpace(file.class)

loadProgHdr(m, file, off) ==
    LET le      == little(file)
        phdr    == file.phdrs[off]
        wide(x) == rdWide(file.class, le, x)
    IN  IF rdWord(le, phdr.p_type) = PT_LOAD
        THEN loadBlock(m, file.class, file.buffer, wide(phdr.p_offset), wide(phdr.p_paddr),
                       wide(phdr.p_filesz) % WordSpace, wide(phdr.p_memsz) % WordSpace)
        ELSE m

-----------------------------------------------------------------------------
(* Symbols. *)
Exits    == [ret |-> "exit", value |-> 0]
NotFound == [ret |-> "-1", value |-> 0]
Symbol(v) == [ret |-> "0", value |-> v]

(* Mutant: the string table of the section names is not skipped. *)
MutStrTabs(file, shdrs) ==
    {i \in DOMAIN shdrs : rdWord(little(file), shdrs[i].sh_type) = SHT_STRTAB}

StrTabs(file, shdrs) ==
    {i \in DOMAIN shdrs : /\ rdWord(little(file), shdrs[i].sh_type) = SHT_STRTAB
                          /\ i # rdHalf(little(file), file.e_shtrndx)}
SymTabs(file, shdrs) ==
    {i \in DOMAIN shdrs : rdWord(little(file), shdrs[i].sh_type) = SHT_SYMTAB}

(* The last table of each type, section 0 excepted; the symbols in order,  *)
(* up to the first of that name.                                           *)
LookupIn(file, shdrs, symname) ==
    LET le      == little(file)
        wide(x) == rdWide(file.class, le, x)
        strtab  == shdrs[Max(StrTabs(file, shdrs))]
        symtab  == shdrs[Max(SymTabs(file, shdrs))]
        names   == file.strings[wide(strtab.sh_offset)]
        syms    == file.symbols[wide(symtab.sh_offset)]
        sidx(i) == rdWord(le, syms[i].st_name)
        Bad     == {i \in 1..(wide(symtab.sh_size) \div SymSize[file.class]) :
                      sidx(i) >= wide(strtab.sh_size) \/ sidx(i) \notin DOMAIN names}
        Match   == {i \in 1..(wide(symtab.sh_size) \div SymSize[file.class]) :
                      i \notin Bad /\ names[sidx(i)] = symname}
    IN  IF StrTabs(file, shdrs) \subseteq {0} \/ SymTabs(file, shdrs) \subseteq {0}
        THEN NotFound
        ELSE IF Bad \cup Match = {} THEN NotFound
        ELSE IF Min(Bad \cup Match) \in Bad THEN Exits
        ELSE Symbol(wide(syms[Min(Match)].st_value))

(* e_shoff is not reversed where the table of the sections is read: what   *)
(* is there of a big endian file decides.                                  *)
lookupSymbol(file, symname) ==
    LET le       == little(file)
        wide(x)  == rdWide(file.class, le, x)
        shnum    == rdHalf(le, file.e_shnum)
        shtrndx  == rdHalf(le, file.e_shtrndx)
        shstrtab == file.shdrs[file.e_shoff][shtrndx]
        strsize  == IF le THEN shstrtab.sh_size ELSE rdWord(le, shstrtab.sh_size % WordSpace)
    IN  IF \/ ~ checkELFHdr(file)
           \/ file.size < (wide(file.e_shoff) + shnum * ShdrSize[file.class]) % AddressSpace
           \/ shtrndx >= shnum
        THEN {Exits}
        ELSE IF file.e_shoff \notin DOMAIN file.shdrs
        THEN {Exits, NotFound} \cup {Symbol(v) : v \in {0, 1}}
        ELSE IF file.size < (wide(shstrtab.sh_offset) + strsize) % WideSpace(file.class)
        THEN {Exits}
        ELSE {LookupIn(file, file.shdrs[file.e_shoff], symname)}
=============================================================================
