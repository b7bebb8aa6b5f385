---------------------------- MODULE CommandLine -----------------------------
(***************************************************************************)
(* What the manual (doc/usage.tex) says the options of a generated program *)
(* do, for a whole command line at once and as a function of what ELF      *)
(* files mean, not of how they are written.  An ELF file is described by   *)
(* the numbers in it; Encode gives the file as a little endian host reads  *)
(* it.                                                                     *)
(***************************************************************************)
EXTENDS ElfLoader

CONSTANTS
    ElfEntry,       \* the line "elf_entry" of an image file
    NoFile,         \* a file that cannot be read
    Unparsable,     \* an argument that sscanf takes for something else
    TooShort        \* an argument that ends before sscanf has seen a number

-----------------------------------------------------------------------------
(* The word a little endian host reads where a file has the number x.      *)
Written(le, bytes, x) ==
    WordOf(bytes, [k \in 0..(bytes - 1) |-> ByteOf(x, IF le THEN k ELSE bytes - 1 - k)])

(* ELF files. *)
Encode(elf) ==
    LET half(x) == Written(elf.le, HalfBytes, x)
        word(x) == Written(elf.le, WordBytes, x)
        wide(x) == Written(elf.le, Wide(elf.class), x)
        phdr(p) == [p_type |-> word(p.type), p_offset |-> wide(p.offset),
                    p_paddr |-> wide(p.paddr), p_filesz |-> wide(p.filesz),
                    p_memsz |-> wide(p.memsz)]
        shdr(s) == [sh_type |-> word(s.type), sh_offset |-> wide(s.offset),
                    sh_size |-> wide(s.size)]
    IN  [size |-> elf.size, magic |-> elf.magic, class |-> elf.class,
         data |-> IF elf.le THEN 1 ELSE 2, buffer |-> elf.bytes,
         e_type |-> half(elf.type), e_machine |-> half(elf.machine),
         e_entry |-> wide(elf.entry), e_phoff |-> wide(elf.phoff),
         e_phentsize |-> half(elf.phentsize), e_phnum |-> half(Len(elf.segments)),
         e_shoff |-> wide(elf.shoff), e_shtrndx |-> half(elf.shtrndx),
         e_shnum |-> half(Len(elf.sections)),
         phdrs |-> [off \in {elf.phoff + i * elf.phentsize : i \in 0..(Len(elf.segments) - 1)} |->
                      phdr(elf.segments[1 + (off - elf.phoff) \div elf.phentsize])],
         shdrs |-> [off \in {elf.shoff} |->
                      [i \in 0..(Len(elf.sections) - 1) |-> shdr(elf.sections[i + 1])]],
         strings |-> elf.strings,
         symbols |-> [off \in DOMAIN elf.symbols |->
                        [i \in DOMAIN elf.symbols[off] |->
                           [st_name |-> word(elf.symbols[off][i].name),
                            st_value |-> wide(elf.symbols[off][i].value)]]]]

Loaded(elf) == {i \in DOMAIN elf.segments : elf.segments[i].type = PT_LOAD}

(* An executable for a machine of its class, with all it has in the file.  *)
Executable(elf) ==
    /\ elf.magic
    /\ elf.type = ET_EXEC
    /\ \/ elf.class = 32 /\ elf.machine \in {EM_ARM, EM_RISCV}
       \/ elf.class = 64 /\ elf.machine \in {EM_AARCH64, EM_RISCV}
    /\ elf.size >= EhdrSize[elf.class]
    /\ \A i \in DOMAIN elf.segments :
         elf.phoff + (i - 1) * elf.phentsize + PhdrSize[elf.class] <= elf.size
    /\ \A i \in Loaded(elf) : elf.segments[i].offset + elf.segments[i].filesz <= elf.size

(* What linkers write: numbers that fit in their fields, tables and        *)
(* segments that do not wrap around, the bytes of the file.  A segment     *)
(* does not start behind the end of the file.                              *)
Unsigned(n) == 0..(Power[n] - 1)

Headers(class) ==
    [type : Unsigned(WordBytes), paddr : Unsigned(Wide(class)), offset : Unsigned(Wide(class)),
     filesz : Unsigned(WordBytes) \cap Unsigned(Wide(class)),
     memsz : Unsigned(WordBytes) \cap Unsigned(Wide(class))]

Sections(class) ==
    [type : Unsigned(WordBytes), offset : Unsigned(Wide(class)), size : Unsigned(Wide(class))]
Symbols(class) == [name : Unsigned(WordBytes), value : Unsigned(Wide(class))]

IsElfFile(elf) ==
    /\ elf.class \in {32, 64}
    /\ elf.le \in BOOLEAN /\ elf.magic \in BOOLEAN
    /\ {elf.type, elf.machine, elf.phentsize, elf.shtrndx, Len(elf.segments), Len(elf.sections)}
         \subseteq Unsigned(HalfBytes)
    /\ {elf.entry, elf.phoff, elf.shoff, elf.size} \subseteq Unsigned(Wide(elf.class))
    /\ elf.phentsize > 0
    /\ elf.phoff + Len(elf.segments) * elf.phentsize <= WideSpace(elf.class)
    /\ elf.segments \in Seq(Headers(elf.class))
    /\ \A i \in Loaded(elf) :
         LET s == elf.segments[i]
         IN  /\ s.paddr + s.filesz <= WideSpace(elf.class)
             /\ s.paddr + s.memsz <= WideSpace(elf.class)
             /\ elf.size >= EhdrSize[elf.class] => s.offset <= elf.size
    /\ \A off \in 0..(elf.size - 1) : elf.bytes[off] \in Byte
    /\ elf.sections \in Seq(Sections(elf.class))
    /\ elf.sections # <<>> => elf.sections[1].type \notin {SHT_SYMTAB, SHT_STRTAB}
    /\ \A off \in DOMAIN elf.symbols : elf.symbols[off] \in Seq(Symbols(elf.class))

Segment(s) == {a \in Address : s.paddr <= a /\ a < s.paddr + Max({s.filesz, s.memsz})}

(* `Very simple ELF files (single symtab, two strtabs)', with their tables *)
(* in the file and the names of the symbols in theirs.                     *)
OfType(elf, type) == {i \in DOMAIN elf.sections : elf.sections[i].type = type}
StrTab(elf) ==
    elf.sections[CHOOSE i \in OfType(elf, SHT_STRTAB) : i # elf.shtrndx + 1]
SymTab(elf) == elf.sections[CHOOSE i \in OfType(elf, SHT_SYMTAB) : TRUE]

Simple(elf) ==
    /\ Executable(elf)
    /\ Cardinality(OfType(elf, SHT_SYMTAB)) = 1
    /\ Cardinality(OfType(elf, SHT_STRTAB)) = 2
    /\ elf.shtrndx + 1 \in OfType(elf, SHT_STRTAB)
    /\ elf.shoff + Len(elf.sections) * ShdrSize[elf.class] <= elf.size
    /\ LET names == elf.sections[elf.shtrndx + 1] IN names.offset + names.size <= elf.size
    /\ SymTab(elf).offset \in DOMAIN elf.symbols
    /\ SymTab(elf).size = Len(elf.symbols[SymTab(elf).offset]) * SymSize[elf.class]
    /\ \A i \in DOMAIN elf.symbols[SymTab(elf).offset] :
         LET name == elf.symbols[SymTab(elf).offset][i].name
         IN  name < StrTab(elf).size /\ name \in DOMAIN elf.strings[StrTab(elf).offset]

(* The symbols, by name: the first of them counts. *)
SymbolTold(elf, symname) ==
    LET names   == elf.strings[StrTab(elf).offset]
        symbols == elf.symbols[SymTab(elf).offset]
        Named   == {i \in DOMAIN symbols : names[symbols[i].name] = symname}
    IN  IF Named = {} THEN NotFound ELSE Symbol(symbols[Min(Named)].value)

-----------------------------------------------------------------------------
(* Options. *)
Of(argv, opt)   == {k \in DOMAIN argv : argv[k].opt = opt}
LastOf(argv, S) == argv[Max(S)]

(* The addresses an option loads, and the byte it puts there. *)
Reach(o) ==
    CASE o.opt = "b" -> {(o.addr + k - 1) % AddressSpace : k \in DOMAIN o.bytes}
      [] o.opt = "i" -> {o.lines[k].addr : k \in DOMAIN o.lines} \ {ElfEntry}
      [] o.opt = "e" -> UNION {Segment(o.elf.segments[i]) : i \in Loaded(o.elf)}
      [] OTHER       -> {}

ByteTold(o, a) ==
    CASE o.opt = "b" -> o.bytes[Max({k \in DOMAIN o.bytes :
                                       (o.addr + k - 1) % AddressSpace = a})] % ByteValues
      [] o.opt = "i" -> o.lines[Max({k \in DOMAIN o.lines : o.lines[k].addr = a})].data
                          % ByteValues
      [] o.opt = "e" ->
           LET s == o.elf.segments[Max({i \in Loaded(o.elf) : a \in Segment(o.elf.segments[i])})]
           IN  IF a < s.paddr + s.filesz THEN o.elf.bytes[s.offset + a - s.paddr] ELSE 0

(* A later option wins, address by address. *)
RamTold(argv) ==
    [a \in Address |->
       LET S == {k \in DOMAIN argv : a \in Reach(argv[k])}
       IN  IF S = {} THEN 0 ELSE ByteTold(LastOf(argv, S), a)]

(* `-n sets a custom entry point', wherever it stands; without it the last *)
(* image decides.  The manual says nothing of an argument that is too      *)
(* short; for the entry point of an ELF file see ElfEntryIsRead.           *)
ImageEntries(argv) ==
    {k \in Of(argv, "i") : \E n \in DOMAIN argv[k].lines : argv[k].lines[n].addr = ElfEntry}
EntryLine(lines) == lines[Max({n \in DOMAIN lines : lines[n].addr = ElfEntry})].data

IsEntryTold(argv, entry) ==
    IF Of(argv, "n") # {}
    THEN LastOf(argv, Of(argv, "n")).entry # TooShort
             => entry = LastOf(argv, Of(argv, "n")).entry
    ELSE IF ImageEntries(argv) # {}
    THEN entry = EntryLine(LastOf(argv, ImageEntries(argv)).lines)
    ELSE entry = 0

(* A number that an option sets, or what it was. *)
Set(argv, opt) == {k \in Of(argv, opt) : argv[k].value # TooShort}
ValueTold(argv, opt) == IF Set(argv, opt) = {} THEN 0 ELSE LastOf(argv, Set(argv, opt)).value

(* An option that ends the program: with failure, or after the usage.      *)
Fails(o) ==
    CASE o.opt = "b" -> o.addr = Unparsable \/ o.bytes = NoFile
      [] o.opt = "i" -> IF o.lines = NoFile THEN TRUE
                        ELSE \E n \in DOMAIN o.lines :
                               o.lines[n].addr = ElfEntry /\ o.lines[n].data = Unparsable
      [] o.opt = "e" -> IF o.elf = NoFile THEN TRUE ELSE ~ Executable(o.elf)
      [] o.opt = "n" -> o.entry = Unparsable
      [] o.opt \in {"l", "v"} -> o.value = Unparsable
      [] o.opt = "C" -> ~ o.parsed
      [] OTHER -> FALSE
Ends(argv)       == {k \in DOMAIN argv : argv[k].opt = "h" \/ Fails(argv[k])}
StatusTold(argv) == IF argv[Min(Ends(argv))].opt = "h" THEN 0 ELSE 1
=============================================================================
