---------------------------- MODULE MCRtsControl ----------------------------
(***************************************************************************)
(* Command lines, ELF files and a small machine for RtsControl: bytes of   *)
(* three values, words of two of them and double words of three.           *)
(***************************************************************************)
EXTENDS RtsControl

MCEhdrSize == [c \in {32, 64} |-> IF c = 32 THEN 1 ELSE 2]
MCPhdrSize == [c \in {32, 64} |-> IF c = 32 THEN 2 ELSE 3]
MCShdrSize == [c \in {32, 64} |-> 1]
MCSymSize  == [c \in {32, 64} |-> IF c = 32 THEN 1 ELSE 2]

(* Program and section headers, and files. *)
Load(paddr, offset, filesz, memsz) ==
    [type |-> PT_LOAD, paddr |-> paddr, offset |-> offset, filesz |-> filesz, memsz |-> memsz]
Note(offset, filesz) ==
    [type |-> 2, paddr |-> 0, offset |-> offset, filesz |-> filesz, memsz |-> filesz]

Exec(class, le, machine, phentsize, segments) ==
    [class |-> class, le |-> le, magic |-> TRUE, type |-> ET_EXEC, machine |-> machine,
     entry |-> 3, phoff |-> MCEhdrSize[class], phentsize |-> phentsize, segments |-> segments,
     size |-> IF class = 32 THEN 8 ELSE 13, bytes |-> [off \in 0..12 |-> 1 + (off % 2)],
     shoff |-> 0, shtrndx |-> 0, sections |-> <<>>, strings |-> <<>>, symbols |-> <<>>]

Arm      == Exec(32, TRUE, EM_ARM, 2, <<Note(6, 2), Load(5, 6, 1, 3)>>)
Riscv32  == Exec(32, FALSE, EM_RISCV, 2, <<Load(6, 5, 2, 3), Note(6, 2)>>)
Aarch64  == Exec(64, TRUE, EM_AARCH64, 3, <<Load(10, 9, 2, 2), Load(11, 10, 1, 2)>>)
Riscv64  == Exec(64, FALSE, EM_RISCV, 5, <<Load(19, 11, 2, 1), Load(5, 12, 1, 2)>>)

Refusable == {[Aarch64 EXCEPT !.machine = EM_ARM], [Arm EXCEPT !.type = 1],
              [Riscv32 EXCEPT !.magic = FALSE], [Arm EXCEPT !.size = 0],
              \* ends in the first segment
              [Aarch64 EXCEPT !.size = 9, !.segments[2].offset = 9],
              \* ends in the second program header
              [Riscv32 EXCEPT !.size = 4, !.segments[1].offset = 2]}

(* Files with sections: none, symbols and names in either order. *)
Section(type, offset, size) == [type |-> type, offset |-> offset, size |-> size]
Null     == Section(0, 0, 0)
Symtab(class) == Section(SHT_SYMTAB, 8, 3 * MCSymSize[class])
Strtab   == Section(SHT_STRTAB, 6, 2)
Shstrtab == Section(SHT_STRTAB, 7, 1)
Sym(name, value) == [name |-> name, value |-> value]

WithSymbols(file, shtrndx, sections) ==
    [file EXCEPT !.segments = <<>>, !.shoff = 2, !.shtrndx = shtrndx, !.sections = sections,
                !.strings = [off \in {6, 7} |-> [i \in {0, 1} |-> IF off + i = 7 THEN "tohost" ELSE ""]],
                !.symbols = [off \in {8} |-> <<Sym(0, 0), Sym(1, 5), Sym(1, 7)>>]]

Symbolic == {WithSymbols(Arm, 3, <<Null, Symtab(32), Strtab, Shstrtab>>),
             WithSymbols(Aarch64, 1, <<Null, Shstrtab, Strtab, Symtab(64)>>),
             WithSymbols(Aarch64, 3, <<Null, Strtab, Symtab(64), Shstrtab>>),
             WithSymbols(Arm, 1, <<Null, Shstrtab>>),
             WithSymbols(Riscv32, 3, <<Null, Symtab(32), Strtab, Shstrtab>>)}
MCNames == {"tohost", "fromhost"}

(* Options. *)
Binary(addr, bytes) == [opt |-> "b", addr |-> addr, bytes |-> bytes]
Image(lines)        == [opt |-> "i", lines |-> lines]
Elf(file)           == [opt |-> "e", elf |-> file]
Entry(value)        == [opt |-> "n", entry |-> value]
Number(opt, value)  == [opt |-> opt, value |-> value]
ImageLine(a, d)     == [addr |-> a, data |-> d]

Loads == {Binary(5, <<2, 1, 2>>), Binary(26, <<1, 4, 0>>), Binary(0, NoFile), Binary(Unparsable, <<1>>),
          Image(<<ImageLine(ElfEntry, 2), ImageLine(6, 2)>>),
          Image(<<ImageLine(11, 4), ImageLine(11, 2)>>), Image(NoFile),
          \* numbers that are too large: an address, and an entry point
          Image(<<ImageLine(20, 1), ImageLine(ElfEntry, 30)>>),
          \* an entry point that is no number
          Image(<<ImageLine(3, 1), ImageLine(ElfEntry, Unparsable), ImageLine(ElfEntry, 3)>>)}
         \cup {Elf(file) : file \in {Arm, Riscv32, Aarch64, Riscv64} \cup Refusable}
         \cup {Elf(NoFile)}
Flags == {Entry(v) : v \in {3, Unparsable, TooShort}}
         \cup {Number("l", v) : v \in {0, 3, Unparsable, TooShort}}
         \cup {Number("v", v) : v \in {2, Unparsable}}
         \cup {[opt |-> "C", parsed |-> p] : p \in BOOLEAN}
         \cup {[opt |-> "h"]}
MCOptions == Loads \cup Flags \cup {Elf(file) : file \in Symbolic}
=============================================================================
