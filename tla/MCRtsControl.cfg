SPECIFICATION Spec
CONSTANTS
    ByteValues = 3
    HalfBytes = 2
    WordBytes = 2
    XwordBytes = 3
    EhdrSize <- MCEhdrSize
    PhdrSize <- MCPhdrSize
    ShdrSize <- MCShdrSize
    SymSize <- MCSymSize
    ET_EXEC = 2
    EM_ARM = 5
    EM_AARCH64 = 6
    EM_RISCV = 7
    PT_LOAD = 1
    SHT_SYMTAB = 2
    SHT_STRTAB = 3
    Int64Limit = 14
    ElfEntry = ElfEntry
    NoFile = NoFile
    Unparsable = Unparsable
    TooShort = TooShort
    Options <- MCOptions
    MaxOptions = 2
    Names <- MCNames
    Values = {0, 2, 3}
    NoElf = NoElf
    NoLookup = NoLookup
    opt_trace = TRUE
    MaxCalls = 2
    CycleSpace = 5
    MaxCycles = 3
INVARIANTS
    TypeOK
    ExplicitEntryWins
    CycleLimit
    TraceDepth
    LookupFindsFirst
PROPERTIES
    StartsAsTold
    TimesOut
