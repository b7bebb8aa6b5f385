CONSTANTS
    AddressSpace = 4
    Int64Limit = 3
    BlockSize = 2
    ByteValues = 2
    FastWord = 4
    ElfEntry = ElfEntry
    Sizes = {1, 3}
    Data = {0, 5}
    Tagged = {1, 2}
    Raws <- MCRaws
    Images <- MCImages
SPECIFICATION Spec
INVARIANTS
    TypeOK
    UniqueBlocks
PROPERTIES
    ListIsFlat
    CallsAreAtomic
