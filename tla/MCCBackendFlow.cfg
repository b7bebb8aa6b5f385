CONSTANTS
    Programs <- AllPrograms
    Code <- Compiled
    MaxCalls = 4
    Depth = 2
    Constructs = {"let", "body", "if", "block", "assign", "case", "guard", "and", "or", "while", "until", "for", "try", "catch", "update", "store", "keep"}
    Returns = {"int", "unit"}
    Optimised = TRUE
SPECIFICATION Spec
INVARIANTS
    TypeOK
    UsesLiveVariables
    CreatesDeadVariables
    NoLeak
    SailOutcome
    CompiledCodeIsChecked
PROPERTIES
    Terminates
