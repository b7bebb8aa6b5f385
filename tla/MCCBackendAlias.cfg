CONSTANTS
    Programs <- AllPrograms
    Code <- Compiled
    MaxCalls = 4
    Depth = 2
    Constructs = {"store", "restore"}
    Returns = {"unit"}
    Optimised = TRUE
SPECIFICATION Spec
INVARIANT
    NoLeak
