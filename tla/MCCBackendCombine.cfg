CONSTANTS
    Programs <- AllPrograms
    Code <- Compiled
    MaxCalls = 4
    Depth = 2
    Constructs = {"update", "keep", "use_under_keep"}
    Returns = {"unit"}
    Optimised = TRUE
SPECIFICATION Spec
INVARIANT
    SailOutcome
