CONSTANTS
    Programs <- AllPrograms
    Code <- Compiled
    MaxCalls = 4
    Depth = 2
    Constructs = {"let", "body", "if", "block", "assign", "case", "guard", "and", "or", "while", "until", "for", "try", "catch", "return_in_try"}
    Returns = {"unit"}
    Optimised = FALSE
SPECIFICATION Spec
INVARIANT
    NoLeak
