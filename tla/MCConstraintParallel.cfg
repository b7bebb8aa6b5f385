CONSTANTS
    Proc = {1, 2}
    Value <- MCValue
    Problem <- TwoProblem
    RecordCells = 3
    ChunkCells = 4
SPECIFICATION Spec
INVARIANTS
    Sound
    NeverAsserts
