CONSTANTS
    Proc = {1}
    Value <- MCValue
    Problem <- MCProblem
    RecordCells = 2
    ChunkCells = 1
SPECIFICATION Spec
INVARIANTS
    TypeOK
    Sound
PROPERTY
    Durable
