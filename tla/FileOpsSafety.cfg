\* Two files of up to two chunks; two faults.
SPECIFICATION Spec
CONSTANTS
    Path = {f1, f2}
    Chunk = {x, y}
    MaxChunks = 2
    MaxFaults = 2
    Absent = Absent
INVARIANTS
    NothingLost
    OutcomeTrue
    ProgressBounded
PROPERTY OperationReturns
