SPECIFICATION FairScenario
CONSTANTS
    Nodes = {n1}
    MaxRecords = 3
    Long = {2}
    Overlap = 3
    MaxConcurrentPolls = 1
    MaxRotations = 2
    MaxJoins = 2
    MaxRestarts = 1
INVARIANTS
    NothingSkipped
    ReadOnce
PROPERTIES
    CatchesUp
