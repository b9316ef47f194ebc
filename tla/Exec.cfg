SPECIFICATION FairSpec
CONSTANTS
    MaxStdin = 3
    MaxOut = 2
    StdinQueue = 1
    Cap = 1
INVARIANTS
    StdinInOrder
    NothingRuns
    CodeArrives
PROPERTIES
    ServerEnds
    GoneIsKilled
CHECK_DEADLOCK FALSE
