SPECIFICATION FairSpec
CONSTANTS
    Workers = {1}
    BufferSize = 2
    MaxLoops = 2
    Keys = {"k1", "k2", "k3", "k4", "k5"}
INVARIANTS
    TypeOK
    OrderNotLost
    RunnableHasKey
    KeyMatchesFirst
PROPERTIES
    ImplementsWorkerStates
    PrepareEnds
CHECK_DEADLOCK FALSE
