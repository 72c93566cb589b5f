SPECIFICATION Spec
CONSTANTS
    Workers = {1, 2}
    Caps = {}
    Groups = {"g"}
    HiPrio = 1
    LoPrio = 2
    JobTimeout = 1
    DefaultDeadline = 2
    MaxRequests = 2
    MaxPending = 1
    MaxTime = 1
    ValidAfters = {0}
    Deadlines = {0}
INVARIANTS
    JobConsistency
    QueueIsWaiting
PROPERTIES
    MatchedInOrder
    ImplementsRequestStates
CHECK_DEADLOCK FALSE
