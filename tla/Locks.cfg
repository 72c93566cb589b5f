SPECIFICATION LockSpec
CONSTANTS
    Workers = {1}
    Caps = {}
    Groups = {}
    HiPrio = 1
    LoPrio = 1
    JobTimeout = 0
    DefaultDeadline = 1
    MaxRequests = 2
    MaxPending = 1
    MaxTime = 2
    ValidAfters = {0}
    Deadlines = {0, 1}
PROPERTIES
    CallsReturn
    WaitEnds
    JobEnds
CHECK_DEADLOCK FALSE
