SPECIFICATION FairSpec
CONSTANTS
    Workers = {1}
    Caps = {}
    Groups = {}
    HiPrio = 1
    LoPrio = 1
    JobTimeout = 1
    DefaultDeadline = 2
    MaxRequests = 1
    MaxPending = 1
    MaxTime = 1
    ValidAfters = {0}
    Deadlines = {2}
PROPERTIES
    TakenIsUsed
CHECK_DEADLOCK FALSE
