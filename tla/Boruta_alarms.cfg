SPECIFICATION Spec
CONSTANTS
    Workers = {1}
    Caps = {}
    Groups = {}
    HiPrio = 1
    LoPrio = 1
    JobTimeout = 1
    DefaultDeadline = 2
    MaxRequests = 1
    MaxPending = 2
    MaxTime = 3
    ValidAfters = {0, 2}
    Deadlines = {2, 4}
INVARIANTS
    TypeOK
    AlarmsSet
PROPERTIES
    NoMissedMatch
    EndedIsFinal
    NotEndedEarly
    StartsInTime
CHECK_DEADLOCK FALSE
