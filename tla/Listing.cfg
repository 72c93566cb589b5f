SPECIFICATION Spec
CONSTANTS
    IDs = {1, 2, 3}
    ReqInfos <- MCReqInfos
    WorkerInfos <- MCWorkerInfos
    ReqFilters <- MCReqFilters
    WorkerFilters <- MCWorkerFilters
    Limits = {0, 1, 2}
    MaxPageLimit = 3
    MaxChanges = 2
INVARIANTS
    WalkOnce
    PageRight
    TotalRight
CHECK_DEADLOCK FALSE
