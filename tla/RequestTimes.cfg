SPECIFICATION HFairSpec
CONSTANTS
    Requests = {1, 2}
    MaxTime = 3
    MaxEntries = 4
INVARIANTS
    TypeOK
    TimerCoversMin
    HeapIsTimes
PROPERTIES
    ImplementsAlarms
    InsertedIsNotified
    FinishReturns
CHECK_DEADLOCK FALSE
