SPECIFICATION Spec
CONSTANTS
    MaxRequests = 2
    MaxLate = 1
INVARIANTS
    TypeOK
    AnswerIsTrue
    CloseAnswered
    OthersReported
PROPERTIES
    ImplementsRequestStates
