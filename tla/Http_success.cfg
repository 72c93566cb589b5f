SPECIFICATION Spec
CONSTANTS
    MaxRequests = 2
    MaxLate = 1
INVARIANT SuccessReported
