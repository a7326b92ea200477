SPECIFICATION Spec
CONSTANTS
    Calls = {c1, c2, c3}
    FailureThreshold = 2
    SuccessThreshold = 2
    HalfOpenMaxCalls = 2
    MaxOutages = 1
SYMMETRY Symmetry
INVARIANT HalfOpenCallsLimited
