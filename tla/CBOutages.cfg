SPECIFICATION FairSpec
CONSTANTS
    Calls = {c1, c2, c3}
    FailureThreshold = 3
    SuccessThreshold = 2
    HalfOpenMaxCalls = 2
    MaxOutages = 2
INVARIANT CountsMatchState
PROPERTIES KeepsPromise BreakerRecovers
