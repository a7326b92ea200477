SPECIFICATION Spec
CONSTANTS
    Jobs = {j1}
    Execs = {x1, x2}
    Modes <- MCModes
    None = None
    Boot = Boot
    MaxPending = 1
    MaxRecords = 2
    MaxFaults = 1
SYMMETRY Symmetry
INVARIANTS ExclusiveExecutions RecordsAccounted StoreCatchesUp RunningIsExecuted
CHECK_DEADLOCK FALSE
