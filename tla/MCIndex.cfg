SPECIFICATION Spec
CONSTANTS
    a1 = a1 a2 = a2
    Address = {a1, a2}
    Known = {a1}
    Transfer <- Transfers
    MaxBlock = 3
    NoCache = NoCache
    MaxGaps = 1
    Lookback = 2
    BatchSize = 2
    Parallel = 1
    JobAttempts = 2
    MaxAttempts = 2
    MaxFails = 1
    MaxWorkFails = 2
    CursorLag = 0
INVARIANTS TypeOK ExaminedIsIndexed OpenHasJob
CHECK_DEADLOCK FALSE
PROPERTY WindowIsExamined
