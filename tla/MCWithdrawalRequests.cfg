SPECIFICATION Spec
CONSTANTS
    w1 = w1
    w2 = w2
    r1 = r1
    r2 = r2
    k1 = k1
    k2 = k2
    Withdrawal <- One
    CoSigned <- One
    Request <- TwoRequests
    Worker <- OneWorker
    MaxAttempts = 2
    MaxStalled = 1
    Outages = TRUE
    MaxTxs = 0
SYMMETRY RequestSymmetry
PROPERTIES ResumedWhenAnswered
CHECK_DEADLOCK FALSE
