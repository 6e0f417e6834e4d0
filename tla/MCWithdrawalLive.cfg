SPECIFICATION FairSpec
CONSTANTS
    w1 = w1
    w2 = w2
    r1 = r1
    r2 = r2
    k1 = k1
    k2 = k2
    Withdrawal <- One
    CoSigned <- None
    Request <- TwoRequests
    Worker <- OneWorker
    MaxAttempts = 2
    MaxStalled = 1
    Outages = FALSE
    MaxTxs = 2
PROPERTIES HotIsExecuted
CHECK_DEADLOCK FALSE
