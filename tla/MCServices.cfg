SPECIFICATION FairSpec
CONSTANTS
    w1 = w1 r1 = r1 r2 = r2 c1 = c1 c2 = c2 p1 = p1 p2 = p2
    Webhook = {w1}
    Runner = {r1, r2}
    MaxDeliveries = 2
    RetryMax = 2
    MaxOrders = 1
    MaxMishaps = 1
    Run = {c1, c2}
    Nobody = Nobody
    NoNonce = NoNonce
    MaxNonce = 7
    Steps = 2
    MaxCalls = 3
    MaxTrouble = 2
    Caller = {c1, c2}
    MaxUpsets = 1
    Password = {p1, p2}
    FirstPassword = p1
    NoRecord = NoRecord
    Rows <- FewRows
    Rotation = {c1, c2}
    Maker = {r1}
    MaxRotations = 2
    MaxGlitches = 1
INVARIANTS
    TypeOK
    AcceptedAsOrdered
    QueuedIsCarried
    ContractsAgree
    NonceNotShared
    ActiveIsWhole
    KeysOutliveUse
    VaultIsReadable
CHECK_DEADLOCK FALSE
PROPERTIES
    ReadyIsKept
    DeliveryEnds
