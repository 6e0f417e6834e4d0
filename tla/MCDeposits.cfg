SPECIFICATION Spec
CONSTANTS
    t1 = t1 t2 = t2 p1 = p1 p2 = p2 c1 = c1 c2 = c2
    Transfer = {t1, t2}
    Amount <- Equal
    MaxBlock = 3
    MaxFlushes <- FlushPolled
    MaxOrphans <- OrphanRealtime
    HeadLag = 1
    Depth = 2
    Modes <- PolledOrRealtime
    Poll = {p1, p2}
    LookBack = 1
    NoEntry = NoEntry
    Track = {c1, c2}
    Milestones = {1, 2}
    Required = 2
    MaxFails = 1
INVARIANTS TypeOK PolledOnce AllAccountedFor MilestonesTold ToldOnce
CHECK_DEADLOCK FALSE
PROPERTIES RowsAsPromised RealtimeIsFinal
