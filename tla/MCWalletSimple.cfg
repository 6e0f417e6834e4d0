SPECIFICATION Spec
CONSTANTS
    s1 = s1
    s2 = s2
    s3 = s3
    stranger = stranger
    ZeroAddress = ZeroAddress
    Address <- MCAddress
    WindowSize = 3
    MaxIncrease = 4
    MaxSequenceId = 5
    MaxTime = 1
SYMMETRY Symmetry
INVARIANTS TypeOK SafeModeConfinesFunds SomeIdIsInsertable
PROPERTIES NoReplay
