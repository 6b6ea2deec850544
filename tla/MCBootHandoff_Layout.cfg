CONSTANTS
    Maps <- MCMaps
    MaxAttempts = 5
    PageBytes = 96
    DescSize = 48
    EntrySize = 24
    GopSize = 40
    GopInfoSize = 36
SPECIFICATION Spec
INVARIANT HandoffStaysInBuffer
CHECK_DEADLOCK FALSE
