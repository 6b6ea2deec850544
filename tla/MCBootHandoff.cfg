CONSTANTS
    Maps <- MCMaps
    MaxAttempts = 5
    PageBytes = 96
    DescSize = 48
    EntrySize = 24
    GopSize = 40
    GopInfoSize = 36
SPECIFICATION FairSpec
INVARIANTS
    TypeOK
    HandoffIsSound
    FailureKeepsPagesAlone
PROPERTIES
    LoaderEnds
CHECK_DEADLOCK FALSE
