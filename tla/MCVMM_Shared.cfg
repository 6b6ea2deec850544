CONSTANTS
    HugeFrames = 4
    DirEntries = 8
    LowFrames = 2
    Identity = 0
    HHDM = 1
    MMIO = 2
    Kern = 3
    Heap = 4
    MaxFrame = 43
    Machines <- MCShared
    HeapPages <- MCHeapPages
    DevicePages <- MCDevicePages
    CachedPages <- MCCachedPages
    Asserts = TRUE
SPECIFICATION Spec
INVARIANT OnlyTablesAreWritten
CHECK_DEADLOCK FALSE
