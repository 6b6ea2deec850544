CONSTANTS
    PageSize = 2
    BitsPerByte = 5
    LoadAddr = 4
    MaxBlock = 3
    Machines <- MCMachines
SPECIFICATION Spec
INVARIANTS
    TypeOK
    LentBlocksDisjoint
    LentMemoryIsNobodys
    LentMemoryIsUsable
    UsedIsAccountedFor
    BitmapIsPlaced
PROPERTY ImplementsFrameAllocator
CHECK_DEADLOCK FALSE
