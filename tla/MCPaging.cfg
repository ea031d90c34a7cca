CONSTANTS
    FRAME_SIZE = 4
    Entries = 2
    MemoryMap <- TwoRegions
    BootFrames = {0, 4}
    HEAP_FRAMES = 3
    Root = 0
    BootMem <- BootTables
    Requests <- BootRequests
    MaxEarly = 2
    MaxCalls = 5
SPECIFICATION Spec
INVARIANTS
    TypeOK
    FrameOwners
    OnlyUsable
    TableTree
    HeapOwned
PROPERTY OnlyItsPage
CHECK_DEADLOCK FALSE
