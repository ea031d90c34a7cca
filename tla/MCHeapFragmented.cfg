CONSTANTS
    FRAME_SIZE = 4
    Entries = 2
    MemoryMap <- Fragmented
    BootFrames = {0, 4}
    HEAP_FRAMES = 3
    Root = 0
    BootMem <- BootTables
    Requests <- NoRequests
    MaxEarly = 0
    MaxCalls = 0
SPECIFICATION Spec
INVARIANT HeapOwned
CHECK_DEADLOCK FALSE
