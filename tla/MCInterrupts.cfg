SPECIFICATION AllSpec
CONSTANTS
    Locks <- KernelLocks
    Work <- KernelWork
    Functions <- KernelFunctions
    First = "discover"
    Body <- KernelBody
    Successors <- KernelSuccessors
    Interrupts <- KernelInterrupts
    Handler <- KernelHandler
    OpenSites <- KernelOpenSites
    Width = 28
    Height = 44
    EventRingSize = 3
    MaxEvents = 8
CHECK_DEADLOCK FALSE
INVARIANTS
    TypeOK
    SpinsOnlyAtKnownSites
    MainNeverSpins
    MainDrawsOnScreen
    ScrollHasLine
    EventTypeOK
    EventInv
    IrqInv
PROPERTIES
    HandlerDrawsOutsideFeed
    HandlerReturns
    RefinesQueue
    EventsHandledUnlessSkipped
