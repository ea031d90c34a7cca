SPECIFICATION Spec
CONSTANTS
    Locks <- KernelLocks
    Work <- KernelWork
    Functions <- KernelFunctions
    First = "discover"
    Body <- KernelBody
    Successors <- KernelSuccessors
    Interrupts <- KernelInterrupts
    Handler <- KernelHandler
    OpenSites <- KernelOpenSites
    Width = 28
    Height = 44
CHECK_DEADLOCK FALSE
INVARIANT HandlerNeverSpins
