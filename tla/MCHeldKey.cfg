SPECIFICATION AllSpec
CONSTANTS
    WordBits = 8
    Devices = 2
    Functions = 2
    Slots = 3
    SafetyBound = 3
    Machines <- SomeMachines
    Page = 64
    MaxBar = 1024
    Descriptors <- SomeDescriptors
    MaxDescriptors = 3
    Keys = {"a", "b", "caps"}
    Printable = {"a", "b"}
    KeySlots = 2
    MaxEchoes = 2
    Buttons = {"left", "right"}
    MaxPos = 3
    RingSize = 6
    MaxInFlight = 4
    Budget <- PostedBy
CHECK_DEADLOCK FALSE
INVARIANTS
    HeldKeyOnce
