CONSTANTS
    NumPorts = 2
    MaxSlots = 2
    Devices = {"combo", "disk"}
    Interfaces <- ComboAndVendor
    CarefulUser = TRUE
    MaxPlugs = 2
    MaxReports = 1
    MaxFaults = 1
    MaxLate = 0
SPECIFICATION FairSpec
INVARIANTS
    TypeOK
    OwnAnswer
    RegistryTrue
    SlotMemory
    DriverOwned
    EveryHidDriven
    OneReportInFlight
    SyncedWhenQuiet
PROPERTY MainGetsIdle
CHECK_DEADLOCK FALSE
