CONSTANTS
    NumPorts = 2
    MaxSlots = 2
    Devices = {"kbd"}
    Interfaces <- Keyboard
    CarefulUser = FALSE
    MaxPlugs = 0
    MaxReports = 0
    MaxFaults = 0
    MaxLate = 1
SPECIFICATION Spec
INVARIANT RegistryTrue
CHECK_DEADLOCK FALSE
