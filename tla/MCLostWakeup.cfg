CONSTANTS
    NumPorts = 2
    MaxSlots = 2
    Devices = {"kbd"}
    Interfaces <- Keyboard
    CarefulUser = TRUE
    MaxPlugs = 1
    MaxReports = 0
    MaxFaults = 0
    MaxLate = 0
SPECIFICATION FairSpec
PROPERTY ChangeNoticed
CHECK_DEADLOCK FALSE
