CONSTANTS
    EventRingSize = 3
    MaxEvents = 2
SPECIFICATION EventFairSpec
PROPERTY EveryEventHandled
CHECK_DEADLOCK FALSE
