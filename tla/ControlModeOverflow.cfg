SPECIFICATION ServingSpec
CONSTANTS
    Commands = {}
    Own = {}
    Detach = detach
    None = none
    CmdCap = 1
    PendingCap = 1
    EventCap = 1
    PtyCap = 1
    CoalesceLimit = 1
    MaxOutputs = 2
    MaxNotes = 0
PROPERTIES
    OverflowCloses
CHECK_DEADLOCK FALSE
