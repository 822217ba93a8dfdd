SPECIFICATION MCFairSpec
CONSTANTS
    Sessions = {s1}
    First = s1
    Agents = {claude}
    Others = {shell}
    Screens = {idle}
    EventCap = 8
    ErrorThreshold = 2
    None = none
    MaxChanges = 1
    MaxFails = 2
    MaxFlaps = 1
ACTION_CONSTRAINT Relisted
PROPERTIES
    RowRecovers
CHECK_DEADLOCK FALSE
