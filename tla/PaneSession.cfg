SPECIFICATION MCFairSpec
CONSTANTS
    Panes = {p1, p2}
    First = p1
    None = none
    QueueCap = 1
    CmdCap = 1
    MaxOutputs = 2
    MaxNotices = 1
    MaxFrames = 2
    Together = 3
ACTION_CONSTRAINT Apart
INVARIANTS
    TypeOK
    LiveFollows
    InputInOrder
    EndIsAnnounced
PROPERTIES
    SessionEnds
CHECK_DEADLOCK FALSE
