SPECIFICATION Spec
CONSTANTS
    Panes = {p1, p2}
    None = none
    QueueCap = 1
    CmdCap = 1
    MaxOutputs = 1
    MaxNotices = 1
    MaxFrames = 1
INVARIANTS
    DrainedIsSeeded
CHECK_DEADLOCK FALSE
