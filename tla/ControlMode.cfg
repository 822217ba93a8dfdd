SPECIFICATION FairSpec
CONSTANTS
    c1 = c1
    c2 = c2
    c3 = c3
    c4 = c4
    own = own
    Commands = {c1, c2, c3, c4, own}
    Own = {own}
    Detach = detach
    None = none
    CmdCap = 1
    PendingCap = 2
    EventCap = 1
    PtyCap = 1
    CoalesceLimit = 2
    MaxOutputs = 2
    MaxNotes = 1
ACTION_CONSTRAINT Apart
INVARIANTS
    TypeOK
    RepliesAreOwn
    Aligned
    NoCallStranded
    StreamUnbroken
PROPERTIES
    ImplementsService
    ConsumerLearns
    CallsReturn
    TeardownCompletes
CHECK_DEADLOCK FALSE
