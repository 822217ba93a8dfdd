SPECIFICATION FairSpec
CONSTANTS
    MaxOpens = 2
    Backoffs = 1
    Sockets = {1, 2, 3, 4}
    MaxResizes = 1
    MaxTries = 0
    None = none
ACTION_CONSTRAINT Apart
INVARIANTS
    TypeOK
    KeysGoOnce
    OneAttempt
    SizeIsTold
PROPERTIES
    LeftStaysLeft
    LostIsRetried
CHECK_DEADLOCK FALSE
