SPECIFICATION Spec
CONSTANTS
    MaxOpens = 1
    Backoffs = 1
    Sockets = {1, 2, 3, 4}
    MaxResizes = 0
    MaxTries = 2
    None = none
INVARIANTS
    RetriesBounded
CHECK_DEADLOCK FALSE
