SPECIFICATION MCSpec
CONSTANTS
    Panes = {"%1", "%2"}
    First = "%1"
    SafeUrls <- MCSafeUrls
    Shows <- MCAccents
    Keys <- MCEscKeys
    Bodies <- MCNothing
    Notices <- MCNothing
    MaxShows = 1
    MaxCuts = 1
    MaxFrames = 2
    MaxTurns = 0
    MaxBody = 2
INVARIANTS
    OneWayArrives
CHECK_DEADLOCK FALSE
