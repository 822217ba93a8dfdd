SPECIFICATION MCSpec
CONSTANTS
    Panes = {"%1", "%2"}
    First = "%1"
    SafeUrls <- MCSafeUrls
    Shows <- MCShows
    Keys <- MCKeys
    Bodies <- MCBodies
    Notices <- MCNotices
    MaxShows = 2
    MaxCuts = 2
    MaxFrames = 2
    MaxTurns = 1
    MaxBody = 2
ACTION_CONSTRAINT Apart
INVARIANTS
    FramingHolds
    EventsAreMeant
    LiveIsFiltered
    LiveIsHarmless
    KeysArrive
CHECK_DEADLOCK FALSE
