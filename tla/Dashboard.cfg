SPECIFICATION MCFairSpec
CONSTANTS
    Sessions = {s1, s2}
    First = s1
    Agents = {claude}
    Others = {shell}
    Screens = {idle, working}
    EventCap = 6
    ErrorThreshold = 2
    None = none
    MaxChanges = 2
    MaxFails = 2
    MaxFlaps = 1
ACTION_CONSTRAINT Apart
INVARIANTS
    TypeOK
    NoPollerLeak
    BadgeMatchesCache
PROPERTIES
    BadgeConverges
    AllEnd
CHECK_DEADLOCK FALSE
