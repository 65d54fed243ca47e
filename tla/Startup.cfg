CONSTANTS
    p1 = p1
    p2 = p2
    u1 = u1
    u2 = u2
    i1 = i1
    i2 = i2
    Processes <- MCProcesses
    Applications <- MCProcesses
    UserIDs <- MCUserIDs
    Items <- MCItems
    Overview = Overview
    Files <- MCFiles
    MaxDay = 2
    LeadDays = 0
    MaxEdits = 2
    MaxFailures = 1
    NoEvent = NoEvent
SPECIFICATION MCSpec
INVARIANTS StartupInvariant RuntimeInvariant
PROPERTIES FirstUserOnly DueItemsAreReminded
CHECK_DEADLOCK FALSE
