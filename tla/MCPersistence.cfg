SPECIFICATION Spec
CONSTANTS
    Code = {r1, r2}
    Content = {x}
    None = None
    StateFlushInterval = 1
    FlushHeartbeat = 2
    MaxClock = 6
INVARIANTS
    TypeOK
    RecentlySaved
    AgeIsUptime
    DowntimeClose
PROPERTIES
    FailedStartLosesNothing
SYMMETRY RoomSymmetry
