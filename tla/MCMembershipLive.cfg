CONSTANTS
    Client = {c1, c2}
    UserID = {u1, u2, u3}
    Token = {t1, t2}
    Code = {r1}
    None = None
    CanHost = {c1, c2}
    MaxRooms = 1
    MaxClientsPerRoom = 2
    MaxPendingJoins = 1
    ReconnectGracePeriod = 0
    HostFailoverTimeout = 1
    EmptyRoomCleanupTimeout = 1
    MinRoomRetentionAfterRestart = 0
SPECIFICATION LiveSpec
PROPERTIES AwayResolved HostReplaced RequestsEnd
