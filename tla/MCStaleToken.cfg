CONSTANTS
    Client = {c1, c2, c3}
    UserID = {u1, u2, u3}
    Token = {t1, t2, t3}
    Code = {r1, r2}
    None = None
    CanHost = {c1, c2}
    MaxRooms = 1
    MaxClientsPerRoom = 3
    MaxPendingJoins = 2
    ReconnectGracePeriod = 0
    HostFailoverTimeout = 1
    EmptyRoomCleanupTimeout = 1
    MinRoomRetentionAfterRestart = 0
SPECIFICATION SpecStaleToken
INVARIANTS AwayHasToken
SYMMETRY NameSymmetry
