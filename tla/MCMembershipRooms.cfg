\* Two connections, two rooms and a spare code: rooms created at the same time,
\* members and tokens of one room beside those of another.
CONSTANTS
    Client = {c1, c2}
    UserID = {u1, u2, u3}
    Token = {t1, t2, t3}
    Code = {r1, r2, r3}
    None = None
    CanHost = {c1, c2}
    MaxRooms = 2
    MaxClientsPerRoom = 2
    MaxPendingJoins = 1
    ReconnectGracePeriod = 0
    HostFailoverTimeout = 0
    EmptyRoomCleanupTimeout = 2
    MinRoomRetentionAfterRestart = 1
SPECIFICATION Spec
INVARIANTS LimitsKept
PROPERTIES EmptyIsFinal GraceKept
SYMMETRY NameSymmetry
