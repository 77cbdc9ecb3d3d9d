\* Three connections around one room; the third may not host.
CONSTANTS
    Client = {c1, c2, c3}
    UserID = {u1, u2, u3}
    Token = {t1, t2, t3}
    Code = {r1}
    None = None
    CanHost = {c1, c2}
    MaxRooms = 1
    MaxClientsPerRoom = 3
    MaxPendingJoins = 2
    ReconnectGracePeriod = 1
    HostFailoverTimeout = 0
    EmptyRoomCleanupTimeout = 1
    MinRoomRetentionAfterRestart = 0
SPECIFICATION Spec
INVARIANTS TypeOK SeatsAgree RosterTrue HostSeat OwnerIsAway AwayHasToken TokenNamesSeat HostSeesRequests IInv
PROPERTIES AdmittedByHost  HostReturns
SYMMETRY NameSymmetry
