SPECIFICATION Spec
CONSTANTS
    Conn = {c1, c2}
    Source = {s}
    MaxClients = 1
    MaxConnectionsPerSource = 2
    SendCapacity = 1
    MaxQueuedBytes = 2
    Size = {1, 2}
    Capable = {c1}
    MaxMessages = 1
INVARIANTS
    TypeOK
    Accounted
    BytesTrue
    
PROPERTIES
    NoPumpAfterDrain
    
CHECK_DEADLOCK FALSE
