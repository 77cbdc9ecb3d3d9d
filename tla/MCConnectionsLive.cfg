SPECIFICATION FairSpec
CONSTANTS
    Conn = {c1}
    Source = {s}
    MaxClients = 1
    MaxConnectionsPerSource = 1
    SendCapacity = 2
    MaxQueuedBytes = 3
    Size = {1, 2}
    Capable = {c1}
    MaxMessages = 2
PROPERTIES
    ShutEnds
    ShutdownEnds
CHECK_DEADLOCK FALSE
