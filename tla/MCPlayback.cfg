\* A host and a guest, either of whom may become the other.
CONSTANTS
    Client = {c1, c2}
    Track = {a, b}
    None = None
    UpdateTrack = {c2}
    DesyncCanary = {c1}
    MaxQueueSize = 1
    MaxSequence = 2
    MaxRevision = 2
SPECIFICATION PlaybackFairSpec
INVARIANTS PlaybackTypeOK InStep
PROPERTIES SequenceForward Repaired
\* A room that everyone has left is deleted.
CHECK_DEADLOCK FALSE
