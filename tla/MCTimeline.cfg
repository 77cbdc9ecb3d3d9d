SPECIFICATION Spec
CONSTANTS
    MaxTrackDuration = 3
    MaxActionTransit = 1
    MaxDriftSampleSkew = 1
    MaxInt64 = 4
    SeekTarget = {1, 4}
    RoundTrip = {2}
    MaxClock = 4
    MaxInTransit = 2
INVARIANTS
    Followed
    DriftTrue
