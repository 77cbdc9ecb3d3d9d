CONSTANTS
    Client = {c1, c2, c3}
    Track = {a, b}
    None = None
    UpdateTrack = {}
    DesyncCanary = {}
    MaxQueueSize = 1
    MaxSequence = 0
    MaxRevision = 1
    MaxPendingSuggestions = 2
    MaxSuggestionsPerUser = 1
    MaxSuggestions = 2
SPECIFICATION Spec
INVARIANTS HostSeesSuggestions OutcomeOnce SuggestersAreMembers
CHECK_DEADLOCK FALSE
SYMMETRY Symmetry
