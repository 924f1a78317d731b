SPECIFICATION Spec
CONSTANTS
    NodeIds = {m1, m2, m3}
    Fingerprints = {p1}
    Versions = {1, 2}
    NoId = noId
    MAX_IDENTITY_ENTRIES = 2
    SAVE_DEBOUNCE = 2
INVARIANTS CleanIsRestorable OnlyTornTablesAreLost LookupIsLatest
PROPERTY SavedInTheEnd
