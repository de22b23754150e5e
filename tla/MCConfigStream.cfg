SPECIFICATION ConfigSpec
CONSTANTS
    Keys = {k1, k2}
    Values = {v1, v2}
    NoObject = NoObject
    SnapshotReplaced = SnapshotReplaced
    Nothing = Nothing
    ConfigWriters = {s1, s2}
    RuntimeWriters = {}
    Supported = {k1}
    Overlap = "none"
    MaxConfigEdits = 2
INVARIANTS
    ConfigCacheIsWanted
    UnsupportedNeverCached
    CaughtUpMeansEqual
PROPERTIES
    EventuallyEqual
CHECK_DEADLOCK FALSE
