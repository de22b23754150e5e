SPECIFICATION StoriesSpec
CONSTANTS
    Keys = {k1}
    Supported = {k1}
    Values = {v1, v2}
    NoObject = NoObject
    SnapshotReplaced = SnapshotReplaced
    Nothing = Nothing
    ConfigWriters = {c1, c2}
    RuntimeWriters = {r1, r2}
    Overlap = "watchers"
    MaxConfigEdits = 1
    MaxClusterEdits = 1
    KindMayVanish = FALSE
    DiscoveryMayFail = TRUE
INVARIANTS
    WatchCaughtUpMeansEqual
PROPERTIES
    Converges
    WritersGoOn
CHECK_DEADLOCK FALSE
