SPECIFICATION SyncSpec
CONSTANTS
    Keys = {k1}
    Supported = {k1}
    Values = {v1, v2}
    NoObject = NoObject
    SnapshotReplaced = SnapshotReplaced
    Nothing = Nothing
    ConfigWriters = {c1, c2}
    RuntimeWriters = {r1}
    Overlap = "all"
    MaxConfigEdits = 1
    MaxClusterEdits = 0
    KindMayVanish = TRUE
    DiscoveryMayFail = FALSE
SYMMETRY Symmetry
INVARIANTS
    SyncTypeOK
    OperatorDoesWhatWasWanted
