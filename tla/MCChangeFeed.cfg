SPECIFICATION FeedSpec
CONSTANTS
    Keys = {k1, k2}
    Supported = {k1, k2}
    Values = {v1, v2}
    NoObject = NoObject
    SnapshotReplaced = SnapshotReplaced
    Nothing = Nothing
    ConfigWriters = {}
    Overlap = "none"
    RuntimeWriters = {w1, w2}
SYMMETRY Symmetry
INVARIANTS
    NoLostChange
