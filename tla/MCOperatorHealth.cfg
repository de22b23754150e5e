SPECIFICATION HealthSpec
CONSTANTS
    ResourceProcessingTimeout = 0
    FlowInactivityKeepaliveMultiplier = 3
    FlowInactivityMargin = 1
    ActiveTimeout = 2
    PollInterval = 1
    KeepalivePeriods = {0, 1, 2}
    pods = pods
    netpols = netpols
    pod = pod
    policy = policy
    v1 = v1
    v2 = v2
    bad = bad
    none = none
    NoValue = none
    Bare = bare
    Objects = {pod, policy}
    Unreadable = {bad}
    Fetched = {netpols}
    KindOrder <- MCKindOrder
    KindOf <- MCKindOf
    Values <- MCValues
    Initial <- MCInitial
    MaxSessions = 2
    MaxWrites = 2
    WireSize = 1
INVARIANTS
    AlarmsAreReal
    StallsAreReported
PROPERTIES
    MirrorsTheCluster
    EventuallyMirrored
    ClosedStreamIsNoticed
CHECK_DEADLOCK FALSE
