SPECIFICATION FlowSpec
CONSTANTS
    FlowKeys = {a, b, c}
    activeTimeout = 1
    maxFlows = 2
    outCapacity = 1
    MaxTime = 2
    MaxFlowsSeen = 3
    MaxSessions = 2
INVARIANTS
    CacheInOrder
    TimerCoversOldest
    EveryFlowAccounted
PROPERTIES
    FlowsLeave
CHECK_DEADLOCK FALSE
