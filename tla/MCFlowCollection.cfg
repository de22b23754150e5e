SPECIFICATION MCSpec
CONSTANTS
    CiliumNamespaces <- MCNamespaces
    MaxChanges = 2
    Listeners = 2
    Packets <- MCPackets
    MaxPackets = 2
    Pods = {p1}
    MaxLines = 2
    Oversized = {1}
    MaxTime = 2
    Second = 2
    PollInterval = 2
    MaxFlowAge = 1
    MaxCollectors = 2
INVARIANTS
    PlainForAReason
    RecordsAccounted
    WindowsMeet
PROPERTIES
    EventuallyStreams
    CollectorsGoOn
CHECK_DEADLOCK FALSE
