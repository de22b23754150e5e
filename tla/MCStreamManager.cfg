SPECIFICATION SessionsSpec
CONSTANTS
    Streams = {config, cilium}
    StopsRetries = {cilium}
    MaxConnections = 3
    MaxFaults = 5
    StreamInitialBackoff = 1
    StreamMaxBackoff = 3
    StreamMaxJitterPct = 20
    StreamSevereErrorThreshold = 2
    StreamExponentialFactor = 2
    ResetInitialBackoff = 600
    ResetMaxBackoff = 10
    ResetMaxJitterPct = 10
    Pods = {old, new}
    self = new
    MaxMishaps = 3
INVARIANTS
    StoredBeforeUse
    RegistrationsAccounted
    StreamSleepBounded
PROPERTIES
    StreamsComeBack
    OldGoroutinesEnd
CHECK_DEADLOCK FALSE
