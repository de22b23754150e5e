SPECIFICATION Spec
CONSTANTS
    Configurations <- MCConfigurations
    Reconfigurations <- MCReconfigurations
    Kinds <- MCKinds
    Routed <- MCRouted
    MaxGeneration = 3
    Policies <- MCPolicies
    Decimal <- MCDecimal
    NamespaceLabels = {"prod"}
    PodLabels = {"app"}
    Domains = {"example"}
    PortNumbers = {80, 85, 99}
    PortNames = {"", "http"}
    SixAddresses <- MCSixAddresses
    Addresses <- MCAddresses
    Ports <- MCPorts
    Identities = {1, 2}
    Times = {"t1"}
    Traffic <- MCTraffic
    Connections <- MCConnections
    Arrivals <- MCArrivals
    MaxCached = 2
INVARIANTS
    ReconcilingSettles
    ReadingNormalises
    PolicyMeaningKept
    ReportIsTrue
    FlowIsTraffic
    KeyIsConnection
CHECK_DEADLOCK FALSE
