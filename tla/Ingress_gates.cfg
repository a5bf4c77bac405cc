SPECIFICATION IngressSpec
CONSTANTS
    NodeIds = {"n"}
    Fresh = 1
    NonceCapacity = 1
    NConns = 4
    Loads <- MCLoads
    MaxConcurrency = 2
    RefuseQueue = 1
    Limited = {"infer"}
    Limit = 1
    Window = 2
    AbuseThreshold = 2
    Rules <- MCRules
    Default = "deny"
    Revoked = {"r"}
    MaxClock = 2
    MaxOrders = 1
    MaxFaults = 1
CHECK_DEADLOCK FALSE
INVARIANTS CeilingHolds LimiterHolds SuspensionSticks NoReplay ContainmentBites
PROPERTIES ConnectionsEnd
