SPECIFICATION MemorySpec
CONSTANTS
    Labels = {"persona"}
    Sizes = {2}
    CharLimit = 4
    Authors = {"node", "peer"}
    Self = "node"
    K = 1
    OverFetch = 2
    MaxOps = 2
    MaxWrites = 3
    MaxFaults = 1
CHECK_DEADLOCK FALSE
INVARIANTS HonestSelfImports 
PROPERTIES MemoryPromised
