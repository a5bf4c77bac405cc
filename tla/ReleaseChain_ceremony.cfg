SPECIFICATION ReleaseSpec
CONSTANTS
    MaxCommit = 2
    VersionOf <- MCVersionOf
    GoodTrees = {2}
    KeyInfo <- MCKeyInfo
    FirstKeys <- MCFirstKeys
    MaxChain = 5
    MaxStatements = 1
CONSTRAINT Settled
CHECK_DEADLOCK FALSE
INVARIANTS DeadKeysSignNothing  RevocationStands
