SPECIFICATION ToolSpec
CONSTANTS
    Manifests <- MCManifests
    ManifestInfo <- MCManifestInfo
    Modules = {"w1", "w2", "w3"}
    PureModules = {"w1", "w2"}
    AttestedAt = 2
    PipeSize = 1
    MaxOut = 3
    MaxIn = 2
    MaxActs = 1
CHECK_DEADLOCK FALSE
INVARIANTS  NoPartialAnswer
PROPERTIES ActsEnd
