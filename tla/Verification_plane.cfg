SPECIFICATION VerificationSpec
CONSTANTS
    Threads = {"t1", "t2", "t3"}
    MaxFaults = 1
    Verifiers = {"v1", "v2", "v3"}
    CommitWindow = 0
    RevealWindow = 1
    MaxClock = 2
    Objects <- MCObjects
    About <- MCAbout
    Prov <- MCProv
    NodeOf <- MCNodeOf
    DenyRules <- MCDenyRules
    PanelK = 2
    MinIndependence = 50
    MaxPerGroup = 1
    MinVerifiers = 2
    Works <- MCWorks
CHECK_DEADLOCK FALSE
INVARIANTS AuditFailsForCause ConvictsTheGuilty  AnswersVerified 
