SPECIFICATION ReadinessSpec
CONSTANTS
    ots = ots
    peers = peers
    Backends <- TwoBackends
    Answers <- TheirAnswers
    Policies = {{ots, peers}, {peers}}
    MaxDepth = 1
    Caller = {c1, c2}
    NoCaller = NoCaller
    MaxOthers = 2
    MaxFaults = 1
CHECK_DEADLOCK FALSE
INVARIANTS CreditIsHeld NoFalseGreen
 
