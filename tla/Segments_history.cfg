SPECIFICATION HistorySpec
CONSTANTS
    MaxChain = 2
    MaxLedger = 3
    MaxLives = 1
    MaxSegment = 2
    MaxOther = 1
    Strict = FALSE
CHECK_DEADLOCK FALSE
INVARIANTS JudgeConvictsForks 
