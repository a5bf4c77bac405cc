SPECIFICATION FairSpec
CONSTANTS
    t1 = t1
    t2 = t2
    a1 = a1
    a2 = a2
    NoTask = NoTask
    NoAction = NoAction
    Task = {t1, t2}
    Action = {a1, a2}
    Loads <- MCLoads
    MaxLives = 1
CHECK_DEADLOCK FALSE
INVARIANTS ChainLeadsJournal NeverUnwitnessed EndingTellsTruth OrphanSurfaces
 
