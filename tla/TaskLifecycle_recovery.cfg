SPECIFICATION FairSpec
CONSTANTS
    t1 = t1
    t2 = t2
    a1 = a1
    a2 = a2
    NoTask = NoTask
    NoAction = NoAction
    Task = {t1}
    Action = {a1, a2}
    Loads <- AloneLoads
    MaxLives = 1
PROPERTIES EveryTaskEnds
CHECK_DEADLOCK FALSE
