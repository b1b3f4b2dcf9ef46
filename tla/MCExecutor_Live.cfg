CONSTANTS
    w1 = w1
    w2 = w2
    Workers <- MCWorkers
    MaxCtx = 3
    Entries = 3
    MaxForks = 0
    HasStopFlag = TRUE

SPECIFICATION LiveSpec

PROPERTY ContextsProcessed
