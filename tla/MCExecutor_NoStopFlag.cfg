CONSTANTS
    w1 = w1
    w2 = w2
    Workers <- MCWorkers
    MaxCtx = 4
    Entries = 1
    MaxForks = 2
    HasStopFlag = FALSE

SPECIFICATION Spec


PROPERTY InterruptTerminates
