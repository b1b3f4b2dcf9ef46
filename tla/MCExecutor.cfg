CONSTANTS
    w1 = w1
    w2 = w2
    Workers <- MCWorkers
    MaxCtx = 4
    Entries = 1
    MaxForks = 2
    HasStopFlag = TRUE

SPECIFICATION Spec

INVARIANT TypeOK
INVARIANT ContextOwnership
INVARIANT RunningSolversInterrupted
INVARIANT FailureAbandons
INVARIANT NoContextLost
INVARIANT ExitOnlyWhenIdle

PROPERTY InterruptTerminates
PROPERTY PoolRefinement
