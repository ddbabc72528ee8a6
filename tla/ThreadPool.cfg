SPECIFICATION Spec
CONSTANTS
    t0 = t0  t1 = t1  u1 = u1  t2 = t2
    NULL = NULL
    Threads <- MCThreads
    SelfId <- MCSelfId
    PoolSize = 2
    Disciplined = TRUE
INVARIANTS
    NeverFull BlockedKnown
