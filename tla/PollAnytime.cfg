SPECIFICATION Spec
CONSTANTS
    p1 = p1  p2 = p2  w1 = w1  w2 = w2
    Pollers = {p1, p2}
    Writers = {w1, w2}
    NonBlock = {p2}
    Signalled = {p1, p2}
    Paced = FALSE
    Preemptible = TRUE
    AllocMayFail = TRUE
    MaxWrites = 2
    MaxFetch = 1
    EntrySize = 48
    UpdateSize = 52
    Null = Null
    Updates <- MCUpdates
    Copiers <- MCCopiers
    Vectors <- MCVectors
SYMMETRY Sym
CHECK_DEADLOCK FALSE
INVARIANTS
    CountedOnce SleepersKnown OnlyEarlyWakeLost
