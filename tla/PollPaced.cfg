SPECIFICATION FairSpec
CONSTANTS
    p1 = p1  p2 = p2  w1 = w1  w2 = w2
    Pollers = {p1, p2}
    Writers = {w1, w2}
    NonBlock = {}
    Signalled = {}
    Paced = TRUE
    Preemptible = FALSE
    AllocMayFail = FALSE
    MaxWrites = 2
    MaxFetch = 2
    EntrySize = 48
    UpdateSize = 52
    Null = Null
    Updates <- MCUpdates
    Copiers <- MCCopiers
    Vectors <- MCVectors
CHECK_DEADLOCK FALSE
INVARIANTS
    TypeOK CopiesLive FreedOnce EachUpdateOnce
PROPERTIES
    UpdateReaches QuietAgain
