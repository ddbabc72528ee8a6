SPECIFICATION Spec
CONSTANTS
    p1 = p1  w1 = w1
    Pollers = {p1}
    Writers = {w1}
    NonBlock = {}
    Signalled = {}
    Paced = FALSE
    Preemptible = FALSE
    AllocMayFail = FALSE
    MaxWrites = 2
    MaxFetch = 2
    EntrySize = 48
    UpdateSize = 52
    Null = Null
    Updates <- MCUpdates
    Copiers <- MCCopiers
    Vectors <- MCVectors
CHECK_DEADLOCK FALSE
PROPERTIES
    RefusesOnlyTheSame
