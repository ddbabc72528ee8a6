SPECIFICATION Spec
CONSTANTS
    r1 = r1  w1 = w1
    Readers = {r1}
    Writers = {w1}
    Pollers = {}
    Worker = Worker
    Null = Null
    Files <- OwnFiles
    FileOf <- OwnFile
    Updates <- Writers
    Copiers <- MCCopiers
    Vectors <- MCVectors
    MaxFetch = 2
    EntrySize = 48
    UpdateSize = 52
    Ops = {"RT_ROUTE_ADD"}
    QSize = 2
    UintMax = 4
    Signalled = {}
    Preemptible = FALSE
    AllocMayFail = FALSE
CHECK_DEADLOCK FALSE
INVARIANTS
    UpdatesAreWhole
