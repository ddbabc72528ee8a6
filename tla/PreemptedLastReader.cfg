SPECIFICATION Spec
CONSTANTS
    r1 = r1  r2 = r2  r3 = r3  w1 = w1
    Readers = {r1, r2, r3}
    Writers = {w1}
    Pollers = {}
    Worker = Worker
    Null = Null
    Files <- OwnFiles
    FileOf <- OwnFile
    Updates <- Writers
    Copiers <- MCCopiers
    Vectors <- MCVectors
    MaxFetch = 2
    EntrySize = 48
    UpdateSize = 52
    Ops = {"RT_ROUTE_ADD"}
    QSize = 3
    UintMax = 4
    Signalled = {}
    Preemptible = TRUE
    AllocMayFail = FALSE
SYMMETRY Sym
CHECK_DEADLOCK FALSE
INVARIANTS
    VectorLive
