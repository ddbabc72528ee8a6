SPECIFICATION FairSpec
CONSTANTS
    r1 = r1  r2 = r2  w1 = w1  w2 = w2  p1 = p1
    Readers = {r1, r2}
    Writers = {w1, w2}
    Pollers = {p1}
    Worker = Worker
    Null = Null
    Files <- OwnFiles
    FileOf <- OwnFile
    Updates <- Writers
    Copiers <- MCCopiers
    Vectors <- MCVectors
    MaxFetch = 2
    EntrySize = 48
    UpdateSize = 52
    Ops = {"RT_ROUTE_ADD"}
    QSize = 2
    UintMax = 4
    Signalled = {}
    Preemptible = FALSE
    AllocMayFail = FALSE
INVARIANTS
    Delivered ExclusiveExit NobodyStranded
PROPERTIES
    WriterServed ReaderServed
