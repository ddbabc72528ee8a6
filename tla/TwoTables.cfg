SPECIFICATION BothSpec
CONSTANTS
    p1 = p1  p2 = p2  w1 = w1  m1 = m1
    Pollers = {p1, p2}
    Writers = {w1}
    MacWriters = {m1}
    NonBlock = {}
    Signalled = {}
    Paced = FALSE
    Preemptible = FALSE
    AllocMayFail = FALSE
    MaxWrites = 2
    MacMaxWrites = 1
    MaxFetch = 2
    EntrySize = 48
    UpdateSize = 52
    MacEntrySize = 80
    MacUpdateSize = 84
    Null = Null
    Updates <- MCUpdates
    Copiers <- MCCopiers
    Vectors <- MCVectors
SYMMETRY Sym
CHECK_DEADLOCK FALSE
INVARIANTS
    EachUpdateOfBothOnce ReportedStays SleepsInformed
