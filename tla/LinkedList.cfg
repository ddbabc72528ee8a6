SPECIFICATION FairSpec
CONSTANTS
    Nodes <- ThreeNodes
    Cells <- FourCells
    Values = {a, b}
    Null = Null
INVARIANTS TypeOK HeapSound CursorsLive
PROPERTIES ValueListSpec EachReturns
