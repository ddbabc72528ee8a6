SPECIFICATION Spec
CONSTANTS
    Elems = {p1, p2}
    Null = Null
    Size = 4
INVARIANT QueueInv
PROPERTY FifoSpec
