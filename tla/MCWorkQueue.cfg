SPECIFICATION PoolSpec
CONSTANTS
    Worker = {w1, w2}
    Client = {c1, c2, c3, c4}
    Node = {n1, n2, n3, n4}
    Main = Main
    Capacity = 2
    None = None
    NULL = NULL
SYMMETRY Symmetry
INVARIANTS ListShape OneOwner
PROPERTY FirstComeFirstServed
