SPECIFICATION Spec
CONSTANTS
    Path = {p1, p2, p3}
    Inode = {i1, i2, i3}
    Worker = {w1, w2}
    x = x
    y = y
    File <- MCFile
    Orderly = TRUE
    DbFails = TRUE
    Torn = FALSE
    None = None
SYMMETRY Symmetry
INVARIANTS VirtualIntact UploadsArePrefixes CompleteWhenLinked
