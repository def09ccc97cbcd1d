\* What the comments and docs say of the file store and the code does not do:
\* put one of the commented lines in the place of the property.
SPECIFICATION Spec
CONSTANTS
    Path = {p1, p2}
    Inode = {i1, i2, i3}
    Worker = {w1, w2}
    x = x
    y = y
    File <- MCFile
    Orderly = TRUE
    DbFails = TRUE
    Torn = FALSE
    None = None
PROPERTY InstantDelivers
\* PROPERTY RemovesOwnVirtual
\* INVARIANT RowHasFile           with DbFails = FALSE: no query has to fail
\* INVARIANT VirtualIntact        with Orderly = FALSE: two clients, one file
\* INVARIANT VirtualIntact        with Torn = TRUE: the server stops in an upload
