SPECIFICATION Spec
CONSTANTS
    Worker = {w1, w2, w3}
    Client = {c1, c2, c3, c4}
    Capacity = 2
    None = None
INVARIANTS OnePlace NoLostWakeup CleanExit
PROPERTY EveryClientClosed
\* With Worker = {w1, w2}, Client = {c1} and Capacity = 1, in place of those above:
\* a worker that has passed the test of state waits after the last signal.
\* PROPERTY ExitSucceeds
