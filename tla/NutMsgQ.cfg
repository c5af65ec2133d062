SPECIFICATION Spec
CONSTANTS
    q1 = q1
    q2 = q2
    a = a
    b = b
    Queue = {q1}
    Bits = 2
    Thread = {a}
    ReaderOf <- MCReaderOf
    Prio <- MCPrio
    Timer = {x1}
    Payload = {m, n}
    NULL = NULL
    SIGNALED = SIGNALED
    FlushBy = "reader"
INVARIANTS NoStuckMessage TimersAccounted OneShotNotLost
PROPERTY ImplementsFifo
