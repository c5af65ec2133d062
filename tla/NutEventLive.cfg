SPECIFICATION FairSpec
CONSTANTS
    hi = hi
    lo = lo
    lo2 = lo2
    Idle = idle
    Thread <- MCTwo
    Queue = {q1}
    Prio <- MCPrio
    ThreadList <- MCListTwo
    SIGNALED = SIGNALED
    NULL = NULL
    HeapExhausts = FALSE
    MaxPending = 2
PROPERTIES
    PendingDelivered
    TimedWaitEnds
