SPECIFICATION SemSpec
CONSTANTS
    hi = hi
    lo = lo
    lo2 = lo2
    Thread <- MCThread
    Prio <- MCPrio
    SIGNALED = SIGNALED
    Initial = 1
    ValueMax = 32767
    MaxPosts = 3
INVARIANTS ValueCountsWaiters PermitsConserved
CHECK_DEADLOCK FALSE
