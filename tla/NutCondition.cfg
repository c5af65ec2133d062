SPECIFICATION CondSpec
CONSTANTS
    c1 = c1
    c2 = c2
    p1 = p1
    p2 = p2
    Thread <- MCThread
    Consumer = {c1, c2}
    Prio <- MCPrio
    NULL = NULL
    SIGNALED = SIGNALED
    CountMax = 65535
    MaxDepth = 1
    Delay <- MCDelays
INVARIANT OnlyBroadcastLoses
CHECK_DEADLOCK FALSE
