SPECIFICATION FairSpec
CONSTANTS
    hi = hi
    lo = lo
    lo2 = lo2
    lo3 = lo3
    Thread <- MCThread
    Prio <- MCEqualPrio
    NULL = NULL
    SIGNALED = SIGNALED
    CountMax = 3
    MaxDepth = 2
INVARIANTS MutualExclusion CountIsDepth NoLostRelease
PROPERTY BlockedIsWoken
