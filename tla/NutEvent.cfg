SPECIFICATION Spec
CONSTANTS
    hi = hi
    lo = lo
    lo2 = lo2
    Idle = idle
    Thread <- MCThree
    Queue = {q1, q2}
    Prio <- MCPrio
    ThreadList <- MCListThree
    SIGNALED = SIGNALED
    NULL = NULL
    HeapExhausts = TRUE
    MaxPending = 2
INVARIANTS
    PendingAtHead
    LinkedOnce
    NoDanglingTimer
    ReturnCodeTruthful
PROPERTIES
    HaltOnlyWhenNothingPending
    ImplementsEventSpec
