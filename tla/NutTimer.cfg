SPECIFICATION Spec
CONSTANTS
    x1 = x1
    x2 = x2
    x3 = x3
    Timer = {x1, x2, x3}
    Own = {x3}
    NULL = NULL
    Interval = {1, 2}
    TickMod = 5
    MaxLag = 2
    CallbackStarts = TRUE
    CallbackRestarts = FALSE
SYMMETRY MCSymmetry
INVARIANTS ListSound EarlyByBacklog DeadlineKept NoneOverdue
