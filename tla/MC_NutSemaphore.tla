-------------------------- MODULE MC_NutSemaphore --------------------------
EXTENDS NutSemaphore

CONSTANTS hi, lo, lo2

MCThread == {hi, lo, lo2}
MCPrio == [t \in Thread |-> IF t = hi THEN 32 ELSE 64]
=============================================================================
