---------------------------- MODULE MC_NutMutex ----------------------------
EXTENDS NutMutex

CONSTANTS hi, lo, lo2, lo3

MCThread == {hi, lo, lo2, lo3}
MCEqualPrio == [t \in Thread |-> 64]
=============================================================================
