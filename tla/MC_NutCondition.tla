-------------------------- MODULE MC_NutCondition --------------------------
EXTENDS NutCondition

CONSTANTS c1, c2, p1, p2

MCThread == {c1, c2, p1, p2}
MCDelays == {-1, 0, 5}
MCPrio == [t \in Thread |-> 64]
=============================================================================
