----------------------------- MODULE MC_NutMsgQ -----------------------------
EXTENDS NutMsgQ

CONSTANTS q1, q2, a, b

MCReaderOf == [t \in Thread |-> IF t = b /\ q2 \in Queue THEN q2 ELSE q1]
MCPrio == [t \in Thread |-> 64]
=============================================================================
