---------------------------- MODULE MC_NutEvent ----------------------------
(* Application threads of two urgencies and the idle thread.               *)
EXTENDS NutEvent

CONSTANTS hi, lo, lo2

MCTwo == {hi, lo}
MCThree == {hi, lo, lo2}
MCPrio == [t \in All |-> IF t = hi THEN 32 ELSE IF t = Idle THEN 254 ELSE 64]
MCListTwo == <<lo, hi, Idle>>
MCListThree == <<lo, hi, lo2, Idle>>
=============================================================================
