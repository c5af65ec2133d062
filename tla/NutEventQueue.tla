--------------------------- MODULE NutEventQueue ---------------------------
(***************************************************************************)
(* The event queue operations of os/event.c as seen by code that runs in   *)
(* thread context only and never shares its queue with an interrupt.       *)
(* Threads switch cooperatively, so each operation is atomic up to the     *)
(* point where it gives up the CPU (module NutEvent shows that the kernel  *)
(* code provides this).  A queue is SIGNALED or the sequence of waiting    *)
(* threads.                                                                *)
(***************************************************************************)
EXTENDS NutThreadQueue

CONSTANTS
    SIGNALED,
    Thread,
    Prio        \* td_priority of every thread

ASSUME EventQueueAssumption ==
    /\ Prio \in [Thread -> 0..254]
    /\ SIGNALED \notin Seq(Thread)

Waiters(s) == IF s = SIGNALED THEN <<>> ELSE s

\* NutEventPostAsync wakes the first waiter, if there is one ...
WokenBy(s) == IF Waiters(s) = <<>> THEN {} ELSE {Head(s)}

\* ... and otherwise leaves the queue signaled.
PostAsync(s) == IF Waiters(s) = <<>> THEN SIGNALED ELSE Tail(s)

\* NutEventBroadcastAsync wakes all waiters and clears the queue.
BroadcastAsync(s) == <<>>

\* NutEventWaitNext, and NutEventWait on a queue that is not signaled, put the
\* thread into the queue.
WaitIn(s, t) == AddPriQueue(Waiters(s), t, Prio)

\* NutEventTimeout takes the thread out of the queue.
TimeOut(s, t) == RemoveQueue(s, t)
=============================================================================
