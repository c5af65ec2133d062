----------------------------- MODULE EventSpec -----------------------------
(***************************************************************************)
(* What the event queues of Nut/OS promise, with every operation atomic.   *)
(*                                                                         *)
(* A queue is a set of waiting threads and a credit, the number of events  *)
(* interrupts posted that nobody has received yet.  While threads wait the *)
(* credit counts; without a waiter it saturates at 1 (the SIGNALED state). *)
(*                                                                         *)
(* Every event has a source and one receiver at most.  Credit comes from   *)
(* an interrupt, or from a posting thread that finds nobody waiting.  A    *)
(* waiter that leaves with an event is a most urgent one and has it from   *)
(* the credit, which drops by one, or from the post (which then is over)   *)
(* or the broadcast in progress.  A waiter that leaves without one has     *)
(* set a time limit, and is told so.  A credit is discarded by no one but  *)
(* NutEventWaitNext and a broadcast.                                       *)
(***************************************************************************)
EXTENDS Naturals, FiniteSets

CONSTANTS Thread, Queue, Prio, NULL

VARIABLES
    waiting,  \* waiting[q]: the threads waiting on queue q
    credit,   \* credit[q]: remembered events of q
    limited,  \* the waiting threads with a running time limit
    outcome,  \* outcome[t]: how t's last wait ended, until NutEventWait returns
    call,     \* the operation the running thread has begun, and its queue
    program   \* what the CPU is doing; an interrupt leaves it as it was

vars == <<waiting, credit, limited, outcome, call, program>>

Call(op, q) == [op |-> op, q |-> q]
NoCall == Call("none", NULL)

Init ==
    /\ waiting = [q \in Queue |-> {}]
    /\ credit = [q \in Queue |-> 0]
    /\ limited = {}
    /\ outcome = [t \in Thread |-> NULL]
    /\ call = NoCall

Awake(t) == \A q \in Queue : t \notin waiting[q]

Signaled(q) == waiting[q] = {} /\ credit[q] > 0

MostUrgent(t, q) == \A u \in waiting[q] : Prio[t] <= Prio[u]

\* At most one event is remembered for a queue nobody waits on.
Saturate(n, ws) == IF ws = {} /\ n > 1 THEN 1 ELSE n

-----------------------------------------------------------------------------
\* An interrupt posts an event.
Arrive(q) ==
    /\ credit' = [credit EXCEPT ![q] = Saturate(@ + 1, waiting[q])]
    /\ UNCHANGED <<waiting, limited, outcome, call, program>>

\* The running thread begins an operation.  It waits unless q is signaled, and
\* takes the signaled state if it is.
Begin(op, q) ==
    /\ \/ call = NoCall
       \/ call = Call("next", q) /\ op \in {"take", "wait"}
    /\ op = "take" => Signaled(q)
    /\ op = "wait" => ~Signaled(q)
    /\ op = "broadcast" => waiting[q] # {}
    /\ call' = Call(op, q)
    /\ UNCHANGED <<waiting, credit, limited, outcome>>

\* NutEventWaitNext discards a signaled state before it waits.
Discard(q) ==
    /\ call = NoCall
    /\ call' = Call("next", q)
    /\ credit' = [credit EXCEPT ![q] = IF waiting[q] = {} THEN 0 ELSE @]
    /\ UNCHANGED <<waiting, limited, outcome>>

\* A thread starts waiting.  The credit stays: an event that arrived after the
\* decision to wait is not lost.
Enter(t, q) ==
    /\ call = Call("wait", q) /\ call' = NoCall
    /\ Awake(t) /\ outcome[t] = NULL
    /\ waiting' = [waiting EXCEPT ![q] = @ \cup {t}]
    /\ limited' \in {limited, limited \cup {t}}
    /\ UNCHANGED <<credit, outcome>>

\* The signaled state is received without waiting, or cleared by a broadcast.
Take(q) ==
    /\ call = Call("take", q) /\ call' = NoCall
    /\ credit' = [credit EXCEPT ![q] = 0]
    /\ UNCHANGED <<waiting, limited, outcome>>

\* Nobody waits for a posted event: it is remembered.
Remember(q) ==
    /\ call = Call("post", q) /\ call' = NoCall
    /\ waiting[q] = {}
    /\ credit' = [credit EXCEPT ![q] = 1]
    /\ UNCHANGED <<waiting, limited, outcome>>

\* A waiter leaves; taken is what its departure costs in credit.
Depart(t, q, taken, why) ==
    /\ t \in waiting[q]
    /\ waiting' = [waiting EXCEPT ![q] = @ \ {t}]
    /\ credit' = [credit EXCEPT ![q] = Saturate(@ - taken, waiting[q] \ {t})]
    /\ limited' = limited \ {t}
    /\ outcome' = [outcome EXCEPT ![t] = why]

\* A remembered event wakes a waiter.
Wake(t, q) ==
    /\ credit[q] > 0 /\ MostUrgent(t, q)
    /\ Depart(t, q, 1, "event")
    /\ UNCHANGED call

\* A waiter receives the event a thread posts.
Handoff(t, q) ==
    /\ call = Call("post", q) /\ call' = NoCall
    /\ MostUrgent(t, q)
    /\ Depart(t, q, 0, "event")

\* A broadcast releases one waiter after the other, and ends with the last.
Release(t, q) ==
    /\ call = Call("broadcast", q) /\ UNCHANGED call
    /\ MostUrgent(t, q)
    /\ Depart(t, q, 0, "event")

EndBroadcast(q) ==
    /\ call = Call("broadcast", q) /\ call' = NoCall
    /\ waiting[q] = {}
    /\ UNCHANGED <<waiting, credit, limited, outcome>>

\* A waiter gives up because its time limit is reached.
Expire(t, q) ==
    /\ t \in limited
    /\ Depart(t, q, 0, "timeout")
    /\ UNCHANGED call

\* NutEventWait returns to its caller.
Return(t) ==
    /\ outcome' = [outcome EXCEPT ![t] = NULL]
    /\ UNCHANGED <<waiting, credit, limited, call>>

\* The CPU does something else.
Elsewhere == UNCHANGED <<waiting, credit, limited, outcome, call>>

Next ==
    \/ \E q \in Queue :
          \/ Arrive(q)
          \/ \E op \in {"post", "broadcast", "take", "wait"} : Begin(op, q)
          \/ Discard(q) \/ Take(q) \/ Remember(q) \/ EndBroadcast(q)
          \/ \E t \in Thread :
                Enter(t, q) \/ Wake(t, q) \/ Handoff(t, q) \/ Release(t, q) \/ Expire(t, q)
    \/ \E t \in Thread : Return(t)
    \/ Elsewhere

Spec == Init /\ [][Next]_vars
=============================================================================
