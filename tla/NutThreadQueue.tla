--------------------------- MODULE NutThreadQueue ---------------------------
(***************************************************************************)
(* The priority ordered, singly linked thread queues of os/thread.c.  A    *)
(* chain of td_qnxt pointers is a sequence of threads; the NULL root is    *)
(* the empty sequence.  Lower numbers are more urgent priorities.          *)
(***************************************************************************)
EXTENDS Naturals, Sequences, SequencesExt

\* How many queued threads NutThreadAddPriQueue walks past: all leading ones
\* that are at least as urgent as the new thread.
WalkPriQueue(s, td, prio) ==
    CHOOSE i \in 0..Len(s) :
        /\ \A j \in 1..i : prio[s[j]] <= prio[td]
        /\ i < Len(s) => prio[s[i + 1]] > prio[td]

\* NutThreadAddPriQueue on a queue that no interrupt touches (the run queue).
AddPriQueue(s, td, prio) == InsertAt(s, WalkPriQueue(s, td, prio) + 1, td)

\* Mutant: the root of the queue is not updated when its first thread leaves.
RemoveQueue_NotHead(s, td) ==
    IF s # <<>> /\ Head(s) = td THEN s ELSE RemoveFirst(s, td)

\* NutThreadRemoveQueue: unlink td, if it is there.
RemoveQueue(s, td) == RemoveFirst(s, td)

\* The most urgent threads come first.
PriOrdered(s, prio) ==
    \A i, j \in 1..Len(s) : i < j => prio[s[i]] <= prio[s[j]]
=============================================================================
