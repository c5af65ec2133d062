------------------------------ MODULE NutMutex ------------------------------
(***************************************************************************)
(* The recursive mutex of os/mutex.c.  An action is what a thread does     *)
(* between two points where it may lose the CPU: the wait inside           *)
(* NutMutexLock and the yield at the end of NutEventPost.  Any thread that *)
(* is ready may run next, in particular one that locks the mutex before    *)
(* the thread that was woken up for it gets the CPU.                       *)
(***************************************************************************)
EXTENDS NutEventQueue, Integers, FiniteSets

CONSTANTS
    NULL,
    CountMax,     \* the largest value of count, which is a uint16_t
    MaxDepth      \* bound on recursive locks of a thread

ASSUME MutexAssumption ==
    /\ NULL \notin Thread
    /\ CountMax \in Nat /\ MaxDepth \in 1..CountMax

VARIABLES
    thread,   \* mutex->thread, the thread that locked it last
    count,    \* mutex->count
    qhp,      \* mutex->qhp
    pc,       \* "run", blocked in NutMutexLock ("wait"), or "woken" from it
    holds,    \* history: the locks less the unlocks of each thread, modulo the
              \* width of count
    overdrawn \* history: threads that unlocked more often than they locked

\* Unsigned arithmetic of the width of count.
Increment(c) == IF c = CountMax THEN 0 ELSE c + 1
Decrement(c) == IF c = 0 THEN CountMax ELSE c - 1

mutex == <<thread, count, qhp>>
history == <<holds, overdrawn>>
vars == <<mutex, pc, history>>

\* NutMutexInit
Init ==
    /\ thread = NULL
    /\ count = 0
    /\ qhp = <<>>
    /\ pc = [t \in Thread |-> "run"]
    /\ holds = [t \in Thread |-> 0]
    /\ overdrawn = {}

\* The end of NutMutexLock.
Acquire(t) ==
    /\ thread' = t
    /\ count' = Increment(count)
    /\ holds' = [holds EXCEPT ![t] = Increment(@)]
    /\ pc' = [pc EXCEPT ![t] = "run"]
    /\ UNCHANGED <<qhp, overdrawn>>

\* NutEventWaitNext(&mutex->qhp, NUT_WAIT_INFINITE)
Block(t) ==
    /\ qhp' = WaitIn(qhp, t)
    /\ pc' = [pc EXCEPT ![t] = "wait"]
    /\ UNCHANGED <<thread, count, history>>

\* Mutant: the lock is free for whoever comes, not just for its last owner.
MayLock_Ignores(t) == TRUE

\* The conditions before and in the loop of NutMutexLock: the loop is skipped
\* by the thread that locked the mutex last.
MayLock(t) == thread = t \/ count = 0

\* The bound on recursion.
Shallow(t) == holds[t] < MaxDepth \/ t \in overdrawn

NutMutexLock(t) ==
    /\ pc[t] = "run" /\ Shallow(t)
    /\ \/ MayLock(t) /\ Acquire(t)
       \/ ~MayLock(t) /\ Block(t)

\* A thread that has been woken up tests the loop condition again.
LockRetry(t) ==
    /\ pc[t] = "woken"
    /\ \/ count = 0 /\ Acquire(t)
       \/ count # 0 /\ Block(t)

\* Fails without an effect if another thread holds the mutex.
NutMutexTrylock(t) ==
    /\ pc[t] = "run" /\ Shallow(t)
    /\ ~(count # 0 /\ thread # t)
    /\ Acquire(t)

\* Mutant: the wake up depends on the count before the decrement.
Released_OffByOne(c) == c = 1

\* Does the decremented counter say that the mutex is free?
Released(c) == c = 0

\* Returns -1 without an effect if another thread locked the mutex last.  The
\* last owner is not refused, even if it has released the mutex already: the
\* counter wraps around.  The final NutEventPost yields; the thread goes on at
\* label l.
UnlockTo(t, l) ==
    LET c     == Decrement(count)
        woken == IF Released(c) THEN WokenBy(qhp) ELSE {}
    IN  /\ pc[t] = "run" /\ thread = t
        /\ count' = c
        /\ holds' = [holds EXCEPT ![t] = Decrement(@)]
        /\ overdrawn' = IF holds[t] = 0 THEN overdrawn \cup {t} ELSE overdrawn
        /\ qhp' = IF Released(c) THEN PostAsync(qhp) ELSE qhp
        /\ pc' = [u \in Thread |-> IF u = t THEN l
                                   ELSE IF u \in woken THEN "woken" ELSE pc[u]]
        /\ UNCHANGED thread

NutMutexUnlock(t) == UnlockTo(t, "run")

Next ==
    \E t \in Thread :
       \/ NutMutexLock(t)
       \/ LockRetry(t)
       \/ NutMutexTrylock(t)
       \/ NutMutexUnlock(t)

Spec == Init /\ [][Next]_vars

(***************************************************************************)
(* Fairness: a thread that is ready is eventually run, and every thread    *)
(* that holds the mutex eventually releases it.                            *)
(***************************************************************************)
Fairness ==
    \A t \in Thread :
       /\ WF_vars(LockRetry(t))
       /\ WF_vars(holds[t] > 0 /\ NutMutexUnlock(t))
       /\ SF_vars(NutMutexUnlock(t) /\ count = 1)

FairSpec == Spec /\ Fairness

-----------------------------------------------------------------------------
TypeOK ==
    /\ thread \in Thread \cup {NULL}
    /\ count \in 0..CountMax
    /\ qhp \in Seq(Thread) \cup {SIGNALED}
    /\ pc \in [Thread -> {"run", "wait", "woken"}]
    /\ holds \in [Thread -> 0..CountMax]
    /\ overdrawn \subseteq Thread

\* No two threads have the mutex locked at the same time, as far as they undo
\* their own locks only; a third thread that unlocks once too often does not
\* change that.
MutualExclusion ==
    \A t, u \in Thread \ overdrawn : holds[t] > 0 /\ holds[u] > 0 => t = u

\* The counter is, in its 16 bits, what the locks of the last owner exceed its
\* unlocks by, and nobody else has locks to undo.  It says what becomes of
\* "Return zero, if successful, otherwise the current thread does not hold a
\* lock on mutex": a thread that never held a lock is refused, as promised, but
\* an unlock by the last owner after its release succeeds and leaves the
\* counter at -1, a lock that nobody holds.
CountIsDepth ==
    \A t \in Thread : holds[t] = IF t = thread THEN count ELSE 0

\* The threads blocked in NutMutexLock are exactly the ones in the queue, and
\* none of them is queued twice.
BlockedInQueue ==
    /\ {t \in Thread : pc[t] = "wait"} = Range(Waiters(qhp))
    /\ IsInjective(Waiters(qhp))

\* A free mutex with blocked threads has woken one of them up, so no release
\* is lost even if other threads take the mutex in between, unless an unlock
\* too many made the counter wrap around.
NoLostRelease ==
    overdrawn = {} /\ count = 0 /\ Waiters(qhp) # <<>> => \E t \in Thread : pc[t] = "woken"

\* A blocked thread gets another chance to lock the mutex (all threads having
\* the same priority; it may still come too late and have to wait again).  After
\* an unlock too many there may be nobody to release the mutex.
BlockedIsWoken ==
    \A t \in Thread : pc[t] = "wait" ~> pc[t] = "woken" \/ overdrawn # {}
=============================================================================
