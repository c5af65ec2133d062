---------------------------- MODULE NutSemaphore ----------------------------
(***************************************************************************)
(* The counting semaphore of os/semaphore.c.  As in NutMutex, an action is *)
(* what a thread does until it may lose the CPU; the yield is the last     *)
(* thing NutSemPost does.                                                  *)
(***************************************************************************)
EXTENDS NutEventQueue, Integers, FiniteSets

CONSTANTS
    Initial,   \* the value given to NutSemInit
    ValueMax,  \* the largest value of a short
    MaxPosts   \* bound on the posts by threads that hold no permit

ASSUME SemAssumption ==
    /\ Initial \in Nat /\ MaxPosts \in Nat
    /\ ValueMax \in Nat /\ Initial + MaxPosts <= ValueMax

VARIABLES
    value,    \* sem->value
    sem_qhp,  \* sem->qhp
    taken,    \* history: permits a thread got and has not given back
    produced  \* history: permits posted by threads that held none

semvars == <<value, sem_qhp, taken, produced>>

\* NutSemInit
SemInit ==
    /\ value = Initial
    /\ sem_qhp = <<>>
    /\ taken = [t \in Thread |-> 0]
    /\ produced = 0

Blocked(t) == t \in Range(Waiters(sem_qhp))

\* Mutant: the test of NutSemWait is made before the decrement.
MustWait_Before(v) == v + 1 < 0

MustWait(v) == v < 0

\* Decrement first, then test: a negative value counts the waiting threads.
NutSemWait(t) ==
    /\ ~Blocked(t)
    /\ value' = value - 1
    /\ IF MustWait(value')
         THEN sem_qhp' = WaitIn(sem_qhp, t) /\ UNCHANGED taken
         ELSE taken' = [taken EXCEPT ![t] = @ + 1] /\ UNCHANGED sem_qhp
    /\ UNCHANGED produced

\* Fails without an effect if the value is not positive.
NutSemTryWait(t) == value > 0 /\ NutSemWait(t)

\* Mutant: a post that brings the value back to zero wakes up nobody.
MustWake_OffByOne(v) == v < 0

MustWake(v) == v <= 0

\* A thread gives back a permit it holds, or produces a new one.
NutSemPost(t) ==
    LET back  == IF taken[t] > 0 THEN 1 ELSE 0
        wakes == IF MustWake(value + 1) THEN WokenBy(sem_qhp) ELSE {}
    IN  /\ ~Blocked(t)
        /\ produced + 1 - back <= MaxPosts
        /\ value' = value + 1
        /\ produced' = produced + 1 - back
        /\ taken' = [u \in Thread |-> taken[u] - (IF u = t THEN back ELSE 0)
                                              + (IF u \in wakes THEN 1 ELSE 0)]
        /\ sem_qhp' = IF MustWake(value + 1) THEN PostAsync(sem_qhp) ELSE sem_qhp

SemNext ==
    \E t \in Thread : NutSemWait(t) \/ NutSemTryWait(t) \/ NutSemPost(t)

SemSpec == SemInit /\ [][SemNext]_semvars

-----------------------------------------------------------------------------
SemTypeOK ==
    /\ value \in Int
    /\ sem_qhp \in Seq(Thread) \cup {SIGNALED}
    /\ taken \in [Thread -> Nat]
    /\ produced \in 0..MaxPosts

\* A negative value is exactly the number of threads blocked in NutSemWait:
\* no post is lost and no thread is let through without one.
ValueCountsWaiters ==
    Len(Waiters(sem_qhp)) = IF value < 0 THEN -value ELSE 0

\* The permits of all threads, if thread t has n[t] of them.
Permits(n) == UNION {{t} \X (1..n[t]) : t \in Thread}

\* Permits are neither lost nor made up: those that threads have and those
\* that are left add up to what NutSemInit and the producers put in.
PermitsConserved ==
    Cardinality(Permits(taken)) + (IF value > 0 THEN value ELSE 0)
        = Initial + produced
=============================================================================
