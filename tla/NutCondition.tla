---------------------------- MODULE NutCondition ----------------------------
(***************************************************************************)
(* The condition variables of os/condition.c, used the way their           *)
(* documentation asks for: consumers wait in a loop that checks the        *)
(* condition with the lock held, producers fulfil the condition and notify *)
(* with the lock held.  The mutex is the one of NutMutex.                  *)
(*                                                                         *)
(* Consumers wait with NutConditionTimedWait.  NutConditionWait cannot be  *)
(* modelled: it passes cond->event where NutEventWait takes &cond->event,  *)
(* so that the word the root points to (address 0, the SIGNALED value or   *)
(* the info structure of a waiting thread) is used as the root of a queue. *)
(* That is undefined behaviour, it corrupts memory, and nothing below says *)
(* anything about a program that calls it.                                 *)
(***************************************************************************)
EXTENDS NutMutex

CONSTANTS
    Consumer,   \* the threads that wait; the other threads notify
    Delay       \* values of abs_ms - NutGetMillis(), negative if it has passed

ASSUME ConditionAssumption ==
    /\ Consumer \subseteq Thread
    /\ Delay \subseteq Int

VARIABLES
    event,    \* cond->event
    fulfilled,\* the condition
    ms,       \* the time limit of a thread's wait, 0 for none
    rc,       \* what a thread's latest NutConditionTimedWait returned
    overtaken \* history: consumers that a broadcast found between unlock and wait

cvars == <<vars, event, fulfilled, ms, rc, overtaken>>

\* CONDITION in zeroed memory.  (NutConditionInit initialises a copy on the
\* heap that its caller never gets to see.)
CondInit ==
    /\ Init
    /\ event = <<>>
    /\ fulfilled = FALSE
    /\ ms = [t \in Thread |-> 0]
    /\ rc = [t \in Thread |-> NULL]
    /\ overtaken = {}

NutConditionLock(t) ==
    /\ NutMutexLock(t)
    /\ UNCHANGED <<event, fulfilled, ms, rc, overtaken>>

\* The second half of NutMutexLock, for all its callers.
CondLockRetry(t) ==
    /\ LockRetry(t)
    /\ UNCHANGED <<event, fulfilled, ms, rc, overtaken>>

\* A consumer unlocks after it has processed what it waited for, or if it was
\* too late to wait.
NutConditionUnlock(t) ==
    /\ holds[t] > 0
    /\ t \in Consumer => fulfilled \/ rc[t] = -1
    /\ fulfilled' = (fulfilled /\ t \notin Consumer)
    /\ NutMutexUnlock(t)
    /\ UNCHANGED <<event, ms, rc, overtaken>>

MayWait(t) == t \in Consumer /\ pc[t] = "run" /\ holds[t] > 0 /\ ~fulfilled

\* NutConditionTimedWait, up to the yield of NutMutexUnlock.  A time that has
\* passed makes the unsigned difference larger than 0x7FFFFFFF.
NutConditionTimedWait(t, d) ==
    /\ MayWait(t)
    /\ IF d < 0
         THEN rc' = [rc EXCEPT ![t] = -1] /\ UNCHANGED <<vars, ms>>
         ELSE /\ UnlockTo(t, "unlocked")
              /\ ms' = [ms EXCEPT ![t] = d]
              /\ UNCHANGED rc
    /\ UNCHANGED <<event, fulfilled, overtaken>>

\* Mutant: NutEventWaitNext in place of NutEventWait.
AlreadySignaled_Ignored == FALSE

AlreadySignaled == event = SIGNALED

\* NutEventWait(&cond->event, ms) in NutConditionTimedWait.
EventWait(t) ==
    /\ pc[t] = "unlocked"
    /\ IF AlreadySignaled
         THEN event' = <<>> /\ pc' = [pc EXCEPT ![t] = "relock"]
         ELSE event' = WaitIn(event, t) /\ pc' = [pc EXCEPT ![t] = "blocked"]
    /\ UNCHANGED <<mutex, history, fulfilled, ms, rc, overtaken>>

EventTimeout(t) ==
    /\ pc[t] = "blocked" /\ ms[t] # 0
    /\ event' = TimeOut(event, t)
    /\ pc' = [pc EXCEPT ![t] = "relock"]
    /\ UNCHANGED <<mutex, history, fulfilled, ms, rc, overtaken>>

\* NutMutexLock and the return of 0, also after a timeout.
Relock(t) ==
    /\ pc[t] = "relock"
    /\ \/ MayLock(t) /\ Acquire(t)
       \/ ~MayLock(t) /\ Block(t)
    /\ rc' = [rc EXCEPT ![t] = 0]
    /\ overtaken' = overtaken \ {t}
    /\ UNCHANGED <<event, fulfilled, ms>>

Wakes(ts) == pc' = [t \in Thread |-> IF t \in ts THEN "relock" ELSE pc[t]]

\* A producer with the lock fulfils the condition and notifies.
Notify(t) ==
    /\ t \notin Consumer /\ pc[t] = "run" /\ holds[t] > 0
    /\ fulfilled' = TRUE
    /\ UNCHANGED <<mutex, history, ms, rc>>

NutConditionSignal(t) ==
    /\ Notify(t)
    /\ Wakes(WokenBy(event)) /\ event' = PostAsync(event)
    /\ UNCHANGED overtaken

NutConditionBroadcast(t) ==
    /\ Notify(t)
    /\ Wakes(Range(Waiters(event))) /\ event' = BroadcastAsync(event)
    /\ overtaken' = overtaken \cup {u \in Thread : pc[u] = "unlocked"}

Kernel(t) ==
    EventWait(t) \/ EventTimeout(t) \/ Relock(t) \/ CondLockRetry(t)

CondNext ==
    \E t \in Thread :
       \/ NutConditionLock(t)
       \/ NutConditionUnlock(t)
       \/ \E d \in Delay : NutConditionTimedWait(t, d)
       \/ NutConditionSignal(t)
       \/ NutConditionBroadcast(t)
       \/ Kernel(t)

CondSpec == CondInit /\ [][CondNext]_cvars

-----------------------------------------------------------------------------
CondTypeOK ==
    /\ thread \in Thread \cup {NULL}
    /\ count \in 0..CountMax
    /\ qhp \in Seq(Thread) \cup {SIGNALED}
    /\ event \in Seq(Thread) \cup {SIGNALED}
    /\ pc \in [Thread -> {"run", "wait", "woken", "unlocked", "blocked", "relock"}]
    /\ holds \in [Thread -> 0..CountMax]
    /\ ms \in [Thread -> Delay \cup {0}]
    /\ rc \in [Thread -> {NULL, 0, -1}]
    /\ overtaken \subseteq Consumer

\* Is a consumer on its way to look at the condition?
WillCheck(t) ==
    t \in Consumer /\ (pc[t] \in {"relock", "wait", "woken"} \/ holds[t] > 0)

\* While the condition is fulfilled and a consumer sleeps in
\* NutConditionTimedWait, some consumer is on its way to look at it.  Its wakeup
\* can be lost only by a broadcast that finds the consumer between its unlock
\* and its wait: a signal is remembered by the event queue, whatever time
\* limits (0 means no limit), timeouts and other consumers do.
OnlyBroadcastLoses ==
    fulfilled /\ (\E t \in Thread : pc[t] = "blocked" /\ t \notin overtaken) =>
        \E u \in Thread : WillCheck(u)
=============================================================================
