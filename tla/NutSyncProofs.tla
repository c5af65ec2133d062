--------------------------- MODULE NutSyncProofs ----------------------------
(***************************************************************************)
(* The synchronisation objects built on event queues are correct for any   *)
(* number of threads and any priorities: mutexes, whose counter wraps      *)
(* around if a thread unlocks once too often, condition variables, where   *)
(* NutConditionTimedWait loses a wakeup only to a broadcast, and           *)
(* semaphores.                                                             *)
(***************************************************************************)
EXTENDS NutCondition, NutSemaphore, NutThreadQueueProofs

(***************************************************************************)
(* Mutexes.  The counter mirrors the depth of the owner's locks, which     *)
(* gives mutual exclusion; that blocked threads are the queued ones makes  *)
(* a release reach one of them.                                            *)
(***************************************************************************)
IInv == TypeOK /\ CountIsDepth /\ BlockedInQueue /\ NoLostRelease

\* The waiting threads are a chain.
LEMMA WaitersType ==
    ASSUME TypeOK
    PROVE  Waiters(qhp) \in Seq(Thread)
  BY EmptySeq DEF TypeOK, Waiters

\* NutMutexInit establishes the invariant.
LEMMA InitIInv == Init => IInv
<1> SUFFICES ASSUME Init PROVE IInv
  OBVIOUS
<1>1. SIGNALED # <<>>
  BY EventQueueAssumption, EmptySeq
<1>2. Waiters(qhp) = <<>>
  BY <1>1 DEF Init, Waiters
<1>3. TypeOK
  BY EmptySeq, MutexAssumption DEF Init, TypeOK
<1>4. CountIsDepth
  BY DEF Init, CountIsDepth
<1>5. BlockedInQueue /\ NoLostRelease
  BY <1>2, EmptyChain DEF Init, BlockedInQueue, NoLostRelease
<1> QED
  BY <1>3, <1>4, <1>5 DEF IInv

\* Locking a mutex that is free or the thread's own.
LEMMA AcquireIInv ==
    ASSUME IInv, NEW t \in Thread, pc[t] # "wait", Acquire(t),
           (thread = t /\ Shallow(t)) \/ count = 0
    PROVE  IInv'
<1> USE DEF IInv
<1>1. count' = Increment(count) /\ count' \in 0..CountMax
  BY MutexAssumption DEF TypeOK, Acquire, Increment
<1>2. TypeOK'
  <2>1. Increment(holds[t]) \in 0..CountMax
    BY MutexAssumption DEF TypeOK, Increment
  <2> QED  BY <1>1, <2>1 DEF TypeOK, Acquire
<1>3. CountIsDepth'
  <2>1. holds[t] = count /\ \A u \in Thread : u # t => holds[u] = 0
    BY DEF CountIsDepth
  <2> QED  BY <1>1, <2>1 DEF TypeOK, CountIsDepth, Acquire
<1>4. BlockedInQueue'
  <2>1. Waiters(qhp)' = Waiters(qhp)
    BY DEF Acquire, Waiters
  <2>2. {u \in Thread : pc'[u] = "wait"} = {u \in Thread : pc[u] = "wait"}
    BY DEF TypeOK, Acquire
  <2> QED  BY <2>1, <2>2 DEF BlockedInQueue
<1>5. NoLostRelease'
  <2> SUFFICES ASSUME overdrawn' = {}  PROVE count' # 0
    BY DEF NoLostRelease
  <2>1. count < CountMax
    <3>1. holds[t] = count
      BY DEF CountIsDepth
    <3>2. overdrawn = {}
      BY DEF Acquire
    <3> QED  BY <3>1, <3>2, MutexAssumption DEF Shallow, TypeOK
  <2> QED  BY <1>1, <2>1, MutexAssumption DEF Increment, TypeOK
<1> QED
  BY <1>2, <1>3, <1>4, <1>5

\* Waiting for a mutex that another thread holds.
LEMMA BlockIInv ==
    ASSUME IInv, NEW t \in Thread, pc[t] # "wait", Block(t), count # 0
    PROVE  IInv'
<1> USE DEF IInv
<1> DEFINE w == Waiters(qhp)
<1>1. w \in Seq(Thread) /\ IsInjective(w) /\ t \notin Range(w)
  <2>1. t \notin {u \in Thread : pc[u] = "wait"}
    OBVIOUS
  <2> QED  BY <2>1, WaitersType DEF BlockedInQueue
<1>2. Prio \in [Thread -> Nat]
  <2>1. Prio \in [Thread -> 0..254]
    BY EventQueueAssumption
  <2> QED  BY <2>1, SMT
<1>3. qhp' = AddPriQueue(w, t, Prio)
  BY DEF Block, WaitIn
<1> HIDE DEF w
<1>4. /\ qhp' \in Seq(Thread)
      /\ Range(qhp') = Range(w) \cup {t}
      /\ IsInjective(qhp')
  <2>1. /\ AddPriQueue(w, t, Prio) \in Seq(Thread)
        /\ Range(AddPriQueue(w, t, Prio)) = Range(w) \cup {t}
    BY <1>1, <1>2, AddPriQueueType
  <2>2. IsInjective(AddPriQueue(w, t, Prio))
    BY <1>1, <1>2, AddPriQueueInjective
  <2> QED  BY <1>3, <2>1, <2>2
<1>5. Waiters(qhp)' = qhp'
  BY <1>4, EventQueueAssumption DEF Waiters
<1>6. TypeOK' /\ CountIsDepth'
  BY <1>4 DEF TypeOK, CountIsDepth, Block, history
<1>7. BlockedInQueue'
  <2>1. {u \in Thread : pc'[u] = "wait"} = {u \in Thread : pc[u] = "wait"} \cup {t}
    BY DEF TypeOK, Block
  <2> QED  BY <1>4, <1>5, <2>1 DEF BlockedInQueue, w
<1>8. NoLostRelease'
  BY DEF NoLostRelease, Block, history
<1> QED
  BY <1>6, <1>7, <1>8

\* Unlocking, with the wake up of the first waiting thread.
LEMMA UnlockIInv ==
    ASSUME IInv, NEW t \in Thread, NutMutexUnlock(t)
    PROVE  IInv'
<1> USE DEF IInv, NutMutexUnlock
<1> DEFINE w == Waiters(qhp)
<1>1. pc[t] = "run" /\ thread = t
  BY DEF UnlockTo
<1>2. count' = Decrement(count) /\ count' \in 0..CountMax
  BY MutexAssumption DEF TypeOK, UnlockTo, Decrement
<1>3. w \in Seq(Thread) /\ IsInjective(w) /\ t \notin Range(w)
  BY <1>1, WaitersType DEF BlockedInQueue
<1>4. /\ holds' \in [Thread -> 0..CountMax] /\ overdrawn' \subseteq Thread
      /\ CountIsDepth'
  <2>1. Decrement(holds[t]) \in 0..CountMax
    BY MutexAssumption DEF TypeOK, Decrement
  <2>2. holds[t] = count
    BY <1>1 DEF CountIsDepth
  <2> QED  BY <1>1, <1>2, <2>1, <2>2 DEF TypeOK, CountIsDepth, UnlockTo
<1>5. CASE count' # 0
  <2>1. qhp' = qhp /\ pc' = pc
    BY <1>1, <1>2, <1>5 DEF UnlockTo, Released, TypeOK
  <2>2. thread' = thread /\ count' \in 0..CountMax
    BY <1>2 DEF UnlockTo
  <2>3. TypeOK'
    BY <1>4, <2>1, <2>2 DEF TypeOK
  <2>4. BlockedInQueue' /\ NoLostRelease'
    BY <1>5, <2>1 DEF BlockedInQueue, NoLostRelease, Waiters
  <2> QED  BY <1>4, <2>3, <2>4
<1>6. CASE count' = 0 /\ w = <<>>
  <2>1. qhp' = SIGNALED /\ pc' = pc
    BY <1>1, <1>6 DEF UnlockTo, Released, WokenBy, PostAsync, TypeOK
  <2>2. Waiters(qhp)' = <<>>
    BY <2>1 DEF Waiters
  <2>3. thread' = thread /\ count' \in 0..CountMax
    BY <1>2 DEF UnlockTo
  <2>4. TypeOK'
    BY <1>4, <2>1, <2>3 DEF TypeOK
  <2>5. BlockedInQueue' /\ NoLostRelease'
    BY <1>6, <2>1, <2>2 DEF BlockedInQueue, NoLostRelease
  <2> QED  BY <1>4, <2>4, <2>5
<1>7. CASE count' = 0 /\ w # <<>>
  <2> DEFINE h == Head(qhp)
  <2>1. w = qhp
    BY <1>7 DEF Waiters
  <2>2. /\ Tail(qhp) \in Seq(Thread) /\ h \in Thread
        /\ IsInjective(Tail(qhp))
        /\ Range(Tail(qhp)) = Range(qhp) \ {h}
        /\ h \in Range(qhp)
    BY <1>3, <1>7, <2>1, TailInjective
  <2>3. /\ qhp' = Tail(qhp)
        /\ pc' = [u \in Thread |-> IF u = t THEN "run"
                                   ELSE IF u = h THEN "woken" ELSE pc[u]]
    BY <1>7, <2>1 DEF UnlockTo, Released, WokenBy, PostAsync
  <2> HIDE DEF h
  <2>4. h # t
    BY <1>3, <2>1, <2>2
  <2>5. Waiters(qhp)' = Tail(qhp)
    BY <2>2, <2>3, EventQueueAssumption DEF Waiters
  <2>6. TypeOK'
    <3>1. thread' = thread /\ count' \in 0..CountMax
      BY <1>2 DEF UnlockTo
    <3> QED  BY <1>4, <2>2, <2>3, <3>1 DEF TypeOK
  <2>7. BlockedInQueue'
    <3>1. {u \in Thread : pc'[u] = "wait"} = {u \in Thread : pc[u] = "wait"} \ {h}
      BY <1>1, <2>3
    <3> QED  BY <2>1, <2>2, <2>5, <3>1 DEF BlockedInQueue
  <2>8. NoLostRelease'
    BY <2>2, <2>3, <2>4 DEF NoLostRelease
  <2> QED  BY <1>4, <2>6, <2>7, <2>8
<1> QED
  BY <1>5, <1>6, <1>7

\* Every step of every thread preserves the invariant.
LEMMA NextIInv ==
    ASSUME IInv, [Next]_vars
    PROVE  IInv'
<1>1. CASE UNCHANGED vars
  BY <1>1 DEF vars, mutex, history, IInv, TypeOK, CountIsDepth, BlockedInQueue,
              NoLostRelease, Waiters
<1>2. ASSUME NEW t \in Thread, NutMutexLock(t)  PROVE IInv'
  BY <1>2, AcquireIInv, BlockIInv DEF NutMutexLock, MayLock
<1>3. ASSUME NEW t \in Thread, LockRetry(t)  PROVE IInv'
  BY <1>3, AcquireIInv, BlockIInv DEF LockRetry
<1>4. ASSUME NEW t \in Thread, NutMutexTrylock(t)  PROVE IInv'
  BY <1>4, AcquireIInv DEF NutMutexTrylock
<1>5. ASSUME NEW t \in Thread, NutMutexUnlock(t)  PROVE IInv'
  BY <1>5, UnlockIInv
<1> QED
  BY <1>1, <1>2, <1>3, <1>4, <1>5 DEF Next

\* So it holds in every state.
LEMMA IInvAlways == Spec => []IInv
<1>1. IInv /\ [Next]_vars => IInv'
  BY NextIInv
<1> QED
  BY InitIInv, <1>1, PTL DEF Spec

\* Every variable of the mutex keeps its type; count keeps to its 16 bits.
THEOREM MutexTypeCorrect == Spec => []TypeOK
  BY IInvAlways, PTL DEF IInv

\* No two threads that undo their own locks only have the mutex locked at the
\* same time, whatever the order in which NutMutexLock, NutMutexTrylock and
\* NutMutexUnlock run.
THEOREM MutexMutualExclusion == Spec => []MutualExclusion
<1>1. IInv => MutualExclusion
  BY DEF IInv, TypeOK, CountIsDepth, MutualExclusion
<1> QED
  BY IInvAlways, <1>1, PTL

\* mutex->count is, modulo its width, the locks less the unlocks of
\* mutex->thread, and nobody else has any lock to undo: what NutMutexUnlock
\* leaves behind for a thread that unlocks once too often is a counter of -1.
THEOREM MutexCountIsDepth == Spec => []CountIsDepth
  BY IInvAlways, PTL DEF IInv

\* The threads blocked in NutMutexLock are the ones in the queue, once each.
THEOREM MutexBlockedInQueue == Spec => []BlockedInQueue
  BY IInvAlways, PTL DEF IInv

\* A free mutex that threads wait for has woken one of them up, unless somebody
\* unlocked it once too often.
THEOREM MutexNoLostRelease == Spec => []NoLostRelease
  BY IInvAlways, PTL DEF IInv

-----------------------------------------------------------------------------
(***************************************************************************)
(* Condition variables.  A fulfilled condition that no consumer will look  *)
(* at has not been forgotten by the ones that sleep or are about to: only  *)
(* a broadcast passed them by, or the event queue remembers a signal.      *)
(***************************************************************************)
OnlyConsumersWait ==
    \A t \in Thread :
        pc[t] \in {"unlocked", "blocked", "relock"} => t \in Consumer

SleepersInEvent ==
    /\ {t \in Thread : pc[t] = "blocked"} = Range(Waiters(event))
    /\ IsInjective(Waiters(event))

NotForgotten ==
    fulfilled /\ (\A u \in Thread : ~WillCheck(u)) =>
        \A t \in Thread :
           /\ pc[t] = "blocked" => t \in overtaken
           /\ pc[t] = "unlocked" => t \in overtaken \/ event = SIGNALED

\* Users of a condition unlock what they have locked, so the counter of its
\* mutex does not wrap around.
DepthOK ==
    /\ overdrawn = {}
    /\ \A t \in Thread : holds[t] \in 0..MaxDepth /\ (pc[t] # "run" => holds[t] < MaxDepth)

CondIInv ==
    /\ CondTypeOK
    /\ DepthOK
    /\ OnlyConsumersWait
    /\ BlockedInQueue
    /\ SleepersInEvent
    /\ NotForgotten

\* What an event queue holds: nothing, a signal or threads, each of them once.
IsQueue(q) == q \in Seq(Thread) \cup {SIGNALED} /\ IsInjective(Waiters(q))

\* NutEventWait links a thread into the queue.
LEMMA WaitInQueue ==
    ASSUME NEW q, IsQueue(q), NEW t \in Thread, t \notin Range(Waiters(q))
    PROVE  /\ IsQueue(WaitIn(q, t))
           /\ WaitIn(q, t) # SIGNALED
           /\ Range(Waiters(WaitIn(q, t))) = Range(Waiters(q)) \cup {t}
<1> DEFINE w == Waiters(q)
           r == AddPriQueue(w, t, Prio)
<1>1. w \in Seq(Thread) /\ IsInjective(w) /\ t \notin Range(w)
  BY EmptySeq DEF IsQueue, Waiters
<1>2. Prio \in [Thread -> Nat]
  <2>1. Prio \in [Thread -> 0..254]
    BY EventQueueAssumption
  <2> QED  BY <2>1, SMT
<1>3. WaitIn(q, t) = r
  BY DEF WaitIn
<1> HIDE DEF w
<1>4. r \in Seq(Thread) /\ Range(r) = Range(w) \cup {t}
  BY <1>1, <1>2, AddPriQueueType
<1>5. IsInjective(r)
  BY <1>1, <1>2, AddPriQueueInjective
<1> HIDE DEF r
<1>6. r # SIGNALED /\ Waiters(r) = r
  BY <1>4, EventQueueAssumption DEF Waiters
<1> QED
  BY <1>3, <1>4, <1>5, <1>6 DEF IsQueue, w

\* NutEventPostAsync takes out the thread it wakes, if there is one.
LEMMA PostQueue ==
    ASSUME NEW q, IsQueue(q)
    PROVE  /\ IsQueue(PostAsync(q))
           /\ WokenBy(q) \subseteq Range(Waiters(q))
           /\ Range(Waiters(PostAsync(q))) = Range(Waiters(q)) \ WokenBy(q)
           /\ WokenBy(q) = {} => Range(Waiters(q)) = {} /\ PostAsync(q) = SIGNALED
<1>1. CASE Waiters(q) = <<>>
  <2>1. WokenBy(q) = {} /\ PostAsync(q) = SIGNALED
    BY <1>1 DEF WokenBy, PostAsync
  <2>2. Waiters(SIGNALED) = <<>>
    BY DEF Waiters
  <2> QED  BY <1>1, <2>1, <2>2, EmptyChain DEF IsQueue
<1>2. CASE Waiters(q) # <<>>
  <2>1. q # SIGNALED /\ Waiters(q) = q /\ q \in Seq(Thread) /\ IsInjective(q) /\ q # <<>>
    BY <1>2 DEF Waiters, IsQueue
  <2>2. /\ Tail(q) \in Seq(Thread) /\ IsInjective(Tail(q))
        /\ Range(Tail(q)) = Range(q) \ {Head(q)} /\ Head(q) \in Range(q)
    BY <2>1, TailInjective
  <2>3. WokenBy(q) = {Head(q)} /\ PostAsync(q) = Tail(q)
    BY <1>2 DEF WokenBy, PostAsync
  <2>4. Waiters(Tail(q)) = Tail(q)
    BY <2>2, EventQueueAssumption DEF Waiters
  <2> QED  BY <2>1, <2>2, <2>3, <2>4 DEF IsQueue
<1> QED
  BY <1>1, <1>2

\* NutEventTimeout takes its thread out of the queue.
LEMMA TimeOutQueue ==
    ASSUME NEW q, IsQueue(q), NEW t, t \in Range(Waiters(q))
    PROVE  /\ IsQueue(TimeOut(q, t))
           /\ Range(Waiters(TimeOut(q, t))) = Range(Waiters(q)) \ {t}
<1>1. q # SIGNALED
  BY EmptyChain DEF Waiters
<1>2. q \in Seq(Thread) /\ IsInjective(q) /\ Waiters(q) = q
  BY <1>1 DEF IsQueue, Waiters
<1>3. /\ RemoveQueue(q, t) \in Seq(Thread) /\ IsInjective(RemoveQueue(q, t))
      /\ Range(RemoveQueue(q, t)) = Range(q) \ {t}
  BY <1>2, RemoveQueueInjective
<1>4. Waiters(RemoveQueue(q, t)) = RemoveQueue(q, t)
  BY <1>3, EventQueueAssumption DEF Waiters
<1> QED
  BY <1>2, <1>3, <1>4 DEF IsQueue, TimeOut

\* A condition in zeroed memory has the invariant.
LEMMA CondInitIInv == CondInit => CondIInv
<1> SUFFICES ASSUME CondInit PROVE CondIInv
  OBVIOUS
<1> USE DEF CondInit, Init
<1>1. Waiters(qhp) = <<>> /\ Waiters(event) = <<>>
  BY EventQueueAssumption, EmptySeq DEF Waiters
<1>2. CondTypeOK /\ DepthOK
  BY EmptySeq, MutexAssumption DEF CondTypeOK, DepthOK
<1>3. BlockedInQueue /\ SleepersInEvent
  BY <1>1, EmptyChain DEF BlockedInQueue, SleepersInEvent
<1> QED
  BY <1>2, <1>3 DEF CondIInv, OnlyConsumersWait, NotForgotten

\* The two queues, as the operations on them need them.
LEMMA CondQueues ==
    ASSUME CondIInv
    PROVE  IsQueue(qhp) /\ IsQueue(event)
  BY DEF CondIInv, CondTypeOK, BlockedInQueue, SleepersInEvent, IsQueue

\* Somebody who will look at the condition is all it takes.
LEMMA SomeoneChecks ==
    ASSUME NEW u \in Thread, WillCheck(u)'
    PROVE  NotForgotten'
  BY DEF NotForgotten

\* Steps that keep the waiting threads and their queue as they are.
LEMMA StillNotForgotten ==
    ASSUME NotForgotten, event' = event, overtaken' = overtaken,
           fulfilled' => fulfilled,
           \A u \in Thread : WillCheck(u) => WillCheck(u)',
           \A u \in Thread : pc'[u] \in {"blocked", "unlocked"} => pc'[u] = pc[u]
    PROVE  NotForgotten'
  BY DEF NotForgotten

\* Locking the mutex, at last or at once.
LEMMA CondAcquire ==
    ASSUME CondIInv, NEW t \in Thread, Acquire(t), holds[t] < MaxDepth,
           pc[t] \notin {"wait", "blocked"}, UNCHANGED <<event, ms>>
    PROVE  /\ thread' \in Thread \cup {NULL} /\ count' \in 0..CountMax
           /\ qhp' \in Seq(Thread) \cup {SIGNALED}
           /\ holds' \in [Thread -> 0..CountMax] /\ holds'[t] > 0
           /\ \A u \in Thread : u # t => holds'[u] = holds[u]
           /\ pc' = [pc EXCEPT ![t] = "run"]
           /\ DepthOK' /\ OnlyConsumersWait' /\ BlockedInQueue' /\ SleepersInEvent'
<1> USE DEF CondIInv
<1>1. count' \in 0..CountMax
  BY MutexAssumption DEF CondTypeOK, Acquire, Increment
<1>2. /\ holds' \in [Thread -> 0..CountMax] /\ holds'[t] > 0
      /\ \A u \in Thread : u # t => holds'[u] = holds[u]
      /\ holds'[t] = holds[t] + 1
  <2>1. Increment(holds[t]) = holds[t] + 1 /\ Increment(holds[t]) \in 1..CountMax
    BY MutexAssumption DEF CondTypeOK, Increment
  <2> QED  BY <2>1 DEF CondTypeOK, Acquire
<1>3. pc' = [pc EXCEPT ![t] = "run"] /\ qhp' = qhp /\ thread' = t
  BY DEF Acquire
<1>4. OnlyConsumersWait'
  BY <1>3 DEF CondTypeOK, OnlyConsumersWait
<1>5. /\ {u \in Thread : pc'[u] = "wait"} = {u \in Thread : pc[u] = "wait"}
      /\ {u \in Thread : pc'[u] = "blocked"} = {u \in Thread : pc[u] = "blocked"}
  BY <1>3 DEF CondTypeOK
<1>6. BlockedInQueue' /\ SleepersInEvent'
  BY <1>3, <1>5 DEF BlockedInQueue, SleepersInEvent, Waiters
<1>7. DepthOK'
  <2>1. overdrawn' = {}
    BY DEF DepthOK, Acquire
  <2>2. holds'[t] \in 0..MaxDepth /\ pc'[t] = "run"
    BY <1>2, <1>3, MutexAssumption DEF CondTypeOK
  <2>3. \A u \in Thread : u # t => holds'[u] = holds[u] /\ pc'[u] = pc[u]
    BY <1>2, <1>3 DEF CondTypeOK
  <2> QED  BY <2>1, <2>2, <2>3 DEF DepthOK
<1> QED
  BY <1>1, <1>2, <1>3, <1>4, <1>6, <1>7 DEF CondTypeOK

\* Waiting for the mutex.
LEMMA CondBlock ==
    ASSUME CondIInv, NEW t \in Thread, Block(t), holds[t] < MaxDepth,
           pc[t] \notin {"wait", "blocked"}, UNCHANGED <<event, ms>>
    PROVE  /\ thread' \in Thread \cup {NULL} /\ count' \in 0..CountMax
           /\ qhp' \in Seq(Thread) \cup {SIGNALED}
           /\ holds' = holds
           /\ pc' = [pc EXCEPT ![t] = "wait"]
           /\ DepthOK' /\ OnlyConsumersWait' /\ BlockedInQueue' /\ SleepersInEvent'
<1> USE DEF CondIInv
<1>1. pc' = [pc EXCEPT ![t] = "wait"] /\ qhp' = WaitIn(qhp, t)
      /\ thread' = thread /\ count' = count /\ holds' = holds
      /\ overdrawn' = overdrawn
  BY DEF Block, history
<1>2. IsQueue(qhp) /\ t \notin Range(Waiters(qhp))
  BY CondQueues DEF BlockedInQueue
<1>3. IsQueue(qhp') /\ Range(Waiters(qhp')) = Range(Waiters(qhp)) \cup {t}
  BY <1>1, <1>2, WaitInQueue
<1>4. OnlyConsumersWait'
  BY <1>1 DEF CondTypeOK, OnlyConsumersWait
<1>5. /\ {u \in Thread : pc'[u] = "wait"} = {u \in Thread : pc[u] = "wait"} \cup {t}
      /\ {u \in Thread : pc'[u] = "blocked"} = {u \in Thread : pc[u] = "blocked"}
  BY <1>1 DEF CondTypeOK
<1>6. Waiters(qhp)' = Waiters(qhp') /\ Waiters(event)' = Waiters(event)
  BY DEF Waiters
<1>7. BlockedInQueue' /\ SleepersInEvent'
  BY <1>3, <1>5, <1>6 DEF BlockedInQueue, SleepersInEvent, IsQueue
<1>8. qhp' \in Seq(Thread) \cup {SIGNALED}
  BY <1>3 DEF IsQueue
<1>9. DepthOK'
  BY <1>1 DEF CondTypeOK, DepthOK
<1> QED
  BY <1>1, <1>4, <1>7, <1>8, <1>9 DEF CondTypeOK

\* NutMutexUnlock for a thread that goes on at label l, which is not one
\* of a thread in a queue.
LEMMA CondUnlockTo ==
    ASSUME CondIInv, NEW t \in Thread, NEW l, UnlockTo(t, l), holds[t] > 0,
           l \in {"run", "unlocked"},
           l # "run" => t \in Consumer, event' = event
    PROVE  /\ thread' \in Thread \cup {NULL} /\ count' \in 0..CountMax
           /\ qhp' \in Seq(Thread) \cup {SIGNALED}
           /\ holds' \in [Thread -> 0..CountMax]
           /\ \A u \in Thread : u # t => holds'[u] = holds[u]
           /\ pc' \in [Thread -> {"run", "wait", "woken",
                                  "unlocked", "blocked", "relock"}]
           /\ pc'[t] = l
           /\ \A u \in Thread : u # t =>
                 pc'[u] = pc[u] \/ (pc[u] = "wait" /\ pc'[u] = "woken")
           /\ DepthOK' /\ OnlyConsumersWait' /\ BlockedInQueue' /\ SleepersInEvent'
<1> USE DEF CondIInv
<1> DEFINE w == IF Released(count') THEN WokenBy(qhp) ELSE {}
<1>1. /\ pc[t] = "run" /\ thread' = thread
      /\ qhp' = IF Released(count') THEN PostAsync(qhp) ELSE qhp
      /\ pc' = [u \in Thread |-> IF u = t THEN l
                                 ELSE IF u \in w THEN "woken" ELSE pc[u]]
  BY DEF UnlockTo
<1>2. count' \in 0..CountMax
  BY MutexAssumption DEF CondTypeOK, UnlockTo, Decrement
<1>3. /\ holds' \in [Thread -> 0..CountMax]
      /\ \A u \in Thread : u # t => holds'[u] = holds[u]
      /\ holds'[t] = holds[t] - 1 /\ overdrawn' = overdrawn
  <2>1. Decrement(holds[t]) = holds[t] - 1 /\ Decrement(holds[t]) \in 0..CountMax
    BY MutexAssumption DEF CondTypeOK, Decrement
  <2> QED  BY <2>1 DEF CondTypeOK, UnlockTo
<1>4. /\ IsQueue(qhp') /\ w \subseteq Range(Waiters(qhp))
      /\ Range(Waiters(qhp')) = Range(Waiters(qhp)) \ w
  <2>1. IsQueue(qhp)
    BY CondQueues
  <2> QED  BY <1>1, <2>1, PostQueue
<1> HIDE DEF w
<1>5. w \subseteq {u \in Thread : pc[u] = "wait"} /\ t \notin w
  BY <1>1, <1>4 DEF BlockedInQueue
<1>6. pc' \in [Thread -> {"run", "wait", "woken", "unlocked", "blocked", "relock"}]
  BY <1>1 DEF CondTypeOK
<1>7. pc'[t] = l /\ \A u \in Thread : u # t =>
                      pc'[u] = pc[u] \/ (pc[u] = "wait" /\ pc'[u] = "woken")
  BY <1>1, <1>5
<1>8. OnlyConsumersWait'
  BY <1>7 DEF OnlyConsumersWait
<1>9. /\ {u \in Thread : pc'[u] = "wait"} = {u \in Thread : pc[u] = "wait"} \ w
      /\ {u \in Thread : pc'[u] = "blocked"} = {u \in Thread : pc[u] = "blocked"}
  BY <1>1, <1>5
<1>10. Waiters(qhp)' = Waiters(qhp') /\ Waiters(event)' = Waiters(event)
  BY DEF Waiters
<1>11. BlockedInQueue' /\ SleepersInEvent'
  BY <1>4, <1>9, <1>10 DEF BlockedInQueue, SleepersInEvent, IsQueue
<1>12. qhp' \in Seq(Thread) \cup {SIGNALED} /\ thread' \in Thread \cup {NULL}
  BY <1>1, <1>4 DEF IsQueue, CondTypeOK
<1>13. DepthOK'
  <2>1. holds[t] \in 0..MaxDepth /\ holds[t] > 0
    BY DEF DepthOK
  <2>2. holds'[t] \in 0..MaxDepth /\ holds'[t] < MaxDepth
    BY <1>3, <2>1, MutexAssumption
  <2>3. \A u \in Thread : u # t => holds'[u] = holds[u] /\ (pc'[u] # "run" => pc[u] # "run")
    BY <1>3, <1>7
  <2> QED  BY <1>3, <2>2, <2>3 DEF DepthOK
<1> QED
  BY <1>2, <1>3, <1>6, <1>7, <1>8, <1>11, <1>12, <1>13

\* NutConditionLock, and the second half of every NutMutexLock.
LEMMA CondLockIInv ==
    ASSUME CondIInv, NEW t \in Thread, pc[t] \in {"run", "woken"},
           pc[t] = "run" => Shallow(t), Acquire(t) \/ Block(t), UNCHANGED <<event, fulfilled, ms, rc, overtaken>>
    PROVE  CondIInv'
<1>0. holds[t] < MaxDepth
  BY DEF CondIInv, DepthOK, Shallow
<1>1. /\ thread' \in Thread \cup {NULL} /\ count' \in 0..CountMax
      /\ qhp' \in Seq(Thread) \cup {SIGNALED} /\ holds' \in [Thread -> 0..CountMax]
      /\ \A u \in Thread : u # t => holds'[u] = holds[u]
      /\ \/ holds'[t] > 0 /\ pc' = [pc EXCEPT ![t] = "run"]
         \/ pc' = [pc EXCEPT ![t] = "wait"]
      /\ DepthOK' /\ OnlyConsumersWait' /\ BlockedInQueue' /\ SleepersInEvent'
  <2>1. CASE Acquire(t)
    BY <1>0, <2>1, CondAcquire
  <2>2. CASE Block(t)
    BY <1>0, <2>2, CondBlock DEF CondIInv, CondTypeOK
  <2> QED  BY <2>1, <2>2
<1>2. CondTypeOK'
  BY <1>1 DEF CondIInv, CondTypeOK
<1>3. NotForgotten'
  <2>1. \A u \in Thread : WillCheck(u) => WillCheck(u)'
    BY <1>1 DEF WillCheck, CondIInv, CondTypeOK
  <2>2. \A u \in Thread : pc'[u] \in {"blocked", "unlocked"} => pc'[u] = pc[u]
    BY <1>1 DEF CondIInv, CondTypeOK
  <2> QED  BY <2>1, <2>2, StillNotForgotten DEF CondIInv
<1> QED
  BY <1>1, <1>2, <1>3 DEF CondIInv

\* NutConditionUnlock: a consumer leaves the condition used up, and a producer
\* is none of those who look at it.
LEMMA CondUnlockIInv ==
    ASSUME CondIInv, NEW t \in Thread, NutConditionUnlock(t)
    PROVE  CondIInv'
<1>1. /\ UnlockTo(t, "run") /\ event' = event /\ holds[t] > 0
      /\ fulfilled' = (fulfilled /\ t \notin Consumer)
      /\ UNCHANGED <<ms, rc, overtaken>>
  BY DEF NutConditionUnlock, NutMutexUnlock
<1>2. /\ thread' \in Thread \cup {NULL} /\ count' \in 0..CountMax
      /\ qhp' \in Seq(Thread) \cup {SIGNALED}
      /\ holds' \in [Thread -> 0..CountMax]
      /\ \A u \in Thread : u # t => holds'[u] = holds[u]
      /\ pc' \in [Thread -> {"run", "wait", "woken", "unlocked", "blocked", "relock"}]
      /\ pc'[t] = "run"
      /\ \A u \in Thread : u # t => pc'[u] = pc[u] \/ (pc[u] = "wait" /\ pc'[u] = "woken")
      /\ DepthOK' /\ OnlyConsumersWait' /\ BlockedInQueue' /\ SleepersInEvent'
  BY <1>1, CondUnlockTo
<1>3. CondTypeOK'
  BY <1>1, <1>2 DEF CondIInv, CondTypeOK
<1>4. NotForgotten'
  <2>1. CASE t \in Consumer
    BY <1>1, <2>1 DEF NotForgotten
  <2>2. CASE t \notin Consumer
    <3>1. \A u \in Thread : WillCheck(u) => WillCheck(u)'
      BY <1>2, <2>2 DEF WillCheck
    <3>2. \A u \in Thread : pc'[u] \in {"blocked", "unlocked"} => pc'[u] = pc[u]
      BY <1>2
    <3> QED  BY <1>1, <3>1, <3>2, StillNotForgotten DEF CondIInv
  <2> QED  BY <2>1, <2>2
<1> QED
  BY <1>2, <1>3, <1>4 DEF CondIInv

\* The first half of the wait is taken while the condition is not fulfilled.
LEMMA CondLeaveIInv ==
    ASSUME CondIInv, NEW t \in Thread, MayWait(t),
           UnlockTo(t, "unlocked"), UNCHANGED <<event, fulfilled, rc, overtaken>>,
           ms' \in [Thread -> Delay \cup {0}]
    PROVE  CondIInv'
<1>1. t \in Consumer /\ ~fulfilled' /\ holds[t] > 0
  BY DEF MayWait
<1>2. /\ thread' \in Thread \cup {NULL} /\ count' \in 0..CountMax
      /\ qhp' \in Seq(Thread) \cup {SIGNALED}
      /\ holds' \in [Thread -> 0..CountMax]
      /\ pc' \in [Thread -> {"run", "wait", "woken", "unlocked", "blocked", "relock"}]
      /\ DepthOK' /\ OnlyConsumersWait' /\ BlockedInQueue' /\ SleepersInEvent'
  BY <1>1, CondUnlockTo
<1>3. CondTypeOK'
  BY <1>2 DEF CondIInv, CondTypeOK
<1>4. NotForgotten'
  BY <1>1 DEF NotForgotten
<1> QED
  BY <1>2, <1>3, <1>4 DEF CondIInv

\* NutConditionTimedWait, up to the yield.
LEMMA CondWaitIInv ==
    ASSUME CondIInv, NEW t \in Thread,
           \E d \in Delay : NutConditionTimedWait(t, d)
    PROVE  CondIInv'
<1>2. ASSUME NEW d \in Delay, NutConditionTimedWait(t, d), d < 0  PROVE CondIInv'
  <2>1. /\ rc' = [rc EXCEPT ![t] = -1]
        /\ UNCHANGED <<vars, ms, event, fulfilled, overtaken>>
    BY <1>2 DEF NutConditionTimedWait
  <2>2. CondTypeOK'
    BY <2>1 DEF CondIInv, CondTypeOK, vars, mutex, history
  <2>3. DepthOK' /\ OnlyConsumersWait' /\ BlockedInQueue' /\ SleepersInEvent' /\ NotForgotten'
    BY <2>1 DEF CondIInv, DepthOK, OnlyConsumersWait, BlockedInQueue, SleepersInEvent,
                NotForgotten, WillCheck, Waiters, vars, mutex, history
  <2> QED  BY <2>2, <2>3 DEF CondIInv
<1>3. ASSUME NEW d \in Delay, NutConditionTimedWait(t, d), ~(d < 0)  PROVE CondIInv'
  <2>1. /\ MayWait(t) /\ UnlockTo(t, "unlocked")
        /\ UNCHANGED <<event, fulfilled, rc, overtaken>>
        /\ ms' = [ms EXCEPT ![t] = d]
    BY <1>3 DEF NutConditionTimedWait
  <2>2. ms' \in [Thread -> Delay \cup {0}]
    BY <2>1 DEF CondIInv, CondTypeOK
  <2> QED  BY <2>1, <2>2, CondLeaveIInv
<1> QED
  BY <1>2, <1>3

\* NutEventWait in NutConditionTimedWait: a remembered signal sends the thread
\* on to the condition; without one, nobody has been promised anything.
LEMMA EventWaitIInv ==
    ASSUME CondIInv, NEW t \in Thread, EventWait(t)
    PROVE  CondIInv'
<1> USE DEF CondIInv
<1>1. /\ pc[t] = "unlocked" /\ t \in Consumer
      /\ UNCHANGED <<mutex, history, fulfilled, ms, rc, overtaken>>
  BY DEF EventWait, OnlyConsumersWait
<1>2. CASE event = SIGNALED
  <2>1. event' = <<>> /\ pc' = [pc EXCEPT ![t] = "relock"]
    BY <1>2 DEF EventWait, AlreadySignaled
  <2>2. Waiters(event) = <<>> /\ Waiters(event)' = <<>>
    BY <1>2, <2>1 DEF Waiters
  <2>3. CondTypeOK' /\ DepthOK' /\ OnlyConsumersWait'
    BY <1>1, <2>1, EmptySeq DEF CondTypeOK, DepthOK, OnlyConsumersWait, mutex, history
  <2>4. /\ {u \in Thread : pc'[u] = "wait"} = {u \in Thread : pc[u] = "wait"}
        /\ {u \in Thread : pc'[u] = "blocked"} = {u \in Thread : pc[u] = "blocked"}
    BY <1>1, <2>1 DEF CondTypeOK
  <2>5. BlockedInQueue' /\ SleepersInEvent'
    BY <1>1, <2>2, <2>4 DEF BlockedInQueue, SleepersInEvent, Waiters, mutex
  <2>6. WillCheck(t)'
    BY <1>1, <2>1 DEF WillCheck, CondTypeOK, history
  <2> QED  BY <2>3, <2>5, <2>6, SomeoneChecks
<1>3. CASE event # SIGNALED
  <2>1. event' = WaitIn(event, t) /\ pc' = [pc EXCEPT ![t] = "blocked"]
    BY <1>3 DEF EventWait, AlreadySignaled
  <2>2. /\ IsQueue(event') /\ event' # SIGNALED
        /\ Range(Waiters(event')) = Range(Waiters(event)) \cup {t}
    <3>1. IsQueue(event) /\ t \notin Range(Waiters(event))
      BY <1>1, CondQueues DEF SleepersInEvent
    <3> QED  BY <2>1, <3>1, WaitInQueue
  <2>3. CondTypeOK' /\ DepthOK' /\ OnlyConsumersWait'
    BY <1>1, <2>1, <2>2 DEF CondTypeOK, DepthOK, OnlyConsumersWait, mutex, history, IsQueue
  <2>4. /\ {u \in Thread : pc'[u] = "wait"} = {u \in Thread : pc[u] = "wait"}
        /\ {u \in Thread : pc'[u] = "blocked"} = {u \in Thread : pc[u] = "blocked"} \cup {t}
    BY <1>1, <2>1 DEF CondTypeOK
  <2>5. BlockedInQueue'
    BY <1>1, <2>4 DEF BlockedInQueue, Waiters, mutex
  <2>6. SleepersInEvent'
    <3>1. Waiters(event)' = Waiters(event')
      BY DEF Waiters
    <3> QED  BY <2>2, <2>4, <3>1 DEF SleepersInEvent, IsQueue
  <2>7. NotForgotten'
    <3>1. \A u \in Thread : WillCheck(u) => WillCheck(u)'
      BY <1>1, <2>1 DEF WillCheck, CondTypeOK, history
    <3>2. pc'[t] = "blocked" /\ \A u \in Thread : u # t => pc'[u] = pc[u]
      BY <2>1 DEF CondTypeOK
    <3> QED  BY <1>1, <1>3, <3>1, <3>2 DEF NotForgotten
  <2> QED  BY <2>3, <2>5, <2>6, <2>7
<1> QED
  BY <1>2, <1>3

\* NutEventTimeout sends its thread to look at the condition once more.
LEMMA EventTimeoutIInv ==
    ASSUME CondIInv, NEW t \in Thread, EventTimeout(t)
    PROVE  CondIInv'
<1> USE DEF CondIInv
<1>1. /\ pc[t] = "blocked" /\ t \in Consumer
      /\ event' = TimeOut(event, t) /\ pc' = [pc EXCEPT ![t] = "relock"]
      /\ UNCHANGED <<mutex, history, fulfilled, ms, rc, overtaken>>
  BY DEF EventTimeout, OnlyConsumersWait
<1>2. IsQueue(event') /\ Range(Waiters(event')) = Range(Waiters(event)) \ {t}
  <2>1. IsQueue(event) /\ t \in Range(Waiters(event))
    BY <1>1, CondQueues DEF SleepersInEvent
  <2> QED  BY <1>1, <2>1, TimeOutQueue
<1>3. CondTypeOK' /\ DepthOK' /\ OnlyConsumersWait'
  BY <1>1, <1>2 DEF CondTypeOK, DepthOK, OnlyConsumersWait, mutex, history, IsQueue
<1>4. /\ {u \in Thread : pc'[u] = "wait"} = {u \in Thread : pc[u] = "wait"}
      /\ {u \in Thread : pc'[u] = "blocked"} = {u \in Thread : pc[u] = "blocked"} \ {t}
  BY <1>1 DEF CondTypeOK
<1>5. BlockedInQueue'
  BY <1>1, <1>4 DEF BlockedInQueue, Waiters, mutex
<1>6. SleepersInEvent'
  <2>1. Waiters(event)' = Waiters(event')
    BY DEF Waiters
  <2> QED  BY <1>2, <1>4, <2>1 DEF SleepersInEvent, IsQueue
<1>7. WillCheck(t)'
  BY <1>1 DEF WillCheck, CondTypeOK, history
<1> QED
  BY <1>3, <1>5, <1>6, <1>7, SomeoneChecks

\* The NutMutexLock of a thread back from its wait.
LEMMA RelockIInv ==
    ASSUME CondIInv, NEW t \in Thread, Relock(t)
    PROVE  CondIInv'
<1>1. /\ pc[t] = "relock" /\ t \in Consumer /\ rc' = [rc EXCEPT ![t] = 0]
      /\ overtaken' = overtaken \ {t} /\ UNCHANGED <<event, fulfilled, ms>>
      /\ Acquire(t) \/ Block(t)
      /\ holds[t] < MaxDepth
  BY DEF Relock, CondIInv, OnlyConsumersWait, DepthOK
<1>2. /\ thread' \in Thread \cup {NULL} /\ count' \in 0..CountMax
      /\ qhp' \in Seq(Thread) \cup {SIGNALED} /\ holds' \in [Thread -> 0..CountMax]
      /\ \/ holds'[t] > 0 /\ pc' = [pc EXCEPT ![t] = "run"]
         \/ pc' = [pc EXCEPT ![t] = "wait"]
      /\ DepthOK' /\ OnlyConsumersWait' /\ BlockedInQueue' /\ SleepersInEvent'
  <2>1. CASE Acquire(t)
    BY <1>1, <2>1, CondAcquire
  <2>2. CASE Block(t)
    BY <1>1, <2>2, CondBlock DEF CondIInv, CondTypeOK
  <2> QED  BY <1>1, <2>1, <2>2
<1>3. CondTypeOK'
  BY <1>1, <1>2 DEF CondIInv, CondTypeOK
<1>4. WillCheck(t)'
  BY <1>1, <1>2 DEF WillCheck, CondIInv, CondTypeOK
<1> QED
  BY <1>2, <1>3, <1>4, SomeoneChecks DEF CondIInv

\* A notification that takes the threads w out of the event queue.
LEMMA WakesIInv ==
    ASSUME CondIInv, NEW t \in Thread, Notify(t), NEW w, Wakes(w),
           w \subseteq Range(Waiters(event)), IsQueue(event'),
           Range(Waiters(event')) = Range(Waiters(event)) \ w,
           overtaken' \subseteq Consumer,
           w = {} => \A u \in Thread : /\ pc[u] # "blocked"
                                       /\ pc[u] = "unlocked" =>
                                             u \in overtaken' \/ event' = SIGNALED
    PROVE  CondIInv'
<1> USE DEF CondIInv
<1>1. UNCHANGED <<mutex, history, ms, rc>>
      /\ pc' = [u \in Thread |-> IF u \in w THEN "relock" ELSE pc[u]]
  BY DEF Notify, Wakes
<1>2. w \subseteq {u \in Thread : pc[u] = "blocked"}
  BY DEF SleepersInEvent
<1>3. w \subseteq Consumer
  BY <1>2 DEF OnlyConsumersWait
<1>4. CondTypeOK' /\ DepthOK'
  BY <1>1, <1>2 DEF CondTypeOK, DepthOK, mutex, history, IsQueue
<1>5. OnlyConsumersWait'
  BY <1>1, <1>3 DEF OnlyConsumersWait
<1>6. /\ {u \in Thread : pc'[u] = "wait"} = {u \in Thread : pc[u] = "wait"}
      /\ {u \in Thread : pc'[u] = "blocked"} = {u \in Thread : pc[u] = "blocked"} \ w
  BY <1>1, <1>2
<1>7. BlockedInQueue'
  BY <1>1, <1>6 DEF BlockedInQueue, Waiters, mutex
<1>8. SleepersInEvent'
  <2>1. Waiters(event)' = Waiters(event')
    BY DEF Waiters
  <2> QED  BY <1>6, <2>1 DEF SleepersInEvent, IsQueue
<1>9. NotForgotten'
  <2>1. CASE w = {}
    BY <1>1, <2>1 DEF NotForgotten
  <2>2. CASE w # {}
    <3>1. PICK u \in w : TRUE
      BY <2>2
    <3>2. u \in Thread /\ WillCheck(u)'
      BY <1>1, <1>2, <1>3 DEF WillCheck
    <3> QED  BY <3>2, SomeoneChecks
  <2> QED  BY <2>1, <2>2
<1> QED
  BY <1>4, <1>5, <1>7, <1>8, <1>9

\* NutConditionSignal wakes one thread or is remembered.
LEMMA SignalIInv ==
    ASSUME CondIInv, NEW t \in Thread, NutConditionSignal(t)
    PROVE  CondIInv'
<1>1. /\ Notify(t) /\ Wakes(WokenBy(event)) /\ event' = PostAsync(event)
      /\ overtaken' = overtaken
  BY DEF NutConditionSignal
<1>2. /\ IsQueue(event') /\ WokenBy(event) \subseteq Range(Waiters(event))
      /\ Range(Waiters(event')) = Range(Waiters(event)) \ WokenBy(event)
      /\ WokenBy(event) = {} => Range(Waiters(event)) = {} /\ event' = SIGNALED
  BY <1>1, CondQueues, PostQueue
<1>3. overtaken' \subseteq Consumer
  BY <1>1 DEF CondIInv, CondTypeOK
<1>4. WokenBy(event) = {} =>
        \A u \in Thread : /\ pc[u] # "blocked"
                          /\ pc[u] = "unlocked" => u \in overtaken' \/ event' = SIGNALED
  BY <1>2 DEF CondIInv, SleepersInEvent
<1> QED
  BY <1>1, <1>2, <1>3, <1>4, WakesIInv

\* NutConditionBroadcast wakes all that wait and overtakes those about to.
LEMMA BroadcastIInv ==
    ASSUME CondIInv, NEW t \in Thread, NutConditionBroadcast(t)
    PROVE  CondIInv'
<1> DEFINE w == Range(Waiters(event))
<1>1. /\ Notify(t) /\ Wakes(w) /\ event' = <<>>
      /\ overtaken' = overtaken \cup {u \in Thread : pc[u] = "unlocked"}
  BY DEF NutConditionBroadcast, BroadcastAsync
<1>2. IsQueue(event') /\ Range(Waiters(event')) = {}
  <2>1. Waiters(<<>>) = <<>>
    BY DEF Waiters
  <2> QED  BY <1>1, <2>1, EmptySeq, EmptyChain DEF IsQueue
<1>3. overtaken' \subseteq Consumer
  BY <1>1 DEF CondIInv, CondTypeOK, OnlyConsumersWait
<1>4. w = {} =>
        \A u \in Thread : /\ pc[u] # "blocked"
                          /\ pc[u] = "unlocked" => u \in overtaken' \/ event' = SIGNALED
  BY <1>1 DEF CondIInv, SleepersInEvent
<1>5. Range(Waiters(event')) = w \ w /\ w \subseteq w
  BY <1>2
<1> HIDE DEF w
<1> QED
  <2>1. w \subseteq Range(Waiters(event)) /\ Range(Waiters(event')) = Range(Waiters(event)) \ w
    BY <1>5 DEF w
  <2> QED  BY <1>1, <1>2, <1>3, <1>4, <2>1, WakesIInv

\* Every step of every thread preserves the invariant.
LEMMA CondNextIInv ==
    ASSUME CondIInv, [CondNext]_cvars
    PROVE  CondIInv'
<1>1. CASE UNCHANGED cvars
  BY <1>1 DEF cvars, vars, mutex, history, CondIInv, CondTypeOK, DepthOK,
              OnlyConsumersWait, BlockedInQueue, SleepersInEvent, NotForgotten, WillCheck, Waiters
<1>2. ASSUME NEW t \in Thread, NutConditionLock(t) \/ CondLockRetry(t)  PROVE CondIInv'
  BY <1>2, CondLockIInv DEF NutConditionLock, CondLockRetry, NutMutexLock, LockRetry
<1>3. ASSUME NEW t \in Thread, NutConditionUnlock(t)  PROVE CondIInv'
  BY <1>3, CondUnlockIInv
<1>4. ASSUME NEW t \in Thread,
             \E d \in Delay : NutConditionTimedWait(t, d)
      PROVE CondIInv'
  BY <1>4, CondWaitIInv
<1>5. ASSUME NEW t \in Thread, NutConditionSignal(t)  PROVE CondIInv'
  BY <1>5, SignalIInv
<1>6. ASSUME NEW t \in Thread, NutConditionBroadcast(t)  PROVE CondIInv'
  BY <1>6, BroadcastIInv
<1>7. ASSUME NEW t \in Thread,
             EventWait(t) \/ EventTimeout(t) \/ Relock(t)
      PROVE CondIInv'
  BY <1>7, EventWaitIInv, EventTimeoutIInv, RelockIInv
<1> QED
  BY <1>1, <1>2, <1>3, <1>4, <1>5, <1>6, <1>7 DEF CondNext, Kernel

\* While the condition is fulfilled and a consumer sleeps in
\* NutConditionTimedWait, some consumer is on its way to look at the condition,
\* unless NutConditionBroadcast has found all sleepers between their unlock and
\* their wait; for any number of threads, delays and depth of the locks.
THEOREM ConditionOnlyBroadcastLoses == CondSpec => []OnlyBroadcastLoses
<1>1. CondIInv /\ [CondNext]_cvars => CondIInv'
  BY CondNextIInv
<1>2. CondIInv => OnlyBroadcastLoses
  BY DEF CondIInv, NotForgotten, OnlyBroadcastLoses
<1> QED
  BY CondInitIInv, <1>1, <1>2, PTL DEF CondSpec

-----------------------------------------------------------------------------
(***************************************************************************)
(* Semaphores.  The counting of NutSemWait and NutSemPost is correct for   *)
(* any number of threads, any priorities and any initial value.            *)
(***************************************************************************)
\* How many threads wait is a function of the value.
SemIInv == SemTypeOK /\ ValueCountsWaiters

\* The waiting threads are a chain.
LEMMA SemWaitersType ==
    ASSUME SemTypeOK
    PROVE  Waiters(sem_qhp) \in Seq(Thread)
  BY EmptySeq DEF SemTypeOK, Waiters

\* NutSemInit establishes the invariant.
LEMMA SemInitIInv == SemInit => SemIInv
<1> SUFFICES ASSUME SemInit PROVE SemIInv
  OBVIOUS
<1>1. Waiters(sem_qhp) = <<>>
  BY DEF SemInit, Waiters
<1>2. Len(<<>>) = 0
  BY EmptySeq
<1>3. SemTypeOK
  BY EmptySeq, SemAssumption DEF SemInit, SemTypeOK
<1>4. ValueCountsWaiters
  BY <1>1, <1>2, SemAssumption DEF SemInit, ValueCountsWaiters
<1> QED
  BY <1>3, <1>4 DEF SemIInv

\* The thread takes a permit, or enters the queue as the value turns (more)
\* negative.
LEMMA SemWaitIInv ==
    ASSUME SemIInv, NEW t \in Thread, NutSemWait(t)
    PROVE  SemIInv'
<1> USE DEF SemIInv
<1> DEFINE w == Waiters(sem_qhp)
<1>1. value \in Int /\ value' = value - 1
  BY DEF NutSemWait, SemTypeOK
<1>2. w \in Seq(Thread) /\ Len(w) = IF value < 0 THEN -value ELSE 0
  BY SemWaitersType DEF ValueCountsWaiters
<1>3. CASE value' < 0
  <2>1. /\ sem_qhp' = AddPriQueue(w, t, Prio)
        /\ taken' = taken /\ produced' = produced
    BY <1>3 DEF NutSemWait, MustWait, WaitIn
  <2>2. Prio \in [Thread -> Nat]
    <3>1. Prio \in [Thread -> 0..254]
      BY EventQueueAssumption
    <3> QED  BY <3>1, SMT
  <2> HIDE DEF w
  <2>3. sem_qhp' \in Seq(Thread) /\ Len(sem_qhp') = Len(w) + 1
    <3>1. w \in Seq(Thread)
      BY <1>2
    <3>2. /\ AddPriQueue(w, t, Prio) \in Seq(Thread)
          /\ Len(AddPriQueue(w, t, Prio)) = Len(w) + 1
      BY <2>2, <3>1, AddPriQueueType, ZenonT(30)
    <3> QED  BY <2>1, <3>2
  <2>4. Waiters(sem_qhp)' = sem_qhp'
    BY <2>3, EventQueueAssumption DEF Waiters
  <2>5. SemTypeOK'
    BY <1>1, <2>1, <2>3 DEF SemTypeOK
  <2>6. ValueCountsWaiters'
    <3>1. Len(w) = -value /\ Len(Waiters(sem_qhp)') = Len(w) + 1
      BY <1>1, <1>2, <1>3, <2>3, <2>4
    <3>2. Len(Waiters(sem_qhp)') = -value'
      BY <1>1, <3>1
    <3> QED  BY <1>3, <3>2 DEF ValueCountsWaiters
  <2> QED  BY <2>5, <2>6
<1>4. CASE ~(value' < 0)
  <2>1. /\ sem_qhp' = sem_qhp /\ produced' = produced
        /\ taken' = [taken EXCEPT ![t] = @ + 1]
    BY <1>4 DEF NutSemWait, MustWait
  <2>2. SemTypeOK'
    BY <1>1, <2>1 DEF SemTypeOK
  <2>3. Waiters(sem_qhp)' = w
    BY <2>1 DEF Waiters
  <2>4. ValueCountsWaiters'
    BY <1>1, <1>2, <1>4, <2>3 DEF ValueCountsWaiters
  <2> QED  BY <2>2, <2>4
<1> QED
  BY <1>3, <1>4

\* A post wakes the first waiting thread if and only if there is one.
LEMMA SemPostIInv ==
    ASSUME SemIInv, NEW t \in Thread, NutSemPost(t)
    PROVE  SemIInv'
<1> USE DEF SemIInv
<1> DEFINE w == Waiters(sem_qhp)
           back == IF taken[t] > 0 THEN 1 ELSE 0
<1>1. value \in Int /\ value' = value + 1
  BY DEF NutSemPost, SemTypeOK
<1>2. w \in Seq(Thread) /\ Len(w) = IF value < 0 THEN -value ELSE 0
  BY SemWaitersType DEF ValueCountsWaiters
<1>3. taken' \in [Thread -> Nat]
  <2> DEFINE wakes == IF MustWake(value + 1) THEN WokenBy(sem_qhp) ELSE {}
  <2>1. taken' = [u \in Thread |-> taken[u] - (IF u = t THEN back ELSE 0)
                                            + (IF u \in wakes THEN 1 ELSE 0)]
    BY DEF NutSemPost
  <2> HIDE DEF wakes
  <2>2. ASSUME NEW u \in Thread
        PROVE  taken[u] - (IF u = t THEN back ELSE 0) + (IF u \in wakes THEN 1 ELSE 0) \in Nat
    BY DEF SemTypeOK
  <2> QED  BY <2>1, <2>2
<1>4. produced' \in 0..MaxPosts
  BY SemAssumption DEF NutSemPost, SemTypeOK
<1>5. CASE value' <= 0
  <2>1. w # <<>> /\ Len(w) >= 1
    BY <1>1, <1>2, <1>5
  <2>2. w = sem_qhp
    BY <2>1 DEF Waiters
  <2>3. sem_qhp' = Tail(sem_qhp)
    BY <1>1, <1>5, <2>1 DEF NutSemPost, MustWake, PostAsync
  <2>4. Tail(sem_qhp) \in Seq(Thread) /\ Len(Tail(sem_qhp)) = Len(w) - 1
    BY <1>2, <2>1, <2>2, HeadTailProperties
  <2>5. Waiters(sem_qhp)' = Tail(sem_qhp)
    BY <2>3, <2>4, EventQueueAssumption DEF Waiters
  <2>6. SemTypeOK'
    BY <1>1, <1>3, <1>4, <2>3, <2>4 DEF SemTypeOK
  <2>7. ValueCountsWaiters'
    <3>1. value < 0 /\ Len(w) = -value
      BY <1>1, <1>2, <1>5
    <3>2. Len(Waiters(sem_qhp)') = -value'
      BY <1>1, <2>4, <2>5, <3>1
    <3> QED  BY <1>1, <1>5, <3>2 DEF ValueCountsWaiters
  <2> QED  BY <2>6, <2>7
<1>6. CASE ~(value' <= 0)
  <2>1. sem_qhp' = sem_qhp
    BY <1>1, <1>6 DEF NutSemPost, MustWake
  <2>2. SemTypeOK'
    BY <1>1, <1>3, <1>4, <2>1 DEF SemTypeOK
  <2>3. Waiters(sem_qhp)' = w
    BY <2>1 DEF Waiters
  <2>4. ValueCountsWaiters'
    BY <1>1, <1>2, <1>6, <2>3 DEF ValueCountsWaiters
  <2> QED  BY <2>2, <2>4
<1> QED
  BY <1>5, <1>6

\* Every step preserves the invariant.
LEMMA SemIInvAlways == SemSpec => []SemIInv
<1>1. SemIInv /\ [SemNext]_semvars => SemIInv'
  <2> SUFFICES ASSUME SemIInv, [SemNext]_semvars PROVE SemIInv'
    OBVIOUS
  <2>1. CASE UNCHANGED semvars
    BY <2>1 DEF semvars, SemIInv, SemTypeOK, ValueCountsWaiters, Waiters
  <2>2. CASE SemNext
    BY <2>2, SemWaitIInv, SemPostIInv DEF SemNext, NutSemTryWait
  <2> QED  BY <2>1, <2>2
<1> QED
  BY SemInitIInv, <1>1, PTL DEF SemSpec

\* Every variable of the semaphore keeps its type.
THEOREM SemaphoreTypeCorrect == SemSpec => []SemTypeOK
  BY SemIInvAlways, PTL DEF SemIInv

\* At any time -value threads are blocked in NutSemWait if the value is negative,
\* and none otherwise: no NutSemPost is lost or wakes a thread too many.
THEOREM SemaphoreCountsWaiters == SemSpec => []ValueCountsWaiters
  BY SemIInvAlways, PTL DEF SemIInv

\* Permits are units in the counters of the threads.
LEMMA PermitUnits == \A n : Permits(n) = Units(Thread, n)
  BY DEF Permits, Units

\* A thread gets a permit.
LEMMA PermitTaken ==
    ASSUME NEW n \in [Thread -> Nat], NEW t \in Thread, IsFiniteSet(Permits(n)),
           NEW m, m = [n EXCEPT ![t] = @ + 1]
    PROVE  /\ m \in [Thread -> Nat] /\ IsFiniteSet(Permits(m))
           /\ Cardinality(Permits(m)) = Cardinality(Permits(n)) + 1
<1>1. Permits(n) = Units(Thread, n) /\ Permits(m) = Units(Thread, m)
  BY PermitUnits
<1>2. OneMore(Thread, n, t, m)
  BY DEF OneMore
<1>3. /\ IsFiniteSet(Units(Thread, m))
      /\ Cardinality(Units(Thread, m)) = Cardinality(Units(Thread, n)) + 1
  BY <1>1, <1>2, UnitAdded
<1> QED
  BY <1>1, <1>2, <1>3 DEF OneMore

\* A thread gives one back.
LEMMA PermitReturned ==
    ASSUME NEW n \in [Thread -> Nat], NEW t \in Thread, IsFiniteSet(Permits(n)),
           n[t] > 0, NEW m, m = [n EXCEPT ![t] = @ - 1]
    PROVE  /\ m \in [Thread -> Nat] /\ IsFiniteSet(Permits(m))
           /\ Cardinality(Permits(m)) = Cardinality(Permits(n)) - 1
<1>1. Permits(n) = Units(Thread, n) /\ Permits(m) = Units(Thread, m)
  BY PermitUnits
<1>2. OneMore(Thread, m, t, n)
  <2>1. \A u \in Thread : n[u] \in Nat /\ m[u] = IF u = t THEN n[u] - 1 ELSE n[u]
    OBVIOUS
  <2>2. \A u \in Thread : m[u] \in Nat /\ n[u] = IF u = t THEN m[u] + 1 ELSE m[u]
    BY <2>1
  <2> QED  BY <2>2 DEF OneMore
<1>3. /\ IsFiniteSet(Units(Thread, m))
      /\ Cardinality(Units(Thread, m)) = Cardinality(Units(Thread, n)) - 1
  BY <1>1, <1>2, UnitTaken
<1> QED
  BY <1>1, <1>2, <1>3 DEF OneMore

PermitIInv == SemIInv /\ IsFiniteSet(Permits(taken)) /\ PermitsConserved

\* NutSemWait: either a permit changes hands, or none is there.
LEMMA WaitConserves ==
    ASSUME PermitIInv, NEW t \in Thread, NutSemWait(t)
    PROVE  IsFiniteSet(Permits(taken'))
           /\ Cardinality(Permits(taken')) + (IF value' > 0 THEN value' ELSE 0)
              = Initial + produced'
<1>1. /\ value \in Int /\ taken \in [Thread -> Nat] /\ IsFiniteSet(Permits(taken))
      /\ value' = value - 1 /\ produced' = produced
  BY DEF PermitIInv, SemIInv, SemTypeOK, NutSemWait
<1>2. PICK c \in Nat : c = Cardinality(Permits(taken))
  BY <1>1, FS_CardinalityType
<1>3. c + (IF value > 0 THEN value ELSE 0) = Initial + produced
  BY <1>2 DEF PermitIInv, PermitsConserved
<1>4. CASE value' < 0
  <2>1. taken' = taken
    BY <1>4 DEF NutSemWait, MustWait
  <2> QED  BY <1>1, <1>2, <1>3, <1>4, <2>1
<1>5. CASE ~(value' < 0)
  <2>1. taken' = [taken EXCEPT ![t] = @ + 1]
    BY <1>5 DEF NutSemWait, MustWait
  <2>2. IsFiniteSet(Permits(taken')) /\ Cardinality(Permits(taken')) = c + 1
    BY <1>1, <1>2, <2>1, PermitTaken
  <2>3. (c + 1) + (IF value' > 0 THEN value' ELSE 0) = c + (IF value > 0 THEN value ELSE 0)
    BY <1>1, <1>5
  <2> QED  BY <1>1, <1>3, <2>2, <2>3
<1> QED
  BY <1>4, <1>5

\* NutSemPost: a permit that is given back or new is left, or goes to the
\* thread that is woken up.
LEMMA PostConserves ==
    ASSUME PermitIInv, NEW t \in Thread, NutSemPost(t)
    PROVE  IsFiniteSet(Permits(taken'))
           /\ Cardinality(Permits(taken')) + (IF value' > 0 THEN value' ELSE 0)
              = Initial + produced'
<1>1. /\ value \in Int /\ taken \in [Thread -> Nat] /\ IsFiniteSet(Permits(taken))
      /\ value' = value + 1 /\ produced \in Int
  BY SemAssumption DEF PermitIInv, SemIInv, SemTypeOK, NutSemPost
<1>2. PICK c \in Nat : c = Cardinality(Permits(taken))
  BY <1>1, FS_CardinalityType
<1>3. c + (IF value > 0 THEN value ELSE 0) = Initial + produced /\ Initial \in Int
  BY <1>2, SemAssumption DEF PermitIInv, PermitsConserved
<1>4. PICK back \in {0, 1} : back = IF taken[t] > 0 THEN 1 ELSE 0
  OBVIOUS
<1>5. PICK wakes : wakes = IF MustWake(value + 1) THEN WokenBy(sem_qhp) ELSE {}
  OBVIOUS
<1>6. /\ produced' = produced + 1 - back
      /\ taken' = [u \in Thread |-> taken[u] - (IF u = t THEN back ELSE 0)
                                            + (IF u \in wakes THEN 1 ELSE 0)]
  BY <1>4, <1>5 DEF NutSemPost
<1>7. PICK n : n = [u \in Thread |-> taken[u] - (IF u = t THEN back ELSE 0)]
  OBVIOUS
<1>8. /\ n \in [Thread -> Nat] /\ IsFiniteSet(Permits(n))
      /\ Cardinality(Permits(n)) = c - back
  <2>1. CASE taken[t] > 0
    <3>1. back = 1
      BY <1>4, <2>1
    <3>2. \A u \in Thread : taken[u] \in Nat
                            /\ n[u] = IF u = t THEN taken[u] - 1 ELSE taken[u]
      BY <1>1, <1>7, <3>1
    <3>3. n = [u \in Thread |-> n[u]]
      BY <1>7
    <3>4. n = [taken EXCEPT ![t] = @ - 1]
      BY <1>1, <3>2, <3>3
    <3> QED  BY <1>1, <1>2, <2>1, <3>1, <3>4, PermitReturned
  <2>2. CASE ~(taken[t] > 0)
    <3>1. n = taken /\ back = 0
      BY <1>1, <1>4, <1>7, <2>2
    <3> QED  BY <1>1, <1>2, <3>1
  <2> QED  BY <2>1, <2>2
<1>9. CASE value' <= 0
  <2>1. PICK w \in Thread : wakes = {w}
    <3>1. /\ Waiters(sem_qhp) \in Seq(Thread)
          /\ Len(Waiters(sem_qhp)) = IF value < 0 THEN -value ELSE 0
      BY SemWaitersType DEF PermitIInv, SemIInv, ValueCountsWaiters
    <3>2. Waiters(sem_qhp) # <<>> /\ Len(Waiters(sem_qhp)) >= 1
      BY <1>1, <1>9, <3>1
    <3>3. Waiters(sem_qhp) = sem_qhp
      BY <3>2 DEF Waiters
    <3>4. wakes = {Head(sem_qhp)}
      BY <1>1, <1>5, <1>9, <3>2 DEF MustWake, WokenBy
    <3>5. Head(sem_qhp) \in Thread
      BY <3>1, <3>2, <3>3, HeadInRange
    <3> QED  BY <3>4, <3>5
  <2>2. taken' = [n EXCEPT ![w] = @ + 1]
    <3>1. \A u \in Thread : taken'[u] = n[u] + (IF u = w THEN 1 ELSE 0) /\ n[u] \in Nat
      BY <1>6, <1>7, <1>8, <2>1
    <3>2. taken' = [u \in Thread |-> n[u] + (IF u = w THEN 1 ELSE 0)]
      BY <1>6, <1>7, <2>1
    <3>3. \A u \in Thread : taken'[u] = IF u = w THEN n[u] + 1 ELSE n[u]
      BY <3>1
    <3>4. taken' = [u \in Thread |-> taken'[u]]
      BY <3>2
    <3> QED  BY <1>8, <3>3, <3>4
  <2>3. IsFiniteSet(Permits(taken')) /\ Cardinality(Permits(taken')) = c - back + 1
    BY <1>8, <2>2, PermitTaken
  <2>4. value <= 0 /\ c = Initial + produced
    BY <1>1, <1>3, <1>9
  <2>5. (c - back + 1) + 0 = Initial + (produced + 1 - back)
    BY <1>1, <1>3, <1>4, <2>4
  <2> QED  BY <1>1, <1>6, <1>9, <2>3, <2>5
<1>10. CASE ~(value' <= 0)
  <2>1. wakes = {}
    BY <1>1, <1>5, <1>10 DEF MustWake
  <2>2. taken' = n
    BY <1>6, <1>7, <1>8, <2>1
  <2>3. (c - back) + (value + 1) = Initial + (produced + 1 - back)
    BY <1>1, <1>3, <1>4, <1>10
  <2> QED  BY <1>1, <1>6, <1>8, <1>10, <2>2, <2>3
<1> QED
  BY <1>9, <1>10

\* Permits are neither lost nor made up by NutSemWait, NutSemTryWait and
\* NutSemPost: what threads hold and what is left add up to the initial value
\* and the permits produced.
THEOREM SemaphorePermitsConserved == SemSpec => []PermitsConserved
<1>1. SemInit => PermitIInv
  <2> SUFFICES ASSUME SemInit PROVE PermitIInv
    OBVIOUS
  <2>1. Permits(taken) = {}
    BY DEF SemInit, Permits
  <2>2. IsFiniteSet(Permits(taken)) /\ Cardinality(Permits(taken)) = 0
    BY <2>1, FS_EmptySet
  <2>3. PermitsConserved
    BY <2>2, SemAssumption DEF SemInit, PermitsConserved
  <2> QED  BY <2>2, <2>3, SemInitIInv DEF PermitIInv
<1>2. PermitIInv /\ [SemNext]_semvars => PermitIInv'
  <2> SUFFICES ASSUME PermitIInv, [SemNext]_semvars PROVE PermitIInv'
    OBVIOUS
  <2>1. CASE UNCHANGED semvars
    BY <2>1 DEF semvars, PermitIInv, SemIInv, SemTypeOK, ValueCountsWaiters, Waiters,
                PermitsConserved
  <2>2. CASE SemNext
    <3>1. PICK t \in Thread : NutSemWait(t) \/ NutSemPost(t)
      BY <2>2 DEF SemNext, NutSemTryWait
    <3>2. SemIInv'
      BY <3>1, SemWaitIInv, SemPostIInv DEF PermitIInv
    <3>3. IsFiniteSet(Permits(taken')) /\ PermitsConserved'
      BY <3>1, WaitConserves, PostConserves DEF PermitsConserved
    <3> QED  BY <3>2, <3>3 DEF PermitIInv
  <2> QED  BY <2>1, <2>2
<1>3. PermitIInv => PermitsConserved
  BY DEF PermitIInv
<1> QED
  BY <1>1, <1>2, <1>3, PTL DEF SemSpec
=============================================================================
