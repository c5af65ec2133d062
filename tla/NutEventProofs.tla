--------------------------- MODULE NutEventProofs ---------------------------
(***************************************************************************)
(* Theorems on the event core, for any number of threads, queues and       *)
(* interrupts.  An interrupt may strike between two critical sections, so  *)
(* the properties of the chains are inductive only together with what the  *)
(* code may still rely on at each control point (Control: a queue that was *)
(* found non-empty cannot become empty or signaled behind the back of the  *)
(* running thread, a queue found empty can become signaled) and what the   *)
(* queue of a thread says about its timer and its wait (Asleep).           *)
(* On top of them rest the counting argument for the idle thread and the   *)
(* proof that the kernel implements EventSpec, which also needs to know    *)
(* that a thread in a queue is inside NutEventWait and that a broadcast    *)
(* and NutThreadResume never post to an empty queue (InWait).              *)
(***************************************************************************)
EXTENDS NutEvent, NutThreadQueueProofs

\* Control is inside NutThreadResume, where the running thread may have left
\* the run queue already.
InResume ==
    \/ pc \in {"scan", "deliver", "to_unlink"}
    \/ pc \in {"pa_read", "pa_pop", "pa_signal"} /\ fr.ret = "scan"

\* The labels at which fr.q is the queue operated on.
QueueLabels == {"wait", "tw_clear", "w_add", "w_insert", "pa_read", "pa_pop",
                "pa_signal", "bc_clear", "bc_loop"}

\* What the code knows at each of its control points about state it looked at
\* one critical section earlier.
Control ==
    /\ pc \in QueueLabels => fr.q \in Queue
    /\ pc = "bc_loop" => fr.ret = "bc_loop"
    /\ pc \in {"wait", "w_add", "w_insert"} => runningThread \in Thread
    /\ ~InResume => cont[runningThread] = "return"
    /\ ~InResume /\ pc # "w_insert" => td_queue[runningThread] = RunQueue
    /\ pc \in {"tw_clear", "bc_clear"} => root[fr.q] = SIGNALED
    /\ pc = "pa_signal" => root[fr.q] \in {SIGNALED, <<>>}
    /\ pc \in {"pa_pop", "w_insert"} => root[fr.q] \notin {SIGNALED, <<>>}
    /\ pc = "w_insert" => td_queue[runningThread] = fr.q /\ runningThread \notin armed
    /\ pc = "w_insert" => td_qpec[runningThread] = 0
    /\ pc = "deliver" =>
          fr.scan <= Len(ThreadList) /\ td_qpec[ThreadList[fr.scan]] > 0
    /\ pc = "to_unlink" => fr.td \in armed /\ td_queue[fr.td] \in Queue

\* What is known of a thread from the queue it is in.
Asleep ==
    /\ td_queue[Idle] = RunQueue
    /\ \A t \in armed : td_queue[t] # RunQueue
    /\ \A t \in All : td_queue[t] = NULL => cont[t] = "return"
    /\ \A t \in All : td_queue[t] = RunQueue /\ cont[t] = "wait" => WaitResult(t) = woken[t]

\* The inductive invariant.
IInv == TypeOK /\ PendingAtHead /\ LinkedOnce /\ NoDanglingTimer /\ WaitersOrdered
        /\ Control /\ Asleep

-----------------------------------------------------------------------------
\* Priorities are natural numbers.
LEMMA PrioType == Prio \in [All -> Nat]
<1>1. Prio \in [All -> 0..254]
  BY PrioAssumption
<1> QED
  BY <1>1, SMT

\* Every chain of waiting threads is a sequence of application threads.
LEMMA ChainType ==
    ASSUME TypeOK, NEW q \in Queue
    PROVE  /\ Chain(q) \in Seq(Thread)
           /\ Chain(q) \in Seq(All)
           /\ root[q] # SIGNALED => root[q] \in Seq(Thread) /\ Chain(q) = root[q]
           /\ root[q] = SIGNALED => Chain(q) = <<>>
<1>1. root[q] \in Seq(Thread) \cup {SIGNALED}
  BY DEF TypeOK
<1>2. Chain(q) \in Seq(Thread)
  BY <1>1, EmptySeq DEF Chain
<1>3. Thread \subseteq All
  BY DEF All
<1> QED
  BY <1>1, <1>2, <1>3, SeqMonotonic DEF Chain

Chains == PendingAtHead /\ LinkedOnce /\ WaitersOrdered

\* Steps that leave every chain and every counter as they are.
LEMMA SameChains ==
    ASSUME Chains, UNCHANGED <<runQueue, td_queue, td_qpec>>,
           \A q \in Queue : Chain(q)' = Chain(q),
           \A t \in All : Moving(t)' <=> Moving(t)
    PROVE  Chains'
<1>1. PendingAtHead'
  BY DEF Chains, PendingAtHead
<1>2. LinkedOnce'
  BY DEF Chains, LinkedOnce
<1>3. WaitersOrdered'
  BY DEF Chains, WaitersOrdered
<1> QED
  BY <1>1, <1>2, <1>3 DEF Chains

\* The events pending on one thread move to a thread without any, or events are
\* forgotten.
HandedOver ==
    \/ \A x \in All : td_qpec'[x] <= td_qpec[x]
    \/ \E a, b \in All :
          /\ a # b /\ td_qpec[b] = 0
          /\ td_qpec'[a] = 0 /\ td_qpec'[b] = td_qpec[a]
          /\ \A x \in All \ {a, b} : td_qpec'[x] = td_qpec[x]

\* Only queue q changes, and the count of pending events stays with its head.
HeadKept(q) ==
    /\ \A p \in Queue \ {q} : root'[p] = root[p]
    /\ \A x \in All : td_queue[x] # q => td_qpec'[x] = td_qpec[x]
    /\ Chain(q)' # <<>> =>
          /\ root'[q] = Chain(q)'
          /\ td_qpec'[Head(Chain(q)')] = td_qpec[Head(Chain(q))]

\* The thread that Unlink takes out of queue q leaves the others in order, and
\* the events pending on it move to the new head of the queue.
LEMMA UnlinkProperties ==
    ASSUME TypeOK, Chains, NEW q \in Queue, NEW td \in Thread,
           td \in Range(Chain(q)), Unlink(q, td), pc # "w_insert"
    PROVE  /\ root' \in [Queue -> Seq(Thread) \cup {SIGNALED}]
           /\ \A p \in Queue \ {q} : root'[p] = root[p]
           /\ Range(Chain(q)') = Range(Chain(q)) \ {td}
           /\ IsInjective(Chain(q)')
           /\ PriOrdered(Chain(q)', Prio)
           /\ td_qpec' \in [All -> Nat]
           /\ \A x \in All : td_qpec'[x] > 0 =>
                /\ x # td
                /\ \/ /\ x \in Range(Chain(q)) /\ Chain(q)' # <<>>
                      /\ Head(Chain(q)') = x
                   \/ td_qpec[x] > 0 /\ td_queue[x] # q
           /\ HeadKept(q) /\ HandedOver
           /\ Chain(q)' = <<>> =>
                /\ Head(Chain(q)) = td
                /\ root'[q] = IF td_qpec[td] > 0 THEN SIGNALED ELSE <<>>
<1> DEFINE s == root[q]
           n == td_qpec[td]
           i == CHOOSE k \in 1..Len(s) : s[k] = td
<1>1. /\ s # SIGNALED /\ s \in Seq(Thread) /\ Chain(q) = s /\ s # <<>>
      /\ td \in Range(s)
  BY ChainType, EmptyChain DEF Chain
<1>2. td_queue[td] = q
  <2>1. td \in All
    BY DEF All
  <2> QED  BY <2>1 DEF Chains, LinkedOnce
<1>3. IsInjective(s) /\ PriOrdered(s, Prio)
  BY <1>1 DEF Chains, LinkedOnce, WaitersOrdered
<1>4. root' = [root EXCEPT ![q] = RootAfter(s, i, n)] /\ td_qpec' = QpecAfter(s, i, n)
  BY DEF Unlink
<1>5. i \in 1..Len(s) /\ s[i] = td /\ Len(s) \in Nat
  <2>1. \E k \in 1..Len(s) : s[k] = td
    BY <1>1, RangeOfChain
  <2> QED  BY <1>1, <2>1, LenProperties
<1>6. n \in Nat /\ td_qpec \in [All -> Nat]
  BY DEF TypeOK, All
<1> HIDE DEF s, i, n
<1>7. \A j, k \in 1..Len(s) : s[j] = s[k] => j = k
  BY <1>1, <1>3, LenProperties DEF IsInjective
<1>8. Len(s) >= 1 /\ Head(s) = s[1]
  BY <1>1, HeadInRange
<1>9. n > 0 => i = 1
  <2>1. n > 0 => Head(Chain(q)) = td
    BY <1>2 DEF Chains, PendingAtHead, n, All
  <2> QED  BY <1>1, <1>5, <1>7, <1>8, <2>1
<1> DEFINE r == RemoveAt(s, i)
<1>10. /\ r \in Seq(Thread) /\ Len(r) = Len(s) - 1
       /\ \A k \in 1..(Len(s) - 1) : r[k] = IF k < i THEN s[k] ELSE s[k + 1]
  BY <1>1, <1>5, RemoveAtProperties
<1>11. IsInjective(r) /\ Range(r) = Range(s) \ {td} /\ PriOrdered(r, Prio)
  <2>1. IsInjective(RemoveAt(s, i)) /\ Range(RemoveAt(s, i)) = Range(s) \ {s[i]}
    BY <1>1, <1>3, <1>5, RemoveAtInjective
  <2>2. PriOrdered(RemoveAt(s, i), Prio)
    BY <1>1, <1>3, <1>5, RemoveAtOrdered
  <2> QED  BY <1>5, <2>1, <2>2
<1> HIDE DEF r
<1>12. RootAfter(s, i, n) = IF n > 0 /\ Len(s) = 1 THEN SIGNALED ELSE r
  <2>1. CASE n = 0
    BY <2>1 DEF RootAfter, r
  <2>2. CASE n > 0 /\ Len(s) = 1
    BY <1>5, <1>9, <2>2 DEF RootAfter
  <2>3. CASE n > 0 /\ Len(s) # 1
    <3>1. i < Len(s)
      BY <1>5, <1>8, <1>9, <2>3
    <3> QED  BY <2>3, <3>1 DEF RootAfter, r
  <2> QED  BY <1>6, <2>1, <2>2, <2>3
<1>13. r \in Seq(Thread) \cup {SIGNALED} /\ r # SIGNALED
  BY <1>10, ThreadsAssumption
<1>14. root'[q] = RootAfter(s, i, n)
  BY <1>4 DEF TypeOK
<1>15. Chain(q)' = r
  <2>1. CASE n > 0 /\ Len(s) = 1
    <3>1. r = <<>>
      BY <1>10, <2>1, EmptySeq
    <3> QED  BY <1>12, <1>14, <2>1, <3>1 DEF Chain
  <2>2. CASE ~(n > 0 /\ Len(s) = 1)
    BY <1>12, <1>13, <1>14, <2>2 DEF Chain
  <2> QED  BY <2>1, <2>2
<1>16. /\ root' \in [Queue -> Seq(Thread) \cup {SIGNALED}]
       /\ \A p \in Queue \ {q} : root'[p] = root[p]
  BY <1>4, <1>12, <1>13 DEF TypeOK
<1>17. \A x \in All : td_qpec'[x] = IF x = td THEN 0
                         ELSE IF n > 0 /\ i < Len(s) /\ x = s[i + 1] THEN n
                         ELSE td_qpec[x]
  BY <1>4, <1>5 DEF QpecAfter
<1>18. td_qpec' \in [All -> Nat]
  BY <1>4, <1>6 DEF QpecAfter
<1>19. ASSUME NEW x \in All, td_qpec'[x] > 0
       PROVE  /\ x # td
              /\ \/ /\ x \in Range(Chain(q)) /\ Chain(q)' # <<>>
                    /\ Head(Chain(q)') = x
                 \/ td_qpec[x] > 0 /\ td_queue[x] # q
  <2>1. x # td
    BY <1>17, <1>19
  <2>2. \A k \in 1..Len(s) : s[k] \in Range(s)
    BY <1>1, RangeOfChain
  <2>3. CASE n > 0 /\ i < Len(s) /\ x = s[i + 1]
    <3>1. i = 1 /\ Len(r) >= 1 /\ r[1] = s[2] /\ x = s[2] /\ 2 \in 1..Len(s)
      BY <1>5, <1>9, <1>10, <2>3
    <3>2. r # <<>> /\ Head(r) = r[1]
      BY <1>10, <3>1
    <3> QED  BY <1>1, <1>15, <2>1, <2>2, <3>1, <3>2
  <2>4. CASE td_qpec[x] > 0 /\ td_queue[x] = q
    <3>1. Head(Chain(q)) = x
      BY <2>4 DEF Chains, PendingAtHead
    <3>2. x = s[1] /\ i # 1
      BY <1>1, <1>5, <1>8, <2>1, <3>1
    <3>3. Len(r) >= 1 /\ r[1] = s[1] /\ 1 \in 1..Len(s)
      BY <1>5, <1>8, <1>10, <3>2
    <3>4. r # <<>> /\ Head(r) = r[1]
      BY <1>10, <3>3
    <3> QED  BY <1>1, <1>15, <2>1, <2>2, <3>2, <3>3, <3>4
  <2> QED  BY <1>17, <1>19, <2>1, <2>3, <2>4
<1>20. \A k \in 1..Len(s) : s[k] \in Range(s) /\ s[k] \in All
  BY <1>1, RangeOfChain, ElementOfSeq DEF All
<1>21. HeadKept(q)
  <2>1. ASSUME NEW x \in All, td_queue[x] # q
        PROVE  td_qpec'[x] = td_qpec[x]
    <3>1. x \notin Range(s)
      BY <1>1, <2>1 DEF Chains, LinkedOnce
    <3>2. i < Len(s) => i + 1 \in 1..Len(s)
      BY <1>5
    <3>3. x # td /\ ~(i < Len(s) /\ x = s[i + 1])
      BY <1>1, <1>20, <3>1, <3>2
    <3> QED  BY <1>17, <3>3
  <2>2. ASSUME Chain(q)' # <<>>
        PROVE  root'[q] = Chain(q)' /\ td_qpec'[Head(Chain(q)')] = td_qpec[Head(Chain(q))]
    <3>1. r # <<>> /\ Len(r) \in Nat /\ Len(r) >= 1 /\ Head(r) = r[1]
      BY <1>10, <1>15, <2>2, HeadInRange
    <3>2. Len(s) >= 2
      BY <1>5, <1>10, <3>1
    <3>3. root'[q] = r
      BY <1>12, <1>14, <3>2
    <3>4. CASE i = 1
      <4>1. 2 \in 1..Len(s) /\ 1 \in 1..Len(s) /\ 1 \in 1..(Len(s) - 1)
        BY <1>5, <3>2
      <4>2. r[1] = s[2] /\ s[1] = td /\ s[2] # td
        BY <1>5, <1>7, <1>10, <3>4, <4>1
      <4>3. td_qpec'[s[2]] = IF n > 0 THEN n ELSE td_qpec[s[2]]
        BY <1>17, <1>20, <3>2, <3>4, <4>1, <4>2
      <4>4. n = 0 => td_qpec[s[2]] = 0
        <5>1. s[2] \in All /\ s[2] \in Range(Chain(q))
          BY <1>1, <1>20, <4>1
        <5>2. td_queue[s[2]] = q
          BY <5>1 DEF Chains, LinkedOnce
        <5>3. td_qpec[s[2]] > 0 => Head(Chain(q)) = s[2]
          BY <5>1, <5>2 DEF Chains, PendingAtHead
        <5>4. td_qpec[s[2]] \in Nat
          BY <1>6, <5>1
        <5> QED  BY <1>1, <1>8, <4>2, <5>3, <5>4
      <4> QED  BY <1>1, <1>6, <1>8, <1>15, <3>1, <3>3, <4>2, <4>3, <4>4 DEF n
    <3>5. CASE i # 1
      <4>1. 1 \in 1..(Len(s) - 1) /\ 1 \in 1..Len(s) /\ 1 < i
        BY <1>5, <3>2, <3>5
      <4>2. r[1] = s[1] /\ s[1] # td /\ n = 0
        BY <1>5, <1>6, <1>7, <1>9, <1>10, <3>5, <4>1
      <4> QED  BY <1>1, <1>8, <1>15, <1>17, <1>20, <3>1, <3>3, <4>1, <4>2
    <3> QED  BY <3>4, <3>5
  <2> QED  BY <1>16, <2>1, <2>2 DEF HeadKept
<1>22. HandedOver
  <2>1. CASE n > 0 /\ i < Len(s)
    <3>1. i + 1 \in 1..Len(s) /\ i = 1
      BY <1>5, <1>9, <2>1
    <3>2. PICK b \in All : b = s[i + 1] /\ b # td /\ b \in Range(Chain(q))
      BY <1>1, <1>5, <1>7, <1>20, <3>1
    <3>3. td_qpec[b] = 0
      <4>1. td_queue[b] = q
        BY <3>2 DEF Chains, LinkedOnce
      <4>2. td_qpec[b] > 0 => Head(Chain(q)) = b
        BY <4>1 DEF Chains, PendingAtHead
      <4>3. td_qpec[b] \in Nat
        BY <1>6
      <4> QED  BY <1>1, <1>5, <1>8, <3>1, <3>2, <4>2, <4>3
    <3>4. td \in All
      BY DEF All
    <3>5. /\ td_qpec'[td] = 0 /\ td_qpec'[b] = n
          /\ \A x \in All \ {td, b} : td_qpec'[x] = td_qpec[x]
      BY <1>17, <2>1, <3>2, <3>4
    <3> QED  BY <3>2, <3>3, <3>4, <3>5 DEF HandedOver, n
  <2>2. CASE ~(n > 0 /\ i < Len(s))
    <3>1. \A x \in All : td_qpec'[x] <= td_qpec[x]
      BY <1>6, <1>17, <2>2
    <3> QED  BY <3>1 DEF HandedOver
  <2> QED  BY <2>1, <2>2
<1>23. ASSUME Chain(q)' = <<>>
       PROVE  Head(Chain(q)) = td /\ root'[q] = IF td_qpec[td] > 0 THEN SIGNALED ELSE <<>>
  <2>1. Len(s) = 1
    BY <1>5, <1>10, <1>15, <1>23
  <2>2. i = 1
    BY <1>5, <2>1
  <2> QED  BY <1>1, <1>5, <1>8, <1>12, <1>14, <1>15, <1>23, <2>1, <2>2 DEF n
<1> QED
  BY <1>1, <1>3, <1>11, <1>15, <1>16, <1>18, <1>19, <1>21, <1>22, <1>23

\* A thread that moves from queue q to the run queue.
LEMMA WakeChains ==
    ASSUME TypeOK, Chains, NEW q \in Queue, NEW td \in Thread,
           td \in Range(Chain(q)), Unlink(q, td), MakeReady(td),
           pc # "w_insert", pc' # "w_insert"
    PROVE  /\ Chains'
           /\ root' \in [Queue -> Seq(Thread) \cup {SIGNALED}]
           /\ td_qpec' \in [All -> Nat]
           /\ runQueue' \in Seq(All)
           /\ td_queue' \in [All -> Queue \cup {RunQueue, NULL}]
<1>1. td \in All /\ td_queue[td] = q /\ q # RunQueue
  BY ThreadsAssumption DEF Chains, LinkedOnce, All
<1>2. /\ root' \in [Queue -> Seq(Thread) \cup {SIGNALED}]
      /\ \A p \in Queue \ {q} : Chain(p)' = Chain(p)
      /\ Range(Chain(q)') = Range(Chain(q)) \ {td}
      /\ IsInjective(Chain(q)')
      /\ PriOrdered(Chain(q)', Prio)
      /\ td_qpec' \in [All -> Nat]
      /\ \A x \in All : td_qpec'[x] > 0 =>
           /\ x # td
           /\ \/ /\ x \in Range(Chain(q)) /\ Chain(q)' # <<>>
                 /\ Head(Chain(q)') = x
              \/ td_qpec[x] > 0 /\ td_queue[x] # q
  <2>1. \A p \in Queue : root'[p] = root[p] => Chain(p)' = Chain(p)
    BY DEF Chain
  <2> QED  BY <2>1, UnlinkProperties
<1>3. td_queue' = [td_queue EXCEPT ![td] = RunQueue] /\ td_queue \in [All -> Queue \cup {RunQueue, NULL}]
  BY DEF MakeReady, TypeOK
<1>4. /\ runQueue' \in Seq(All) /\ IsInjective(runQueue')
      /\ Range(runQueue') = Range(runQueue) \cup {td}
  <2>1. runQueue \in Seq(All) /\ IsInjective(runQueue) /\ td \notin Range(runQueue)
    BY <1>1 DEF TypeOK, Chains, LinkedOnce
  <2>2. runQueue' = AddPriQueue(runQueue, td, Prio)
    BY DEF MakeReady
  <2>3. /\ AddPriQueue(runQueue, td, Prio) \in Seq(All)
        /\ Range(AddPriQueue(runQueue, td, Prio)) = Range(runQueue) \cup {td}
    BY <1>1, <2>1, PrioType, AddPriQueueType
  <2>4. IsInjective(AddPriQueue(runQueue, td, Prio))
    BY <1>1, <2>1, PrioType, AddPriQueueInjective
  <2> QED  BY <2>2, <2>3, <2>4
<1>5. \A t \in All : ~Moving(t) /\ ~Moving(t)'
  BY DEF Moving
<1>6. PendingAtHead'
  <2>1. ASSUME NEW x \in All, td_qpec'[x] > 0
        PROVE  \E p \in Queue : td_queue'[x] = p /\ Chain(p)' # <<>> /\ Head(Chain(p)') = x
    <3>1. x # td /\ td_queue'[x] = td_queue[x]
      BY <1>2, <1>3, <2>1
    <3>2. CASE x \in Range(Chain(q)) /\ Chain(q)' # <<>> /\ Head(Chain(q)') = x
      <4>1. td_queue[x] = q
        BY <3>2 DEF Chains, LinkedOnce
      <4> QED  BY <3>1, <3>2, <4>1
    <3>3. CASE td_qpec[x] > 0 /\ td_queue[x] # q
      <4>1. PICK p \in Queue : td_queue[x] = p /\ Chain(p) # <<>> /\ Head(Chain(p)) = x
        BY <3>3 DEF Chains, PendingAtHead
      <4>2. Chain(p)' = Chain(p)
        BY <1>2, <3>3, <4>1
      <4> QED  BY <3>1, <4>1, <4>2
    <3> QED  BY <1>2, <2>1, <3>2, <3>3
  <2> QED  BY <2>1 DEF PendingAtHead
<1>7. LinkedOnce'
  <2>1. \A p \in Queue : IsInjective(Chain(p)')
    BY <1>2 DEF Chains, LinkedOnce
  <2>2. \A t \in All : t \in Range(runQueue') <=> td_queue'[t] = RunQueue
    BY <1>3, <1>4 DEF Chains, LinkedOnce
  <2>3. ASSUME NEW t \in All, NEW p \in Queue
        PROVE  t \in Range(Chain(p)') <=> td_queue'[t] = p
    <3>1. t \in Range(Chain(p)) <=> td_queue[t] = p
      BY <1>5 DEF Chains, LinkedOnce
    <3>2. p # RunQueue
      BY ThreadsAssumption
    <3>3. CASE p = q
      BY <1>2, <1>3, <3>1, <3>2, <3>3
    <3>4. CASE p # q
      BY <1>1, <1>2, <1>3, <3>1, <3>2, <3>4
    <3> QED  BY <3>3, <3>4
  <2> QED  BY <1>4, <1>5, <2>1, <2>2, <2>3 DEF LinkedOnce
<1>8. WaitersOrdered'
  BY <1>2 DEF Chains, WaitersOrdered
<1> QED
  BY <1>2, <1>3, <1>4, <1>6, <1>7, <1>8 DEF Chains

\* Steps that change the control point and the locals, or turn an empty queue
\* into a signaled one and back.
LEMMA QuietStep ==
    ASSUME IInv,
           UNCHANGED <<runQueue, runningThread, td_qpec, td_queue, td_timer,
                       total_pending, armed, Locals>>,
           root' \in [Queue -> Seq(Thread) \cup {SIGNALED}],
           \A q \in Queue : Chain(q)' = Chain(q),
           pc # "w_insert", pc' # "w_insert", pc' \in Labels, fr' \in FrameType,
           Control'
    PROVE  IInv'
<1>1. TypeOK'
  BY DEF IInv, TypeOK, Locals
<1>2. Chains'
  <2>1. \A t \in All : Moving(t)' <=> Moving(t)
    BY DEF Moving
  <2>2. UNCHANGED <<runQueue, td_queue, td_qpec>> /\ Chains
    BY DEF IInv, Chains
  <2> QED  BY <2>1, <2>2, SameChains
<1>3. NoDanglingTimer'
  BY DEF IInv, NoDanglingTimer
<1>4. Asleep'
  BY DEF IInv, Asleep, WaitResult, Locals
<1> QED
  BY <1>1, <1>2, <1>3, <1>4 DEF IInv, Chains

\* nutThreadList is a finite list.
LEMMA ListType == /\ Len(ThreadList) \in Nat
                  /\ \A i \in 1..Len(ThreadList) : ThreadList[i] \in All
  BY ThreadsAssumption, LenProperties, ElementOfSeq

\* The locals of a fresh call.
LEMMA FreshFrame ==
    /\ NoFrame = [q |-> NULL, ms |-> FALSE, ret |-> "user", bret |-> "user",
                  scan |-> 1, td |-> NULL]
    /\ NoFrame \in FrameType
<1>1. 1 \in 1..(Len(ThreadList) + 1)
  BY ListType
<1> QED
  BY <1>1 DEF NoFrame, Frame, FrameType

\* No steps at all for the queues.
LEMMA SameRoot ==
    ASSUME TypeOK, root' = root
    PROVE  /\ root' \in [Queue -> Seq(Thread) \cup {SIGNALED}]
           /\ \A q \in Queue : Chain(q)' = Chain(q)
  BY DEF TypeOK, Chain

\* NutEventTryWait, NutEventWait: the look at the root.
LEMMA ReadRootIInv ==
    ASSUME IInv, NEW q \in Queue, NEW ms \in BOOLEAN, NEW w \in BOOLEAN,
           ReadRoot(q, ms, w), UNCHANGED <<kernel, Locals>>,
           pc \in {"user", "wait"}, runningThread \in Thread
    PROVE  IInv'
<1>1. /\ cont[runningThread] = "return" /\ td_queue[runningThread] = RunQueue
      /\ runningThread' = runningThread /\ cont' = cont /\ td_queue' = td_queue
      /\ root' = root
  BY DEF IInv, Control, InResume, kernel, Locals
<1>2. \/ /\ pc' = "tw_clear" /\ root[q] = SIGNALED
         /\ fr' = [NoFrame EXCEPT !.q = q]
      \/ /\ pc' = "w_add"
         /\ fr' = [NoFrame EXCEPT !.q = q, !.ms = ms]
      \/ pc' = "user" /\ fr' = NoFrame
  BY DEF ReadRoot, Goto, Return
<1>3. fr' \in FrameType /\ (pc' # "user" => fr'.q = q)
  <2>1. CASE pc' = "user"
    BY <1>2, <2>1, FreshFrame
  <2>2. CASE pc' # "user"
    BY <1>2, <2>2, FreshFrame DEF FrameType
  <2> QED  BY <2>1, <2>2
<1>4. Control'
  BY <1>1, <1>2, <1>3 DEF Control, InResume, QueueLabels
<1>5. pc # "w_insert" /\ pc' # "w_insert" /\ pc' \in Labels
  BY <1>2 DEF Labels
<1>6. TypeOK
  BY DEF IInv
<1> QED
  BY <1>3, <1>4, <1>5, <1>6, SameRoot, QuietStep DEF kernel

\* The calls that enter NutEventPostAsync or NutEventBroadcastAsync and
\* NutThreadYield, and the end of the idle thread's halt.
LEMMA CallIInv ==
    ASSUME IInv, UNCHANGED <<kernel, Locals>>, pc \in {"user", "wfi"},
           fr' \in FrameType,
           \/ pc' \in {"user", "yield", "wfi"}
           \/ pc' = "pa_read" /\ fr'.q \in Queue /\ fr'.ret # "scan"
           \/ pc' = "bc_clear" /\ fr'.q \in Queue /\ root[fr'.q] = SIGNALED
    PROVE  IInv'
<1>1. /\ cont[runningThread] = "return" /\ td_queue[runningThread] = RunQueue
      /\ runningThread' = runningThread /\ cont' = cont /\ td_queue' = td_queue
      /\ root' = root
  BY DEF IInv, Control, InResume, kernel, Locals
<1>2. Control'
  BY <1>1 DEF Control, InResume, QueueLabels
<1>3. pc # "w_insert" /\ pc' # "w_insert" /\ pc' \in Labels
  BY DEF Labels
<1>4. TypeOK
  BY DEF IInv
<1> QED
  BY <1>1, <1>2, <1>3, <1>4, SameRoot, QuietStep DEF kernel

\* What NutEventPostAsync and NutEventBroadcastAsync return to.
LEMMA ReturnControl ==
    ASSUME IInv, NEW l \in {"user", "yield", "scan", "bc_loop"}, PostReturn(l),
           pc \in {"pa_read", "pa_pop", "pa_signal", "bc_clear", "bc_loop"},
           pc \in {"bc_clear", "bc_loop"} => l \in {"user", "yield"},
           pc \notin {"bc_clear", "bc_loop"} => l = fr.ret,
           ~InResume => cont'[runningThread] = "return"
                        /\ td_queue'[runningThread] = RunQueue,
           runningThread' = runningThread
    PROVE  pc' \in Labels /\ fr' \in FrameType /\ pc' # "w_insert" /\ Control'
<1>1. \/ pc' \in {"user", "yield"} /\ pc' = l /\ fr' = NoFrame
      \/ pc' \in {"scan", "bc_loop"} /\ pc' = l /\ fr' = fr
  BY DEF PostReturn, Return, Goto
<1>2. fr' \in FrameType /\ fr \in FrameType
  BY <1>1, FreshFrame DEF IInv, TypeOK
<1>3. fr.q \in Queue
  BY DEF IInv, Control, QueueLabels
<1>4. l # "scan" => ~InResume
  BY DEF InResume
<1>5. Control'
  BY <1>1, <1>3, <1>4 DEF Control, InResume, QueueLabels
<1> QED
  BY <1>1, <1>2, <1>5 DEF Labels

\* The calls of the application that change nothing but the control point.
LEMMA UserIInv ==
    ASSUME IInv, NEW t \in Thread, NEW q \in Queue,
           \/ NutEventPostAsync(t, q) \/ NutEventPost(t, q)
           \/ NutEventBroadcast(t, q, TRUE) \/ NutEventBroadcast(t, q, FALSE)
    PROVE  IInv'
<1>1. UNCHANGED <<kernel, Locals>> /\ pc = "user"
  BY DEF NutEventPostAsync, NutEventPost, NutEventBroadcast, Running
<1>2. \A f \in {[NoFrame EXCEPT !.q = q], [NoFrame EXCEPT !.q = q, !.ret = "yield"],
                [NoFrame EXCEPT !.q = q, !.ret = "bc_loop", !.bret = "user"],
                [NoFrame EXCEPT !.q = q, !.ret = "bc_loop", !.bret = "yield"]} :
         f \in FrameType /\ f.ret # "scan" /\ f.q = q
  BY FreshFrame, ZenonT(30) DEF FrameType
<1>3. NoFrame \in FrameType /\ NoFrame.ret # "scan"
  BY FreshFrame
<1>4. CASE NutEventPostAsync(t, q) \/ NutEventPost(t, q)
  <2>1. pc' = "pa_read" /\ fr' \in FrameType /\ fr'.ret # "scan" /\ fr'.q = q
    BY <1>2, <1>4 DEF NutEventPostAsync, NutEventPost, Goto
  <2> QED  BY <1>1, <2>1, CallIInv
<1>6. ASSUME NEW y \in BOOLEAN, NutEventBroadcast(t, q, y)  PROVE IInv'
  <2> DEFINE b == IF y THEN "yield" ELSE "user"
             f == [NoFrame EXCEPT !.q = q, !.ret = "bc_loop", !.bret = b]
  <2>1. f \in FrameType /\ f.ret # "scan" /\ f.q = q
    BY <1>2
  <2>2. b \in {"yield", "user"}
    OBVIOUS
  <2>3. \/ root[q] = SIGNALED /\ pc' = "bc_clear" /\ fr' = f
        \/ pc' = "pa_read" /\ fr' = f
        \/ pc' = b /\ fr' = NoFrame
    BY <1>6 DEF NutEventBroadcast, Goto
  <2> HIDE DEF b, f
  <2> QED  BY <1>1, <1>3, <2>1, <2>2, <2>3, CallIInv
<1> QED
  BY <1>4, <1>6

\* A call of NutThreadYield.
LEMMA YieldCallIInv ==
    ASSUME IInv, NEW t \in Thread, YieldCall(t)
    PROVE  IInv'
<1>1. UNCHANGED <<kernel, Locals>> /\ pc = "user" /\ pc' = "yield" /\ fr' = NoFrame
  BY DEF YieldCall, Goto, Running
<1> QED
  BY <1>1, FreshFrame, CallIInv

\* NutEventWaitNext discards a signaled state.
LEMMA WaitNextIInv ==
    ASSUME IInv, NEW t \in Thread, NEW q \in Queue, NEW ms \in BOOLEAN,
           NutEventWaitNext(t, q, ms)
    PROVE  IInv'
<1>1. /\ cont[runningThread] = "return" /\ td_queue[runningThread] = RunQueue
      /\ runningThread = t /\ pc = "user"
  BY DEF IInv, Control, InResume, NutEventWaitNext, Running
<1>2. root' = [root EXCEPT ![q] = IF @ = SIGNALED THEN <<>> ELSE @]
  BY DEF NutEventWaitNext
<1>3. root' \in [Queue -> Seq(Thread) \cup {SIGNALED}]
  BY <1>2, EmptySeq DEF IInv, TypeOK
<1>4. \A p \in Queue : Chain(p)' = Chain(p)
  BY <1>2 DEF IInv, TypeOK, Chain
<1>5. fr' \in FrameType /\ fr'.q = q
  BY FreshFrame DEF NutEventWaitNext, FrameType
<1>6. pc' = "wait"
  BY DEF NutEventWaitNext, Goto
<1>7. UNCHANGED <<runQueue, runningThread, td_qpec, td_queue, td_timer,
                   total_pending, armed, Locals>>
  BY DEF NutEventWaitNext
<1>8. Control'
  BY <1>1, <1>5, <1>6, <1>7 DEF Control, InResume, QueueLabels, Locals
<1>9. pc # "w_insert" /\ pc' # "w_insert" /\ pc' \in Labels
  BY <1>1, <1>6 DEF Labels
<1> QED
  BY <1>3, <1>4, <1>5, <1>7, <1>8, <1>9, QuietStep

\* The second steps of NutEventTryWait and NutEventBroadcastAsync on a signaled
\* queue, and of NutEventPostAsync on an empty one.
LEMMA SignalIInv ==
    ASSUME IInv, TryWaitClear \/ BroadcastClear \/ PostSignal
    PROVE  IInv'
<1>1. pc \in {"tw_clear", "bc_clear", "pa_signal"} /\ fr.q \in Queue
  BY DEF IInv, Control, QueueLabels, TryWaitClear, BroadcastClear, PostSignal
<1>2. /\ root[fr.q] \in {SIGNALED, <<>>}
      /\ \/ root' = [root EXCEPT ![fr.q] = <<>>]
         \/ root' = [root EXCEPT ![fr.q] = SIGNALED]
  BY DEF IInv, Control, TryWaitClear, BroadcastClear, PostSignal
<1>3. root' \in [Queue -> Seq(Thread) \cup {SIGNALED}]
  <2>1. root \in [Queue -> Seq(Thread) \cup {SIGNALED}] /\ <<>> \in Seq(Thread)
    BY EmptySeq DEF IInv, TypeOK
  <2> QED  BY <1>2, <2>1
<1>4. \A p \in Queue : Chain(p)' = Chain(p)
  BY <1>1, <1>2 DEF IInv, TypeOK, Chain
<1>5. UNCHANGED <<runQueue, runningThread, td_qpec, td_queue, td_timer,
                   total_pending, armed, Locals>>
  BY DEF TryWaitClear, BroadcastClear, PostSignal
<1>6. ~InResume => /\ cont'[runningThread] = "return"
                   /\ td_queue'[runningThread] = RunQueue
  BY <1>1, <1>5 DEF IInv, Control, Locals
<1>7. fr.ret \in {"user", "yield", "scan", "bc_loop"} /\ fr.bret \in {"user", "yield"}
  BY DEF IInv, TypeOK, FrameType
<1>8. pc' \in Labels /\ fr' \in FrameType /\ pc' # "w_insert" /\ Control'
  <2>1. CASE TryWaitClear
    <3>1. pc = "tw_clear" /\ pc' = "yield" /\ fr' = NoFrame
      BY <2>1 DEF TryWaitClear, Goto
    <3>2. ~InResume
      BY <3>1 DEF InResume
    <3>3. Control'
      BY <1>5, <1>6, <3>1, <3>2 DEF Control, InResume, QueueLabels
    <3> QED  BY <3>1, <3>3, FreshFrame DEF Labels
  <2>2. CASE BroadcastClear
    BY <1>1, <1>5, <1>6, <1>7, <2>2, ReturnControl DEF BroadcastClear, BroadcastReturn
  <2>3. CASE PostSignal
    BY <1>1, <1>5, <1>6, <1>7, <2>3, ReturnControl DEF PostSignal
  <2> QED  BY <2>1, <2>2, <2>3
<1>9. pc # "w_insert"
  BY <1>1
<1> QED
  BY <1>3, <1>4, <1>5, <1>8, <1>9, QuietStep

\* NutEventPostAsync and NutEventBroadcastAsync look at the root.
LEMMA LookIInv ==
    ASSUME IInv, PostRead \/ BroadcastLoop
    PROVE  IInv'
<1>1. UNCHANGED <<kernel, Locals>> /\ pc \in {"pa_read", "bc_loop"} /\ fr.q \in Queue
  BY DEF IInv, Control, QueueLabels, PostRead, BroadcastLoop
<1>2. ~InResume => /\ cont'[runningThread] = "return"
                   /\ td_queue'[runningThread] = RunQueue
  BY <1>1 DEF IInv, Control, Locals, kernel
<1>3. fr.ret \in {"user", "yield", "scan", "bc_loop"} /\ fr.bret \in {"user", "yield"}
  BY DEF IInv, TypeOK, FrameType
<1>4. runningThread' = runningThread /\ root' = root
  BY <1>1 DEF kernel
<1>5. pc' \in Labels /\ fr' \in FrameType /\ pc' # "w_insert" /\ Control'
  <2>1. CASE PostRead /\ root[fr.q] = SIGNALED
    BY <1>1, <1>2, <1>3, <1>4, <2>1, ReturnControl DEF PostRead
  <2>2. CASE PostRead /\ root[fr.q] # SIGNALED
    <3>1. /\ pc = "pa_read" /\ fr' = fr
          /\ \/ pc' = "pa_pop" /\ root[fr.q] \notin {SIGNALED, <<>>}
             \/ pc' = "pa_signal" /\ root[fr.q] = <<>>
      BY <2>2 DEF PostRead, Goto
    <3>2. InResume' <=> InResume
      BY <3>1 DEF InResume
    <3>3. Control'
      BY <1>1, <1>2, <1>4, <3>1, <3>2 DEF Control, QueueLabels
    <3> QED  BY <3>1, <3>3 DEF Labels, IInv, TypeOK
  <2>3. CASE BroadcastLoop /\ pc' = "pa_read" /\ fr' = fr
    <3>1. ~InResume /\ fr.ret = "bc_loop"
      BY <2>3 DEF IInv, Control, InResume, BroadcastLoop
    <3>2. Control'
      BY <1>1, <1>2, <1>4, <2>3, <3>1 DEF Control, QueueLabels, InResume
    <3> QED  BY <2>3, <3>2 DEF Labels, IInv, TypeOK
  <2>4. CASE BroadcastLoop /\ BroadcastReturn
    BY <1>1, <1>2, <1>3, <1>4, <2>4, ReturnControl DEF BroadcastLoop, BroadcastReturn
  <2> QED  BY <2>1, <2>2, <2>3, <2>4 DEF BroadcastLoop, Goto
<1>6. pc # "w_insert" /\ TypeOK
  BY <1>1 DEF IInv
<1> QED
  BY <1>1, <1>4, <1>5, <1>6, SameRoot, QuietStep DEF kernel

\* The end of NutEventWait, once the thread has left the run queue.
LEMMA FallAsleepRest ==
    ASSUME IInv, NEW t \in Thread, FallAsleep(t), t \notin armed,
           td_queue'[t] \in Queue, \A x \in All \ {t} : td_queue'[x] = td_queue[x],
           woken' = woken
    PROVE  /\ NoDanglingTimer' /\ Asleep' /\ Control'
           /\ td_timer' \in [All -> {NULL, "handle", SIGNALED}]
           /\ armed' \subseteq Thread
           /\ cont' \in [All -> {"return", "wait"}]
           /\ timed' \in [All -> BOOLEAN]
           /\ pc' = "scan" /\ fr' \in FrameType
<1>1. /\ t \in All /\ Idle \in All /\ Idle # t
      /\ td_queue'[t] # NULL /\ td_queue'[t] # RunQueue
  BY ThreadsAssumption DEF All
<1>2. /\ cont' = [cont EXCEPT ![t] = "wait"]
      /\ timed' = [timed EXCEPT ![t] = fr.ms]
      /\ pc' = "scan" /\ fr' = NoFrame
      /\ \/ /\ armed' = armed \cup {t}
            /\ td_timer' = [td_timer EXCEPT ![t] = "handle"]
         \/ /\ armed' = armed
            /\ td_timer' = [td_timer EXCEPT ![t] = NULL]
  BY DEF FallAsleep, Goto
<1>3. /\ td_timer \in [All -> {NULL, "handle", SIGNALED}]
      /\ armed \subseteq Thread
      /\ cont \in [All -> {"return", "wait"}]
      /\ timed \in [All -> BOOLEAN]
      /\ fr.ms \in BOOLEAN
  BY DEF IInv, TypeOK, FrameType
<1>4. /\ td_timer' \in [All -> {NULL, "handle", SIGNALED}]
      /\ armed' \subseteq Thread
      /\ cont' \in [All -> {"return", "wait"}]
      /\ timed' \in [All -> BOOLEAN]
      /\ pc' = "scan" /\ fr' \in FrameType
  BY <1>2, <1>3, FreshFrame
<1>5. NoDanglingTimer'
  <2>1. \A x \in All : x \in armed <=> td_timer[x] = "handle"
    BY DEF IInv, NoDanglingTimer
  <2>2. NULL # "handle"
    BY ThreadsAssumption
  <2> QED  BY <1>1, <1>2, <1>3, <2>1, <2>2 DEF NoDanglingTimer
<1>6. Asleep'
  <2>1. td_queue'[Idle] = RunQueue
    BY <1>1 DEF IInv, Asleep
  <2>2. \A x \in armed' : td_queue'[x] # RunQueue
    BY <1>1, <1>2, <1>3 DEF IInv, Asleep, All
  <2>3. \A x \in All : td_queue'[x] = NULL => cont'[x] = "return"
    BY <1>1, <1>2, <1>3 DEF IInv, Asleep
  <2>4. ASSUME NEW x \in All, td_queue'[x] = RunQueue, cont'[x] = "wait"
        PROVE  WaitResult(x)' = woken'[x]
    <3>1. x # t /\ td_queue[x] = RunQueue /\ cont[x] = "wait" /\ td_timer'[x] = td_timer[x]
      BY <1>1, <1>2, <1>3, <2>4
    <3>2. WaitResult(x) = woken[x]
      BY <3>1 DEF IInv, Asleep
    <3> QED  BY <3>1, <3>2 DEF WaitResult
  <2> QED  BY <2>1, <2>2, <2>3, <2>4 DEF Asleep
<1>7. Control'
  BY <1>2 DEF Control, InResume, QueueLabels
<1> QED
  BY <1>4, <1>5, <1>6, <1>7

\* NutThreadRemoveQueue(runningThread, &runQueue).
LEMMA LeaveRunQueue ==
    ASSUME IInv, NEW t \in Thread, runQueue' = RemoveQueue(runQueue, t)
    PROVE  /\ runQueue' \in Seq(All) /\ IsInjective(runQueue')
           /\ Range(runQueue') = Range(runQueue) \ {t}
<1>1. runQueue \in Seq(All) /\ IsInjective(runQueue)
  BY DEF IInv, TypeOK, LinkedOnce
<1> QED
  BY <1>1, RemoveQueueInjective

\* A chain of one thread.
LEMMA SingleChain ==
    ASSUME NEW t \in Thread
    PROVE  /\ <<t>> \in Seq(Thread) /\ <<t>> # <<>> /\ Head(<<t>>) = t
           /\ Range(<<t>>) = {t} /\ IsInjective(<<t>>) /\ PriOrdered(<<t>>, Prio)
<1>1. <<t>> \in Seq(Thread) /\ Len(<<t>>) = 1 /\ <<t>>[1] = t /\ DOMAIN <<t>> = {1}
  OBVIOUS
<1>2. Range(<<t>>) = {t}
  BY <1>1 DEF Range
<1>3. IsInjective(<<t>>)
  BY <1>1 DEF IsInjective
<1>4. PriOrdered(<<t>>, Prio)
  BY <1>1 DEF PriOrdered
<1> QED
  BY <1>1, <1>2, <1>3, <1>4

\* NutThreadAddPriQueue, first critical section.
LEMMA WaitAddIInv ==
    ASSUME IInv, NEW t \in Thread, NEW q \in Queue, t = runningThread, q = fr.q,
           WaitAdd
    PROVE  IInv'
<1>1. /\ pc = "w_add" /\ t \in Thread /\ t \in All /\ q \in Queue
      /\ td_queue[t] = RunQueue
  BY DEF IInv, Control, QueueLabels, InResume, WaitAdd, All
<1>2. t \notin armed /\ q # RunQueue /\ q # NULL
  BY <1>1, ThreadsAssumption DEF IInv, Asleep
<1>3. /\ runQueue' \in Seq(All) /\ IsInjective(runQueue')
      /\ Range(runQueue') = Range(runQueue) \ {t}
  BY <1>1, LeaveRunQueue DEF WaitAdd
<1>4. /\ td_queue' = [td_queue EXCEPT ![t] = q]
      /\ runningThread' = runningThread /\ woken' = woken
      /\ \/ td_qpec' = [td_qpec EXCEPT ![t] = 1] /\ total_pending' = total_pending + 1
         \/ td_qpec' = [td_qpec EXCEPT ![t] = 0] /\ total_pending' = total_pending
  BY DEF WaitAdd
<1>5. /\ td_queue \in [All -> Queue \cup {RunQueue, NULL}]
      /\ td_qpec \in [All -> Nat] /\ total_pending \in Int
      /\ root \in [Queue -> Seq(Thread) \cup {SIGNALED}]
      /\ runningThread \in All /\ woken \in [All -> {NULL, "event", "timeout"}]
  BY DEF IInv, TypeOK
<1>6. /\ td_queue' \in [All -> Queue \cup {RunQueue, NULL}]
      /\ td_qpec' \in [All -> Nat] /\ total_pending' \in Int
      /\ runningThread' \in All /\ woken' \in [All -> {NULL, "event", "timeout"}]
      /\ td_queue'[t] = q
      /\ \A x \in All \ {t} : td_queue'[x] = td_queue[x] /\ td_qpec'[x] = td_qpec[x]
  BY <1>1, <1>4, <1>5
<1>7. \A x \in All : x \in Range(runQueue') <=> td_queue'[x] = RunQueue
  BY <1>1, <1>2, <1>3, <1>6 DEF IInv, LinkedOnce
<1>8. \A x \in All : ~Moving(x)
  BY <1>1 DEF Moving
<1>9. CASE root[q] \in {SIGNALED, <<>>}
  <2>1. root' = [root EXCEPT ![q] = <<t>>] /\ FallAsleep(t)
    BY <1>9 DEF WaitAdd
  <2>2. /\ NoDanglingTimer' /\ Asleep' /\ Control'
        /\ td_timer' \in [All -> {NULL, "handle", SIGNALED}]
        /\ armed' \subseteq Thread
        /\ cont' \in [All -> {"return", "wait"}]
        /\ timed' \in [All -> BOOLEAN]
        /\ pc' = "scan" /\ fr' \in FrameType
    BY <1>1, <1>2, <1>4, <1>6, <2>1, FallAsleepRest
  <2>3. root' \in [Queue -> Seq(Thread) \cup {SIGNALED}]
    BY <1>1, <1>5, <2>1, SingleChain
  <2>4. TypeOK'
    BY <1>3, <1>6, <2>2, <2>3 DEF TypeOK, Labels
  <2>5. Chain(q) = <<>> /\ Range(Chain(q)) = {}
    BY <1>9, EmptyChain DEF Chain
  <2>6. Chain(q)' = <<t>> /\ \A p \in Queue \ {q} : Chain(p)' = Chain(p)
    <3>1. <<t>> # SIGNALED
      BY <1>1, SingleChain, ThreadsAssumption
    <3> QED  BY <1>1, <1>5, <2>1, <3>1 DEF Chain
  <2>7. /\ Range(Chain(q)') = {t} /\ IsInjective(Chain(q)')
        /\ PriOrdered(Chain(q)', Prio) /\ Head(Chain(q)') = t /\ Chain(q)' # <<>>
    BY <1>1, <2>6, SingleChain
  <2>8. PendingAtHead'
    <3>1. ASSUME NEW x \in All, td_qpec'[x] > 0
          PROVE  \E p \in Queue : td_queue'[x] = p /\ Chain(p)' # <<>> /\ Head(Chain(p)') = x
      <4>1. CASE x = t
        BY <1>1, <1>6, <2>7, <4>1
      <4>2. CASE x # t
        <5>1. PICK p \in Queue : td_queue[x] = p /\ Chain(p) # <<>> /\ Head(Chain(p)) = x
          BY <1>6, <3>1, <4>2 DEF IInv, PendingAtHead
        <5>2. p # q
          BY <2>5, <5>1
        <5> QED  BY <1>6, <2>6, <4>2, <5>1, <5>2
      <4> QED  BY <4>1, <4>2
    <3> QED  BY <3>1 DEF PendingAtHead
  <2>9. LinkedOnce'
    <3>1. \A p \in Queue : IsInjective(Chain(p)')
      BY <2>6, <2>7 DEF IInv, LinkedOnce
    <3>2. \A x \in All : ~Moving(x)'
      BY <2>2 DEF Moving
    <3>3. ASSUME NEW x \in All, NEW p \in Queue
          PROVE  x \in Range(Chain(p)') <=> td_queue'[x] = p
      <4>1. x \in Range(Chain(p)) <=> td_queue[x] = p
        BY <1>8 DEF IInv, LinkedOnce
      <4>2. p # RunQueue
        BY ThreadsAssumption
      <4>3. CASE p = q
        BY <1>6, <2>5, <2>7, <4>1, <4>3
      <4>4. CASE p # q
        BY <1>1, <1>6, <2>6, <4>1, <4>2, <4>4
      <4> QED  BY <4>3, <4>4
    <3> QED  BY <1>3, <1>7, <3>1, <3>2, <3>3 DEF LinkedOnce
  <2>10. WaitersOrdered'
    BY <2>6, <2>7 DEF IInv, WaitersOrdered
  <2> QED  BY <2>2, <2>4, <2>8, <2>9, <2>10 DEF IInv
<1>10. CASE root[q] \notin {SIGNALED, <<>>}
  <2>1. /\ pc' = "w_insert" /\ root' = root /\ armed' = armed /\ td_timer' = td_timer
        /\ cont' = cont /\ timed' = timed /\ fr' = fr
        /\ td_qpec' = [td_qpec EXCEPT ![t] = 0]
    BY <1>10 DEF WaitAdd, Goto
  <2>2. TypeOK'
    BY <1>3, <1>6, <2>1 DEF IInv, TypeOK, Labels
  <2>3. \A p \in Queue : Chain(p)' = Chain(p)
    BY <2>1 DEF Chain
  <2>4. \A x \in All : Moving(x)' <=> x = t
    BY <1>4, <2>1 DEF Moving
  <2>5. PendingAtHead'
    <3>1. td_qpec'[t] = 0
      BY <1>1, <1>5, <2>1
    <3>2. ASSUME NEW x \in All, td_qpec'[x] > 0
          PROVE  \E p \in Queue : td_queue'[x] = p /\ Chain(p)' # <<>> /\ Head(Chain(p)') = x
      <4>1. x # t /\ td_qpec[x] > 0 /\ td_queue'[x] = td_queue[x]
        BY <1>6, <3>1, <3>2
      <4> QED  BY <2>3, <4>1 DEF IInv, PendingAtHead
    <3> QED  BY <3>2 DEF PendingAtHead
  <2>6. LinkedOnce'
    <3>1. ASSUME NEW x \in All, NEW p \in Queue
          PROVE  x \in Range(Chain(p)') <=> td_queue'[x] = p /\ x # t
      <4>1. x \in Range(Chain(p)) <=> td_queue[x] = p
        BY <1>8 DEF IInv, LinkedOnce
      <4>2. p # RunQueue
        BY ThreadsAssumption
      <4> QED  BY <1>1, <1>6, <2>3, <4>1, <4>2
    <3>2. \A p \in Queue : IsInjective(Chain(p)')
      BY <2>3 DEF IInv, LinkedOnce
    <3> QED  BY <1>3, <1>7, <2>4, <3>1, <3>2 DEF LinkedOnce
  <2>7. WaitersOrdered'
    BY <2>3 DEF IInv, WaitersOrdered
  <2>8. NoDanglingTimer'
    BY <2>1 DEF IInv, NoDanglingTimer
  <2>9. Asleep'
    <3>1. Idle # t /\ Idle \in All
      BY <1>1, ThreadsAssumption DEF All
    <3>2. \A x \in armed : x \in All /\ x # t
      BY <1>2 DEF IInv, TypeOK, All
    <3>3. \A x \in All : WaitResult(x)' = WaitResult(x)
      BY <2>1 DEF WaitResult
    <3> QED  BY <1>2, <1>4, <1>6, <2>1, <3>1, <3>2, <3>3 DEF IInv, Asleep
  <2>10. Control'
    <3>1. cont[t] = "return" /\ td_qpec'[t] = 0
      BY <1>1, <1>5, <2>1 DEF IInv, Control, InResume
    <3> QED  BY <1>1, <1>2, <1>4, <1>6, <1>10, <2>1, <3>1
             DEF Control, InResume, QueueLabels
  <2> QED  BY <2>2, <2>5, <2>6, <2>7, <2>8, <2>9, <2>10 DEF IInv
<1> QED
  BY <1>9, <1>10

\* NutThreadAddPriQueue, second critical section.
LEMMA WaitInsertIInv ==
    ASSUME IInv, NEW t \in Thread, NEW q \in Queue, t = runningThread, q = fr.q,
           WaitInsert
    PROVE  /\ IInv' /\ HeadKept(q) /\ HandedOver
           /\ Chain(q)' # <<>> /\ Range(Chain(q)') = Range(Chain(q)) \cup {t}
           /\ \A p \in Queue : t \notin Range(Chain(p))
<1> DEFINE s == root[q]
           i == WalkPriQueue(s, t, Prio)
           n == IF i < Len(s) THEN td_qpec[s[i + 1]] ELSE 0
           r == AddPriQueue(s, t, Prio)
<1>1. /\ pc = "w_insert" /\ t \in All /\ td_queue[t] = q /\ t \notin armed
      /\ td_qpec[t] = 0 /\ s # SIGNALED /\ s # <<>>
  BY DEF IInv, Control, WaitInsert, All
<1>2. /\ s \in Seq(Thread) /\ s \in Seq(All) /\ Chain(q) = s
      /\ IsInjective(s) /\ PriOrdered(s, Prio) /\ t \notin Range(s)
  <2>1. /\ s \in Seq(Thread) /\ s \in Seq(All) /\ Chain(q) = s
    BY <1>1, ChainType DEF IInv
  <2>2. Moving(t)
    BY <1>1 DEF Moving
  <2> QED  BY <1>1, <2>1, <2>2 DEF IInv, LinkedOnce, WaitersOrdered
<1>3. /\ root' = [root EXCEPT ![q] = r] /\ FallAsleep(t)
      /\ td_qpec' = [x \in All |-> IF x = t THEN td_qpec[t] + n
                                   ELSE IF i < Len(s) /\ x = s[i + 1] THEN 0
                                   ELSE td_qpec[x]]
      /\ UNCHANGED <<runQueue, runningThread, td_queue, total_pending, woken>>
  BY DEF WaitInsert
<1>4. /\ td_qpec \in [All -> Nat]
      /\ root \in [Queue -> Seq(Thread) \cup {SIGNALED}]
  BY DEF IInv, TypeOK
<1> HIDE DEF s, n
<1>5. i \in 0..Len(s) /\ Len(s) \in Nat
  BY <1>1, <1>2, PrioType, WalkEnds, LenProperties
<1>6. /\ r \in Seq(Thread) /\ r # SIGNALED /\ r # <<>> /\ IsInjective(r)
      /\ Range(r) = Range(s) \cup {t} /\ PriOrdered(r, Prio)
  <2>1. r \in Seq(All) /\ Range(r) = Range(s) \cup {t} /\ Len(r) = Len(s) + 1
    BY <1>1, <1>2, PrioType, AddPriQueueType
  <2>2. IsInjective(r)
    BY <1>1, <1>2, PrioType, AddPriQueueInjective
  <2>3. PriOrdered(r, Prio)
    BY <1>1, <1>2, PrioType, AddPriQueueOrdered
  <2> HIDE DEF r
  <2>4. Range(s) \subseteq Thread
    BY <1>2, RangeOfChain, ElementOfSeq
  <2>5. r \in Seq(Thread)
    BY <2>1, <2>4, ChainOfRange
  <2>6. r # <<>>
    BY <1>5, <2>1
  <2> QED  BY <2>1, <2>2, <2>3, <2>5, <2>6, ThreadsAssumption
<1>7. Head(r) = IF i = 0 THEN t ELSE s[1]
  <2> DEFINE j == i + 1
  <2>1. r = InsertAt(s, j, t)
    BY DEF AddPriQueue
  <2> HIDE DEF r, i
  <2>2. j \in 1..(Len(s) + 1) /\ (j = 1 <=> i = 0)
    BY <1>5
  <2> HIDE DEF j
  <2>3. Head(InsertAt(s, j, t)) = IF j = 1 THEN t ELSE s[1]
    BY <1>2, <2>2, InsertAtHead
  <2> QED  BY <2>1, <2>2, <2>3
<1> HIDE DEF i, r
<1>8. Len(s) >= 1 /\ Head(s) = s[1]
  BY <1>1, <1>2, HeadInRange
<1>9. \A k \in 1..Len(s) : s[k] \in All /\ s[k] \in Range(s)
  BY <1>2, RangeOfChain, ElementOfSeq
<1>10. n \in Nat /\ (n > 0 => i = 0)
  <2>1. CASE i < Len(s)
    <3>1. n = td_qpec[s[i + 1]] /\ i + 1 \in 1..Len(s)
      BY <1>5, <2>1 DEF n
    <3>2. n > 0 => s[i + 1] = s[1]
      <4>1. td_queue[s[i + 1]] = q
        BY <1>2, <1>9, <3>1 DEF IInv, LinkedOnce
      <4> QED  BY <1>2, <1>8, <1>9, <3>1, <4>1 DEF IInv, PendingAtHead
    <3>3. s[i + 1] = s[1] => i + 1 = 1
      BY <1>2, <1>8, <3>1, LenProperties DEF IsInjective
    <3> QED  BY <1>4, <1>5, <1>9, <3>1, <3>2, <3>3
  <2>2. CASE ~(i < Len(s))
    BY <2>2 DEF n
  <2> QED  BY <2>1, <2>2
<1>11. /\ NoDanglingTimer' /\ Asleep' /\ Control'
       /\ td_timer' \in [All -> {NULL, "handle", SIGNALED}]
       /\ armed' \subseteq Thread
       /\ cont' \in [All -> {"return", "wait"}]
       /\ timed' \in [All -> BOOLEAN]
       /\ pc' = "scan" /\ fr' \in FrameType
  BY <1>1, <1>3, FallAsleepRest
<1>12. TypeOK'
  <2>1. td_qpec' \in [All -> Nat]
    BY <1>1, <1>3, <1>4, <1>10
  <2>2. root' \in [Queue -> Seq(Thread) \cup {SIGNALED}]
    BY <1>3, <1>4, <1>6
  <2> QED  BY <1>3, <1>11, <2>1, <2>2 DEF IInv, TypeOK, Labels
<1>13. Chain(q)' = r /\ \A p \in Queue \ {q} : Chain(p)' = Chain(p)
  BY <1>3, <1>4, <1>6 DEF Chain
<1>14. PendingAtHead'
  <2>1. ASSUME NEW x \in All, td_qpec'[x] > 0
        PROVE  \E p \in Queue : td_queue'[x] = p /\ Chain(p)' # <<>> /\ Head(Chain(p)') = x
    <3>1. CASE x = t
      <4>1. n > 0
        BY <1>1, <1>3, <1>10, <2>1, <3>1
      <4> QED  BY <1>1, <1>3, <1>6, <1>7, <1>10, <1>13, <3>1, <4>1
    <3>2. CASE x # t
      <4>1. td_qpec[x] > 0 /\ ~(i < Len(s) /\ x = s[i + 1])
        BY <1>3, <2>1, <3>2
      <4>2. PICK p \in Queue : td_queue[x] = p /\ Chain(p) # <<>> /\ Head(Chain(p)) = x
        BY <4>1 DEF IInv, PendingAtHead
      <4>3. CASE p = q
        <5>1. x = s[1] /\ i # 0
          BY <1>2, <1>5, <1>8, <4>1, <4>2, <4>3
        <5> QED  BY <1>3, <1>6, <1>7, <1>13, <4>2, <4>3, <5>1
      <4>4. CASE p # q
        BY <1>3, <1>13, <4>2, <4>4
      <4> QED  BY <4>3, <4>4
    <3> QED  BY <3>1, <3>2
  <2> QED  BY <2>1 DEF PendingAtHead
<1>15. LinkedOnce'
  <2>1. \A x \in All : ~Moving(x)' /\ (Moving(x) <=> x = t)
    BY <1>1, <1>11 DEF Moving
  <2>2. ASSUME NEW x \in All, NEW p \in Queue
        PROVE  x \in Range(Chain(p)') <=> td_queue'[x] = p
    <3>1. x \in Range(Chain(p)) <=> td_queue[x] = p /\ x # t
      BY <2>1 DEF IInv, LinkedOnce
    <3>2. CASE p = q
      BY <1>1, <1>2, <1>3, <1>6, <1>13, <3>1, <3>2
    <3>3. CASE p # q
      BY <1>1, <1>3, <1>13, <3>1, <3>3
    <3> QED  BY <3>2, <3>3
  <2>3. \A p \in Queue : IsInjective(Chain(p)')
    BY <1>6, <1>13 DEF IInv, LinkedOnce
  <2> QED  BY <1>3, <2>1, <2>2, <2>3 DEF IInv, LinkedOnce
<1>16. WaitersOrdered'
  BY <1>6, <1>13 DEF IInv, WaitersOrdered
<1>17. HeadKept(q)
  <2>1. ASSUME NEW x \in All, td_queue[x] # q
        PROVE  td_qpec'[x] = td_qpec[x]
    <3>1. x \notin Range(s) /\ x # t
      BY <1>1, <1>2, <2>1 DEF IInv, LinkedOnce
    <3>2. i < Len(s) => i + 1 \in 1..Len(s)
      BY <1>5
    <3>3. ~(i < Len(s) /\ x = s[i + 1])
      BY <1>9, <3>1, <3>2
    <3> QED  BY <1>3, <3>1, <3>3
  <2>2. td_qpec'[Head(Chain(q)')] = td_qpec[Head(Chain(q))]
    <3>1. CASE i = 0
      <4>1. n = td_qpec[s[1]]
        BY <1>8, <3>1 DEF n
      <4>2. td_qpec'[t] = n
        BY <1>1, <1>3, <1>10
      <4> QED  BY <1>2, <1>7, <1>8, <1>13, <3>1, <4>1, <4>2
    <3>2. CASE i # 0
      <4>1. 1 \in 1..Len(s) /\ (i < Len(s) => i + 1 \in 1..Len(s) /\ i + 1 # 1)
        BY <1>5, <1>8, <3>2
      <4>2. s[1] \in All /\ s[1] # t
        BY <1>2, <1>9, <4>1
      <4>3. i < Len(s) => s[1] # s[i + 1]
        BY <1>2, <4>1, LenProperties DEF IsInjective
      <4>4. td_qpec'[s[1]] = td_qpec[s[1]]
        BY <1>3, <4>2, <4>3
      <4> QED  BY <1>2, <1>7, <1>8, <1>13, <3>2, <4>4
    <3> QED  BY <3>1, <3>2
  <2>3. root'[q] = Chain(q)' /\ \A p \in Queue \ {q} : root'[p] = root[p]
    BY <1>3, <1>4, <1>13
  <2> QED  BY <2>1, <2>2, <2>3 DEF HeadKept
<1>18. HandedOver
  <2>1. CASE i < Len(s)
    <3>1. i + 1 \in 1..Len(s)
      BY <1>5, <2>1
    <3>2. PICK a \in All : a = s[i + 1] /\ a # t
      BY <1>2, <1>9, <3>1
    <3>3. n = td_qpec[a]
      BY <2>1, <3>2 DEF n
    <3>4. /\ td_qpec'[a] = 0 /\ td_qpec'[t] = n
          /\ \A x \in All \ {a, t} : td_qpec'[x] = td_qpec[x]
      BY <1>1, <1>3, <1>10, <2>1, <3>2
    <3> QED  BY <1>1, <3>2, <3>3, <3>4 DEF HandedOver
  <2>2. CASE ~(i < Len(s))
    <3>1. n = 0
      BY <2>2 DEF n
    <3>2. \A x \in All : td_qpec'[x] <= td_qpec[x]
      BY <1>1, <1>3, <1>4, <2>2, <3>1
    <3> QED  BY <3>2 DEF HandedOver
  <2> QED  BY <2>1, <2>2
<1>19. \A p \in Queue : t \notin Range(Chain(p))
  BY <1>1 DEF IInv, LinkedOnce, Moving
<1> QED
  BY <1>2, <1>6, <1>11, <1>12, <1>13, <1>14, <1>15, <1>16, <1>17, <1>18, <1>19 DEF IInv

\* NutEventPostAsync wakes up the first thread of a queue.
LEMMA PostPopIInv ==
    ASSUME IInv, NEW td, NEW q \in Queue, q = fr.q, td = Head(root[q]), PostPop
    PROVE  IInv'
<1>1. pc = "pa_pop" /\ root[q] # SIGNALED /\ root[q] # <<>>
  BY DEF IInv, Control, PostPop
<1>2. td \in Thread /\ td \in Range(Chain(q))
  <2>1. root[q] \in Seq(Thread) /\ Chain(q) = root[q]
    BY <1>1, ChainType DEF IInv
  <2> QED  BY <1>1, <2>1, HeadInRange
<1>3. td \in All /\ td_queue[td] = q /\ q # RunQueue /\ Idle \in All /\ Idle # td
  <2>1. td \in All /\ Idle \in All /\ Idle # td
    BY <1>2, ThreadsAssumption DEF All
  <2> QED  BY <1>2, <2>1, ThreadsAssumption DEF IInv, LinkedOnce
<1>4. /\ Unlink(q, td) /\ StopTimer(td) /\ MakeReady(td)
      /\ woken' = [woken EXCEPT ![td] = "event"]
      /\ PostReturn(fr.ret)
      /\ UNCHANGED <<runningThread, total_pending, cont, timed>>
  BY DEF PostPop
<1>5. fr.ret \in {"user", "yield", "scan", "bc_loop"}
  BY DEF IInv, TypeOK, FrameType
<1>6. td_queue' = [td_queue EXCEPT ![td] = RunQueue]
  BY <1>4 DEF MakeReady
<1>7. pc' \in Labels /\ fr' \in FrameType /\ pc' # "w_insert" /\ Control'
  <2>1. ~InResume => /\ cont'[runningThread] = "return"
                     /\ td_queue'[runningThread] = RunQueue
    BY <1>1, <1>4, <1>6 DEF IInv, TypeOK, Control
  <2> QED  BY <1>1, <1>4, <1>5, <2>1, ReturnControl
<1>8. /\ Chains'
      /\ root' \in [Queue -> Seq(Thread) \cup {SIGNALED}]
      /\ td_qpec' \in [All -> Nat]
      /\ runQueue' \in Seq(All)
      /\ td_queue' \in [All -> Queue \cup {RunQueue, NULL}]
  BY <1>1, <1>2, <1>4, <1>7, WakeChains DEF IInv, Chains
<1>9. /\ td_timer \in [All -> {NULL, "handle", SIGNALED}] /\ armed \subseteq Thread
      /\ woken \in [All -> {NULL, "event", "timeout"}]
      /\ td_queue \in [All -> Queue \cup {RunQueue, NULL}]
  BY DEF IInv, TypeOK
<1>10. armed' = armed \ {td} /\ td_timer' = [td_timer EXCEPT ![td] = NULL]
  <2>1. td \in armed <=> td_timer[td] = "handle"
    BY <1>3 DEF IInv, NoDanglingTimer
  <2>2. NULL # "handle"
    BY ThreadsAssumption
  <2> QED  BY <1>4, <2>1, <2>2 DEF StopTimer
<1>11. TypeOK'
  <2>1. /\ td_timer' \in [All -> {NULL, "handle", SIGNALED}] /\ armed' \subseteq Thread
        /\ woken' \in [All -> {NULL, "event", "timeout"}]
    BY <1>4, <1>9, <1>10
  <2> QED  BY <1>4, <1>7, <1>8, <2>1 DEF IInv, TypeOK
<1>12. NoDanglingTimer'
  <2>1. \A x \in All : x \in armed <=> td_timer[x] = "handle"
    BY DEF IInv, NoDanglingTimer
  <2>2. NULL # "handle"
    BY ThreadsAssumption
  <2> QED  BY <1>9, <1>10, <2>1, <2>2 DEF NoDanglingTimer
<1>13. Asleep'
  <2>1. td_queue'[Idle] = RunQueue
    BY <1>3, <1>6, <1>9 DEF IInv, Asleep
  <2>2. \A x \in armed' : td_queue'[x] # RunQueue
    BY <1>6, <1>9, <1>10 DEF IInv, Asleep, All
  <2>3. \A x \in All : td_queue'[x] = NULL => cont'[x] = "return"
    BY <1>4, <1>6, <1>9, ThreadsAssumption DEF IInv, Asleep
  <2>4. ASSUME NEW x \in All, td_queue'[x] = RunQueue, cont'[x] = "wait"
        PROVE  WaitResult(x)' = woken'[x]
    <3>1. CASE x = td
      <4>1. td_timer'[x] = NULL /\ NULL # SIGNALED /\ woken'[x] = "event"
        BY <1>3, <1>4, <1>9, <1>10, <3>1, ThreadsAssumption
      <4> QED  BY <4>1 DEF WaitResult
    <3>2. CASE x # td
      <4>1. /\ td_queue[x] = RunQueue /\ cont[x] = "wait" /\ td_timer'[x] = td_timer[x]
            /\ woken'[x] = woken[x]
        BY <1>4, <1>6, <1>9, <1>10, <2>4, <3>2
      <4>2. WaitResult(x) = woken[x]
        BY <4>1 DEF IInv, Asleep
      <4> QED  BY <4>1, <4>2 DEF WaitResult
    <3> QED  BY <3>1, <3>2
  <2> QED  BY <2>1, <2>2, <2>3, <2>4 DEF Asleep
<1> QED
  BY <1>7, <1>8, <1>11, <1>12, <1>13 DEF IInv, Chains

\* Steps that move no thread between queues and keep timers and counters.
LEMMA RunQueueStep ==
    ASSUME IInv, pc # "w_insert", pc' # "w_insert", pc' \in Labels, fr' \in FrameType,
           UNCHANGED <<root, td_qpec, td_queue, total_pending, armed>>,
           runQueue' \in Seq(All), IsInjective(runQueue'),
           Range(runQueue') = Range(runQueue), runningThread' \in All
    PROVE  Chains' /\ root' \in [Queue -> Seq(Thread) \cup {SIGNALED}]
<1>1. \A t \in All : Moving(t)' <=> Moving(t)
  BY DEF Moving
<1>2. \A q \in Queue : Chain(q)' = Chain(q)
  BY DEF Chain
<1>3. PendingAtHead' /\ WaitersOrdered'
  BY <1>2 DEF IInv, PendingAtHead, WaitersOrdered
<1>4. LinkedOnce'
  BY <1>1, <1>2 DEF IInv, LinkedOnce
<1> QED
  BY <1>3, <1>4 DEF Chains, IInv, TypeOK

\* A thread taken out of a chain and linked in again.
LEMMA Requeue ==
    ASSUME NEW s \in Seq(All), NEW t \in All, IsInjective(s), t \in Range(s)
    PROVE  LET r == AddPriQueue(RemoveQueue(s, t), t, Prio)
           IN  r \in Seq(All) /\ IsInjective(r) /\ Range(r) = Range(s)
<1> DEFINE u == RemoveQueue(s, t)
<1>1. u \in Seq(All) /\ IsInjective(u) /\ Range(u) = Range(s) \ {t}
  BY RemoveQueueInjective
<1> HIDE DEF u
<1>2. /\ AddPriQueue(u, t, Prio) \in Seq(All)
      /\ Range(AddPriQueue(u, t, Prio)) = Range(u) \cup {t}
  <2>1. u \in Seq(All)
    BY <1>1
  <2> QED  BY <2>1, PrioType, AddPriQueueType
<1>3. IsInjective(AddPriQueue(u, t, Prio))
  BY <1>1, PrioType, AddPriQueueInjective
<1> QED
  BY <1>1, <1>2, <1>3 DEF u

\* A thread moved to the front of a chain.
LEMMA ToFront ==
    ASSUME NEW s \in Seq(All), NEW t \in All, IsInjective(s), t \in Range(s)
    PROVE  LET r == <<t>> \o RemoveQueue(s, t)
           IN  r \in Seq(All) /\ IsInjective(r) /\ Range(r) = Range(s)
<1> DEFINE u == RemoveQueue(s, t)
           r == <<t>> \o u
<1>1. u \in Seq(All) /\ IsInjective(u) /\ Range(u) = Range(s) \ {t}
  BY RemoveQueueInjective
<1> HIDE DEF u
<1>2. /\ r \in Seq(All) /\ Len(r) = Len(u) + 1 /\ Len(u) \in Nat
      /\ \A k \in 1..(Len(u) + 1) : r[k] = IF k = 1 THEN t ELSE u[k - 1]
  <2>1. u \in Seq(All) /\ <<t>> \in Seq(All) /\ Len(<<t>>) = 1 /\ <<t>>[1] = t
    BY <1>1
  <2> QED  BY <2>1, LenProperties, ConcatProperties
<1> HIDE DEF r
<1>3. Range(r) = {r[k] : k \in 1..Len(r)} /\ Range(u) = {u[k] : k \in 1..Len(u)}
  BY <1>1, <1>2, RangeOfChain
<1>4. Range(r) = Range(u) \cup {t}
  <2>1. ASSUME NEW x \in Range(r)
        PROVE  x \in Range(u) \cup {t}
    <3>1. PICK k \in 1..(Len(u) + 1) : x = r[k]
      BY <1>2, <1>3
    <3>2. k = 1 \/ k - 1 \in 1..Len(u)
      BY <1>2
    <3> QED  BY <1>2, <1>3, <3>1, <3>2
  <2>2. t \in Range(r)
    <3>1. r[1] = t /\ 1 \in 1..Len(r)
      BY <1>2
    <3> QED  BY <1>3, <3>1
  <2>3. ASSUME NEW x \in Range(u)
        PROVE  x \in Range(r)
    <3>1. PICK k \in 1..Len(u) : x = u[k]
      BY <1>3
    <3>2. r[k + 1] = u[k] /\ k + 1 \in 1..Len(r)
      BY <1>2
    <3> QED  BY <1>3, <3>1, <3>2
  <2> QED  BY <2>1, <2>2, <2>3
<1>5. \A k \in 1..Len(u) : u[k] # t
  BY <1>1, <1>3
<1>6. \A j, k \in 1..Len(u) : u[j] = u[k] => j = k
  BY <1>1, LenProperties DEF IsInjective
<1>7. ASSUME NEW j \in 1..Len(r), NEW k \in 1..Len(r), r[j] = r[k]
      PROVE  j = k
  <2>1. \/ j = 1 /\ r[j] = t
        \/ j - 1 \in 1..Len(u) /\ r[j] = u[j - 1]
    BY <1>2
  <2>2. \/ k = 1 /\ r[k] = t
        \/ k - 1 \in 1..Len(u) /\ r[k] = u[k - 1]
    BY <1>2
  <2>3. CASE j = 1
    BY <1>5, <1>7, <2>1, <2>2, <2>3
  <2>4. CASE j # 1
    <3>1. k # 1
      BY <1>5, <1>7, <2>1, <2>2, <2>4
    <3>2. j - 1 = k - 1
      BY <1>6, <1>7, <2>1, <2>2, <2>4, <3>1
    <3> QED  BY <1>2, <3>2
  <2> QED  BY <2>3, <2>4
<1>8. IsInjective(r)
  BY <1>2, <1>7, LenProperties DEF IsInjective
<1> QED
  BY <1>1, <1>2, <1>4, <1>8 DEF r, u

\* The running thread goes behind its equals.
LEMMA YieldIInv ==
    ASSUME IInv, NEW t \in All, t = runningThread, NutThreadYield
    PROVE  IInv'
<1>1. pc = "yield" /\ td_queue[t] = RunQueue
  BY DEF IInv, Control, InResume, NutThreadYield
<1>2. /\ pc' = "scan" /\ fr' = NoFrame /\ cont' = [cont EXCEPT ![t] = "return"]
      /\ UNCHANGED <<root, runningThread, td_qpec, td_queue, td_timer,
                     total_pending, armed, woken, timed>>
  BY DEF NutThreadYield, Goto
<1>3. /\ runQueue' \in Seq(All) /\ IsInjective(runQueue')
      /\ Range(runQueue') = Range(runQueue)
  <2>1. runQueue \in Seq(All) /\ IsInjective(runQueue) /\ t \in Range(runQueue)
    BY <1>1 DEF IInv, TypeOK, LinkedOnce
  <2>2. runQueue' \in {AddPriQueue(RemoveQueue(runQueue, t), t, Prio), runQueue}
    BY DEF NutThreadYield
  <2> QED  BY <2>1, <2>2, Requeue
<1>4. pc # "w_insert" /\ pc' # "w_insert" /\ pc' \in Labels /\ fr' \in FrameType
  BY <1>1, <1>2, FreshFrame DEF Labels
<1>5. Chains' /\ root' \in [Queue -> Seq(Thread) \cup {SIGNALED}]
  BY <1>2, <1>3, <1>4, RunQueueStep
<1>6. TypeOK'
  BY <1>2, <1>3, <1>4, <1>5 DEF IInv, TypeOK
<1>7. NoDanglingTimer'
  BY <1>2 DEF IInv, NoDanglingTimer
<1>8. Asleep'
  <2>1. \A x \in All : WaitResult(x)' = WaitResult(x)
    BY <1>2 DEF WaitResult
  <2>2. \A x \in All : cont'[x] = "wait" => cont[x] = "wait"
    BY <1>2 DEF IInv, TypeOK
  <2>3. \A x \in All : cont[x] = "return" => cont'[x] = "return"
    BY <1>2 DEF IInv, TypeOK
  <2> QED  BY <1>2, <2>1, <2>2, <2>3 DEF IInv, Asleep
<1>9. Control'
  BY <1>2 DEF Control, InResume, QueueLabels
<1> QED
  BY <1>5, <1>6, <1>7, <1>8, <1>9 DEF IInv, Chains

\* The thread on top of the run queue.
LEMMA NextRuns ==
    ASSUME IInv, NEW n, n = Head(runQueue)
    PROVE  n \in All /\ n \in Range(runQueue) /\ td_queue[n] = RunQueue
<1>1. Idle \in Range(runQueue)
  BY DEF IInv, Asleep, LinkedOnce, All
<1>2. runQueue # <<>> /\ runQueue \in Seq(All)
  BY <1>1, EmptyChain DEF IInv, TypeOK
<1>3. n \in All /\ n \in Range(runQueue)
  BY <1>2, HeadInRange
<1> QED
  BY <1>3 DEF IInv, LinkedOnce

\* NutThreadSwitch enters the context of the first thread of the run queue.
LEMMA SwitchIInv ==
    ASSUME IInv, NEW n, n = Head(runQueue), NutThreadSwitch
    PROVE  IInv'
<1>1. n \in All /\ n \in Range(runQueue) /\ td_queue[n] = RunQueue
  BY NextRuns
<1>2. /\ pc = "scan" /\ pc' = "user" /\ fr' = NoFrame /\ runningThread' = n
      /\ td_timer' = [td_timer EXCEPT ![n] =
                        IF cont[n] = "wait" /\ td_timer[n] = SIGNALED THEN NULL
                        ELSE td_timer[n]]
      /\ cont' = [cont EXCEPT ![n] = "return"]
      /\ woken' = [woken EXCEPT ![n] = NULL]
      /\ timed' = [timed EXCEPT ![n] = FALSE]
      /\ UNCHANGED <<root, runQueue, td_qpec, td_queue, total_pending, armed>>
  BY DEF NutThreadSwitch, ScanDone, Return
<1>3. pc # "w_insert" /\ pc' # "w_insert" /\ pc' \in Labels /\ fr' \in FrameType
  BY <1>2, FreshFrame DEF Labels
<1>4. Chains' /\ root' \in [Queue -> Seq(Thread) \cup {SIGNALED}]
  <2>1. runQueue' \in Seq(All) /\ IsInjective(runQueue') /\ Range(runQueue') = Range(runQueue)
    BY <1>2 DEF IInv, TypeOK, LinkedOnce
  <2> QED  BY <1>1, <1>2, <1>3, <2>1, RunQueueStep
<1>5. /\ td_timer \in [All -> {NULL, "handle", SIGNALED}]
      /\ cont \in [All -> {"return", "wait"}]
      /\ woken \in [All -> {NULL, "event", "timeout"}]
      /\ timed \in [All -> BOOLEAN]
  BY DEF IInv, TypeOK
<1>6. /\ td_timer' \in [All -> {NULL, "handle", SIGNALED}]
      /\ cont' \in [All -> {"return", "wait"}]
      /\ woken' \in [All -> {NULL, "event", "timeout"}]
      /\ timed' \in [All -> BOOLEAN]
  BY <1>1, <1>2, <1>5
<1>7. TypeOK'
  BY <1>1, <1>2, <1>3, <1>4, <1>6 DEF IInv, TypeOK
<1>8. NoDanglingTimer'
  <2>1. \A x \in All : td_timer'[x] = "handle" <=> td_timer[x] = "handle"
    <3>1. NULL # "handle" /\ SIGNALED # "handle"
      BY ThreadsAssumption
    <3> QED  BY <1>1, <1>2, <1>5, <3>1
  <2> QED  BY <1>2, <2>1 DEF IInv, NoDanglingTimer
<1>9. Asleep'
  <2>1. \A x \in All : x # n => td_timer'[x] = td_timer[x] /\ woken'[x] = woken[x]
                                /\ cont'[x] = cont[x]
    BY <1>2, <1>5
  <2>2. cont'[n] = "return"
    BY <1>1, <1>2, <1>5
  <2>4. \A x \in All : td_queue'[x] = RunQueue /\ cont'[x] = "wait" => WaitResult(x)' = woken'[x]
    <3> SUFFICES ASSUME NEW x \in All, td_queue'[x] = RunQueue, cont'[x] = "wait"
                 PROVE  WaitResult(x)' = woken'[x]
      OBVIOUS
    <3>1. x # n
      BY <2>2
    <3>2. WaitResult(x) = woken[x]
      BY <1>2, <2>1, <3>1 DEF IInv, Asleep
    <3> QED  BY <2>1, <3>1, <3>2 DEF WaitResult
  <2>5. \A x \in All : td_queue'[x] = NULL => cont'[x] = "return"
    BY <1>2, <2>1, <2>2 DEF IInv, Asleep
  <2> QED  BY <1>2, <2>4, <2>5 DEF IInv, Asleep
<1>10. Control'
  <2>1. cont'[n] = "return" /\ td_queue'[n] = RunQueue
    BY <1>1, <1>2, <1>5
  <2> QED  BY <1>2, <2>1 DEF Control, InResume, QueueLabels
<1> QED
  BY <1>4, <1>7, <1>8, <1>9, <1>10 DEF IInv, Chains

\* The idle loop.
LEMMA IdleIInv ==
    ASSUME IInv, IdleCheck \/ IdleWake
    PROVE  IInv'
<1>1. /\ UNCHANGED <<kernel, Locals>> /\ pc \in {"user", "wfi"}
      /\ fr' = fr /\ pc' \in {"wfi", "yield"}
  BY DEF IdleCheck, IdleWake, Running, Goto
<1>2. fr' \in FrameType
  BY <1>1 DEF IInv, TypeOK
<1> QED
  BY <1>1, <1>2, CallIInv

\* NutThreadResume walks along nutThreadList; a timer is found elapsed.
LEMMA ScanIInv ==
    ASSUME IInv, ResumeScan \/ \E t \in Thread : NutEventTimeout(t)
    PROVE  IInv'
<1>1. pc = "scan" /\ pc # "w_insert" /\ TypeOK /\ root' = root /\ fr \in FrameType
  BY DEF IInv, TypeOK, ResumeScan, NutEventTimeout, ScanDone, kernel
<1>2. CASE ResumeScan
  <2>1. /\ UNCHANGED <<kernel, Locals>> /\ fr.scan <= Len(ThreadList)
        /\ \/ /\ pc' = "deliver" /\ fr' = fr
              /\ td_qpec[ThreadList[fr.scan]] > 0
           \/ pc' = "scan" /\ fr' = [fr EXCEPT !.scan = @ + 1]
    BY <1>1, <1>2 DEF ResumeScan, Goto
  <2>2. fr' \in FrameType
    BY <1>1, <2>1, ListType DEF FrameType
  <2>3. Control'
    BY <2>1 DEF Control, InResume, QueueLabels, kernel
  <2>4. pc' \in Labels /\ pc' # "w_insert"
    BY <2>1 DEF Labels
  <2> QED  BY <1>1, <2>1, <2>2, <2>3, <2>4, SameRoot, QuietStep DEF kernel
<1>3. ASSUME NEW t \in Thread, NutEventTimeout(t)
      PROVE  IInv'
  <2>1. t \in All /\ t \in armed /\ td_queue[t] # NULL
    BY <1>3 DEF NutEventTimeout, All
  <2>2. td_queue[t] \in Queue
    BY <2>1 DEF IInv, Asleep, TypeOK
  <2>3. root[td_queue[t]] # SIGNALED
    <3>1. t \in Range(Chain(td_queue[t]))
      BY <1>1, <2>1, <2>2 DEF IInv, LinkedOnce, Moving
    <3> QED  BY <3>1, EmptyChain DEF Chain
  <2>4. /\ pc' = "to_unlink" /\ fr' = [fr EXCEPT !.td = t] /\ armed' = armed
        /\ UNCHANGED <<root, runQueue, runningThread, td_qpec, td_queue, td_timer,
                       total_pending, Locals>>
    BY <1>3, <2>3 DEF NutEventTimeout, FindByTimer, Goto
  <2>5. fr' \in FrameType /\ fr'.td = t
    BY <1>1, <2>4 DEF FrameType
  <2>6. Control'
    BY <2>1, <2>2, <2>4, <2>5 DEF Control, InResume, QueueLabels
  <2>7. pc' \in Labels /\ pc' # "w_insert"
    BY <2>4 DEF Labels
  <2> QED  BY <1>1, <2>4, <2>5, <2>6, <2>7, SameRoot, QuietStep
<1> QED
  BY <1>2, <1>3

\* Steps of NutThreadResume and of interrupts that only change td_qpec.
LEMMA CountStep ==
    ASSUME IInv, Moving(runningThread)' <=> Moving(runningThread),
           UNCHANGED <<runQueue, runningThread, td_queue, td_timer, armed, Locals>>,
           root' \in [Queue -> Seq(Thread) \cup {SIGNALED}],
           \A q \in Queue : Chain(q)' = Chain(q),
           pc' \in Labels, fr' \in FrameType, Control',
           td_qpec' \in [All -> Nat], total_pending' \in Int,
           \A t \in All : td_qpec'[t] > 0 =>
              \/ td_qpec[t] > 0
              \/ \E q \in Queue : Chain(q) # <<>> /\ Head(Chain(q)) = t
    PROVE  IInv'
<1>1. TypeOK'
  BY DEF IInv, TypeOK, Locals
<1>2. \A t \in All : Moving(t)' <=> Moving(t)
  BY DEF Moving
<1>3. PendingAtHead'
  <2>1. ASSUME NEW t \in All, NEW q \in Queue, Chain(q) # <<>>, Head(Chain(q)) = t
        PROVE  td_queue[t] = q
    <3>1. t \in Range(Chain(q))
      BY <2>1, ChainType, HeadInRange DEF IInv
    <3> QED  BY <3>1 DEF IInv, LinkedOnce
  <2>2. ASSUME NEW t \in All, td_qpec'[t] > 0
        PROVE  \E q \in Queue : td_queue[t] = q /\ Chain(q) # <<>> /\ Head(Chain(q)) = t
    <3>1. CASE td_qpec[t] > 0
      BY <3>1 DEF IInv, PendingAtHead
    <3>2. CASE \E q \in Queue : Chain(q) # <<>> /\ Head(Chain(q)) = t
      BY <2>1, <3>2
    <3> QED  BY <2>2, <3>1, <3>2
  <2> QED  BY <2>2 DEF PendingAtHead
<1>4. LinkedOnce' /\ WaitersOrdered'
  BY <1>2 DEF IInv, LinkedOnce, WaitersOrdered
<1>5. NoDanglingTimer'
  BY DEF IInv, NoDanglingTimer
<1>6. Asleep'
  BY DEF IInv, Asleep, WaitResult, Locals
<1> QED
  BY <1>1, <1>3, <1>4, <1>5, <1>6 DEF IInv

\* NutThreadResume takes an event off a thread's counter.
LEMMA DeliverIInv ==
    ASSUME IInv, NEW td, td = ThreadList[fr.scan], ResumeDeliver
    PROVE  IInv'
<1>1. /\ pc = "deliver" /\ fr \in FrameType /\ fr.scan \in 1..Len(ThreadList)
      /\ td \in All /\ td_qpec[td] > 0
  <2>1. /\ pc = "deliver" /\ fr \in FrameType /\ fr.scan <= Len(ThreadList)
        /\ td_qpec[td] > 0
    BY DEF IInv, TypeOK, Control, ResumeDeliver
  <2>2. fr.scan \in 1..Len(ThreadList)
    BY <2>1, ListType DEF FrameType
  <2> QED  BY <2>1, <2>2, ListType
<1>2. td_queue[td] \in Queue
  BY <1>1 DEF IInv, PendingAtHead
<1>3. /\ td_qpec' = [td_qpec EXCEPT ![td] = @ - 1]
      /\ total_pending' = total_pending - 1
      /\ \/ /\ pc' = "pa_read"
            /\ fr' = [fr EXCEPT !.q = td_queue[td], !.ret = "scan", !.scan = @ + 1]
         \/ pc' = "scan" /\ fr' = [fr EXCEPT !.scan = @ + 1]
      /\ UNCHANGED <<root, runQueue, runningThread, td_queue, td_timer, armed, Locals>>
  BY DEF ResumeDeliver, Goto
<1>4. fr' \in FrameType /\ (pc' = "pa_read" => fr'.q \in Queue /\ fr'.ret = "scan")
  <2>1. fr.scan + 1 \in 1..(Len(ThreadList) + 1)
    BY <1>1, ListType
  <2>2. CASE fr' = [fr EXCEPT !.scan = @ + 1] /\ pc' = "scan"
    BY <1>1, <2>1, <2>2 DEF FrameType
  <2>3. CASE fr' = [fr EXCEPT !.q = td_queue[td], !.ret = "scan", !.scan = @ + 1]
    BY <1>1, <1>2, <2>1, <2>3 DEF FrameType
  <2> QED  BY <1>3, <2>2, <2>3
<1>5. pc' \in Labels /\ pc' \in {"pa_read", "scan"}
  BY <1>3 DEF Labels
<1>6. Control'
  BY <1>4, <1>5 DEF Control, InResume, QueueLabels
<1>7. /\ td_qpec' \in [All -> Nat] /\ total_pending' \in Int
      /\ \A t \in All : td_qpec'[t] > 0 => td_qpec[t] > 0
  BY <1>1, <1>3 DEF IInv, TypeOK
<1>8. Moving(runningThread)' <=> Moving(runningThread)
  BY <1>1, <1>5 DEF Moving
<1>9. TypeOK
  BY DEF IInv
<1> QED
  BY <1>3, <1>4, <1>5, <1>6, <1>7, <1>8, <1>9, SameRoot, CountStep

\* An interrupt posts an event.
LEMMA IrqIInv ==
    ASSUME IInv, NEW q \in Queue, NutEventPostFromIrq(q)
    PROVE  IInv'
<1>1. UNCHANGED <<runQueue, runningThread, td_queue, td_timer, armed, Locals, pc, fr>>
  BY DEF NutEventPostFromIrq
<1>2. /\ pc' \in Labels /\ fr' \in FrameType
      /\ Moving(runningThread)' <=> Moving(runningThread)
  BY <1>1 DEF IInv, TypeOK, Moving
<1>3. TypeOK /\ SIGNALED # <<>>
  BY EmptySeq, ThreadsAssumption DEF IInv
<1>4. CASE root[q] = <<>> /\ root' = [root EXCEPT ![q] = SIGNALED]
           /\ UNCHANGED <<td_qpec, total_pending>>
  <2>1. /\ root' \in [Queue -> Seq(Thread) \cup {SIGNALED}]
        /\ \A p \in Queue : Chain(p)' = Chain(p)
        /\ \A p \in Queue : root[p] # <<>> => root'[p] = root[p]
        /\ root'[q] = SIGNALED
    BY <1>3, <1>4 DEF TypeOK, Chain
  <2>2. Control'
    <3>1. Control /\ (InResume' <=> InResume)
      BY <1>1 DEF IInv, InResume
    <3>2. \A p \in Queue : root[p] = SIGNALED => root'[p] = SIGNALED
      BY <1>3, <2>1
    <3>3. \A p \in Queue : root[p] \in {SIGNALED, <<>>} => root'[p] \in {SIGNALED, <<>>}
      BY <1>3, <1>4, <2>1
    <3>4. \A p \in Queue : root[p] \notin {SIGNALED, <<>>} => root'[p] \notin {SIGNALED, <<>>}
      BY <2>1
    <3> QED  BY <1>1, <1>4, <3>1, <3>2, <3>3, <3>4 DEF Control, Locals, QueueLabels
  <2>3. /\ td_qpec' \in [All -> Nat] /\ total_pending' \in Int
        /\ \A t \in All : td_qpec'[t] > 0 => td_qpec[t] > 0
    BY <1>3, <1>4 DEF TypeOK
  <2> QED  BY <1>1, <1>2, <2>1, <2>2, <2>3, CountStep
<1>5. CASE /\ root[q] \notin {SIGNALED, <<>>} /\ Pend(Head(root[q])) /\ root' = root
  <2> DEFINE td == Head(root[q])
  <2>1. td \in Thread /\ td \in All /\ Chain(q) = root[q]
    <3>1. root[q] \in Seq(Thread) /\ Chain(q) = root[q]
      BY <1>3, <1>5, ChainType
    <3> QED  BY <1>5, <3>1, HeadInRange DEF All
  <2>2. /\ td_qpec' = [td_qpec EXCEPT ![td] = @ + 1]
        /\ total_pending' = total_pending + 1
    BY <1>5 DEF Pend
  <2>3. td \in Range(Chain(q))
    BY <1>3, <1>5, <2>1, ChainType, HeadInRange
  <2> HIDE DEF td
  <2>4. /\ td_qpec' \in [All -> Nat] /\ total_pending' \in Int
        /\ \A t \in All : t # td => td_qpec'[t] = td_qpec[t]
        /\ \A t \in All : td_qpec[t] > 0 => td_qpec'[t] > 0
    BY <1>3, <2>1, <2>2 DEF TypeOK
  <2>5. pc = "w_insert" => td # runningThread
    <3>1. \A t \in All : Moving(t) => t \notin Range(Chain(q))
      BY DEF IInv, LinkedOnce
    <3> QED  BY <2>1, <2>3, <3>1 DEF Moving
  <2>6. Control'
    <3>1. Control /\ (InResume' <=> InResume)
      BY <1>1 DEF IInv, InResume
    <3>2. pc = "w_insert" => td_qpec'[runningThread] = 0
      BY <1>3, <2>4, <2>5, <3>1 DEF Control, TypeOK
    <3>3. pc = "deliver" => td_qpec'[ThreadList[fr.scan]] > 0
      <4>1. pc = "deliver" => fr.scan \in 1..Len(ThreadList)
        BY <1>3, <3>1, ListType DEF Control, TypeOK, FrameType
      <4> QED  BY <2>4, <3>1, <4>1, ListType DEF Control
    <3> QED  BY <1>1, <1>5, <3>1, <3>2, <3>3 DEF Control, Locals
  <2>7. \A t \in All : td_qpec'[t] > 0 =>
           \/ td_qpec[t] > 0
           \/ \E p \in Queue : Chain(p) # <<>> /\ Head(Chain(p)) = t
    BY <1>5, <2>1, <2>4 DEF td
  <2> QED  BY <1>1, <1>2, <1>3, <1>5, <2>4, <2>6, <2>7, SameRoot, CountStep
<1> QED
  BY <1>4, <1>5 DEF NutEventPostFromIrq

\* A thread without a timer that waits in no queue at all enters the run queue.
LEMMA ReadyChains ==
    ASSUME IInv, NEW t \in Thread, td_queue[t] = NULL, MakeReady(t),
           pc # "w_insert", pc' # "w_insert", UNCHANGED <<root, td_qpec>>
    PROVE  /\ Chains'
           /\ runQueue' \in Seq(All)
           /\ td_queue' \in [All -> Queue \cup {RunQueue, NULL}]
<1>1. t \in All /\ NULL # RunQueue /\ NULL \notin Queue /\ RunQueue \notin Queue
  BY ThreadsAssumption DEF All
<1>2. /\ td_queue' = [td_queue EXCEPT ![t] = RunQueue]
      /\ td_queue \in [All -> Queue \cup {RunQueue, NULL}]
      /\ runQueue' = AddPriQueue(runQueue, t, Prio)
  BY DEF MakeReady, IInv, TypeOK
<1>3. /\ runQueue' \in Seq(All) /\ IsInjective(runQueue')
      /\ Range(runQueue') = Range(runQueue) \cup {t}
  <2>1. runQueue \in Seq(All) /\ IsInjective(runQueue) /\ t \notin Range(runQueue)
    BY <1>1 DEF IInv, TypeOK, LinkedOnce
  <2>2. /\ AddPriQueue(runQueue, t, Prio) \in Seq(All)
        /\ Range(AddPriQueue(runQueue, t, Prio)) = Range(runQueue) \cup {t}
    BY <1>1, <2>1, PrioType, AddPriQueueType
  <2>3. IsInjective(AddPriQueue(runQueue, t, Prio))
    BY <1>1, <2>1, PrioType, AddPriQueueInjective
  <2> QED  BY <1>2, <2>2, <2>3
<1>4. \A q \in Queue : Chain(q)' = Chain(q)
  BY DEF Chain
<1>5. PendingAtHead' /\ WaitersOrdered'
  <2>1. \A x \in All : td_queue[x] \in Queue => td_queue'[x] = td_queue[x]
    BY <1>1, <1>2
  <2> QED  BY <1>4, <2>1 DEF IInv, PendingAtHead, WaitersOrdered
<1>6. LinkedOnce'
  <2>1. \A x \in All : ~Moving(x) /\ ~Moving(x)'
    BY DEF Moving
  <2>2. \A x \in All : x \in Range(runQueue') <=> td_queue'[x] = RunQueue
    BY <1>1, <1>2, <1>3 DEF IInv, LinkedOnce
  <2>3. \A x \in All, q \in Queue : td_queue'[x] = q <=> td_queue[x] = q
    BY <1>1, <1>2
  <2> QED  BY <1>3, <1>4, <2>1, <2>2, <2>3 DEF IInv, LinkedOnce
<1> QED
  BY <1>1, <1>2, <1>3, <1>5, <1>6 DEF Chains

\* NutThreadWake makes a sleeping thread ready.
LEMMA WakeIInv ==
    ASSUME IInv, NEW t \in Thread, NutThreadWake(t)
    PROVE  IInv'
<1>1. /\ pc = "scan" /\ pc' = pc /\ fr' = fr /\ td_queue[t] = NULL /\ MakeReady(t)
      /\ armed' = armed \ {t} /\ td_timer' = [td_timer EXCEPT ![t] = NULL]
      /\ UNCHANGED <<root, runningThread, td_qpec, total_pending, cont, woken, timed>>
  BY DEF NutThreadWake, ScanDone, Locals
<1>2. /\ Chains' /\ runQueue' \in Seq(All)
      /\ td_queue' \in [All -> Queue \cup {RunQueue, NULL}]
  BY <1>1, ReadyChains
<1>3. /\ td_timer \in [All -> {NULL, "handle", SIGNALED}] /\ armed \subseteq Thread
      /\ td_queue \in [All -> Queue \cup {RunQueue, NULL}]
      /\ t \in All /\ Idle \in All /\ Idle # t /\ NULL # "handle"
  BY ThreadsAssumption DEF IInv, TypeOK, All
<1>4. TypeOK'
  <2>1. td_timer' \in [All -> {NULL, "handle", SIGNALED}] /\ armed' \subseteq Thread
    BY <1>1, <1>3
  <2> QED  BY <1>1, <1>2, <2>1 DEF IInv, TypeOK
<1>5. NoDanglingTimer'
  <2>1. \A x \in All : x \in armed <=> td_timer[x] = "handle"
    BY DEF IInv, NoDanglingTimer
  <2> QED  BY <1>1, <1>3, <2>1 DEF NoDanglingTimer
<1>6. Asleep'
  <2>1. td_queue' = [td_queue EXCEPT ![t] = RunQueue]
    BY <1>1 DEF MakeReady
  <2>2. td_queue'[Idle] = RunQueue
    BY <1>3, <2>1 DEF IInv, Asleep
  <2>3. \A x \in armed' : td_queue'[x] # RunQueue
    BY <1>1, <1>3, <2>1 DEF IInv, Asleep, All
  <2>4. cont[t] = "return"
    BY <1>1, <1>3 DEF IInv, Asleep
  <2>5. \A x \in All : td_queue'[x] = NULL => cont'[x] = "return"
    BY <1>1, <1>3, <2>1, <2>4 DEF IInv, Asleep
  <2>6. ASSUME NEW x \in All, td_queue'[x] = RunQueue, cont'[x] = "wait"
        PROVE  WaitResult(x)' = woken'[x]
    <3>1. x # t /\ td_queue[x] = RunQueue /\ cont[x] = "wait" /\ td_timer'[x] = td_timer[x]
      BY <1>1, <1>3, <2>1, <2>4, <2>6
    <3>2. WaitResult(x) = woken[x]
      BY <3>1 DEF IInv, Asleep
    <3> QED  BY <1>1, <3>1, <3>2 DEF WaitResult
  <2> QED  BY <2>2, <2>3, <2>5, <2>6 DEF Asleep
<1>7. Control'
  BY <1>1 DEF Control, InResume, QueueLabels
<1> QED
  BY <1>2, <1>4, <1>5, <1>6, <1>7 DEF IInv, Chains

\* NutEventTimeout takes a thread out of its queue.
LEMMA TimeoutIInv ==
    ASSUME IInv, NEW t, NEW q, t = fr.td, q = td_queue[t], TimeoutUnlink
    PROVE  IInv'
<1>1. /\ pc = "to_unlink" /\ t \in armed /\ q \in Queue /\ fr \in FrameType
      /\ t \in Thread /\ t \in All /\ Idle \in All /\ Idle # t
  <2>1. pc = "to_unlink" /\ t \in armed /\ q \in Queue /\ fr \in FrameType /\ t \in Thread
    BY DEF IInv, Control, TypeOK, TimeoutUnlink
  <2> QED  BY <2>1, ThreadsAssumption DEF All
<1>2. t \in Range(Chain(q))
  <2>1. ~Moving(t)
    BY <1>1 DEF Moving
  <2> QED  BY <1>1, <2>1 DEF IInv, LinkedOnce
<1>3. /\ Unlink(q, t) /\ MakeReady(t)
      /\ td_timer' = [td_timer EXCEPT ![t] = SIGNALED]
      /\ armed' = armed \ {t}
      /\ woken' = [woken EXCEPT ![t] = "timeout"]
      /\ pc' = "scan" /\ fr' = [fr EXCEPT !.td = NULL]
      /\ UNCHANGED <<runningThread, total_pending, cont, timed>>
  BY DEF TimeoutUnlink, Goto
<1>4. /\ Chains'
      /\ root' \in [Queue -> Seq(Thread) \cup {SIGNALED}]
      /\ td_qpec' \in [All -> Nat]
      /\ runQueue' \in Seq(All)
      /\ td_queue' \in [All -> Queue \cup {RunQueue, NULL}]
  <2>1. TypeOK /\ Chains /\ pc # "w_insert" /\ pc' # "w_insert"
    BY <1>1, <1>3 DEF IInv, Chains
  <2> QED  BY <1>1, <1>2, <1>3, <2>1, WakeChains
<1>5. /\ td_timer \in [All -> {NULL, "handle", SIGNALED}] /\ armed \subseteq Thread
      /\ woken \in [All -> {NULL, "event", "timeout"}]
      /\ td_queue \in [All -> Queue \cup {RunQueue, NULL}]
      /\ NULL # RunQueue /\ SIGNALED # "handle"
  BY ThreadsAssumption DEF IInv, TypeOK
<1>6. TypeOK'
  <2>1. /\ td_timer' \in [All -> {NULL, "handle", SIGNALED}] /\ armed' \subseteq Thread
        /\ woken' \in [All -> {NULL, "event", "timeout"}]
    BY <1>3, <1>5
  <2>2. fr' \in FrameType /\ pc' \in Labels
    BY <1>1, <1>3 DEF FrameType, Labels
  <2> QED  BY <1>3, <1>4, <2>1, <2>2 DEF IInv, TypeOK
<1>7. NoDanglingTimer'
  <2>1. \A x \in All : x \in armed <=> td_timer[x] = "handle"
    BY DEF IInv, NoDanglingTimer
  <2> QED  BY <1>3, <1>5, <2>1 DEF NoDanglingTimer
<1>8. Asleep'
  <2>1. td_queue' = [td_queue EXCEPT ![t] = RunQueue]
    BY <1>3 DEF MakeReady
  <2>2. td_queue'[Idle] = RunQueue
    BY <1>1, <1>5, <2>1 DEF IInv, Asleep
  <2>3. \A x \in armed' : td_queue'[x] # RunQueue
    BY <1>3, <1>5, <2>1 DEF IInv, Asleep, All
  <2>4. \A x \in All : td_queue'[x] = NULL => cont'[x] = "return"
    BY <1>3, <1>5, <2>1 DEF IInv, Asleep
  <2>5. ASSUME NEW x \in All, td_queue'[x] = RunQueue, cont'[x] = "wait"
        PROVE  WaitResult(x)' = woken'[x]
    <3>1. CASE x = t
      <4>1. td_timer'[x] = SIGNALED /\ woken'[x] = "timeout"
        BY <1>1, <1>3, <1>5, <3>1
      <4> QED  BY <4>1 DEF WaitResult
    <3>2. CASE x # t
      <4>1. /\ td_queue[x] = RunQueue /\ cont[x] = "wait" /\ td_timer'[x] = td_timer[x]
            /\ woken'[x] = woken[x]
        BY <1>3, <1>5, <2>1, <2>5, <3>2
      <4>2. WaitResult(x) = woken[x]
        BY <4>1 DEF IInv, Asleep
      <4> QED  BY <4>1, <4>2 DEF WaitResult
    <3> QED  BY <3>1, <3>2
  <2> QED  BY <2>2, <2>3, <2>4, <2>5 DEF Asleep
<1>9. Control'
  BY <1>3 DEF Control, InResume, QueueLabels
<1> QED
  BY <1>4, <1>6, <1>7, <1>8, <1>9 DEF IInv, Chains

\* NutSleep leaves the run queue, or, without a timer, moves to its front.
LEMMA SleepIInv ==
    ASSUME IInv, NEW t \in Thread, NutSleep(t)
    PROVE  IInv'
<1>1. /\ pc = "user" /\ runningThread = t /\ td_queue[t] = RunQueue
      /\ cont[t] = "return" /\ t \notin armed
      /\ t \in All /\ Idle \in All /\ Idle # t
  <2>1. pc = "user" /\ runningThread = t /\ td_queue[t] = RunQueue /\ cont[t] = "return"
    BY DEF IInv, Control, InResume, NutSleep, Running
  <2> QED  BY <2>1, ThreadsAssumption DEF IInv, Asleep, All
<1>2. UNCHANGED <<root, runningThread, td_qpec, total_pending, woken, timed>>
  BY DEF NutSleep
<1>3. /\ td_timer \in [All -> {NULL, "handle", SIGNALED}] /\ armed \subseteq Thread
      /\ td_queue \in [All -> Queue \cup {RunQueue, NULL}]
      /\ cont \in [All -> {"return", "wait"}] /\ runQueue \in Seq(All)
      /\ IsInjective(runQueue)
      /\ NULL # "handle" /\ NULL # RunQueue /\ NULL \notin Queue /\ RunQueue \notin Queue
  BY ThreadsAssumption DEF IInv, TypeOK, LinkedOnce
<1>4. \A q \in Queue : Chain(q)' = Chain(q)
  BY <1>2 DEF Chain
<1>5. t \in Range(runQueue)
  BY <1>1 DEF IInv, LinkedOnce
<1>6. CASE /\ runQueue' = RemoveQueue(runQueue, t)
           /\ td_queue' = [td_queue EXCEPT ![t] = NULL]
           /\ td_timer' = [td_timer EXCEPT ![t] = "handle"]
           /\ armed' = armed \cup {t}
           /\ cont' = [cont EXCEPT ![t] = "return"]
           /\ Goto("scan") /\ fr' = NoFrame
  <2>1. /\ runQueue' \in Seq(All) /\ IsInjective(runQueue')
        /\ Range(runQueue') = Range(runQueue) \ {t}
    BY <1>6, LeaveRunQueue
  <2>2. TypeOK'
    <3>1. /\ td_timer' \in [All -> {NULL, "handle", SIGNALED}] /\ armed' \subseteq Thread
          /\ td_queue' \in [All -> Queue \cup {RunQueue, NULL}]
          /\ cont' \in [All -> {"return", "wait"}]
      BY <1>3, <1>6
    <3>2. fr' \in FrameType /\ pc' \in Labels
      BY <1>6, FreshFrame DEF Goto, Labels
    <3> QED  BY <1>2, <2>1, <3>1, <3>2 DEF IInv, TypeOK
  <2>3. PendingAtHead' /\ WaitersOrdered'
    <3>1. \A x \in All : td_queue[x] \in Queue => td_queue'[x] = td_queue[x]
      BY <1>1, <1>3, <1>6
    <3> QED  BY <1>2, <1>4, <3>1 DEF IInv, PendingAtHead, WaitersOrdered
  <2>4. LinkedOnce'
    <3>1. \A x \in All : ~Moving(x) /\ ~Moving(x)'
      BY <1>1, <1>6 DEF Moving, Goto
    <3>2. \A x \in All : x \in Range(runQueue') <=> td_queue'[x] = RunQueue
      BY <1>3, <1>6, <2>1 DEF IInv, LinkedOnce
    <3>3. \A x \in All, q \in Queue : td_queue'[x] = q <=> td_queue[x] = q
      BY <1>1, <1>3, <1>6
    <3> QED  BY <1>4, <2>1, <3>1, <3>2, <3>3 DEF IInv, LinkedOnce
  <2>5. NoDanglingTimer'
    <3>1. \A x \in All : x \in armed <=> td_timer[x] = "handle"
      BY DEF IInv, NoDanglingTimer
    <3> QED  BY <1>1, <1>3, <1>6, <3>1 DEF NoDanglingTimer
  <2>6. Asleep'
    <3>1. td_queue'[Idle] = RunQueue
      BY <1>1, <1>3, <1>6 DEF IInv, Asleep
    <3>2. \A x \in armed' : td_queue'[x] # RunQueue
      BY <1>1, <1>3, <1>6 DEF IInv, Asleep, All
    <3>3. \A x \in All : td_queue'[x] = NULL => cont'[x] = "return"
      BY <1>1, <1>3, <1>6 DEF IInv, Asleep
    <3>4. ASSUME NEW x \in All, td_queue'[x] = RunQueue, cont'[x] = "wait"
          PROVE  WaitResult(x)' = woken'[x]
      <4>1. x # t /\ td_queue[x] = RunQueue /\ cont[x] = "wait" /\ td_timer'[x] = td_timer[x]
        BY <1>1, <1>3, <1>6, <3>4
      <4>2. WaitResult(x) = woken[x]
        BY <4>1 DEF IInv, Asleep
      <4> QED  BY <1>2, <4>1, <4>2 DEF WaitResult
    <3> QED  BY <3>1, <3>2, <3>3, <3>4 DEF Asleep
  <2>7. Control'
    BY <1>6 DEF Control, InResume, QueueLabels, Goto
  <2> QED  BY <2>2, <2>3, <2>4, <2>5, <2>6, <2>7 DEF IInv
<1>7. CASE /\ runQueue' = <<t>> \o RemoveQueue(runQueue, t)
           /\ td_queue' = [td_queue EXCEPT ![t] = RunQueue]
           /\ td_timer' = [td_timer EXCEPT ![t] = NULL]
           /\ UNCHANGED <<armed, cont, pc, fr>>
  <2>1. /\ runQueue' \in Seq(All) /\ IsInjective(runQueue')
        /\ Range(runQueue') = Range(runQueue)
    BY <1>1, <1>3, <1>5, <1>7, ToFront
  <2>2. td_queue' = td_queue
    BY <1>1, <1>3, <1>7
  <2>3. pc # "w_insert" /\ pc' # "w_insert" /\ pc' \in Labels /\ fr' \in FrameType
        /\ runningThread' \in All
    BY <1>1, <1>2, <1>7 DEF IInv, TypeOK
  <2>4. Chains' /\ root' \in [Queue -> Seq(Thread) \cup {SIGNALED}]
    BY <1>2, <1>7, <2>1, <2>2, <2>3, RunQueueStep
  <2>5. TypeOK'
    <3>1. td_timer' \in [All -> {NULL, "handle", SIGNALED}]
      BY <1>3, <1>7
    <3> QED  BY <1>2, <1>7, <2>1, <2>2, <2>3, <2>4, <3>1 DEF IInv, TypeOK
  <2>6. NoDanglingTimer'
    <3>1. \A x \in All : x \in armed <=> td_timer[x] = "handle"
      BY DEF IInv, NoDanglingTimer
    <3> QED  BY <1>1, <1>3, <1>7, <3>1 DEF NoDanglingTimer
  <2>7. Asleep'
    <3>1. ASSUME NEW x \in All, td_queue'[x] = RunQueue, cont'[x] = "wait"
          PROVE  WaitResult(x)' = woken'[x]
      <4>1. x # t /\ td_queue[x] = RunQueue /\ cont[x] = "wait" /\ td_timer'[x] = td_timer[x]
        BY <1>1, <1>3, <1>7, <2>2, <3>1
      <4>2. WaitResult(x) = woken[x]
        BY <4>1 DEF IInv, Asleep
      <4> QED  BY <1>2, <4>1, <4>2 DEF WaitResult
    <3> QED  BY <1>7, <2>2, <3>1 DEF IInv, Asleep
  <2>8. Control'
    BY <1>1, <1>2, <1>7, <2>2 DEF Control, InResume, QueueLabels
  <2> QED  BY <2>4, <2>5, <2>6, <2>7, <2>8 DEF IInv, Chains
<1> QED
  BY <1>6, <1>7 DEF NutSleep
-----------------------------------------------------------------------------
\* At startup every thread is in the run queue, once.
LEMMA AllReady ==
    ASSUME NEW s \in SetToSeqs(All)
    PROVE  s \in Seq(All) /\ IsInjective(s) /\ Range(s) = All
<1> DEFINE n == Cardinality(All)
<1>1. IsFiniteSet(All)
  BY ThreadsAssumption, FS_AddElement DEF All
<1>2. n \in Nat
  BY <1>1, FS_CardinalityType
<1>3. s \in [1..n -> All] /\ \A i, j \in 1..n : i # j => s[i] # s[j]
  BY DEF SetToSeqs
<1>4. Cardinality(1..n) = n
  BY <1>2, FS_Interval
<1> HIDE DEF n
<1>5. IsInjective(s)
  BY <1>3 DEF IsInjective
<1>6. s \in Injection(1..n, All)
  BY <1>3, <1>5 DEF Injection
<1>7. s \in Surjection(1..n, All)
  BY <1>1, <1>4, <1>6, FS_Injection DEF n
<1>8. Range(s) = All
  BY <1>3, <1>7 DEF Surjection, Range
<1> QED
  BY <1>2, <1>3, <1>5, <1>8, SeqDef

\* The state after NutThreadCreate of every thread satisfies the invariant.
LEMMA InitIInv == Init => IInv
<1> SUFFICES ASSUME Init PROVE IInv
  OBVIOUS
<1>1. runQueue \in Seq(All) /\ IsInjective(runQueue) /\ Range(runQueue) = All
  BY AllReady DEF Init
<1>2. runningThread \in All
  <2>1. Range(runQueue) # {}
    BY <1>1 DEF All
  <2>2. runQueue # <<>>
    BY <2>1 DEF Range
  <2> QED  BY <1>1, <2>2 DEF Init
<1>3. \A q \in Queue : root[q] = <<>> /\ Chain(q) = <<>>
  <2>1. \A q \in Queue : root[q] = <<>>
    BY DEF Init
  <2> QED  BY <2>1 DEF Chain
<1>4. TypeOK
  <2>1. root \in [Queue -> Seq(Thread) \cup {SIGNALED}]
    BY EmptySeq DEF Init
  <2>2. td_qpec \in [All -> Nat] /\ td_queue \in [All -> Queue \cup {RunQueue, NULL}]
    BY DEF Init
  <2>3. /\ td_timer \in [All -> {NULL, "handle", SIGNALED}] /\ total_pending \in Int
        /\ armed \subseteq Thread /\ cont \in [All -> {"return", "wait"}]
        /\ woken \in [All -> {NULL, "event", "timeout"}] /\ timed \in [All -> BOOLEAN]
    BY DEF Init
  <2>4. pc \in Labels /\ fr \in FrameType
    BY FreshFrame DEF Init, Labels
  <2> QED  BY <1>1, <1>2, <2>1, <2>2, <2>3, <2>4 DEF TypeOK
<1>5. PendingAtHead
  BY DEF Init, PendingAtHead
<1>6. LinkedOnce
  <2>1. \A t \in All : td_queue[t] = RunQueue
    BY DEF Init
  <2>2. IsInjective(<<>>) /\ Range(<<>>) = {}
    BY DEF IsInjective, Range
  <2> QED  BY <1>1, <1>3, <2>1, <2>2, ThreadsAssumption DEF LinkedOnce
<1>7. NoDanglingTimer
  BY ThreadsAssumption DEF Init, NoDanglingTimer
<1>8. WaitersOrdered
  <2>1. PriOrdered(<<>>, Prio)
    BY DEF PriOrdered
  <2> QED  BY <1>3, <2>1 DEF WaitersOrdered
<1>9. Control
  BY <1>2 DEF Init, Control, QueueLabels, InResume
<1>10. Asleep
  BY ThreadsAssumption DEF Init, Asleep, All
<1> QED
  BY <1>4, <1>5, <1>6, <1>7, <1>8, <1>9, <1>10 DEF IInv

\* Every step of the running thread, of the timer callbacks and of an interrupt
\* handler preserves the inductive invariant.
LEMMA NextIInv == IInv /\ [Next]_vars => IInv'
<1> SUFFICES ASSUME IInv, [Next]_vars PROVE IInv'
  OBVIOUS
<1>1. TypeOK /\ Control
  BY DEF IInv
<1>2. pc \in QueueLabels => fr.q \in Queue
  BY <1>1 DEF Control
<1>3. ASSUME NEW t \in Thread, Yielding(t)  PROVE IInv'
  <2>1. CASE YieldCall(t)
    BY <2>1, YieldCallIInv
  <2>2. CASE NutSleep(t)
    BY <2>2, SleepIInv
  <2>3. ASSUME NEW q \in Queue, NutEventPost(t, q) \/ NutEventBroadcast(t, q, TRUE)
        PROVE  IInv'
    BY <2>3, UserIInv
  <2>4. ASSUME NEW q \in Queue, NEW ms \in BOOLEAN, NutEventWait(t, q, ms)  PROVE IInv'
    <3>1. /\ ReadRoot(q, ms, TRUE) /\ UNCHANGED <<kernel, Locals>>
          /\ pc = "user" /\ runningThread = t
      BY <2>4 DEF NutEventWait, Running
    <3> QED  BY <3>1, ReadRootIInv
  <2>5. ASSUME NEW q \in Queue, NEW ms \in BOOLEAN, NutEventWaitNext(t, q, ms)  PROVE IInv'
    BY <2>5, WaitNextIInv
  <2> QED  BY <1>3, <2>1, <2>2, <2>3, <2>4, <2>5 DEF Yielding
<1>4. ASSUME NEW t \in Thread, Keeping(t)  PROVE IInv'
  <2>1. PICK q \in Queue : \/ NutEventTryWait(t, q) \/ NutEventPostAsync(t, q)
                           \/ NutEventBroadcast(t, q, FALSE)
    BY <1>4 DEF Keeping
  <2>2. CASE NutEventTryWait(t, q)
    <3>1. /\ ReadRoot(q, FALSE, FALSE) /\ UNCHANGED <<kernel, Locals>>
          /\ pc = "user" /\ runningThread = t
      BY <2>2 DEF NutEventTryWait, Running
    <3> QED  BY <3>1, ReadRootIInv
  <2>3. CASE NutEventPostAsync(t, q) \/ NutEventBroadcast(t, q, FALSE)
    BY <2>3, UserIInv
  <2> QED  BY <2>1, <2>2, <2>3
<1>5. CASE Timers
  BY <1>5, WakeIInv, ScanIInv DEF Timers
<1>6. CASE Kernel
  <2>1. CASE WaitNextRead
    <3>1. /\ ReadRoot(fr.q, fr.ms, TRUE) /\ UNCHANGED <<kernel, Locals>> /\ pc = "wait"
      BY <2>1 DEF WaitNextRead
    <3>2. fr.q \in Queue /\ fr.ms \in BOOLEAN /\ runningThread \in Thread
      BY <1>1, <3>1 DEF Control, QueueLabels, TypeOK, FrameType
    <3> QED  BY <3>1, <3>2, ReadRootIInv
  <2>2. CASE WaitAdd \/ WaitInsert
    <3>1. fr.q \in Queue /\ runningThread \in Thread
      BY <1>1, <2>2 DEF Control, QueueLabels, WaitAdd, WaitInsert
    <3> QED  BY <2>2, <3>1, WaitAddIInv, WaitInsertIInv
  <2>3. CASE TryWaitClear \/ BroadcastClear \/ PostSignal
    BY <2>3, SignalIInv
  <2>4. CASE PostRead \/ BroadcastLoop
    BY <2>4, LookIInv
  <2>5. CASE PostPop
    <3>1. fr.q \in Queue
      BY <1>2, <2>5 DEF QueueLabels, PostPop
    <3> QED  BY <2>5, <3>1, PostPopIInv
  <2>6. CASE NutThreadYield
    <3>1. runningThread \in All
      BY <1>1 DEF TypeOK
    <3> QED  BY <2>6, <3>1, YieldIInv
  <2>7. CASE ResumeScan
    BY <2>7, ScanIInv
  <2>8. CASE ResumeDeliver
    BY <2>8, DeliverIInv
  <2>9. CASE TimeoutUnlink
    BY <2>9, TimeoutIInv
  <2>10. CASE NutThreadSwitch
    BY <2>10, SwitchIInv
  <2>11. CASE IdleCheck \/ IdleWake
    BY <2>11, IdleIInv
  <2> QED
    BY <1>6, <2>1, <2>2, <2>3, <2>4, <2>5, <2>6, <2>7, <2>8, <2>9, <2>10, <2>11 DEF Kernel
<1>7. ASSUME NEW q \in Queue, NutEventPostFromIrq(q)  PROVE IInv'
  BY <1>7, IrqIInv
<1>8. CASE UNCHANGED vars
  BY <1>8 DEF IInv, vars, kernel, TypeOK, PendingAtHead, LinkedOnce, NoDanglingTimer,
              WaitersOrdered, Control, Asleep, InResume, Moving, Chain, WaitResult
<1> QED
  BY <1>3, <1>4, <1>5, <1>6, <1>7, <1>8 DEF Next

\* The inductive invariant holds in every reachable state.
LEMMA IInvAlways == Spec => []IInv
<1>1. Init => IInv
  BY InitIInv
<1>2. IInv /\ [Next]_vars => IInv'
  BY NextIInv
<1> QED
  BY <1>1, <1>2, PTL DEF Spec

-----------------------------------------------------------------------------
\* Every variable of the kernel keeps its type, for any threads and queues: the
\* walks of event.c and thread.c only ever meet application threads, and no
\* pending event counter drops below zero in NutThreadResume.
THEOREM EventTypeCorrect == Spec => []TypeOK
<1>1. IInv => TypeOK
  BY DEF IInv
<1> QED
  BY <1>1, IInvAlways, PTL

\* Pending events are counted on the first thread of a queue only, wherever the
\* interrupts strike between the critical sections.
THEOREM EventPendingAtHead == Spec => []PendingAtHead
<1>1. IInv => PendingAtHead
  BY DEF IInv
<1> QED
  BY <1>1, IInvAlways, PTL

\* A thread is never linked into two chains, or into one chain twice.
THEOREM EventLinkedOnce == Spec => []LinkedOnce
<1>1. IInv => LinkedOnce
  BY DEF IInv
<1> QED
  BY <1>1, IInvAlways, PTL

\* A timeout timer exists exactly as long as its thread holds its handle.
THEOREM EventNoDanglingTimer == Spec => []NoDanglingTimer
<1>1. IInv => NoDanglingTimer
  BY DEF IInv
<1> QED
  BY <1>1, IInvAlways, PTL

\* The waiting threads of every event queue stay in priority order.
THEOREM EventWaitersOrdered == Spec => []WaitersOrdered
<1>1. IInv => WaitersOrdered
  BY DEF IInv
<1> QED
  BY <1>1, IInvAlways, PTL

\* NutEventWait returns -1 if and only if the timer ended the wait.
THEOREM EventReturnCodeTruthful == Spec => []ReturnCodeTruthful
<1>1. IInv => ReturnCodeTruthful
  BY DEF IInv, Asleep, LinkedOnce, ReturnCodeTruthful
<1> QED
  BY <1>1, IInvAlways, PTL

-----------------------------------------------------------------------------
(* The idle thread                                                         *)

\* NutEventPostAsync unlinks the first thread of the queue.
LEMMA PopUnlinks ==
    ASSUME IInv, PostPop, NEW q, NEW td, q = fr.q, td = Head(root[q])
    PROVE  /\ q \in Queue /\ td \in Thread /\ td \in Range(Chain(q)) /\ pc = "pa_pop"
           /\ root[q] # SIGNALED /\ root[q] # <<>> /\ Unlink(q, td)
<1>1. /\ pc = "pa_pop" /\ root[q] # SIGNALED /\ root[q] # <<>> /\ Unlink(q, td)
      /\ q \in Queue
  BY DEF IInv, Control, QueueLabels, PostPop
<1>2. root[q] \in Seq(Thread) /\ Chain(q) = root[q]
  BY <1>1, ChainType DEF IInv
<1> QED
  BY <1>1, <1>2, HeadInRange

\* NutEventTimeout unlinks the thread of the elapsed timer, wherever it is.
LEMMA TimeoutUnlinks ==
    ASSUME IInv, TimeoutUnlink, NEW q, NEW t, t = fr.td, q = td_queue[t]
    PROVE  /\ q \in Queue /\ t \in Thread /\ t \in Range(Chain(q)) /\ pc = "to_unlink"
           /\ Unlink(q, t)
<1>1. /\ pc = "to_unlink" /\ t \in armed /\ q \in Queue /\ t \in Thread /\ Unlink(q, t)
  BY DEF IInv, Control, TypeOK, TimeoutUnlink
<1>2. t \in All /\ ~Moving(t)
  BY <1>1 DEF All, Moving
<1> QED
  BY <1>1, <1>2 DEF IInv, LinkedOnce

\* total_pending is at least the sum of the counters of all threads.  It may be
\* more: events that collapse into the signaled state are not taken off.
Counted ==
    /\ IsFiniteSet(Units(All, td_qpec))
    /\ Cardinality(Units(All, td_qpec)) <= total_pending

LEMMA CountMoves ==
    ASSUME TypeOK, TypeOK', Counted, HandedOver, total_pending' = total_pending
    PROVE  Counted'
<1>1. PICK n, m : n = td_qpec /\ m = td_qpec'
  OBVIOUS
<1>2. /\ n \in [All -> Nat] /\ m \in [All -> Nat] /\ IsFiniteSet(Units(All, n))
      /\ total_pending \in Int
  BY <1>1 DEF TypeOK, Counted
<1>3. /\ IsFiniteSet(Units(All, m))
      /\ Cardinality(Units(All, m)) <= Cardinality(Units(All, n))
  <2>1. CASE \A x \in All : m[x] <= n[x]
    BY <1>2, <2>1, UnitsFewer
  <2>2. CASE \E a, b \in All :
               /\ a # b /\ n[b] = 0 /\ m[a] = 0 /\ m[b] = n[a]
               /\ \A x \in All \ {a, b} : m[x] = n[x]
    <3>1. PICK a \in All, b \in All :
               /\ a # b /\ n[b] = 0 /\ m[a] = 0 /\ m[b] = n[a]
               /\ \A x \in All \ {a, b} : m[x] = n[x]
      BY <2>2
    <3> QED  BY <1>2, <3>1, UnitsMoved
  <2> QED  BY <1>1, <2>1, <2>2 DEF HandedOver
<1>4. PICK i \in Nat, j \in Nat : /\ i = Cardinality(Units(All, n))
                                  /\ j = Cardinality(Units(All, m))
  BY <1>2, <1>3, FS_CardinalityType
<1>5. i <= total_pending /\ j <= i
  BY <1>1, <1>3, <1>4 DEF Counted
<1>6. j <= total_pending
  BY <1>2, <1>5
<1> QED
  BY <1>1, <1>3, <1>4, <1>6 DEF Counted

\* An event is counted twice or not at all: on a thread and in total_pending.
LEMMA CountBoth ==
    ASSUME TypeOK, Counted, NEW t,
           \/ OneMore(All, td_qpec, t, td_qpec') /\ total_pending' = total_pending + 1
           \/ OneMore(All, td_qpec', t, td_qpec) /\ total_pending' = total_pending - 1
    PROVE  Counted'
<1>1. PICK n, m, p : n = td_qpec /\ m = td_qpec' /\ p = total_pending'
  OBVIOUS
<1>2. IsFiniteSet(Units(All, n)) /\ total_pending \in Int
  BY <1>1 DEF TypeOK, Counted
<1>3. PICK i \in Nat : i = Cardinality(Units(All, n)) /\ i <= total_pending
  BY <1>1, <1>2, FS_CardinalityType DEF Counted
<1>4. CASE OneMore(All, n, t, m) /\ p = total_pending + 1
  <2>1. IsFiniteSet(Units(All, m)) /\ Cardinality(Units(All, m)) = i + 1
    BY <1>2, <1>3, <1>4, UnitAdded
  <2>2. i + 1 <= p
    BY <1>2, <1>3, <1>4
  <2> QED  BY <1>1, <2>1, <2>2 DEF Counted
<1>5. CASE OneMore(All, m, t, n) /\ p = total_pending - 1
  <2>1. IsFiniteSet(Units(All, m)) /\ Cardinality(Units(All, m)) = i - 1
    BY <1>2, <1>3, <1>5, UnitTaken
  <2>2. i - 1 <= p
    BY <1>2, <1>3, <1>5
  <2> QED  BY <1>1, <2>1, <2>2 DEF Counted
<1> QED
  BY <1>1, <1>4, <1>5

\* A thread that runs carries no pending events.
LEMMA RunningWithout ==
    ASSUME IInv, WaitAdd
    PROVE  runningThread \in All /\ td_qpec[runningThread] = 0
<1>1. pc = "w_add" /\ runningThread \in All /\ td_queue[runningThread] = RunQueue
  BY DEF IInv, TypeOK, Control, InResume, WaitAdd
<1>2. td_qpec[runningThread] \in Nat
  BY <1>1 DEF IInv, TypeOK
<1>3. ~(td_qpec[runningThread] > 0)
  BY <1>1, ThreadsAssumption DEF IInv, PendingAtHead
<1> QED
  BY <1>1, <1>2, <1>3

LEMMA NextCounted ==
    ASSUME IInv, IInv', Counted, [Next]_vars
    PROVE  Counted'
<1>1. TypeOK /\ TypeOK' /\ td_qpec \in [All -> Nat] /\ td_qpec' \in [All -> Nat]
  BY DEF IInv, TypeOK
<1>2. CASE UNCHANGED <<td_qpec, total_pending>>
  BY <1>2 DEF Counted
<1>3. CASE WaitAdd
  <2>1. PICK t \in All : t = runningThread /\ td_qpec[t] = 0
    BY <1>3, RunningWithout
  <2>2. CASE td_qpec' = [td_qpec EXCEPT ![t] = 0] /\ total_pending' = total_pending
    <3>1. td_qpec' = td_qpec
      BY <1>1, <2>1, <2>2
    <3> QED  BY <1>2, <2>2, <3>1
  <2>3. CASE td_qpec' = [td_qpec EXCEPT ![t] = 1] /\ total_pending' = total_pending + 1
    <3>1. OneMore(All, td_qpec, t, td_qpec')
      BY <1>1, <2>1, <2>3 DEF OneMore
    <3> QED  BY <1>1, <2>3, <3>1, CountBoth
  <2> QED  BY <1>3, <2>1, <2>2, <2>3 DEF WaitAdd
<1>4. CASE WaitInsert
  <2>1. PICK t \in Thread, q \in Queue : t = runningThread /\ q = fr.q
    BY <1>4 DEF IInv, Control, QueueLabels, WaitInsert
  <2>2. HandedOver /\ total_pending' = total_pending
    BY <1>4, <2>1, WaitInsertIInv DEF WaitInsert
  <2> QED  BY <1>1, <2>2, CountMoves
<1>5. CASE PostPop
  <2>1. PICK q, td : q = fr.q /\ td = Head(root[q])
    OBVIOUS
  <2>2. /\ q \in Queue /\ td \in Thread /\ td \in Range(Chain(q)) /\ pc = "pa_pop"
        /\ Unlink(q, td) /\ total_pending' = total_pending
    BY <1>5, <2>1, PopUnlinks DEF PostPop
  <2>3. HandedOver
    BY <2>2, UnlinkProperties DEF IInv, Chains
  <2> QED  BY <1>1, <2>2, <2>3, CountMoves
<1>6. CASE TimeoutUnlink
  <2>1. PICK q, td : td = fr.td /\ q = td_queue[td]
    OBVIOUS
  <2>2. /\ q \in Queue /\ td \in Thread /\ td \in Range(Chain(q)) /\ pc = "to_unlink"
        /\ Unlink(q, td) /\ total_pending' = total_pending
    BY <1>6, <2>1, TimeoutUnlinks DEF TimeoutUnlink
  <2>3. HandedOver
    BY <2>2, UnlinkProperties DEF IInv, Chains
  <2> QED  BY <1>1, <2>2, <2>3, CountMoves
<1>7. CASE ResumeDeliver
  <2>1. PICK td : td = ThreadList[fr.scan]
    OBVIOUS
  <2>2. td \in All /\ td_qpec[td] > 0
    <3>1. fr.scan <= Len(ThreadList) /\ td_qpec[td] > 0 /\ fr.scan \in 1..(Len(ThreadList) + 1)
      BY <1>7, <2>1 DEF IInv, TypeOK, FrameType, Control, ResumeDeliver
    <3>2. fr.scan \in 1..Len(ThreadList)
      BY <3>1, ListType
    <3> QED  BY <2>1, <3>1, <3>2, ListType
  <2>3. td_qpec' = [td_qpec EXCEPT ![td] = @ - 1] /\ total_pending' = total_pending - 1
    BY <1>7, <2>1 DEF ResumeDeliver
  <2>4. OneMore(All, td_qpec', td, td_qpec)
    BY <1>1, <2>2, <2>3 DEF OneMore
  <2> QED  BY <1>1, <2>3, <2>4, CountBoth
<1>8. ASSUME NEW q \in Queue, NutEventPostFromIrq(q), root[q] \notin {SIGNALED, <<>>}
      PROVE  Counted'
  <2>1. PICK td : td = Head(root[q])
    OBVIOUS
  <2>2. td \in All
    BY <1>1, <1>8, <2>1, ChainType, HeadInRange DEF All
  <2>3. td_qpec' = [td_qpec EXCEPT ![td] = @ + 1] /\ total_pending' = total_pending + 1
    BY <1>8, <2>1 DEF NutEventPostFromIrq, Pend
  <2>4. OneMore(All, td_qpec, td, td_qpec')
    BY <1>1, <2>2, <2>3 DEF OneMore
  <2> QED  BY <1>1, <2>3, <2>4, CountBoth
<1>9. CASE \/ UNCHANGED vars
           \/ \E t \in Thread : Yielding(t) \/ Keeping(t)
           \/ Timers
           \/ \E q \in Queue : NutEventPostFromIrq(q) /\ root[q] \in {SIGNALED, <<>>}
  <2>1. UNCHANGED <<td_qpec, total_pending>>
    BY <1>9 DEF vars, kernel, Yielding, Keeping, Timers, YieldCall, NutSleep, NutEventPost,
         NutEventBroadcast, NutEventWait, NutEventWaitNext, NutEventTryWait,
         NutEventPostAsync, NutThreadWake, NutEventTimeout, NutEventPostFromIrq
  <2> QED  BY <1>2, <2>1
<1>10. CASE \/ WaitNextRead \/ TryWaitClear \/ PostRead \/ PostSignal \/ BroadcastClear
            \/ BroadcastLoop \/ NutThreadYield \/ ResumeScan \/ NutThreadSwitch
            \/ IdleCheck \/ IdleWake
  <2>1. UNCHANGED <<td_qpec, total_pending>>
    BY <1>10 DEF kernel, WaitNextRead, TryWaitClear, PostRead, PostSignal, BroadcastClear,
         BroadcastLoop, NutThreadYield, ResumeScan, NutThreadSwitch, IdleCheck, IdleWake
  <2> QED  BY <1>2, <2>1
<1> QED
  BY <1>3, <1>4, <1>5, <1>6, <1>7, <1>8, <1>9, <1>10 DEF Next, Kernel

\* When the idle thread finds total_pending to be zero and halts the CPU, no
\* event is left that an interrupt has posted and NutThreadResume has to deliver.
THEOREM EventHaltOnlyWhenNothingPending == Spec => HaltOnlyWhenNothingPending
<1> DEFINE Halt == pc' = "wfi" /\ pc # "wfi" => \A t \in All : td_qpec[t] = 0
<1>1. Init => Counted
  <2> SUFFICES ASSUME Init PROVE Counted
    OBVIOUS
  <2>1. Units(All, td_qpec) = {} /\ total_pending = 0
    BY DEF Init, Units
  <2> QED  BY <2>1, FS_EmptySet DEF Counted
<1>2. IInv /\ IInv' /\ Counted /\ [Next]_vars => Counted'
  BY NextCounted
<1>3. IInv /\ Counted /\ [Next]_vars => [Halt]_vars
  <2> SUFFICES ASSUME IInv, Counted, Next, pc' = "wfi", pc # "wfi"
               PROVE  \A t \in All : td_qpec[t] = 0
    BY DEF Halt
  <2>1. total_pending = 0
    <3>1. IdleCheck
      BY DEF Next, Kernel, Yielding, Keeping, Timers, YieldCall, NutSleep, NutEventPost,
         NutEventBroadcast, NutEventWait, NutEventWaitNext, NutEventTryWait,
         NutEventPostAsync, NutThreadWake, NutEventTimeout, NutEventPostFromIrq,
         WaitNextRead, TryWaitClear, PostRead, PostSignal, BroadcastClear,
         BroadcastLoop, NutThreadYield, ResumeScan, NutThreadSwitch, IdleWake,
         WaitAdd, WaitInsert, PostPop, TimeoutUnlink, ResumeDeliver,
         ReadRoot, Goto, Return, FallAsleep, PostReturn, BroadcastReturn, ScanDone,
         IInv, TypeOK, FrameType
    <3> QED  BY <3>1 DEF IdleCheck, Goto
  <2>2. /\ td_qpec \in [All -> Nat] /\ IsFiniteSet(Units(All, td_qpec))
        /\ Cardinality(Units(All, td_qpec)) <= 0
    BY <2>1 DEF IInv, TypeOK, Counted
  <2> QED  BY <2>2, NoUnits
<1> QED
  BY <1>1, <1>2, <1>3, IInvAlways, PTL DEF Spec, HaltOnlyWhenNothingPending

-----------------------------------------------------------------------------
(* The kernel implements EventSpec                                         *)

\* What EventSpec needs beyond IInv: a thread in a queue is inside NutEventWait,
\* and neither NutThreadResume nor a broadcast posts to an empty queue.
InWait ==
    /\ \A t \in All : td_queue[t] \in Queue /\ ~Moving(t) => cont[t] = "wait"
    /\ pc = "pa_read" /\ fr.ret \in {"scan", "bc_loop"} => root[fr.q] # <<>>
    /\ pc = "pa_signal" => fr.ret \in {"user", "yield"}

\* Steps of threads that do not enter a queue.
LEMMA InWaitKept ==
    ASSUME IInv, InWait, pc # "w_insert", pc' # "w_insert",
           \A t \in All : td_queue'[t] \in Queue =>
                             td_queue'[t] = td_queue[t] /\ cont'[t] = cont[t],
           pc' = "pa_read" /\ fr'.ret \in {"scan", "bc_loop"} => root'[fr'.q] # <<>>,
           pc' = "pa_signal" => fr'.ret \in {"user", "yield"}
    PROVE  InWait'
  BY DEF InWait, Moving

\* The thread that enters a queue is inside NutEventWait.
LEMMA InWaitEntered ==
    ASSUME IInv, InWait, WaitAdd \/ WaitInsert
    PROVE  InWait'
<1>1. PICK t, q : t = runningThread /\ q = fr.q /\ t \in All /\ q \in Queue
  BY DEF IInv, TypeOK, Control, QueueLabels, WaitAdd, WaitInsert
<1>2. /\ pc' \in {"scan", "w_insert"} /\ runningThread' = t
      /\ pc' = "scan" => cont' = [cont EXCEPT ![t] = "wait"]
      /\ pc' = "w_insert" => cont' = cont
  BY <1>1 DEF WaitAdd, WaitInsert, FallAsleep, Goto
<1>3. \A x \in All \ {t} : td_queue'[x] = td_queue[x] /\ ~Moving(x)
  BY <1>1 DEF IInv, TypeOK, WaitAdd, WaitInsert, Moving
<1>4. \A x \in All : td_queue'[x] \in Queue /\ ~Moving(x)' => cont'[x] = "wait"
  BY <1>1, <1>2, <1>3 DEF IInv, TypeOK, InWait, Moving
<1> QED
  BY <1>2, <1>4 DEF InWait

\* Every step keeps InWait.
LEMMA NextInWait == IInv /\ InWait /\ [Next]_vars => InWait'
<1> SUFFICES ASSUME IInv, InWait, [Next]_vars PROVE InWait'
  OBVIOUS
<1>0. /\ td_queue \in [All -> Queue \cup {RunQueue, NULL}] /\ cont \in [All -> {"return", "wait"}]
      /\ RunQueue \notin Queue /\ NULL \notin Queue /\ SIGNALED # <<>>
      /\ fr.ret \in {"user", "yield", "scan", "bc_loop"} /\ fr.bret \in {"user", "yield"}
      /\ runningThread \in All /\ fr \in FrameType /\ root \in [Queue -> Seq(Thread) \cup {SIGNALED}]
  <2>1. SIGNALED # <<>>
    BY ThreadsAssumption, EmptySeq
  <2> QED  BY <2>1, ThreadsAssumption DEF IInv, TypeOK, FrameType
<1>1. CASE UNCHANGED vars
  BY <1>1 DEF vars, kernel, InWait, Moving
<1>2. CASE WaitAdd \/ WaitInsert
  BY <1>2, InWaitEntered
<1>3. CASE \E t \in Thread : Yielding(t) \/ Keeping(t)
  <2>1. PICK t \in Thread : Yielding(t) \/ Keeping(t)
    BY <1>3
  <2>2. pc = "user"
    BY <2>1 DEF Yielding, Keeping, YieldCall, NutSleep, NutEventPost, NutEventBroadcast,
         NutEventWait, NutEventWaitNext, NutEventTryWait, NutEventPostAsync, Running
  <2>3. CASE NutSleep(t)
    <3>1. pc' \in {"scan", "user"} /\ t \in All
      BY <2>2, <2>3 DEF NutSleep, Goto, All
    <3>2. \A x \in All : td_queue'[x] \in Queue =>
                             td_queue'[x] = td_queue[x] /\ cont'[x] = cont[x]
      BY <1>0, <2>3, <3>1 DEF NutSleep
    <3> QED  BY <2>2, <3>1, <3>2, InWaitKept
  <2>4. CASE ~NutSleep(t)
    <3>1. td_queue' = td_queue /\ cont' = cont
      BY <2>1, <2>4 DEF Yielding, Keeping, YieldCall, NutEventPost, NutEventBroadcast,
         NutEventWait, NutEventWaitNext, NutEventTryWait, NutEventPostAsync, kernel, Locals
    <3>2. /\ pc' \notin {"w_insert", "pa_signal"}
          /\ pc' = "pa_read" /\ fr'.ret \in {"scan", "bc_loop"} => root'[fr'.q] # <<>>
      <4>1. CASE \E q \in Queue, b \in BOOLEAN : NutEventBroadcast(t, q, b)
        <5>1. PICK q \in Queue, b \in BOOLEAN : NutEventBroadcast(t, q, b)
          BY <4>1
        <5>2. PICK l \in {"yield", "user"} : l = IF b THEN "yield" ELSE "user"
          OBVIOUS
        <5>3. /\ root' = root /\ pc' \in {"bc_clear", "pa_read", l}
              /\ pc' = "pa_read" =>
                   /\ fr' = [NoFrame EXCEPT !.q = q, !.ret = "bc_loop", !.bret = l]
                   /\ root[q] # <<>>
          BY <5>1, <5>2 DEF NutEventBroadcast, Goto, kernel
        <5>4. pc' = "pa_read" => fr'.q = q
          BY <5>3, FreshFrame
        <5> QED  BY <5>3, <5>4
      <4>2. CASE YieldCall(t)
        BY <4>2 DEF YieldCall, Goto
      <4>3. CASE \E q \in Queue, b \in BOOLEAN :
                \/ NutEventPost(t, q) \/ NutEventPostAsync(t, q) \/ NutEventTryWait(t, q)
                \/ NutEventWait(t, q, b) \/ NutEventWaitNext(t, q, b)
        <5>1. PICK q \in Queue, b \in BOOLEAN :
                \/ NutEventPost(t, q) \/ NutEventPostAsync(t, q) \/ NutEventTryWait(t, q)
                \/ NutEventWait(t, q, b) \/ NutEventWaitNext(t, q, b)
          BY <4>3
        <5>2. /\ pc' \in {"yield", "pa_read", "user", "tw_clear", "w_add", "wait"}
              /\ pc' = "pa_read" => fr' \in {[NoFrame EXCEPT !.q = q],
                                             [NoFrame EXCEPT !.q = q, !.ret = "yield"]}
          BY <5>1 DEF NutEventPost, NutEventWait, NutEventWaitNext,
                NutEventTryWait, NutEventPostAsync, ReadRoot, Return, Goto
        <5>3. pc' = "pa_read" => fr'.ret \in {"user", "yield"}
          BY <5>2, FreshFrame
        <5> QED  BY <5>2, <5>3
      <4>4. \/ \E q \in Queue, b \in BOOLEAN : NutEventBroadcast(t, q, b)
            \/ YieldCall(t)
            \/ \E q \in Queue, b \in BOOLEAN :
                 \/ NutEventPost(t, q) \/ NutEventPostAsync(t, q) \/ NutEventTryWait(t, q)
                 \/ NutEventWait(t, q, b) \/ NutEventWaitNext(t, q, b)
        <5>1. TRUE \in BOOLEAN /\ FALSE \in BOOLEAN
          OBVIOUS
        <5> QED  BY <2>1, <2>4, <5>1, Zenon DEF Yielding, Keeping
      <4> QED  BY <4>1, <4>2, <4>3, <4>4
    <3> QED  BY <2>2, <3>1, <3>2, InWaitKept
  <2> QED  BY <2>3, <2>4
<1>4. CASE Timers
  <2>1. pc = "scan" /\ pc' \in {"scan", "to_unlink"}
    BY <1>4 DEF Timers, NutThreadWake, NutEventTimeout, ScanDone, Goto
  <2>2. \A x \in All : td_queue'[x] \in Queue =>
                             td_queue'[x] = td_queue[x] /\ cont'[x] = cont[x]
    BY <1>0, <1>4 DEF Timers, NutThreadWake, NutEventTimeout, MakeReady, Locals, All
  <2> QED  BY <2>1, <2>2, InWaitKept
<1>5. CASE \E q \in Queue : NutEventPostFromIrq(q)
  <2>1. PICK q \in Queue : NutEventPostFromIrq(q)
    BY <1>5
  <2>2. UNCHANGED <<td_queue, cont, pc, fr, runningThread>>
    BY <2>1 DEF NutEventPostFromIrq, Locals
  <2>3. \A p \in Queue : root[p] # <<>> => root'[p] # <<>>
    BY <1>0, <2>1 DEF NutEventPostFromIrq
  <2>4. pc = "pa_read" => fr.q \in Queue
    BY DEF IInv, Control, QueueLabels
  <2> QED  BY <2>2, <2>3, <2>4 DEF InWait, Moving
<1>6. CASE PostPop \/ TimeoutUnlink
  <2>1. pc \in {"pa_pop", "to_unlink"} /\ pc' \in {"user", "yield", "scan", "bc_loop"}
    BY <1>0, <1>6 DEF PostPop, TimeoutUnlink, PostReturn, Return, Goto
  <2>2. cont' = cont /\ \A x \in All : td_queue'[x] \in Queue => td_queue'[x] = td_queue[x]
    BY <1>0, <1>6 DEF PostPop, TimeoutUnlink, MakeReady
  <2> QED  BY <2>1, <2>2, InWaitKept
<1>7. CASE PostRead \/ BroadcastLoop
  <2>1. UNCHANGED <<root, td_queue, cont>> /\ pc \in {"pa_read", "bc_loop"}
    BY <1>7 DEF PostRead, BroadcastLoop, kernel, Locals
  <2>2. CASE PostRead
    <3>1. \/ pc' \in {"user", "yield", "scan", "bc_loop", "pa_pop"}
          \/ pc = "pa_read" /\ pc' = "pa_signal" /\ fr' = fr /\ root[fr.q] = <<>>
      BY <1>0, <2>2 DEF PostRead, PostReturn, Return, Goto
    <3>2. pc' = "pa_signal" => fr'.ret \in {"user", "yield"}
      BY <1>0, <3>1 DEF InWait
    <3> QED  BY <2>1, <3>1, <3>2, InWaitKept
  <2>3. CASE BroadcastLoop
    <3>1. \/ pc' \in {"user", "yield"}
          \/ pc' = "pa_read" /\ fr' = fr /\ root[fr.q] # <<>>
      BY <1>0, <2>3 DEF BroadcastLoop, BroadcastReturn, PostReturn, Return, Goto
    <3> QED  BY <2>1, <3>1, InWaitKept
  <2> QED  BY <1>7, <2>2, <2>3
<1>8. CASE ResumeDeliver
  <2>1. PICK td, q : td = ThreadList[fr.scan] /\ q = td_queue[td]
    OBVIOUS
  <2>2. q \in Queue /\ Chain(q) # <<>>
    <3>1. /\ fr.scan <= Len(ThreadList) /\ td_qpec[td] > 0
          /\ fr.scan \in 1..(Len(ThreadList) + 1)
      BY <1>8, <2>1 DEF IInv, TypeOK, FrameType, Control, ResumeDeliver
    <3>2. td \in All
      BY <2>1, <3>1, ListType
    <3> QED  BY <2>1, <3>1, <3>2 DEF IInv, PendingAtHead
  <2>3. /\ pc = "deliver" /\ pc' \in {"pa_read", "scan"} /\ UNCHANGED <<td_queue, cont, root>>
        /\ pc' = "pa_read" => fr' = [fr EXCEPT !.q = q, !.ret = "scan", !.scan = @ + 1]
    BY <1>8, <2>1 DEF ResumeDeliver, Goto, Locals
  <2>4. pc' = "pa_read" => fr'.q = q
    BY <1>0, <2>3 DEF FrameType
  <2>5. root[q] # <<>>
    BY <1>0, <2>2 DEF Chain
  <2> QED  BY <2>3, <2>4, <2>5, InWaitKept
<1>9. CASE \/ WaitNextRead \/ TryWaitClear \/ PostSignal \/ BroadcastClear
           \/ ResumeScan \/ IdleCheck \/ IdleWake
  <2>1. /\ pc # "w_insert" /\ UNCHANGED <<td_queue, cont>>
        /\ pc' \in {"tw_clear", "w_add", "user", "yield", "scan", "bc_loop", "deliver", "wfi"}
    BY <1>0, <1>9 DEF WaitNextRead, ReadRoot, TryWaitClear, PostSignal, BroadcastClear,
         BroadcastReturn, PostReturn, Return, ResumeScan, IdleCheck, IdleWake, Running,
         Goto, kernel, Locals
  <2> QED  BY <2>1, InWaitKept
<1>10. CASE NutThreadYield
  <2>1. /\ pc = "yield" /\ pc' = "scan" /\ td_queue' = td_queue
        /\ cont' = [cont EXCEPT ![runningThread] = "return"]
    BY <1>10 DEF NutThreadYield, Goto
  <2>2. td_queue[runningThread] = RunQueue
    BY <2>1 DEF IInv, Control, InResume
  <2> QED  BY <1>0, <2>1, <2>2, InWaitKept
<1>11. CASE NutThreadSwitch
  <2>1. PICK n : n = Head(runQueue)
    OBVIOUS
  <2>2. /\ pc = "scan" /\ pc' = "user" /\ td_queue' = td_queue
        /\ cont' = [cont EXCEPT ![n] = "return"]
    BY <1>11, <2>1 DEF NutThreadSwitch, ScanDone, Return
  <2>3. td_queue[n] = RunQueue
    BY <2>1, NextRuns
  <2> QED  BY <1>0, <2>2, <2>3, InWaitKept
<1> QED
  BY <1>1, <1>2, <1>3, <1>4, <1>5, <1>6, <1>7, <1>8, <1>9, <1>10, <1>11 DEF Next, Kernel

-----------------------------------------------------------------------------
\* What EventSpec sees: of the queues, of the waits and of the call in progress.
QueuesSame ==
    \A q \in Queue : Range(Chain(q))' = Range(Chain(q)) /\ Credit(q)' = Credit(q)

WaitsSame == Limited' = Limited /\ \A t \in Thread : Outcome(t)' = Outcome(t)

Doing(op, q) == Calling(pc, fr) = [op |-> op, q |-> q]

CallSame == Calling(pc, fr)' = Calling(pc, fr)

\* All queues but q, and the waits of all threads but t, stay as they are.
Apart(q) ==
    \A p \in Queue \ {q} : Range(Chain(p))' = Range(Chain(p)) /\ Credit(p)' = Credit(p)

OthersWait(t) ==
    \A x \in Thread \ {t} : Outcome(x)' = Outcome(x) /\ (x \in Limited' <=> x \in Limited)

\* The operation in progress at each control point.
LEMMA CallAt ==
    ASSUME NEW l, NEW f
    PROVE  /\ l \in {"tw_clear", "bc_clear"} => Calling(l, f) = [op |-> "take", q |-> f.q]
           /\ l = "wait" => Calling(l, f) = [op |-> "next", q |-> f.q]
           /\ l \in {"w_add", "w_insert"} => Calling(l, f) = [op |-> "wait", q |-> f.q]
           /\ l \in {"pa_read", "pa_pop", "pa_signal"} /\ f.ret \in {"user", "yield"} =>
                Calling(l, f) = [op |-> "post", q |-> f.q]
           /\ l \in {"pa_read", "pa_pop", "bc_loop"} /\ f.ret = "bc_loop" =>
                Calling(l, f) = [op |-> "broadcast", q |-> f.q]
           /\ l \in {"pa_read", "pa_pop", "pa_signal"} /\ f.ret = "scan" =>
                Calling(l, f) = [op |-> "none", q |-> NULL]
           /\ l \in {"user", "yield", "scan", "deliver", "to_unlink", "wfi"} =>
                Calling(l, f) = [op |-> "none", q |-> NULL]
<1>1. /\ l \in {"tw_clear", "bc_clear"} => Operation(l, f) = "take"
      /\ l = "wait" => Operation(l, f) = "next"
      /\ l \in {"w_add", "w_insert"} => Operation(l, f) = "wait"
      /\ l \in {"pa_read", "pa_pop", "pa_signal"} /\ f.ret \in {"user", "yield"} =>
           Operation(l, f) = "post"
      /\ l \in {"pa_read", "pa_pop", "bc_loop"} /\ f.ret = "bc_loop" =>
           Operation(l, f) = "broadcast"
      /\ l \in {"pa_read", "pa_pop", "pa_signal"} /\ f.ret = "scan" =>
           Operation(l, f) = "none"
      /\ l \in {"user", "yield", "scan", "deliver", "to_unlink", "wfi"} =>
           Operation(l, f) = "none"
  BY DEF Operation
<1> QED
  BY <1>1 DEF Calling

\* The members and the credit of a queue depend on its root, the counter of its
\* first thread and the event on its way only.
LEMMA CreditSame ==
    ASSUME NEW q \in Queue, root'[q] = root[q],
           root[q] \notin {SIGNALED, <<>>} =>
              /\ td_qpec'[Head(root[q])] = td_qpec[Head(root[q])]
              /\ InFlight(q)' <=> InFlight(q)
    PROVE  Range(Chain(q))' = Range(Chain(q)) /\ Credit(q)' = Credit(q)
  BY DEF Chain, Credit

\* The waits depend on the timers, the queues the threads are in and on where
\* they continue.
LEMMA WaitsKept ==
    ASSUME UNCHANGED <<armed, td_queue, td_timer, cont>>
    PROVE  WaitsSame
  BY DEF WaitsSame, Limited, Outcome, WaitResult

\* A step that touches the state of one thread only leaves the other waits alone.
LEMMA OthersWaitKept ==
    ASSUME NEW t,
           \A x \in Thread \ {t} :
              /\ td_queue'[x] = td_queue[x] /\ td_timer'[x] = td_timer[x]
              /\ cont'[x] = cont[x] /\ (x \in armed' <=> x \in armed)
    PROVE  OthersWait(t)
  BY DEF OthersWait, Limited, Outcome, WaitResult

\* A thread that is in no queue before and after and not inside NutEventWait.
LEMMA WaitsSameBut ==
    ASSUME NEW t, OthersWait(t), armed \subseteq Thread, armed' \subseteq Thread,
           Outcome(t)' = Outcome(t), t \notin Limited, t \notin Limited'
    PROVE  WaitsSame
<1>1. Limited \subseteq Thread /\ Limited' \subseteq Thread
  BY DEF Limited
<1>2. Limited' = Limited
  BY <1>1 DEF OthersWait
<1> QED
  BY <1>2 DEF OthersWait, WaitsSame

\* The functions EventSpec's variables stand for.
LEMMA EsQueues ==
    ASSUME QueuesSame
    PROVE  /\ [q \in Queue |-> Range(Chain(q))]' = [q \in Queue |-> Range(Chain(q))]
           /\ [q \in Queue |-> Credit(q)]' = [q \in Queue |-> Credit(q)]
  BY DEF QueuesSame

\* The same for the waits.
LEMMA EsWaits ==
    ASSUME WaitsSame
    PROVE  /\ [t \in Thread |-> Outcome(t)]' = [t \in Thread |-> Outcome(t)]
           /\ Limited' = Limited
  BY DEF WaitsSame

\* Only queue q changes: what the operations of EventSpec need to know of it.
LEMMA EsChange ==
    ASSUME NEW q \in Queue, Apart(q)
    PROVE  /\ [p \in Queue |-> Range(Chain(p))]'
                = [[p \in Queue |-> Range(Chain(p))] EXCEPT ![q] = Range(Chain(q))']
           /\ [p \in Queue |-> Credit(p)]'
                = [[p \in Queue |-> Credit(p)] EXCEPT ![q] = Credit(q)']
           /\ Range(Chain(q))' = Range(Chain(q)) =>
                [p \in Queue |-> Range(Chain(p))]' = [p \in Queue |-> Range(Chain(p))]
           /\ Credit(q)' = Credit(q) =>
                [p \in Queue |-> Credit(p)]' = [p \in Queue |-> Credit(p)]
  BY DEF Apart

-----------------------------------------------------------------------------
(* When a step is which operation of EventSpec                             *)

\* Nothing EventSpec sees changes: its step Elsewhere.
LEMMA EsElsewhere ==
    ASSUME QueuesSame, WaitsSame, CallSame
    PROVE  ES!Next
<1>1. ES!Elsewhere
  BY EsQueues, EsWaits DEF CallSame, ES!Elsewhere
<1> QED
  BY <1>1 DEF ES!Next

\* The running thread begins an operation.
LEMMA EsBegin ==
    ASSUME NEW q \in Queue, NEW op \in {"post", "broadcast", "take", "wait"},
           QueuesSame, WaitsSame,
           \/ Doing("none", NULL)
           \/ Doing("next", q) /\ op \in {"take", "wait"},
           op = "take" => Range(Chain(q)) = {} /\ Credit(q) > 0,
           op = "wait" => ~(Range(Chain(q)) = {} /\ Credit(q) > 0),
           op = "broadcast" => Range(Chain(q)) # {},
           Doing(op, q)'
    PROVE  ES!Next
<1>1. ES!Begin(op, q)
  BY EsQueues, EsWaits DEF Doing, ES!Begin, ES!Call, ES!NoCall, ES!Signaled
<1> QED
  BY <1>1 DEF ES!Next

\* An interrupt adds an event and leaves the program where it was.
LEMMA EsArrive ==
    ASSUME NEW q \in Queue, Apart(q), Range(Chain(q))' = Range(Chain(q)),
           Credit(q)' = IF Range(Chain(q)) = {} /\ Credit(q) + 1 > 1 THEN 1 ELSE Credit(q) + 1,
           WaitsSame, UNCHANGED <<pc, fr, runQueue, armed>>
    PROVE  ES!Next
<1>1. ES!Arrive(q)
  BY EsChange, EsWaits DEF ES!Arrive, ES!Saturate
<1> QED
  BY <1>1 DEF ES!Next

\* NutEventWaitNext discards a signaled state.
LEMMA EsDiscard ==
    ASSUME NEW q \in Queue, Apart(q), Range(Chain(q))' = Range(Chain(q)),
           Credit(q)' = IF Range(Chain(q)) = {} THEN 0 ELSE Credit(q),
           WaitsSame, Doing("none", NULL), Doing("next", q)'
    PROVE  ES!Next
<1>1. ES!Discard(q)
  BY EsChange, EsWaits DEF Doing, ES!Discard, ES!Call, ES!NoCall
<1> QED
  BY <1>1 DEF ES!Next

\* A signaled state is taken.
LEMMA EsTake ==
    ASSUME NEW q \in Queue, Apart(q), Range(Chain(q))' = Range(Chain(q)), Credit(q)' = 0,
           WaitsSame, Doing("take", q), Doing("none", NULL)'
    PROVE  ES!Next
<1>1. ES!Take(q)
  BY EsChange, EsWaits DEF Doing, ES!Take, ES!Call, ES!NoCall
<1> QED
  BY <1>1 DEF ES!Next

\* A post that finds nobody waiting is remembered.
LEMMA EsRemember ==
    ASSUME NEW q \in Queue, Apart(q), Range(Chain(q))' = {}, Range(Chain(q)) = {},
           Credit(q)' = 1, WaitsSame, Doing("post", q), Doing("none", NULL)'
    PROVE  ES!Next
<1>1. ES!Remember(q)
  BY EsChange, EsWaits DEF Doing, ES!Remember, ES!Call, ES!NoCall
<1> QED
  BY <1>1 DEF ES!Next

\* A broadcast ends with an empty queue.
LEMMA EsEndBroadcast ==
    ASSUME NEW q \in Queue, QueuesSame, WaitsSame, Range(Chain(q)) = {},
           Doing("broadcast", q), Doing("none", NULL)'
    PROVE  ES!Next
<1>1. ES!EndBroadcast(q)
  BY EsQueues, EsWaits DEF Doing, ES!EndBroadcast, ES!Call, ES!NoCall
<1> QED
  BY <1>1 DEF ES!Next

\* A thread enters a queue and the credit stays.
LEMMA EsEnter ==
    ASSUME NEW q \in Queue, NEW t \in Thread, Apart(q),
           \A p \in Queue : t \notin Range(Chain(p)),
           Range(Chain(q))' = Range(Chain(q)) \cup {t}, Credit(q)' = Credit(q),
           OthersWait(t), armed \subseteq Thread, armed' \subseteq Thread,
           t \notin Limited, Outcome(t) = NULL, Outcome(t)' = NULL,
           Doing("wait", q), Doing("none", NULL)'
    PROVE  ES!Next
<1>1. Limited \subseteq Thread /\ Limited' \subseteq Thread
  BY DEF Limited
<1>2. Limited' \in {Limited, Limited \cup {t}}
  <2>1. CASE t \in Limited'
    BY <1>1, <2>1 DEF OthersWait
  <2>2. CASE t \notin Limited'
    BY <1>1, <2>2 DEF OthersWait
  <2> QED  BY <2>1, <2>2
<1>3. [x \in Thread |-> Outcome(x)]' = [x \in Thread |-> Outcome(x)]
  BY DEF OthersWait
<1>4. ES!Enter(t, q)
  BY <1>2, <1>3, EsChange DEF Doing, ES!Enter, ES!Awake, ES!Call, ES!NoCall
<1> QED
  BY <1>4 DEF ES!Next

\* NutEventWait returns and forgets its outcome.
LEMMA EsReturn ==
    ASSUME NEW t \in Thread, QueuesSame, CallSame, Limited' = Limited,
           \A x \in Thread \ {t} : Outcome(x)' = Outcome(x), Outcome(t)' = NULL
    PROVE  ES!Next
<1>1. [x \in Thread |-> Outcome(x)]' = [[x \in Thread |-> Outcome(x)] EXCEPT ![t] = NULL]
  OBVIOUS
<1>2. ES!Return(t)
  BY <1>1, EsQueues DEF CallSame, ES!Return
<1> QED
  BY <1>2 DEF ES!Next

\* A thread leaves its queue: the part the queue plays, and that of the thread.
Leaves(t, q, n) ==
    /\ Apart(q) /\ t \in Range(Chain(q)) /\ Range(Chain(q))' = Range(Chain(q)) \ {t}
    /\ Credit(q)' = IF Range(Chain(q)) \ {t} = {} /\ Credit(q) - n > 1
                    THEN 1 ELSE Credit(q) - n

\* A waiter departs.
LEMMA EsDepart ==
    ASSUME NEW q \in Queue, NEW t \in Thread, NEW n, NEW why, Leaves(t, q, n),
           OthersWait(t), armed \subseteq Thread, armed' \subseteq Thread,
           t \notin Limited', Outcome(t)' = why
    PROVE  ES!Depart(t, q, n, why)
<1>1. Limited \subseteq Thread /\ Limited' \subseteq Thread
  BY DEF Limited
<1>2. Limited' = Limited \ {t}
  BY <1>1 DEF OthersWait
<1>3. [x \in Thread |-> Outcome(x)]' = [[x \in Thread |-> Outcome(x)] EXCEPT ![t] = why]
  BY DEF OthersWait
<1> QED
  BY <1>2, <1>3, EsChange DEF Leaves, ES!Depart, ES!Saturate

-----------------------------------------------------------------------------
(* The steps of the kernel                                                 *)

\* The types the lemmas below rest on.
LEMMA EsTypes ==
    ASSUME IInv
    PROVE  /\ armed \subseteq Thread /\ Thread \subseteq All
           /\ root \in [Queue -> Seq(Thread) \cup {SIGNALED}]
           /\ td_queue \in [All -> Queue \cup {RunQueue, NULL}]
           /\ td_timer \in [All -> {NULL, "handle", SIGNALED}]
           /\ cont \in [All -> {"return", "wait"}] /\ runningThread \in All
           /\ fr \in FrameType
           /\ fr.ret \in {"user", "yield", "scan", "bc_loop"} /\ fr.bret \in {"user", "yield"}
           /\ NULL \notin Queue /\ RunQueue \notin Queue /\ NULL # SIGNALED
           /\ NULL # RunQueue
<1>1. Thread \subseteq All
  BY DEF All
<1> QED
  BY <1>1, ThreadsAssumption DEF IInv, TypeOK, FrameType

\* An empty chain is not a signaled queue.
LEMMA NotSignaled == SIGNALED # <<>>
  BY ThreadsAssumption, EmptySeq

\* Steps that change neither queues nor counters.
LEMMA EsQuiet ==
    ASSUME root' = root, td_qpec' = td_qpec,
           \A q \in Queue : root[q] \notin {SIGNALED, <<>>} => (InFlight(q)' <=> InFlight(q))
    PROVE  QueuesSame
  BY CreditSame DEF QueuesSame

\* Control is not between the taking of an event off a counter and its posting.
Settled == pc \notin {"pa_read", "pa_pop"} \/ fr.ret # "scan"

\* Steps that change neither queues nor counters and take no event on its way.
LEMMA EsSettled ==
    ASSUME root' = root, td_qpec' = td_qpec, Settled, Settled'
    PROVE  QueuesSame
<1>1. \A q \in Queue : ~InFlight(q)' /\ ~InFlight(q)
  BY DEF Settled, InFlight
<1> QED
  BY <1>1, EsQuiet

\* What happens to queue q leaves the others alone.
LEMMA OthersApart ==
    ASSUME IInv, NEW q \in Queue, HeadKept(q),
           \A p \in Queue \ {q} : InFlight(p)' <=> InFlight(p)
    PROVE  Apart(q)
<1> SUFFICES ASSUME NEW p \in Queue \ {q}
             PROVE  Range(Chain(p))' = Range(Chain(p)) /\ Credit(p)' = Credit(p)
  BY DEF Apart
<1>1. root'[p] = root[p]
  BY DEF HeadKept
<1>2. ASSUME root[p] \notin {SIGNALED, <<>>}
      PROVE  td_qpec'[Head(root[p])] = td_qpec[Head(root[p])]
  <2>1. root[p] \in Seq(Thread) /\ Chain(p) = root[p]
    BY <1>2, ChainType DEF IInv
  <2>2. Head(root[p]) \in All /\ Head(root[p]) \in Range(Chain(p))
    BY <1>2, <2>1, HeadInRange DEF All
  <2>3. td_queue[Head(root[p])] = p
    BY <2>2 DEF IInv, LinkedOnce
  <2> QED  BY <2>2, <2>3 DEF HeadKept
<1> QED
  BY <1>1, <1>2, CreditSame

\* The credit of a queue, by its root.
LEMMA ChainCredit ==
    ASSUME IInv, NEW q \in Queue, root[q] \notin {SIGNALED, <<>>}
    PROVE  /\ Chain(q) = root[q] /\ root[q] \in Seq(Thread)
           /\ Head(root[q]) \in All /\ Head(root[q]) \in Range(Chain(q))
           /\ td_qpec[Head(root[q])] \in Nat
           /\ Credit(q) = td_qpec[Head(root[q])] + (IF InFlight(q) THEN 1 ELSE 0)
<1>1. root[q] \in Seq(Thread) /\ Chain(q) = root[q]
  BY ChainType DEF IInv
<1>2. Head(root[q]) \in All /\ Head(root[q]) \in Range(Chain(q))
  BY <1>1, HeadInRange DEF All
<1> QED
  BY <1>1, <1>2 DEF IInv, TypeOK, Credit

\* The three kinds of root and what EventSpec sees of them.
LEMMA RootCredit ==
    ASSUME IInv, NEW q \in Queue
    PROVE  /\ root[q] = SIGNALED => Range(Chain(q)) = {} /\ Credit(q) = 1
           /\ root[q] = <<>> => Range(Chain(q)) = {} /\ Credit(q) = 0
           /\ root[q] \notin {SIGNALED, <<>>} => Range(Chain(q)) # {}
<1>1. root[q] = SIGNALED => Range(Chain(q)) = {} /\ Credit(q) = 1
  BY EmptyChain DEF Chain, Credit
<1>2. root[q] = <<>> => Range(Chain(q)) = {} /\ Credit(q) = 0
  BY EmptyChain, NotSignaled DEF Chain, Credit
<1> QED
  BY <1>1, <1>2, ChainCredit

\* A thread that is unlinked departs from its queue, and the pending events but
\* the one it receives stay with the queue.
LEMMA UnlinkDeparts ==
    ASSUME IInv, NEW q \in Queue, NEW td \in Thread, td \in Range(Chain(q)),
           Unlink(q, td), pc # "w_insert", \A p \in Queue : ~InFlight(p)',
           \A p \in Queue \ {q} : ~InFlight(p),
           NEW n, n = IF InFlight(q) THEN 1 ELSE 0
    PROVE  Leaves(td, q, n) /\ Credit(q) >= n
<1>1. /\ Range(Chain(q)') = Range(Chain(q)) \ {td}
      /\ HeadKept(q)
      /\ Chain(q)' = <<>> =>
           /\ Head(Chain(q)) = td
           /\ root'[q] = IF td_qpec[td] > 0 THEN SIGNALED ELSE <<>>
      /\ root' \in [Queue -> Seq(Thread) \cup {SIGNALED}]
  BY UnlinkProperties DEF IInv, Chains
<1>2. Apart(q)
  BY <1>1, OthersApart
<1>3. root[q] \notin {SIGNALED, <<>>}
  BY EmptyChain DEF Chain
<1>4. PICK c \in Nat : c = td_qpec[Head(root[q])] /\ Credit(q) = c + n
                       /\ Chain(q) = root[q]
  BY <1>3, ChainCredit
<1>5. n \in {0, 1} /\ Credit(q) - n = c /\ Credit(q) >= n
  BY <1>4
<1>6. Credit(q)' = IF Range(Chain(q)) \ {td} = {} /\ c > 1 THEN 1 ELSE c
  <2>1. CASE Chain(q)' = <<>>
    <3>1. Range(Chain(q)) \ {td} = {}
      BY <1>1, <2>1, EmptyChain
    <3>2. root'[q] = IF c > 0 THEN SIGNALED ELSE <<>>
      BY <1>1, <1>4, <2>1
    <3>3. SIGNALED # <<>>
      BY ThreadsAssumption, EmptySeq
    <3>4. Credit(q)' = IF c > 0 THEN 1 ELSE 0
      BY <3>2, <3>3 DEF Credit
    <3> QED  BY <1>4, <3>1, <3>4
  <2>2. CASE Chain(q)' # <<>>
    <3>1. root'[q] = Chain(q)' /\ td_qpec'[Head(Chain(q)')] = c
      BY <1>1, <1>4, <2>2 DEF HeadKept
    <3>2. Chain(q)' # SIGNALED
      BY <1>1, ThreadsAssumption, EmptySeq DEF Chain
    <3>3. Credit(q)' = c
      BY <2>2, <3>1, <3>2 DEF Credit
    <3>4. Range(Chain(q)') # {}
      <4>1. PICK s : s = Chain(q)'
        OBVIOUS
      <4>2. s \in Seq(Thread) /\ s # <<>>
        BY <1>1, <2>2, <3>1, <3>2, <4>1
      <4>3. Head(s) \in Range(s)
        BY <4>2, HeadInRange
      <4> QED  BY <4>1, <4>3
    <3> QED  BY <1>1, <3>3, <3>4
  <2> QED  BY <2>1, <2>2
<1> QED
  BY <1>1, <1>2, <1>5, <1>6 DEF Leaves

\* A thread that is made ready again: its wait has an outcome, and no limit.
LEMMA ReadyOutcome ==
    ASSUME IInv, InWait, NEW t \in Thread, td_queue[t] \in Queue, pc # "w_insert",
           MakeReady(t), cont' = cont, armed' \in {armed, armed \ {t}},
           NEW x \in {NULL, SIGNALED}, td_timer' = [td_timer EXCEPT ![t] = x]
    PROVE  /\ OthersWait(t) /\ armed \subseteq Thread /\ armed' \subseteq Thread
           /\ t \notin Limited'
           /\ Outcome(t)' = IF x = SIGNALED THEN "timeout" ELSE "event"
<1>1. /\ t \in All /\ td_queue' = [td_queue EXCEPT ![t] = RunQueue] /\ cont[t] = "wait"
      /\ armed \subseteq Thread /\ armed' \subseteq Thread
  BY EsTypes DEF MakeReady, InWait, Moving
<1>2. td_queue'[t] = RunQueue /\ td_timer'[t] = x /\ cont'[t] = "wait"
  BY <1>1, EsTypes
<1>3. OthersWait(t)
  BY <1>1, EsTypes, OthersWaitKept
<1>4. t \notin Limited'
  BY <1>2, EsTypes DEF Limited
<1>5. Outcome(t)' = IF x = SIGNALED THEN "timeout" ELSE "event"
  BY <1>2 DEF Outcome, WaitResult
<1> QED
  BY <1>1, <1>3, <1>4, <1>5

\* NutEventPostAsync: the most urgent thread leaves, with the event that
\* NutThreadResume has taken off the counter or with the caller's own.
LEMMA EsPop ==
    ASSUME IInv, InWait, PostPop
    PROVE  ES!Next
<1>1. PICK q, td : q = fr.q /\ td = Head(root[q])
  OBVIOUS
<1>2. /\ q \in Queue /\ td \in Thread /\ td \in Range(Chain(q)) /\ pc = "pa_pop"
      /\ root[q] # SIGNALED /\ root[q] # <<>> /\ Unlink(q, td)
  BY <1>1, PopUnlinks
<1>3. /\ \A p \in Queue : ~InFlight(p)'
      /\ \A p \in Queue \ {q} : ~InFlight(p)
  <2>1. fr.ret \in {"user", "yield", "scan", "bc_loop"}
    BY DEF IInv, TypeOK, FrameType
  <2>2. pc' \in {"user", "yield", "scan", "bc_loop"}
    BY <2>1 DEF PostPop, PostReturn, Return, Goto
  <2> QED  BY <1>1, <2>2 DEF InFlight
<1>4. PICK n : n = IF InFlight(q) THEN 1 ELSE 0
  OBVIOUS
<1>5. Leaves(td, q, n) /\ Credit(q) >= n
  BY <1>2, <1>3, <1>4, UnlinkDeparts
<1>6. ES!MostUrgent(td, q)
  <2>1. PICK s : s = root[q]
    OBVIOUS
  <2>2. s \in Seq(Thread) /\ Chain(q) = s /\ Len(s) \in Nat /\ Len(s) >= 1 /\ td = s[1]
    BY <1>1, <1>2, <2>1, ChainType, HeadInRange DEF IInv
  <2>3. PriOrdered(s, Prio)
    BY <1>2, <2>2 DEF IInv, WaitersOrdered
  <2>4. ASSUME NEW u \in Range(s)  PROVE Prio[td] <= Prio[u]
    <3>1. PICK k \in 1..Len(s) : u = s[k]
      BY <2>2, RangeOfChain
    <3>2. CASE k = 1
      <4>1. td \in All
        BY <1>2 DEF All
      <4>2. Prio[td] \in Nat
        BY <4>1, PrioType
      <4> QED  BY <2>2, <3>1, <3>2, <4>2
    <3>3. CASE k # 1
      <4>1. 1 \in 1..Len(s) /\ 1 < k
        BY <2>2, <3>3
      <4> QED  BY <2>2, <2>3, <3>1, <4>1 DEF PriOrdered
    <3> QED  BY <3>2, <3>3
  <2> QED  BY <1>2, <2>2, <2>4 DEF ES!MostUrgent
<1>7. ES!Depart(td, q, n, "event")
  <2>1. td_queue[td] = q
    <3>1. td \in All
      BY <1>2, EsTypes
    <3> QED  BY <1>2, <3>1 DEF IInv, LinkedOnce
  <2>2. /\ MakeReady(td) /\ cont' = cont /\ armed' \in {armed, armed \ {td}}
        /\ td_timer' = [td_timer EXCEPT ![td] = NULL]
    BY <1>1 DEF PostPop, StopTimer
  <2>3. /\ OthersWait(td) /\ armed \subseteq Thread /\ armed' \subseteq Thread
        /\ td \notin Limited' /\ Outcome(td)' = "event"
    BY <1>2, <2>1, <2>2, ReadyOutcome, EsTypes
  <2> QED  BY <1>2, <1>5, <2>3, EsDepart
<1>8. PostReturn(fr.ret)
  BY DEF PostPop
<1>9. CASE fr.ret = "scan"
  <2>1. n = 1 /\ Credit(q) > 0
    <3>1. InFlight(q)
      BY <1>1, <1>2, <1>9 DEF InFlight
    <3>2. Credit(q) \in Nat
      BY <1>2, ChainCredit
    <3> QED  BY <1>4, <1>5, <3>1, <3>2
  <2>2. pc' = "scan"
    BY <1>8, <1>9 DEF PostReturn, Goto
  <2>3. CallSame
    BY <1>2, <1>9, <2>2, CallAt DEF CallSame
  <2>4. ES!Wake(td, q)
    BY <1>2, <1>6, <1>7, <2>1, <2>3 DEF ES!Wake, CallSame
  <2> QED  BY <1>2, <2>4 DEF ES!Next
<1>10. CASE fr.ret \in {"user", "yield"}
  <2>1. n = 0
    BY <1>4, <1>10 DEF InFlight
  <2>2. pc' \in {"user", "yield"}
    BY <1>8, <1>10 DEF PostReturn, Goto, Return
  <2>3. Doing("post", q) /\ Doing("none", NULL)'
    BY <1>1, <1>2, <1>10, <2>2, CallAt DEF Doing
  <2>4. ES!Handoff(td, q)
    BY <1>6, <1>7, <2>1, <2>3 DEF ES!Handoff, ES!Call, ES!NoCall, Doing
  <2> QED  BY <1>2, <2>4 DEF ES!Next
<1>11. CASE fr.ret = "bc_loop"
  <2>1. n = 0
    BY <1>4, <1>11 DEF InFlight
  <2>2. pc' = "bc_loop" /\ fr' = fr
    BY <1>8, <1>11 DEF PostReturn, Goto
  <2>3. Doing("broadcast", q) /\ Doing("broadcast", q)'
    BY <1>1, <1>2, <1>11, <2>2, CallAt DEF Doing
  <2>4. ES!Release(td, q)
    BY <1>6, <1>7, <2>1, <2>3 DEF ES!Release, ES!Call, Doing
  <2> QED  BY <1>2, <2>4 DEF ES!Next
<1> QED
  BY <1>9, <1>10, <1>11, EsTypes

\* NutEventTimeout: a thread with a time limit leaves and takes no event with it.
LEMMA EsTimeout ==
    ASSUME IInv, InWait, TimeoutUnlink
    PROVE  ES!Next
<1>1. PICK q, t : t = fr.td /\ q = td_queue[t]
  OBVIOUS
<1>2. /\ q \in Queue /\ t \in Thread /\ t \in Range(Chain(q)) /\ pc = "to_unlink"
      /\ Unlink(q, t) /\ pc' = "scan"
  BY <1>1, TimeoutUnlinks DEF TimeoutUnlink, Goto
<1>3. \A p \in Queue : ~InFlight(p)' /\ ~InFlight(p)
  BY <1>2 DEF InFlight
<1>4. Leaves(t, q, 0)
  BY <1>2, <1>3, UnlinkDeparts
<1>5. /\ MakeReady(t) /\ cont' = cont /\ armed' = armed \ {t}
      /\ td_timer' = [td_timer EXCEPT ![t] = SIGNALED]
  BY <1>1 DEF TimeoutUnlink
<1>6. /\ OthersWait(t) /\ armed \subseteq Thread /\ armed' \subseteq Thread
      /\ t \notin Limited' /\ Outcome(t)' = "timeout"
  BY <1>1, <1>2, <1>5, ReadyOutcome
<1>7. ES!Depart(t, q, 0, "timeout")
  BY <1>2, <1>4, <1>6, EsDepart
<1>8. t \in Limited
  BY <1>1, <1>2 DEF IInv, Control, Limited
<1>9. CallSame
  BY <1>2, CallAt DEF CallSame
<1>10. ES!Expire(t, q)
  BY <1>7, <1>8, <1>9 DEF ES!Expire, CallSame
<1> QED
  BY <1>2, <1>10 DEF ES!Next

\* A thread enters a queue, with or without a timer.
LEMMA EnterWaits ==
    ASSUME IInv, NEW t \in Thread, NEW q \in Queue, t = runningThread,
           pc \in {"w_add", "w_insert"}, fr.q = q, td_queue' = [td_queue EXCEPT ![t] = q]
    PROVE  /\ t \notin Limited /\ Outcome(t) = NULL /\ Outcome(t)' = NULL
           /\ FallAsleep(t) => OthersWait(t) /\ armed' \subseteq Thread
           /\ UNCHANGED <<armed, td_timer, cont>> => WaitsSame
<1>1. cont[t] = "return" /\ t \in All /\ td_queue'[t] = q
  BY EsTypes DEF IInv, Control, InResume
<1>2. t \notin armed
  BY DEF IInv, Control, InResume, Asleep
<1>3. t \notin Limited /\ Outcome(t) = NULL /\ Outcome(t)' = NULL
  <2>1. q # RunQueue /\ "return" # "wait"
    BY EsTypes
  <2> QED  BY <1>1, <1>2, <2>1 DEF Limited, Outcome
<1>4. ASSUME FallAsleep(t)  PROVE OthersWait(t) /\ armed' \subseteq Thread
  <2>1. /\ armed' \in {armed, armed \cup {t}} /\ cont' = [cont EXCEPT ![t] = "wait"]
        /\ \E x : td_timer' = [td_timer EXCEPT ![t] = x]
    BY <1>4 DEF FallAsleep
  <2>2. armed' \subseteq Thread
    BY <2>1, EsTypes
  <2>3. OthersWait(t)
    BY <2>1, EsTypes, OthersWaitKept
  <2> QED  BY <2>2, <2>3
<1>5. ASSUME UNCHANGED <<armed, td_timer, cont>>  PROVE WaitsSame
  <2>1. OthersWait(t)
    BY <1>5, EsTypes, OthersWaitKept
  <2>2. t \notin Limited'
    BY <1>2, <1>5 DEF Limited
  <2> QED  BY <1>3, <1>5, <2>1, <2>2, EsTypes, WaitsSameBut
<1> QED
  BY <1>3, <1>4, <1>5

\* NutEventWait enters an occupied queue: the thread that becomes the first one
\* takes over the count.
LEMMA EsInsert ==
    ASSUME IInv, WaitInsert
    PROVE  ES!Next
<1>1. PICK t \in Thread, q \in Queue : t = runningThread /\ q = fr.q
  BY DEF IInv, Control, QueueLabels, WaitInsert
<1>2. /\ HeadKept(q) /\ Chain(q)' # <<>> /\ Range(Chain(q)') = Range(Chain(q)) \cup {t}
      /\ \A p \in Queue : t \notin Range(Chain(p))
      /\ IInv'
  BY <1>1, WaitInsertIInv
<1>3. pc = "w_insert" /\ pc' = "scan" /\ root[q] \notin {SIGNALED, <<>>}
  BY <1>1 DEF IInv, Control, WaitInsert, FallAsleep, Goto
<1>4. \A p \in Queue : ~InFlight(p)' /\ ~InFlight(p)
  BY <1>3 DEF InFlight
<1>5. Apart(q)
  BY <1>2, <1>4, OthersApart
<1>6. Credit(q)' = Credit(q)
  <2>1. Credit(q) = td_qpec[Head(root[q])] /\ Chain(q) = root[q] /\ td_qpec[Head(root[q])] \in Nat
    BY <1>3, <1>4, ChainCredit
  <2>2. root'[q] = Chain(q)' /\ td_qpec'[Head(Chain(q)')] = Credit(q)
    BY <1>2, <2>1 DEF HeadKept
  <2>3. Chain(q)' # SIGNALED
    BY ThreadsAssumption, EmptySeq DEF Chain
  <2> QED  BY <1>2, <1>4, <2>1, <2>2, <2>3 DEF Credit
<1>7. /\ t \notin Limited /\ Outcome(t) = NULL /\ Outcome(t)' = NULL
      /\ OthersWait(t) /\ armed \subseteq Thread /\ armed' \subseteq Thread
  <2>1. td_queue' = [td_queue EXCEPT ![t] = q]
    <3>1. td_queue' = td_queue /\ td_queue[t] = q
      BY <1>1, <1>3 DEF WaitInsert, IInv, Control
    <3> QED  BY <3>1, EsTypes
  <2>2. FallAsleep(t)
    BY <1>1 DEF WaitInsert
  <2> QED  BY <1>1, <1>3, <2>1, <2>2, EnterWaits, EsTypes
<1>8. Doing("wait", q) /\ Doing("none", NULL)'
  BY <1>1, <1>3, CallAt DEF Doing
<1> QED
  BY <1>1, <1>2, <1>5, <1>6, <1>7, <1>8, EsEnter

\* NutEventWait enters a queue without threads, or is about to enter one.
LEMMA EsAdd ==
    ASSUME IInv, WaitAdd
    PROVE  ES!Next
<1>1. PICK t \in Thread, q \in Queue : t = runningThread /\ q = fr.q
  BY DEF IInv, Control, QueueLabels, WaitAdd
<1>2. t \in All /\ td_qpec[t] = 0 /\ td_qpec \in [All -> Nat] /\ pc = "w_add"
  BY <1>1, RunningWithout DEF IInv, TypeOK, WaitAdd
<1>3. \A p \in Queue : t \notin Range(Chain(p))
  <2>1. td_queue[t] = RunQueue
    BY <1>1, <1>2 DEF IInv, Control, InResume
  <2> QED  BY <1>2, <2>1, ThreadsAssumption DEF IInv, LinkedOnce
<1>4. root \in [Queue -> Seq(Thread) \cup {SIGNALED}]
  BY DEF IInv, TypeOK
<1>5. (\A p \in Queue : ~InFlight(p)) /\ td_queue' = [td_queue EXCEPT ![t] = q]
  BY <1>1, <1>2 DEF InFlight, WaitAdd
<1>6. CASE root[q] \in {SIGNALED, <<>>}
  <2>1. PICK n \in {0, 1} : n = IF root[q] = SIGNALED THEN 1 ELSE 0
    OBVIOUS
  <2>2. /\ root' = [root EXCEPT ![q] = <<t>>] /\ td_qpec' = [td_qpec EXCEPT ![t] = n]
        /\ pc' = "scan" /\ FallAsleep(t)
    BY <1>1, <1>6, <2>1 DEF WaitAdd, FallAsleep, Goto
  <2>3. \A p \in Queue : ~InFlight(p)'
    BY <2>2 DEF InFlight
  <2>4. /\ <<t>> \in Seq(Thread) /\ <<t>> # <<>> /\ Head(<<t>>) = t /\ Range(<<t>>) = {t}
        /\ <<t>> # SIGNALED
    BY SingleChain, ThreadsAssumption
  <2>5. root'[q] = <<t>> /\ td_qpec'[t] = n
    BY <1>2, <1>4, <2>2
  <2>6. Range(Chain(q))' = {t} /\ Credit(q)' = n
    BY <2>3, <2>4, <2>5 DEF Chain, Credit
  <2>7. Range(Chain(q)) = {} /\ Credit(q) = n
    BY <1>6, <2>1, EmptyChain DEF Chain, Credit
  <2>8. Apart(q)
    <3> SUFFICES ASSUME NEW p \in Queue \ {q}
                 PROVE  Range(Chain(p))' = Range(Chain(p)) /\ Credit(p)' = Credit(p)
      BY DEF Apart
    <3>1. root'[p] = root[p]
      BY <1>4, <2>2
    <3>2. root[p] \notin {SIGNALED, <<>>} =>
             Head(root[p]) \in All /\ Head(root[p]) \in Range(Chain(p))
      BY ChainCredit
    <3>3. root[p] \notin {SIGNALED, <<>>} =>
             td_qpec'[Head(root[p])] = td_qpec[Head(root[p])]
      BY <1>2, <1>3, <2>2, <3>2
    <3> QED  BY <1>5, <2>3, <3>1, <3>3, CreditSame
  <2>9. /\ t \notin Limited /\ Outcome(t) = NULL /\ Outcome(t)' = NULL
        /\ OthersWait(t) /\ armed \subseteq Thread /\ armed' \subseteq Thread
    BY <1>1, <1>2, <1>5, <2>2, EnterWaits, EsTypes
  <2>10. Doing("wait", q) /\ Doing("none", NULL)'
    BY <1>1, <1>2, <2>2, CallAt DEF Doing
  <2>11. Range(Chain(q))' = Range(Chain(q)) \cup {t} /\ Credit(q)' = Credit(q)
    BY <2>6, <2>7
  <2> QED  BY <1>3, <2>8, <2>9, <2>10, <2>11, EsEnter
<1>7. CASE root[q] \notin {SIGNALED, <<>>}
  <2>1. /\ root' = root /\ td_qpec' = [td_qpec EXCEPT ![t] = 0] /\ pc' = "w_insert"
        /\ UNCHANGED <<armed, td_timer, cont, fr>>
    BY <1>1, <1>7 DEF WaitAdd, Goto
  <2>2. td_qpec' = td_qpec
    BY <1>2, <2>1
  <2>3. \A p \in Queue : ~InFlight(p)'
    BY <2>1 DEF InFlight
  <2>4. QueuesSame
    BY <1>5, <2>1, <2>2, <2>3, EsQuiet
  <2>5. WaitsSame
    BY <1>1, <1>2, <1>5, <2>1, EnterWaits
  <2>6. CallSame
    BY <1>2, <2>1, CallAt DEF CallSame
  <2> QED  BY <2>4, <2>5, <2>6, EsElsewhere
<1> QED
  BY <1>6, <1>7

\* NutThreadResume takes an event off the counter: it is on its way now.
LEMMA EsDeliver ==
    ASSUME IInv, ResumeDeliver
    PROVE  ES!Next
<1>1. PICK td, q : td = ThreadList[fr.scan] /\ q = td_queue[td]
  OBVIOUS
<1>2. /\ pc = "deliver" /\ td \in All /\ td_qpec[td] > 0
      /\ td_qpec \in [All -> Nat] /\ fr \in FrameType
  <2>1. /\ fr.scan <= Len(ThreadList) /\ td_qpec[td] > 0 /\ pc = "deliver"
        /\ fr.scan \in 1..(Len(ThreadList) + 1)
    BY <1>1 DEF IInv, TypeOK, FrameType, Control, ResumeDeliver
  <2>2. fr.scan \in 1..Len(ThreadList)
    BY <2>1, ListType
  <2> QED  BY <1>1, <2>1, <2>2, ListType DEF IInv, TypeOK
<1>3. q \in Queue /\ Chain(q) # <<>> /\ Head(Chain(q)) = td
  BY <1>1, <1>2 DEF IInv, PendingAtHead
<1>4. root[q] \notin {SIGNALED, <<>>} /\ Chain(q) = root[q]
  BY <1>3 DEF Chain
<1>5. /\ root' = root /\ td_qpec' = [td_qpec EXCEPT ![td] = @ - 1] /\ pc' = "pa_read"
      /\ fr' = [fr EXCEPT !.q = q, !.ret = "scan", !.scan = @ + 1]
  BY <1>1, <1>4 DEF ResumeDeliver, Goto
<1>6. fr'.q = q /\ fr'.ret = "scan"
  BY <1>2, <1>5 DEF FrameType
<1>7. InFlight(q)' /\ \A p \in Queue : ~InFlight(p) /\ (p # q => ~InFlight(p)')
  BY <1>2, <1>5, <1>6 DEF InFlight
<1>8. Range(Chain(q))' = Range(Chain(q)) /\ Credit(q)' = Credit(q)
  <2>1. PICK c \in Nat : c = td_qpec[td]
    BY <1>2
  <2>2. Credit(q) = c
    BY <1>3, <1>4, <1>7, <2>1 DEF Credit
  <2>3. td_qpec'[td] = c - 1
    BY <1>2, <1>5, <2>1
  <2>4. Credit(q)' = (c - 1) + 1
    BY <1>3, <1>4, <1>5, <1>7, <2>3 DEF Credit
  <2> QED  BY <1>5, <2>1, <2>2, <2>4 DEF Chain
<1>9. ASSUME NEW p \in Queue, p # q
      PROVE  Range(Chain(p))' = Range(Chain(p)) /\ Credit(p)' = Credit(p)
  <2>1. ASSUME root[p] \notin {SIGNALED, <<>>}
        PROVE  td_qpec'[Head(root[p])] = td_qpec[Head(root[p])]
    <3>1. Head(root[p]) \in All /\ Head(root[p]) \in Range(Chain(p))
      BY <2>1, ChainCredit
    <3>2. td_queue[Head(root[p])] = p
      BY <3>1 DEF IInv, LinkedOnce
    <3> QED  BY <1>1, <1>2, <1>5, <1>9, <3>1, <3>2
  <2> QED  BY <1>5, <1>7, <1>9, <2>1, CreditSame
<1>10. QueuesSame
  BY <1>8, <1>9 DEF QueuesSame
<1>11. WaitsSame
  <2>1. UNCHANGED <<armed, td_queue, td_timer, cont>>
    BY DEF ResumeDeliver, Locals
  <2> QED  BY <2>1, WaitsKept
<1>12. CallSame
  <2>1. pc = "deliver" /\ pc' = "pa_read"
    BY <1>2, <1>5
  <2> QED  BY <1>6, <2>1, CallAt DEF CallSame
<1> QED
  BY <1>10, <1>11, <1>12, EsElsewhere

\* The signaled state of a queue goes.
LEMMA ClearQueue ==
    ASSUME IInv, NEW q \in Queue, root[q] = SIGNALED, root' = [root EXCEPT ![q] = <<>>],
           td_qpec' = td_qpec, \A p \in Queue : ~InFlight(p) /\ ~InFlight(p)'
    PROVE  /\ Apart(q) /\ Range(Chain(q)) = {} /\ Range(Chain(q))' = {}
           /\ Credit(q)' = 0 /\ Credit(q) = 1
<1>1. root'[q] = <<>> /\ \A p \in Queue \ {q} : root'[p] = root[p]
  BY EsTypes
<1>2. Apart(q)
  BY <1>1, CreditSame DEF Apart
<1> QED
  BY <1>1, <1>2, NotSignaled, EmptyChain DEF Chain, Credit

\* A queue without threads is signaled.
LEMMA SignalQueue ==
    ASSUME IInv, NEW q \in Queue, root[q] \in {SIGNALED, <<>>},
           root' = [root EXCEPT ![q] = SIGNALED], td_qpec' = td_qpec,
           \A p \in Queue \ {q} : InFlight(p)' <=> InFlight(p)
    PROVE  /\ Apart(q) /\ Range(Chain(q)) = {} /\ Range(Chain(q))' = {} /\ Credit(q)' = 1
           /\ Credit(q) = IF root[q] = SIGNALED THEN 1 ELSE 0
<1>1. root'[q] = SIGNALED /\ \A p \in Queue \ {q} : root'[p] = root[p]
  BY EsTypes
<1>2. Apart(q)
  BY <1>1, CreditSame DEF Apart
<1> QED
  BY <1>1, <1>2, NotSignaled, EmptyChain DEF Chain, Credit

\* An interrupt posts an event.
LEMMA EsIrq ==
    ASSUME IInv, NEW q \in Queue, NutEventPostFromIrq(q)
    PROVE  ES!Next
<1>1. \A p \in Queue : InFlight(p)' <=> InFlight(p)
  BY DEF NutEventPostFromIrq, InFlight
<1>0. WaitsSame /\ UNCHANGED <<pc, fr, runQueue, armed>>
  BY WaitsKept DEF NutEventPostFromIrq, Locals
<1>2. CASE root[q] = <<>>
  <2>1. root' = [root EXCEPT ![q] = SIGNALED] /\ td_qpec' = td_qpec
    BY <1>2, NotSignaled DEF NutEventPostFromIrq
  <2>2. /\ Apart(q) /\ Range(Chain(q)) = {} /\ Range(Chain(q))' = {} /\ Credit(q)' = 1
        /\ Credit(q) = 0
    BY <1>1, <1>2, <2>1, SignalQueue, NotSignaled
  <2> QED  BY <1>0, <2>2, EsArrive
<1>3. CASE root[q] \notin {SIGNALED, <<>>}
  <2>1. PICK td, n : td = Head(root[q]) /\ n = IF InFlight(q) THEN 1 ELSE 0
    OBVIOUS
  <2>2. root' = root /\ td_qpec' = [td_qpec EXCEPT ![td] = @ + 1]
    BY <1>3, <2>1 DEF NutEventPostFromIrq, Pend
  <2>3. /\ td \in All /\ td \in Range(Chain(q)) /\ Credit(q) = td_qpec[td] + n
        /\ td_qpec[td] \in Nat /\ td_qpec \in [All -> Nat]
    BY <1>3, <2>1, ChainCredit DEF IInv, TypeOK
  <2>4. Apart(q)
    <3>1. ASSUME NEW x \in All, td_queue[x] # q  PROVE td_qpec'[x] = td_qpec[x]
      <4>1. td_queue[td] = q
        BY <2>3 DEF IInv, LinkedOnce
      <4> QED  BY <2>2, <2>3, <3>1, <4>1
    <3>2. \A p \in Queue \ {q} : Range(Chain(p))' = Range(Chain(p)) /\ Credit(p)' = Credit(p)
      <4> SUFFICES ASSUME NEW p \in Queue \ {q}
                   PROVE  Range(Chain(p))' = Range(Chain(p)) /\ Credit(p)' = Credit(p)
        OBVIOUS
      <4>1. ASSUME root[p] \notin {SIGNALED, <<>>}
            PROVE  td_qpec'[Head(root[p])] = td_qpec[Head(root[p])]
        <5>1. Head(root[p]) \in All /\ Head(root[p]) \in Range(Chain(p))
          BY <4>1, ChainCredit
        <5>2. td_queue[Head(root[p])] = p
          BY <5>1 DEF IInv, LinkedOnce
        <5> QED  BY <3>1, <5>1, <5>2
      <4> QED  BY <1>1, <2>2, <4>1, CreditSame
    <3> QED  BY <3>2 DEF Apart
  <2>5. Range(Chain(q))' = Range(Chain(q)) /\ Range(Chain(q)) # {}
    BY <2>2, <2>3 DEF Chain
  <2>6. td_qpec'[td] = td_qpec[td] + 1
    BY <2>2, <2>3
  <2>7. Credit(q)' = (td_qpec[td] + 1) + n
    BY <1>1, <1>3, <2>1, <2>2, <2>6 DEF Credit
  <2>8. Credit(q)' = Credit(q) + 1
    BY <2>1, <2>3, <2>7
  <2> QED  BY <1>0, <2>4, <2>5, <2>8, EsArrive
<1> QED
  BY <1>2, <1>3 DEF NutEventPostFromIrq

\* Where NutEventPostAsync and NutEventBroadcastAsync return to.
LEMMA ReturnSettled ==
    ASSUME NEW l \in {"user", "yield", "scan", "bc_loop"}, PostReturn(l)
    PROVE  Settled' /\ pc' = l
  BY DEF PostReturn, Return, Goto, Settled

\* The look at a queue before a wait: take the signaled state, wait, or go on.
LEMMA EsRead ==
    ASSUME IInv, NEW q \in Queue, NEW ms \in BOOLEAN, NEW w \in BOOLEAN,
           ReadRoot(q, ms, w), UNCHANGED <<kernel, Locals>>,
           \/ pc = "user"
           \/ pc = "wait" /\ fr.q = q /\ w = TRUE
    PROVE  ES!Next
<1>1. /\ root' = root /\ td_qpec' = td_qpec /\ UNCHANGED <<armed, td_queue, td_timer, cont>>
  BY DEF kernel, Locals
<1>2. pc' \in {"tw_clear", "w_add", "user"}
  BY DEF ReadRoot, Goto, Return
<1>3. Settled /\ Settled'
  BY <1>2 DEF Settled
<1>4. QueuesSame /\ WaitsSame
  BY <1>1, <1>3, EsSettled, WaitsKept
<1>5. IF pc = "wait" THEN Doing("next", q) ELSE Doing("none", NULL)
  BY CallAt DEF Doing
<1>6. CASE pc' = "tw_clear"
  <2>1. root[q] = SIGNALED /\ fr' = [NoFrame EXCEPT !.q = q]
    BY <1>6 DEF ReadRoot, Goto, Return
  <2>2. fr'.q = q
    BY <2>1, FreshFrame
  <2>3. Doing("take", q)'
    BY <1>6, <2>2, CallAt DEF Doing
  <2>4. Range(Chain(q)) = {} /\ Credit(q) = 1
    BY <2>1, RootCredit
  <2> QED  BY <1>4, <1>5, <2>3, <2>4, EsBegin
<1>7. CASE pc' = "w_add"
  <2>1. root[q] # SIGNALED /\ fr' = [NoFrame EXCEPT !.q = q, !.ms = ms]
    BY <1>7 DEF ReadRoot, Goto, Return
  <2>2. fr'.q = q
    BY <2>1, FreshFrame
  <2>3. Doing("wait", q)'
    BY <1>7, <2>2, CallAt DEF Doing
  <2>4. ~(Range(Chain(q)) = {} /\ Credit(q) > 0)
    BY <2>1, RootCredit
  <2> QED  BY <1>4, <1>5, <2>3, <2>4, EsBegin
<1>8. CASE pc' = "user"
  <2>1. pc = "user"
    BY <1>8 DEF ReadRoot, Goto, Return
  <2>2. CallSame
    BY <1>8, <2>1, CallAt DEF CallSame
  <2> QED  BY <1>4, <2>2, EsElsewhere
<1> QED
  BY <1>2, <1>6, <1>7, <1>8

\* NutEventPost, NutEventPostAsync and the broadcasts.
LEMMA EsPosts ==
    ASSUME IInv, NEW t \in Thread, NEW q \in Queue, NEW b \in BOOLEAN,
           \/ NutEventPost(t, q) \/ NutEventPostAsync(t, q) \/ NutEventBroadcast(t, q, b)
    PROVE  ES!Next
<1>1. /\ root' = root /\ td_qpec' = td_qpec /\ UNCHANGED <<armed, td_queue, td_timer, cont>>
      /\ pc = "user"
  BY DEF NutEventPost, NutEventPostAsync, NutEventBroadcast, kernel, Locals, Running
<1>2. Doing("none", NULL)
  BY <1>1, CallAt DEF Doing
<1>3. WaitsSame
  BY <1>1, WaitsKept
<1>4. CASE NutEventPost(t, q) \/ NutEventPostAsync(t, q)
  <2>1. /\ pc' = "pa_read"
        /\ fr' \in {[NoFrame EXCEPT !.q = q], [NoFrame EXCEPT !.q = q, !.ret = "yield"]}
    BY <1>4 DEF NutEventPost, NutEventPostAsync, Goto
  <2>2. fr'.q = q /\ fr'.ret \in {"user", "yield"}
    BY <2>1, FreshFrame
  <2>3. Settled /\ Settled'
    BY <1>1, <2>2 DEF Settled
  <2>4. Doing("post", q)'
    BY <2>1, <2>2, CallAt DEF Doing
  <2> QED  BY <1>1, <1>2, <1>3, <2>3, <2>4, EsSettled, EsBegin
<1>5. CASE NutEventBroadcast(t, q, b)
  <2>1. PICK l \in {"yield", "user"} : l = IF b THEN "yield" ELSE "user"
    OBVIOUS
  <2>2. PICK f : f = [NoFrame EXCEPT !.q = q, !.ret = "bc_loop", !.bret = l]
    OBVIOUS
  <2>3. f.q = q /\ f.ret = "bc_loop"
    BY <2>2, FreshFrame
  <2>4. \/ root[q] = SIGNALED /\ pc' = "bc_clear" /\ fr' = f
        \/ root[q] \notin {SIGNALED, <<>>} /\ pc' = "pa_read" /\ fr' = f
        \/ pc' = l
    BY <1>5, <2>1, <2>2 DEF NutEventBroadcast, Goto
  <2>5. Settled /\ Settled'
    BY <1>1, <2>3, <2>4 DEF Settled
  <2>6. QueuesSame
    BY <1>1, <2>5, EsSettled
  <2>7. CASE root[q] = SIGNALED /\ pc' = "bc_clear" /\ fr' = f
    <3>1. Doing("take", q)'
      BY <2>3, <2>7, CallAt DEF Doing
    <3>2. Range(Chain(q)) = {} /\ Credit(q) = 1
      BY <2>7, RootCredit
    <3> QED  BY <1>2, <1>3, <2>6, <3>1, <3>2, EsBegin
  <2>8. CASE root[q] \notin {SIGNALED, <<>>} /\ pc' = "pa_read" /\ fr' = f
    <3>1. Doing("broadcast", q)'
      BY <2>3, <2>8, CallAt DEF Doing
    <3>2. Range(Chain(q)) # {}
      BY <2>8, RootCredit
    <3> QED  BY <1>2, <1>3, <2>6, <3>1, <3>2, EsBegin
  <2>9. CASE pc' = l
    <3>1. CallSame
      BY <1>1, <2>9, CallAt DEF CallSame
    <3> QED  BY <1>3, <2>6, <3>1, EsElsewhere
  <2> QED  BY <2>4, <2>7, <2>8, <2>9
<1> QED
  BY <1>4, <1>5

\* NutThreadYield and NutSleep are none of EventSpec's operations.
LEMMA EsRests ==
    ASSUME IInv, NEW t \in Thread, YieldCall(t) \/ NutSleep(t)
    PROVE  ES!Next
<1>1. /\ root' = root /\ td_qpec' = td_qpec /\ pc = "user" /\ pc' \in {"yield", "scan", "user"}
      /\ runningThread = t
  BY DEF YieldCall, NutSleep, kernel, Goto, Running
<1>2. QueuesSame
  BY <1>1, EsSettled DEF Settled
<1>3. CallSame
  BY <1>1, CallAt DEF CallSame
<1>4. WaitsSame
  <2>1. CASE YieldCall(t)
    BY <2>1, WaitsKept DEF YieldCall, kernel, Locals
  <2>2. CASE NutSleep(t)
    <3>1. td_queue[t] = RunQueue /\ cont[t] = "return" /\ t \in All
      BY <1>1, EsTypes DEF IInv, Control, InResume
    <3>2. \E n, x : /\ n \in {NULL, RunQueue} /\ td_queue' = [td_queue EXCEPT ![t] = n]
                    /\ td_timer' = [td_timer EXCEPT ![t] = x]
      BY <2>2 DEF NutSleep
    <3>3. armed' \in {armed, armed \cup {t}} /\ cont' \in {cont, [cont EXCEPT ![t] = "return"]}
      BY <2>2 DEF NutSleep
    <3>4. OthersWait(t) /\ armed' \subseteq Thread /\ armed \subseteq Thread
      BY <3>2, <3>3, EsTypes, OthersWaitKept
    <3>5. td_queue'[t] \notin Queue /\ cont'[t] = "return"
      BY <3>1, <3>2, <3>3, EsTypes
    <3>6. t \notin Limited /\ t \notin Limited'
      BY <3>1, <3>5, EsTypes DEF Limited
    <3>7. Outcome(t)' = Outcome(t)
      BY <3>1, <3>5 DEF Outcome
    <3> QED  BY <3>4, <3>6, <3>7, WaitsSameBut
  <2> QED  BY <2>1, <2>2
<1> QED
  BY <1>2, <1>3, <1>4, EsElsewhere

\* NutEventWaitNext discards a signaled state.
LEMMA EsWaitNext ==
    ASSUME IInv, NEW t \in Thread, NEW q \in Queue, NEW b \in BOOLEAN,
           NutEventWaitNext(t, q, b)
    PROVE  ES!Next
<1>1. /\ root' = [root EXCEPT ![q] = IF root[q] = SIGNALED THEN <<>> ELSE root[q]]
      /\ td_qpec' = td_qpec /\ pc' = "wait" /\ pc = "user"
      /\ fr' = [NoFrame EXCEPT !.q = q, !.ms = b]
      /\ UNCHANGED <<armed, td_queue, td_timer, cont>>
  BY DEF NutEventWaitNext, Goto, Running, Locals
<1>2. Settled /\ Settled' /\ \A p \in Queue : ~InFlight(p) /\ ~InFlight(p)'
  BY <1>1 DEF Settled, InFlight
<1>3. fr'.q = q
  BY <1>1, FreshFrame
<1>4. Doing("none", NULL) /\ Doing("next", q)' /\ WaitsSame
  <2>1. Doing("none", NULL)
    BY <1>1, CallAt DEF Doing
  <2>2. Doing("next", q)'
    <3>1. pc' = "wait"
      BY <1>1
    <3> QED  BY <1>3, <3>1, CallAt DEF Doing
  <2> QED  BY <1>1, <2>1, <2>2, WaitsKept
<1>5. CASE root[q] = SIGNALED
  <2>1. root' = [root EXCEPT ![q] = <<>>]
    BY <1>1, <1>5
  <2>2. /\ Apart(q) /\ Range(Chain(q)) = {} /\ Range(Chain(q))' = {} /\ Credit(q)' = 0
    BY <1>1, <1>2, <1>5, <2>1, ClearQueue
  <2> QED  BY <1>4, <2>2, EsDiscard
<1>6. CASE root[q] # SIGNALED
  <2>1. root' = root
    BY <1>1, <1>6, EsTypes
  <2>2. QueuesSame
    BY <1>1, <1>2, <2>1, EsSettled
  <2>3. Range(Chain(q)) = {} => Credit(q) = 0
    BY <1>6, RootCredit
  <2> QED  BY <1>4, <2>2, <2>3, EsDiscard DEF QueuesSame, Apart
<1> QED
  BY <1>5, <1>6

\* The calls of a thread up to the first critical section.
LEMMA EsCall ==
    ASSUME IInv, NEW t \in Thread, Yielding(t) \/ Keeping(t)
    PROVE  ES!Next
<1>1. ASSUME NEW q \in Queue, NEW b \in BOOLEAN, NutEventWait(t, q, b)
      PROVE  ES!Next
  BY <1>1, EsRead DEF NutEventWait, Running
<1>2. ASSUME NEW q \in Queue, NutEventTryWait(t, q)
      PROVE  ES!Next
  BY <1>2, EsRead DEF NutEventTryWait, Running
<1>3. TRUE \in BOOLEAN /\ FALSE \in BOOLEAN
  OBVIOUS
<1> QED
  BY <1>1, <1>2, <1>3, EsPosts, EsRests, EsWaitNext DEF Yielding, Keeping

\* Timers call back: NutEventTimeout only looks at the queue.
LEMMA EsTimers ==
    ASSUME IInv, NEW t \in Thread, NutThreadWake(t) \/ NutEventTimeout(t)
    PROVE  ES!Next
<1>1. /\ root' = root /\ td_qpec' = td_qpec /\ pc = "scan" /\ pc' \in {"scan", "to_unlink"}
      /\ t \in armed /\ t \in All
  BY EsTypes DEF NutThreadWake, NutEventTimeout, ScanDone, Goto
<1>2. QueuesSame
  BY <1>1, EsSettled DEF Settled
<1>3. CallSame
  BY <1>1, CallAt DEF CallSame
<1>4. WaitsSame
  <2>1. CASE NutThreadWake(t)
    <3>1. /\ td_queue[t] = NULL /\ armed' = armed \ {t} /\ cont' = cont
          /\ td_timer' = [td_timer EXCEPT ![t] = NULL]
          /\ td_queue' = [td_queue EXCEPT ![t] = RunQueue]
      BY <2>1 DEF NutThreadWake, MakeReady, Locals
    <3>2. cont[t] = "return"
      BY <1>1, <3>1 DEF IInv, Asleep
    <3>3. OthersWait(t)
      BY <3>1, EsTypes, OthersWaitKept
    <3>4. t \notin Limited /\ t \notin Limited' /\ Outcome(t)' = Outcome(t)
      BY <3>1, <3>2, EsTypes DEF Limited, Outcome
    <3> QED  BY <3>1, <3>3, <3>4, EsTypes, WaitsSameBut
  <2>2. CASE NutEventTimeout(t)
    <3>1. td_queue[t] # NULL /\ td_queue[t] # RunQueue
      BY <1>1, <2>2 DEF NutEventTimeout, IInv, Asleep
    <3>2. PICK q \in Queue : td_queue[t] = q
      BY <1>1, <3>1, EsTypes
    <3>3. t \in Range(Chain(q))
      BY <1>1, <3>2 DEF IInv, LinkedOnce, Moving
    <3>4. root[q] # SIGNALED
      BY <3>3, RootCredit
    <3>5. UNCHANGED <<armed, td_queue, td_timer, cont>>
      BY <2>2, <3>2, <3>4 DEF NutEventTimeout, FindByTimer, Locals
    <3> QED  BY <3>5, WaitsKept
  <2> QED  BY <2>1, <2>2
<1> QED
  BY <1>2, <1>3, <1>4, EsElsewhere

\* NutEventPostAsync looks at the queue.
LEMMA EsLook ==
    ASSUME IInv, InWait, PostRead
    PROVE  ES!Next
<1>1. /\ root' = root /\ td_qpec' = td_qpec /\ pc = "pa_read" /\ fr.q \in Queue
      /\ UNCHANGED <<armed, td_queue, td_timer, cont>>
  BY DEF IInv, Control, QueueLabels, PostRead, kernel, Locals
<1>2. WaitsSame
  BY <1>1, WaitsKept
<1>3. CASE root[fr.q] = SIGNALED
  <2>1. PostReturn(fr.ret)
    BY <1>3 DEF PostRead
  <2>2. Settled' /\ pc' = fr.ret
    BY <2>1, EsTypes, ReturnSettled
  <2>3. QueuesSame
    <3>1. ASSUME NEW p \in Queue, root[p] \notin {SIGNALED, <<>>}
          PROVE  InFlight(p)' <=> InFlight(p)
      <4>1. p # fr.q
        BY <1>3, <3>1
      <4> QED  BY <1>1, <2>2, <4>1 DEF InFlight, Settled
    <3> QED  BY <1>1, <3>1, EsQuiet
  <2>4. CASE fr.ret \in {"user", "yield"}
    <3>1. Doing("post", fr.q)
      BY <1>1, <2>4, CallAt DEF Doing
    <3>2. Doing("none", NULL)'
      BY <2>2, <2>4, CallAt DEF Doing
    <3>3. PICK q \in Queue : q = fr.q
      BY <1>1
    <3>4. Apart(q) /\ Range(Chain(q))' = {} /\ Range(Chain(q)) = {} /\ Credit(q)' = 1
      BY <1>3, <2>3, <3>3, RootCredit DEF QueuesSame, Apart
    <3> QED  BY <1>2, <3>1, <3>2, <3>3, <3>4, EsRemember
  <2>5. CASE fr.ret \in {"scan", "bc_loop"}
    <3>1. fr' = fr
      BY <2>1, <2>5 DEF PostReturn
    <3>2. CallSame
      BY <1>1, <2>2, <2>5, <3>1, CallAt DEF CallSame
    <3> QED  BY <1>2, <2>3, <3>2, EsElsewhere
  <2> QED  BY <2>4, <2>5, EsTypes
<1>4. CASE root[fr.q] = <<>>
  <2>1. pc' = "pa_signal" /\ fr' = fr
    BY <1>4, NotSignaled DEF PostRead, Goto
  <2>2. ASSUME NEW p \in Queue, root[p] \notin {SIGNALED, <<>>}
        PROVE  InFlight(p)' <=> InFlight(p)
    BY <1>4, <2>1, <2>2 DEF InFlight
  <2>3. QueuesSame
    BY <1>1, <2>2, EsQuiet
  <2>4. fr.ret \in {"user", "yield"}
    BY <1>1, <1>4, EsTypes DEF InWait
  <2>5. CallSame
    BY <1>1, <2>1, <2>4, CallAt DEF CallSame
  <2> QED  BY <1>2, <2>3, <2>5, EsElsewhere
<1>5. CASE root[fr.q] \notin {SIGNALED, <<>>}
  <2>1. pc' = "pa_pop" /\ fr' = fr
    BY <1>5 DEF PostRead, Goto
  <2>2. \A p \in Queue : InFlight(p)' <=> InFlight(p)
    BY <1>1, <2>1 DEF InFlight
  <2>3. QueuesSame
    BY <1>1, <2>2, EsQuiet
  <2>4. CallSame
    BY <1>1, <2>1, EsTypes, CallAt DEF CallSame
  <2> QED  BY <1>2, <2>3, <2>4, EsElsewhere
<1> QED
  BY <1>3, <1>4, <1>5

\* NutEventBroadcastAsync goes on or ends.
LEMMA EsLoop ==
    ASSUME IInv, BroadcastLoop
    PROVE  ES!Next
<1>1. /\ root' = root /\ td_qpec' = td_qpec /\ pc = "bc_loop" /\ fr.ret = "bc_loop"
      /\ UNCHANGED <<armed, td_queue, td_timer, cont>>
  BY DEF IInv, Control, BroadcastLoop, kernel, Locals
<1>2. PICK q \in Queue : q = fr.q
  BY <1>1 DEF IInv, Control, QueueLabels
<1>3. \/ pc' = "pa_read" /\ fr' = fr
      \/ PostReturn(fr.bret) /\ root[q] \in {SIGNALED, <<>>}
  BY <1>2 DEF BroadcastLoop, BroadcastReturn, Goto
<1>4. Settled /\ Settled'
  BY <1>1, <1>3, EsTypes, ReturnSettled DEF Settled
<1>5. QueuesSame /\ WaitsSame
  BY <1>1, <1>4, EsSettled, WaitsKept
<1>6. Doing("broadcast", q)
  BY <1>1, <1>2, CallAt DEF Doing
<1>7. CASE pc' = "pa_read" /\ fr' = fr
  <2>1. CallSame
    BY <1>1, <1>7, CallAt DEF CallSame
  <2> QED  BY <1>5, <2>1, EsElsewhere
<1>8. CASE PostReturn(fr.bret) /\ root[q] \in {SIGNALED, <<>>}
  <2>1. pc' \in {"user", "yield"}
    BY <1>8, EsTypes, ReturnSettled
  <2>2. Doing("none", NULL)'
    BY <2>1, CallAt DEF Doing
  <2>3. Range(Chain(q)) = {}
    BY <1>8, RootCredit
  <2> QED  BY <1>5, <1>6, <2>2, <2>3, EsEndBroadcast
<1> QED
  BY <1>3, <1>7, <1>8

\* A signaled state is consumed, discarded by a broadcast, or set.
LEMMA EsRoot ==
    ASSUME IInv, InWait, TryWaitClear \/ BroadcastClear \/ PostSignal
    PROVE  ES!Next
<1>1. /\ td_qpec' = td_qpec /\ pc \in {"tw_clear", "bc_clear", "pa_signal"}
      /\ UNCHANGED <<armed, td_queue, td_timer, cont>>
  BY DEF TryWaitClear, BroadcastClear, PostSignal, Locals
<1>2. PICK q \in Queue : q = fr.q
  BY <1>1 DEF IInv, Control, QueueLabels
<1>3. pc' \in {"user", "yield"}
  <2>1. CASE TryWaitClear
    BY <2>1 DEF TryWaitClear, Goto
  <2>2. CASE BroadcastClear
    BY <2>2, EsTypes, ReturnSettled DEF BroadcastClear, BroadcastReturn
  <2>3. CASE PostSignal
    <3>1. fr.ret \in {"user", "yield"}
      BY <2>3 DEF PostSignal, InWait
    <3> QED  BY <2>3, <3>1, ReturnSettled DEF PostSignal
  <2> QED  BY <2>1, <2>2, <2>3
<1>4. \A p \in Queue : ~InFlight(p) /\ ~InFlight(p)'
  BY <1>1, <1>3 DEF InFlight
<1>5. WaitsSame /\ Doing("none", NULL)'
  <2>1. Doing("none", NULL)'
    BY <1>3, CallAt DEF Doing
  <2> QED  BY <1>1, <2>1, WaitsKept
<1>6. CASE TryWaitClear \/ BroadcastClear
  <2>1. /\ root[q] = SIGNALED /\ root' = [root EXCEPT ![q] = <<>>]
        /\ pc \in {"tw_clear", "bc_clear"}
    BY <1>2, <1>6 DEF IInv, Control, TryWaitClear, BroadcastClear
  <2>2. Apart(q) /\ Range(Chain(q))' = Range(Chain(q)) /\ Credit(q)' = 0
    BY <1>1, <1>4, <2>1, ClearQueue
  <2>3. Doing("take", q)
    BY <1>2, <2>1, CallAt DEF Doing
  <2> QED  BY <1>5, <2>2, <2>3, EsTake
<1>7. CASE PostSignal
  <2>1. /\ root[q] \in {SIGNALED, <<>>} /\ root' = [root EXCEPT ![q] = SIGNALED]
        /\ pc = "pa_signal" /\ fr.ret \in {"user", "yield"}
    BY <1>2, <1>7 DEF IInv, Control, PostSignal, InWait
  <2>2. Apart(q) /\ Range(Chain(q)) = {} /\ Range(Chain(q))' = {} /\ Credit(q)' = 1
    BY <1>1, <1>4, <2>1, SignalQueue
  <2>3. Doing("post", q)
    BY <1>2, <2>1, CallAt DEF Doing
  <2> QED  BY <1>5, <2>2, <2>3, EsRemember
<1> QED
  BY <1>6, <1>7

\* Scheduling: the run queue, the scan of NutThreadResume and the idle loop.
LEMMA EsSchedule ==
    ASSUME IInv, NutThreadYield \/ ResumeScan \/ IdleCheck \/ IdleWake
    PROVE  ES!Next
<1>1. /\ root' = root /\ td_qpec' = td_qpec
      /\ pc \in {"yield", "scan", "user", "wfi"} /\ pc' \in {"scan", "deliver", "yield", "wfi"}
  BY DEF NutThreadYield, ResumeScan, IdleCheck, IdleWake, kernel, Running, Goto
<1>2. QueuesSame
  BY <1>1, EsSettled DEF Settled
<1>3. CallSame
  BY <1>1, CallAt DEF CallSame
<1>4. UNCHANGED <<armed, td_queue, td_timer, cont>>
  <2>1. CASE NutThreadYield
    <3>1. /\ pc = "yield" /\ UNCHANGED <<armed, td_queue, td_timer>>
          /\ cont' = [cont EXCEPT ![runningThread] = "return"]
      BY <2>1 DEF NutThreadYield
    <3>2. cont[runningThread] = "return"
      BY <3>1 DEF IInv, Control, InResume
    <3> QED  BY <3>1, <3>2, EsTypes
  <2>2. CASE ResumeScan \/ IdleCheck \/ IdleWake
    BY <2>2 DEF ResumeScan, IdleCheck, IdleWake, kernel, Locals
  <2> QED  BY <2>1, <2>2
<1> QED
  BY <1>2, <1>3, <1>4, WaitsKept, EsElsewhere

\* NutEventWait returns in the context of the thread on top of the run queue.
LEMMA EsSwitch ==
    ASSUME IInv, NutThreadSwitch
    PROVE  ES!Next
<1>1. PICK n \in All : n = Head(runQueue) /\ td_queue[n] = RunQueue
  BY NextRuns
<1>2. /\ root' = root /\ td_qpec' = td_qpec /\ pc = "scan" /\ pc' = "user"
      /\ UNCHANGED <<armed, td_queue>> /\ cont' = [cont EXCEPT ![n] = "return"]
      /\ \E x : td_timer' = [td_timer EXCEPT ![n] = x]
  BY <1>1 DEF NutThreadSwitch, ScanDone, Return
<1>3. QueuesSame
  BY <1>2, EsSettled DEF Settled
<1>4. CallSame
  BY <1>2, CallAt DEF CallSame
<1>5. Limited' = Limited
  BY <1>2 DEF Limited
<1>6. \A x \in Thread \ {n} : Outcome(x)' = Outcome(x)
  BY <1>2, EsTypes, OthersWaitKept DEF OthersWait
<1>7. Outcome(n)' = NULL
  <2>1. cont'[n] = "return"
    BY <1>2, EsTypes
  <2> QED  BY <2>1 DEF Outcome
<1>8. CASE n \in Thread
  BY <1>3, <1>4, <1>5, <1>6, <1>7, <1>8, EsReturn
<1>9. CASE n \notin Thread
  BY <1>3, <1>4, <1>5, <1>6, <1>9, EsElsewhere DEF WaitsSame
<1> QED
  BY <1>8, <1>9

\* The look at the queue after a signaled state was discarded.
LEMMA EsNextRead ==
    ASSUME IInv, WaitNextRead
    PROVE  ES!Next
<1>1. /\ pc = "wait" /\ fr.q \in Queue /\ fr.ms \in BOOLEAN /\ ReadRoot(fr.q, fr.ms, TRUE)
      /\ UNCHANGED <<kernel, Locals>>
  BY DEF IInv, TypeOK, FrameType, Control, QueueLabels, WaitNextRead
<1>2. PICK q \in Queue, ms \in BOOLEAN : q = fr.q /\ ReadRoot(q, ms, TRUE)
  BY <1>1
<1> QED
  BY <1>1, <1>2, EsRead

\* Every step is an operation of EventSpec or leaves its state alone.
LEMMA NextImplements ==
    ASSUME IInv, InWait, [Next]_vars
    PROVE  ES!Next \/ UNCHANGED ES!vars
<1>1. CASE UNCHANGED vars
  <2>1. /\ root' = root /\ td_qpec' = td_qpec /\ \A q \in Queue : InFlight(q)' <=> InFlight(q)
        /\ UNCHANGED <<armed, td_queue, td_timer, cont, pc, fr>>
    BY <1>1 DEF vars, kernel, InFlight
  <2>2. CallSame
    BY <2>1 DEF CallSame
  <2> QED  BY <2>1, <2>2, EsQuiet, WaitsKept, EsElsewhere
<1>2. CASE Kernel
  BY <1>2, EsSchedule, EsSwitch, EsNextRead, EsRoot, EsLook, EsLoop, EsAdd, EsInsert, EsPop,
     EsDeliver, EsTimeout DEF Kernel
<1> QED
  BY <1>1, <1>2, EsCall, EsTimers, EsIrq DEF Next, Timers

(***************************************************************************)
(* The event queues of event.c and thread.c, with their critical sections, *)
(* the interrupts between them and the counters NutThreadResume delivers   *)
(* from, are queues with atomic operations: credit for an event comes from *)
(* an interrupt or an unanswered post, is not lost when a thread enters or *)
(* leaves the queue, and wakes one most urgent waiter per event; a waiter  *)
(* leaves without an event only when its time limit has passed.            *)
(***************************************************************************)
THEOREM EventImplementsEventSpec == Spec => ImplementsEventSpec
<1>1. Init => ES!Init /\ InWait
  <2> SUFFICES ASSUME Init PROVE ES!Init /\ InWait
    OBVIOUS
  <2>1. /\ \A q \in Queue : root[q] = <<>>
        /\ \A t \in All : td_queue[t] = RunQueue /\ cont[t] = "return"
        /\ armed = {} /\ pc = "user" /\ Thread \subseteq All /\ RunQueue \notin Queue
    BY ThreadsAssumption DEF Init, All
  <2>2. \A q \in Queue : Range(Chain(q)) = {} /\ Credit(q) = 0
    BY <2>1, NotSignaled, EmptyChain DEF Chain, Credit
  <2>3. /\ [q \in Queue |-> Range(Chain(q))] = [q \in Queue |-> {}]
        /\ [q \in Queue |-> Credit(q)] = [q \in Queue |-> 0]
    BY <2>2
  <2>4. [t \in Thread |-> Outcome(t)] = [t \in Thread |-> NULL] /\ Limited = {}
    BY <2>1 DEF Outcome, Limited
  <2>5. Doing("none", NULL)
    BY <2>1, CallAt DEF Doing
  <2>6. InWait
    BY <2>1 DEF InWait
  <2> QED  BY <2>3, <2>4, <2>5, <2>6 DEF ES!Init, ES!NoCall, ES!Call, Doing
<1>2. IInv /\ InWait /\ [Next]_vars => InWait'
  BY NextInWait
<1>3. IInv /\ InWait /\ [Next]_vars => [ES!Next]_(ES!vars)
  BY NextImplements
<1> QED
  BY <1>1, <1>2, <1>3, IInvAlways, PTL DEF Spec, ImplementsEventSpec, ES!Spec
=============================================================================
