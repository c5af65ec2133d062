------------------------------ MODULE NutEvent ------------------------------
(***************************************************************************)
(* The event and scheduling core of Nut/OS (os/event.c, os/thread.c and    *)
(* the idle loop of arch/cm3/os/nutinit.c) at the granularity of its       *)
(* critical sections.  One CPU executes the running thread; an interrupt   *)
(* handler may run NutEventPostFromIrq between any two critical sections,  *)
(* so every action below is one access to the state that interrupts share  *)
(* (the queue roots, td_qpec and total_pending) plus the private work the  *)
(* code does up to the next such access.                                   *)
(*                                                                         *)
(* Threads switch cooperatively: `pc' and `fr' are the control point and   *)
(* the locals of the code the CPU executes now, cont[t] is where a thread  *)
(* that gave up the CPU inside NutThreadResume goes on.                    *)
(*                                                                         *)
(* Timers are abstract: any armed timer may be found elapsed whenever      *)
(* NutTimerProcessElapsed runs (module NutTimer has the timer list).       *)
(* td_state is left out: it is written for debug listings only.            *)
(***************************************************************************)
EXTENDS NutThreadQueue, Integers, FiniteSets

CONSTANTS
    Thread,      \* application threads
    Idle,        \* the idle thread
    Queue,       \* event queues (HANDLE variables)
    Prio,        \* td_priority of every thread
    ThreadList,  \* nutThreadList, a sequence of all threads
    SIGNALED,    \* the root of a signaled queue, an elapsed td_timer
    NULL,
    HeapExhausts,\* may NutTimerStart fail for lack of memory?
    MaxPending   \* bound on total_pending

All == Thread \cup {Idle}
RunQueue == "runQueue"

ASSUME ThreadsAssumption ==
    /\ IsFiniteSet(Thread) /\ Idle \notin Thread
    /\ NULL \notin Queue
    /\ RunQueue \notin Queue
    /\ NULL \notin {RunQueue, SIGNALED, "handle"} /\ SIGNALED # "handle"
    /\ SIGNALED \notin Seq(Thread)
    /\ ThreadList \in Seq(All)
    /\ \A t \in All : \E i \in 1..Len(ThreadList) : ThreadList[i] = t

ASSUME PrioAssumption ==
    /\ Prio \in [All -> 0..254]
    /\ Prio[Idle] = 254

ASSUME BoundAssumption == MaxPending \in Nat /\ HeapExhausts \in BOOLEAN

VARIABLES
    root,           \* root[q]: SIGNALED, or the chain of waiting threads
    runQueue,       \* the threads that are ready to run
    runningThread,
    td_qpec,        \* pending event counter
    td_queue,       \* the queue a thread is linked in
    td_timer,       \* 0, "handle" or SIGNALED
    total_pending,
    armed,          \* threads whose timeout timer object exists and will call back
    cont,           \* where a thread continues after NutThreadResume
    woken,          \* history: what ended a thread's current wait
    timed,          \* history: has that wait a time limit?
    pc, fr          \* control point and locals of the running code

kernel == <<root, runQueue, runningThread, td_qpec, td_queue, td_timer,
            total_pending, armed>>
vars == <<kernel, cont, woken, timed, pc, fr>>

\* Locals: the queue operated on, the time-out flag, where NutEventPostAsync
\* and NutEventBroadcastAsync return to, the position of NutThreadResume in
\* nutThreadList and the thread whose timer elapsed.
Frame(first) == [q |-> NULL, ms |-> FALSE, ret |-> "user", bret |-> "user",
                 scan |-> first, td |-> NULL]

\* Mutant: NutThreadResume starts behind the first entry of nutThreadList.
NoFrame_SkipsFirst == Frame(2)

NoFrame == Frame(1)

Init ==
    /\ root = [q \in Queue |-> <<>>]
    /\ \E s \in SetToSeqs(All) :
          /\ PriOrdered(s, Prio)
          /\ s[Len(s)] = Idle
          /\ runQueue = s
    /\ runningThread = Head(runQueue)
    /\ td_qpec = [t \in All |-> 0]
    /\ td_queue = [t \in All |-> RunQueue]
    /\ td_timer = [t \in All |-> NULL]
    /\ total_pending = 0
    /\ armed = {}
    /\ cont = [t \in All |-> "return"]
    /\ woken = [t \in All |-> NULL]
    /\ timed = [t \in All |-> FALSE]
    /\ pc = "user"
    /\ fr = NoFrame

-----------------------------------------------------------------------------
(* Pieces of kernel state changes.                                         *)

\* Append td to the run queue (NutThreadAddPriQueue(td, &runQueue)).
MakeReady(td) ==
    /\ runQueue' = AddPriQueue(runQueue, td, Prio)
    /\ td_queue' = [td_queue EXCEPT ![td] = RunQueue]

\* Mutant: the last thread leaves and takes its pending events with it.
RootAfter_DropsEvents(s, i, n) == RemoveAt(s, i)

\* What the unlinking of s[i], on which n events are pending, leaves behind:
\* the link that pointed to the last thread of the chain becomes SIGNALED.
RootAfter(s, i, n) ==
    IF n = 0 \/ i < Len(s) THEN RemoveAt(s, i)
    ELSE IF i = 1 THEN SIGNALED
    ELSE Append(RemoveAt(s, i), SIGNALED)

\* Mutant: the count is handed on but not cleared on the leaving thread.
QpecAfter_NotCleared(s, i, n) ==
    [t \in All |-> IF n > 0 /\ i < Len(s) /\ t = s[i + 1] THEN n ELSE td_qpec[t]]

\* The events pending on s[i] move to the thread behind it.
QpecAfter(s, i, n) ==
    [t \in All |-> IF t = s[i] THEN 0
                   ELSE IF n > 0 /\ i < Len(s) /\ t = s[i + 1] THEN n
                   ELSE td_qpec[t]]

\* Unlink td from the chain of queue q.
Unlink(q, td) ==
    LET s == root[q]
        i == CHOOSE k \in 1..Len(s) : s[k] = td
        n == td_qpec[td]
    IN  /\ root' = [root EXCEPT ![q] = RootAfter(s, i, n)]
        /\ td_qpec' = QpecAfter(s, i, n)

\* Mutant: the timeout timer of a thread that received its event keeps running.
StopTimer_Forgets(td) == armed' = armed /\ td_timer' = [td_timer EXCEPT ![td] = NULL]

\* NutTimerStop on the timeout timer of td, if it has one.
StopTimer(td) ==
    /\ armed' = IF td_timer[td] # NULL THEN armed \ {td} ELSE armed
    /\ td_timer' = [td_timer EXCEPT ![td] = NULL]

\* Mutant: only the thread's own counter is incremented.
Pend_NotCounted(td) ==
    /\ td_qpec' = [td_qpec EXCEPT ![td] = @ + 1]
    /\ UNCHANGED total_pending

\* An interrupt leaves an event with the first waiting thread.
Pend(td) ==
    /\ td_qpec' = [td_qpec EXCEPT ![td] = @ + 1]
    /\ total_pending' = total_pending + 1

Goto(l) == pc' = l

\* Control reaches the application code of the running thread again.
Return == pc' = "user" /\ fr' = NoFrame

Locals == <<cont, woken, timed>>

-----------------------------------------------------------------------------
(* NutEventTryWait, NutEventWait, NutEventWaitNext                         *)

Running(t) == pc = "user" /\ runningThread = t

\* The read of the root at the top of NutEventTryWait.
ReadRoot(q, ms, wait) ==
    IF root[q] = SIGNALED
      THEN Goto("tw_clear") /\ fr' = [NoFrame EXCEPT !.q = q]
    ELSE IF wait
      THEN Goto("w_add") /\ fr' = [NoFrame EXCEPT !.q = q, !.ms = ms]
      ELSE Return

NutEventTryWait(t, q) ==
    /\ Running(t)
    /\ ReadRoot(q, FALSE, FALSE)
    /\ UNCHANGED <<kernel, Locals>>

NutEventWait(t, q, ms) ==
    /\ Running(t)
    /\ ReadRoot(q, ms, TRUE)
    /\ UNCHANGED <<kernel, Locals>>

\* NutEventWaitNext forgets a signaled state, then calls NutEventWait.
NutEventWaitNext(t, q, ms) ==
    /\ Running(t)
    /\ root' = [root EXCEPT ![q] = IF @ = SIGNALED THEN <<>> ELSE @]
    /\ Goto("wait") /\ fr' = [NoFrame EXCEPT !.q = q, !.ms = ms]
    /\ UNCHANGED <<runQueue, runningThread, td_qpec, td_queue, td_timer,
                   total_pending, armed, Locals>>

WaitNextRead ==
    /\ pc = "wait"
    /\ ReadRoot(fr.q, fr.ms, TRUE)
    /\ UNCHANGED <<kernel, Locals>>

\* A signaled queue: clear it, yield and return 0.
TryWaitClear ==
    /\ pc = "tw_clear"
    /\ root' = [root EXCEPT ![fr.q] = <<>>]
    /\ Goto("yield") /\ fr' = NoFrame
    /\ UNCHANGED <<runQueue, runningThread, td_qpec, td_queue, td_timer,
                   total_pending, armed, Locals>>

\* The end of NutEventWait: start the timer (unless the heap is exhausted)
\* and give up the CPU.
FallAsleep(t) ==
    /\ \/ /\ fr.ms
          /\ armed' = armed \cup {t}
          /\ td_timer' = [td_timer EXCEPT ![t] = "handle"]
       \/ /\ ~fr.ms \/ HeapExhausts
          /\ armed' = armed
          /\ td_timer' = [td_timer EXCEPT ![t] = NULL]
    /\ cont' = [cont EXCEPT ![t] = "wait"]
    /\ timed' = [timed EXCEPT ![t] = fr.ms]
    /\ Goto("scan") /\ fr' = NoFrame

\* NutThreadRemoveQueue(runningThread, &runQueue), then the first critical
\* section of NutThreadAddPriQueue.
WaitAdd ==
    LET t == runningThread
        s == root[fr.q]
    IN  /\ pc = "w_add"
        /\ runQueue' = RemoveQueue(runQueue, t)
        /\ td_queue' = [td_queue EXCEPT ![t] = fr.q]
        /\ IF s = SIGNALED
             THEN /\ td_qpec' = [td_qpec EXCEPT ![t] = 1]
                  /\ total_pending' = total_pending + 1
             ELSE /\ td_qpec' = [td_qpec EXCEPT ![t] = 0]
                  /\ UNCHANGED total_pending
        /\ IF s = SIGNALED \/ s = <<>>
             THEN root' = [root EXCEPT ![fr.q] = <<t>>] /\ FallAsleep(t)
             ELSE /\ Goto("w_insert")
                  /\ UNCHANGED <<root, armed, td_timer, cont, timed, fr>>
        /\ UNCHANGED <<runningThread, woken>>

\* The second critical section: link the thread in behind the threads it
\* walked past and take over the events pending on the one it precedes.
WaitInsert ==
    LET t == runningThread
        s == root[fr.q]
        i == WalkPriQueue(s, t, Prio)
        n == IF i < Len(s) THEN td_qpec[s[i + 1]] ELSE 0
    IN  /\ pc = "w_insert"
        /\ root' = [root EXCEPT ![fr.q] = AddPriQueue(s, t, Prio)]
        /\ td_qpec' = [x \in All |->
                         IF x = t THEN td_qpec[t] + n
                         ELSE IF i < Len(s) /\ x = s[i + 1] THEN 0
                         ELSE td_qpec[x]]
        /\ FallAsleep(t)
        /\ UNCHANGED <<runQueue, runningThread, td_queue, total_pending, woken>>

-----------------------------------------------------------------------------
(* NutEventPostAsync and its callers                                       *)

\* Control points after a NutEventPostAsync that was called from l.
PostReturn(l) ==
    IF l = "user" THEN Return
    ELSE /\ Goto(l)
         /\ fr' = IF l = "yield" THEN NoFrame ELSE fr

NutEventPostAsync(t, q) ==
    /\ Running(t)
    /\ Goto("pa_read") /\ fr' = [NoFrame EXCEPT !.q = q]
    /\ UNCHANGED <<kernel, Locals>>

NutEventPost(t, q) ==
    /\ Running(t)
    /\ Goto("pa_read") /\ fr' = [NoFrame EXCEPT !.q = q, !.ret = "yield"]
    /\ UNCHANGED <<kernel, Locals>>

PostRead ==
    /\ pc = "pa_read"
    /\ IF root[fr.q] = SIGNALED THEN PostReturn(fr.ret)
       ELSE IF root[fr.q] # <<>> THEN Goto("pa_pop") /\ UNCHANGED fr
       ELSE Goto("pa_signal") /\ UNCHANGED fr
    /\ UNCHANGED <<kernel, Locals>>

\* Wake up the first thread: unlink it, stop its timer, make it ready.
PostPop ==
    LET td == Head(root[fr.q])
    IN  /\ pc = "pa_pop"
        /\ Unlink(fr.q, td)
        /\ StopTimer(td)
        /\ MakeReady(td)
        /\ woken' = [woken EXCEPT ![td] = "event"]
        /\ PostReturn(fr.ret)
        /\ UNCHANGED <<runningThread, total_pending, cont, timed>>

PostSignal ==
    /\ pc = "pa_signal"
    /\ root' = [root EXCEPT ![fr.q] = SIGNALED]
    /\ PostReturn(fr.ret)
    /\ UNCHANGED <<runQueue, runningThread, td_qpec, td_queue, td_timer,
                   total_pending, armed, Locals>>

BroadcastReturn == PostReturn(fr.bret)

\* NutEventBroadcastAsync (yields = FALSE) and NutEventBroadcast.
NutEventBroadcast(t, q, yields) ==
    /\ Running(t)
    /\ LET b == IF yields THEN "yield" ELSE "user"
           f == [NoFrame EXCEPT !.q = q, !.ret = "bc_loop", !.bret = b]
       IN  IF root[q] = SIGNALED THEN Goto("bc_clear") /\ fr' = f
           ELSE IF root[q] # <<>> THEN Goto("pa_read") /\ fr' = f
           ELSE Goto(b) /\ fr' = NoFrame
    /\ UNCHANGED <<kernel, Locals>>

BroadcastClear ==
    /\ pc = "bc_clear"
    /\ root' = [root EXCEPT ![fr.q] = <<>>]
    /\ BroadcastReturn
    /\ UNCHANGED <<runQueue, runningThread, td_qpec, td_queue, td_timer,
                   total_pending, armed, Locals>>

BroadcastLoop ==
    /\ pc = "bc_loop"
    /\ IF root[fr.q] # <<>> /\ root[fr.q] # SIGNALED
         THEN Goto("pa_read") /\ UNCHANGED fr
         ELSE BroadcastReturn
    /\ UNCHANGED <<kernel, Locals>>

-----------------------------------------------------------------------------
(* NutThreadYield, NutSleep, NutThreadResume                               *)

YieldCall(t) ==
    /\ Running(t)
    /\ Goto("yield") /\ fr' = NoFrame
    /\ UNCHANGED <<kernel, Locals>>

\* Requeue the running thread behind its equals; the last thread stays.
NutThreadYield ==
    LET t == runningThread
    IN  /\ pc = "yield"
        /\ runQueue' = IF Last(runQueue) # t
                         THEN AddPriQueue(RemoveQueue(runQueue, t), t, Prio)
                         ELSE runQueue
        /\ cont' = [cont EXCEPT ![t] = "return"]
        /\ Goto("scan") /\ fr' = NoFrame
        /\ UNCHANGED <<root, runningThread, td_qpec, td_queue, td_timer,
                       total_pending, armed, woken, timed>>

\* NutSleep(ms) with ms # 0.  When no timer can be created the thread goes
\* to the front of the run queue and keeps the CPU.
NutSleep(t) ==
    /\ Running(t)
    /\ \/ /\ runQueue' = RemoveQueue(runQueue, t)
          /\ td_queue' = [td_queue EXCEPT ![t] = NULL]
          /\ td_timer' = [td_timer EXCEPT ![t] = "handle"]
          /\ armed' = armed \cup {t}
          /\ cont' = [cont EXCEPT ![t] = "return"]
          /\ Goto("scan") /\ fr' = NoFrame
       \/ /\ HeapExhausts
          /\ runQueue' = <<t>> \o RemoveQueue(runQueue, t)
          /\ td_queue' = [td_queue EXCEPT ![t] = RunQueue]
          /\ td_timer' = [td_timer EXCEPT ![t] = NULL]
          /\ UNCHANGED <<armed, cont, pc, fr>>
    /\ UNCHANGED <<root, runningThread, td_qpec, total_pending, woken, timed>>

\* One step along nutThreadList: does this thread carry pending events?
ResumeScan ==
    /\ pc = "scan" /\ fr.scan <= Len(ThreadList)
    /\ IF td_qpec[ThreadList[fr.scan]] > 0
         THEN Goto("deliver") /\ UNCHANGED fr
         ELSE UNCHANGED pc /\ fr' = [fr EXCEPT !.scan = @ + 1]
    /\ UNCHANGED <<kernel, Locals>>

\* Take one pending event and post it to the queue of the thread.
ResumeDeliver ==
    LET td == ThreadList[fr.scan]
        q  == td_queue[td]
    IN  /\ pc = "deliver"
        /\ td_qpec' = [td_qpec EXCEPT ![td] = @ - 1]
        /\ total_pending' = total_pending - 1
        /\ IF root[q] # SIGNALED
             THEN /\ Goto("pa_read")
                  /\ fr' = [fr EXCEPT !.q = q, !.ret = "scan", !.scan = @ + 1]
             ELSE Goto("scan") /\ fr' = [fr EXCEPT !.scan = @ + 1]
        /\ UNCHANGED <<root, runQueue, runningThread, td_queue, td_timer, armed,
                       Locals>>

ScanDone == pc = "scan" /\ fr.scan = Len(ThreadList) + 1

\* NutTimerProcessElapsed calls back NutThreadWake for a sleeping thread.
NutThreadWake(t) ==
    /\ ScanDone /\ t \in armed /\ td_queue[t] = NULL
    /\ armed' = armed \ {t}
    /\ td_timer' = [td_timer EXCEPT ![t] = NULL]
    /\ MakeReady(t)
    /\ UNCHANGED <<root, runningThread, td_qpec, total_pending, Locals, pc, fr>>

\* Mutant: only the first thread of the queue is compared with the timer.
FindByTimer_HeadOnly(t) ==
    root[td_queue[t]] # SIGNALED /\ Head(root[td_queue[t]]) = t

\* Does the walk along the queue find the thread that the timer belongs to?
FindByTimer(t) == root[td_queue[t]] # SIGNALED

\* NutTimerProcessElapsed calls back NutEventTimeout, which reads the root.
NutEventTimeout(t) ==
    /\ ScanDone /\ t \in armed /\ td_queue[t] # NULL
    /\ IF FindByTimer(t)
         THEN /\ Goto("to_unlink") /\ fr' = [fr EXCEPT !.td = t]
              /\ UNCHANGED armed
         ELSE armed' = armed \ {t} /\ UNCHANGED <<pc, fr>>
    /\ UNCHANGED <<root, runQueue, runningThread, td_qpec, td_queue, td_timer,
                   total_pending, Locals>>

\* It finds the thread by its timer handle, unlinks it and marks the handle;
\* the timer object is released when the callback returns.
TimeoutUnlink ==
    LET t == fr.td
    IN  /\ pc = "to_unlink"
        /\ Unlink(td_queue[t], t)
        /\ MakeReady(t)
        /\ td_timer' = [td_timer EXCEPT ![t] = SIGNALED]
        /\ armed' = armed \ {t}
        /\ woken' = [woken EXCEPT ![t] = "timeout"]
        /\ Goto("scan") /\ fr' = [fr EXCEPT !.td = NULL]
        /\ UNCHANGED <<runningThread, total_pending, cont, timed>>

\* Mutant: a wait without a time limit counts as timed out.
WaitResult_NoTimer(t) == IF td_timer[t] = NULL THEN "timeout" ELSE "event"

\* The end of NutEventWait: a signaled timer handle tells of a timeout.
WaitResult(t) == IF td_timer[t] = SIGNALED THEN "timeout" ELSE "event"

\* Leave NutThreadResume, in the context of the thread on top of the run
\* queue.  A thread inside NutEventWait clears a signaled timer handle and
\* returns its WaitResult.
NutThreadSwitch ==
    LET n == Head(runQueue)
    IN  /\ ScanDone
        /\ runningThread' = n
        /\ td_timer' = [td_timer EXCEPT ![n] =
                          IF cont[n] = "wait" /\ @ = SIGNALED THEN NULL ELSE @]
        /\ cont' = [cont EXCEPT ![n] = "return"]
        /\ woken' = [woken EXCEPT ![n] = NULL]
        /\ timed' = [timed EXCEPT ![n] = FALSE]
        /\ Return
        /\ UNCHANGED <<root, runQueue, td_qpec, td_queue, total_pending, armed>>

\* The idle loop: sleep until the next interrupt if nothing is pending.
IdleCheck ==
    /\ Running(Idle)
    /\ Goto(IF total_pending = 0 THEN "wfi" ELSE "yield")
    /\ UNCHANGED <<kernel, Locals, fr>>

\* An interrupt, at the latest the next timer tick, ends the __WFI.
IdleWake ==
    /\ pc = "wfi"
    /\ Goto("yield")
    /\ UNCHANGED <<kernel, Locals, fr>>

-----------------------------------------------------------------------------
\* An interrupt handler posts to q; total_pending is bounded by MaxPending.
NutEventPostFromIrq(q) ==
    /\ \/ /\ root[q] = <<>>
          /\ root' = [root EXCEPT ![q] = SIGNALED]
          /\ UNCHANGED <<td_qpec, total_pending>>
       \/ /\ root[q] \notin {SIGNALED, <<>>}
          /\ total_pending < MaxPending
          /\ Pend(Head(root[q]))
          /\ UNCHANGED root
    /\ UNCHANGED <<runQueue, runningThread, td_queue, td_timer, armed, Locals,
                   pc, fr>>

\* Calls by which a thread gives up the CPU, and those by which it keeps it.
Yielding(t) ==
    \/ YieldCall(t)
    \/ NutSleep(t)
    \/ \E q \in Queue :
         \/ NutEventPost(t, q)
         \/ NutEventBroadcast(t, q, TRUE)
         \/ \E ms \in BOOLEAN : NutEventWait(t, q, ms) \/ NutEventWaitNext(t, q, ms)

Keeping(t) ==
    \E q \in Queue :
       \/ NutEventTryWait(t, q)
       \/ NutEventPostAsync(t, q)
       \/ NutEventBroadcast(t, q, FALSE)

Timers == \E t \in Thread : NutThreadWake(t) \/ NutEventTimeout(t)

Kernel ==
    \/ WaitNextRead \/ TryWaitClear \/ WaitAdd \/ WaitInsert
    \/ PostRead \/ PostPop \/ PostSignal
    \/ BroadcastClear \/ BroadcastLoop
    \/ NutThreadYield \/ ResumeScan \/ ResumeDeliver \/ TimeoutUnlink
    \/ NutThreadSwitch
    \/ IdleCheck \/ IdleWake

Next ==
    \/ \E t \in Thread : Yielding(t) \/ Keeping(t)
    \/ Timers
    \/ Kernel
    \/ \E q \in Queue : NutEventPostFromIrq(q)

Spec == Init /\ [][Next]_vars

(***************************************************************************)
(* Fairness.  The CPU keeps executing (weak fairness of every kernel       *)
(* step).  Cooperative threads do not run for ever without a call that     *)
(* lets others run, and an armed timer is eventually found elapsed.        *)
(***************************************************************************)
Fairness ==
    /\ WF_vars(Kernel)
    /\ SF_vars(\E t \in Thread : Yielding(t))
    /\ \A t \in Thread : SF_vars(NutThreadWake(t)) /\ SF_vars(NutEventTimeout(t))

FairSpec == Spec /\ Fairness

-----------------------------------------------------------------------------
(* Properties                                                              *)

Chain(q) == IF root[q] = SIGNALED THEN <<>> ELSE root[q]

Labels == {"user", "wait", "tw_clear", "w_add", "w_insert", "pa_read", "pa_pop",
           "pa_signal", "bc_clear", "bc_loop", "yield", "scan", "deliver",
           "to_unlink", "wfi"}

FrameType == [q : Queue \cup {NULL}, ms : BOOLEAN,
              ret : {"user", "yield", "scan", "bc_loop"}, bret : {"user", "yield"},
              scan : 1..(Len(ThreadList) + 1), td : Thread \cup {NULL}]

\* Every variable has its type.
TypeOK ==
    /\ root \in [Queue -> Seq(Thread) \cup {SIGNALED}]
    /\ runQueue \in Seq(All)
    /\ runningThread \in All
    /\ td_qpec \in [All -> Nat]
    /\ td_queue \in [All -> Queue \cup {RunQueue, NULL}]
    /\ td_timer \in [All -> {NULL, "handle", SIGNALED}]
    /\ total_pending \in Int
    /\ armed \subseteq Thread
    /\ cont \in [All -> {"return", "wait"}]
    /\ woken \in [All -> {NULL, "event", "timeout"}]
    /\ timed \in [All -> BOOLEAN]
    /\ pc \in Labels
    /\ fr \in FrameType

\* Events that interrupts posted are only ever counted on the first thread of
\* the queue they were posted to (NutThreadResume wakes the head of td_queue
\* for each of them, and an unlinked thread hands them to its successor only).
PendingAtHead ==
    \A t \in All : td_qpec[t] > 0 =>
        \E q \in Queue : td_queue[t] = q /\ Chain(q) # <<>> /\ Head(Chain(q)) = t

\* Is t between the two critical sections of NutThreadAddPriQueue?
Moving(t) == pc = "w_insert" /\ t = runningThread

\* A thread is linked into exactly one chain and once only, the chain td_queue
\* names.  Only a sleeping thread, and the running one between the two critical
\* sections of NutThreadAddPriQueue, are in none.
LinkedOnce ==
    /\ IsInjective(runQueue)
    /\ \A q \in Queue : IsInjective(Chain(q))
    /\ \A t \in All : t \in Range(runQueue) <=> td_queue[t] = RunQueue
    /\ \A t \in All, q \in Queue :
          t \in Range(Chain(q)) <=> td_queue[t] = q /\ ~Moving(t)

\* NutEventPostAsync never hands a released timer to NutTimerStop and no timer
\* calls back for a thread that has given up its handle.
NoDanglingTimer ==
    \A t \in All : t \in armed <=> td_timer[t] = "handle"

\* The threads waiting for an event are served most urgent first.
WaitersOrdered == \A q \in Queue : PriOrdered(Chain(q), Prio)

\* NutEventWait's return value tells the truth: -1 if and only if the timer
\* and not an event took the thread out of the queue.
ReturnCodeTruthful ==
    \A t \in All :
        t \in Range(runQueue) /\ cont[t] = "wait" => WaitResult(t) = woken[t]

\* The idle thread decides to halt the CPU only when no posted event still
\* waits for NutThreadResume to deliver it.
HaltOnlyWhenNothingPending ==
    [][pc' = "wfi" /\ pc # "wfi" => \A t \in All : td_qpec[t] = 0]_vars

(***************************************************************************)
(* The kernel implements the atomic queues of EventSpec.  The credit of a  *)
(* queue is its signaled state or the count on its first thread, plus the  *)
(* event NutThreadResume has taken off that count and not posted yet.  A   *)
(* thread that is ready again inside NutEventWait has the outcome of its   *)
(* wait.  The control point tells the operation in progress.               *)
(***************************************************************************)
InFlight(q) == pc \in {"pa_read", "pa_pop"} /\ fr.ret = "scan" /\ fr.q = q

Credit(q) == IF root[q] = SIGNALED THEN 1
             ELSE IF root[q] = <<>> THEN 0
             ELSE td_qpec[Head(root[q])] + (IF InFlight(q) THEN 1 ELSE 0)

Limited == {t \in armed : td_queue[t] \in Queue}

Outcome(t) == IF td_queue[t] = RunQueue /\ cont[t] = "wait" THEN WaitResult(t) ELSE NULL

\* The operation in progress at control point l with locals f.  What
\* NutThreadResume posts is not a call.
Operation(l, f) ==
    CASE l \in {"tw_clear", "bc_clear"} -> "take"
      [] l = "wait" -> "next"
      [] l \in {"w_add", "w_insert"} -> "wait"
      [] l \in {"pa_read", "pa_pop", "pa_signal"} /\ f.ret \in {"user", "yield"} -> "post"
      [] l \in {"pa_read", "pa_pop", "bc_loop"} /\ f.ret = "bc_loop" -> "broadcast"
      [] OTHER -> "none"

Calling(l, f) == [op |-> Operation(l, f),
                  q  |-> IF Operation(l, f) = "none" THEN NULL ELSE f.q]

ES == INSTANCE EventSpec WITH
         waiting <- [q \in Queue |-> Range(Chain(q))],
         credit  <- [q \in Queue |-> Credit(q)],
         limited <- Limited,
         outcome <- [t \in Thread |-> Outcome(t)],
         call    <- Calling(pc, fr),
         program <- <<pc, fr, runQueue, armed>>

\* Whatever interrupts do between the critical sections, every step of
\* event.c and thread.c is an atomic queue operation or changes nothing that
\* matters: no posted event is lost between a thread's look at the queue and
\* its entry, an event wakes one thread at most (a broadcast's each waiter
\* once), a most urgent one, and NutEventWait returns without an event only
\* when a time limit was set and has passed.
ImplementsEventSpec == ES!Spec

\* An event that an interrupt posted while a thread waits is delivered.
PendingDelivered ==
    \A t \in Thread : td_qpec[t] > 0 ~> td_qpec[t] = 0

\* A wait with a time limit ends: NutEventWait takes the thread out of the
\* queue "until a time-out occurs, whichever comes first".
TimedWaitEnds ==
    \A t \in Thread :
        timed[t] /\ td_queue[t] \in Queue ~> td_queue[t] = RunQueue
=============================================================================
