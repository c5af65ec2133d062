# A TLA+ model of Nut/OS and Nut/Net

Nut/OS (Ethernut) is a small cooperative multi-threading operating system for
microcontrollers with the TCP/IP stack Nut/Net.  This directory specifies the part that
everything else stands on, the kernel in `nut/os` (events, threads, timers, the heap, and
the mutexes, semaphores, condition variables and message queues built on them), and the
parts of `nut/net` that keep state and wait for others: ARP, TCP and PPP.  TLC checks the
specifications on small instances, TLAPS proves their central invariants for every instance.

## 1. Inventory

| Component | Code | State | Operations | What is hard | What makes it correct |
|---|---|---|---|---|---|
| Event queues | `os/event.c`, `include/sys/event.h` | a queue root per `HANDLE` (empty, `SIGNALED` or a chain of threads), a pending event counter `td_qpec` per thread, `total_pending` | try, wait, wait next, post, broadcast (with and without yield), post from interrupt, timeout | interrupts change roots and counters between any two critical sections; an event races a timeout; a timer may not be available | every event has a source and at most one receiver, a most urgent waiter; return codes tell what happened; posted events are delivered |
| Thread scheduler | `os/thread.c`, `arch/*/os/context.c` | `runQueue`, `runningThread`, `nutThreadList`, `td_queue`, `td_timer`, priorities | yield, resume, wake, switch; create, set priority, exit, destroy | a thread must be in exactly one list, also between two critical sections; a thread ends on its own stack | each thread linked once; a stack is released once, after its last use |
| System timers | `os/timer.c` | `nutTimerList` (ticks relative to the predecessor), `nut_ticks`, `nut_ticks_resume` | start, start with a handle, stop, process elapsed, tick interrupt, sleep | callbacks start and stop timers while the list is processed; the counter wraps around | no timer early, none overdue, list sound |
| Idle thread | `arch/cm3/os/nutinit.c` | - | start, yield, clean up after ended threads, halt the CPU | event posted between test and halt | decides to halt only when no posted event is undelivered; an event that comes between that test and `__WFI` is delivered after the next tick |
| Mutex | `os/mutex.c` | owner, count, queue | lock, try, unlock | the woken thread competes with others; the owner is not cleared | exclusion, the counter follows its owner's locks, no lost release |
| Semaphore | `os/semaphore.c` | value, queue | wait, try, post | value changes before the thread waits | value counts waiters, permits conserved |
| Condition variable | `os/condition.c` | mutex, event queue | lock, unlock, wait, timed wait, signal, broadcast | the unlock yields before the wait begins | no lost wakeup, honest timeouts |
| Message queues | `os/msg.c` | ring buffer, event queue, timer objects on two lists | create, post, send, broadcast, get, flush, start and stop timer, timer callback | one signal for many messages; full ring; reuse of timer objects | FIFO, no message waits unannounced, timer objects find their way back |
| Heap | `os/heap.c` | free list | add, alloc, realloc, free | split and merge, remainders too small for a node, growing in place | free list ordered and merged, memory neither lost nor given away twice |
| ARP | `net/arpcache.c`, `net/arpin.c`, `net/arpout.c` | `arpTable` with a queue of waiting threads per entry | query, update, aging | the driver gives up the CPU between request and wait; entries vanish under waiting threads | nobody waits at a freed entry or for an answer to no request; answers are not missed |
| TCP | `net/tcp*.c` | sockets with sequence numbers, windows, unacknowledged and early segments, four event queues | connect, accept, send, receive, close; segments; timers | lost, repeated and overtaking segments; the application and the thread `NutTcpSm` share the socket | the stream is complete and in order, no call waits in vain, sockets are freed after and only after their last use |
| PPP | `net/ppp*.c`, `net/lcp*.c`, `net/ipcp*.c`, `net/pap*.c`, `dev/ppp.c` | states of three layers, one identifier, one retry counter | open, close, link up and down, frames, retries | the peer sends anything at any time; layers share counters | no layer is ahead of the one below; negotiations end; the waiting thread is told |
| IP, ICMP, IGMP, UDP, routing, Ethernet | `net/` | routes, receive queues | packet input and output | - | - |
| Protocols | `pro/` | DHCP lease, sessions | requests with retries | lost answers | lease states |
| File systems | `fs/` | FAT, flash directories | open, read, write, delete | power failure between two writes | allocation consistent |
| Drivers, TLS, libraries, tools | `dev/`, `arch/`, `tls/`, `crypto/`, `gorp/`, `crt/`, `c/`, `lua/`, `tools/`, `app/` | hardware and data structures | - | - | - |

How they interact: every blocking call ends in `NutEventWait`, which takes the
running thread out of `runQueue`, puts it into the queue of a `HANDLE`, starts a
timeout timer and calls `NutThreadResume`.  That function first delivers the events
interrupts have counted (`td_qpec`), then runs the callbacks of elapsed timers
(`NutTimerProcessElapsed`), among them `NutEventTimeout` and `NutThreadWake`, and
then switches to the first thread of `runQueue`.  Interrupts only ever use
`NutEventPostFromIrq` and count ticks.  There is no preemption between threads.  The
network code consists of threads as well: a receiver per interface (`NutArpInput`,
`NutPppInput` and, through a queue, TCP input), `NutTcpSm` and `NutPppSm`.  They share
sockets, ARP entries and the PPPDCB with the applications, which wait for them in event
queues inside these structures.  Stacks, timers, sockets and buffers come from the heap.

## 2. Modules

| Module | Models | Uses |
|---|---|---|
| `NutThreadQueue` | the priority queues of `thread.c`: `AddPriQueue`, `RemoveQueue` | |
| `NutEvent` | `event.c`, the scheduling part of `thread.c`, `NutSleep`, the idle loop | `NutThreadQueue`, `EventSpec` |
| `EventSpec` | what event queues promise, every operation atomic | |
| `NutEventQueue` | the event queue operations as atomic operators, for code in thread context | `NutThreadQueue` |
| `NutMutex` | `mutex.c` | `NutEventQueue` |
| `NutSemaphore` | `semaphore.c` | `NutEventQueue` |
| `NutCondition` | `condition.c` | extends `NutMutex` |
| `NutMsgQ` | `msg.c` | `NutEventQueue`, `MsgFifo` |
| `MsgFifo` | what a message queue promises: a bounded FIFO channel | |
| `NutTimer` | the timer list of `timer.c` | |
| `NutHeap` | `heap.c` | |
| `NutThread` | creation, priority and end of threads, start-up and clean-up by the idle thread | extends `NutHeap` and `NutThreadQueue` |
| `NutArp` | the ARP cache | |
| `NutTcp` | a TCP connection between two Nut/Net hosts | |
| `NutPpp` | the PPP layers, their retry thread, the device and `NutNetIfConfig` on it | |
| `MC_*` | constants for TLC | |
| `NutThreadQueueProofs`, `NutEventProofs`, `NutTimerProofs`, `NutMsgQProofs`, `NutTcpProofs` | theorems about the module they are named after | |
| `NutSyncProofs` | theorems about mutexes, condition variables and semaphores | `NutCondition`, `NutSemaphore` |
| `NutThreadProofs` | theorems about the heap and about threads | `NutThread` |
| `NutLinkProofs` | theorems about ARP and PPP | `NutArp`, `NutPpp` |

**NutEvent.**  A chain of `td_qnxt` pointers is a sequence of threads; a root is
`SIGNALED` or such a sequence.  One action is one access to the state that is shared
with interrupts (queue roots, `td_qpec`, `total_pending`) together with the private
work up to the next such access: each `NutEnterCritical` ... `NutExitCritical` block of
the source is one step, and `NutEventPostFromIrq` may happen between any two.  `pc` and
`fr` are the control point and the locals of the code on the CPU; since threads switch
only inside `NutThreadResume`, one pair is enough, and `cont[t]` remembers whether a
thread that lost the CPU there still has the end of `NutEventWait` to execute.  The
labels are `wait` (inside `NutEventWaitNext`), `tw_clear`, `w_add`, `w_insert` (the two
sections of `NutThreadAddPriQueue`), `pa_read`, `pa_pop`, `pa_signal`
(`NutEventPostAsync`), `bc_clear`, `bc_loop` (`NutEventBroadcastAsync`), `yield`, `scan`,
`deliver` (`NutThreadResume`), `to_unlink` (`NutEventTimeout`) and `wfi`.  Timers are
abstract here: `armed` holds the threads whose timer object exists, and any of them may
be found elapsed when `NutTimerProcessElapsed` runs.  If `HeapExhausts`, `NutTimerStart`
may fail.  The walk of `NutThreadAddPriQueue` along the queue happens with interrupts
enabled, but interrupts do not change the links of a non-empty queue, so its result is
the same as computed in `WaitInsert`.  `td_state` is left out, because nothing but debug output and
`NutThreadResume`'s own update of it depends on it.

**NutMutex, NutSemaphore, NutCondition, NutMsgQ.**  This code runs in thread context
only.  A thread can lose the CPU inside `NutEventWait`, `NutEventPost` and
`NutThreadYield` and nowhere else, so an action is what a thread does from one such
point to the next, and which ready thread runs next is left open.  That includes the
schedules the priorities allow and more.  A yield at the end of a call needs no step of
its own; the ones in the middle (`NutMutexUnlock` in `NutConditionTimedWait`,
`NutEventWait` on a signaled queue in `NutMsgQGetMessage`) are labels.

A thread may unlock a mutex whenever `mutex.c` lets it, also one it has released; the
counter then wraps around as unsigned arithmetic does (at `CountMax` in place of 65535).
`NutCondition` assumes callers that follow the documentation: they lock before they look at
the condition, wait in a loop and notify with the lock held.  They wait with
`NutConditionTimedWait`; `NutConditionWait` has undefined behaviour and is not modelled
(section 3).  In `NutMsgQ` every start of a timer may fail; `msg.c` stores the `NULL`
without a test (`msg.c:231`, `msg.c:269`), and the object stays on its queue's list.

**NutTimer.**  `tn_ticks_left` is relative to the predecessor as in the code.
`NutTimerProcessElapsed` is a loop of `ProcessHead` and `ProcessRemove` with the callback
in between, so that ticks and callbacks that start or stop timers interleave with it.  The
tick counter is taken modulo `TickMod` in place of 2^32, so that it wraps around often.

**NutHeap, NutThread.**  Memory is counted in units of the alignment, a node is an address
and a size, and the free list is a sequence of nodes, so that splitting, merging and the
walk of `NutHeapRootFree` are operators on sequences.  `NutThread` composes the heap
with the list of threads and the run queue: a thread's memory is a block of the heap, and
other owners allocate, resize and free blocks around it.  No call of this code yields in the
middle and interrupts do not touch its state, so a call is an action; it ends with the
context switch, if there is one.  `NutEventWait` and `NutThreadWake` stand for all ways to
leave and enter the run queue, which `NutEvent` has in detail.

**NutArp.**  A thread in `NutArpCacheQuery` gives up the CPU in `NutArpOutput` (`"output"`)
and in `NutEventWait` (`"wait"`, `"woken"`).  Pointers are names that are free for reuse when
`free` has been called, so that a stale pointer to a new entry is possible.  Memory may run out at every
allocation and every output may fail.  A minute passes at any time, but no query sees
two minutes pass: waiting takes half a second (`MIN_ARPWAIT`), and output is assumed to
be as short.

**NutTcp.**  The unit is one segment of `so_mss` bytes.  The functions of `tcpsm.c`
and `tcpout.c` are operators on a record with the socket, the segments sent and the queues
posted to, with the names of the source; an action applies one call of the application up to
its wait, or what `NutTcpSm` does with one segment or one timer, and commits the result.
The network (external) delivers in order except for at most `MaxFault` faults: a loss, a
duplicate, an overtaking, or a timer that elapses although a segment is still in flight.  The
link may break for good.  Whatever the order in which the applications call, the server may
call `NutTcpAccept` after the SYN has arrived (backlog).  With `ServerFirst` the client does not send
before it has received something, as in SMTP, FTP or POP.

**NutPpp.**  The peer sends any frame at any time, so that lost, late and repeated frames are
included and frames to it need not be modelled.  What remains of a frame is what the code
finds out about it.  A layer's functions are operators on the PPPDCB; `evt` collects that an
event was posted, which wakes the thread in `NutNetIfConfig` or is remembered for it.

History variables (`woken`, `timed`, `holds`, `taken`, `produced`, `overtaken`, `overdrawn`,
`stranded`, `wasUp`, `interval`, `age`, `charged`, `region`, `answered`, `ticked`, `sent`, `got`) record what a caller knows; no guard of the modelled code reads
them, except where a comment says that callers behave (the callers of a condition variable unlock what they hold, a thread stops
a timer it started), that bounds them (`sent`, `ticked`, the recursion depth in `holds`), or what an application waits for before it sends (`got`).

## 3. Runs

Passing runs:

| Run | Instance | Checks |
|---|---|---|
| `event_kernel` | 3 threads (2 of equal priority) and idle, 2 queues, at most 2 pending events, heap may be exhausted | `PendingAtHead`, `LinkedOnce`, `NoDanglingTimer`, `ReturnCodeTruthful`, `HaltOnlyWhenNothingPending`, `ImplementsEventSpec` |
| `event_live` | 2 threads and idle, 1 queue, fair | `PendingDelivered`, `TimedWaitEnds` |
| `mutex` | 4 threads of equal priority, depth 2, unlocks too many, a counter of 2 bits that wraps around, fair | `MutualExclusion`, `CountIsDepth`, `NoLostRelease`, `BlockedIsWoken` |
| `semaphore` | 3 threads, initial value 1, 3 extra posts | `ValueCountsWaiters`, `PermitsConserved` |
| `condition` | 2 consumers with timed waits (limits passed, zero, ahead), 2 producers that signal and broadcast | `OnlyBroadcastLoses` |
| `msgq` | 1 ring of 4, 1 reader, 1 timer whose starts may fail, 2 payloads, flushes by the reader | `NoStuckMessage`, `TimersAccounted`, `OneShotNotLost`, `ImplementsFifo` |
| `timer` | 3 timers, intervals 1 and 2, counter modulo 5, lag up to 2; callbacks start and stop other timers | `ListSound`, `EarlyByBacklog`, `DeadlineKept`, `NoneOverdue` |
| `thread` | idle and 2 threads, 2 more owners of memory, 2 adjacent regions of 11 and 4 units | `FreeListSound`, `MemoryPartitioned`, `StacksAccounted`, `OwnStackKept` |
| `arp` | 3 threads, 2 addresses, 2 entries, one request per query, removal after a minute, fair | `EntryAlive`, `NoOrphan`, `AnswerNotMissed`, `QueryEnds` |
| `tcp` | 3 segments to the server, 1 to the client, receive buffer of 2, 1 segment kept in advance, 1 fault, the link may break | `StreamIntegrity`, `BlockedRightly`, `WindowRespected`, `NoUseAfterFree`, `ClosedIsTimed` |
| `ppp` | authentication required, 9 retries as in the code, fair | `LayersOrdered`, `UpNotMissed`, `TerminationEnds` |

What the newer ones say: `StacksAccounted` ties the blocks of the heap to the list of
threads and `killedThread`, so that any order in which threads end leaves no stack behind and
frees none twice; `OwnStackKept` is about the step in which a thread ends.  `AnswerNotMissed` holds
although `NutEventBroadcast` is not remembered by an empty queue, because a thread that
missed it looks at the table again before it gives up.  `BlockedRightly` is the absence of missed wake-ups between
`NutTcpSm` and the socket calls; `WindowRespected` fails as soon as a sender forgets what
is in flight; `ClosedIsTimed` is the safety form of "closing ends": while a closed socket exists
one of the timers of `NutTcpSm` is running for it.

One run refutes what the documentation says (`findings` of `PROJECT.json`):

| Run | Property | What happens |
|---|---|---|
| `tcp_early_data` | `StreamIntegrity` | a client sends at once and closes; if the third segment of the handshake and the first data are lost, the server takes the FIN in `SYN_RECEIVED` whatever its sequence number is and reports the end of an incomplete stream (`tcpsm.c:1152`; "reliable, in-sequence delivery", `doc/gen/nutdoc_en.txt:712`) |

It uses two faults and `ServerFirst = FALSE`.  A client that waits for the server to speak first
sends no data before the server has left `SYN_RECEIVED`, and `StreamIntegrity` holds.

The parameters `HeapExhausts`, `Delay`, `ReaderOf`, `FlushBy`, `CallbackStarts`,
`CallbackRestarts` and `ServerFirst` separate the uses of the code for which a property holds from those
for which it does not; the passing runs show the former.  Other observations made while
modelling, which are not runs of their own:

Kernel

* A broadcast leaves the queue signaled if an interrupt had counted more events on the
  last waiter (`event.c:433`; the comment at 502 says that the queue is cleared in any case).
* A broadcast is lost if it finds a consumer between its unlock and its wait
  (`condition.c:213`); `OnlyBroadcastLoses` shows that a signal is not.
* `NutConditionTimedWait` with a limit reached this millisecond has no limit
  (`condition.c:171`: zero means wait for ever to `NutEventWait`).
* A timer started in a callback fires early by the ticks not yet accounted for
  (`timer.c:629`); `EarlyByBacklog` bounds by how much.
* `NutTimer.cfg` with `CallbackRestarts = TRUE`: a callback that restarts its own timer with
  `NutTimerHandleStart` makes another one vanish from the list (`timer.c:588`, `ListSound`).
* `NutEventLive.cfg` with `HeapExhausts = TRUE`: without memory for a timer a limited wait
  becomes unlimited (`event.c:335`), and `NutSleep` that cannot get a timer puts the thread
  in front of more urgent ones (`timer.c:824`).
* Unlocking a mutex that is already released succeeds for its last owner and wraps the
  counter (`mutex.c:132`), although `mutex.c:125` says that a thread without a lock gets an
  error.  The mutex is then taken for locked 65535 times by nobody.  The run `mutex` makes
  such unlocks: `CountIsDepth` states what becomes of the counter, `MutualExclusion` holds for
  all threads that did not unlock too often, and `NoLostRelease` and `BlockedIsWoken` hold
  until somebody did.
* `NutConditionWait` passes `cond->event` and not its address to `NutEventWait`
  (`condition.c:133`), so the word that the root points to (at address 0 if nobody waits) is
  taken for a queue and overwritten.  This is undefined behaviour, and no signal or
  broadcast reaches the waiter, contrary to what `condition.c:107` and 181 promise.  The call is
  not modelled, and nothing in this project holds for a program that makes it.
* `NutConditionTimedWait` returns 0 after a timeout as well (`condition.c:175`).
* The assertion of `NutMsgQGetMessage` that a woken reader finds a message (`msg.c:354`) fails
  with a second reader of the queue: message 1 is posted and reader A takes its signal;
  message 2 is posted and reader B takes its signal; A reads message 1 and posts, because
  there is another one; B reads message 2; the signal left over lets the next call read an empty
  ring, and `mq_read` overtakes `mq_write` (`ASSERT` is empty in this build, `msg.c:67`).  The
  same happens when another thread flushes the queue between the signal and the read of its
  reader.  `msg.c` does not forbid either; the run and the theorems are about one reader per
  queue that alone flushes it, and no property stands for the assertion.
* `NutMsgQFlush` drops the message of an expired one-shot and with it the only way its
  timer object can return to the free list (`msg.c:387`); a timer that cannot be started leaves
  its object behind in the same way (`msg.c:231`, `msg.c:269`).  `OneShotNotLost` excepts both.
* `NutMsgQBroadcast` subtracts the results of `NutMsgQPost`, so full queues make its own result
  positive (`msg.c:139`; documented is "< 0 if one or more ques were full").
* `NutHeapRootRegionAvailable` subtracts the overhead from zero when nothing is free
  (`heap.c:485`), and `NutHeapRootRealloc` that relocates adds the overhead twice.
* `NutThreadKill` alone does not take the thread out of the run queue, although
  `include/sys/thread.h:313` offers it as an alternative to priority 255.

TCP

* A client that is established ignores the repeated SYN of a server that did not get the
  third segment of the handshake (`tcpsm.c:1197`) instead of acknowledging it.  If the client waits
  for the server to speak first, the server gives up and the client waits for ever.
* Nothing probes a closed window; if the segment that opens it is lost and the receiver
  has nothing to send, the sender waits for ever.  `CLOSE_WAIT` and `TIME_WAIT` do not
  acknowledge a repeated FIN again.
* `NutTcpAccept` that takes its SYN from the backlog returns success in `SYN_RECEIVED`
  (`tcpsm.c:819`), and returns success as well when the connection was aborted.
* Closing in `SYN_RECEIVED` sends a FIN without ACK; a FIN received there is
  answered by a FIN of the server's own before its application has closed.  The time limit of
  `SYN_RECEIVED` returns to `LISTEN` with the old segments still in `so_tx_nbq` (`tcpsm.c:1798`).
* `tcp_adv_cnt` is not decreased for segments that are there already or are
  discarded with their socket (`tcpsm.c:1260`), so its limit is used up over time.
* `NutTcpSend` returns -1 for data that is queued and will be sent if only the copy for the
  first transmission cannot be allocated (`tcpout.c:254`).

PPP

* An acknowledgement of any identifier counts once the last request has been
  acknowledged (`lcpin.c:300`).  `ACKRCVD` has no time limit (`pppsm.c:114`).
* A Terminate-Ack in an opened layer restarts the negotiation but leaves LCP `OPENED` and IPCP
  `STARTING` (`lcpin.c:456`, `ipcpin.c:437`).
* `dcb_auth_state` stays `AUTHREQ` over a renegotiation (`pppsm.c:128`): requests go on and
  the shared counter may stop the link.
* `NutPppClose` closes the line while `NutPppSm` goes on sending on it (`ppp.c:297`).
* `NutNetIfConfig` on a link that is up already empties the queue, waits a minute for an event
  that does not come and fails (`ifconfig.c:360`); `UpNotMissed` tells this from a layer that
  comes up during the call.
* The handlers of protocol rejects are never called.

**Bounds.**  Two threads on a queue are enough for a more urgent one to overtake a less
urgent one that carries pending events; three (two of them equal) for the middle of a
queue and for first-come first-served among equals; two queues for a thread to carry an
event of one queue into another.  `MaxPending` = 2 lets one event be delivered while
another is left over.  Four mutex users leave two in the queue while one holds the mutex
and one has been woken; a counter of 2 bits wraps around after one unlock too many and can be
locked back to zero.  A ring of four wraps around with messages in it, and is full with
three.  Three timers are first, middle and last of a list; a
counter modulo 5 wraps around within two intervals.  Fifteen units of memory hold the
idle thread, two stacks and two blocks with gaps between them that are too small for a
node, just large enough, and larger; both regions touch, so that blocks merge across them.  Two
threads that end before the idle thread runs are enough for `killedThread` to be taken.  Two ARP
entries and three threads let one entry be freed and reused while a third thread holds it; one request
per query is the code's default and retries only repeat the loop.  With three segments and a
receive buffer of two the window closes, opens and is in use while segments are lost, and one segment is kept
in advance while the list is full.  The run has 2.0 million states; larger instances pass too: two segments
each way with two faults (7.3 million states), and three with a buffer of three, two segments in
advance and one fault (6.7 million).  Priorities matter by comparison only.

**Fairness.**  `NutEvent`: the CPU does not stop (weak fairness of the kernel steps; this
includes `IdleWake`, because the system tick ends every `__WFI`); cooperative
threads eventually make a call that lets others run (strong fairness of `Yielding`, because interrupts and kernel
steps come in between), which Nut/OS demands of its threads; a running timer eventually elapses (strong fairness, because it is
noticed only when a thread gives up the CPU).  `NutMutex`: a ready thread runs, and an
owner unlocks; the strong fairness of the final unlock excludes an owner that locks and
unlocks its inner lock for ever.  `NutCondition`: ready threads run, owners unlock or wait.
`NutArp`: drivers complete their output, timers elapse and ready threads run (weak fairness of a
query's own steps).  `NutPpp`: the thread `NutPppSm` does not stop; nothing is assumed of the
peer.  `NutTcp` has no fairness and no liveness property, because peers and links may
vanish for ever; what must end is stated by `ClosedIsTimed` and `BlockedRightly`.
`mutex` has equal priorities for all threads, because a more urgent thread could starve
the others: the code has no aging.

`CHECK_DEADLOCK FALSE` appears for the semaphore and for `condition`, where all threads
may really be blocked, and for TCP, where both sockets are freed in the end.

## 4. Theorems

TLAPS proves the following for every set of threads, queues, timers, entries and
regions, all priorities and all bounds; the assumptions on the constants are the named
`ASSUME`s of the modules, which TLC evaluates on every run.  A theorem with a further
hypothesis states it in its `ASSUME ... PROVE`.  Every inductive invariant was first
checked by TLC as an invariant of the component's run.  Type correctness,
`WaitersOrdered` and `BlockedInQueue` are proved and are not among the runs' properties;
they are needed by the others.

**`NutThreadQueueProofs`**: lemmas on `AddPriQueue` and `RemoveQueue` (type, members, no
duplicates) and `AddPriQueueOrdered`: insertion keeps a queue in order of urgency.  A
sum of counters is the cardinality of a set of pairs (thread, number), `Units`; lemmas say
how it changes when a unit is added, taken or moved to another thread.

**`NutEventProofs`**: `EventTypeCorrect`, `EventPendingAtHead`, `EventLinkedOnce`,
`EventNoDanglingTimer`, `EventWaitersOrdered`, `EventReturnCodeTruthful`, for any finite
number of threads and any queues, thread list order, interrupts and heap failures.
The inductive invariant `IInv` is the conjunction of these properties with two more:

- `Control` is what the running code may still rely on at each control point of what
  it read one critical section earlier.  A chain found non-empty stays so until the running
  thread unlinks from it (interrupts only count), a queue found `SIGNALED` stays so,
  but a queue found empty may meanwhile have become `SIGNALED`.  Without it `PostPop`
  could take the head of an empty chain and `WaitInsert` could link into a signaled one.
- `Asleep` says what a thread's `td_queue` implies: the idle thread is always ready, a
  thread with a running timer is not, and a ready thread inside `NutEventWait` has the
  timer handle that fits what woke it up.

The proof has one lemma per action or group of actions; `UnlinkProperties` and
`WakeChains` carry the common part of `NutEventPostAsync` and `NutEventTimeout`
(the unlinked thread hands its pending events to the new head).  The assumptions on the
constants are that the markers `NULL`, `SIGNALED`, `"handle"` and `runQueue` differ and
that every thread is in `nutThreadList`.  That the run queue is in order of urgency is not
among the theorems: when the heap is exhausted, `NutSleep` puts a thread in front.

`EventHaltOnlyWhenNothingPending` needs `Counted` on top of `IInv`: `total_pending` is at
least the sum of the counters.  A pop, a time-out and an insert only hand a count on
(`HandedOver`) or, when the last thread leaves, turn it into `SIGNALED`; an interrupt and
`NutThreadResume` change both sides by one.  The idle thread reads zero, so the sum is zero.

`EventImplementsEventSpec` is the refinement of `EventSpec`, step by step.  In `EventSpec` a
credit comes from an interrupt (`Arrive`) or from a post that finds nobody waiting
(`Remember`); a thread that leaves with an event is a most urgent waiter and takes one credit
(`Wake`), ends the post in progress (`Handoff`) or is released by a broadcast (`Release`); a
thread that leaves without one had a running time limit (`Expire`), and `outcome` says so
until `NutEventWait` returns.  The mapping takes the members of a chain for the waiting
threads, the chain's threads with a running timer for `limited`, what `NutEventWait` would
return for `outcome`, the operation whose critical sections are under way for `call`, and
`Credit` for the events: the signaled state or the counter of the first thread, plus the event
that `NutThreadResume` has taken off that counter and not posted yet (`InFlight`).  `program`
stands for all the code on the CPU works with; only an interrupt leaves it alone, so that no
step of a thread can pass for an `Arrive`.  One lemma per kind of step names the abstract
operation.  The refinement needs one more invariant, `InWait`: a thread in a queue is inside
`NutEventWait`, and neither `NutThreadResume` nor a broadcast posts to an empty queue, so that only
a caller's own post is remembered.  `UnlinkDeparts` is the part that the pop and the time-out
share: what is pending on the leaving thread stays with the queue.

**`NutSyncProofs`** is about the three primitives built on event queues.

- Mutex: `MutexTypeCorrect`, `MutexMutualExclusion`, `MutexCountIsDepth`,
  `MutexBlockedInQueue`, `MutexNoLostRelease`, with unlocks too many included.  The inductive
  invariant is `TypeOK /\ CountIsDepth /\ BlockedInQueue /\ NoLostRelease`: mutual exclusion
  follows from the counter mirroring the owner's depth, and a release is not lost
  because the thread it pops from the queue was one of the blocked ones.
- Condition variable: `ConditionOnlyBroadcastLoses`, for consumers that wait with
  `NutConditionTimedWait`.  `CondIInv` adds to the property what
  ties a consumer's control point to the two queues: only consumers wait, those blocked in
  the mutex are the ones its queue holds, the sleepers are exactly the ones the event queue
  holds, and `NotForgotten`: whoever sleeps although the condition holds is either going to
  be woken by a remembered signal or was passed by a broadcast.
- Semaphore: `SemaphoreTypeCorrect` and `SemaphoreCountsWaiters` from
  `SemTypeOK /\ ValueCountsWaiters`: the queue is popped exactly when the value was
  negative, that is, when it is not empty.  `SemaphorePermitsConserved` counts permits as
  `Units`: a wait adds one, a post takes the poster's and adds that of the woken thread.

**`NutTimerProofs`**: `TimerTypeCorrect`, `TimerListSound`, `TimerDeadlineKept`,
`TimerEarlyByBacklog` and `TimerNoneOverdue`, if no callback restarts the timer it is called
for (`~CallbackRestarts`; TLC refutes `ListSound` without it) and intervals and backlog
together do not exceed the tick counter.  The inductive invariant `TimerIInv` consists of
`Types`, `Objects` (the list has no duplicates and no released objects), `RunningListed`,
`Processing` (the backlog is bounded, and what `NutTimerProcessElapsed` may rely on when
it calls back and returns: the elapsed timer is still first, with no ticks left) and `Entries` (`DeadlineKept` with
bounds for each entry).  `Due`, the sum of the relative ticks up to an entry, is a
recursive function; a lemma replaces it by the running sums `AddsUp` that any such
sequence has, whose existence follows from the well-ordering of the naturals.  From there
each of `Insert`, `Unlink`, the removal of the head and the ticks taken from it is shown
to leave the sums of all other entries alone, which is what the compensation of the
successor's ticks is for.  Lemmas on `Lag` cover the counter that wraps around.

**`NutMsgQProofs`**: `MsgQNoStuckMessage`, `MsgQTimersAccounted`,
`MsgQOneShotNotLost`, and `MsgQImplementsFifo`: the ring buffer implements the abstract
channel `MsgFifo` (a refinement, step by step).  They hold for one reader per queue that
alone flushes it (`OneReader`, `FlushBy # "anyone"`; section 3 says what happens
otherwise) and for timers that may fail to start.  The inductive invariant says of each queue that its reader waits in it alone;
that the wake-ups under way (`SIGNALED`, or a reader that has been woken) are at most as many as
the messages, and at least one if there is a message (`ReaderOK`); that its list of timers
holds no object twice; and that a listed one-shot is running or has exactly one message in
the ring, unless that was flushed or its timer could not be started (`stranded`, `MessagesOK`).  The lemmas `ContentPost`, `ContentGet` and
`ContentRetract` reduce the masked indices to operations on sequences for every size that
the assertions of `NutMsgQCreate` admit.

**`NutThreadProofs`** is about the heap and the threads whose stacks live in it:
`HeapFreeListSound`, `HeapMemoryPartitioned`, `ThreadStacksAccounted` and the action
property `ThreadOwnStackKept`.  The inductive invariant is `HeapInv /\ ThreadTypes /\
Started /\ StacksAccounted`.  `HeapInv` states ownership by cells: every unit of an added
region lies in exactly one free node or one block, free nodes are ordered, do not touch and
are large enough.  Regions are any finite set of disjoint ranges.

**`NutLinkProofs`** is about the two parts below IP that keep state.

- ARP: `ArpEntryAlive`, `ArpNoOrphan` and the action property `ArpAnswerNotMissed`.
  `ArpIInv` says that an address has one entry, that each incomplete entry has exactly one
  creator that is still in its query, and, per thread (`Local`), what it may still rely on
  after having given up the CPU in `NutArpOutput` or `NutEventWait`.  It uses that no query
  sees two minutes pass.
- PPP: `PppLayersOrdered` and `PppUpNotMissed`, whatever the peer sends.  Each function of
  the layers is shown to map an ordered PPPDCB to an ordered one and to post the event
  whenever it brings the network layer up (`Correct`); `PppIInv` adds that while a thread in
  `NutNetIfConfig` waits, or is about to wait with an empty queue, the network layer is not up
  unless it was when the thread called (`wasUp`).

**`NutTcpProofs`**: `TcpBlockedRightly`, `TcpNoUseAfterFree`, `TcpClosedIsTimed`,
`TcpWindowRespected` and `TcpStreamIntegrity`, for any amounts of data, buffer sizes,
retries and any number of faults.

The first three are about one host at a time.  The inductive invariant `IInv` has a part for the network (`InFlightOK`: what a segment in flight may contain)
and a part per host (`Local`): sequence numbers are ordered and the unacknowledged
segments end at `tx_nxt`; a socket in `FIN_WAIT_1`, `CLOSING` or `LAST_ACK` still has a
segment in the list to retransmit; the application's view (not yet open, open, closed) fits
the state of the machine; and a blocked call is one whose condition to wait still holds.
Every function of `tcpsm.c`, `tcpout.c` and `tcputil.c` maps such a record to such a
record, and there is one lemma per action.

The other two are about both hosts and all that is between them, and need more: a unit of
data may be in the send queue of one end, several times in flight, in the queue of early
segments and in the buffer of the other end.  `DataInv` says of all these copies the same
(`Seg`): the data follow from the sequence number and the initial one, they lie below the
right edge `rx_nxt + rx_win` of the receiver's window, and the segment never offers more
than the window its sender has now.  From this follow

- `TcpWindowRespected`: the edge never moves back (`Good` carries it through every function)
  and, with what is buffered, never exceeds the buffer (`Holds`), so that data sent on the
  strength of a window that is long out of date still fit;
- `TcpStreamIntegrity`: `Phase` relates the state of a socket to its numbers (nothing has
  been sent or taken before `ESTABLISHED`; then `tx_nxt` counts what the application has
  sent, and `rx_nxt` what it has got or can get, `Reads`), so that a segment with the
  expected number carries the expected unit and a FIN with it comes after all data.

The initial sequence number of the server is existentially quantified in `DataInv`: a
listening socket that falls back from `SYN_RECEIVED` to `LISTEN` answers the next SYN with
another one, and what is in flight may still bear the old one (`Onward`, `Moves`).  The
theorem about streams assumes `ServerFirst`, and `Turns` is the invariant that makes this
useful: a client that has sent has received, thus the server has left `SYN_RECEIVED` for
good.  Without the assumption the property is false (run `tcp_early_data`, section 3).

## 5. Only model-checked

* Liveness: `PendingDelivered`, `TimedWaitEnds`, `BlockedIsWoken`, `QueryEnds` and
  `TerminationEnds`; the prover does not handle fairness.
* Two readers of one message queue, flushes by others and callbacks that restart their own
  timer: TLC refutes the properties for them (section 3).

## 6. Not modelled

* `total_pending` may stay above zero for ever after events have collapsed into the
  `SIGNALED` state; the idle thread then never halts the CPU.  This costs power, and
  is why no property equates it with the sum of the counters.
* `NutConditionInit` initialises memory that its caller never gets, `NutConditionFree`
  frees memory that was not allocated by it; the model starts from a zeroed `CONDITION`.
* `NutConditionWait` (section 3).
* `NutMsgQStartTimer` without memory for its `NUTMSGTMR` dereferences NULL (`msg.c:262`).
* A callback that restarts the timer it is called for: `CallbackRestarts = FALSE` in the run
  and in the theorems (section 3).
* ARP: a `NutEventWait` that gets no timer and so waits without a limit; `QueryEnds` assumes
  that it gets one.
* Negative initial semaphore values.
* Nested critical sections, the assembler of context switches, the Unix emulation and
  other idle loops than that of the Cortex-M port.
* TCP: time limits of the calls (`so_read_to`, `so_write_to`), the output buffer of
  `NutTcpDeviceWrite`, options, segments shorter than `so_mss`, sequence numbers that
  wrap around (the comparisons of `tcputil.c` are taken as those of numbers), several connections.
* TCP output: `NutTcpOutput` is taken to succeed and not to block.  In the code it may fail,
  after which `NutTcpStateChange` to `SYN_SENT` sets `EHOSTDOWN` and posts to the waiting thread
  (`tcpsm.c:772`) and `NutTcpStateRetranTimeout` aborts with `ENETDOWN` (`tcpsm.c:989`); a broken
  link loses the segments instead.  And `NutIpOutput` may give up the CPU while ARP resolves the
  address (`tcpout.c:78`; `NutTcpStateActiveOpenEvent` looks at the state again for that reason,
  `tcpsm.c:864`), so that a call of the application and `NutTcpSm` may interleave in the middle of an
  operator of `NutTcp`.  `NutArp` models that yield for the queries themselves.
  `NutTcpStateChange` refuses to leave `DESTROY`, where the code assigns; no call gets there.
* TCP arithmetic: `CanSend` subtracts numbers; `tcpsock.c:573` subtracts `uint16_t` values, which
  wraps where `int` has 16 bits and the window has shrunk below the data in flight.
* A lost segment that opened a window: nothing repeats it (section 3), and `BlockedRightly` is
  about wake-ups only.
* PPP: contents of options and addresses, buffers that cannot be allocated.
* Debug builds of the heap (guard words, the list of all allocations).
* Components listed as `not_modelled` in `PROJECT.json`: UDP, IP and routing, DHCP and
  other protocols, file systems, drivers, libraries.  File systems and drivers are mostly
  data layout and hardware registers; imported libraries (TLS, cryptography, Lua) and the
  C library are sequential code over large data.

## 7. Plan

Done: events and scheduling (`NutEvent`) with their abstract specification, timers,
the synchronisation primitives, message queues, heap and threads, ARP, TCP, PPP, and the
proofs of section 4.

Next, in this order:

1. `NutUdp`: the receive queue with its byte limit; `NutDhcp`: leases with lost answers.
2. Time limits of the TCP calls and the output buffer of the TCP device.
