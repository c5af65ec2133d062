----------------------------- MODULE NutThread -----------------------------
(***************************************************************************)
(* Creation, change of priority and termination of threads (os/thread.c,   *)
(* arch/cm3/os/context.c) with the start-up and the loop of the idle       *)
(* thread (arch/cm3/os/nutinit.c), on top of the heap that holds the       *)
(* threads' stacks and descriptors.                                        *)
(*                                                                         *)
(* Scheduling is cooperative and interrupts touch none of this state: a    *)
(* call is one action, up to the context switch it ends with.  A thread    *)
(* is named by its memory, so its name is free again with its memory.      *)
(***************************************************************************)
EXTENDS NutHeap, NutThreadQueue

CONSTANTS
    Thread,     \* the threads, some of the heap's owners
    idle,       \* the idle thread
    NoThread,   \* the null pointer
    StackSize,  \* stack sizes asked for
    Level       \* the priorities applications use; 254 is the idle thread's

ASSUME ThreadAssumption ==
    /\ Thread \subseteq Owner /\ idle \in Thread /\ NoThread \notin Owner
    /\ StackSize \subseteq Nat /\ Level \subseteq 0..254

VARIABLES
    runningThread, runQueue, nutThreadList, killedThread,
    td_priority,
    idlePc         \* where the idle thread is in NutIdle

threads == <<runningThread, runQueue, nutThreadList, killedThread, td_priority, idlePc>>
vars == <<heap, threads>>

Init ==
    /\ HeapInit
    /\ runningThread = NoThread /\ killedThread = NoThread
    /\ runQueue = <<>> /\ nutThreadList = <<>>
    /\ td_priority = [t \in Thread |-> 64]
    /\ idlePc = "main"

-----------------------------------------------------------------------------
\* NutThreadSwitch: continue with the thread on top of the run queue q.
NutThreadSwitch(q) == runQueue' = q /\ runningThread' = Head(q)

\* The run queue with the new thread td of priority 64.
CreateQueue(td) == AddPriQueue(runQueue, td, [td_priority EXCEPT ![td] = 64])

\* NutThreadCreate: without memory nothing happens, and the caller gets 0.
\* The first thread of all is started instead of being switched to.
NutThreadCreate(td, stackSize) ==
    /\ NutHeapRootAlloc(td, stackSize)
    /\ IF block'[td] = None
         THEN UNCHANGED <<nutThreadList, td_priority, runQueue, runningThread>>
         ELSE /\ nutThreadList' = <<td>> \o nutThreadList
              /\ td_priority' = [td_priority EXCEPT ![td] = 64]
              /\ NutThreadSwitch(CreateQueue(td))
    /\ UNCHANGED killedThread

\* Release the memory of the thread that was killed last.
FreeKilled ==
    IF killedThread = NoThread THEN UNCHANGED heap ELSE NutHeapRootFree(killedThread)

NutThreadDestroy ==
    /\ FreeKilled /\ killedThread' = NoThread
    /\ UNCHANGED <<runningThread, runQueue, nutThreadList, td_priority>>

\* Mutant: the thread is scheduled for cleanup before the cleanup.
NutThreadKill_Self ==
    /\ NutHeapRootFree(runningThread)
    /\ nutThreadList' = RemoveFirst(nutThreadList, runningThread)
    /\ killedThread' = NoThread

\* Mutant: the thread that was killed before is forgotten.
NutThreadKill_Forget ==
    /\ UNCHANGED heap
    /\ nutThreadList' = RemoveFirst(nutThreadList, runningThread)
    /\ killedThread' = runningThread

\* NutThreadKill: clean up after the last one, leave the list of threads.
NutThreadKill ==
    /\ FreeKilled
    /\ nutThreadList' = RemoveFirst(nutThreadList, runningThread)
    /\ killedThread' = runningThread

\* The run queue without the running thread.
OthersReady == RemoveQueue(runQueue, runningThread)

\* The run queue with the running thread at its new level.
Requeue(level) ==
    AddPriQueue(OthersReady, runningThread, [td_priority EXCEPT ![runningThread] = level])

\* NutThreadSetPriority; level 255 ends the thread.
NutThreadSetPriority(level) ==
    /\ td_priority' = [td_priority EXCEPT ![runningThread] = level]
    /\ IF level < 255
         THEN NutThreadSwitch(Requeue(level)) /\ UNCHANGED <<heap, nutThreadList, killedThread>>
         ELSE NutThreadSwitch(OthersReady) /\ NutThreadKill

NutThreadExit == NutThreadSetPriority(255)

\* NutThreadYield: go behind the threads of equal priority, if any follow.
NutThreadYield ==
    /\ NutThreadSwitch(IF Len(runQueue) = 1 THEN runQueue
                       ELSE AddPriQueue(OthersReady, runningThread, td_priority))
    /\ UNCHANGED <<heap, nutThreadList, killedThread, td_priority>>

\* NutEventWait: the running thread leaves the run queue ...
NutEventWait ==
    /\ NutThreadSwitch(OthersReady)
    /\ UNCHANGED <<heap, nutThreadList, killedThread, td_priority>>

\* ... and returns to it when the running thread processes its event or timeout.
NutThreadWake(td) ==
    /\ td \in Range(nutThreadList) \ Range(runQueue)
    /\ NutThreadSwitch(AddPriQueue(runQueue, td, td_priority))
    /\ UNCHANGED <<heap, nutThreadList, killedThread, td_priority>>

-----------------------------------------------------------------------------
(* NutInit, the idle thread and the applications                           *)

\* NutInit hands the memory to the heap and starts the idle thread.
NutInit ==
    /\ runningThread = NoThread
    /\ \/ \E r \in Region : NutHeapRootAdd(r) /\ UNCHANGED threads
       \/ region # {} /\ \E size \in StackSize : NutThreadCreate(idle, size) /\ UNCHANGED idlePc

NutIdle ==
    /\ runningThread = idle
    /\ \/ /\ idlePc = "main" /\ idlePc' = "prio"
          /\ \E td \in Thread, size \in StackSize : NutThreadCreate(td, size)
       \/ /\ idlePc = "prio" /\ idlePc' = "yield"
          /\ NutThreadSetPriority(254)
       \/ /\ idlePc = "yield" /\ idlePc' = "destroy"
          /\ NutThreadYield \/ \E td \in Thread : NutThreadWake(td)
       \/ /\ idlePc = "destroy" /\ idlePc' = "yield"
          /\ NutThreadDestroy

Application ==
    /\ runningThread \notin {idle, NoThread}
    /\ \/ \E td \in Thread, size \in StackSize : NutThreadCreate(td, size)
       \/ \E level \in Level : NutThreadSetPriority(level)
       \/ NutThreadExit
       \/ NutThreadYield
       \/ NutEventWait
       \/ \E td \in Thread : NutThreadWake(td)
       \/ NutThreadDestroy
       \/ HeapNext(Owner \ Thread) /\ UNCHANGED threads
    /\ UNCHANGED idlePc

Next == NutInit \/ NutIdle \/ Application

Spec == Init /\ [][Next]_vars

-----------------------------------------------------------------------------
(* Properties                                                              *)

Live == Range(nutThreadList)

\* The memory of threads is neither used after its release nor lost, whatever
\* threads end in whatever order: the threads that own memory are exactly the
\* listed ones and the one to be cleaned up, which is not listed any more, and
\* only listed threads are ready or run.
StacksAccounted ==
    /\ {t \in Thread : block[t] # None} = Live \cup ({killedThread} \ {NoThread})
    /\ killedThread \notin Live
    /\ Range(runQueue) \cup ({runningThread} \ {NoThread}) \subseteq Live

\* NutThreadSwitch saves the registers of the thread that gives up the CPU on
\* its stack: even the call that kills it may not release its memory.
OwnStackKept == [][runningThread # NoThread => block'[runningThread] # None]_vars
=============================================================================
