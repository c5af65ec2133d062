------------------------------ MODULE NutTimer ------------------------------
(***************************************************************************)
(* The system timers of os/timer.c: a list ordered by expiry in which      *)
(* every entry stores the ticks it has left after its predecessor.  The    *)
(* tick interrupt counts at any time; timers are started and stopped in    *)
(* thread context, also by the callbacks that NutTimerProcessElapsed       *)
(* calls, and are processed whenever a thread gives up the CPU.            *)
(***************************************************************************)
EXTENDS Integers, Sequences, SequencesExt, FiniteSets

CONSTANTS
    Timer,          \* NUTTIMERINFO objects
    NULL,
    Own,            \* the ones provided by the caller of NutTimerHandleStart
    Interval,       \* the numbers of ticks timers are started with
    TickMod,        \* nut_ticks is counted modulo TickMod (2^32)
    MaxLag,         \* bound on the ticks between two calls of ProcessElapsed
    CallbackStarts, \* may a callback start another timer?
    CallbackRestarts\* may a callback restart the timer it is called for?

ASSUME TimerAssumption ==
    /\ Own \subseteq Timer
    /\ Interval \subseteq Nat \ {0}
    /\ NULL \notin Timer
    /\ TickMod \in Nat /\ MaxLag \in 1..(TickMod - 1)
    /\ \A n \in Interval : n + MaxLag < TickMod
    /\ CallbackStarts \in BOOLEAN /\ CallbackRestarts \in BOOLEAN

VARIABLES
    nutTimerList,     \* the linked list, a sequence of timers
    tn_ticks_left,    \* ticks left after the predecessor in the list
    tn_ticks,         \* reload value, 0 for one-shot timers
    tn_callback,      \* FALSE: cleared by NutTimerStop
    allocated,        \* the objects that exist
    nut_ticks, nut_ticks_resume,
    ticks_new,        \* local of NutTimerProcessElapsed
    pc,               \* "thread", "process", "callback" or "remove"
    tn,               \* local: the timer being processed
    interval, age,    \* history: ticks asked for, ticks since the start
    charged           \* history: unprocessed older ticks at the start

list == <<nutTimerList, tn_ticks_left>>
clock == <<nut_ticks, nut_ticks_resume>>
local == <<ticks_new, pc, tn>>
history == <<interval, age, charged>>
vars == <<list, tn_ticks, tn_callback, allocated, clock, local, history>>

Init ==
    /\ nutTimerList = <<>>
    /\ tn_ticks_left = [x \in Timer |-> 0]
    /\ tn_ticks = [x \in Timer |-> 0]
    /\ tn_callback = [x \in Timer |-> FALSE]
    /\ allocated = Own
    /\ nut_ticks = 0 /\ nut_ticks_resume = 0
    /\ ticks_new = 0 /\ pc = "thread" /\ tn = NULL
    /\ interval = [x \in Timer |-> 0]
    /\ age = [x \in Timer |-> 0]
    /\ charged = [x \in Timer |-> 0]

Lag == (nut_ticks - nut_ticks_resume) % TickMod

\* NutTimerIntr
NutTimerIntr ==
    /\ Lag + (IF pc = "thread" THEN 0 ELSE ticks_new) < MaxLag
    /\ nut_ticks' = (nut_ticks + 1) % TickMod
    /\ age' = [x \in Timer |-> IF interval[x] > 0 THEN age[x] + 1 ELSE 0]
    /\ UNCHANGED <<list, tn_ticks, tn_callback, allocated, nut_ticks_resume,
                   local, interval, charged>>

\* Ticks until the i-th entry of list s elapses.
Due(s, left, i) ==
    LET due[k \in 0..Len(s)] == IF k = 0 THEN 0 ELSE due[k - 1] + left[s[k]]
    IN  due[i]

\* Mutant: the ticks of the next entry are not made relative to the new one.
Insert_NoCompensation(s, left, x) ==
    LET i == CHOOSE k \in 0..Len(s) :
               /\ \A j \in 1..k : Due(s, left, j) <= left[x]
               /\ k < Len(s) => Due(s, left, k + 1) > left[x]
    IN  [s    |-> InsertAt(s, i + 1, x),
         left |-> [left EXCEPT ![x] = @ - Due(s, left, i)]]

\* NutTimerInsert: x goes behind all entries that elapse no later than it; its
\* ticks are made relative to them and those of the next entry relative to it.
Insert(s, left, x) ==
    LET i == CHOOSE k \in 0..Len(s) :
               /\ \A j \in 1..k : Due(s, left, j) <= left[x]
               /\ k < Len(s) => Due(s, left, k + 1) > left[x]
        d == left[x] - Due(s, left, i)
    IN  [s    |-> InsertAt(s, i + 1, x),
         left |-> [y \in Timer |-> IF y = x THEN d
                                   ELSE IF i < Len(s) /\ y = s[i + 1] THEN left[y] - d
                                   ELSE left[y]]]

\* Mutant: the ticks of a removed entry are lost to its successor.
Unlink_NotPassedOn(s, left, x) == [s |-> RemoveFirst(s, x), left |-> left]

\* Take x out of the list; the next entry inherits its ticks.
Unlink(s, left, x) ==
    LET i == CHOOSE k \in 1..Len(s) : s[k] = x
    IN  [s    |-> RemoveAt(s, i),
         left |-> [y \in Timer |-> IF i < Len(s) /\ y = s[i + 1]
                                     THEN left[y] + left[x] ELSE left[y]]]

SetList(r) == nutTimerList' = r.s /\ tn_ticks_left' = r.left

\* The ticks a new timer starts with count from the last processing.
FirstTicks(n) == (n + nut_ticks - nut_ticks_resume) % TickMod

\* The common part of NutTimerCreate and NutTimerHandleStart; r is the list
\* without x.
Start(x, n, oneshot, r) ==
    /\ SetList(Insert(r.s, [r.left EXCEPT ![x] = FirstTicks(n)], x))
    /\ tn_ticks' = [tn_ticks EXCEPT ![x] = IF oneshot THEN 0 ELSE n]
    /\ tn_callback' = [tn_callback EXCEPT ![x] = TRUE]
    /\ interval' = [interval EXCEPT ![x] = n]
    /\ age' = [age EXCEPT ![x] = 0]
    /\ charged' = [charged EXCEPT ![x] = ticks_new]
    /\ UNCHANGED <<clock, local>>

Code == pc = "thread" \/ pc = "callback"

\* The code that may start timer x: threads, and callbacks with these rights.
MayStart(x) ==
    IF pc = "callback"
      THEN IF x = tn THEN CallbackRestarts ELSE CallbackStarts
      ELSE pc = "thread"

\* The timer is not running any more.
Forget(x) ==
    /\ interval' = [interval EXCEPT ![x] = 0]
    /\ age' = [age EXCEPT ![x] = 0]
    /\ charged' = [charged EXCEPT ![x] = 0]

NutTimerStartTicks(x, n, oneshot) ==
    /\ MayStart(x)
    /\ x \notin allocated
    /\ allocated' = allocated \cup {x}
    /\ Start(x, n, oneshot, [s |-> nutTimerList, left |-> tn_ticks_left])

\* Mutant: a running timer is not taken out of the list first.
NutTimerHandleStart_NoRemove(x, n, oneshot) ==
    /\ x \in Own /\ MayStart(x)
    /\ UNCHANGED allocated
    /\ Start(x, n, oneshot, [s |-> nutTimerList, left |-> tn_ticks_left])

NutTimerHandleStart(x, n, oneshot) ==
    /\ x \in Own /\ MayStart(x)
    /\ UNCHANGED allocated
    /\ Start(x, n, oneshot, IF Contains(nutTimerList, x)
                              THEN Unlink(nutTimerList, tn_ticks_left, x)
                              ELSE [s |-> nutTimerList, left |-> tn_ticks_left])

\* A timer is stopped by whoever started it while it is running.  The entry
\* stays in the list, to be released when it is processed.
NutTimerStop(x) ==
    /\ Code /\ tn_callback[x]
    /\ tn_ticks' = [tn_ticks EXCEPT ![x] = 0]
    /\ tn_callback' = [tn_callback EXCEPT ![x] = FALSE]
    /\ Forget(x)
    /\ IF tn_ticks_left[x] > 0
         THEN LET r == Unlink(nutTimerList, tn_ticks_left, x)
              IN  SetList(Insert(r.s, [r.left EXCEPT ![x] = 0], x))
         ELSE UNCHANGED list
    /\ UNCHANGED <<allocated, clock, local>>

ProcessBegin ==
    /\ pc = "thread"
    /\ ticks_new' = Lag
    /\ nut_ticks_resume' = nut_ticks
    /\ pc' = "process"
    /\ UNCHANGED <<list, tn_ticks, tn_callback, allocated, nut_ticks, tn,
                   history>>

\* Mutant: a timer that has one tick left is treated as elapsed.
Remaining_OffByOne(x) == ticks_new + 1 < tn_ticks_left[x]

\* Has the first timer more ticks left than have passed?
Remaining(x) == ticks_new < tn_ticks_left[x]

\* One round of the loop, up to the callback.
ProcessHead ==
    LET x == Head(nutTimerList)
    IN  /\ pc = "process" /\ nutTimerList # <<>> /\ ticks_new > 0
        /\ IF Remaining(x)
             THEN /\ tn_ticks_left' = [tn_ticks_left EXCEPT ![x] = @ - ticks_new]
                  /\ ticks_new' = 0
                  /\ UNCHANGED <<pc, tn>>
             ELSE /\ ticks_new' = ticks_new - tn_ticks_left[x]
                  /\ tn_ticks_left' = [tn_ticks_left EXCEPT ![x] = 0]
                  /\ pc' = (IF tn_callback[x] THEN "callback" ELSE "remove") /\ tn' = x
        /\ UNCHANGED <<nutTimerList, tn_ticks, tn_callback, allocated, clock,
                       history>>

\* The rest of the round: the first entry leaves the list and the timer is
\* released or, if periodic, inserted again.
ProcessRemove ==
    LET rest == Tail(nutTimerList)
    IN  /\ pc \in {"callback", "remove"} /\ pc' = "process"
        /\ IF tn_ticks[tn] = 0
             THEN /\ SetList([s |-> rest, left |-> [tn_ticks_left EXCEPT ![tn] = 0]])
                  /\ allocated' = allocated \ ({tn} \ Own)
                  /\ tn_callback' = [tn_callback EXCEPT ![tn] = FALSE]
                  /\ Forget(tn)
             ELSE /\ SetList(Insert(rest, [tn_ticks_left EXCEPT ![tn] = tn_ticks[tn]], tn))
                  /\ age' = [age EXCEPT ![tn] = @ - interval[tn]]
                  /\ UNCHANGED <<allocated, tn_callback, interval, charged>>
        /\ tn' = NULL
        /\ UNCHANGED <<tn_ticks, clock, ticks_new>>

ProcessEnd ==
    /\ pc = "process" /\ (nutTimerList = <<>> \/ ticks_new = 0)
    /\ pc' = "thread" /\ ticks_new' = 0
    /\ UNCHANGED <<list, tn_ticks, tn_callback, allocated, clock, tn, history>>

Next ==
    \/ NutTimerIntr
    \/ \E x \in Timer :
         \/ NutTimerStop(x)
         \/ \E n \in Interval, oneshot \in BOOLEAN :
              NutTimerStartTicks(x, n, oneshot) \/ NutTimerHandleStart(x, n, oneshot)
    \/ ProcessBegin \/ ProcessHead \/ ProcessRemove \/ ProcessEnd

Spec == Init /\ [][Next]_vars

-----------------------------------------------------------------------------
TypeOK ==
    /\ nutTimerList \in Seq(Timer)
    /\ tn_ticks_left \in [Timer -> 0..(TickMod - 1)]
    /\ tn_ticks \in [Timer -> Interval \cup {0}]
    /\ tn_callback \in [Timer -> BOOLEAN]
    /\ allocated \in SUBSET Timer
    /\ nut_ticks \in 0..(TickMod - 1) /\ nut_ticks_resume \in 0..(TickMod - 1)
    /\ ticks_new \in 0..MaxLag
    /\ pc \in {"thread", "process", "callback", "remove"}
    /\ tn \in Timer \cup {NULL}

\* The list holds every object once, no released one, and every timer that has
\* been started and has neither been stopped nor elapsed.
ListSound ==
    /\ IsInjective(nutTimerList)
    /\ Range(nutTimerList) \subseteq allocated
    /\ {x \in Timer : tn_callback[x]} \subseteq Range(nutTimerList)

\* No callback comes earlier than by the older ticks that were still to be
\* processed when another callback started the timer.
EarlyByBacklog ==
    pc = "callback" /\ tn_callback[tn] => age[tn] + charged[tn] >= interval[tn]

\* However many timers are started, stopped and processed in between and
\* however the tick counter wraps around, the sum of the ticks up to an entry
\* is the time until its own expiry, counted from the last processed tick.
DeadlineKept ==
    \A i \in 1..Len(nutTimerList) :
        LET x == nutTimerList[i]
        IN  tn_callback[x] =>
              Due(nutTimerList, tn_ticks_left, i) + age[x] + charged[x]
                = interval[x] + Lag + ticks_new

\* Once elapsed timers are processed no timer is overdue; at most it is due
\* and waits for the next tick (the second of two that elapse together).
NoneOverdue ==
    pc = "thread" /\ Lag = 0 =>
        \A x \in Timer : tn_callback[x] => age[x] <= interval[x]
=============================================================================
