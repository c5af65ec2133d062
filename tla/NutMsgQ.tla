------------------------------ MODULE NutMsgQ ------------------------------
(***************************************************************************)
(* The message queues of os/msg.c: ring buffers with an event queue for    *)
(* the readers, and message timers.  All of it runs in thread context      *)
(* (timer callbacks are called from NutThreadResume), so an action is what *)
(* the code does until it may lose the CPU, which is inside the            *)
(* NutEventWait of NutMsgQGetMessage only.  Senders are not identified.    *)
(* The timers of NutTimerStart come from the heap: a start may fail with   *)
(* NULL, which msg.c stores without a test.  A NUTMSGTMR for which the     *)
(* heap has no room is written through a null pointer; that is undefined   *)
(* behaviour, and no more objects than Timer are taken.                    *)
(***************************************************************************)
EXTENDS NutEventQueue, Integers, FiniteSets

CONSTANTS
    Queue,
    Bits,       \* the parameter of NutMsgQCreate
    ReaderOf,   \* ReaderOf[t]: the queue thread t reads with NutMsgQGetMessage
    Timer,      \* the NUTMSGTMR objects that fit into the heap
    Payload,    \* user messages
    NULL,
    FlushBy     \* who flushes queues: "nobody", their "reader" or "anyone"

Size == 2 ^ Bits
Mask == Size - 1

ASSUME MsgQAssumption ==
    /\ Bits \in 1..6 /\ Size \in {2, 4, 8, 16, 32, 64}
    /\ NULL \notin Queue \cup {"running"}
    /\ ReaderOf \in [Thread -> Queue]
    /\ FlushBy \in {"nobody", "reader", "anyone"}

\* Messages: MSG_TIMER with its NUTMSGTMR, MSG_NULL, or a user's id and data.
UserMsg(d) == [id |-> "user", data |-> d]
TimerMsg(x) == [id |-> "MSG_TIMER", data |-> x]
NullMsg == [id |-> "MSG_NULL", data |-> NULL]
Message == {UserMsg(d) : d \in Payload} \cup {TimerMsg(x) : x \in Timer}

VARIABLES
    nutMsgQue,        \* the global list of queues
    mq_que, mq_read, mq_write, mq_wait, mq_timers,
    nutMsgFreeTimers,
    mt_que, mt_flags, \* queue and flags of a NUTMSGTMR
    mt_handle,        \* its running timer: NULL or "running"
    pc,               \* a reader is "run", "wait" or "woken"
    msg,              \* the message taken out of each queue last
    stranded          \* history: timer objects whose message was flushed or
                      \* whose timer could not be started

ring == <<mq_que, mq_read, mq_write>>
timers == <<mq_timers, nutMsgFreeTimers, mt_que, mt_flags, mt_handle>>
vars == <<nutMsgQue, ring, mq_wait, timers, pc, msg, stranded>>

Init ==
    /\ nutMsgQue = <<>>
    /\ mq_que = [q \in Queue |-> [i \in 0..Mask |-> NullMsg]]
    /\ mq_read = [q \in Queue |-> 0]
    /\ mq_write = [q \in Queue |-> 0]
    /\ mq_wait = [q \in Queue |-> <<>>]
    /\ mq_timers = [q \in Queue |-> <<>>]
    /\ nutMsgFreeTimers = <<>>
    /\ mt_que = [x \in Timer |-> NULL]
    /\ mt_flags = [x \in Timer |-> 0]
    /\ mt_handle = [x \in Timer |-> NULL]
    /\ pc = [t \in Thread |-> "run"]
    /\ msg = [q \in Queue |-> NullMsg]
    /\ stranded = {}

Created(q) == q \in Range(nutMsgQue)

NutMsgQCreate(q) ==
    /\ ~Created(q)
    /\ nutMsgQue' = <<q>> \o nutMsgQue
    /\ UNCHANGED <<ring, mq_wait, timers, pc, msg, stranded>>

Advance(i) == (i + 1) % Size

\* Mutant: the slot that tells a full ring from an empty one is used, too.
NutMsgQFull_NoSlot(q) == FALSE

NutMsgQFull(q) == Advance(mq_write[q]) = mq_read[q]

\* NutMsgQPost to each of a set of queues; full ones do not take the message.
PostTo(qs, m) ==
    LET ok == {q \in qs : ~NutMsgQFull(q)}
    IN  /\ mq_que' = [q \in Queue |-> IF q \in ok
                        THEN [mq_que[q] EXCEPT ![mq_write[q]] = m] ELSE mq_que[q]]
        /\ mq_write' = [q \in Queue |-> IF q \in ok THEN Advance(mq_write[q])
                                        ELSE mq_write[q]]
        /\ mq_wait' = [q \in Queue |-> IF q \in ok THEN PostAsync(mq_wait[q])
                                       ELSE mq_wait[q]]
        /\ pc' = [t \in Thread |-> IF \E q \in ok : t \in WokenBy(mq_wait[q])
                                     THEN "woken" ELSE pc[t]]
        /\ UNCHANGED <<mq_read, nutMsgQue, msg>>

\* NutMsgQPost and NutMsgQSend.
NutMsgQPost(q, d) ==
    /\ Created(q)
    /\ PostTo({q}, UserMsg(d))
    /\ UNCHANGED <<timers, stranded>>

NutMsgQBroadcast(d) ==
    /\ PostTo(Range(nutMsgQue), UserMsg(d))
    /\ UNCHANGED <<timers, stranded>>

\* What NutTimerStart and NutTimerStartTicks return.
Handle == {"running", NULL}

\* Take a NUTMSGTMR from the free list or the heap and start its timer, which
\* gives the handle h.
NutMsgQStartTimer(q, x, flags, h) ==
    /\ Created(q)
    /\ IF nutMsgFreeTimers # <<>>
         THEN /\ x = Head(nutMsgFreeTimers)
              /\ nutMsgFreeTimers' = Tail(nutMsgFreeTimers)
         ELSE mt_que[x] = NULL /\ UNCHANGED nutMsgFreeTimers
    /\ mt_que' = [mt_que EXCEPT ![x] = q]
    /\ mt_flags' = [mt_flags EXCEPT ![x] = flags]
    /\ mt_handle' = [mt_handle EXCEPT ![x] = h]
    /\ mq_timers' = [mq_timers EXCEPT ![q] = <<x>> \o @]
    /\ stranded' = IF h = NULL THEN stranded \cup {x} ELSE stranded \ {x}
    /\ UNCHANGED <<nutMsgQue, ring, mq_wait, pc, msg>>

\* Mutant: a one-shot timer that finds the ring full is given up.
TimerCbHandle_Lost(x, h) ==
    IF mt_flags[x] = 0 THEN mt_handle[x] ELSE NULL

\* The timer of x after its callback: a one-shot that could not post is
\* started again, which gives the handle h.
TimerCbHandle(x, h) ==
    IF mt_flags[x] = 0 THEN mt_handle[x]
    ELSE IF NutMsgQFull(mt_que[x]) THEN h ELSE NULL

NutMsgQTimerCb(x, h) ==
    /\ mt_handle[x] = "running"
    /\ PostTo({mt_que[x]}, TimerMsg(x))
    /\ mt_handle' = [mt_handle EXCEPT ![x] = TimerCbHandle(x, h)]
    /\ stranded' = IF mt_flags[x] = 1 /\ NutMsgQFull(mt_que[x]) /\ h = NULL
                     THEN stranded \cup {x} ELSE stranded
    /\ UNCHANGED <<mq_timers, nutMsgFreeTimers, mt_que, mt_flags>>

NutMsgQFreeTimer(q, x) ==
    /\ mq_timers' = [mq_timers EXCEPT ![q] = RemoveFirst(@, x)]
    /\ nutMsgFreeTimers' = IF x \in Range(mq_timers[q])
                             THEN <<x>> \o nutMsgFreeTimers ELSE nutMsgFreeTimers

\* Mutant: messages of a stopped timer stay in the ring.
Retract_Nothing(q, x) == mq_que[q]

\* The ring with all messages of timer x between read and write voided.
Retract(q, x) ==
    [i \in 0..Mask |->
       IF (i - mq_read[q]) % Size < (mq_write[q] - mq_read[q]) % Size
          /\ mq_que[q][i] = TimerMsg(x)
         THEN [mq_que[q][i] EXCEPT !.id = "MSG_NULL"] ELSE mq_que[q][i]]

\* A caller stops timers it has started and whose one-shot message it has not
\* received ("You must not stop a one shot that has already expired").
NutMsgQStopTimer(x) ==
    LET q == mt_que[x]
    IN  /\ \E p \in Queue : x \in Range(mq_timers[p])
        /\ mq_que' = [mq_que EXCEPT ![q] = Retract(q, x)]
        /\ mt_handle' = [mt_handle EXCEPT ![x] = NULL]
        /\ NutMsgQFreeTimer(q, x)
        /\ UNCHANGED <<nutMsgQue, mq_read, mq_write, mq_wait, mt_que, mt_flags,
                       pc, msg, stranded>>

\* NutMsgQGetMessage up to the end of NutEventWait, which yields even if the
\* queue is signaled.
NutMsgQGetMessage(t) ==
    LET q == ReaderOf[t]
    IN  /\ Created(q) /\ pc[t] = "run"
        /\ IF mq_wait[q] = SIGNALED
             THEN /\ mq_wait' = [mq_wait EXCEPT ![q] = <<>>]
                  /\ pc' = [pc EXCEPT ![t] = "woken"]
             ELSE /\ mq_wait' = [mq_wait EXCEPT ![q] = WaitIn(@, t)]
                  /\ pc' = [pc EXCEPT ![t] = "wait"]
        /\ UNCHANGED <<nutMsgQue, ring, timers, msg, stranded>>

\* The wait ends with a time-out and -1 is returned.
GetTimeout(t) ==
    LET q == ReaderOf[t]
    IN  /\ pc[t] = "wait"
        /\ mq_wait' = [mq_wait EXCEPT ![q] = TimeOut(@, t)]
        /\ pc' = [pc EXCEPT ![t] = "run"]
        /\ UNCHANGED <<nutMsgQue, ring, timers, msg, stranded>>

\* Mutant: the reader never posts for the messages left behind.
MoreMessages_No(q, r) == FALSE

\* Are there more messages once mq_read has moved on to r?
MoreMessages(q, r) == r # mq_write[q]

\* The rest of NutMsgQGetMessage: take the message, post if more are left,
\* release the timer object of a one-shot.
GetFinish(t) ==
    LET q == ReaderOf[t]
        m == mq_que[q][mq_read[q]]
        r == Advance(mq_read[q])
        more == MoreMessages(q, r)
    IN  /\ pc[t] = "woken"
        /\ msg' = [msg EXCEPT ![q] = m]
        /\ mq_read' = [mq_read EXCEPT ![q] = r]
        /\ mq_wait' = [mq_wait EXCEPT ![q] = IF more THEN PostAsync(@) ELSE @]
        /\ pc' = [u \in Thread |-> IF u = t THEN "run"
                                   ELSE IF more /\ u \in WokenBy(mq_wait[q])
                                     THEN "woken" ELSE pc[u]]
        /\ IF m.id = "MSG_TIMER" /\ mt_flags[m.data] = 1
             THEN NutMsgQFreeTimer(q, m.data)
             ELSE UNCHANGED <<mq_timers, nutMsgFreeTimers>>
        /\ UNCHANGED <<nutMsgQue, mq_que, mq_write, mt_que, mt_flags, mt_handle,
                       stranded>>

\* The messages in the ring, oldest first.
Pending(q) == (mq_write[q] - mq_read[q]) % Size
Content(q) == [i \in 1..Pending(q) |-> mq_que[q][(mq_read[q] + i - 1) % Size]]

\* Called when nobody waits in the queue ("You want to flush only when you are
\* not waitin on it").
NutMsgQFlush(q) ==
    /\ Created(q) /\ Waiters(mq_wait[q]) = <<>>
    /\ FlushBy # "nobody"
    /\ FlushBy = "reader" => \A t \in Thread : ReaderOf[t] = q => pc[t] = "run"
    /\ mq_read' = [mq_read EXCEPT ![q] = mq_write[q]]
    /\ mq_wait' = [mq_wait EXCEPT ![q] = <<>>]
    /\ stranded' = stranded \cup {x \in Timer : TimerMsg(x) \in Range(Content(q))}
    /\ UNCHANGED <<nutMsgQue, mq_que, mq_write, timers, pc, msg>>

Next ==
    \/ \E q \in Queue :
         \/ NutMsgQCreate(q) \/ NutMsgQFlush(q)
         \/ \E d \in Payload : NutMsgQPost(q, d)
         \/ \E x \in Timer, flags \in {0, 1}, h \in Handle :
              NutMsgQStartTimer(q, x, flags, h)
    \/ \E d \in Payload : NutMsgQBroadcast(d)
    \/ \E x \in Timer : NutMsgQStopTimer(x) \/ \E h \in Handle : NutMsgQTimerCb(x, h)
    \/ \E t \in Thread : NutMsgQGetMessage(t) \/ GetFinish(t) \/ GetTimeout(t)

Spec == Init /\ [][Next]_vars

-----------------------------------------------------------------------------
TypeOK ==
    /\ nutMsgQue \in Seq(Queue)
    /\ mq_que \in [Queue -> [0..Mask -> [id : {"user", "MSG_TIMER", "MSG_NULL"},
                                         data : Payload \cup Timer \cup {NULL}]]]
    /\ mq_read \in [Queue -> 0..Mask] /\ mq_write \in [Queue -> 0..Mask]
    /\ mq_wait \in [Queue -> Seq(Thread) \cup {SIGNALED}]
    /\ mq_timers \in [Queue -> Seq(Timer)]
    /\ nutMsgFreeTimers \in Seq(Timer)
    /\ mt_que \in [Timer -> Queue \cup {NULL}]
    /\ mt_flags \in [Timer -> {0, 1}]
    /\ mt_handle \in [Timer -> {NULL, "running"}]
    /\ pc \in [Thread -> {"run", "wait", "woken"}]

Awake(q) == \E t \in Thread : ReaderOf[t] = q /\ pc[t] = "woken"

\* Messages in the ring never wait without a reader being told of them.
NoStuckMessage ==
    \A q \in Queue : mq_read[q] # mq_write[q] => mq_wait[q] = SIGNALED \/ Awake(q)

\* The timer objects of a queue's list and of the free list are different, so
\* that "Timer already freed" is never reached, a message from a timer in the
\* ring belongs to an object on the list, and so does every running timer.
TimersAccounted ==
    LET listed(q) == Range(mq_timers[q])
    IN  /\ \A q \in Queue :
             /\ IsInjective(mq_timers[q])
             /\ listed(q) \cap Range(nutMsgFreeTimers) = {}
             /\ \A x \in listed(q) : mt_que[x] = q
             /\ \A i \in 1..Pending(q) : Content(q)[i].id = "MSG_TIMER" =>
                  Content(q)[i].data \in listed(q)
        /\ IsInjective(nutMsgFreeTimers)
        /\ \A x \in Timer : mt_handle[x] # NULL => x \in listed(mt_que[x])

Fifo == INSTANCE MsgFifo WITH
          Void <- NULL, Capacity <- Mask,
          Message <- Message,
          channel <- [q \in Queue |-> [i \in 1..Pending(q) |->
                        IF Content(q)[i].id = "MSG_NULL" THEN NULL ELSE Content(q)[i]]],
          received <- [q \in Queue |-> IF msg[q].id = "MSG_NULL" THEN NULL ELSE msg[q]]

\* The ring buffers are first-in first-out channels of capacity 2^bits - 1.
ImplementsFifo == Fifo!Spec

\* A one-shot is restarted "until It gets into the que otherwise we can not
\* deallocate the NUTMSGTMR": every one-shot on a queue's list has a running
\* timer or a message in the ring, whose reader will release it, unless
\* NutMsgQFlush has dropped that message or a timer could not be started:
\* NutMsgQTimerCb and NutMsgQStartTimer store the NULL of a failed start, and
\* nothing takes such an object off the list but NutMsgQStopTimer.
OneShotNotLost ==
    \A q \in Queue : \A x \in Range(mq_timers[q]) :
        mt_flags[x] = 1 /\ mt_handle[x] = NULL /\ x \notin stranded =>
            TimerMsg(x) \in Range(Content(q))
=============================================================================
