--------------------------- MODULE NutMsgQProofs ----------------------------
(***************************************************************************)
(* The message queues of os/msg.c are correct for any number of queues,    *)
(* timers and messages and rings of every size NutMsgQCreate allows, as    *)
(* long as every queue has one reader and nobody else flushes it.          *)
(***************************************************************************)
EXTENDS NutMsgQ, NutThreadQueueProofs

\* The ring arithmetic for places r (read) and w (write).
LEMMA RingSize == Size \in Nat /\ Size >= 2 /\ Mask = Size - 1 /\ Mask \in Nat
  BY MsgQAssumption DEF Mask

\* Moving a place on, around the end of the ring.
LEMMA AdvancePlace ==
    ASSUME NEW r \in 0..Mask
    PROVE  Advance(r) = IF r = Mask THEN 0 ELSE r + 1
  BY MsgQAssumption DEF Mask, Advance

\* How many places w is ahead of r.
LEMMA Distance ==
    ASSUME NEW r \in 0..Mask, NEW w \in 0..Mask
    PROVE  (w - r) % Size = IF r <= w THEN w - r ELSE w - r + Size
  BY MsgQAssumption DEF Mask

\* The place of the i-th message.
LEMMA Place ==
    ASSUME NEW r \in 0..Mask, NEW i \in 1..Size
    PROVE  (r + i - 1) % Size = IF r + i <= Size THEN r + i - 1 ELSE r + i - 1 - Size
  BY MsgQAssumption DEF Mask

\* What a slot of a ring may hold.
Slot == [id : {"user", "MSG_TIMER", "MSG_NULL"}, data : Payload \cup Timer \cup {NULL}]

Ring ==
    /\ mq_que \in [Queue -> [0..Mask -> Slot]]
    /\ mq_read \in [Queue -> 0..Mask] /\ mq_write \in [Queue -> 0..Mask]

\* The messages in a ring are a sequence of at most Mask messages.
LEMMA ContentType ==
    ASSUME Ring, NEW q \in Queue
    PROVE  /\ Pending(q) \in 0..Mask
           /\ Pending(q) = 0 <=> mq_read[q] = mq_write[q]
           /\ NutMsgQFull(q) <=> Pending(q) = Mask
           /\ Content(q) \in Seq(Slot) /\ Len(Content(q)) = Pending(q)
           /\ DOMAIN Content(q) = 1..Pending(q)
<1> DEFINE r == mq_read[q]
           w == mq_write[q]
<1>1. r \in 0..Mask /\ w \in 0..Mask /\ mq_que[q] \in [0..Mask -> Slot]
  BY DEF Ring
<1>2. Pending(q) = IF r <= w THEN w - r ELSE w - r + Size
  BY <1>1, Distance DEF Pending
<1>3. NutMsgQFull(q) <=> (IF w = Mask THEN 0 ELSE w + 1) = r
  BY <1>1, AdvancePlace DEF NutMsgQFull
<1> HIDE DEF r, w
<1>4. /\ Pending(q) \in 0..Mask
      /\ Pending(q) = 0 <=> r = w
      /\ NutMsgQFull(q) <=> Pending(q) = Mask
  BY <1>1, <1>2, <1>3, RingSize
<1>5. ASSUME NEW i \in 1..Pending(q)
      PROVE  mq_que[q][(r + i - 1) % Size] \in Slot
  <2>1. i \in 1..Size
    BY <1>4, RingSize
  <2>2. (r + i - 1) % Size \in 0..Mask
    BY <1>1, <2>1, Place, RingSize
  <2> QED  BY <1>1, <2>2
<1>6. Content(q) = [i \in 1..Pending(q) |-> mq_que[q][(r + i - 1) % Size]]
  BY DEF Content, r
<1>7. Content(q) \in Seq(Slot) /\ Len(Content(q)) = Pending(q)
      /\ DOMAIN Content(q) = 1..Pending(q)
  <2>1. Content(q) \in [1..Pending(q) -> Slot]
    BY <1>5, <1>6
  <2>2. Pending(q) \in Nat
    BY <1>4, RingSize
  <2> QED  BY <2>1, <2>2, SeqDef, LenProperties
<1> QED
  BY <1>4, <1>7 DEF r, w

\* A posted message becomes the last one.
LEMMA ContentPost ==
    ASSUME Ring, NEW q \in Queue, NEW m \in Slot, ~NutMsgQFull(q),
           mq_read'[q] = mq_read[q], mq_write'[q] = Advance(mq_write[q]),
           mq_que'[q] = [mq_que[q] EXCEPT ![mq_write[q]] = m]
    PROVE  /\ Pending(q)' = Pending(q) + 1
           /\ \A i \in 1..Pending(q) : Content(q)'[i] = Content(q)[i]
           /\ Content(q)'[Pending(q) + 1] = m
           /\ mq_write'[q] \in 0..Mask /\ mq_que'[q] \in [0..Mask -> Slot]
<1> DEFINE r == mq_read[q]
           w == mq_write[q]
           v == IF w = Mask THEN 0 ELSE w + 1
           n == Pending(q)
<1>1. r \in 0..Mask /\ w \in 0..Mask /\ mq_que[q] \in [0..Mask -> Slot]
  BY DEF Ring
<1>2. mq_write'[q] = v /\ v \in 0..Mask /\ v # r
  <2>1. mq_write'[q] = v /\ v # r
    BY <1>1, AdvancePlace DEF NutMsgQFull
  <2> QED  BY <1>1, <2>1, RingSize
<1>3. n = IF r <= w THEN w - r ELSE w - r + Size
  BY <1>1, Distance DEF Pending
<1>4. Pending(q)' = IF r <= v THEN v - r ELSE v - r + Size
  <2>1. Pending(q)' = (v - r) % Size
    BY <1>2 DEF Pending
  <2> HIDE DEF v, r
  <2> QED  BY <1>1, <1>2, <2>1, Distance
<1>5. mq_que'[q] = [mq_que[q] EXCEPT ![w] = m]
  OBVIOUS
<1>6. Content(q)' = [i \in 1..Pending(q)' |-> mq_que'[q][(r + i - 1) % Size]]
  BY DEF Content
<1>7. Content(q) = [i \in 1..n |-> mq_que[q][(r + i - 1) % Size]]
  BY DEF Content
<1> HIDE DEF r, w, n
<1>8. Pending(q)' = n + 1 /\ n \in 0..(Mask - 1)
  BY <1>1, <1>2, <1>3, <1>4, RingSize
<1> HIDE DEF v
<1>9. ASSUME NEW i \in 1..n
      PROVE  Content(q)'[i] = Content(q)[i]
  <2>1. i \in 1..Size
    BY <1>8, RingSize
  <2>2. (r + i - 1) % Size \in 0..Mask /\ (r + i - 1) % Size # w
    <3>1. (r + i - 1) % Size = IF r + i <= Size THEN r + i - 1 ELSE r + i - 1 - Size
      BY <1>1, <2>1, Place
    <3> QED  BY <1>1, <1>3, <1>8, <2>1, <3>1, RingSize, SMTT(30)
  <2>3. i \in 1..Pending(q)'
    BY <1>8
  <2> QED  BY <1>1, <1>5, <1>6, <1>7, <2>2, <2>3
<1>10. Content(q)'[n + 1] = m
  <2>1. n + 1 \in 1..Size /\ n + 1 \in 1..Pending(q)'
    BY <1>8, RingSize
  <2>2. (r + (n + 1) - 1) % Size = w
    <3>1. (r + (n + 1) - 1) % Size = IF r + (n + 1) <= Size THEN r + (n + 1) - 1
                                     ELSE r + (n + 1) - 1 - Size
      BY <1>1, <2>1, Place
    <3> QED  BY <1>1, <1>3, <1>8, <3>1, RingSize
  <2> QED  BY <1>1, <1>5, <1>6, <2>1, <2>2
<1>11. mq_que'[q] \in [0..Mask -> Slot]
  BY <1>1, <1>5
<1> QED
  BY <1>2, <1>8, <1>9, <1>10, <1>11 DEF n

\* The first message leaves.
LEMMA ContentGet ==
    ASSUME Ring, NEW q \in Queue, mq_read[q] # mq_write[q],
           mq_read'[q] = Advance(mq_read[q]), mq_write'[q] = mq_write[q],
           mq_que'[q] = mq_que[q]
    PROVE  /\ Pending(q) = Pending(q)' + 1 /\ Pending(q)' \in 0..Mask
           /\ Content(q)[1] = mq_que[q][mq_read[q]]
           /\ \A i \in 1..Pending(q)' : Content(q)'[i] = Content(q)[i + 1]
           /\ mq_read'[q] \in 0..Mask
           /\ Advance(mq_read[q]) # mq_write[q] <=> Pending(q)' > 0
<1> DEFINE r == mq_read[q]
           w == mq_write[q]
           v == IF r = Mask THEN 0 ELSE r + 1
           n == Pending(q)'
<1>1. r \in 0..Mask /\ w \in 0..Mask /\ r # w
  BY DEF Ring
<1>2. Advance(r) = v
  BY <1>1, AdvancePlace
<1>3. Pending(q) = IF r <= w THEN w - r ELSE w - r + Size
  BY <1>1, Distance DEF Pending
<1>4. mq_read'[q] = v /\ v \in 0..Mask
  BY <1>1, <1>2, RingSize
<1>5. n = IF v <= w THEN w - v ELSE w - v + Size
  <2>1. n = (w - v) % Size
    BY <1>4 DEF Pending
  <2> HIDE DEF v, w, n
  <2> QED  BY <1>1, <1>4, <2>1, Distance
<1>6. Content(q)' = [i \in 1..n |-> mq_que[q][(v + i - 1) % Size]]
  BY <1>4 DEF Content
<1>7. Content(q) = [i \in 1..Pending(q) |-> mq_que[q][(r + i - 1) % Size]]
  BY DEF Content
<1> HIDE DEF r, w, n
<1>8. Pending(q) = n + 1 /\ n \in 0..(Mask - 1) /\ (v # w <=> n > 0)
  BY <1>1, <1>3, <1>4, <1>5, RingSize
<1>9. Content(q)[1] = mq_que[q][r]
  <2>1. 1 \in 1..Size /\ 1 \in 1..Pending(q)
    BY <1>8, RingSize
  <2>2. (r + 1 - 1) % Size = r
    <3>1. (r + 1 - 1) % Size = IF r + 1 <= Size THEN r + 1 - 1 ELSE r + 1 - 1 - Size
      BY <1>1, <2>1, Place
    <3> QED  BY <1>1, <3>1, RingSize
  <2> QED  BY <1>7, <2>1, <2>2
<1>10. ASSUME NEW i \in 1..n
       PROVE  Content(q)'[i] = Content(q)[i + 1]
  <2>1. i \in 1..Size /\ i + 1 \in 1..Size /\ i + 1 \in 1..Pending(q)
    BY <1>8, RingSize
  <2>2. (v + i - 1) % Size = (r + (i + 1) - 1) % Size
    <3> HIDE DEF v
    <3>1. (v + i - 1) % Size = IF v + i <= Size THEN v + i - 1 ELSE v + i - 1 - Size
      BY <1>4, <2>1, Place
    <3>2. (r + (i + 1) - 1) % Size = IF r + (i + 1) <= Size THEN r + (i + 1) - 1
                                     ELSE r + (i + 1) - 1 - Size
      BY <1>1, <2>1, Place
    <3> QED  BY <1>1, <1>8, <3>1, <3>2, RingSize DEF v
  <2> QED  BY <1>6, <1>7, <2>1, <2>2
<1>11. n \in 0..Mask
  BY <1>8, RingSize
<1> QED
  BY <1>2, <1>4, <1>8, <1>9, <1>10, <1>11 DEF r, w, n

\* Stopping a timer voids its messages and leaves the others where they are.
LEMMA ContentRetract ==
    ASSUME Ring, NEW q \in Queue, NEW x \in Timer,
           mq_read'[q] = mq_read[q], mq_write'[q] = mq_write[q],
           mq_que'[q] = Retract(q, x)
    PROVE  /\ Pending(q)' = Pending(q)
           /\ \A i \in 1..Pending(q) :
                Content(q)'[i] = IF Content(q)[i] = TimerMsg(x)
                                   THEN [Content(q)[i] EXCEPT !.id = "MSG_NULL"]
                                   ELSE Content(q)[i]
           /\ mq_que'[q] \in [0..Mask -> Slot]
<1> DEFINE r == mq_read[q]
           w == mq_write[q]
           n == Pending(q)
<1>1. r \in 0..Mask /\ w \in 0..Mask /\ mq_que[q] \in [0..Mask -> Slot]
  BY DEF Ring
<1>2. Pending(q)' = n
  BY DEF Pending
<1>3. n = IF r <= w THEN w - r ELSE w - r + Size
  BY <1>1, Distance DEF Pending
<1>4. Content(q) = [i \in 1..n |-> mq_que[q][(r + i - 1) % Size]]
  BY DEF Content
<1>5. Content(q)' = [i \in 1..n |-> mq_que'[q][(r + i - 1) % Size]]
  BY <1>2 DEF Content
<1>6. mq_que'[q] = [i \in 0..Mask |->
                      IF (i - r) % Size < n /\ mq_que[q][i] = TimerMsg(x)
                        THEN [mq_que[q][i] EXCEPT !.id = "MSG_NULL"] ELSE mq_que[q][i]]
  BY DEF Retract, Pending
<1> HIDE DEF r, w, n
<1>7. n \in 0..Mask
  BY <1>1, <1>3, RingSize
<1>8. ASSUME NEW i \in 1..n
      PROVE  Content(q)'[i] = IF Content(q)[i] = TimerMsg(x)
                                THEN [Content(q)[i] EXCEPT !.id = "MSG_NULL"]
                                ELSE Content(q)[i]
  <2> DEFINE p == (r + i - 1) % Size
  <2>1. i \in 1..Size
    BY <1>7, RingSize
  <2>2. p = IF r + i <= Size THEN r + i - 1 ELSE r + i - 1 - Size
    BY <1>1, <2>1, Place
  <2> HIDE DEF p
  <2>3. p \in 0..Mask
    BY <1>1, <2>1, <2>2, RingSize
  <2>4. (p - r) % Size < n
    <3>1. (p - r) % Size = IF r <= p THEN p - r ELSE p - r + Size
      BY <1>1, <2>3, Distance
    <3> QED  BY <1>1, <1>7, <2>1, <2>2, <3>1, RingSize
  <2>5. Content(q)[i] = mq_que[q][p] /\ Content(q)'[i] = mq_que'[q][p]
    BY <1>4, <1>5 DEF p
  <2> QED  BY <1>6, <2>3, <2>4, <2>5
<1>9. mq_que'[q] \in [0..Mask -> Slot]
  <2>1. ASSUME NEW s \in Slot  PROVE [s EXCEPT !.id = "MSG_NULL"] \in Slot
    BY DEF Slot
  <2>2. ASSUME NEW i \in 0..Mask  PROVE mq_que'[q][i] \in Slot
    BY <1>1, <1>6, <2>1
  <2> QED  BY <1>6, <2>2
<1> QED
  BY <1>2, <1>8, <1>9 DEF n

\* The messages depend on the ring only.
LEMMA ContentSame ==
    ASSUME NEW q, mq_read'[q] = mq_read[q], mq_write'[q] = mq_write[q],
           mq_que'[q] = mq_que[q]
    PROVE  Pending(q)' = Pending(q) /\ Content(q)' = Content(q)
  BY DEF Pending, Content

-----------------------------------------------------------------------------
(***************************************************************************)
(* Readers.  A reader has been told of messages by the signaled queue or   *)
(* by being woken up, never more often than there are messages, and at     *)
(* least once if there are any.                                            *)
(***************************************************************************)
OneReader == \A t, u \in Thread : ReaderOf[t] = ReaderOf[u] => t = u

Told(q) == (IF mq_wait[q] = SIGNALED THEN 1 ELSE 0) + (IF Awake(q) THEN 1 ELSE 0)

Waits(t, q) == ReaderOf[t] = q /\ pc[t] = "wait" /\ mq_wait[q] = <<t>>

ReaderOK(q) ==
    /\ \A t \in Thread : ReaderOf[t] = q /\ pc[t] = "wait" => mq_wait[q] = <<t>>
    /\ mq_wait[q] \in {<<>>, SIGNALED} \/ \E t \in Thread : Waits(t, q)
    /\ Told(q) <= Pending(q)
    /\ Pending(q) > 0 => Told(q) > 0

\* A queue with one waiting thread is not signaled and not empty.
LEMMA OneWaiter ==
    ASSUME NEW t \in Thread
    PROVE  /\ <<t>> # SIGNALED /\ <<t>> # <<>> /\ <<>> # SIGNALED
           /\ Waiters(<<t>>) = <<t>> /\ WokenBy(<<t>>) = {t} /\ PostAsync(<<t>>) = <<>>
           /\ Waiters(<<>>) = <<>> /\ Waiters(SIGNALED) = <<>>
<1>1. <<t>> \in Seq(Thread) /\ <<t>> # <<>> /\ Head(<<t>>) = t /\ Tail(<<t>>) = <<>>
  OBVIOUS
<1>2. <<>> \in Seq(Thread)
  OBVIOUS
<1>3. <<t>> # SIGNALED /\ <<>> # SIGNALED
  BY <1>1, <1>2, EventQueueAssumption
<1>4. Waiters(<<t>>) = <<t>> /\ Waiters(<<>>) = <<>> /\ Waiters(SIGNALED) = <<>>
  BY <1>3 DEF Waiters
<1> QED
  BY <1>1, <1>3, <1>4 DEF WokenBy, PostAsync

\* A chain of one thread.
LEMMA SoleThread ==
    ASSUME NEW t \in Thread, NEW r \in Seq(Thread), Len(r) = 1, Range(r) = {t}
    PROVE  r = <<t>>
<1>1. r[1] \in Range(r)
  BY DEF Range
<1> QED
  BY <1>1

\* The only thread in a queue.
LEMMA SoleWaiter ==
    ASSUME NEW t \in Thread
    PROVE  WaitIn(<<>>, t) = <<t>>
<1>1. Prio \in [Thread -> Nat]
  <2>1. Prio \in [Thread -> 0..254]
    BY EventQueueAssumption
  <2> QED  BY <2>1, SMT
<1>2. PICK w \in Seq(Thread) : w = <<>>
  BY EmptySeq
<1>3. w \in Seq(Thread) /\ Len(w) = 0 /\ Range(w) = {}
  BY <1>2, EmptySeq, EmptyChain
<1>4. PICK r : r = AddPriQueue(w, t, Prio)
  OBVIOUS
<1>5. r \in Seq(Thread) /\ Len(r) = Len(w) + 1 /\ Range(r) = Range(w) \cup {t}
  <2>1. w \in Seq(Thread)
    BY <1>3
  <2>2. /\ AddPriQueue(w, t, Prio) \in Seq(Thread)
        /\ Len(AddPriQueue(w, t, Prio)) = Len(w) + 1
        /\ Range(AddPriQueue(w, t, Prio)) = Range(w) \cup {t}
    BY <1>1, <2>1, AddPriQueueType
  <2> QED  BY <1>4, <2>2
<1>6. Len(r) = 1 /\ Range(r) = {t}
  BY <1>3, <1>5
<1>7. r = <<t>>
  BY <1>5, <1>6, SoleThread
<1>8. WaitIn(w, t) = r
  BY <1>2, <1>4, OneWaiter DEF WaitIn
<1> QED
  BY <1>2, <1>7, <1>8

\* Posting to a queue in which nobody waits signals it.
LEMMA NoWaiter ==
    ASSUME NEW s \in {<<>>, SIGNALED}
    PROVE  Waiters(s) = <<>> /\ WokenBy(s) = {} /\ PostAsync(s) = SIGNALED
  BY DEF Waiters, WokenBy, PostAsync

\* Nothing happens to the queue and its reader.
LEMMA ReaderSame ==
    ASSUME NEW q \in Queue, ReaderOK(q), Pending(q)' = Pending(q),
           mq_wait'[q] = mq_wait[q],
           \A t \in Thread : ReaderOf[t] = q => pc'[t] = pc[t]
    PROVE  ReaderOK(q)'
<1>1. Awake(q)' <=> Awake(q)
  BY DEF Awake
<1>2. Told(q)' = Told(q)
  BY <1>1 DEF Told
<1>3. \A t \in Thread : Waits(t, q) => Waits(t, q)'
  BY DEF Waits
<1>4. mq_wait'[q] \in {<<>>, SIGNALED} \/ \E t \in Thread : Waits(t, q)'
  BY <1>3 DEF ReaderOK
<1>5. \A t \in Thread : ReaderOf[t] = q /\ pc'[t] = "wait" => mq_wait'[q] = <<t>>
  BY DEF ReaderOK
<1>6. Told(q)' <= Pending(q)' /\ (Pending(q)' > 0 => Told(q)' > 0)
  BY <1>2 DEF ReaderOK
<1> QED
  BY <1>4, <1>5, <1>6 DEF ReaderOK

\* A message is added and announced.
LEMMA ReaderPosted ==
    ASSUME OneReader, NEW q \in Queue, ReaderOK(q),
           Pending(q) \in Nat, Pending(q)' = Pending(q) + 1,
           mq_wait'[q] = PostAsync(mq_wait[q]),
           \A t \in Thread : ReaderOf[t] = q =>
              pc'[t] = IF t \in WokenBy(mq_wait[q]) THEN "woken" ELSE pc[t]
    PROVE  ReaderOK(q)'
<1>1. CASE mq_wait[q] \in {<<>>, SIGNALED}
  <2>1. mq_wait'[q] = SIGNALED /\ WokenBy(mq_wait[q]) = {}
    BY <1>1, NoWaiter
  <2>2. \A t \in Thread : ReaderOf[t] = q => pc'[t] = pc[t]
    BY <2>1
  <2>3. \A t \in Thread : <<t>> \notin {<<>>, SIGNALED}
    BY OneWaiter
  <2>4. \A t \in Thread : ReaderOf[t] = q => pc'[t] # "wait"
    BY <1>1, <2>2, <2>3 DEF ReaderOK
  <2>5. Awake(q)' <=> Awake(q)
    BY <2>2 DEF Awake
  <2>6. Told(q)' = 1 + (IF Awake(q) THEN 1 ELSE 0)
    BY <2>1, <2>5 DEF Told
  <2>7. Told(q) >= (IF Awake(q) THEN 1 ELSE 0) /\ Told(q) \in Nat
    BY DEF Told
  <2>8. Told(q)' <= Pending(q)' /\ Told(q)' > 0
    BY <2>6, <2>7 DEF ReaderOK
  <2> QED  BY <2>1, <2>4, <2>8 DEF ReaderOK
<1>2. CASE \E t \in Thread : Waits(t, q)
  <2>1. PICK t \in Thread : ReaderOf[t] = q /\ pc[t] = "wait" /\ mq_wait[q] = <<t>>
    BY <1>2 DEF Waits
  <2>2. mq_wait'[q] = <<>> /\ WokenBy(mq_wait[q]) = {t} /\ <<>> # SIGNALED
    BY <2>1, OneWaiter
  <2>3. pc'[t] = "woken" /\ \A u \in Thread : ReaderOf[u] = q => u = t
    BY <2>1, <2>2 DEF OneReader
  <2>4. Awake(q)'
    BY <2>1, <2>3 DEF Awake
  <2>5. Told(q)' = 1
    BY <2>2, <2>4 DEF Told
  <2>6. Told(q)' <= Pending(q)' /\ Told(q)' > 0
    BY <2>5
  <2> QED  BY <2>2, <2>3, <2>6 DEF ReaderOK
<1> QED
  BY <1>1, <1>2 DEF ReaderOK

\* The reader takes a message and announces the rest to itself.
LEMMA ReaderFinished ==
    ASSUME OneReader, NEW t \in Thread, NEW q \in Queue, ReaderOf[t] = q, ReaderOK(q),
           pc[t] = "woken", pc'[t] = "run",
           Pending(q)' \in Nat, Pending(q) = Pending(q)' + 1,
           mq_wait'[q] = IF Pending(q)' > 0 THEN PostAsync(mq_wait[q]) ELSE mq_wait[q]
    PROVE  ReaderOK(q)'
<1>1. \A u \in Thread : ReaderOf[u] = q => u = t
  BY DEF OneReader
<1>2. Awake(q) /\ ~Awake(q)'
  BY <1>1 DEF Awake
<1>3. mq_wait[q] \in {<<>>, SIGNALED}
  BY <1>1 DEF ReaderOK, Waits
<1>4. CASE Pending(q)' > 0
  <2>1. mq_wait'[q] = SIGNALED
    BY <1>3, <1>4, NoWaiter
  <2>2. Told(q)' = 1
    BY <1>2, <2>1 DEF Told
  <2> QED  BY <1>1, <1>4, <2>1, <2>2 DEF ReaderOK
<1>5. CASE Pending(q)' = 0
  <2>1. Told(q) <= 1
    BY <1>5 DEF ReaderOK
  <2>2. mq_wait[q] # SIGNALED
    BY <1>2, <2>1 DEF Told
  <2>3. mq_wait'[q] = <<>> /\ <<>> # SIGNALED
    BY <1>3, <1>5, <2>2
  <2>4. Told(q)' = 0
    BY <1>2, <2>3 DEF Told
  <2> QED  BY <1>1, <1>5, <2>3, <2>4 DEF ReaderOK
<1> QED
  BY <1>4, <1>5

\* The reader finds its queue signaled, or waits in it.
LEMMA ReaderGets ==
    ASSUME OneReader, NEW t \in Thread, NEW q \in Queue, ReaderOf[t] = q, ReaderOK(q),
           pc[t] = "run", Pending(q) \in Nat, Pending(q)' = Pending(q),
           IF mq_wait[q] = SIGNALED
             THEN mq_wait'[q] = <<>> /\ pc'[t] = "woken"
             ELSE mq_wait'[q] = WaitIn(mq_wait[q], t) /\ pc'[t] = "wait"
    PROVE  ReaderOK(q)'
<1>1. \A u \in Thread : ReaderOf[u] = q => u = t
  BY DEF OneReader
<1>2. ~Awake(q)
  BY <1>1 DEF Awake
<1>3. mq_wait[q] \in {<<>>, SIGNALED}
  BY <1>1 DEF ReaderOK, Waits
<1>4. CASE mq_wait[q] = SIGNALED
  <2>1. mq_wait'[q] = <<>> /\ pc'[t] = "woken" /\ <<>> # SIGNALED
    BY <1>4, OneWaiter
  <2>2. Awake(q)'
    BY <2>1 DEF Awake
  <2>3. Told(q) = 1 /\ Told(q)' = 1
    BY <1>2, <1>4, <2>1, <2>2 DEF Told
  <2>4. Told(q)' <= Pending(q)' /\ Told(q)' > 0
    BY <2>3 DEF ReaderOK
  <2> QED  BY <1>1, <2>1, <2>4 DEF ReaderOK
<1>5. CASE mq_wait[q] # SIGNALED
  <2>1. mq_wait[q] = <<>>
    BY <1>3, <1>5
  <2>2. mq_wait'[q] = <<t>> /\ pc'[t] = "wait"
    BY <1>5, <2>1, SoleWaiter
  <2>4. Waits(t, q)' /\ mq_wait'[q] # SIGNALED
    BY <2>2, OneWaiter DEF Waits
  <2>5. ~Awake(q)'
    BY <1>1, <2>2 DEF Awake
  <2>6. Told(q) = 0 /\ Told(q)' = 0
    BY <1>2, <1>5, <2>4, <2>5 DEF Told
  <2>7. Told(q)' <= Pending(q)' /\ ~(Pending(q)' > 0)
    BY <2>6 DEF ReaderOK
  <2> QED  BY <1>1, <2>2, <2>4, <2>7 DEF ReaderOK
<1> QED
  BY <1>4, <1>5

\* The reader's wait ends with a timeout.
LEMMA ReaderTimesOut ==
    ASSUME OneReader, NEW t \in Thread, NEW q \in Queue, ReaderOf[t] = q, ReaderOK(q),
           pc[t] = "wait", pc'[t] = "run", Pending(q)' = Pending(q),
           mq_wait'[q] = TimeOut(mq_wait[q], t)
    PROVE  ReaderOK(q)' /\ mq_wait'[q] = <<>>
<1>1. \A u \in Thread : ReaderOf[u] = q => u = t
  BY DEF OneReader
<1>2. mq_wait[q] = <<t>> /\ <<t>> # SIGNALED /\ <<>> # SIGNALED
  BY OneWaiter DEF ReaderOK
<1>3. RemoveQueue(<<t>>, t) = <<>>
  <2> DEFINE s == <<t>>
             r == RemoveQueue(s, t)
  <2>1. s \in Seq(Thread) /\ IsInjective(s) /\ Range(s) = {t}
    BY DEF IsInjective, Range
  <2> HIDE DEF s
  <2>2. r \in Seq(Thread) /\ Range(r) = {}
    BY <2>1, RemoveQueueInjective
  <2> HIDE DEF r
  <2>3. r = <<>>
    BY <2>2, HeadInRange
  <2> QED  BY <2>3 DEF r, s
<1>4. mq_wait'[q] = <<>>
  BY <1>2, <1>3 DEF TimeOut
<1>5. ~Awake(q) /\ ~Awake(q)'
  BY <1>1 DEF Awake
<1>6. Told(q) = 0 /\ Told(q)' = 0
  BY <1>2, <1>4, <1>5 DEF Told
<1>7. Told(q)' <= Pending(q)' /\ (Pending(q)' > 0 => Told(q)' > 0)
  BY <1>6 DEF ReaderOK
<1> QED
  BY <1>1, <1>4, <1>7 DEF ReaderOK

\* The queue is flushed by its reader.
LEMMA ReaderFlushed ==
    ASSUME NEW q \in Queue, Pending(q)' = 0, mq_wait'[q] = <<>>,
           \A t \in Thread : ReaderOf[t] = q => pc'[t] = "run"
    PROVE  ReaderOK(q)'
<1>1. ~Awake(q)'
  BY DEF Awake
<1>2. <<>> # SIGNALED
  BY EmptySeq, EventQueueAssumption
<1>3. Told(q)' = 0
  BY <1>1, <1>2 DEF Told
<1> QED
  BY <1>3 DEF ReaderOK

Types == TypeOK /\ msg \in [Queue -> Slot]

\* The typed ring.
LEMMA TypedRing ==
    ASSUME Types
    PROVE  Ring
  BY DEF Types, TypeOK, Ring, Slot

\* Only its own reader is woken up from a queue, which remains a queue.
LEMMA WokenReader ==
    ASSUME NEW q \in Queue, ReaderOK(q)
    PROVE  /\ PostAsync(mq_wait[q]) \in {<<>>, SIGNALED}
           /\ \A t \in WokenBy(mq_wait[q]) : t \in Thread /\ ReaderOf[t] = q
<1>1. CASE mq_wait[q] \in {<<>>, SIGNALED}
  BY <1>1, NoWaiter
<1>2. ASSUME NEW t \in Thread, Waits(t, q)
      PROVE  PostAsync(mq_wait[q]) = <<>> /\ WokenBy(mq_wait[q]) = {t} /\ ReaderOf[t] = q
  BY <1>2, OneWaiter DEF Waits
<1> QED
  BY <1>1, <1>2 DEF ReaderOK

\* What NutMsgQPost does to a queue.
Posted(q, m) ==
    /\ Pending(q)' = Pending(q) + 1
    /\ \A i \in 1..Pending(q) : Content(q)'[i] = Content(q)[i]
    /\ Content(q)'[Pending(q) + 1] = m

\* NutMsgQPost to some queues: those with a place take the message, and every
\* reader is told as it should be.
LEMMA PostToQueues ==
    ASSUME OneReader, Types, \A q \in Queue : ReaderOK(q),
           NEW qs \in SUBSET Queue, NEW m \in Slot, PostTo(qs, m)
    PROVE  /\ Ring'
           /\ mq_wait' \in [Queue -> Seq(Thread) \cup {SIGNALED}]
           /\ pc' \in [Thread -> {"run", "wait", "woken"}]
           /\ nutMsgQue' = nutMsgQue /\ msg' = msg
           /\ \A q \in Queue : ReaderOK(q)'
           /\ \A q \in Queue : IF q \in qs /\ ~NutMsgQFull(q) THEN Posted(q, m)
                               ELSE Pending(q)' = Pending(q) /\ Content(q)' = Content(q)
<1> DEFINE ok == {q \in qs : ~NutMsgQFull(q)}
<1>1. /\ mq_que' = [q \in Queue |-> IF q \in ok
                      THEN [mq_que[q] EXCEPT ![mq_write[q]] = m] ELSE mq_que[q]]
      /\ mq_write' = [q \in Queue |-> IF q \in ok THEN Advance(mq_write[q])
                                      ELSE mq_write[q]]
      /\ mq_wait' = [q \in Queue |-> IF q \in ok THEN PostAsync(mq_wait[q])
                                     ELSE mq_wait[q]]
      /\ pc' = [t \in Thread |-> IF \E q \in ok : t \in WokenBy(mq_wait[q])
                                   THEN "woken" ELSE pc[t]]
      /\ mq_read' = mq_read /\ nutMsgQue' = nutMsgQue /\ msg' = msg
  BY DEF PostTo
<1>2. \A q \in Queue : q \in ok <=> q \in qs /\ ~NutMsgQFull(q)
  OBVIOUS
<1>3. ok \subseteq Queue
  OBVIOUS
<1> HIDE DEF ok
<1>4. Ring
  BY TypedRing
<1>5. ASSUME NEW q \in Queue, q \in ok
      PROVE  /\ Posted(q, m) /\ ReaderOK(q)'
             /\ mq_write'[q] \in 0..Mask /\ mq_que'[q] \in [0..Mask -> Slot]
             /\ mq_wait'[q] \in Seq(Thread) \cup {SIGNALED}
  <2>1. /\ ~NutMsgQFull(q) /\ mq_read'[q] = mq_read[q]
        /\ mq_write'[q] = Advance(mq_write[q])
        /\ mq_que'[q] = [mq_que[q] EXCEPT ![mq_write[q]] = m]
        /\ mq_wait'[q] = PostAsync(mq_wait[q])
    BY <1>1, <1>2, <1>5
  <2>2. /\ Posted(q, m)
        /\ mq_write'[q] \in 0..Mask /\ mq_que'[q] \in [0..Mask -> Slot]
    BY <1>4, <2>1, ContentPost DEF Posted
  <2>3. \A t \in Thread : ReaderOf[t] = q =>
           pc'[t] = IF t \in WokenBy(mq_wait[q]) THEN "woken" ELSE pc[t]
    BY <1>1, <1>3, <1>5, WokenReader
  <2>4. Pending(q) \in Nat /\ Pending(q)' = Pending(q) + 1
    BY <1>4, <2>2, ContentType, RingSize DEF Posted
  <2>5. ReaderOK(q)'
    BY <2>1, <2>3, <2>4, ReaderPosted
  <2>6. mq_wait'[q] \in Seq(Thread) \cup {SIGNALED}
    <3>1. PostAsync(mq_wait[q]) \in {<<>>, SIGNALED}
      BY WokenReader
    <3>2. <<>> \in Seq(Thread)
      OBVIOUS
    <3> QED  BY <2>1, <3>1, <3>2
  <2> QED  BY <2>2, <2>5, <2>6
<1>6. ASSUME NEW q \in Queue, q \notin ok
      PROVE  /\ Pending(q)' = Pending(q) /\ Content(q)' = Content(q) /\ ReaderOK(q)'
             /\ mq_write'[q] \in 0..Mask /\ mq_que'[q] \in [0..Mask -> Slot]
             /\ mq_wait'[q] \in Seq(Thread) \cup {SIGNALED}
  <2>1. /\ mq_read'[q] = mq_read[q] /\ mq_write'[q] = mq_write[q]
        /\ mq_que'[q] = mq_que[q] /\ mq_wait'[q] = mq_wait[q]
    BY <1>1, <1>6
  <2>2. Pending(q)' = Pending(q) /\ Content(q)' = Content(q)
    BY <2>1, ContentSame
  <2>3. \A t \in Thread : ReaderOf[t] = q => pc'[t] = pc[t]
    BY <1>1, <1>3, <1>6, WokenReader
  <2>4. ReaderOK(q)'
    BY <2>1, <2>2, <2>3, ReaderSame
  <2> QED  BY <1>4, <2>1, <2>2, <2>4 DEF Ring, Types, TypeOK
<1>7. /\ mq_que' \in [Queue -> [0..Mask -> Slot]] /\ mq_write' \in [Queue -> 0..Mask]
      /\ mq_wait' \in [Queue -> Seq(Thread) \cup {SIGNALED}]
  <2>1. /\ DOMAIN mq_que' = Queue /\ DOMAIN mq_write' = Queue /\ DOMAIN mq_wait' = Queue
        /\ mq_que' = [q \in Queue |-> mq_que'[q]]
        /\ mq_write' = [q \in Queue |-> mq_write'[q]]
        /\ mq_wait' = [q \in Queue |-> mq_wait'[q]]
    BY <1>1
  <2>2. \A q \in Queue : /\ mq_write'[q] \in 0..Mask
                         /\ mq_que'[q] \in [0..Mask -> Slot]
                         /\ mq_wait'[q] \in Seq(Thread) \cup {SIGNALED}
    BY <1>5, <1>6
  <2> QED  BY <2>1, <2>2
<1>8. Ring'
  BY <1>1, <1>4, <1>7 DEF Ring
<1>9. pc' \in [Thread -> {"run", "wait", "woken"}]
  BY <1>1 DEF Types, TypeOK
<1> QED
  BY <1>1, <1>2, <1>5, <1>6, <1>7, <1>8, <1>9

-----------------------------------------------------------------------------
(***************************************************************************)
(* Timers.  A timer object is on the list of its queue, on the free list   *)
(* or not in use.  A one-shot on a list is either running or has one       *)
(* message in the ring, so that the reader which releases it leaves no     *)
(* message of it behind; only a flush can drop that message.               *)
(***************************************************************************)
Listed(q) == Range(mq_timers[q])

ListOK(q) ==
    /\ IsInjective(mq_timers[q])
    /\ Listed(q) \cap Range(nutMsgFreeTimers) = {}
    /\ \A x \in Listed(q) : mt_que[x] = q

MessagesOK(q) ==
    /\ \A i \in 1..Pending(q) :
         Content(q)[i].id = "MSG_TIMER" => Content(q)[i].data \in Listed(q)
    /\ \A x \in Listed(q) : mt_flags[x] = 1 =>
         /\ \A i, j \in 1..Pending(q) :
              Content(q)[i] = TimerMsg(x) /\ Content(q)[j] = TimerMsg(x) => i = j
         /\ mt_handle[x] # NULL => \A i \in 1..Pending(q) : Content(q)[i] # TimerMsg(x)
         /\ mt_handle[x] = NULL /\ x \notin stranded =>
              \E i \in 1..Pending(q) : Content(q)[i] = TimerMsg(x)

FreeOK ==
    /\ IsInjective(nutMsgFreeTimers)
    /\ \A x \in Range(nutMsgFreeTimers) : mt_que[x] # NULL
    /\ \A x \in Timer : mt_handle[x] # NULL =>
         mt_que[x] \in Queue /\ x \in Listed(mt_que[x])

IInv ==
    /\ Types
    /\ \A q \in Queue : ReaderOK(q)
    /\ \A q \in Queue : ListOK(q) /\ MessagesOK(q)
    /\ FreeOK

\* Putting a timer object in front of a list it is not on.
LEMMA PutInFront ==
    ASSUME NEW x \in Timer, NEW s \in Seq(Timer), IsInjective(s), x \notin Range(s)
    PROVE  /\ <<x>> \o s \in Seq(Timer)
           /\ IsInjective(<<x>> \o s)
           /\ Range(<<x>> \o s) = Range(s) \cup {x}
<1> DEFINE r == <<x>> \o s
<1>1. /\ r \in Seq(Timer) /\ Len(r) = Len(s) + 1 /\ Len(s) \in Nat
      /\ \A k \in 1..Len(r) : r[k] = IF k = 1 THEN x ELSE s[k - 1]
  OBVIOUS
<1> HIDE DEF r
<1>2. Range(r) = {r[k] : k \in 1..Len(r)} /\ Range(s) = {s[k] : k \in 1..Len(s)}
  BY <1>1, RangeOfChain
<1>3. \A k \in 1..Len(s) : r[k + 1] = s[k] /\ k + 1 \in 1..Len(r)
  BY <1>1
<1>4. Range(r) = Range(s) \cup {x}
  <2>1. \A k \in 1..Len(r) : r[k] \in Range(s) \cup {x}
    BY <1>1, <1>2
  <2>2. r[1] = x /\ 1 \in 1..Len(r)
    BY <1>1
  <2> QED  BY <1>2, <1>3, <2>1, <2>2
<1>5. IsInjective(r)
  <2>1. DOMAIN r = 1..Len(r) /\ DOMAIN s = 1..Len(s)
    BY <1>1, LenProperties
  <2>2. ASSUME NEW a \in 1..Len(r), NEW b \in 1..Len(r), r[a] = r[b]
        PROVE  a = b
    <3>1. CASE a = 1 \/ b = 1
      BY <1>1, <1>2, <2>2, <3>1
    <3>2. CASE a # 1 /\ b # 1
      <4>1. a - 1 \in 1..Len(s) /\ b - 1 \in 1..Len(s) /\ s[a - 1] = s[b - 1]
        BY <1>1, <2>2, <3>2
      <4>2. a - 1 = b - 1
        BY <2>1, <4>1 DEF IsInjective
      <4> QED  BY <4>2
    <3> QED  BY <3>1, <3>2
  <2> QED  BY <2>1, <2>2 DEF IsInjective
<1> QED
  BY <1>1, <1>4, <1>5 DEF r

\* Nothing happens to the messages of a queue and to its timers, except that
\* one could not be started again, which is recorded.
LEMMA MessagesSame ==
    ASSUME NEW q \in Queue, MessagesOK(q), ListOK(q),
           Pending(q)' = Pending(q), Content(q)' = Content(q),
           mq_timers'[q] = mq_timers[q],
           \A x \in Listed(q) :
             /\ mt_flags'[x] = mt_flags[x]
             /\ mt_handle'[x] = mt_handle[x] \/ (mt_handle'[x] = NULL /\ x \in stranded'),
           \A x \in Listed(q) : x \in stranded => x \in stranded'
    PROVE  MessagesOK(q)'
<1>1. Listed(q)' = Listed(q)
  BY DEF Listed
<1> QED
  BY <1>1 DEF MessagesOK

\* A user's message does not touch the timers.
LEMMA MessagesUser ==
    ASSUME NEW q \in Queue, MessagesOK(q), Pending(q) \in Nat,
           NEW m \in Slot, m.id = "user", Posted(q, m),
           mq_timers' = mq_timers, mt_flags' = mt_flags, mt_handle' = mt_handle,
           stranded' = stranded
    PROVE  MessagesOK(q)'
<1> DEFINE n == Pending(q)
<1>1. Listed(q)' = Listed(q)
  BY DEF Listed
<1>2. Pending(q)' = n + 1 /\ Content(q)'[n + 1] = m
      /\ \A i \in 1..n : Content(q)'[i] = Content(q)[i]
  BY DEF Posted
<1>3. \A x : m # TimerMsg(x)
  BY DEF TimerMsg
<1>4. \A i \in 1..(n + 1) : i \in 1..n \/ i = n + 1
  OBVIOUS
<1>5. \A i \in 1..n : i \in 1..(n + 1)
  OBVIOUS
<1> HIDE DEF n
<1>6. \A i \in 1..(n + 1) :
        Content(q)'[i].id = "MSG_TIMER" => Content(q)'[i].data \in Listed(q)
  BY <1>2, <1>4 DEF MessagesOK, n
<1>7. ASSUME NEW x \in Listed(q), mt_flags[x] = 1
      PROVE  /\ \A i, j \in 1..(n + 1) :
                  Content(q)'[i] = TimerMsg(x) /\ Content(q)'[j] = TimerMsg(x) => i = j
             /\ mt_handle[x] # NULL => \A i \in 1..(n + 1) : Content(q)'[i] # TimerMsg(x)
             /\ mt_handle[x] = NULL /\ x \notin stranded =>
                  \E i \in 1..(n + 1) : Content(q)'[i] = TimerMsg(x)
  BY <1>2, <1>3, <1>4, <1>5, <1>7 DEF MessagesOK, n
<1> QED
  BY <1>1, <1>2, <1>6, <1>7 DEF MessagesOK

\* The message of a timer.  A one-shot that has sent it is not running any more.
LEMMA MessagesTimer ==
    ASSUME NEW q \in Queue, MessagesOK(q), Pending(q) \in Nat,
           NEW x \in Listed(q), mt_handle[x] # NULL, Posted(q, TimerMsg(x)),
           mq_timers' = mq_timers, mt_flags' = mt_flags, stranded' = stranded,
           mt_flags[x] = 1 => mt_handle'[x] = NULL,
           \A y \in Listed(q) : y # x => mt_handle'[y] = mt_handle[y]
    PROVE  MessagesOK(q)'
<1> DEFINE n == Pending(q)
           m == TimerMsg(x)
<1>1. Listed(q)' = Listed(q)
  BY DEF Listed
<1>2. Pending(q)' = n + 1 /\ Content(q)'[n + 1] = m
      /\ \A i \in 1..n : Content(q)'[i] = Content(q)[i]
  BY DEF Posted
<1>3. m.data = x /\ \A y : m = TimerMsg(y) <=> y = x
  BY DEF TimerMsg
<1>4. \A i \in 1..(n + 1) : i \in 1..n \/ i = n + 1
  OBVIOUS
<1>5. n + 1 \in 1..(n + 1) /\ \A i \in 1..n : i \in 1..(n + 1)
  OBVIOUS
<1> HIDE DEF n, m
<1>6. \A i \in 1..(n + 1) :
        Content(q)'[i].id = "MSG_TIMER" => Content(q)'[i].data \in Listed(q)
  BY <1>2, <1>3, <1>4 DEF MessagesOK, n
<1>7. ASSUME NEW y \in Listed(q), mt_flags[y] = 1
      PROVE  /\ \A i, j \in 1..(n + 1) :
                  Content(q)'[i] = TimerMsg(y) /\ Content(q)'[j] = TimerMsg(y) => i = j
             /\ mt_handle'[y] # NULL => \A i \in 1..(n + 1) : Content(q)'[i] # TimerMsg(y)
             /\ mt_handle'[y] = NULL /\ y \notin stranded =>
                  \E i \in 1..(n + 1) : Content(q)'[i] = TimerMsg(y)
  <2>1. CASE y = x
    <3>1. \A i \in 1..n : Content(q)[i] # TimerMsg(x)
      BY <1>7, <2>1 DEF MessagesOK, n
    <3>2. \A i \in 1..(n + 1) : Content(q)'[i] = TimerMsg(x) => i = n + 1
      BY <1>2, <1>4, <3>1
    <3>3. Content(q)'[n + 1] = TimerMsg(x)
      BY <1>2 DEF m
    <3> QED  BY <1>5, <1>7, <2>1, <3>2, <3>3
  <2>2. CASE y # x
    <3>1. m # TimerMsg(y) /\ mt_handle'[y] = mt_handle[y]
      BY <1>3, <2>2
    <3> QED  BY <1>2, <1>4, <1>5, <1>7, <3>1 DEF MessagesOK, n
  <2> QED  BY <2>1, <2>2
<1> QED
  BY <1>1, <1>2, <1>6, <1>7 DEF MessagesOK

\* The first message leaves; with that of a one-shot goes its timer object.
LEMMA MessagesGet ==
    ASSUME NEW q \in Queue, MessagesOK(q), Pending(q)' \in Nat,
           Pending(q) = Pending(q)' + 1, NEW m, m = Content(q)[1], m \in Slot,
           \A i \in 1..Pending(q)' : Content(q)'[i] = Content(q)[i + 1],
           \A i \in 1..Pending(q) : Content(q)[i] \in Slot,
           Listed(q)' = IF m.id = "MSG_TIMER" /\ mt_flags[m.data] = 1
                          THEN Listed(q) \ {m.data} ELSE Listed(q),
           mt_flags' = mt_flags, mt_handle' = mt_handle, stranded' = stranded
    PROVE  MessagesOK(q)'
<1> DEFINE n == Pending(q)'
<1>1. \A i \in 1..n : i + 1 \in 1..(n + 1) /\ i + 1 # 1
  OBVIOUS
<1>2. \A i \in 1..(n + 1) : i # 1 => i - 1 \in 1..n /\ (i - 1) + 1 = i
  OBVIOUS
<1>3. \A i, j \in 1..n : i + 1 = j + 1 => i = j
  OBVIOUS
<1>4. Pending(q) = n + 1 /\ 1 \in 1..(n + 1)
  OBVIOUS
<1> HIDE DEF n
<1>5. ASSUME NEW s \in Slot, s.id = "MSG_TIMER"  PROVE s = TimerMsg(s.data)
  BY <1>5 DEF Slot, TimerMsg
<1>6. Listed(q)' \subseteq Listed(q)
  OBVIOUS
<1>7. ASSUME NEW i \in 1..n, Content(q)'[i].id = "MSG_TIMER"
      PROVE  Content(q)'[i].data \in Listed(q)'
  <2> DEFINE y == Content(q)'[i].data
  <2>1. Content(q)'[i] = Content(q)[i + 1] /\ Content(q)[i + 1] \in Slot
    BY <1>1, <1>4 DEF n
  <2>2. Content(q)[i + 1] = TimerMsg(y) /\ y \in Listed(q)
    <3>1. Content(q)[i + 1].id = "MSG_TIMER" /\ Content(q)[i + 1].data = y
      BY <1>7, <2>1
    <3>2. Content(q)[i + 1] = TimerMsg(y)
      BY <1>5, <2>1, <3>1
    <3> QED  BY <1>1, <1>4, <3>1, <3>2 DEF MessagesOK
  <2> HIDE DEF y
  <2>3. CASE m.id = "MSG_TIMER" /\ mt_flags[m.data] = 1
    <3>1. m = TimerMsg(m.data) /\ m.data \in Listed(q)
      BY <1>4, <1>5, <2>3 DEF MessagesOK
    <3>2. y # m.data
      BY <1>1, <1>4, <2>2, <2>3, <3>1 DEF MessagesOK
    <3> QED  BY <2>2, <2>3, <3>2 DEF y
  <2>4. CASE ~(m.id = "MSG_TIMER" /\ mt_flags[m.data] = 1)
    BY <2>2, <2>4 DEF y
  <2> QED  BY <2>3, <2>4
<1>8. ASSUME NEW y \in Listed(q)', mt_flags[y] = 1
      PROVE  /\ \A i, j \in 1..n :
                  Content(q)'[i] = TimerMsg(y) /\ Content(q)'[j] = TimerMsg(y) => i = j
             /\ mt_handle[y] # NULL => \A i \in 1..n : Content(q)'[i] # TimerMsg(y)
             /\ mt_handle[y] = NULL /\ y \notin stranded =>
                  \E i \in 1..n : Content(q)'[i] = TimerMsg(y)
  <2>1. /\ \A i, j \in 1..(n + 1) :
             Content(q)[i] = TimerMsg(y) /\ Content(q)[j] = TimerMsg(y) => i = j
        /\ mt_handle[y] # NULL => \A i \in 1..(n + 1) : Content(q)[i] # TimerMsg(y)
        /\ mt_handle[y] = NULL /\ y \notin stranded =>
             \E i \in 1..(n + 1) : Content(q)[i] = TimerMsg(y)
    BY <1>4, <1>6, <1>8 DEF MessagesOK
  <2>2. \A i \in 1..n : Content(q)'[i] = Content(q)[i + 1]
    BY DEF n
  <2>3. m # TimerMsg(y)
    <3>1. ASSUME m = TimerMsg(y)  PROVE FALSE
      <4>1. m.id = "MSG_TIMER" /\ m.data = y
        BY <3>1 DEF TimerMsg
      <4> QED  BY <1>8, <4>1
    <3> QED  BY <3>1
  <2>4. ASSUME mt_handle[y] = NULL, y \notin stranded
        PROVE  \E i \in 1..n : Content(q)'[i] = TimerMsg(y)
    <3>1. PICK i \in 1..(n + 1) : Content(q)[i] = TimerMsg(y)
      BY <2>1, <2>4
    <3>2. i # 1
      BY <2>3, <3>1
    <3>3. i - 1 \in 1..n /\ Content(q)'[i - 1] = TimerMsg(y)
      BY <1>2, <2>2, <3>1, <3>2
    <3> QED  BY <3>3
  <2> QED  BY <1>1, <1>3, <2>1, <2>2, <2>4
<1> QED
  BY <1>7, <1>8 DEF MessagesOK, n

\* A stopped timer leaves the list and its messages are voided.
LEMMA MessagesRetract ==
    ASSUME NEW q \in Queue, MessagesOK(q), NEW x \in Timer,
           Pending(q)' = Pending(q),
           \A i \in 1..Pending(q) : Content(q)[i] \in Slot,
           \A i \in 1..Pending(q) :
             Content(q)'[i] = IF Content(q)[i] = TimerMsg(x)
                                THEN [Content(q)[i] EXCEPT !.id = "MSG_NULL"]
                                ELSE Content(q)[i],
           Listed(q)' = Listed(q) \ {x}, mt_flags' = mt_flags, stranded' = stranded,
           \A y \in Listed(q) : y # x => mt_handle'[y] = mt_handle[y]
    PROVE  MessagesOK(q)'
<1>1. ASSUME NEW s \in Slot, s.id = "MSG_TIMER"  PROVE s = TimerMsg(s.data)
  BY <1>1 DEF Slot, TimerMsg
<1>2. ASSUME NEW s \in Slot  PROVE [s EXCEPT !.id = "MSG_NULL"].id = "MSG_NULL"
  BY DEF Slot
<1>3. \A y : y # x => TimerMsg(y) # TimerMsg(x)
  BY DEF TimerMsg
<1>4. \A y : TimerMsg(y).id = "MSG_TIMER"
  BY DEF TimerMsg
<1>5. ASSUME NEW i \in 1..Pending(q), NEW y, y # x
      PROVE  Content(q)'[i] = TimerMsg(y) <=> Content(q)[i] = TimerMsg(y)
  BY <1>2, <1>3, <1>4, <1>5
<1>6. ASSUME NEW i \in 1..Pending(q), Content(q)'[i].id = "MSG_TIMER"
      PROVE  Content(q)'[i].data \in Listed(q) \ {x}
  <2>1. Content(q)[i] # TimerMsg(x) /\ Content(q)'[i] = Content(q)[i]
    BY <1>2, <1>6
  <2>2. Content(q)[i].id = "MSG_TIMER" /\ Content(q)[i] \in Slot
    BY <1>6, <2>1
  <2>3. Content(q)[i].data \in Listed(q) /\ Content(q)[i].data # x
    BY <1>1, <2>1, <2>2 DEF MessagesOK
  <2> QED  BY <2>1, <2>3
<1> QED
  BY <1>5, <1>6 DEF MessagesOK

\* Starting a timer with an object that is on no list.
LEMMA MessagesStart ==
    ASSUME NEW q \in Queue, MessagesOK(q), NEW x \in Timer, x \notin Listed(q),
           Pending(q)' = Pending(q), Content(q)' = Content(q),
           Listed(q)' = Listed(q) \cup {x},
           mt_handle'[x] # NULL \/ x \in stranded',
           \A y \in Listed(q) : /\ mt_flags'[y] = mt_flags[y]
                                /\ mt_handle'[y] = mt_handle[y]
                                /\ y \in stranded => y \in stranded'
    PROVE  MessagesOK(q)'
<1>1. TimerMsg(x).id = "MSG_TIMER" /\ TimerMsg(x).data = x
  BY DEF TimerMsg
<1>2. \A i \in 1..Pending(q) : Content(q)[i] # TimerMsg(x)
  BY <1>1 DEF MessagesOK
<1>3. ASSUME NEW y \in Listed(q)', mt_flags'[y] = 1
      PROVE  /\ \A i, j \in 1..Pending(q) :
                  Content(q)[i] = TimerMsg(y) /\ Content(q)[j] = TimerMsg(y) => i = j
             /\ mt_handle'[y] # NULL => \A i \in 1..Pending(q) : Content(q)[i] # TimerMsg(y)
             /\ mt_handle'[y] = NULL /\ y \notin stranded' =>
                  \E i \in 1..Pending(q) : Content(q)[i] = TimerMsg(y)
  <2>1. CASE y = x
    BY <1>2, <2>1
  <2>2. CASE y # x
    <3>1. y \in Listed(q) /\ mt_flags[y] = 1
      BY <1>3, <2>2
    <3> QED  BY <3>1 DEF MessagesOK
  <2> QED  BY <2>1, <2>2
<1> QED
  BY <1>3 DEF MessagesOK

\* A flush forgets the messages of timers, which is recorded.
LEMMA MessagesFlush ==
    ASSUME NEW q \in Queue, MessagesOK(q), Pending(q)' = 0,
           mq_timers' = mq_timers, mt_flags' = mt_flags, mt_handle' = mt_handle,
           stranded \subseteq stranded',
           \A x \in Listed(q) : (\E i \in 1..Pending(q) : Content(q)[i] = TimerMsg(x)) =>
                                   x \in stranded'
    PROVE  MessagesOK(q)'
<1>1. Listed(q)' = Listed(q)
  BY DEF Listed
<1>2. 1..Pending(q)' = {}
  OBVIOUS
<1> QED
  BY <1>1, <1>2 DEF MessagesOK

-----------------------------------------------------------------------------
\* The lists of timer objects stay as they are.
LEMMA ListsSame ==
    ASSUME \A q \in Queue : ListOK(q), FreeOK,
           UNCHANGED <<mq_timers, nutMsgFreeTimers, mt_que>>,
           \A x \in Timer : mt_handle'[x] # NULL => mt_handle[x] # NULL
    PROVE  (\A q \in Queue : ListOK(q)') /\ FreeOK'
<1>1. \A q : Listed(q)' = Listed(q)
  BY DEF Listed
<1> QED
  BY <1>1 DEF ListOK, FreeOK

\* Steps that change neither the rings nor the readers nor the timers.
LEMMA QuietIInv ==
    ASSUME IInv, UNCHANGED <<ring, mq_wait, timers, pc, msg, stranded>>,
           nutMsgQue' \in Seq(Queue)
    PROVE  IInv'
<1>1. Types'
  BY DEF IInv, Types, TypeOK, ring, timers
<1>2. \A q \in Queue : Pending(q)' = Pending(q) /\ Content(q)' = Content(q)
  BY ContentSame DEF ring
<1>3. \A q \in Queue : ReaderOK(q)'
  BY <1>2, ReaderSame DEF IInv
<1>4. (\A q \in Queue : ListOK(q)') /\ FreeOK'
  BY ListsSame DEF IInv, timers
<1>5. \A q \in Queue : MessagesOK(q)'
  BY <1>2, MessagesSame DEF IInv, timers
<1> QED
  BY <1>1, <1>3, <1>4, <1>5 DEF IInv

\* In zeroed memory and with the empty list of queues all is well.
LEMMA InitIInv == Init => IInv
<1> SUFFICES ASSUME Init PROVE IInv
  OBVIOUS
<1>1. Types
  <2>1. NullMsg \in Slot
    BY DEF NullMsg, Slot
  <2>2. mq_que \in [Queue -> [0..Mask -> Slot]] /\ msg \in [Queue -> Slot]
    BY <2>1 DEF Init
  <2>3. mq_read \in [Queue -> 0..Mask] /\ mq_write \in [Queue -> 0..Mask]
    BY RingSize DEF Init
  <2>4. /\ nutMsgQue \in Seq(Queue) /\ mq_timers \in [Queue -> Seq(Timer)]
        /\ nutMsgFreeTimers \in Seq(Timer)
        /\ mq_wait \in [Queue -> Seq(Thread) \cup {SIGNALED}]
    BY EmptySeq DEF Init
  <2>5. /\ mt_que \in [Timer -> Queue \cup {NULL}]
        /\ mt_flags \in [Timer -> {0, 1}]
        /\ mt_handle \in [Timer -> {NULL, "running"}]
        /\ pc \in [Thread -> {"run", "wait", "woken"}]
    BY DEF Init
  <2> QED  BY <2>2, <2>3, <2>4, <2>5 DEF Types, TypeOK, Slot
<1>2. \A q \in Queue : Pending(q) = 0
  <2>1. \A q \in Queue : mq_read[q] = mq_write[q]
    BY DEF Init
  <2> QED  BY <1>1, <2>1, TypedRing, ContentType
<1>3. \A q \in Queue : ReaderOK(q)
  <2>1. <<>> # SIGNALED
    BY EmptySeq, EventQueueAssumption
  <2>2. ASSUME NEW q \in Queue  PROVE ReaderOK(q)
    <3>1. mq_wait[q] = <<>> /\ \A t \in Thread : pc[t] = "run"
      BY DEF Init
    <3>2. ~Awake(q)
      BY <3>1 DEF Awake
    <3>3. Told(q) = 0
      BY <2>1, <3>1, <3>2 DEF Told
    <3> QED  BY <1>2, <3>1, <3>3 DEF ReaderOK
  <2> QED  BY <2>2
<1>4. \A q \in Queue : Listed(q) = {} /\ IsInjective(mq_timers[q])
  BY EmptyChain DEF Init, Listed
<1>5. Range(nutMsgFreeTimers) = {} /\ IsInjective(nutMsgFreeTimers)
  BY EmptyChain DEF Init
<1>6. \A q \in Queue : ListOK(q) /\ MessagesOK(q)
  BY <1>2, <1>4 DEF ListOK, MessagesOK
<1>7. FreeOK
  BY <1>5 DEF FreeOK, Init
<1> QED
  BY <1>1, <1>3, <1>6, <1>7 DEF IInv

\* NutMsgQPost, NutMsgQSend and NutMsgQBroadcast.
LEMMA PostIInv ==
    ASSUME OneReader, IInv, NEW qs \in SUBSET Queue, NEW d \in Payload,
           PostTo(qs, UserMsg(d)), UNCHANGED <<timers, stranded>>
    PROVE  IInv'
<1> DEFINE m == UserMsg(d)
<1>1. m \in Slot /\ m.id = "user"
  BY DEF UserMsg, Slot
<1>2. PostTo(qs, m)
  OBVIOUS
<1> HIDE DEF m
<1>3. /\ Ring'
      /\ mq_wait' \in [Queue -> Seq(Thread) \cup {SIGNALED}]
      /\ pc' \in [Thread -> {"run", "wait", "woken"}]
      /\ nutMsgQue' = nutMsgQue /\ msg' = msg
      /\ \A q \in Queue : ReaderOK(q)'
      /\ \A q \in Queue : IF q \in qs /\ ~NutMsgQFull(q) THEN Posted(q, m)
                          ELSE Pending(q)' = Pending(q) /\ Content(q)' = Content(q)
  BY <1>1, <1>2, PostToQueues DEF IInv
<1>4. Types'
  BY <1>3 DEF IInv, Types, TypeOK, Ring, Slot, timers
<1>5. (\A q \in Queue : ListOK(q)') /\ FreeOK'
  BY ListsSame DEF IInv, timers
<1>6. ASSUME NEW q \in Queue  PROVE MessagesOK(q)'
  <2>1. ListOK(q) /\ MessagesOK(q) /\ Pending(q) \in Nat
    BY TypedRing, ContentType, RingSize DEF IInv
  <2>2. CASE q \in qs /\ ~NutMsgQFull(q)
    BY <1>1, <1>3, <2>1, <2>2, MessagesUser DEF timers
  <2>3. CASE ~(q \in qs /\ ~NutMsgQFull(q))
    BY <1>3, <2>1, <2>3, MessagesSame DEF timers
  <2> QED  BY <2>2, <2>3
<1> QED
  BY <1>3, <1>4, <1>5, <1>6 DEF IInv

\* NutMsgQTimerCb.
LEMMA TimerCbIInv ==
    ASSUME OneReader, IInv, NEW x \in Timer, NEW h \in Handle, NutMsgQTimerCb(x, h)
    PROVE  IInv'
<1> DEFINE p == mt_que[x]
           m == TimerMsg(x)
<1>1. mt_handle[x] # NULL /\ p \in Queue /\ x \in Listed(p)
  BY MsgQAssumption DEF NutMsgQTimerCb, IInv, FreeOK
<1>2. m \in Slot /\ {p} \in SUBSET Queue
  BY <1>1 DEF TimerMsg, Slot
<1>3. /\ PostTo({p}, m) /\ mt_handle' = [mt_handle EXCEPT ![x] = TimerCbHandle(x, h)]
      /\ stranded' = IF mt_flags[x] = 1 /\ NutMsgQFull(p) /\ h = NULL
                       THEN stranded \cup {x} ELSE stranded
      /\ UNCHANGED <<mq_timers, nutMsgFreeTimers, mt_que, mt_flags>>
  BY DEF NutMsgQTimerCb
<1>4. /\ Ring'
      /\ mq_wait' \in [Queue -> Seq(Thread) \cup {SIGNALED}]
      /\ pc' \in [Thread -> {"run", "wait", "woken"}]
      /\ nutMsgQue' = nutMsgQue /\ msg' = msg
      /\ \A q \in Queue : ReaderOK(q)'
      /\ \A q \in Queue : IF q \in {p} /\ ~NutMsgQFull(q) THEN Posted(q, m)
                          ELSE Pending(q)' = Pending(q) /\ Content(q)' = Content(q)
  <2> HIDE DEF p, m
  <2> QED  BY <1>2, <1>3, PostToQueues DEF IInv
<1>5. /\ TimerCbHandle(x, h) \in {NULL, "running"}
      /\ mt_flags[x] = 1 => TimerCbHandle(x, h) = IF NutMsgQFull(p) THEN h ELSE NULL
      /\ mt_flags[x] # 1 => TimerCbHandle(x, h) = mt_handle[x]
      /\ mt_handle[x] = "running"
  BY <1>1 DEF IInv, Types, TypeOK, TimerCbHandle, Handle
<1>6. Types'
  <2>1. mt_handle' \in [Timer -> {NULL, "running"}]
    BY <1>3, <1>5 DEF IInv, Types, TypeOK
  <2> QED  BY <1>3, <1>4, <2>1 DEF IInv, Types, TypeOK, Ring, Slot
<1>7. \A y \in Timer : y # x => mt_handle'[y] = mt_handle[y]
  BY <1>3 DEF IInv, Types, TypeOK
<1>8. mt_handle'[x] = TimerCbHandle(x, h)
  BY <1>3 DEF IInv, Types, TypeOK
<1>9. (\A q \in Queue : ListOK(q)') /\ FreeOK'
  BY <1>1, <1>3, <1>7, ListsSame DEF IInv
<1>10. ASSUME NEW q \in Queue  PROVE MessagesOK(q)'
  <2>1. ListOK(q) /\ MessagesOK(q) /\ Pending(q) \in Nat
    BY TypedRing, ContentType, RingSize DEF IInv
  <2>2. Listed(q) \subseteq Timer
    <3>1. mq_timers[q] \in Seq(Timer)
      BY DEF IInv, Types, TypeOK
    <3> QED  BY <3>1, RangeOfChain DEF Listed
  <2>3. CASE q = p /\ ~NutMsgQFull(q)
    <3>1. Posted(q, TimerMsg(x))
      BY <1>4, <2>3
    <3>2. mt_flags[x] = 1 => mt_handle'[x] = NULL
      BY <1>5, <1>8, <2>3
    <3>3. \A y \in Listed(q) : y # x => mt_handle'[y] = mt_handle[y]
      BY <1>7, <2>2
    <3>4. stranded' = stranded
      BY <1>3, <2>3
    <3> QED  BY <1>1, <1>3, <2>1, <2>3, <3>1, <3>2, <3>3, <3>4, MessagesTimer
  <2>4. CASE ~(q = p /\ ~NutMsgQFull(q))
    <3>1. Pending(q)' = Pending(q) /\ Content(q)' = Content(q)
      BY <1>4, <2>4
    <3>2. \A y \in Listed(q) :
            mt_handle'[y] = mt_handle[y] \/ (mt_handle'[y] = NULL /\ y \in stranded')
      <4>1. ASSUME x \in Listed(q)
            PROVE  mt_handle'[x] = mt_handle[x] \/ (mt_handle'[x] = NULL /\ x \in stranded')
        <5>1. q = p /\ NutMsgQFull(p)
          BY <2>1, <2>4, <4>1 DEF ListOK
        <5>2. CASE h = NULL /\ mt_flags[x] = 1
          BY <1>3, <1>5, <1>8, <5>1, <5>2
        <5>3. CASE ~(h = NULL /\ mt_flags[x] = 1)
          BY <1>5, <1>8, <5>1, <5>3 DEF Handle
        <5> QED  BY <5>2, <5>3
      <4> QED  BY <1>7, <2>2, <4>1
    <3>3. stranded \subseteq stranded'
      BY <1>3
    <3> QED  BY <1>3, <2>1, <3>1, <3>2, <3>3, MessagesSame
  <2> QED  BY <2>3, <2>4
<1> QED
  BY <1>4, <1>6, <1>9, <1>10 DEF IInv

\* The objects on a list are timer objects.
LEMMA ListedType ==
    ASSUME Types, NEW q \in Queue
    PROVE  Listed(q) \subseteq Timer /\ mq_timers[q] \in Seq(Timer)
<1>1. mq_timers[q] \in Seq(Timer)
  BY DEF Types, TypeOK
<1> QED
  BY <1>1, RangeOfChain DEF Listed

\* NutMsgQFreeTimer moves an object from its queue's list to the free list.
LEMMA FreeTimer ==
    ASSUME IInv, NEW q \in Queue, NEW x \in Listed(q), NutMsgQFreeTimer(q, x),
           mt_que' = mt_que, mt_handle'[x] = NULL,
           \A y \in Timer : y # x => mt_handle'[y] = mt_handle[y]
    PROVE  /\ mq_timers' \in [Queue -> Seq(Timer)] /\ nutMsgFreeTimers' \in Seq(Timer)
           /\ Listed(q)' = Listed(q) \ {x}
           /\ \A p \in Queue : p # q => mq_timers'[p] = mq_timers[p]
           /\ \A p \in Queue : ListOK(p)'
           /\ FreeOK'
<1>1. /\ mq_timers \in [Queue -> Seq(Timer)] /\ mq_timers[q] \in Seq(Timer)
      /\ nutMsgFreeTimers \in Seq(Timer)
      /\ Listed(q) \subseteq Timer /\ x \in Timer
  BY ListedType DEF IInv, Types, TypeOK
<1>2. /\ IsInjective(mq_timers[q]) /\ IsInjective(nutMsgFreeTimers)
      /\ x \notin Range(nutMsgFreeTimers) /\ mt_que[x] = q
  BY DEF IInv, ListOK, FreeOK
<1>3. /\ mq_timers' = [mq_timers EXCEPT ![q] = RemoveFirst(@, x)]
      /\ nutMsgFreeTimers' = <<x>> \o nutMsgFreeTimers
  BY DEF NutMsgQFreeTimer, Listed
<1>4. mq_timers'[q] = RemoveQueue(mq_timers[q], x)
  BY <1>1, <1>3 DEF RemoveQueue
<1>5. /\ mq_timers'[q] \in Seq(Timer) /\ IsInjective(mq_timers'[q])
      /\ Range(mq_timers'[q]) = Range(mq_timers[q]) \ {x}
  BY <1>1, <1>2, <1>4, RemoveQueueInjective
<1>6. \A p \in Queue : p # q => mq_timers'[p] = mq_timers[p]
  BY <1>1, <1>3
<1>7. mq_timers' \in [Queue -> Seq(Timer)]
  <2>1. mq_timers' = [p \in Queue |-> mq_timers'[p]]
    BY <1>1, <1>3
  <2>2. \A p \in Queue : mq_timers'[p] \in Seq(Timer)
    BY <1>1, <1>5, <1>6
  <2> QED  BY <2>1, <2>2
<1>8. Listed(q)' = Listed(q) \ {x} /\ \A p \in Queue : p # q => Listed(p)' = Listed(p)
  BY <1>5, <1>6 DEF Listed
<1>9. /\ nutMsgFreeTimers' \in Seq(Timer) /\ IsInjective(nutMsgFreeTimers')
      /\ Range(nutMsgFreeTimers') = Range(nutMsgFreeTimers) \cup {x}
  BY <1>1, <1>2, <1>3, PutInFront
<1>10. ASSUME NEW p \in Queue  PROVE ListOK(p)'
  <2>1. ListOK(p)
    BY DEF IInv
  <2>2. CASE p = q
    BY <1>5, <1>8, <1>9, <2>1, <2>2 DEF ListOK
  <2>3. CASE p # q
    <3>1. x \notin Listed(p)
      BY <1>2, <2>1, <2>3 DEF ListOK
    <3> QED  BY <1>6, <1>8, <1>9, <2>1, <2>3, <3>1 DEF ListOK
  <2> QED  BY <2>2, <2>3
<1>11. FreeOK'
  <2>1. q # NULL
    BY MsgQAssumption
  <2>2. \A y \in Range(nutMsgFreeTimers') : mt_que[y] # NULL
    BY <1>2, <1>9, <2>1 DEF IInv, FreeOK
  <2>3. ASSUME NEW y \in Timer, mt_handle'[y] # NULL
        PROVE  mt_que[y] \in Queue /\ y \in Listed(mt_que[y])'
    <3>1. y # x /\ mt_handle[y] # NULL
      BY <2>3
    <3>2. mt_que[y] \in Queue /\ y \in Listed(mt_que[y])
      BY <3>1 DEF IInv, FreeOK
    <3>3. CASE mt_que[y] = q
      BY <1>8, <3>1, <3>2, <3>3
    <3>4. CASE mt_que[y] # q
      BY <1>8, <3>2, <3>4
    <3> QED  BY <3>2, <3>3, <3>4
  <2> QED  BY <1>9, <2>2, <2>3 DEF FreeOK
<1> QED
  BY <1>7, <1>8, <1>6, <1>9, <1>10, <1>11

\* NutMsgQStartTimer, with an object from the free list or the heap.
LEMMA StartTimerIInv ==
    ASSUME IInv, NEW q \in Queue, NEW x \in Timer, NEW f \in {0, 1}, NEW h \in Handle,
           NutMsgQStartTimer(q, x, f, h)
    PROVE  IInv'
<1>1. /\ mq_timers \in [Queue -> Seq(Timer)] /\ mq_timers[q] \in Seq(Timer)
      /\ nutMsgFreeTimers \in Seq(Timer)
      /\ mt_que \in [Timer -> Queue \cup {NULL}] /\ mt_flags \in [Timer -> {0, 1}]
      /\ mt_handle \in [Timer -> {NULL, "running"}]
  BY DEF IInv, Types, TypeOK
<1>2. /\ mt_que' = [mt_que EXCEPT ![x] = q]
      /\ mt_flags' = [mt_flags EXCEPT ![x] = f]
      /\ mt_handle' = [mt_handle EXCEPT ![x] = h]
      /\ mq_timers' = [mq_timers EXCEPT ![q] = <<x>> \o @]
      /\ stranded' = IF h = NULL THEN stranded \cup {x} ELSE stranded \ {x}
      /\ UNCHANGED <<nutMsgQue, ring, mq_wait, pc, msg>>
  BY DEF NutMsgQStartTimer
<1>3. /\ nutMsgFreeTimers' \in Seq(Timer) /\ IsInjective(nutMsgFreeTimers')
      /\ Range(nutMsgFreeTimers') = Range(nutMsgFreeTimers) \ {x}
      /\ \A p \in Queue : x \notin Listed(p)
  <2>1. CASE nutMsgFreeTimers # <<>>
    <3>1. x = Head(nutMsgFreeTimers) /\ nutMsgFreeTimers' = Tail(nutMsgFreeTimers)
      BY <2>1 DEF NutMsgQStartTimer
    <3>2. IsInjective(nutMsgFreeTimers)
      BY DEF IInv, FreeOK
    <3>3. /\ Tail(nutMsgFreeTimers) \in Seq(Timer) /\ IsInjective(Tail(nutMsgFreeTimers))
          /\ Range(Tail(nutMsgFreeTimers)) = Range(nutMsgFreeTimers) \ {x}
          /\ x \in Range(nutMsgFreeTimers)
      BY <1>1, <2>1, <3>1, <3>2, TailInjective
    <3>4. \A p \in Queue : x \notin Listed(p)
      BY <3>3 DEF IInv, ListOK
    <3> QED  BY <3>1, <3>3, <3>4
  <2>2. CASE nutMsgFreeTimers = <<>>
    <3>1. mt_que[x] = NULL /\ nutMsgFreeTimers' = nutMsgFreeTimers
      BY <2>2 DEF NutMsgQStartTimer
    <3>2. Range(nutMsgFreeTimers) = {}
      BY <2>2, EmptyChain
    <3>3. \A p \in Queue : x \notin Listed(p)
      BY <3>1, MsgQAssumption DEF IInv, ListOK
    <3> QED  BY <1>1, <3>1, <3>2, <3>3 DEF IInv, FreeOK
  <2> QED  BY <2>1, <2>2
<1>4. /\ \A y \in Timer : y # x => /\ mt_que'[y] = mt_que[y]
                                   /\ mt_flags'[y] = mt_flags[y]
                                   /\ mt_handle'[y] = mt_handle[y]
      /\ mt_que'[x] = q /\ mt_handle'[x] = h
  BY <1>1, <1>2
<1>5. /\ mq_timers'[q] \in Seq(Timer) /\ IsInjective(mq_timers'[q])
      /\ Range(mq_timers'[q]) = Range(mq_timers[q]) \cup {x}
  <2>1. mq_timers'[q] = <<x>> \o mq_timers[q]
    BY <1>1, <1>2
  <2>2. IsInjective(mq_timers[q]) /\ x \notin Range(mq_timers[q])
    BY <1>3 DEF IInv, ListOK, Listed
  <2> QED  BY <1>1, <2>1, <2>2, PutInFront
<1>6. \A p \in Queue : p # q => mq_timers'[p] = mq_timers[p]
  BY <1>1, <1>2
<1>7. mq_timers' \in [Queue -> Seq(Timer)]
  <2>1. mq_timers' = [p \in Queue |-> mq_timers'[p]]
    BY <1>1, <1>2
  <2>2. \A p \in Queue : mq_timers'[p] \in Seq(Timer)
    BY <1>1, <1>5, <1>6
  <2> QED  BY <2>1, <2>2
<1>8. Listed(q)' = Listed(q) \cup {x} /\ \A p \in Queue : p # q => Listed(p)' = Listed(p)
  BY <1>5, <1>6 DEF Listed
<1>9. Types'
  <2>1. /\ mt_que' \in [Timer -> Queue \cup {NULL}] /\ mt_flags' \in [Timer -> {0, 1}]
        /\ mt_handle' \in [Timer -> {NULL, "running"}]
    BY <1>1, <1>2 DEF Handle
  <2> QED  BY <1>2, <1>3, <1>7, <2>1 DEF IInv, Types, TypeOK, ring
<1>10. \A p \in Queue : Pending(p)' = Pending(p) /\ Content(p)' = Content(p)
  BY <1>2, ContentSame DEF ring
<1>11. \A p \in Queue : ReaderOK(p)'
  BY <1>2, <1>10, ReaderSame DEF IInv
<1>12. ASSUME NEW p \in Queue  PROVE ListOK(p)' /\ MessagesOK(p)'
  <2>1. ListOK(p) /\ MessagesOK(p) /\ Listed(p) \subseteq Timer /\ x \notin Listed(p)
    BY <1>3, ListedType DEF IInv
  <2>2. \A y \in Listed(p) : /\ mt_que'[y] = mt_que[y] /\ mt_flags'[y] = mt_flags[y]
                             /\ mt_handle'[y] = mt_handle[y]
                             /\ y \in stranded => y \in stranded'
    BY <1>2, <1>4, <2>1
  <2>3. CASE p = q
    <3>1. ListOK(p)'
      BY <1>3, <1>4, <1>5, <1>8, <2>1, <2>2, <2>3 DEF ListOK
    <3>2. mt_handle'[x] # NULL \/ x \in stranded'
      BY <1>2, <1>4
    <3>3. MessagesOK(p)'
      BY <1>8, <1>10, <2>1, <2>2, <2>3, <3>2, MessagesStart
    <3> QED  BY <3>1, <3>3
  <2>4. CASE p # q
    <3>1. ListOK(p)'
      BY <1>3, <1>6, <1>8, <2>1, <2>2, <2>4 DEF ListOK
    <3>2. MessagesOK(p)'
      BY <1>6, <1>10, <2>1, <2>2, <2>4, MessagesSame
    <3> QED  BY <3>1, <3>2
  <2> QED  BY <2>3, <2>4
<1>13. FreeOK'
  <2>1. \A y \in Range(nutMsgFreeTimers') : mt_que'[y] # NULL
    <3>1. Range(nutMsgFreeTimers) \subseteq Timer
      BY <1>1, RangeOfChain
    <3> QED  BY <1>3, <1>4, <3>1 DEF IInv, FreeOK
  <2>2. ASSUME NEW y \in Timer, mt_handle'[y] # NULL
        PROVE  mt_que'[y] \in Queue /\ y \in Range(mq_timers'[mt_que'[y]])
    <3>1. CASE y = x
      BY <1>4, <1>5, <3>1
    <3>2. CASE y # x
      <4>1. /\ mt_que[y] \in Queue /\ y \in Range(mq_timers[mt_que[y]])
            /\ mt_que'[y] = mt_que[y]
        BY <1>4, <2>2, <3>2 DEF IInv, FreeOK, Listed
      <4> QED  BY <1>5, <1>6, <4>1
    <3> QED  BY <3>1, <3>2
  <2> QED  BY <1>3, <2>1, <2>2 DEF FreeOK, Listed
<1> QED
  BY <1>9, <1>11, <1>12, <1>13 DEF IInv

\* NutMsgQStopTimer voids the messages of the timer and frees its object.
LEMMA StopTimerIInv ==
    ASSUME IInv, NEW x \in Timer, NutMsgQStopTimer(x)
    PROVE  IInv'
<1>1. PICK q \in Queue : x \in Listed(q) /\ q = mt_que[x]
  BY DEF NutMsgQStopTimer, IInv, ListOK, Listed
<1>2. /\ mq_que' = [mq_que EXCEPT ![q] = Retract(q, x)]
      /\ mt_handle' = [mt_handle EXCEPT ![x] = NULL]
      /\ NutMsgQFreeTimer(q, x)
      /\ UNCHANGED <<nutMsgQue, mq_read, mq_write, mq_wait, mt_que, mt_flags,
                     pc, msg, stranded>>
  BY <1>1 DEF NutMsgQStopTimer
<1>3. /\ Ring /\ Types
      /\ mt_handle \in [Timer -> {NULL, "running"}]
  BY TypedRing DEF IInv, Types, TypeOK
<1>4. mt_handle'[x] = NULL /\ \A y \in Timer : y # x => mt_handle'[y] = mt_handle[y]
  BY <1>2, <1>3
<1>5. /\ mq_timers' \in [Queue -> Seq(Timer)] /\ nutMsgFreeTimers' \in Seq(Timer)
      /\ Listed(q)' = Listed(q) \ {x}
      /\ \A p \in Queue : p # q => mq_timers'[p] = mq_timers[p]
      /\ \A p \in Queue : ListOK(p)'
      /\ FreeOK'
  BY <1>1, <1>2, <1>4, FreeTimer
<1>6. mq_que'[q] = Retract(q, x) /\ \A p \in Queue : p # q => mq_que'[p] = mq_que[p]
  BY <1>1, <1>2, <1>3 DEF Ring
<1>7. /\ Pending(q)' = Pending(q)
      /\ \A i \in 1..Pending(q) :
           Content(q)'[i] = IF Content(q)[i] = TimerMsg(x)
                              THEN [Content(q)[i] EXCEPT !.id = "MSG_NULL"]
                              ELSE Content(q)[i]
      /\ mq_que'[q] \in [0..Mask -> Slot]
  BY <1>1, <1>2, <1>3, <1>6, ContentRetract
<1>8. \A p \in Queue : p # q => Pending(p)' = Pending(p) /\ Content(p)' = Content(p)
  BY <1>2, <1>6, ContentSame
<1>9. \A p \in Queue : ReaderOK(p)'
  <2>1. \A p \in Queue : Pending(p)' = Pending(p)
    BY <1>7, <1>8
  <2> QED  BY <1>2, <2>1, ReaderSame DEF IInv
<1>10. Types'
  <2>1. mq_que' = [p \in Queue |-> mq_que'[p]]
    BY <1>2, <1>3 DEF Ring
  <2>2. \A p \in Queue : mq_que'[p] \in [0..Mask -> Slot]
    BY <1>3, <1>6, <1>7 DEF Ring
  <2>3. mq_que' \in [Queue -> [0..Mask -> Slot]]
    BY <2>1, <2>2
  <2>4. mt_handle' \in [Timer -> {NULL, "running"}]
    BY <1>2, <1>3
  <2> QED  BY <1>2, <1>3, <1>5, <2>3, <2>4 DEF Types, TypeOK, Slot
<1>11. ASSUME NEW p \in Queue  PROVE MessagesOK(p)'
  <2>1. ListOK(p) /\ MessagesOK(p) /\ Listed(p) \subseteq Timer
    BY <1>3, ListedType DEF IInv
  <2>2. \A y \in Listed(p) : y # x => mt_handle'[y] = mt_handle[y]
    BY <1>4, <2>1
  <2>3. CASE p = q
    <3>1. \A i \in 1..Pending(p) : Content(p)[i] \in Slot
      BY <1>3, ContentType
    <3> QED  BY <1>2, <1>5, <1>7, <2>1, <2>2, <2>3, <3>1, MessagesRetract
  <2>4. CASE p # q
    <3>1. x \notin Listed(p)
      BY <1>1, <2>1, <2>4 DEF ListOK
    <3>2. \A y \in Listed(p) : mt_handle'[y] = mt_handle[y]
      BY <2>2, <3>1
    <3> QED  BY <1>2, <1>5, <1>8, <2>1, <2>4, <3>2, MessagesSame
  <2> QED  BY <2>3, <2>4
<1> QED
  BY <1>5, <1>9, <1>10, <1>11 DEF IInv

\* Steps of a reader that leave the ring and the timers alone.
LEMMA WaitIInv ==
    ASSUME IInv, NEW t \in Thread, NEW q \in Queue, ReaderOf[t] = q,
           ReaderOK(q)', NEW w, NEW c \in {"run", "wait", "woken"},
           mq_wait' = [mq_wait EXCEPT ![q] = w], pc' = [pc EXCEPT ![t] = c],
           UNCHANGED <<nutMsgQue, ring, timers, msg, stranded>>
    PROVE  IInv'
<1>1. mq_wait \in [Queue -> Seq(Thread) \cup {SIGNALED}]
      /\ pc \in [Thread -> {"run", "wait", "woken"}]
  BY DEF IInv, Types, TypeOK
<1>2. \A p \in Queue : Pending(p)' = Pending(p) /\ Content(p)' = Content(p)
  BY ContentSame DEF ring
<1>3. ASSUME NEW p \in Queue  PROVE ReaderOK(p)'
  <2>1. CASE p = q
    BY <2>1
  <2>2. CASE p # q
    <3>1. mq_wait'[p] = mq_wait[p]
      BY <1>1, <2>2
    <3>2. \A u \in Thread : ReaderOf[u] = p => pc'[u] = pc[u]
      BY <1>1, <2>2
    <3> QED  BY <1>2, <3>1, <3>2, ReaderSame DEF IInv
  <2> QED  BY <2>1, <2>2
<1>4. Types'
  <2>1. mq_wait' = [p \in Queue |-> mq_wait'[p]]
    BY <1>1
  <2>2. \A p \in Queue : mq_wait'[p] \in Seq(Thread) \cup {SIGNALED}
    <3>1. ASSUME NEW p \in Queue, p # q
          PROVE  mq_wait'[p] \in Seq(Thread) \cup {SIGNALED}
      BY <1>1, <3>1
    <3>2. mq_wait'[q] \in Seq(Thread) \cup {SIGNALED}
      <4>1. \A u \in Thread : <<u>> \in Seq(Thread)
        OBVIOUS
      <4>2. <<>> \in Seq(Thread)
        OBVIOUS
      <4>3. mq_wait'[q] \in {<<>>, SIGNALED} \/ \E u \in Thread : mq_wait'[q] = <<u>>
        BY DEF ReaderOK, Waits
      <4> QED  BY <4>1, <4>2, <4>3
    <3> QED  BY <3>1, <3>2
  <2>3. mq_wait' \in [Queue -> Seq(Thread) \cup {SIGNALED}]
    BY <2>1, <2>2
  <2>4. pc' \in [Thread -> {"run", "wait", "woken"}]
    BY <1>1
  <2> QED  BY <2>3, <2>4 DEF IInv, Types, TypeOK, ring, timers
<1>5. (\A p \in Queue : ListOK(p)') /\ FreeOK'
  BY ListsSame DEF IInv, timers
<1>6. \A p \in Queue : MessagesOK(p)'
  BY <1>2, MessagesSame DEF IInv, timers
<1> QED
  BY <1>3, <1>4, <1>5, <1>6 DEF IInv

\* NutMsgQGetMessage up to the wait.
LEMMA GetMessageIInv ==
    ASSUME OneReader, IInv, NEW t \in Thread, NutMsgQGetMessage(t)
    PROVE  IInv'
<1> DEFINE q == ReaderOf[t]
<1>1. q \in Queue /\ ReaderOK(q) /\ Pending(q) \in Nat
  BY MsgQAssumption, TypedRing, ContentType, RingSize DEF IInv
<1>2. mq_wait \in [Queue -> Seq(Thread) \cup {SIGNALED}]
      /\ pc \in [Thread -> {"run", "wait", "woken"}]
  BY DEF IInv, Types, TypeOK
<1>3. /\ pc[t] = "run"
      /\ IF mq_wait[q] = SIGNALED
           THEN /\ mq_wait' = [mq_wait EXCEPT ![q] = <<>>]
                /\ pc' = [pc EXCEPT ![t] = "woken"]
           ELSE /\ mq_wait' = [mq_wait EXCEPT ![q] = WaitIn(mq_wait[q], t)]
                /\ pc' = [pc EXCEPT ![t] = "wait"]
      /\ UNCHANGED <<nutMsgQue, ring, timers, msg, stranded>>
  BY DEF NutMsgQGetMessage
<1>4. Pending(q)' = Pending(q)
  BY <1>3, ContentSame DEF ring
<1> HIDE DEF q
<1>5. ReaderOf[t] = q
  BY DEF q
<1>6. IF mq_wait[q] = SIGNALED
        THEN mq_wait'[q] = <<>> /\ pc'[t] = "woken"
        ELSE mq_wait'[q] = WaitIn(mq_wait[q], t) /\ pc'[t] = "wait"
  BY <1>1, <1>2, <1>3
<1>7. ReaderOK(q)'
  BY <1>1, <1>3, <1>4, <1>5, <1>6, ReaderGets
<1> QED
  BY <1>1, <1>3, <1>5, <1>7, WaitIInv

\* The wait of NutMsgQGetMessage ends with a timeout.
LEMMA GetTimeoutIInv ==
    ASSUME OneReader, IInv, NEW t \in Thread, GetTimeout(t)
    PROVE  IInv'
<1> DEFINE q == ReaderOf[t]
           w == TimeOut(mq_wait[q], t)
<1>1. q \in Queue /\ ReaderOK(q)
  BY MsgQAssumption DEF IInv
<1>2. mq_wait \in [Queue -> Seq(Thread) \cup {SIGNALED}]
      /\ pc \in [Thread -> {"run", "wait", "woken"}]
  BY DEF IInv, Types, TypeOK
<1>3. /\ pc[t] = "wait" /\ pc' = [pc EXCEPT ![t] = "run"]
      /\ mq_wait' = [mq_wait EXCEPT ![q] = w]
      /\ UNCHANGED <<nutMsgQue, ring, timers, msg, stranded>>
  BY DEF GetTimeout
<1>4. Pending(q)' = Pending(q)
  BY <1>3, ContentSame DEF ring
<1>5. ReaderOf[t] = q /\ mq_wait'[q] = TimeOut(mq_wait[q], t) /\ pc'[t] = "run"
  BY <1>1, <1>2, <1>3
<1> HIDE DEF q, w
<1>6. ReaderOK(q)'
  BY <1>1, <1>3, <1>4, <1>5, ReaderTimesOut
<1> QED
  BY <1>1, <1>3, <1>5, <1>6, WaitIInv

\* The rest of NutMsgQGetMessage: the reader has been woken up, so there is a
\* message; with the message of a one-shot its timer object is released.
LEMMA GetFinishIInv ==
    ASSUME OneReader, IInv, NEW t \in Thread, GetFinish(t)
    PROVE  IInv'
<1>1. PICK q \in Queue : ReaderOf[t] = q
  BY MsgQAssumption
<1>2. PICK m : m = mq_que[q][mq_read[q]]
  OBVIOUS
<1>3. PICK more \in BOOLEAN : more <=> Advance(mq_read[q]) # mq_write[q]
  OBVIOUS
<1>4. /\ pc[t] = "woken"
      /\ msg' = [msg EXCEPT ![q] = m]
      /\ mq_read' = [mq_read EXCEPT ![q] = Advance(mq_read[q])]
      /\ mq_wait' = [mq_wait EXCEPT ![q] = IF more THEN PostAsync(mq_wait[q])
                                           ELSE mq_wait[q]]
      /\ pc' = [u \in Thread |-> IF u = t THEN "run"
                                 ELSE IF more /\ u \in WokenBy(mq_wait[q])
                                   THEN "woken" ELSE pc[u]]
      /\ IF m.id = "MSG_TIMER" /\ mt_flags[m.data] = 1
           THEN NutMsgQFreeTimer(q, m.data)
           ELSE UNCHANGED <<mq_timers, nutMsgFreeTimers>>
      /\ UNCHANGED <<nutMsgQue, mq_que, mq_write, mt_que, mt_flags, mt_handle,
                     stranded>>
  BY <1>1, <1>2, <1>3 DEF GetFinish, MoreMessages
<1>5. /\ Types /\ Ring /\ ReaderOK(q) /\ MessagesOK(q) /\ ListOK(q)
      /\ mq_wait \in [Queue -> Seq(Thread) \cup {SIGNALED}]
      /\ pc \in [Thread -> {"run", "wait", "woken"}]
      /\ mq_read \in [Queue -> 0..Mask]
  BY TypedRing DEF IInv, Types, TypeOK
<1>6. Pending(q) \in Nat /\ (Pending(q) = 0 <=> mq_read[q] = mq_write[q])
      /\ \A i \in 1..Pending(q) : Content(q)[i] \in Slot
  BY <1>5, ContentType, RingSize
<1>7. mq_read[q] # mq_write[q]
  <2>1. Awake(q)
    BY <1>1, <1>4 DEF Awake
  <2>2. Told(q) >= 1
    BY <2>1 DEF Told
  <2>3. Told(q) <= Pending(q) /\ Told(q) \in Nat
    BY <1>5 DEF ReaderOK, Told
  <2> QED  BY <1>6, <2>2, <2>3
<1>8. /\ mq_read'[q] = Advance(mq_read[q])
      /\ \A p \in Queue : p # q => mq_read'[p] = mq_read[p]
  BY <1>4, <1>5
<1>9. /\ Pending(q) = Pending(q)' + 1 /\ Pending(q)' \in 0..Mask
      /\ Content(q)[1] = m
      /\ \A i \in 1..Pending(q)' : Content(q)'[i] = Content(q)[i + 1]
      /\ mq_read'[q] \in 0..Mask
      /\ more <=> Pending(q)' > 0
  BY <1>2, <1>3, <1>4, <1>5, <1>7, <1>8, ContentGet
<1>10. Pending(q)' \in Nat /\ 1 \in 1..Pending(q) /\ m \in Slot
  <2>1. Pending(q)' \in Nat /\ 1 \in 1..Pending(q)
    BY <1>9, RingSize
  <2> QED  BY <1>6, <1>9, <2>1
<1>11. \A p \in Queue : p # q => Pending(p)' = Pending(p) /\ Content(p)' = Content(p)
  BY <1>4, <1>8, ContentSame
<1>12. ReaderOK(q)'
  <2>1. mq_wait'[q] = IF Pending(q)' > 0 THEN PostAsync(mq_wait[q]) ELSE mq_wait[q]
    BY <1>4, <1>5, <1>9
  <2>2. pc'[t] = "run"
    BY <1>4
  <2> QED  BY <1>1, <1>4, <1>5, <1>9, <1>10, <2>1, <2>2, ReaderFinished
<1>13. \A p \in Queue : ReaderOK(p)'
  <2>1. ASSUME NEW p \in Queue, p # q  PROVE ReaderOK(p)'
    <3>1. mq_wait'[p] = mq_wait[p]
      BY <1>4, <1>5, <2>1
    <3>2. \A u \in Thread : ReaderOf[u] = p => pc'[u] = pc[u]
      BY <1>1, <1>4, <1>5, <2>1, WokenReader
    <3> QED  BY <1>11, <2>1, <3>1, <3>2, ReaderSame DEF IInv
  <2> QED  BY <1>12, <2>1
<1>14. /\ mq_timers' \in [Queue -> Seq(Timer)] /\ nutMsgFreeTimers' \in Seq(Timer)
       /\ Listed(q)' = IF m.id = "MSG_TIMER" /\ mt_flags[m.data] = 1
                         THEN Listed(q) \ {m.data} ELSE Listed(q)
       /\ \A p \in Queue : p # q => mq_timers'[p] = mq_timers[p]
       /\ \A p \in Queue : ListOK(p)'
       /\ FreeOK'
  <2>1. CASE m.id = "MSG_TIMER" /\ mt_flags[m.data] = 1
    <3> DEFINE x == m.data
    <3>1. m = TimerMsg(x)
      BY <1>10, <2>1 DEF Slot, TimerMsg
    <3>2. x \in Listed(q)
      BY <1>5, <1>9, <1>10, <2>1 DEF MessagesOK
    <3>3. mt_handle[x] = NULL
      BY <1>5, <1>9, <1>10, <2>1, <3>1, <3>2 DEF MessagesOK
    <3>4. NutMsgQFreeTimer(q, x)
      BY <1>4, <2>1
    <3>5. mt_handle'[x] = NULL /\ \A y \in Timer : y # x => mt_handle'[y] = mt_handle[y]
      BY <1>4, <3>3
    <3> HIDE DEF x
    <3>6. /\ mq_timers' \in [Queue -> Seq(Timer)] /\ nutMsgFreeTimers' \in Seq(Timer)
          /\ Listed(q)' = Listed(q) \ {x}
          /\ \A p \in Queue : p # q => mq_timers'[p] = mq_timers[p]
          /\ \A p \in Queue : ListOK(p)'
          /\ FreeOK'
      BY <1>4, <3>2, <3>4, <3>5, FreeTimer
    <3> QED  BY <2>1, <3>6 DEF x
  <2>2. CASE ~(m.id = "MSG_TIMER" /\ mt_flags[m.data] = 1)
    <3>1. UNCHANGED <<mq_timers, nutMsgFreeTimers, mt_que, mt_handle>>
      BY <1>4, <2>2
    <3>2. (\A p \in Queue : ListOK(p)') /\ FreeOK'
      BY <3>1, ListsSame DEF IInv
    <3>3. Listed(q)' = Listed(q)
      BY <3>1 DEF Listed
    <3> QED  BY <1>5, <2>2, <3>1, <3>2, <3>3 DEF Types, TypeOK
  <2> QED  BY <2>1, <2>2
<1>15. ASSUME NEW p \in Queue  PROVE MessagesOK(p)'
  <2>1. CASE p = q
    BY <1>4, <1>5, <1>6, <1>9, <1>10, <1>14, <2>1, MessagesGet
  <2>2. CASE p # q
    BY <1>4, <1>11, <1>14, <2>2, MessagesSame DEF IInv
  <2> QED  BY <2>1, <2>2
<1>16. Types'
  <2>1. mq_wait' \in [Queue -> Seq(Thread) \cup {SIGNALED}]
    <3>1. PostAsync(mq_wait[q]) \in {<<>>, SIGNALED}
      BY <1>5, WokenReader
    <3>2. <<>> \in Seq(Thread)
      OBVIOUS
    <3>3. PostAsync(mq_wait[q]) \in Seq(Thread) \cup {SIGNALED}
      BY <3>1, <3>2
    <3> QED  BY <1>4, <1>5, <3>3
  <2>2. pc' \in [Thread -> {"run", "wait", "woken"}]
    BY <1>4, <1>5
  <2>3. mq_read' \in [Queue -> 0..Mask]
    BY <1>4, <1>5, <1>8, <1>9
  <2>4. msg' \in [Queue -> Slot]
    BY <1>4, <1>5, <1>10 DEF Types
  <2> QED  BY <1>4, <1>5, <1>14, <2>1, <2>2, <2>3, <2>4 DEF Types, TypeOK
<1> QED
  BY <1>13, <1>14, <1>15, <1>16 DEF IInv

\* NutMsgQFlush, by the reader of the queue.
LEMMA FlushIInv ==
    ASSUME FlushBy # "anyone", IInv, NEW q \in Queue, NutMsgQFlush(q)
    PROVE  IInv'
<1>1. /\ mq_read' = [mq_read EXCEPT ![q] = mq_write[q]]
      /\ mq_wait' = [mq_wait EXCEPT ![q] = <<>>]
      /\ stranded' = stranded \cup {x \in Timer : TimerMsg(x) \in Range(Content(q))}
      /\ UNCHANGED <<nutMsgQue, mq_que, mq_write, timers, pc, msg>>
      /\ \A t \in Thread : ReaderOf[t] = q => pc[t] = "run"
  BY MsgQAssumption DEF NutMsgQFlush
<1>2. /\ Types /\ Ring /\ MessagesOK(q)
      /\ mq_wait \in [Queue -> Seq(Thread) \cup {SIGNALED}]
      /\ mq_read \in [Queue -> 0..Mask] /\ mq_write \in [Queue -> 0..Mask]
  BY TypedRing DEF IInv, Types, TypeOK
<1>3. /\ \A p \in Queue : p # q => mq_read'[p] = mq_read[p] /\ mq_wait'[p] = mq_wait[p]
      /\ mq_read'[q] = mq_write[q] /\ mq_wait'[q] = <<>>
  BY <1>1, <1>2
<1>4. \A p \in Queue : p # q => Pending(p)' = Pending(p) /\ Content(p)' = Content(p)
  BY <1>1, <1>3, ContentSame
<1>5. Pending(q)' = 0
  <2>1. Pending(q)' = (mq_write[q] - mq_write[q]) % Size
    BY <1>1, <1>3 DEF Pending
  <2>2. mq_write[q] \in 0..Mask
    BY <1>2
  <2>3. (mq_write[q] - mq_write[q]) % Size = 0
    BY <2>2, Distance
  <2> QED  BY <2>1, <2>3
<1>6. Types'
  <2>1. mq_read' \in [Queue -> 0..Mask]
    BY <1>1, <1>2
  <2>2. mq_wait' \in [Queue -> Seq(Thread) \cup {SIGNALED}]
    <3>1. <<>> \in Seq(Thread) \cup {SIGNALED}
      OBVIOUS
    <3> QED  BY <1>1, <1>2, <3>1
  <2> QED  BY <1>1, <1>2, <2>1, <2>2 DEF Types, TypeOK, timers
<1>7. (\A p \in Queue : ListOK(p)') /\ FreeOK'
  BY <1>1, ListsSame DEF IInv, timers
<1>8. \A p \in Queue : ReaderOK(p)'
  <2>1. ReaderOK(q)'
    BY <1>1, <1>3, <1>5, ReaderFlushed
  <2>2. \A p \in Queue : p # q => ReaderOK(p)'
    BY <1>1, <1>3, <1>4, ReaderSame DEF IInv
  <2> QED  BY <2>1, <2>2
<1>9. MessagesOK(q)'
  <2>1. ASSUME NEW x \in Listed(q), NEW i \in 1..Pending(q), Content(q)[i] = TimerMsg(x)
        PROVE  x \in stranded'
    <3>1. x \in Timer
      BY <1>2, ListedType
    <3>2. i \in DOMAIN Content(q)
      BY <1>2, ContentType
    <3>3. TimerMsg(x) \in Range(Content(q))
      BY <2>1, <3>2 DEF Range
    <3> QED  BY <1>1, <3>1, <3>3
  <2>2. stranded \subseteq stranded'
    BY <1>1
  <2> QED  BY <1>1, <1>2, <1>5, <2>1, <2>2, MessagesFlush DEF timers
<1>10. \A p \in Queue : p # q => MessagesOK(p)'
  BY <1>1, <1>4, MessagesSame DEF IInv, timers
<1> QED
  BY <1>6, <1>7, <1>8, <1>9, <1>10 DEF IInv

\* Every step preserves the invariant.
LEMMA NextIInv ==
    ASSUME OneReader, FlushBy # "anyone", IInv, [Next]_vars
    PROVE  IInv'
<1>1. nutMsgQue \in Seq(Queue)
  BY DEF IInv, Types, TypeOK
<1>2. ASSUME NEW q \in Queue, NutMsgQCreate(q)
      PROVE  IInv'
  <2>1. <<q>> \in Seq(Queue)
    OBVIOUS
  <2>2. nutMsgQue' \in Seq(Queue)
    BY <1>1, <1>2, <2>1, ConcatProperties DEF NutMsgQCreate
  <2> QED  BY <1>2, <2>2, QuietIInv DEF NutMsgQCreate
<1>3. ASSUME NEW q \in Queue, NEW d \in Payload, NutMsgQPost(q, d)
      PROVE  IInv'
  BY <1>3, PostIInv DEF NutMsgQPost
<1>4. ASSUME NEW d \in Payload, NutMsgQBroadcast(d)
      PROVE  IInv'
  <2>1. Range(nutMsgQue) \in SUBSET Queue
    BY <1>1, RangeOfChain
  <2> QED  BY <1>4, <2>1, PostIInv DEF NutMsgQBroadcast
<1>5. CASE UNCHANGED vars
  BY <1>1, <1>5, QuietIInv DEF vars
<1>6. ASSUME NEW q \in Queue, NutMsgQFlush(q)  PROVE IInv'
  BY <1>6, FlushIInv
<1>7. ASSUME NEW q \in Queue, NEW x \in Timer, NEW f \in {0, 1},
             NEW h \in Handle, NutMsgQStartTimer(q, x, f, h)
      PROVE  IInv'
  BY <1>7, StartTimerIInv
<1>8. ASSUME NEW x \in Timer, NutMsgQStopTimer(x)  PROVE IInv'
  BY <1>8, StopTimerIInv
<1>10. ASSUME NEW x \in Timer, NEW h \in Handle, NutMsgQTimerCb(x, h)  PROVE IInv'
  BY <1>10, TimerCbIInv
<1>9. ASSUME NEW t \in Thread, NutMsgQGetMessage(t) \/ GetFinish(t) \/ GetTimeout(t)
      PROVE  IInv'
  BY <1>9, GetMessageIInv, GetFinishIInv, GetTimeoutIInv
<1> QED
  BY <1>2, <1>3, <1>4, <1>5, <1>6, <1>7, <1>8, <1>9, <1>10 DEF Next

-----------------------------------------------------------------------------
\* The inductive invariant holds.
THEOREM MsgQInvariant ==
    ASSUME OneReader, FlushBy # "anyone"
    PROVE  Spec => []IInv
<1>1. Init => IInv
  BY InitIInv
<1>2. IInv /\ [Next]_vars => IInv'
  BY NextIInv
<1> QED
  BY <1>1, <1>2, PTL DEF Spec

\* The only reader of a queue, once awake, finds a message.  (Two readers may
\* find none, and advance mq_read past mq_write: the assertion behind the wait
\* in NutMsgQGetMessage is compiled to nothing.)
LEMMA AwakeFinds ==
    ASSUME IInv, NEW q \in Queue, Awake(q)
    PROVE  mq_read[q] # mq_write[q]
<1>1. Told(q) >= 1 /\ Told(q) \in Nat
  BY DEF Told
<1>2. Told(q) <= Pending(q)
  BY DEF IInv, ReaderOK
<1>3. Pending(q) \in 0..Mask /\ (Pending(q) = 0 <=> mq_read[q] = mq_write[q])
  BY TypedRing, ContentType DEF IInv
<1> QED
  BY <1>1, <1>2, <1>3, RingSize

(***************************************************************************)
(* While there are messages in a ring, its queue is signaled or its reader *)
(* is awake: NutMsgQGetMessage, which posts for the messages it leaves     *)
(* behind, never leaves one with nobody to take it.                        *)
(***************************************************************************)
THEOREM MsgQNoStuckMessage ==
    ASSUME OneReader, FlushBy # "anyone"
    PROVE  Spec => []NoStuckMessage
<1>1. IInv => NoStuckMessage
  <2> SUFFICES ASSUME IInv, NEW q \in Queue, mq_read[q] # mq_write[q]
               PROVE  mq_wait[q] = SIGNALED \/ Awake(q)
    BY DEF NoStuckMessage
  <2>1. Pending(q) \in 0..Mask /\ (Pending(q) = 0 <=> mq_read[q] = mq_write[q])
    BY TypedRing, ContentType DEF IInv
  <2>2. Pending(q) > 0
    BY <2>1, RingSize
  <2>3. Told(q) > 0
    BY <2>2 DEF IInv, ReaderOK
  <2> QED  BY <2>3 DEF Told
<1> QED
  BY <1>1, MsgQInvariant, PTL

(***************************************************************************)
(* NUTMSGTMR objects are never on two lists or twice on one, so that       *)
(* NutMsgQFreeTimer always finds the object it is to free, and neither a   *)
(* running timer nor a message in a ring refers to a freed object.         *)
(***************************************************************************)
THEOREM MsgQTimersAccounted ==
    ASSUME OneReader, FlushBy # "anyone"
    PROVE  Spec => []TimersAccounted
<1>1. IInv => TimersAccounted
  BY DEF IInv, ListOK, MessagesOK, FreeOK, Listed, TimersAccounted
<1> QED
  BY <1>1, MsgQInvariant, PTL

(***************************************************************************)
(* A one-shot timer that NutMsgQTimerCb could not post is started again,   *)
(* and one that was posted is in the ring until its reader releases it:    *)
(* no NUTMSGTMR is lost except by NutMsgQFlush and by a failed start of    *)
(* its timer.                                                              *)
(***************************************************************************)
THEOREM MsgQOneShotNotLost ==
    ASSUME OneReader, FlushBy # "anyone"
    PROVE  Spec => []OneShotNotLost
<1>1. IInv => OneShotNotLost
  <2> SUFFICES ASSUME IInv, NEW q \in Queue, NEW x \in Range(mq_timers[q]),
                      mt_flags[x] = 1, mt_handle[x] = NULL, x \notin stranded
               PROVE  TimerMsg(x) \in Range(Content(q))
    BY DEF OneShotNotLost
  <2>1. PICK i \in 1..Pending(q) : Content(q)[i] = TimerMsg(x)
    BY DEF IInv, MessagesOK, Listed
  <2>2. DOMAIN Content(q) = 1..Pending(q)
    BY TypedRing, ContentType DEF IInv
  <2> QED  BY <2>1, <2>2 DEF Range
<1> QED
  BY <1>1, MsgQInvariant, PTL

-----------------------------------------------------------------------------
(***************************************************************************)
(* The rings implement the first-in first-out channels of MsgFifo.         *)
(***************************************************************************)
\* A voided message is what MsgFifo calls Void.
Visible(m) == IF m.id = "MSG_NULL" THEN NULL ELSE m

Channel(q) == [i \in 1..Pending(q) |-> Visible(Content(q)[i])]

channels == [q \in Queue |-> Channel(q)]
taken == [q \in Queue |-> Visible(msg[q])]

\* The actions of MsgFifo in these terms.
LEMMA FifoPut ==
    ASSUME NEW qs \in SUBSET Queue, NEW m \in Message, taken' = taken,
           channels' = [q \in Queue |-> IF q \in qs /\ Len(channels[q]) < Mask
                                          THEN Append(channels[q], m) ELSE channels[q]]
    PROVE  Fifo!Next
<1>1. Fifo!Put(qs, m)
  BY DEF Fifo!Put, channels, taken, Channel, Visible
<1> QED
  BY <1>1 DEF Fifo!Next

LEMMA FifoGet ==
    ASSUME NEW q \in Queue, channels[q] # <<>>,
           channels' = [channels EXCEPT ![q] = Tail(channels[q])],
           taken' = [taken EXCEPT ![q] = Head(channels[q])]
    PROVE  Fifo!Next
<1>1. Fifo!Get(q)
  BY DEF Fifo!Get, channels, taken, Channel, Visible
<1> QED
  BY <1>1 DEF Fifo!Next

LEMMA FifoTakeBack ==
    ASSUME NEW q \in Queue, NEW m \in Message, taken' = taken,
           channels' = [channels EXCEPT ![q] =
                          [i \in 1..Len(channels[q]) |->
                             IF channels[q][i] = m THEN NULL ELSE channels[q][i]]]
    PROVE  Fifo!Next
<1>1. Fifo!TakeBack(q, m)
  BY DEF Fifo!TakeBack, channels, taken, Channel, Visible
<1> QED
  BY <1>1 DEF Fifo!Next

LEMMA FifoFlush ==
    ASSUME NEW q \in Queue, taken' = taken,
           channels' = [channels EXCEPT ![q] = <<>>]
    PROVE  Fifo!Next
<1>1. Fifo!Flush(q)
  BY DEF Fifo!Flush, channels, taken, Channel, Visible
<1> QED
  BY <1>1 DEF Fifo!Next

LEMMA FifoStutter ==
    ASSUME taken' = taken, channels' = channels
    PROVE  UNCHANGED Fifo!vars
  BY DEF Fifo!vars, channels, taken, Channel, Visible

\* The channels of a typed ring.
LEMMA ChannelType ==
    ASSUME Ring, NEW q \in Queue
    PROVE  /\ Channel(q) \in Seq(Slot \cup {NULL}) /\ Len(Channel(q)) = Pending(q)
           /\ \A i \in 1..Pending(q) : Channel(q)[i] = Visible(Content(q)[i])
           /\ Pending(q) \in 0..Mask
           /\ NutMsgQFull(q) <=> ~(Len(Channel(q)) < Mask)
<1>1. /\ Pending(q) \in 0..Mask /\ (NutMsgQFull(q) <=> Pending(q) = Mask)
      /\ \A i \in 1..Pending(q) : Content(q)[i] \in Slot
  BY ContentType
<1>2. \A i \in 1..Pending(q) : Visible(Content(q)[i]) \in Slot \cup {NULL}
  BY <1>1 DEF Visible
<1>3. Channel(q) \in [1..Pending(q) -> Slot \cup {NULL}] /\ Pending(q) \in Nat
  BY <1>1, <1>2, RingSize DEF Channel
<1>4. Channel(q) \in Seq(Slot \cup {NULL}) /\ Len(Channel(q)) = Pending(q)
  BY <1>3, SeqDef, LenProperties
<1>5. \A i \in 1..Pending(q) : Channel(q)[i] = Visible(Content(q)[i])
  BY DEF Channel
<1> QED
  BY <1>1, <1>4, <1>5, RingSize

\* Append and Tail as functions.
LEMMA AppendTail ==
    ASSUME NEW S, NEW c \in Seq(S), NEW m \in S
    PROVE  /\ Append(c, m) = [i \in 1..(Len(c) + 1) |-> IF i = Len(c) + 1 THEN m ELSE c[i]]
           /\ c # <<>> => Tail(c) = [i \in 1..(Len(c) - 1) |-> c[i + 1]]
<1>1. Append(c, m) = [i \in 1..(Len(c) + 1) |-> IF i = Len(c) + 1 THEN m ELSE c[i]]
  <2> DEFINE r == Append(c, m)
  <2>1. r \in Seq(S) /\ Len(r) = Len(c) + 1
        /\ \A i \in 1..(Len(c) + 1) : r[i] = IF i = Len(c) + 1 THEN m ELSE c[i]
    OBVIOUS
  <2>2. r = [i \in 1..Len(r) |-> r[i]]
    <3> HIDE DEF r
    <3>1. r \in [1..Len(r) -> S]
      BY <2>1, LenProperties
    <3> QED  BY <3>1
  <2> QED  BY <2>1, <2>2
<1>2. ASSUME c # <<>>  PROVE Tail(c) = [i \in 1..(Len(c) - 1) |-> c[i + 1]]
  <2> DEFINE r == Tail(c)
  <2>1. r \in Seq(S) /\ Len(r) = Len(c) - 1
        /\ \A i \in 1..(Len(c) - 1) : r[i] = c[i + 1]
    BY <1>2
  <2>2. r = [i \in 1..Len(r) |-> r[i]]
    <3> HIDE DEF r
    <3>1. r \in [1..Len(r) -> S]
      BY <2>1, LenProperties
    <3> QED  BY <3>1
  <2> QED  BY <2>1, <2>2
<1> QED
  BY <1>1, <1>2

\* NutMsgQPost appends.
LEMMA ChannelPost ==
    ASSUME Ring, NEW q \in Queue, NEW m \in Slot, m.id # "MSG_NULL", Posted(q, m)
    PROVE  Channel(q)' = Append(Channel(q), m)
<1> DEFINE n == Pending(q)
           c == Channel(q)
<1>1. /\ c \in Seq(Slot \cup {NULL}) /\ Len(c) = n /\ n \in Nat
      /\ \A i \in 1..n : c[i] = Visible(Content(q)[i])
  BY ChannelType, RingSize
<1>2. Channel(q)' = [i \in 1..(n + 1) |-> Visible(Content(q)'[i])]
  BY DEF Channel, Posted, Visible
<1>3. /\ \A i \in 1..n : Content(q)'[i] = Content(q)[i]
      /\ Content(q)'[n + 1] = m
  BY DEF Posted
<1>4. Visible(m) = m
  BY DEF Visible
<1> HIDE DEF n, c
<1>5. Append(c, m) = [i \in 1..(n + 1) |-> IF i = n + 1 THEN m ELSE c[i]]
  <2>1. m \in Slot \cup {NULL}
    OBVIOUS
  <2> QED  BY <1>1, <2>1, AppendTail
<1>6. \A i \in 1..(n + 1) : Visible(Content(q)'[i]) = IF i = n + 1 THEN m ELSE c[i]
  <2>1. \A i \in 1..(n + 1) : i \in 1..n \/ i = n + 1
    BY <1>1
  <2> QED  BY <1>1, <1>3, <1>4, <2>1
<1>7. Channel(q)' = Append(c, m)
  BY <1>2, <1>5, <1>6
<1> QED
  BY <1>7 DEF c

\* NutMsgQGetMessage takes the first message out.
LEMMA ChannelGet ==
    ASSUME Ring, NEW q \in Queue, Pending(q)' \in Nat, Pending(q) = Pending(q)' + 1,
           \A i \in 1..Pending(q)' : Content(q)'[i] = Content(q)[i + 1]
    PROVE  /\ Channel(q) # <<>> /\ Head(Channel(q)) = Visible(Content(q)[1])
           /\ Channel(q)' = Tail(Channel(q))
<1> DEFINE n == Pending(q)'
           c == Channel(q)
<1>1. /\ c \in Seq(Slot \cup {NULL}) /\ Len(c) = n + 1 /\ n \in Nat
      /\ \A i \in 1..(n + 1) : c[i] = Visible(Content(q)[i])
  BY ChannelType
<1>2. Channel(q)' = [i \in 1..n |-> Visible(Content(q)'[i])]
  BY DEF Channel, Visible
<1>3. \A i \in 1..n : Content(q)'[i] = Content(q)[i + 1]
  OBVIOUS
<1> HIDE DEF n, c
<1>4. c # <<>> /\ Head(c) = c[1] /\ 1 \in 1..(n + 1)
  BY <1>1
<1>5. Tail(c) = [i \in 1..n |-> c[i + 1]]
  <2>1. Len(c) - 1 = n /\ c[1] \in Slot \cup {NULL}
    BY <1>1
  <2> QED  BY <1>1, <1>4, <2>1, AppendTail
<1>6. \A i \in 1..n : Visible(Content(q)'[i]) = c[i + 1]
  BY <1>1, <1>3
<1>7. Channel(q)' = Tail(c)
  BY <1>2, <1>5, <1>6
<1> QED
  BY <1>1, <1>4, <1>7 DEF c

\* NutMsgQStopTimer takes the messages of its timer back.
LEMMA ChannelRetract ==
    ASSUME Ring, NEW q \in Queue, NEW x \in Timer, Pending(q)' = Pending(q),
           \A i \in 1..Pending(q) :
             Content(q)'[i] = IF Content(q)[i] = TimerMsg(x)
                                THEN [Content(q)[i] EXCEPT !.id = "MSG_NULL"]
                                ELSE Content(q)[i]
    PROVE  Channel(q)' = [i \in 1..Len(Channel(q)) |->
                            IF Channel(q)[i] = TimerMsg(x) THEN NULL ELSE Channel(q)[i]]
<1> DEFINE n == Pending(q)
           c == Channel(q)
<1>1. Len(c) = n /\ \A i \in 1..n : c[i] = Visible(Content(q)[i])
  BY ChannelType
<1>2. Channel(q)' = [i \in 1..n |-> Visible(Content(q)'[i])]
  BY DEF Channel, Visible
<1>3. ASSUME NEW i \in 1..n
      PROVE  Visible(Content(q)'[i]) = IF c[i] = TimerMsg(x) THEN NULL ELSE c[i]
  <2> DEFINE s == Content(q)[i]
  <2>1. s \in Slot /\ c[i] = Visible(s)
    BY <1>1, ContentType
  <2>2. Content(q)'[i] = IF s = TimerMsg(x) THEN [s EXCEPT !.id = "MSG_NULL"] ELSE s
    OBVIOUS
  <2> HIDE DEF s
  <2>3. [s EXCEPT !.id = "MSG_NULL"].id = "MSG_NULL"
    BY <2>1 DEF Slot
  <2>4. TimerMsg(x).id # "MSG_NULL"
    BY DEF TimerMsg
  <2> HIDE DEF c
  <2> QED  BY <2>1, <2>2, <2>3, <2>4 DEF Visible
<1> HIDE DEF n, c
<1>4. Channel(q)' = [i \in 1..Len(c) |-> IF c[i] = TimerMsg(x) THEN NULL ELSE c[i]]
  BY <1>1, <1>2, <1>3
<1> QED
  BY <1>4 DEF c

\* The channels depend on the messages only.
LEMMA ChannelSame ==
    ASSUME NEW q, Pending(q)' = Pending(q), Content(q)' = Content(q)
    PROVE  Channel(q)' = Channel(q)
  BY DEF Channel, Visible

\* Only one channel changes.
LEMMA OneChannel ==
    ASSUME NEW q \in Queue, NEW c, Channel(q)' = c,
           \A p \in Queue : p # q => Channel(p)' = Channel(p)
    PROVE  channels' = [channels EXCEPT ![q] = c]
  BY DEF channels

\* Posting to queues is a Put.
LEMMA PostPuts ==
    ASSUME OneReader, IInv, NEW qs \in SUBSET Queue, NEW m \in Message, PostTo(qs, m)
    PROVE  Fifo!Next
<1>1. m \in Slot /\ m.id # "MSG_NULL"
  BY DEF Message, UserMsg, TimerMsg, Slot
<1>2. Ring
  BY TypedRing DEF IInv
<1>3. /\ msg' = msg
      /\ \A q \in Queue : IF q \in qs /\ ~NutMsgQFull(q) THEN Posted(q, m)
                          ELSE Pending(q)' = Pending(q) /\ Content(q)' = Content(q)
  BY <1>1, PostToQueues DEF IInv
<1>4. ASSUME NEW q \in Queue
      PROVE  Channel(q)' = IF q \in qs /\ Len(Channel(q)) < Mask
                             THEN Append(Channel(q), m) ELSE Channel(q)
  <2>1. NutMsgQFull(q) <=> ~(Len(Channel(q)) < Mask)
    BY <1>2, ChannelType
  <2>2. CASE q \in qs /\ ~NutMsgQFull(q)
    <3>1. Channel(q)' = Append(Channel(q), m)
      BY <1>1, <1>2, <1>3, <2>2, ChannelPost
    <3> QED  BY <2>1, <2>2, <3>1
  <2>3. CASE ~(q \in qs /\ ~NutMsgQFull(q))
    <3>1. Channel(q)' = Channel(q)
      BY <1>3, <2>3, ChannelSame
    <3> QED  BY <2>1, <2>3, <3>1
  <2> QED  BY <2>2, <2>3
<1>5. channels' = [q \in Queue |-> IF q \in qs /\ Len(channels[q]) < Mask
                                     THEN Append(channels[q], m) ELSE channels[q]]
  BY <1>4 DEF channels
<1>6. taken' = taken
  BY <1>3 DEF taken
<1> QED
  BY <1>5, <1>6, FifoPut

\* A reader takes the first message of its queue, and there is one.
LEMMA FinishGets ==
    ASSUME OneReader, IInv, NEW t \in Thread, GetFinish(t)
    PROVE  Fifo!Next
<1>1. PICK q \in Queue : ReaderOf[t] = q
  BY MsgQAssumption
<1>2. PICK m : m = mq_que[q][mq_read[q]]
  OBVIOUS
<1>3. /\ pc[t] = "woken"
      /\ msg' = [msg EXCEPT ![q] = m]
      /\ mq_read' = [mq_read EXCEPT ![q] = Advance(mq_read[q])]
      /\ mq_que' = mq_que /\ mq_write' = mq_write
  BY <1>1, <1>2 DEF GetFinish
<1>4. /\ Ring /\ mq_read \in [Queue -> 0..Mask] /\ msg \in [Queue -> Slot]
  BY TypedRing DEF IInv, Types, TypeOK
<1>5. mq_read[q] # mq_write[q]
  BY <1>1, <1>3, AwakeFinds DEF Awake
<1>6. /\ mq_read'[q] = Advance(mq_read[q])
      /\ \A p \in Queue : p # q => mq_read'[p] = mq_read[p]
  BY <1>3, <1>4
<1>7. /\ Pending(q) = Pending(q)' + 1 /\ Pending(q)' \in 0..Mask
      /\ Content(q)[1] = m
      /\ \A i \in 1..Pending(q)' : Content(q)'[i] = Content(q)[i + 1]
  BY <1>2, <1>3, <1>4, <1>5, <1>6, ContentGet
<1>8. Pending(q)' \in Nat
  BY <1>7, RingSize
<1>9. /\ Channel(q) # <<>> /\ Head(Channel(q)) = Visible(m)
      /\ Channel(q)' = Tail(Channel(q))
  BY <1>4, <1>7, <1>8, ChannelGet
<1>10. \A p \in Queue : p # q => Channel(p)' = Channel(p)
  BY <1>3, <1>6, ContentSame, ChannelSame
<1>11. channels[q] = Channel(q)
  BY DEF channels
<1>12. channels' = [channels EXCEPT ![q] = Tail(channels[q])]
  BY <1>9, <1>10, <1>11, OneChannel
<1>13. taken' = [taken EXCEPT ![q] = Head(channels[q])]
  <2>1. \A p \in Queue : msg'[p] = IF p = q THEN m ELSE msg[p]
    BY <1>3, <1>4
  <2> QED  BY <1>9, <1>11, <2>1 DEF taken, Visible
<1> QED
  BY <1>9, <1>11, <1>12, <1>13, FifoGet

\* A stopped timer's messages are taken back.
LEMMA StopTakesBack ==
    ASSUME IInv, NEW x \in Timer, NutMsgQStopTimer(x)
    PROVE  Fifo!Next
<1>1. PICK q \in Queue : q = mt_que[x]
  BY DEF NutMsgQStopTimer, IInv, ListOK, Listed
<1>2. /\ mq_que' = [mq_que EXCEPT ![q] = Retract(q, x)]
      /\ mq_read' = mq_read /\ mq_write' = mq_write /\ msg' = msg
  BY <1>1 DEF NutMsgQStopTimer
<1>3. Ring
  BY TypedRing DEF IInv
<1>4. mq_que'[q] = Retract(q, x) /\ \A p \in Queue : p # q => mq_que'[p] = mq_que[p]
  BY <1>2, <1>3 DEF Ring
<1>5. /\ Pending(q)' = Pending(q)
      /\ \A i \in 1..Pending(q) :
           Content(q)'[i] = IF Content(q)[i] = TimerMsg(x)
                              THEN [Content(q)[i] EXCEPT !.id = "MSG_NULL"]
                              ELSE Content(q)[i]
  BY <1>2, <1>3, <1>4, ContentRetract
<1>6. Channel(q)' = [i \in 1..Len(Channel(q)) |->
                       IF Channel(q)[i] = TimerMsg(x) THEN NULL ELSE Channel(q)[i]]
  BY <1>3, <1>5, ChannelRetract
<1>7. \A p \in Queue : p # q => Channel(p)' = Channel(p)
  BY <1>2, <1>4, ContentSame, ChannelSame
<1>8. channels[q] = Channel(q)
  BY DEF channels
<1>9. channels' = [channels EXCEPT ![q] =
                     [i \in 1..Len(channels[q]) |->
                        IF channels[q][i] = TimerMsg(x) THEN NULL ELSE channels[q][i]]]
  BY <1>6, <1>7, <1>8, OneChannel
<1>10. taken' = taken /\ TimerMsg(x) \in Message
  BY <1>2 DEF taken, Message
<1> QED
  BY <1>9, <1>10, FifoTakeBack

\* A flush empties the channel.
LEMMA FlushFlushes ==
    ASSUME IInv, NEW q \in Queue, NutMsgQFlush(q)
    PROVE  Fifo!Next
<1>1. /\ mq_read' = [mq_read EXCEPT ![q] = mq_write[q]]
      /\ mq_que' = mq_que /\ mq_write' = mq_write /\ msg' = msg
  BY DEF NutMsgQFlush
<1>2. mq_read \in [Queue -> 0..Mask] /\ mq_write[q] \in 0..Mask
  BY DEF IInv, Types, TypeOK
<1>3. /\ mq_read'[q] = mq_write[q]
      /\ \A p \in Queue : p # q => mq_read'[p] = mq_read[p]
  BY <1>1, <1>2
<1>4. Pending(q)' = 0
  <2>1. Pending(q)' = (mq_write[q] - mq_write[q]) % Size
    BY <1>1, <1>3 DEF Pending
  <2> QED  BY <1>2, <2>1, Distance
<1>5. Channel(q)' = <<>>
  <2>1. 1..Pending(q)' = {}
    BY <1>4
  <2> QED  BY <2>1 DEF Channel
<1>6. \A p \in Queue : p # q => Channel(p)' = Channel(p)
  BY <1>1, <1>3, ContentSame, ChannelSame
<1>7. channels' = [channels EXCEPT ![q] = <<>>]
  BY <1>5, <1>6, OneChannel
<1>8. taken' = taken
  BY <1>1 DEF taken
<1> QED
  BY <1>7, <1>8, FifoFlush

\* The other steps do not change the channels.
LEMMA RingStutters ==
    ASSUME UNCHANGED <<ring, msg>>
    PROVE  UNCHANGED Fifo!vars
<1>1. \A q \in Queue : Channel(q)' = Channel(q)
  BY ContentSame, ChannelSame DEF ring
<1> QED
  BY <1>1, FifoStutter DEF channels, taken

(***************************************************************************)
(* The ring buffers of msg.c are first-in first-out channels of capacity   *)
(* 2^bits - 1: what NutMsgQPost accepts is received once and in the order  *)
(* of posting, unless it is flushed or belongs to a stopped timer.         *)
(***************************************************************************)
THEOREM MsgQImplementsFifo ==
    ASSUME OneReader, FlushBy # "anyone"
    PROVE  Spec => ImplementsFifo
<1>1. Init => Fifo!Init
  <2> SUFFICES ASSUME Init PROVE Fifo!Init
    OBVIOUS
  <2>1. IInv
    BY InitIInv
  <2>2. \A q \in Queue : mq_read[q] = mq_write[q] /\ msg[q] = NullMsg
    BY DEF Init
  <2>3. \A q \in Queue : Pending(q) = 0
    BY <2>1, <2>2, TypedRing, ContentType DEF IInv
  <2>4. \A q \in Queue : 1..Pending(q) = {}
    BY <2>3
  <2>5. \A q \in Queue : Channel(q) = <<>> /\ Visible(msg[q]) = NULL
    BY <2>2, <2>4 DEF Channel, Visible, NullMsg
  <2>6. channels = [q \in Queue |-> <<>>] /\ taken = [q \in Queue |-> NULL]
    BY <2>5 DEF channels, taken
  <2> QED  BY <2>6 DEF Fifo!Init, channels, taken, Channel, Visible
<1>2. IInv /\ [Next]_vars => [Fifo!Next]_(Fifo!vars)
  <2> SUFFICES ASSUME IInv, [Next]_vars
               PROVE  Fifo!Next \/ UNCHANGED Fifo!vars
    OBVIOUS
  <2>1. CASE UNCHANGED vars
    BY <2>1, RingStutters DEF vars
  <2>2. ASSUME NEW q \in Queue, NutMsgQCreate(q)  PROVE UNCHANGED Fifo!vars
    BY <2>2, RingStutters DEF NutMsgQCreate
  <2>3. ASSUME NEW q \in Queue, NutMsgQFlush(q)  PROVE Fifo!Next
    BY <2>3, FlushFlushes
  <2>4. ASSUME NEW q \in Queue, NEW d \in Payload, NutMsgQPost(q, d)  PROVE Fifo!Next
    BY <2>4, PostPuts DEF NutMsgQPost, Message
  <2>5. ASSUME NEW q \in Queue, NEW x \in Timer, NEW f \in {0, 1},
               NEW h \in Handle, NutMsgQStartTimer(q, x, f, h)
        PROVE  UNCHANGED Fifo!vars
    BY <2>5, RingStutters DEF NutMsgQStartTimer
  <2>6. ASSUME NEW d \in Payload, NutMsgQBroadcast(d)  PROVE Fifo!Next
    <3>1. Range(nutMsgQue) \in SUBSET Queue
      <4>1. nutMsgQue \in Seq(Queue)
        BY DEF IInv, Types, TypeOK
      <4> QED  BY <4>1, RangeOfChain
    <3>2. UserMsg(d) \in Message /\ PostTo(Range(nutMsgQue), UserMsg(d))
      BY <2>6 DEF NutMsgQBroadcast, Message
    <3> QED  BY <3>1, <3>2, PostPuts
  <2>7. ASSUME NEW x \in Timer, NEW h \in Handle, NutMsgQTimerCb(x, h)  PROVE Fifo!Next
    <3>1. {mt_que[x]} \in SUBSET Queue
      BY <2>7, MsgQAssumption DEF NutMsgQTimerCb, IInv, FreeOK
    <3>2. TimerMsg(x) \in Message /\ PostTo({mt_que[x]}, TimerMsg(x))
      BY <2>7 DEF NutMsgQTimerCb, Message
    <3> QED  BY <3>1, <3>2, PostPuts
  <2>8. ASSUME NEW x \in Timer, NutMsgQStopTimer(x)  PROVE Fifo!Next
    BY <2>8, StopTakesBack
  <2>9. ASSUME NEW t \in Thread, NutMsgQGetMessage(t) \/ GetTimeout(t)
        PROVE  UNCHANGED Fifo!vars
    BY <2>9, RingStutters DEF NutMsgQGetMessage, GetTimeout
  <2>10. ASSUME NEW t \in Thread, GetFinish(t)  PROVE Fifo!Next
    BY <2>10, FinishGets
  <2> QED
    BY <2>1, <2>2, <2>3, <2>4, <2>5, <2>6, <2>7, <2>8, <2>9, <2>10 DEF Next
<1> QED
  BY <1>1, <1>2, MsgQInvariant, PTL DEF Spec, ImplementsFifo, Fifo!Spec
=============================================================================
