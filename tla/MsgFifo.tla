------------------------------ MODULE MsgFifo ------------------------------
(***************************************************************************)
(* What a message queue promises: a bounded first-in first-out channel.    *)
(* Accepted messages are received once each and in order, unless the       *)
(* channel is flushed or the sender takes a message back.                  *)
(***************************************************************************)
EXTENDS Naturals, Sequences

CONSTANTS
    Queue,
    Message,
    Void,      \* what is left of a message that was taken back
    Capacity

VARIABLES
    channel,   \* channel[q]: the messages on their way
    received   \* received[q]: the latest message taken out of q

vars == <<channel, received>>

Init ==
    /\ channel = [q \in Queue |-> <<>>]
    /\ received = [q \in Queue |-> Void]

\* Messages go to a set of queues at once; full ones do not take it.
Put(qs, m) ==
    /\ channel' = [q \in Queue |-> IF q \in qs /\ Len(channel[q]) < Capacity
                                     THEN Append(channel[q], m) ELSE channel[q]]
    /\ UNCHANGED received

Get(q) ==
    /\ channel[q] # <<>>
    /\ channel' = [channel EXCEPT ![q] = Tail(@)]
    /\ received' = [received EXCEPT ![q] = Head(channel[q])]

TakeBack(q, m) ==
    /\ channel' = [channel EXCEPT ![q] =
                     [i \in 1..Len(@) |-> IF @[i] = m THEN Void ELSE @[i]]]
    /\ UNCHANGED received

Flush(q) ==
    /\ channel' = [channel EXCEPT ![q] = <<>>]
    /\ UNCHANGED received

Next ==
    \/ \E qs \in SUBSET Queue, m \in Message : Put(qs, m)
    \/ \E q \in Queue : Get(q) \/ Flush(q) \/ \E m \in Message : TakeBack(q, m)

Spec == Init /\ [][Next]_vars
=============================================================================
