------------------------------- MODULE NutTcp -------------------------------
(***************************************************************************)
(* A TCP connection between two Nut/Net hosts: the socket calls of         *)
(* net/tcpsock.c, the state machine of net/tcpsm.c and the output of       *)
(* net/tcpout.c, over a network that loses, duplicates and reorders.       *)
(*                                                                         *)
(* The unit of data, windows and sequence numbers is a segment of so_mss   *)
(* bytes; sequence numbers start at 0 and do not wrap around.  A function  *)
(* of the code is an operator on a record x with the socket (s), the       *)
(* segments sent (out) and the event queues posted to (wake).  Buffers can *)
(* be allocated and NutIpOutput does not block, so a call of the           *)
(* application up to NutEventWait, and the treatment of one segment or of  *)
(* one timer by the thread NutTcpSm, is one action.  Timers may elapse at  *)
(* any time.  Sockets have no time limits (so_read_to, so_write_to).       *)
(***************************************************************************)
EXTENDS Naturals, Sequences, SequencesExt, FiniteSets, TLC

CONSTANTS
    client, server,
    Quota,            \* how many segments the application of a host sends
    RXBSZ,            \* so_rx_bsz, the receive buffer size
    TCP_RETRIES_MAX,
    ADV_MAX,          \* how many segments are kept in advance (tcp_adv_max)
    DUP_ACKS,         \* duplicate acknowledgements that cause a retransmission
    ServerFirst,      \* the client sends only after it has received something
    MaxFault          \* bound on the segments lost and duplicated

Host == {client, server}
Peer(h) == IF h = client THEN server ELSE client

ASSUME TcpAssumption ==
    /\ client # server /\ Quota \in [Host -> Nat] /\ RXBSZ \in Nat \ {0}
    /\ TCP_RETRIES_MAX \in Nat /\ ADV_MAX \in Nat /\ DUP_ACKS \in Nat \ {0}
    /\ ServerFirst \in BOOLEAN /\ MaxFault \in Nat

VARIABLES
    so,       \* the socket of each host
    op,       \* the call the application of a host is in
    blocked,  \* is that call in NutEventWait?
    app,      \* "new" socket, "open" (connected, accepted or failed), "closed"
    sent,     \* how many segments the application has sent
    got,      \* the data it has received
    net,      \* the segments in flight to a host
    link,     \* are the hosts still connected?
    backlog,  \* the SYN segments in tcp_backlog of the server
    adv_cnt,  \* tcp_adv_cnt of each host
    faults

vars == <<so, op, blocked, app, sent, got, net, link, backlog, adv_cnt, faults>>

\* NutTcpCreateSocket.  Fields are named without their prefixes so_ and tx_.
NewSocket ==
    [state |-> "CLOSED", una |-> 0, nxt |-> 0, rx_isn |-> 0, rx_nxt |-> 0, win |-> 0,
     wl1 |-> 0, wl2 |-> 0, flags |-> {}, nbq |-> <<>>, rx_buf |-> <<>>, rx_nbq |-> <<>>,
     rx_win |-> RXBSZ, retransmits |-> 0, dup |-> 0]

Init ==
    /\ so = [h \in Host |-> NewSocket]
    /\ op = [h \in Host |-> "none"] /\ blocked = [h \in Host |-> FALSE]
    /\ app = [h \in Host |-> "new"]
    /\ sent = [h \in Host |-> 0] /\ got = [h \in Host |-> <<>>]
    /\ net = [h \in Host |-> <<>>] /\ link = TRUE /\ backlog = {} /\ faults = 0
    /\ adv_cnt = [h \in Host |-> 0]

-----------------------------------------------------------------------------
(* Output                                                                  *)

Sends(x, m) == [x EXCEPT !.out = Append(@, m)]
Wakes(x, queues) == [x EXCEPT !.wake = @ \cup queues]
Flag(x, fs) == [x EXCEPT !.s.flags = @ \cup fs]

\* NutTcpOutput.  Data is a sequence of no or one unit.  A SYN, data or a FIN,
\* one of them, takes a sequence number and stays in so_tx_nbq until it is
\* acknowledged.
NutTcpOutput(x, data) ==
    LET s    == x.s
        ack  == data # <<>> \/ "ACK" \in s.flags
        ctl  == IF "SYN" \in s.flags THEN {"SYN"}
                ELSE IF data # <<>> THEN {} ELSE s.flags \cap {"FIN"}
        m    == [flags |-> ctl \cup (IF ack THEN {"ACK"} ELSE {}),
                 seq |-> s.nxt, ack |-> IF ack THEN s.rx_nxt ELSE 0,
                 data |-> IF ctl = {} THEN data ELSE <<>>, win |-> s.rx_win]
        kept == ctl # {} \/ data # <<>>
    IN  IF data = <<>> /\ s.flags \cap {"SYN", "FIN", "FORCE"} = {} THEN x
        ELSE Sends([x EXCEPT !.s.flags = @ \ (m.flags \cup {"FORCE"}),
                             !.s.nxt = IF kept THEN @ + 1 ELSE @,
                             !.s.nbq = IF kept THEN Append(@, m) ELSE @], m)

\* NutTcpReject
NutTcpReject(x, m) ==
    IF "RST" \in m.flags THEN x
    ELSE Sends(x, IF "ACK" \in m.flags
                    THEN [flags |-> {"RST"}, seq |-> m.ack, ack |-> 0, data |-> <<>>, win |-> 0]
                    ELSE [flags |-> {"RST", "ACK"}, seq |-> 0,
                          ack |-> IF "SYN" \in m.flags THEN m.seq + 1 ELSE m.seq,
                          data |-> <<>>, win |-> 0])

-----------------------------------------------------------------------------
(* Changes of state                                                        *)

\* The flags that NutTcpStateChange sets on a transition; a transition that
\* is not in the table is refused.
Transition ==
    [ESTABLISHED  |-> [FIN_WAIT_1 |-> {"FIN", "ACK"}, CLOSE_WAIT |-> {"ACK", "FORCE"}],
     LISTEN       |-> [SYN_RECEIVED |-> {"SYN", "ACK"}, DESTROY |-> {}],
     SYN_SENT     |-> [LISTEN |-> {}, SYN_RECEIVED |-> {"SYN", "ACK"},
                       ESTABLISHED |-> {"ACK", "FORCE"}, DESTROY |-> {}],
     SYN_RECEIVED |-> [LISTEN |-> {}, ESTABLISHED |-> {}, FIN_WAIT_1 |-> {"FIN"},
                       CLOSE_WAIT |-> {"FIN", "ACK"}],
     FIN_WAIT_1   |-> [FIN_WAIT_1 |-> {}, FIN_WAIT_2 |-> {}, CLOSING |-> {"ACK", "FORCE"},
                       TIME_WAIT |-> {}, DESTROY |-> {}],
     FIN_WAIT_2   |-> [TIME_WAIT |-> {"ACK", "FORCE"}, DESTROY |-> {}],
     CLOSE_WAIT   |-> [LAST_ACK |-> {"FIN", "ACK"}],
     CLOSING      |-> [TIME_WAIT |-> {}, DESTROY |-> {}],
     LAST_ACK     |-> [DESTROY |-> {}],
     TIME_WAIT    |-> [DESTROY |-> {}],
     CLOSED       |-> [LISTEN |-> {}, SYN_SENT |-> {"SYN"}, DESTROY |-> {}]]

NutTcpStateChange(x, state) ==
    IF x.s.state \notin DOMAIN Transition \/ state \notin DOMAIN Transition[x.s.state] THEN x
    ELSE LET y == Flag([x EXCEPT !.s.state = state], Transition[x.s.state][state])
             z == IF Transition[x.s.state][state] = {} THEN y ELSE NutTcpOutput(y, <<>>)
         IN  IF state = "CLOSE_WAIT" THEN Wakes(z, {"recv", "accept", "connect"}) ELSE z

\* Mutant: the socket of an application that has not closed it yet is given up.
HasClosed_CloseWait(state) ==
    state \in {"CLOSE_WAIT", "FIN_WAIT_1", "CLOSING", "LAST_ACK", "FIN_WAIT_2", "TIME_WAIT", "DESTROY"}

\* so_state >= TCPS_FIN_WAIT_1: the application has closed the socket.
HasClosed(state) ==
    state \in {"FIN_WAIT_1", "CLOSING", "LAST_ACK", "FIN_WAIT_2", "TIME_WAIT", "DESTROY"}

\* NutTcpDiscardBuffers
DiscardBuffers(x) == [x EXCEPT !.s.rx_buf = <<>>, !.s.nbq = <<>>, !.s.rx_nbq = <<>>]

NutTcpAbortSocket(x) ==
    Wakes(DiscardBuffers([x EXCEPT !.s.state = IF HasClosed(@) THEN "TIME_WAIT" ELSE "CLOSED"]),
          {"recv", "send", "accept", "connect"})

\* NutTcpStateRetranTimeout: repeat the oldest unacknowledged segment as it was.
NutTcpStateRetranTimeout(x) ==
    LET y == [x EXCEPT !.s.retransmits = @ + 1]
    IN  IF x.s.retransmits > TCP_RETRIES_MAX THEN NutTcpAbortSocket(y)
        ELSE Sends(y, Head(x.s.nbq))

-----------------------------------------------------------------------------
(* Input                                                                   *)

\* NutTcpProcessAppData
NutTcpProcessAppData(x, m) ==
    NutTcpOutput(Flag([x EXCEPT !.s.rx_buf = @ \o m.data, !.s.rx_nxt = @ + 1,
                                !.s.rx_win = IF @ = 0 THEN 0 ELSE @ - 1], {"ACK"}), <<>>)

NutTcpProcessSyn(x, m) ==
    [x EXCEPT !.s.rx_isn = m.seq, !.s.wl1 = m.seq, !.s.rx_nxt = m.seq + 1, !.s.win = m.win]

\* The first of the given places in the list q, or the place behind its end.
First(q, places) == Min(places \cup {Len(q) + 1})

\* The segments in q from place i on.
From(q, i) == SubSeq(q, i, Len(q))

\* Mutant: only what is newer than the acknowledged segments is kept.
Unacked_Shift(nbq, ack) == From(nbq, First(nbq, {i \in 1..Len(nbq) : nbq[i].seq > ack}))

\* The segments that stay in so_tx_nbq.
Unacked(nbq, ack) == From(nbq, First(nbq, {i \in 1..Len(nbq) : nbq[i].seq + 1 > ack}))

\* An acknowledgement that repeats the last one may still update the window.
WindowUpdate(x, m) ==
    IF m.seq > x.s.wl1 \/ (m.seq = x.s.wl1 /\ x.s.wl2 <= m.ack)
      THEN [x EXCEPT !.s.win = m.win, !.s.wl1 = m.seq, !.s.wl2 = m.ack] ELSE x

DuplicateAck(x, m) ==
    IF x.s.nbq = <<>> \/ m.data # <<>> \/ m.flags \cap {"SYN", "FIN"} # {} THEN x
    ELSE IF x.s.dup + 1 < DUP_ACKS THEN [x EXCEPT !.s.dup = @ + 1]
    ELSE NutTcpStateRetranTimeout([x EXCEPT !.s.dup = 0])

NutTcpProcessAck(x, m) ==
    IF m.ack > x.s.nxt THEN Flag(x, {"ACK", "FORCE"})
    ELSE IF m.ack < x.s.una THEN x
    ELSE IF m.ack = x.s.una THEN DuplicateAck(WindowUpdate(x, m), m)
    ELSE [x EXCEPT !.s.dup = 0, !.s.una = m.ack, !.s.win = m.win, !.s.retransmits = 0,
                   !.s.nbq = Unacked(@, m.ack)]

NutTcpStateListen(x, m) ==
    IF m.flags \cap {"SYN", "ACK", "RST"} = {"SYN"}
      THEN NutTcpStateChange(NutTcpProcessSyn(x, m), "SYN_RECEIVED") ELSE NutTcpReject(x, m)

NutTcpStateSynSent(x, m) ==
    IF "ACK" \in m.flags /\ ~(1 <= m.ack /\ m.ack <= x.s.nxt) THEN NutTcpReject(x, m)
    ELSE IF "RST" \in m.flags
           THEN IF "ACK" \in m.flags THEN NutTcpAbortSocket(x) ELSE x
    ELSE IF "SYN" \notin m.flags THEN x
    ELSE LET y == NutTcpProcessSyn(x, m)
         IN  IF "ACK" \in m.flags
               THEN Wakes(NutTcpStateChange(NutTcpProcessAck(y, m), "ESTABLISHED"), {"connect"})
               ELSE NutTcpStateChange(y, "SYN_RECEIVED")

\* Data and a FIN are taken whatever their sequence number is.
NutTcpStateSynReceived(x, m) ==
    IF "RST" \in m.flags
      THEN DiscardBuffers(IF x.accepting THEN NutTcpStateChange(x, "LISTEN") ELSE NutTcpAbortSocket(x))
    ELSE IF "SYN" \in m.flags \/ "ACK" \notin m.flags THEN x
    ELSE IF ~(x.s.una + 1 <= m.ack /\ m.ack <= x.s.nxt) THEN NutTcpReject(x, m)
    ELSE LET y == NutTcpProcessAck(x, m)
             z == IF m.data # <<>> THEN NutTcpProcessAppData(y, m) ELSE y
         IN  IF "FIN" \in m.flags
               THEN NutTcpStateChange([z EXCEPT !.s.rx_nxt = @ + 1], "CLOSE_WAIT")
               ELSE Wakes(NutTcpStateChange(z, "ESTABLISHED"), {"accept", "connect"})

\* A segment from the future is linked in, in order, unless the limit is
\* reached, it has no data, or the same one is there already.  (In the last
\* case tcp_adv_cnt remains increased.)  The sender is told what is missing.
InAdvance(x, m) ==
    LET q == x.s.rx_nbq
        i == First(q, {j \in 1..Len(q) : q[j].seq >= m.seq})
        y == IF m.data = <<>> \/ x.adv + 1 > ADV_MAX THEN x
             ELSE IF i <= Len(q) /\ q[i].seq = m.seq THEN [x EXCEPT !.adv = @ + 1]
             ELSE [x EXCEPT !.adv = @ + 1, !.s.rx_nbq = InsertAt(q, i, m)]
    IN  NutTcpOutput(Flag(y, {"ACK", "FORCE"}), <<>>)

\* How many of the first i segments kept in advance are not older than the one
\* expected.
NotOlder(x, i) == Cardinality({j \in 1..i : x.s.rx_nbq[j].seq >= x.s.rx_nxt})

\* The data of segments, each of which has one unit.
Data(segs) == [i \in 1..Len(segs) |-> Head(segs[i].data)]

\* Take the segments kept in advance that are expected now, drop older ones:
\* the list is in order, so those taken are the last of those removed.
\* NutTcpProcessAppData sends nothing for them, because the flags that would
\* make it do so have gone with its output for the segment before.
Drain(x) ==
    LET q == x.s.rx_nbq
        i == First(q, {j \in 1..Len(q) : q[j].seq > x.s.rx_nxt + NotOlder(x, j - 1)})
        n == NotOlder(x, i - 1)
    IN  [x EXCEPT !.adv = @ - (i - 1), !.s.rx_nbq = From(q, i),
                  !.s.rx_buf = @ \o Data(SubSeq(q, i - n, i - 1)), !.s.rx_nxt = @ + n,
                  !.s.rx_win = IF @ < n THEN 0 ELSE @ - n,
                  !.s.flags = IF n = 0 THEN @ ELSE @ \cup {"ACK"}]

\* Mutant: a repeated segment is taken once more.
InSequence_Any(x, m) ==
    LET y == IF m.data # <<>> THEN Wakes(Drain(NutTcpProcessAppData(x, m)), {"recv"}) ELSE x
    IN  IF "FIN" \in m.flags THEN NutTcpStateChange([y EXCEPT !.s.rx_nxt = @ + 1], "CLOSE_WAIT")
        ELSE y

\* A segment that is not from the future.
InSequence(x, m) ==
    LET y == IF m.seq # x.s.rx_nxt THEN NutTcpOutput(Flag(x, {"ACK", "FORCE"}), <<>>)
             ELSE IF m.data # <<>> THEN Wakes(Drain(NutTcpProcessAppData(x, m)), {"recv"})
             ELSE x
    IN  IF "FIN" \in m.flags THEN NutTcpStateChange([y EXCEPT !.s.rx_nxt = @ + 1], "CLOSE_WAIT")
        ELSE y

NutTcpStateEstablished(x, m) ==
    IF "RST" \in m.flags THEN NutTcpAbortSocket(x)
    ELSE IF "SYN" \in m.flags
           THEN IF m.seq = x.s.rx_isn THEN x ELSE NutTcpReject(x, m)
    ELSE IF "ACK" \notin m.flags THEN x
    ELSE LET y == NutTcpProcessAck(x, m)
         IN  IF m.seq > y.s.rx_nxt THEN InAdvance(y, m) ELSE InSequence(y, m)

\* In the states after NutTcpCloseSocket a reset destroys the socket, a SYN is
\* rejected and a segment without ACK is ignored.
Refuses(m) == m.flags \cap {"RST", "SYN"} # {} \/ "ACK" \notin m.flags

Refused(x, m) ==
    IF "RST" \in m.flags THEN NutTcpStateChange(x, "DESTROY")
    ELSE IF "SYN" \in m.flags THEN NutTcpReject(x, m)
    ELSE x

AllAcked(x) == x.s.nxt = x.s.una

\* Data after the close is stored without a look at its sequence number.
LateData(x, m) ==
    IF m.data = <<>> THEN x ELSE Wakes(NutTcpProcessAppData(x, m), {"recv"})

LateFin(x, m, state) ==
    IF "FIN" \in m.flags THEN NutTcpStateChange([x EXCEPT !.s.rx_nxt = @ + 1], state) ELSE x

NutTcpStateFinWait1(x, m) ==
    IF Refuses(m) THEN Refused(x, m)
    ELSE LET y == NutTcpProcessAck(x, m)
             z == LateData(IF AllAcked(y) THEN NutTcpStateChange(y, "FIN_WAIT_2") ELSE y, m)
         IN  LateFin(z, m, IF z.s.state = "FIN_WAIT_2" THEN "TIME_WAIT" ELSE "CLOSING")

NutTcpStateFinWait2(x, m) ==
    IF Refuses(m) THEN Refused(x, m)
    ELSE LateFin(LateData(NutTcpProcessAck(x, m), m), m, "TIME_WAIT")

NutTcpStateClosing(x, m) ==
    IF Refuses(m) THEN Refused(x, m)
    ELSE LET y == NutTcpProcessAck(x, m)
         IN  IF AllAcked(y) THEN NutTcpStateChange(y, "TIME_WAIT") ELSE y

NutTcpStateLastAck(x, m) ==
    IF Refuses(m) THEN Refused(x, m)
    ELSE LET y == NutTcpProcessAck(x, m)
         IN  IF AllAcked(y) THEN NutTcpStateChange(y, "DESTROY") ELSE y

NutTcpStateCloseWait(x, m) ==
    IF "RST" \in m.flags THEN NutTcpAbortSocket(x)
    ELSE IF "SYN" \in m.flags THEN NutTcpReject(x, m)
    ELSE IF "ACK" \in m.flags THEN NutTcpProcessAck(x, m) ELSE x

\* Mutant: a window update alone does not wake up senders.
WakesSenders_Acks(x, y) == y.s.state # "ESTABLISHED" \/ y.s.una # x.s.una

\* Are waiting senders to look again?
WakesSenders(x, y) ==
    y.s.state # "ESTABLISHED" \/ y.s.win > x.s.win \/ y.s.una # x.s.una

\* NutTcpStateProcess
NutTcpStateProcess(x, m) ==
    CASE x.s.state = "ESTABLISHED"  -> LET y == NutTcpStateEstablished(x, m)
                                       IN  IF WakesSenders(x, y) THEN Wakes(y, {"send"}) ELSE y
      [] x.s.state = "LISTEN"       -> NutTcpStateListen(x, m)
      [] x.s.state = "SYN_SENT"     -> NutTcpStateSynSent(x, m)
      [] x.s.state = "SYN_RECEIVED" -> NutTcpStateSynReceived(x, m)
      [] x.s.state = "FIN_WAIT_1"   -> NutTcpStateFinWait1(x, m)
      [] x.s.state = "FIN_WAIT_2"   -> NutTcpStateFinWait2(x, m)
      [] x.s.state = "CLOSE_WAIT"   -> NutTcpStateCloseWait(x, m)
      [] x.s.state = "CLOSING"      -> NutTcpStateClosing(x, m)
      [] x.s.state = "LAST_ACK"     -> NutTcpStateLastAck(x, m)
      [] x.s.state = "TIME_WAIT"    -> x

-----------------------------------------------------------------------------
(* The thread NutTcpSm                                                     *)

\* What the functions start from.
Begin(h) == [h |-> h, s |-> so[h], out |-> <<>>, wake |-> {}, adv |-> adv_cnt[h],
             accepting |-> op[h] = "accept" /\ blocked[h]]

\* Store their result x and send its segments ...
Store(x, inFlight) ==
    /\ so' = [so EXCEPT ![x.h] = x.s]
    /\ net' = IF link THEN [inFlight EXCEPT ![Peer(x.h)] = @ \o x.out] ELSE inFlight
    /\ adv_cnt' = [adv_cnt EXCEPT ![x.h] = x.adv]

\* ... and wake up the application, if it waits in a queue that was posted to.
Commit(x, inFlight) ==
    /\ Store(x, inFlight)
    /\ blocked' = [blocked EXCEPT ![x.h] = @ /\ op[x.h] \notin x.wake]

\* NutTcpFindSocket finds the socket, for a segment of this connection.
Found(h) == so[h].state \notin {"CLOSED", "DESTROY", "FREE"}

\* NutTcpBacklogAdd: a SYN waits for the next NutTcpAccept.  When it is
\* repeated, the waiting one is dropped and both are given up.
IsSyn(m) == m.flags \cap {"SYN", "ACK", "RST"} = {"SYN"}

NutTcpBacklogAdd(m) ==
    backlog' = IF ~IsSyn(m) THEN backlog ELSE IF backlog = {} THEN {m} ELSE {}

\* NutTcpSm of h takes a segment from its queue.
Process(h, m, inFlight) ==
    /\ IF Found(h)
         THEN Commit(NutTcpStateProcess(Begin(h), m), inFlight) /\ UNCHANGED backlog
         ELSE /\ NutTcpBacklogAdd(m)
              /\ Commit(IF m \in backlog' THEN Begin(h) ELSE NutTcpReject(Begin(h), m), inFlight)
    /\ UNCHANGED <<op, app, sent, got, link>>

Fault == faults < MaxFault /\ faults' = faults + 1

\* The network delivers the oldest segment in flight to h, or delivers a copy
\* of it, or loses it, or lets another one overtake it.
Deliver(h) ==
    /\ net[h] # <<>>
    /\ Process(h, Head(net[h]), [net EXCEPT ![h] = Tail(@)])
    /\ UNCHANGED faults

Duplicate(h) == net[h] # <<>> /\ Fault /\ Process(h, Head(net[h]), net)

Lose(h) ==
    /\ net[h] # <<>> /\ Fault
    /\ net' = [net EXCEPT ![h] = Tail(@)]
    /\ UNCHANGED <<so, op, blocked, app, sent, got, link, backlog, adv_cnt>>

Overtake(h) ==
    /\ Len(net[h]) > 1 /\ Fault
    /\ net' = [net EXCEPT ![h] = Append(Tail(@), Head(@))]
    /\ UNCHANGED <<so, op, blocked, app, sent, got, link, backlog, adv_cnt>>

\* From now on the hosts do not reach each other.
Disconnect ==
    /\ link /\ link' = FALSE
    /\ net' = [h \in Host |-> <<>>]
    /\ UNCHANGED <<so, op, blocked, app, sent, got, backlog, adv_cnt, faults>>

\* What the loop over the sockets, which NutTcpSm runs at least every 200 ms,
\* does with one: a delayed acknowledgement, a retransmission if it is due,
\* the end of a state of limited duration if it is over.
SendDelayedAck(x) ==
    IF "ACK" \in x.s.flags THEN NutTcpOutput(Flag(x, {"FORCE"}), <<>>) ELSE x

StateOver(x) ==
    CASE x.s.state \in {"TIME_WAIT", "FIN_WAIT_2"} -> NutTcpStateChange(x, "DESTROY")
      [] x.s.state = "SYN_RECEIVED"                -> [x EXCEPT !.s.state = "LISTEN"]
      [] OTHER                                     -> x

\* Retransmission timers and time limits are longer than a round trip: that
\* one elapses while a segment is in flight counts as a fault.
TimerPass(h, due, over) ==
    LET x == SendDelayedAck(Begin(h))
        y == IF due /\ x.s.nbq # <<>> THEN NutTcpStateRetranTimeout(x) ELSE x
    IN  /\ so[h].state # "FREE"
        /\ IF (due \/ over) /\ net # [g \in Host |-> <<>>] THEN Fault ELSE UNCHANGED faults
        /\ Commit(IF over THEN StateOver(y) ELSE y, net)
        /\ UNCHANGED <<op, app, sent, got, link, backlog>>

\* NutTcpBacklogTimer
BacklogOver ==
    \E m \in backlog :
        /\ Commit(NutTcpReject(Begin(server), m), net)
        /\ backlog' = {}
        /\ UNCHANGED <<op, app, sent, got, link, faults>>

\* NutTcpGarbadgeCollect and NutTcpDestroySocket
NutTcpGarbadgeCollect(h) ==
    /\ so[h].state = "DESTROY"
    /\ so' = [so EXCEPT ![h] = [NewSocket EXCEPT !.state = "FREE"]]
    /\ UNCHANGED <<op, blocked, app, sent, got, net, link, backlog, adv_cnt, faults>>

-----------------------------------------------------------------------------
(* Calls of the application                                                *)

\* The call returns, or waits in the queue of the given name.
Returns(h) == op' = [op EXCEPT ![h] = "none"]

Waits(h, queue) ==
    op' = [op EXCEPT ![h] = queue] /\ blocked' = [blocked EXCEPT ![h] = TRUE]

Opens(h) == app[h] = "new" /\ app' = [app EXCEPT ![h] = "open"]

\* NutTcpConnect and NutTcpStateActiveOpenEvent up to the wait
NutTcpConnect ==
    /\ Opens(client)
    /\ Store(NutTcpStateChange(Begin(client), "SYN_SENT"), net)
    /\ Waits(client, "connect")
    /\ UNCHANGED <<sent, got, link, backlog, faults>>

\* NutTcpAccept and NutTcpStatePassiveOpenEvent: with a SYN from the backlog
\* the call returns before the connection is established.
NutTcpAccept ==
    LET x == NutTcpStateChange(Begin(server), "LISTEN")
    IN  /\ Opens(server)
        /\ \/ backlog = {} /\ Store(x, net) /\ Waits(server, "accept")
           \/ \E m \in backlog : Commit(NutTcpStateProcess(x, m), net) /\ UNCHANGED op
        /\ backlog' = {}
        /\ UNCHANGED <<sent, got, link, faults>>

\* The wait of NutTcpConnect or NutTcpAccept is over.
OpenReturns(h) ==
    /\ op[h] \in {"connect", "accept"} /\ ~blocked[h]
    /\ Returns(h)
    /\ UNCHANGED <<so, blocked, app, sent, got, net, link, backlog, adv_cnt, faults>>

\* The application may call a function, or one that waited may go on.
Runs(h, call) == app[h] = "open" /\ ~blocked[h] /\ op[h] \in {"none", call}

\* Mutant: what is in flight is not subtracted from the window.
CanSend_Window(s) == (s.nxt - s.una) \div 4 < 1 /\ 1 <= s.win

\* No more than four segments wait for their acknowledgement, and the window
\* of the peer has room.
CanSend(s) ==
    LET unacked == s.nxt - s.una IN unacked \div 4 < 1 /\ unacked + 1 <= s.win

NutTcpSend(h) ==
    /\ Runs(h, "send")
    /\ op[h] = "none" => /\ sent[h] < Quota[h]
                         /\ ServerFirst /\ h = client => got[h] # <<>>
    /\ \/ /\ so[h].state # "ESTABLISHED" /\ op[h] = "send"
          /\ Returns(h)
          /\ UNCHANGED <<so, blocked, sent, got, net, adv_cnt>>
       \/ /\ so[h].state = "ESTABLISHED" /\ ~CanSend(so[h])
          /\ Waits(h, "send")
          /\ UNCHANGED <<so, sent, got, net, adv_cnt>>
       \/ /\ so[h].state = "ESTABLISHED" /\ CanSend(so[h])
          /\ Commit(NutTcpOutput(Flag(Begin(h), {"ACK"}), <<sent[h] + 1>>), net)
          /\ sent' = [sent EXCEPT ![h] = @ + 1]
          /\ Returns(h)
          /\ UNCHANGED got
    /\ UNCHANGED <<app, link, backlog, faults>>

\* The end of NutTcpReceive.  NutTcpStateWindowEvent if the window opens.
ReceiveUpdate(x) ==
    LET i == IF x.s.rx_win + 1 > RXBSZ THEN RXBSZ ELSE x.s.rx_win + 1
        y == [x EXCEPT !.s.rx_buf = Tail(@), !.s.rx_win = i]
    IN  IF x.s.state # "ESTABLISHED" THEN [y EXCEPT !.s.rx_win = x.s.rx_win]
        ELSE IF x.s.rx_win <= 1 /\ i > 1 THEN NutTcpOutput(Flag(y, {"ACK", "FORCE"}), <<>>)
        ELSE Flag(y, {"ACK"})

NutTcpReceive(h) ==
    /\ Runs(h, "recv")
    /\ op[h] = "none" => so[h].state \in {"ESTABLISHED", "CLOSE_WAIT"}
    /\ \/ /\ so[h].rx_buf # <<>>
          /\ Commit(ReceiveUpdate(Begin(h)), net)
          /\ got' = [got EXCEPT ![h] = Append(@, Head(so[h].rx_buf))]
          /\ Returns(h)
          /\ UNCHANGED sent
       \/ /\ so[h].rx_buf = <<>> /\ so[h].state = "ESTABLISHED"
          /\ Waits(h, "recv")
          /\ UNCHANGED <<so, sent, got, net, adv_cnt>>
       \/ /\ so[h].rx_buf = <<>> /\ so[h].state # "ESTABLISHED" /\ op[h] = "recv"
          /\ Returns(h)
          /\ UNCHANGED <<so, blocked, sent, got, net, adv_cnt>>
    /\ UNCHANGED <<app, link, backlog, faults>>

\* NutTcpCloseSocket and NutTcpStateCloseEvent
CloseTo(state) ==
    CASE state \in {"LISTEN", "SYN_SENT", "CLOSED"}  -> "DESTROY"
      [] state \in {"SYN_RECEIVED", "ESTABLISHED"}   -> "FIN_WAIT_1"
      [] state = "CLOSE_WAIT"                        -> "LAST_ACK"

NutTcpCloseSocket(h) ==
    /\ Runs(h, "none")
    /\ Commit(NutTcpStateChange(Begin(h), CloseTo(so[h].state)), net)
    /\ app' = [app EXCEPT ![h] = "closed"]
    /\ UNCHANGED <<op, sent, got, link, backlog, faults>>

-----------------------------------------------------------------------------
Next ==
    \/ \E h \in Host :
          \/ Deliver(h) \/ Duplicate(h) \/ Lose(h) \/ Overtake(h)
          \/ \E due, over \in BOOLEAN : TimerPass(h, due, over)
          \/ NutTcpGarbadgeCollect(h)
          \/ OpenReturns(h) \/ NutTcpSend(h) \/ NutTcpReceive(h) \/ NutTcpCloseSocket(h)
    \/ Disconnect \/ BacklogOver \/ NutTcpConnect \/ NutTcpAccept

Spec == Init /\ [][Next]_vars

-----------------------------------------------------------------------------
(* Properties                                                              *)

Stream(n) == [i \in 1..n |-> i]

\* What an application has received is a prefix of what the other one has
\* sent, in spite of lost, repeated and overtaking segments, and when the end
\* of the data is reported to it (CLOSE_WAIT) nothing is missing.
StreamIntegrity ==
    \A h \in Host :
        /\ IsPrefix(got[h], Stream(sent[Peer(h)]))
        /\ so[h].state = "CLOSE_WAIT" => got[h] \o so[h].rx_buf = Stream(sent[Peer(h)])

\* No wake-up is missed: an application waits only while what it waits for
\* has not happened and the connection can still make it happen.
BlockedRightly ==
    \A h \in Host : blocked[h] =>
        CASE op[h] = "recv"    -> so[h].state = "ESTABLISHED" /\ so[h].rx_buf = <<>>
          [] op[h] = "send"    -> so[h].state = "ESTABLISHED" /\ ~CanSend(so[h])
          [] op[h] = "connect" -> so[h].state = "SYN_SENT"
          [] op[h] = "accept"  -> so[h].state \in {"LISTEN", "SYN_RECEIVED"}

\* The data a socket holds for its application never exceeds its receive
\* buffer, although senders rely on windows that are stale when used.
WindowRespected == \A h \in Host : app[h] # "closed" => Len(so[h].rx_buf) <= RXBSZ

\* The socket of an application that has not closed it is never handed over
\* to the garbage collection, whatever segments and timeouts do to it.
NoUseAfterFree ==
    \A h \in Host : app[h] = "open" => so[h].state \notin {"TIME_WAIT", "DESTROY", "FREE"}

\* Closing always ends: while a closed socket exists a timer runs for it, the
\* one that repeats a segment a limited number of times or one that ends its
\* state, so that it is freed even if the peer is never heard of again.
ClosedIsTimed ==
    \A h \in Host : app[h] = "closed" =>
        \/ so[h].nbq # <<>>
        \/ so[h].state \in {"FIN_WAIT_2", "TIME_WAIT", "DESTROY", "FREE"}
=============================================================================
