---------------------------- MODULE NutTcpProofs ----------------------------
(***************************************************************************)
(* The control of a TCP connection: whatever segments arrive, lost,        *)
(* repeated or out of order, and whenever timers elapse, no application    *)
(* misses a wake-up, loses the socket it uses or leaves one behind, for    *)
(* any amount of data, any buffer sizes and limits and any number of       *)
(* faults.  And its data: buffers hold what peers may send, and streams    *)
(* arrive complete and in order.                                           *)
(*                                                                         *)
(* The first half is about one host at a time (IInv), the second about     *)
(* both hosts and what is between them (DataInv).                          *)
(***************************************************************************)
EXTENDS NutTcp, Integers, SequenceTheorems, FiniteSetTheorems, WellFoundedInduction, TLAPS

Queue == {"connect", "accept", "send", "recv"}
FlagSet == {"SYN", "ACK", "FIN", "FORCE", "RST"}

\* The states of a socket whose application has not closed it, and the others.
OpenState == {"CLOSED", "LISTEN", "SYN_SENT", "SYN_RECEIVED", "ESTABLISHED", "CLOSE_WAIT"}
AckState == {"FIN_WAIT_1", "CLOSING", "LAST_ACK"}
ClosedState == AckState \cup {"FIN_WAIT_2", "TIME_WAIT", "DESTROY", "FREE"}

Msg == [flags : SUBSET FlagSet, seq : Nat, ack : Nat, data : Seq(Nat), win : Nat]
Kept == {m \in Msg : m.data # <<>>}

\* What h may send: the server never opens a connection, its SYNs acknowledge.
Out(h) == {m \in Msg : h = server /\ "SYN" \in m.flags => "ACK" \in m.flags}

Socket(h) ==
    [state : OpenState \cup ClosedState, una : Nat, nxt : Nat, rx_isn : Nat, rx_nxt : Nat,
     win : Nat, wl1 : Nat, wl2 : Nat, flags : SUBSET FlagSet, nbq : Seq(Out(h)),
     rx_buf : Seq(Nat), rx_nbq : Seq(Kept), rx_win : Nat, retransmits : Nat, dup : Nat]

\* The records x that the functions work on.
Work(h) ==
    [h : {h}, s : Socket(h), out : Seq(Out(h)), wake : SUBSET Queue, adv : Int,
     accepting : BOOLEAN]

\* The segments that wait for their acknowledgement end with the last one sent.
Numbered(s) ==
    s.una <= s.nxt /\ (s.nbq # <<>> => s.nbq[Len(s.nbq)].seq + 1 = s.nxt)

\* SYN and FIN are sent at once.
Quiet(s) == s.flags \subseteq {"ACK", "FORCE"}

Fine(h, x) == x \in Work(h) /\ Numbered(x.s) /\ Quiet(x.s)

\* What waits for an acknowledgement after the close is repeated until then.
Timed(s) == s.state \in AckState => s.nbq # <<>>

\* What y has in common with x if a function that is not about an
\* acknowledgement makes y of x, and if it is not about the state or data either.
Frame(x, y) ==
    /\ y.s.una = x.s.una /\ y.s.win = x.s.win /\ y.s.nxt >= x.s.nxt
    /\ x.s.nbq # <<>> => y.s.nbq # <<>>
    /\ y.accepting = x.accepting

Same(x, y) ==
    Frame(x, y) /\ y.s.state = x.s.state /\ y.s.rx_buf = x.s.rx_buf /\ y.wake = x.wake

-----------------------------------------------------------------------------
\* The fields of the record the functions work on.
LEMMA WorkFields ==
    ASSUME NEW h, NEW x \in Work(h)
    PROVE  /\ x.h = h /\ x.s \in Socket(h) /\ x.out \in Seq(Out(h)) /\ x.wake \in SUBSET Queue
           /\ x.adv \in Int /\ x.accepting \in BOOLEAN
  BY DEF Work

\* The fields of a socket.
LEMMA SocketFields ==
    ASSUME NEW h, NEW s \in Socket(h)
    PROVE  /\ s.state \in OpenState \cup ClosedState /\ s.una \in Nat /\ s.nxt \in Nat
           /\ s.rx_isn \in Nat /\ s.rx_nxt \in Nat /\ s.win \in Nat /\ s.wl1 \in Nat
           /\ s.wl2 \in Nat /\ s.flags \in SUBSET FlagSet /\ s.nbq \in Seq(Out(h))
           /\ s.rx_buf \in Seq(Nat) /\ s.rx_nbq \in Seq(Kept) /\ s.rx_win \in Nat
           /\ s.retransmits \in Nat /\ s.dup \in Nat
  BY DEF Socket

\* A function gives the socket new values.
LEMMA PutSocket ==
    ASSUME NEW h, NEW x \in Work(h), NEW t \in Socket(h)
    PROVE  /\ [x EXCEPT !.s = t] \in Work(h) /\ [x EXCEPT !.s = t].s = t
           /\ [x EXCEPT !.s = t].wake = x.wake /\ [x EXCEPT !.s = t].out = x.out
           /\ [x EXCEPT !.s = t].accepting = x.accepting /\ [x EXCEPT !.s = t].adv = x.adv
           /\ [x EXCEPT !.s = t].h = x.h
  BY DEF Work

LEMMA FlagFine ==
    ASSUME NEW h \in Host, NEW x, Fine(h, x), NEW fs \in SUBSET {"ACK", "FORCE"}
    PROVE  /\ Fine(h, Flag(x, fs)) /\ Same(x, Flag(x, fs))
           /\ Flag(x, fs).s.flags = x.s.flags \cup fs
<1> DEFINE t == [x.s EXCEPT !.flags = @ \cup fs]
           y == Flag(x, fs)
<1>1. x \in Work(h) /\ x.s \in Socket(h) /\ Numbered(x.s) /\ Quiet(x.s)
  BY WorkFields DEF Fine
<1>2. /\ t \in Socket(h) /\ t.flags = x.s.flags \cup fs /\ t.state = x.s.state /\ t.una = x.s.una
      /\ t.win = x.s.win /\ t.rx_buf = x.s.rx_buf /\ t.nxt = x.s.nxt /\ t.nbq = x.s.nbq
  BY <1>1 DEF Socket, FlagSet
<1>3. y = [x EXCEPT !.s = t]
  BY DEF Flag
<1> HIDE DEF t, y
<1>4. y \in Work(h) /\ y.s = t /\ y.wake = x.wake /\ y.accepting = x.accepting
  BY <1>1, <1>2, <1>3, PutSocket
<1>5. Numbered(y.s) /\ Quiet(y.s)
  BY <1>1, <1>2, <1>4 DEF Numbered, Quiet
<1>6. x.s.nxt \in Nat
  BY <1>1, SocketFields
<1> QED
  BY <1>2, <1>4, <1>5, <1>6 DEF Fine, Same, Frame, y

\* A segment is handed to NutIpOutput.
LEMMA SendsFine ==
    ASSUME NEW h, NEW x \in Work(h), NEW m \in Out(h)
    PROVE  /\ Sends(x, m) \in Work(h) /\ Sends(x, m).s = x.s /\ Sends(x, m).wake = x.wake
           /\ Sends(x, m).accepting = x.accepting
<1> DEFINE o == Append(x.out, m)
<1>1. o \in Seq(Out(h))
  BY WorkFields, AppendProperties
<1>2. Sends(x, m) = [x EXCEPT !.out = o]
  BY DEF Sends
<1> HIDE DEF o
<1> QED
  BY <1>1, <1>2 DEF Work

\* NutTcpOutput, called with nothing but the flags for a SYN, for a FIN or for
\* an acknowledgement.
LEMMA OutputFine ==
    ASSUME NEW h \in Host, NEW x \in Work(h), Numbered(x.s), NEW data \in Seq(Nat),
           x.s.flags \subseteq {"SYN", "FIN", "ACK", "FORCE"},
           "SYN" \in x.s.flags => "FIN" \notin x.s.flags, data # <<>> => Quiet(x.s),
           h = server /\ "SYN" \in x.s.flags => "ACK" \in x.s.flags
    PROVE  /\ Fine(h, NutTcpOutput(x, data)) /\ Same(x, NutTcpOutput(x, data))
           /\ x.s.flags \cap {"SYN", "FIN"} # {} => NutTcpOutput(x, data).s.nbq # <<>>
<1> DEFINE s    == x.s
           y    == NutTcpOutput(x, data)
           ack  == data # <<>> \/ "ACK" \in s.flags
           ctl  == IF "SYN" \in s.flags THEN {"SYN"}
                   ELSE IF data # <<>> THEN {} ELSE s.flags \cap {"FIN"}
           m    == [flags |-> ctl \cup (IF ack THEN {"ACK"} ELSE {}),
                    seq |-> s.nxt, ack |-> IF ack THEN s.rx_nxt ELSE 0,
                    data |-> IF ctl = {} THEN data ELSE <<>>, win |-> s.rx_win]
           kept == ctl # {} \/ data # <<>>
           f    == s.flags \ (m.flags \cup {"FORCE"})
           n    == IF kept THEN s.nxt + 1 ELSE s.nxt
           q    == IF kept THEN Append(s.nbq, m) ELSE s.nbq
           t    == [s EXCEPT !.flags = f, !.nxt = n, !.nbq = q]
           z    == [x EXCEPT !.s = t]
<1>1. s \in Socket(h) /\ s.nxt \in Nat /\ s.una \in Nat /\ s.nbq \in Seq(Out(h)) /\ s.rx_nxt \in Nat /\ s.rx_win \in Nat
  BY WorkFields, SocketFields
<1>2. CASE data = <<>> /\ s.flags \cap {"SYN", "FIN", "FORCE"} = {}
  <2>1. y = x
    BY <1>2 DEF NutTcpOutput
  <2>2. Quiet(s)
    BY <1>2 DEF Quiet
  <2> HIDE DEF y
  <2> QED  BY <1>1, <1>2, <2>1, <2>2 DEF Fine, Same, Frame, y
<1>3. CASE ~(data = <<>> /\ s.flags \cap {"SYN", "FIN", "FORCE"} = {})
  <2>1. y = Sends([x EXCEPT !.s.flags = f, !.s.nxt = n, !.s.nbq = q], m)
    BY <1>3 DEF NutTcpOutput
  <2>2. m \in Msg /\ m.seq = s.nxt /\ m.flags = ctl \cup (IF ack THEN {"ACK"} ELSE {})
    BY <1>1 DEF Msg, FlagSet
  <2>3. m \in Out(h)
    BY <2>2 DEF Out
  <2> HIDE DEF m
  <2>4. ctl \subseteq s.flags \cap {"SYN", "FIN"} /\ (data = <<>> => ctl = s.flags \cap {"SYN", "FIN"})
    OBVIOUS
  <2>5. f \subseteq {"ACK"} /\ f \in SUBSET FlagSet
    BY <2>2, <2>4 DEF Quiet, FlagSet
  <2> HIDE DEF ctl
  <2>6. n \in Nat /\ q \in Seq(Out(h))
    BY <1>1, <2>3, AppendProperties
  <2>7. n >= s.nxt /\ (s.nbq # <<>> => q # <<>>) /\ (kept => q # <<>>)
    <3>1. n >= s.nxt
      BY <1>1
    <3>2. kept => q = Append(s.nbq, m)
      OBVIOUS
    <3>3. ~kept => q = s.nbq
      OBVIOUS
    <3>4. Append(s.nbq, m) # <<>>
      BY <1>1, <2>3, AppendProperties
    <3> HIDE DEF q, kept
    <3> QED  BY <3>1, <3>2, <3>3, <3>4
  <2>8. q # <<>> => q[Len(q)].seq + 1 = n
    <3>1. CASE kept
      <4>1. q = Append(s.nbq, m) /\ n = s.nxt + 1
        BY <3>1
      <4>2. Len(q) = Len(s.nbq) + 1 /\ q[Len(s.nbq) + 1] = m
        BY <1>1, <2>3, <4>1, AppendProperties
      <4> QED  BY <2>2, <4>1, <4>2
    <3>2. CASE ~kept
      BY <3>2 DEF Numbered
    <3> QED  BY <3>1, <3>2
  <2> HIDE DEF f, n, q, kept
  <2>9. /\ t \in Socket(h) /\ t.flags = f /\ t.nxt = n /\ t.nbq = q
        /\ t.state = s.state /\ t.una = s.una /\ t.win = s.win /\ t.rx_buf = s.rx_buf
    BY <1>1, <2>5, <2>6 DEF Socket
  <2>10. [x EXCEPT !.s.flags = f, !.s.nxt = n, !.s.nbq = q] = z
    BY DEF Work
  <2>11. Numbered(t) /\ Quiet(t)
    BY <1>1, <2>5, <2>6, <2>7, <2>8, <2>9 DEF Numbered, Quiet
  <2> HIDE DEF t
  <2>12. z \in Work(h) /\ z.s = t /\ z.wake = x.wake /\ z.accepting = x.accepting
    BY <2>9, PutSocket
  <2>13. y = Sends(z, m)
    BY <2>1, <2>10
  <2> HIDE DEF z, y
  <2>14. y \in Work(h) /\ y.s = t /\ y.wake = x.wake /\ y.accepting = x.accepting
    BY <2>3, <2>12, <2>13, SendsFine
  <2>15. s.flags \cap {"SYN", "FIN"} # {} => kept
    BY <2>4 DEF kept, Quiet
  <2> QED  BY <2>7, <2>9, <2>11, <2>14, <2>15 DEF Fine, Same, Frame, y
<1> QED
  BY <1>2, <1>3

-----------------------------------------------------------------------------
(* Changes of state                                                        *)

\* Does NutTcpStateChange know the transition?
CanGo(from, to) == from \in DOMAIN Transition /\ to \in DOMAIN Transition[from]

\* The table, one state after the other.
LEMMA Transitions ==
    /\ \A to : CanGo("ESTABLISHED", to) <=> to \in {"FIN_WAIT_1", "CLOSE_WAIT"}
    /\ \A to : CanGo("LISTEN", to) <=> to \in {"SYN_RECEIVED", "DESTROY"}
    /\ \A to : CanGo("SYN_SENT", to) <=> to \in {"LISTEN", "SYN_RECEIVED", "ESTABLISHED", "DESTROY"}
    /\ \A to : CanGo("SYN_RECEIVED", to) <=> to \in {"LISTEN", "ESTABLISHED", "FIN_WAIT_1", "CLOSE_WAIT"}
    /\ \A to : CanGo("FIN_WAIT_1", to) <=>
                 to \in {"FIN_WAIT_1", "FIN_WAIT_2", "CLOSING", "TIME_WAIT", "DESTROY"}
    /\ \A to : CanGo("FIN_WAIT_2", to) <=> to \in {"TIME_WAIT", "DESTROY"}
    /\ \A to : CanGo("CLOSE_WAIT", to) <=> to = "LAST_ACK"
    /\ \A to : CanGo("CLOSING", to) <=> to \in {"TIME_WAIT", "DESTROY"}
    /\ \A to : CanGo("LAST_ACK", to) <=> to = "DESTROY"
    /\ \A to : CanGo("TIME_WAIT", to) <=> to = "DESTROY"
    /\ \A to : CanGo("CLOSED", to) <=> to \in {"LISTEN", "SYN_SENT", "DESTROY"}
    /\ \A to : ~CanGo("DESTROY", to) /\ ~CanGo("FREE", to)
  BY DEF CanGo, Transition

\* A FIN is sent when the application closes an established connection.
LEMMA CloseSendsFin ==
    /\ "FIN" \in Transition["ESTABLISHED"]["FIN_WAIT_1"]
    /\ "FIN" \in Transition["SYN_RECEIVED"]["FIN_WAIT_1"]
    /\ "FIN" \in Transition["CLOSE_WAIT"]["LAST_ACK"]
  BY DEF Transition

\* The flags that a transition sets suit NutTcpOutput.
LEMMA TransitionFlags ==
    ASSUME NEW from, NEW to, CanGo(from, to)
    PROVE  /\ to \in OpenState \cup ClosedState
           /\ Transition[from][to] \subseteq {"SYN", "FIN", "ACK", "FORCE"}
           /\ "SYN" \in Transition[from][to] => "FIN" \notin Transition[from][to]
           /\ to # "SYN_SENT" /\ "SYN" \in Transition[from][to] => "ACK" \in Transition[from][to]
  BY DEF CanGo, Transition, OpenState, ClosedState, AckState

\* A function posts to event queues.
LEMMA WakesFine ==
    ASSUME NEW h, NEW x, Fine(h, x), NEW qs \in SUBSET Queue
    PROVE  /\ Fine(h, Wakes(x, qs)) /\ Wakes(x, qs).s = x.s /\ Frame(x, Wakes(x, qs))
           /\ Wakes(x, qs).wake = x.wake \cup qs /\ Wakes(x, qs).accepting = x.accepting
<1> DEFINE w == x.wake \cup qs
<1>1. x \in Work(h) /\ w \in SUBSET Queue /\ x.s.nxt \in Nat
  BY WorkFields, SocketFields DEF Fine
<1>2. Wakes(x, qs) = [x EXCEPT !.wake = w]
  BY DEF Wakes
<1> HIDE DEF w
<1>3. /\ [x EXCEPT !.wake = w] \in Work(h) /\ [x EXCEPT !.wake = w].s = x.s
      /\ [x EXCEPT !.wake = w].wake = w /\ [x EXCEPT !.wake = w].accepting = x.accepting
  BY <1>1 DEF Work
<1> QED
  BY <1>1, <1>2, <1>3 DEF Fine, Frame, w

\* A transition that the table has not got changes nothing.
LEMMA StateKept ==
    ASSUME NEW x, NEW to, ~CanGo(x.s.state, to)
    PROVE  NutTcpStateChange(x, to) = x
  BY DEF NutTcpStateChange, CanGo

\* NutTcpStateChange sends what the transition demands, and informs those who
\* wait for the connection or for data when the peer has closed.
LEMMA StateChanged ==
    ASSUME NEW h \in Host, NEW x, Fine(h, x), NEW to, CanGo(x.s.state, to),
           h = client \/ to # "SYN_SENT"
    PROVE  LET y == NutTcpStateChange(x, to)
           IN  /\ Fine(h, y) /\ Frame(x, y) /\ y.s.state = to
               /\ x.wake \subseteq y.wake /\ (to # "CLOSE_WAIT" => y.wake = x.wake)
               /\ to = "CLOSE_WAIT" => "recv" \in y.wake /\ "accept" \in y.wake /\ "connect" \in y.wake
               /\ "FIN" \in Transition[x.s.state][to] => y.s.nbq # <<>>
<1> DEFINE fs == Transition[x.s.state][to]
           f  == x.s.flags \cup fs
           t  == [x.s EXCEPT !.state = to, !.flags = f]
           u  == [x EXCEPT !.s = t]
           z  == IF fs = {} THEN u ELSE NutTcpOutput(u, <<>>)
           y  == IF to = "CLOSE_WAIT" THEN Wakes(z, {"recv", "accept", "connect"}) ELSE z
<1>1. x \in Work(h) /\ x.s \in Socket(h) /\ Numbered(x.s) /\ Quiet(x.s) /\ x.s.nxt \in Nat
  BY WorkFields, SocketFields DEF Fine
<1>2. /\ to \in OpenState \cup ClosedState /\ fs \subseteq {"SYN", "FIN", "ACK", "FORCE"}
      /\ "SYN" \in fs => "FIN" \notin fs
      /\ to # "SYN_SENT" /\ "SYN" \in fs => "ACK" \in fs
  BY TransitionFlags
<1>3. NutTcpStateChange(x, to) = y
  <2>1. Flag([x EXCEPT !.s.state = to], fs) = u
    <3>1. [x EXCEPT !.s.state = to].s.flags = x.s.flags
      BY <1>1 DEF Work, Socket
    <3>2. Flag([x EXCEPT !.s.state = to], fs) = [[x EXCEPT !.s.state = to] EXCEPT !.s.flags = f]
      BY <3>1 DEF Flag
    <3> HIDE DEF f
    <3>3. [[x EXCEPT !.s.state = to] EXCEPT !.s.flags = f] = u
      BY <1>1 DEF Work
    <3> QED  BY <3>2, <3>3
  <2> QED  BY <2>1 DEF NutTcpStateChange, CanGo
<1> HIDE DEF fs
<1>4. f \subseteq {"SYN", "FIN", "ACK", "FORCE"} /\ f \in SUBSET FlagSet
  BY <1>1, <1>2 DEF Quiet, FlagSet
<1>5. /\ "SYN" \in f => "FIN" \notin f
      /\ h = server /\ "SYN" \in f => "ACK" \in f
      /\ f \cap {"SYN", "FIN"} = fs \cap {"SYN", "FIN"}
      /\ fs = {} => f = x.s.flags
  BY <1>1, <1>2, TcpAssumption DEF Quiet
<1> HIDE DEF f
<1>6. /\ t \in Socket(h) /\ t.state = to /\ t.flags = f /\ t.una = x.s.una /\ t.win = x.s.win
      /\ t.rx_buf = x.s.rx_buf /\ t.nxt = x.s.nxt /\ t.nbq = x.s.nbq
  BY <1>1, <1>2, <1>4 DEF Socket
<1> HIDE DEF t
<1>7. u \in Work(h) /\ u.s = t /\ u.wake = x.wake /\ u.accepting = x.accepting
  BY <1>1, <1>6, PutSocket
<1> HIDE DEF u
<1>8. Numbered(u.s)
  BY <1>1, <1>6, <1>7 DEF Numbered
<1>9. /\ Fine(h, z) /\ Frame(x, z) /\ z.s.state = to /\ z.wake = x.wake
      /\ "FIN" \in fs => z.s.nbq # <<>>
  <2>1. CASE fs = {}
    <3>1. z = u
      BY <2>1
    <3>2. Quiet(u.s)
      BY <1>1, <1>5, <1>6, <1>7, <2>1 DEF Quiet
    <3> HIDE DEF z
    <3> QED  BY <1>1, <1>6, <1>7, <1>8, <2>1, <3>1, <3>2 DEF Fine, Frame
  <2>2. CASE fs # {}
    <3>1. z = NutTcpOutput(u, <<>>)
      BY <2>2
    <3>2. <<>> \in Seq(Nat)
      OBVIOUS
    <3>3. /\ Fine(h, NutTcpOutput(u, <<>>)) /\ Same(u, NutTcpOutput(u, <<>>))
          /\ u.s.flags \cap {"SYN", "FIN"} # {} => NutTcpOutput(u, <<>>).s.nbq # <<>>
      BY <1>4, <1>5, <1>6, <1>7, <1>8, <3>2, OutputFine
    <3> HIDE DEF z
    <3>4. z.s.nxt >= x.s.nxt
      BY <1>6, <1>7, <3>1, <3>3 DEF Same, Frame
    <3> QED  BY <1>5, <1>6, <1>7, <3>1, <3>3, <3>4 DEF Same, Frame
  <2> QED  BY <2>1, <2>2
<1> HIDE DEF z
<1>10. z.s.nxt \in Nat
  BY <1>9, WorkFields, SocketFields DEF Fine
<1>11. {"recv", "accept", "connect"} \in SUBSET Queue
  BY DEF Queue
<1>12. /\ Fine(h, y) /\ Frame(x, y) /\ y.s.state = to
       /\ x.wake \subseteq y.wake /\ (to # "CLOSE_WAIT" => y.wake = x.wake)
       /\ to = "CLOSE_WAIT" => "recv" \in y.wake /\ "accept" \in y.wake /\ "connect" \in y.wake
       /\ "FIN" \in fs => y.s.nbq # <<>>
  <2>1. CASE to = "CLOSE_WAIT"
    <3>1. y = Wakes(z, {"recv", "accept", "connect"})
      BY <2>1
    <3> HIDE DEF y
    <3>2. /\ Fine(h, y) /\ y.s = z.s /\ y.wake = z.wake \cup {"recv", "accept", "connect"}
          /\ y.accepting = z.accepting
      BY <1>9, <1>11, <3>1, WakesFine
    <3> QED  BY <1>9, <2>1, <3>2 DEF Frame
  <2>2. CASE to # "CLOSE_WAIT"
    BY <1>9, <2>2
  <2> QED  BY <2>1, <2>2
<1> HIDE DEF y
<1> QED
  BY <1>3, <1>12 DEF fs

-----------------------------------------------------------------------------
(* Giving up, rejecting and taking data                                    *)

\* A socket with new values, none of which the invariants are about.
LEMMA PutFine ==
    ASSUME NEW h, NEW x, Fine(h, x), NEW t \in Socket(h), Numbered(t), Quiet(t), NEW y,
           y = [x EXCEPT !.s = t]
    PROVE  /\ Fine(h, y) /\ y.s = t /\ y.wake = x.wake /\ y.accepting = x.accepting
           /\ y.adv = x.adv
  BY PutSocket DEF Fine

\* NutTcpAbortSocket wakes up everybody; a socket that its application has
\* closed is left to time, another one to the application.
LEMMA AbortFine ==
    ASSUME NEW h, NEW x, Fine(h, x)
    PROVE  LET y == NutTcpAbortSocket(x)
           IN  /\ Fine(h, y) /\ y.s.nbq = <<>> /\ y.wake = Queue /\ y.accepting = x.accepting
               /\ y.s.state = IF HasClosed(x.s.state) THEN "TIME_WAIT" ELSE "CLOSED"
               /\ y.s.una = x.s.una /\ y.s.win = x.s.win /\ y.s.nxt = x.s.nxt
<1> DEFINE st == IF HasClosed(x.s.state) THEN "TIME_WAIT" ELSE "CLOSED"
           e  == <<>>
           qs == {"recv", "send", "accept", "connect"}
           t  == [x.s EXCEPT !.state = st, !.rx_buf = e, !.nbq = e, !.rx_nbq = e]
           u  == [x EXCEPT !.s = t]
           y  == Wakes(u, qs)
<1>1. x \in Work(h) /\ x.s \in Socket(h) /\ Numbered(x.s) /\ Quiet(x.s) /\ x.s.nxt \in Nat /\ x.wake \in SUBSET Queue
  BY WorkFields, SocketFields DEF Fine
<1>2. st \in OpenState \cup ClosedState
  BY DEF OpenState, ClosedState, AckState
<1>3. NutTcpAbortSocket(x) = y
  <2> HIDE DEF st
  <2>1. DiscardBuffers([x EXCEPT !.s.state = st]) = u
    BY <1>1 DEF Work, DiscardBuffers
  <2> QED  BY <2>1 DEF NutTcpAbortSocket, st
<1>4. e \in Seq(Nat) /\ e \in Seq(Out(h)) /\ e \in Seq(Kept)
  OBVIOUS
<1> HIDE DEF st, e
<1>5. /\ t \in Socket(h) /\ t.state = st /\ t.flags = x.s.flags /\ t.una = x.s.una /\ t.win = x.s.win
      /\ t.nxt = x.s.nxt /\ t.nbq = e
  BY <1>4, <1>1, <1>2 DEF Socket
<1> HIDE DEF t
<1>6. Numbered(t) /\ Quiet(t)
  BY <1>1, <1>5 DEF Numbered, Quiet, e
<1>7. Fine(h, u) /\ u.s = t /\ u.wake = x.wake /\ u.accepting = x.accepting
  BY <1>5, <1>6, PutFine
<1> HIDE DEF u
<1>8. qs = Queue
  BY DEF Queue
<1> HIDE DEF qs
<1>9. Fine(h, y) /\ y.s = t /\ y.wake = Queue /\ y.accepting = x.accepting
  <2>1. qs \in SUBSET Queue /\ x.wake \cup qs = Queue
    BY <1>1, <1>8
  <2>2. Fine(h, y) /\ y.s = u.s /\ y.wake = u.wake \cup qs /\ y.accepting = u.accepting
    BY <1>7, <2>1, WakesFine
  <2> QED  BY <1>7, <2>1, <2>2
<1> HIDE DEF y
<1> QED
  BY <1>3, <1>5, <1>9 DEF st, e

\* NutTcpStateRetranTimeout repeats a segment or gives up.
LEMMA RetranFine ==
    ASSUME NEW h, NEW x, Fine(h, x), x.s.nbq # <<>>
    PROVE  LET y == NutTcpStateRetranTimeout(x)
           IN  /\ Fine(h, y)
               /\ \/ Same(x, y)
                  \/ /\ y.wake = Queue /\ y.accepting = x.accepting /\ y.s.nxt = x.s.nxt
                     /\ y.s.state = IF HasClosed(x.s.state) THEN "TIME_WAIT" ELSE "CLOSED"
<1> DEFINE r == x.s.retransmits + 1
           t == [x.s EXCEPT !.retransmits = r]
           u == [x EXCEPT !.s = t]
           y == NutTcpStateRetranTimeout(x)
<1>1. /\ x \in Work(h) /\ x.s \in Socket(h) /\ Numbered(x.s) /\ Quiet(x.s) /\ x.s.nxt \in Nat
      /\ x.s.retransmits \in Nat /\ x.s.nbq \in Seq(Out(h))
  BY WorkFields, SocketFields DEF Fine
<1>2. y = IF x.s.retransmits > TCP_RETRIES_MAX THEN NutTcpAbortSocket(u) ELSE Sends(u, Head(x.s.nbq))
  BY DEF NutTcpStateRetranTimeout
<1>3. r \in Nat
  BY <1>1
<1> HIDE DEF r
<1>4. /\ t \in Socket(h) /\ t.state = x.s.state /\ t.flags = x.s.flags /\ t.una = x.s.una
      /\ t.win = x.s.win /\ t.nxt = x.s.nxt /\ t.nbq = x.s.nbq /\ t.rx_buf = x.s.rx_buf
  BY <1>1, <1>3 DEF Socket
<1> HIDE DEF t
<1>5. Numbered(t) /\ Quiet(t)
  BY <1>1, <1>4 DEF Numbered, Quiet
<1>6. Fine(h, u) /\ u.s = t /\ u.wake = x.wake /\ u.accepting = x.accepting
  BY <1>4, <1>5, PutFine
<1> HIDE DEF u, y
<1>7. CASE y = NutTcpAbortSocket(u)
  <2> DEFINE a == NutTcpAbortSocket(u)
  <2>1. /\ Fine(h, a) /\ a.wake = Queue /\ a.accepting = u.accepting /\ a.s.nxt = u.s.nxt
        /\ a.s.state = IF HasClosed(u.s.state) THEN "TIME_WAIT" ELSE "CLOSED"
    BY <1>6, AbortFine
  <2> HIDE DEF a
  <2>2. y = a
    BY <1>7 DEF a
  <2>3. /\ Fine(h, y) /\ y.wake = Queue /\ y.accepting = x.accepting /\ y.s.nxt = x.s.nxt
        /\ y.s.state = IF HasClosed(x.s.state) THEN "TIME_WAIT" ELSE "CLOSED"
    BY <1>4, <1>6, <2>1, <2>2
  <2> QED  BY <2>3 DEF y
<1>8. CASE y = Sends(u, Head(x.s.nbq))
  <2>1. Head(x.s.nbq) \in Out(h)
    BY <1>1
  <2>2. u \in Work(h) /\ Numbered(u.s) /\ Quiet(u.s)
    BY <1>6 DEF Fine
  <2>3. y \in Work(h) /\ y.s = u.s /\ y.wake = u.wake /\ y.accepting = u.accepting
    BY <1>8, <2>1, <2>2, SendsFine
  <2>4. Fine(h, y) /\ Same(x, y)
    BY <1>1, <1>4, <1>6, <2>2, <2>3 DEF Fine, Same, Frame
  <2> QED  BY <2>4 DEF y
<1> QED
  BY <1>2, <1>7, <1>8

\* NutTcpReject only sends.
LEMMA RejectFine ==
    ASSUME NEW h, NEW x, Fine(h, x), NEW m \in Msg
    PROVE  Fine(h, NutTcpReject(x, m)) /\ Same(x, NutTcpReject(x, m))
<1>1. x \in Work(h) /\ x.s \in Socket(h) /\ Numbered(x.s) /\ Quiet(x.s) /\ x.s.nxt \in Nat
  BY WorkFields, SocketFields DEF Fine
<1>2. CASE "RST" \in m.flags
  BY <1>1, <1>2 DEF NutTcpReject, Same, Frame
<1>3. CASE "RST" \notin m.flags
  <2> DEFINE a == IF "SYN" \in m.flags THEN m.seq + 1 ELSE m.seq
             n == IF "ACK" \in m.flags
                    THEN [flags |-> {"RST"}, seq |-> m.ack, ack |-> 0, data |-> <<>>, win |-> 0]
                    ELSE [flags |-> {"RST", "ACK"}, seq |-> 0, ack |-> a, data |-> <<>>, win |-> 0]
             y == NutTcpReject(x, m)
  <2>1. y = Sends(x, n)
    BY <1>3 DEF NutTcpReject
  <2>2. a \in Nat /\ m.ack \in Nat
    BY DEF Msg
  <2> HIDE DEF a
  <2>3. n \in Out(h)
    <3>1. [flags |-> {"RST"}, seq |-> m.ack, ack |-> 0, data |-> <<>>, win |-> 0] \in Out(h)
      BY <2>2 DEF Out, Msg, FlagSet
    <3>2. [flags |-> {"RST", "ACK"}, seq |-> 0, ack |-> a, data |-> <<>>, win |-> 0] \in Out(h)
      BY <2>2 DEF Out, Msg, FlagSet
    <3> QED  BY <3>1, <3>2
  <2> HIDE DEF n, y
  <2>4. y \in Work(h) /\ y.s = x.s /\ y.wake = x.wake /\ y.accepting = x.accepting
    BY <1>1, <2>1, <2>3, SendsFine
  <2> QED  BY <1>1, <2>4 DEF Fine, Same, Frame, y
<1> QED
  BY <1>2, <1>3

\* NutTcpOutput has no SYN and no FIN to send.
LEMMA QuietOutput ==
    ASSUME NEW h \in Host, NEW x, Fine(h, x)
    PROVE  Fine(h, NutTcpOutput(x, <<>>)) /\ Same(x, NutTcpOutput(x, <<>>))
<1>1. x \in Work(h) /\ Numbered(x.s) /\ Quiet(x.s)
  BY DEF Fine
<1>2. <<>> \in Seq(Nat)
  OBVIOUS
<1>3. x.s.flags \subseteq {"SYN", "FIN", "ACK", "FORCE"} /\ "SYN" \notin x.s.flags
  BY <1>1 DEF Quiet
<1> QED
  BY <1>1, <1>2, <1>3, OutputFine

\* NutTcpProcessAppData stores data.
LEMMA AppDataFine ==
    ASSUME NEW h \in Host, NEW x, Fine(h, x), NEW m \in Msg
    PROVE  LET y == NutTcpProcessAppData(x, m)
           IN  Fine(h, y) /\ Frame(x, y) /\ y.s.state = x.s.state /\ y.wake = x.wake
<1> DEFINE b == x.s.rx_buf \o m.data
           n == x.s.rx_nxt + 1
           w == IF x.s.rx_win = 0 THEN 0 ELSE x.s.rx_win - 1
           t == [x.s EXCEPT !.rx_buf = b, !.rx_nxt = n, !.rx_win = w]
           u == [x EXCEPT !.s = t]
           v == Flag(u, {"ACK"})
           y == NutTcpOutput(v, <<>>)
<1>1. /\ x \in Work(h) /\ x.s \in Socket(h) /\ Numbered(x.s) /\ Quiet(x.s) /\ x.s.nxt \in Nat
      /\ x.s.rx_buf \in Seq(Nat) /\ x.s.rx_nxt \in Nat /\ x.s.rx_win \in Nat /\ m.data \in Seq(Nat)
  BY WorkFields, SocketFields DEF Fine, Msg
<1>2. b \in Seq(Nat)
  BY <1>1, ConcatProperties
<1>3. n \in Nat /\ w \in Nat
  BY <1>1
<1>4. NutTcpProcessAppData(x, m) = y
  <2>1. [x EXCEPT !.s.rx_buf = b, !.s.rx_nxt = n, !.s.rx_win = w] = u
    <3> HIDE DEF b, n, w
    <3> QED  BY <1>1 DEF Work
  <2>2. NutTcpProcessAppData(x, m) =
          NutTcpOutput(Flag([x EXCEPT !.s.rx_buf = b, !.s.rx_nxt = n, !.s.rx_win = w], {"ACK"}), <<>>)
    <3>1. /\ [x EXCEPT !.s.rx_buf = b].s.rx_nxt = x.s.rx_nxt
          /\ [x EXCEPT !.s.rx_buf = b, !.s.rx_nxt = n].s.rx_win = x.s.rx_win
      <4> HIDE DEF b, n
      <4> QED  BY <1>1 DEF Work, Socket
    <3> QED  BY <3>1 DEF NutTcpProcessAppData
  <2> QED  BY <2>1, <2>2
<1> HIDE DEF b, n, w
<1>5. /\ t \in Socket(h) /\ t.state = x.s.state /\ t.flags = x.s.flags /\ t.una = x.s.una
      /\ t.win = x.s.win /\ t.nxt = x.s.nxt /\ t.nbq = x.s.nbq
  BY <1>1, <1>2, <1>3 DEF Socket
<1> HIDE DEF t
<1>6. Numbered(t) /\ Quiet(t)
  BY <1>1, <1>5 DEF Numbered, Quiet
<1>7. Fine(h, u) /\ u.s = t /\ u.wake = x.wake /\ u.accepting = x.accepting
  BY <1>5, <1>6, PutFine
<1> HIDE DEF u
<1>8. Fine(h, v) /\ Same(u, v)
  BY <1>7, FlagFine
<1>9. Fine(h, y) /\ Same(v, y)
  BY <1>8, QuietOutput
<1>10. v.s.nxt \in Nat /\ y.s.nxt \in Nat
  BY <1>8, <1>9, WorkFields, SocketFields DEF Fine
<1> HIDE DEF v, y
<1> QED
  BY <1>1, <1>4, <1>5, <1>7, <1>8, <1>9, <1>10 DEF Same, Frame

-----------------------------------------------------------------------------
(* The inductive invariant                                                 *)

\* What a call that waits in queue q relies on.
Waiting(h, q, x) ==
    CASE q = "recv"    -> x.s.state = "ESTABLISHED" /\ x.s.rx_buf = <<>>
      [] q = "send"    -> x.s.state = "ESTABLISHED" /\ ~CanSend(x.s)
      [] q = "connect" -> h = client /\ x.s.state = "SYN_SENT"
      [] q = "accept"  -> x.accepting /\ x.s.state \in {"LISTEN", "SYN_RECEIVED"}

\* Only the calls that y posts to have to look again; a socket in use stays in
\* use, a closed one stays closed.
Safe(h, x, y) ==
    /\ Fine(h, y) /\ Timed(y.s) /\ y.accepting = x.accepting
    /\ x.s.state \in OpenState => y.s.state \in OpenState
    /\ x.s.state \in ClosedState => y.s.state \in ClosedState
    /\ \A q \in Queue \ y.wake : Waiting(h, q, x) => Waiting(h, q, y)

\* Segments in flight to a host come from the other one.
InFlightOK(n) == n = [g \in Host |-> n[g]] /\ \A h \in Host : n[h] \in Seq(Out(Peer(h)))

Types ==
    /\ so = [g \in Host |-> so[g]]
    /\ op \in [Host -> Queue \cup {"none"}] /\ blocked \in [Host -> BOOLEAN]
    /\ app \in [Host -> {"new", "open", "closed"}]
    /\ sent \in [Host -> Nat] /\ adv_cnt \in [Host -> Int]
    /\ InFlightOK(net)
    /\ backlog \subseteq Msg

\* Host h: its socket suits the use its application makes of it, and what a
\* waiting call relies on holds.
Local(h) ==
    /\ so[h] \in Socket(h) /\ Numbered(so[h]) /\ Quiet(so[h]) /\ Timed(so[h])
    /\ app[h] = "new" => so[h].state = "CLOSED"
    /\ app[h] = "open" => so[h].state \in OpenState
    /\ app[h] = "closed" => so[h].state \in ClosedState
    /\ blocked[h] => app[h] = "open" /\ op[h] \in Queue /\ Waiting(h, op[h], Begin(h))

IInv == Types /\ \A h \in Host : Local(h)

-----------------------------------------------------------------------------
(* The lists of segments                                                   *)

\* Every non-empty set of naturals has a least member.
LEMMA LeastNatural ==
    ASSUME NEW S \in SUBSET Nat, S # {}
    PROVE  Min(S) \in S /\ \A m \in S : Min(S) <= m
<1>1. PICK n \in S : \A m \in S : ~(<<m, n>> \in OpToRel(<, Nat))
  BY NatLessThanWellFounded, WFMin
<1>2. \A m \in S : ~(m < n)
  BY <1>1 DEF OpToRel
<1>3. \A m \in S : n <= m
  BY <1>2
<1> QED
  BY <1>3 DEF Min

\* The first place is one of those given, and none of them comes before it.
LEMMA FirstIs ==
    ASSUME NEW S, NEW q \in Seq(S), NEW places \in SUBSET (1..Len(q))
    PROVE  /\ First(q, places) \in 1..(Len(q) + 1)
           /\ First(q, places) <= Len(q) => First(q, places) \in places
           /\ \A i \in places : First(q, places) <= i
<1> DEFINE T == places \cup {Len(q) + 1}
<1>1. Len(q) \in Nat /\ T \in SUBSET Nat /\ T # {} /\ T \subseteq 1..(Len(q) + 1)
  <2>1. Len(q) \in Nat
    BY LenProperties
  <2>2. \A i \in T : i \in Nat /\ i \in 1..(Len(q) + 1)
    BY <2>1
  <2>3. Len(q) + 1 \in T
    OBVIOUS
  <2> HIDE DEF T
  <2> QED  BY <2>1, <2>2, <2>3
<1>2. \A i \in T : i <= Len(q) => i \in places
  BY <1>1
<1>3. \A i \in places : i \in T
  OBVIOUS
<1> HIDE DEF T
<1>4. Min(T) \in T /\ \A i \in T : Min(T) <= i
  BY <1>1, LeastNatural
<1>5. First(q, places) = Min(T)
  BY DEF First, T
<1> QED
  BY <1>1, <1>2, <1>3, <1>4, <1>5

\* The rest of a list ends as the list does.
LEMMA FromSeq ==
    ASSUME NEW S, NEW q \in Seq(S), NEW i \in 1..(Len(q) + 1)
    PROVE  /\ From(q, i) \in Seq(S)
           /\ i <= Len(q) => From(q, i) # <<>>
           /\ From(q, i) # <<>> => From(q, i)[Len(From(q, i))] = q[Len(q)]
<1> DEFINE n == Len(q)
           r == SubSeq(q, i, n)
<1>1. n \in Nat /\ i \in Int /\ \A j \in i..n : q[j] \in S
  BY LenProperties, ElementOfSeq
<1>2. /\ r \in Seq(S) /\ Len(r) = IF i <= n THEN n - i + 1 ELSE 0
      /\ \A j \in 1..(n - i + 1) : r[j] = q[i + j - 1]
  BY <1>1, SubSeqProperties
<1>3. i <= n => Len(r) # 0
  BY <1>1, <1>2
<1>4. i <= n => r[Len(r)] = q[n]
  BY <1>1, <1>2
<1>5. i > n => r = <<>>
  BY <1>1, SubSeqEmpty
<1>6. Len(<<>>) = 0
  OBVIOUS
<1>7. From(q, i) = r
  BY DEF From
<1> HIDE DEF n, r
<1> QED
  BY <1>1, <1>2, <1>3, <1>4, <1>5, <1>6, <1>7 DEF n

\* NutTcpProcessAck removes acknowledged segments only: the last segment sent
\* stays until it is acknowledged.
LEMMA UnackedKeeps ==
    ASSUME NEW h, NEW q \in Seq(Out(h)), NEW ack \in Nat, NEW n \in Nat,
           q # <<>> => q[Len(q)].seq + 1 = n
    PROVE  /\ Unacked(q, ack) \in Seq(Out(h))
           /\ q # <<>> /\ ack < n => Unacked(q, ack) # <<>>
           /\ Unacked(q, ack) # <<>> => Unacked(q, ack)[Len(Unacked(q, ack))].seq + 1 = n
<1> DEFINE P == {i \in 1..Len(q) : q[i].seq + 1 > ack}
           f == First(q, P)
           r == From(q, f)
<1>1. P \in SUBSET (1..Len(q)) /\ Len(q) \in Nat
  BY LenProperties
<1>2. q # <<>> /\ ack < n => Len(q) \in P
  <2>1. q # <<>> => Len(q) \in 1..Len(q)
    BY EmptySeq, LenProperties
  <2> QED  BY <2>1
<1> HIDE DEF P
<1>3. f \in 1..(Len(q) + 1) /\ \A i \in P : f <= i
  BY <1>1, FirstIs
<1> HIDE DEF f
<1>4. /\ r \in Seq(Out(h)) /\ (f <= Len(q) => r # <<>>)
      /\ r # <<>> => r[Len(r)] = q[Len(q)]
  BY <1>3, FromSeq
<1>5. q = <<>> => r = <<>>
  <2> SUFFICES ASSUME q = <<>> PROVE r = <<>>
    OBVIOUS
  <2>1. Len(q) = 0 /\ f \in Int /\ f > Len(q)
    BY <1>3
  <2> QED  BY <2>1, SubSeqEmpty DEF From
<1>6. Unacked(q, ack) = r
  BY DEF Unacked, f, P
<1> HIDE DEF r
<1> QED
  BY <1>2, <1>3, <1>4, <1>5, <1>6

-----------------------------------------------------------------------------
(* Acknowledgements                                                        *)

\* An acknowledgement concerns neither the state nor the data received, or it
\* is the one that makes the code give up.
Heard(x, y) ==
    /\ y.s.state = x.s.state /\ y.s.rx_buf = x.s.rx_buf /\ y.s.nxt >= x.s.nxt
    /\ y.wake = x.wake /\ y.accepting = x.accepting
    /\ x.s.nbq # <<>> => y.s.nbq # <<>> \/ AllAcked(y)

Aborted(x, y) ==
    /\ y.wake = Queue /\ y.accepting = x.accepting
    /\ y.s.state = IF HasClosed(x.s.state) THEN "TIME_WAIT" ELSE "CLOSED"

\* NutTcpProcessSyn
LEMMA ProcessSynFine ==
    ASSUME NEW h, NEW x, Fine(h, x), NEW m \in Msg
    PROVE  LET y == NutTcpProcessSyn(x, m)
           IN  Fine(h, y) /\ Heard(x, y) /\ y.s.una = x.s.una
<1> DEFINE a == m.seq
           b == m.seq + 1
           w == m.win
           t == [x.s EXCEPT !.rx_isn = a, !.wl1 = a, !.rx_nxt = b, !.win = w]
           y == NutTcpProcessSyn(x, m)
<1>1. /\ x \in Work(h) /\ x.s \in Socket(h) /\ Numbered(x.s) /\ Quiet(x.s) /\ x.s.nxt \in Nat
      /\ a \in Nat /\ b \in Nat /\ w \in Nat
  BY WorkFields, SocketFields DEF Fine, Msg
<1>2. y = [x EXCEPT !.s = t]
  <2>1. y = [x EXCEPT !.s.rx_isn = a, !.s.wl1 = a, !.s.rx_nxt = b, !.s.win = w]
    BY DEF NutTcpProcessSyn
  <2> HIDE DEF a, b, w, y
  <2> QED  BY <1>1, <2>1 DEF Work
<1> HIDE DEF a, b, w
<1>3. /\ t \in Socket(h) /\ t.state = x.s.state /\ t.flags = x.s.flags /\ t.una = x.s.una
      /\ t.nxt = x.s.nxt /\ t.nbq = x.s.nbq /\ t.rx_buf = x.s.rx_buf
  BY <1>1 DEF Socket
<1> HIDE DEF t
<1>4. Numbered(t) /\ Quiet(t)
  BY <1>1, <1>3 DEF Numbered, Quiet
<1> HIDE DEF y
<1>5. Fine(h, y) /\ y.s = t /\ y.wake = x.wake /\ y.accepting = x.accepting
  BY <1>2, <1>3, <1>4, PutFine
<1> QED
  BY <1>1, <1>3, <1>5 DEF Heard, y

\* WindowUpdate
LEMMA WindowUpdateFine ==
    ASSUME NEW h, NEW x, Fine(h, x), NEW m \in Msg
    PROVE  LET y == WindowUpdate(x, m)
           IN  Fine(h, y) /\ Heard(x, y) /\ y.s.nbq = x.s.nbq
<1> DEFINE a == m.seq
           b == m.ack
           w == m.win
           t == [x.s EXCEPT !.win = w, !.wl1 = a, !.wl2 = b]
           u == [x EXCEPT !.s = t]
           y == WindowUpdate(x, m)
<1>1. /\ x \in Work(h) /\ x.s \in Socket(h) /\ Numbered(x.s) /\ Quiet(x.s) /\ x.s.nxt \in Nat
      /\ a \in Nat /\ b \in Nat /\ w \in Nat
  BY WorkFields, SocketFields DEF Fine, Msg
<1>2. y = u \/ y = x
  <2>1. y = [x EXCEPT !.s.win = w, !.s.wl1 = a, !.s.wl2 = b] \/ y = x
    BY DEF WindowUpdate
  <2>2. [x EXCEPT !.s.win = w, !.s.wl1 = a, !.s.wl2 = b] = u
    <3> HIDE DEF a, b, w
    <3> QED  BY <1>1 DEF Work
  <2> QED  BY <2>1, <2>2
<1> HIDE DEF a, b, w
<1>3. /\ t \in Socket(h) /\ t.state = x.s.state /\ t.flags = x.s.flags /\ t.una = x.s.una
      /\ t.nxt = x.s.nxt /\ t.nbq = x.s.nbq /\ t.rx_buf = x.s.rx_buf
  BY <1>1 DEF Socket
<1> HIDE DEF t
<1>4. Numbered(t) /\ Quiet(t)
  BY <1>1, <1>3 DEF Numbered, Quiet
<1>5. Fine(h, u) /\ u.s = t /\ u.wake = x.wake /\ u.accepting = x.accepting
  BY <1>3, <1>4, PutFine
<1> HIDE DEF u, y
<1> QED
  BY <1>1, <1>2, <1>3, <1>5 DEF Heard, y

\* The duplicate that fills the number repeats a segment or gives up.
LEMMA DuplicateAckFine ==
    ASSUME NEW h, NEW x, Fine(h, x), NEW m \in Msg
    PROVE  LET y == DuplicateAck(x, m)
           IN  Fine(h, y) /\ (Heard(x, y) \/ Aborted(x, y))
<1> DEFINE u(n) == [x EXCEPT !.s.dup = n]
           y == DuplicateAck(x, m)
<1>1. x \in Work(h) /\ x.s \in Socket(h) /\ Numbered(x.s) /\ Quiet(x.s) /\ x.s.nxt \in Nat /\ x.s.dup \in Nat
  BY WorkFields, SocketFields DEF Fine
<1>2. ASSUME NEW n \in Nat
      PROVE  Fine(h, u(n)) /\ Heard(x, u(n)) /\ u(n).s.nbq = x.s.nbq
  <2> DEFINE t == [x.s EXCEPT !.dup = n]
             v == u(n)
  <2>1. /\ t \in Socket(h) /\ t.state = x.s.state /\ t.flags = x.s.flags /\ t.una = x.s.una
        /\ t.nxt = x.s.nxt /\ t.nbq = x.s.nbq /\ t.rx_buf = x.s.rx_buf
    BY <1>1 DEF Socket
  <2>2. v = [x EXCEPT !.s = t]
    OBVIOUS
  <2> HIDE DEF t, u, v
  <2>3. Numbered(t) /\ Quiet(t)
    BY <1>1, <2>1 DEF Numbered, Quiet
  <2>4. Fine(h, v) /\ v.s = t /\ v.wake = x.wake /\ v.accepting = x.accepting
    BY <2>1, <2>2, <2>3, PutFine
  <2> QED  BY <1>1, <2>1, <2>4 DEF Heard, v
<1>3. \/ y = x \/ y = u(x.s.dup + 1)
      \/ x.s.nbq # <<>> /\ y = NutTcpStateRetranTimeout(u(0))
  BY DEF DuplicateAck
<1> HIDE DEF u, y
<1>4. CASE y = x
  BY <1>1, <1>4 DEF Heard, y
<1>5. CASE y = u(x.s.dup + 1)
  <2>1. x.s.dup + 1 \in Nat
    BY <1>1
  <2> QED  BY <1>2, <1>5, <2>1 DEF y
<1>6. CASE x.s.nbq # <<>> /\ y = NutTcpStateRetranTimeout(u(0))
  <2> DEFINE v == u(0)
  <2>1. Fine(h, v) /\ Heard(x, v) /\ v.s.nbq # <<>>
    BY <1>2, <1>6
  <2> HIDE DEF v
  <2>2. y = NutTcpStateRetranTimeout(v)
    BY <1>6 DEF v
  <2>3. /\ Fine(h, y)
        /\ \/ Same(v, y)
           \/ /\ y.wake = Queue /\ y.accepting = v.accepting /\ y.s.nxt = v.s.nxt
              /\ y.s.state = IF HasClosed(v.s.state) THEN "TIME_WAIT" ELSE "CLOSED"
    BY <2>1, <2>2, RetranFine
  <2>4. v.s.nxt \in Nat /\ y.s.nxt \in Nat
    BY <2>1, <2>3, WorkFields, SocketFields DEF Fine
  <2> QED  BY <1>1, <2>1, <2>3, <2>4 DEF Heard, Aborted, Same, Frame, y
<1> QED
  BY <1>3, <1>4, <1>5, <1>6

\* What is the same for one function after the other.
LEMMA HeardChain ==
    ASSUME NEW h, NEW x, NEW y, NEW z, Fine(h, x), Fine(h, y), Fine(h, z), Heard(x, y),
           x.s.nbq # <<>> => y.s.nbq # <<>>
    PROVE  /\ Heard(y, z) => Heard(x, z)
           /\ Same(y, z) => Heard(x, z)
           /\ Aborted(y, z) => Aborted(x, z)
<1>1. x.s.nxt \in Nat /\ y.s.nxt \in Nat /\ z.s.nxt \in Nat
  BY WorkFields, SocketFields DEF Fine
<1> QED
  BY <1>1 DEF Heard, Same, Frame, Aborted

\* NutTcpProcessAck leaves a segment to be repeated unless everything sent is
\* acknowledged.
LEMMA ProcessAckFine ==
    ASSUME NEW h \in Host, NEW x, Fine(h, x), NEW m \in Msg
    PROVE  LET y == NutTcpProcessAck(x, m)
           IN  Fine(h, y) /\ (Heard(x, y) \/ Aborted(x, y))
<1> DEFINE y == NutTcpProcessAck(x, m)
           q == Unacked(x.s.nbq, m.ack)
           a == m.ack
           w == m.win
           t == [x.s EXCEPT !.dup = 0, !.una = a, !.win = w, !.retransmits = 0, !.nbq = q]
           u == [x EXCEPT !.s = t]
           v == WindowUpdate(x, m)
           f == {"ACK", "FORCE"}
<1>1. /\ x \in Work(h) /\ x.s \in Socket(h) /\ Numbered(x.s) /\ Quiet(x.s) /\ x.s.nxt \in Nat
      /\ x.s.una \in Nat /\ x.s.nbq \in Seq(Out(h)) /\ m.ack \in Nat /\ m.win \in Nat
  BY WorkFields, SocketFields DEF Fine, Msg
<1>2. \/ y = Flag(x, f) \/ y = x \/ y = DuplicateAck(v, m)
      \/ a <= x.s.nxt /\ y = [x EXCEPT !.s.dup = 0, !.s.una = a, !.s.win = w, !.s.retransmits = 0, !.s.nbq = q]
  <2>1. [x EXCEPT !.s.dup = 0, !.s.una = a, !.s.win = w, !.s.retransmits = 0].s.nbq = x.s.nbq
    BY <1>1 DEF Work, Socket
  <2> QED  BY <1>1, <2>1 DEF NutTcpProcessAck
<1>3. [x EXCEPT !.s.dup = 0, !.s.una = a, !.s.win = w, !.s.retransmits = 0, !.s.nbq = q] = u
  <2> HIDE DEF a, w, q
  <2> QED  BY <1>1 DEF Work
<1>4. f \in SUBSET {"ACK", "FORCE"}
  OBVIOUS
<1> HIDE DEF y, u, v, f
<1>5. CASE y = Flag(x, f)
  <2>1. Fine(h, y) /\ Same(x, y)
    BY <1>4, <1>5, FlagFine
  <2> QED  BY <2>1 DEF Same, Frame, Heard, y
<1>6. CASE y = x
  BY <1>1, <1>6 DEF Heard, y
<1>7. CASE y = DuplicateAck(v, m)
  <2>1. Fine(h, v) /\ Heard(x, v) /\ v.s.nbq = x.s.nbq
    BY WindowUpdateFine DEF v
  <2>2. Fine(h, y) /\ (Heard(v, y) \/ Aborted(v, y))
    BY <1>7, <2>1, DuplicateAckFine
  <2>3. x.s.nbq # <<>> => v.s.nbq # <<>>
    BY <2>1
  <2> QED  BY <2>1, <2>2, <2>3, HeardChain DEF y
<1>8. CASE a <= x.s.nxt /\ y = u
  <2>1. q \in Seq(Out(h)) /\ (x.s.nbq # <<>> /\ a < x.s.nxt => q # <<>>)
        /\ (q # <<>> => q[Len(q)].seq + 1 = x.s.nxt)
    BY <1>1, UnackedKeeps DEF Numbered
  <2>2. a \in Nat /\ w \in Nat
    BY <1>1
  <2> HIDE DEF a, w, q
  <2>3. /\ t \in Socket(h) /\ t.state = x.s.state /\ t.flags = x.s.flags /\ t.una = a
        /\ t.nxt = x.s.nxt /\ t.nbq = q /\ t.rx_buf = x.s.rx_buf
    BY <1>1, <2>1, <2>2 DEF Socket
  <2> HIDE DEF t
  <2>4. Numbered(t) /\ Quiet(t)
    BY <1>1, <1>8, <2>1, <2>3 DEF Numbered, Quiet
  <2>5. Fine(h, y) /\ y.s = t /\ y.wake = x.wake /\ y.accepting = x.accepting
    BY <1>8, <2>3, <2>4, PutFine DEF u
  <2> QED  BY <1>1, <1>8, <2>1, <2>2, <2>3, <2>5 DEF Heard, AllAcked, y
<1> QED
  BY <1>2, <1>3, <1>5, <1>6, <1>7, <1>8

-----------------------------------------------------------------------------
(* Segments from the future                                                *)

\* Some of the first i segments are not older than the one expected.
LEMMA NotOlderBound ==
    ASSUME NEW x, NEW i \in Nat
    PROVE  NotOlder(x, i) \in Nat /\ NotOlder(x, i) <= i
<1> DEFINE T == {j \in 1..i : x.s.rx_nbq[j].seq >= x.s.rx_nxt}
<1>1. IsFiniteSet(1..i) /\ Cardinality(1..i) = IF 1 > i THEN 0 ELSE i - 1 + 1
  BY FS_Interval
<1>2. T \in SUBSET (1..i)
  OBVIOUS
<1> HIDE DEF T
<1>3. IsFiniteSet(T) /\ Cardinality(T) <= Cardinality(1..i)
  BY <1>1, <1>2, FS_Subset
<1>4. Cardinality(T) \in Nat
  BY <1>3, FS_CardinalityType
<1>5. NotOlder(x, i) = Cardinality(T)
  BY DEF NotOlder, T
<1> QED
  BY <1>1, <1>3, <1>4, <1>5

\* Segments kept in advance have data.
LEMMA DataSeq ==
    ASSUME NEW q \in Seq(Kept)
    PROVE  Data(q) \in Seq(Nat)
<1>1. ASSUME NEW i \in 1..Len(q)
      PROVE  Head(q[i].data) \in Nat
  <2>1. q[i] \in Kept
    BY ElementOfSeq
  <2>2. q[i].data \in Seq(Nat) /\ q[i].data # <<>>
    BY <2>1 DEF Kept, Msg
  <2> QED  BY <2>2
<1>2. Len(q) \in Nat
  BY LenProperties
<1> QED
  BY <1>1, <1>2, IsASeq DEF Data

\* What the loop over these segments takes is data for the application only.
LEMMA DrainFine ==
    ASSUME NEW h \in Host, NEW x, Fine(h, x)
    PROVE  LET y == Drain(x)
           IN  Fine(h, y) /\ Frame(x, y) /\ y.s.state = x.s.state /\ y.wake = x.wake
<1> DEFINE q == x.s.rx_nbq
           P == {j \in 1..Len(q) : q[j].seq > x.s.rx_nxt + NotOlder(x, j - 1)}
           i == First(q, P)
           n == NotOlder(x, i - 1)
           g == SubSeq(q, i - n, i - 1)
           a == x.adv - (i - 1)
           r == From(q, i)
           b == x.s.rx_buf \o Data(g)
           c == x.s.rx_nxt + n
           w == IF x.s.rx_win < n THEN 0 ELSE x.s.rx_win - n
           f == IF n = 0 THEN x.s.flags ELSE x.s.flags \cup {"ACK"}
           t == [x.s EXCEPT !.rx_nbq = r, !.rx_buf = b, !.rx_nxt = c, !.rx_win = w, !.flags = f]
           u == [x EXCEPT !.s = t]
           y == Drain(x)
<1>1. /\ x \in Work(h) /\ x.s \in Socket(h) /\ Numbered(x.s) /\ Quiet(x.s) /\ x.s.nxt \in Nat
      /\ q \in Seq(Kept) /\ x.s.rx_buf \in Seq(Nat) /\ x.s.rx_nxt \in Nat /\ x.s.rx_win \in Nat
      /\ x.adv \in Int /\ x.s.flags \in SUBSET FlagSet
  BY WorkFields, SocketFields DEF Fine
<1>2. Len(q) \in Nat /\ P \in SUBSET (1..Len(q))
  BY <1>1, LenProperties
<1>3. y = [x EXCEPT !.adv = a, !.s.rx_nbq = r, !.s.rx_buf = b, !.s.rx_nxt = c, !.s.rx_win = w, !.s.flags = f]
  <2> HIDE DEF i, n, g
  <2> DEFINE x1 == [x EXCEPT !.adv = a, !.s.rx_nbq = r]
             x2 == [x EXCEPT !.adv = a, !.s.rx_nbq = r, !.s.rx_buf = b]
             x3 == [x EXCEPT !.adv = a, !.s.rx_nbq = r, !.s.rx_buf = b, !.s.rx_nxt = c]
             x4 == [x EXCEPT !.adv = a, !.s.rx_nbq = r, !.s.rx_buf = b, !.s.rx_nxt = c, !.s.rx_win = w]
  <2>1. x1.s.rx_buf = x.s.rx_buf /\ x2.s.rx_nxt = x.s.rx_nxt /\ x3.s.rx_win = x.s.rx_win /\ x4.s.flags = x.s.flags
    <3> HIDE DEF a, r, b, c, w
    <3> QED  BY <1>1 DEF Work, Socket
  <2> QED  BY <2>1 DEF Drain, i, n, g
<1> HIDE DEF P
<1>4. i \in 1..(Len(q) + 1)
  BY <1>1, <1>2, FirstIs
<1> HIDE DEF i
<1>5. n \in Nat /\ n <= i - 1
  <2>1. i - 1 \in Nat
    BY <1>2, <1>4
  <2> QED  BY <2>1, NotOlderBound
<1> HIDE DEF n
<1>6. g \in Seq(Kept)
  <2>1. i - n \in Int /\ i - 1 \in Int
    BY <1>4, <1>5
  <2>2. \A j \in (i - n)..(i - 1) : j \in 1..Len(q)
    BY <1>2, <1>4, <1>5
  <2>3. \A j \in (i - n)..(i - 1) : q[j] \in Kept
    BY <1>1, <2>2, ElementOfSeq
  <2> QED  BY <2>1, <2>3, SubSeqProperties
<1> HIDE DEF g
<1>7. r \in Seq(Kept) /\ b \in Seq(Nat) /\ c \in Nat /\ w \in Nat /\ a \in Int
  <2>1. r \in Seq(Kept)
    BY <1>1, <1>4, FromSeq
  <2>2. b \in Seq(Nat)
    BY <1>1, <1>6, DataSeq, ConcatProperties
  <2>3. i \in Int
    BY <1>2, <1>4
  <2>4. /\ \A j, k \in Nat : j + k \in Nat /\ (IF j < k THEN 0 ELSE j - k) \in Nat
        /\ \A j, k \in Int : j - (k - 1) \in Int
    OBVIOUS
  <2>5. c \in Nat /\ w \in Nat /\ a \in Int
    BY <1>1, <1>5, <2>3, <2>4
  <2> QED  BY <2>1, <2>2, <2>5
<1>8. f \in SUBSET FlagSet /\ f \subseteq {"ACK", "FORCE"}
  BY <1>1 DEF Quiet, FlagSet
<1> HIDE DEF q, a, r, b, c, w, f
<1>9. y = [u EXCEPT !.adv = a]
  BY <1>1, <1>3 DEF Work
<1>10. /\ t \in Socket(h) /\ t.state = x.s.state /\ t.flags = f /\ t.una = x.s.una
       /\ t.win = x.s.win /\ t.nxt = x.s.nxt /\ t.nbq = x.s.nbq
  BY <1>1, <1>7, <1>8 DEF Socket
<1> HIDE DEF t
<1>11. Numbered(t) /\ Quiet(t)
  BY <1>1, <1>8, <1>10 DEF Numbered, Quiet
<1>12. Fine(h, u) /\ u.s = t /\ u.wake = x.wake /\ u.accepting = x.accepting
  BY <1>10, <1>11, PutFine
<1> HIDE DEF u, y
<1>13. y \in Work(h) /\ y.s = u.s /\ y.wake = u.wake /\ y.accepting = u.accepting
  BY <1>7, <1>9, <1>12 DEF Fine, Work
<1> QED
  BY <1>1, <1>10, <1>12, <1>13 DEF Fine, Frame, y

\* A segment that comes too early only changes the list of those kept.
LEMMA InAdvanceFine ==
    ASSUME NEW h \in Host, NEW x, Fine(h, x), NEW m \in Msg
    PROVE  Fine(h, InAdvance(x, m)) /\ Same(x, InAdvance(x, m))
<1> DEFINE q == x.s.rx_nbq
           P == {j \in 1..Len(q) : q[j].seq >= m.seq}
           i == First(q, P)
           r == InsertAt(q, i, m)
           t == [x.s EXCEPT !.rx_nbq = r]
           a == x.adv + 1
           u == [x EXCEPT !.adv = a]
           v == [u EXCEPT !.s = t]
           y == IF m.data = <<>> \/ x.adv + 1 > ADV_MAX THEN x
                ELSE IF i <= Len(q) /\ q[i].seq = m.seq THEN u ELSE v
           f == {"ACK", "FORCE"}
           k == Flag(y, f)
           z == NutTcpOutput(k, <<>>)
<1>1. /\ x \in Work(h) /\ x.s \in Socket(h) /\ Numbered(x.s) /\ Quiet(x.s) /\ x.s.nxt \in Nat
      /\ q \in Seq(Kept) /\ x.adv \in Int
  BY WorkFields, SocketFields DEF Fine
<1>2. InAdvance(x, m) = z
  <2>1. [x EXCEPT !.adv = a, !.s.rx_nbq = r] = v
    <3> HIDE DEF a, r
    <3> QED  BY <1>1 DEF Work
  <2> QED  BY <2>1 DEF InAdvance
<1>3. m.data # <<>> => r \in Seq(Kept)
  <2> SUFFICES ASSUME m.data # <<>> PROVE r \in Seq(Kept)
    OBVIOUS
  <2>1. Len(q) \in Nat /\ P \in SUBSET (1..Len(q)) /\ m \in Kept
    BY <1>1, LenProperties DEF Kept
  <2> HIDE DEF P
  <2>2. i \in 1..(Len(q) + 1)
    BY <1>1, <2>1, FirstIs
  <2> HIDE DEF i, q
  <2>3. \A j \in 1..Len(q) : q[j] \in Kept
    BY <1>1, ElementOfSeq
  <2>4. i \in Int /\ i - 1 \in Int /\ Len(q) \in Int /\ 1 \in Int
    BY <2>1, <2>2
  <2>5. (\A j \in 1..(i - 1) : q[j] \in Kept) /\ (\A j \in i..Len(q) : q[j] \in Kept)
    BY <2>1, <2>2, <2>3
  <2>6. SubSeq(q, 1, i - 1) \in Seq(Kept)
    BY <2>4, <2>5, SubSeqProperties
  <2>7. SubSeq(q, i, Len(q)) \in Seq(Kept)
    BY <2>4, <2>5, SubSeqProperties
  <2>8. <<m>> \in Seq(Kept)
    BY <2>1
  <2>9. SubSeq(q, 1, i - 1) \o <<m>> \in Seq(Kept)
    BY <2>6, <2>8, ConcatProperties
  <2>10. (SubSeq(q, 1, i - 1) \o <<m>>) \o SubSeq(q, i, Len(q)) \in Seq(Kept)
    BY <2>7, <2>9, ConcatProperties
  <2> QED  BY <2>10 DEF InsertAt
<1>4. a \in Int
  BY <1>1
<1> HIDE DEF q, i, r, a
<1>5. Fine(h, u) /\ u.s = x.s /\ u.wake = x.wake /\ u.accepting = x.accepting
  <2>1. u \in Work(h) /\ u.s = x.s /\ u.wake = x.wake /\ u.accepting = x.accepting
    BY <1>1, <1>4 DEF Work
  <2> HIDE DEF u
  <2> QED  BY <1>1, <2>1 DEF Fine
<1> HIDE DEF u
<1>6. Fine(h, y) /\ Same(x, y)
  <2>1. CASE y = x
    <3> HIDE DEF y
    <3> QED  BY <1>1, <2>1 DEF Same, Frame
  <2>2. CASE y = u
    <3> HIDE DEF y
    <3> QED  BY <1>1, <1>5, <2>2 DEF Same, Frame
  <2>3. CASE m.data # <<>> /\ y = v
    <3>1. /\ t \in Socket(h) /\ t.state = x.s.state /\ t.flags = x.s.flags /\ t.una = x.s.una
          /\ t.win = x.s.win /\ t.nxt = x.s.nxt /\ t.nbq = x.s.nbq /\ t.rx_buf = x.s.rx_buf
      BY <1>1, <1>3, <2>3 DEF Socket
    <3> HIDE DEF t, y
    <3>2. Numbered(t) /\ Quiet(t)
      BY <1>1, <3>1 DEF Numbered, Quiet
    <3>3. Fine(h, y) /\ y.s = t /\ y.wake = u.wake /\ y.accepting = u.accepting
      BY <1>5, <2>3, <3>1, <3>2, PutFine
    <3> QED  BY <1>1, <1>5, <3>1, <3>3 DEF Same, Frame
  <2> QED  BY <2>1, <2>2, <2>3
<1>7. f \in SUBSET {"ACK", "FORCE"}
  OBVIOUS
<1> HIDE DEF y, f
<1>8. Fine(h, k) /\ Same(y, k)
  BY <1>6, <1>7, FlagFine
<1> HIDE DEF k
<1>9. Fine(h, z) /\ Same(k, z)
  BY <1>8, QuietOutput
<1> HIDE DEF z
<1>10. y.s.nxt \in Nat /\ k.s.nxt \in Nat /\ z.s.nxt \in Nat
  BY <1>6, <1>8, <1>9, WorkFields, SocketFields DEF Fine
<1>11. Same(x, z)
  BY <1>1, <1>6, <1>8, <1>9, <1>10 DEF Same, Frame
<1> QED
  BY <1>2, <1>9, <1>11

-----------------------------------------------------------------------------
(* What waiting calls see of a step                                        *)

\* Four cases, one for each queue.
LEMMA SafeIf ==
    ASSUME NEW h, NEW x, NEW y, Fine(h, y), Timed(y.s), y.accepting = x.accepting,
           x.s.state \in OpenState => y.s.state \in OpenState,
           x.s.state \in ClosedState => y.s.state \in ClosedState,
           "recv" \notin y.wake /\ x.s.state = "ESTABLISHED" /\ x.s.rx_buf = <<>>
             => y.s.state = "ESTABLISHED" /\ y.s.rx_buf = <<>>,
           "send" \notin y.wake /\ x.s.state = "ESTABLISHED" /\ ~CanSend(x.s)
             => y.s.state = "ESTABLISHED" /\ ~CanSend(y.s),
           "connect" \notin y.wake /\ h = client /\ x.s.state = "SYN_SENT" => y.s.state = "SYN_SENT",
           "accept" \notin y.wake /\ x.accepting /\ x.s.state \in {"LISTEN", "SYN_RECEIVED"}
             => y.s.state \in {"LISTEN", "SYN_RECEIVED"}
    PROVE  Safe(h, x, y)
<1>1. ASSUME NEW q \in Queue, q \notin y.wake, Waiting(h, q, x)
      PROVE  Waiting(h, q, y)
  <2>1. CASE q = "recv"
    BY <1>1, <2>1 DEF Waiting
  <2>2. CASE q = "send"
    BY <1>1, <2>2 DEF Waiting
  <2>3. CASE q = "connect"
    BY <1>1, <2>3 DEF Waiting
  <2>4. CASE q = "accept"
    BY <1>1, <2>4 DEF Waiting
  <2> QED  BY <2>1, <2>2, <2>3, <2>4 DEF Queue
<1> QED
  BY <1>1 DEF Safe

\* Sending more does not make room for even more.
LEMMA NoRoom ==
    ASSUME NEW h, NEW x, NEW y, Fine(h, x), Fine(h, y), y.s.una = x.s.una,
           y.s.win <= x.s.win, y.s.nxt >= x.s.nxt, ~CanSend(x.s)
    PROVE  ~CanSend(y.s)
<1>1. /\ x.s.una \in Nat /\ x.s.nxt \in Nat /\ x.s.win \in Nat /\ x.s.una <= x.s.nxt
      /\ y.s.una \in Nat /\ y.s.nxt \in Nat /\ y.s.win \in Nat /\ y.s.una <= y.s.nxt
  BY WorkFields, SocketFields DEF Fine, Numbered
<1>2. \A a, b \in Nat : a <= b => (b \div 4 < 1 => a \div 4 < 1)
  OBVIOUS
<1> DEFINE a == x.s.nxt - x.s.una
           b == y.s.nxt - y.s.una
<1>3. a \in Nat /\ b \in Nat /\ a <= b
  BY <1>1
<1>4. CanSend(x.s) <=> a \div 4 < 1 /\ a + 1 <= x.s.win
  BY DEF CanSend
<1>5. CanSend(y.s) <=> b \div 4 < 1 /\ b + 1 <= y.s.win
  BY DEF CanSend
<1> HIDE DEF a, b
<1> QED
  BY <1>1, <1>2, <1>3, <1>4, <1>5

\* Functions that only send.
LEMMA SameSafe ==
    ASSUME NEW h, NEW x, NEW y, Fine(h, x), Fine(h, y), Timed(x.s), Same(x, y)
    PROVE  Safe(h, x, y)
<1>1. /\ y.s.state = x.s.state /\ y.s.rx_buf = x.s.rx_buf /\ y.wake = x.wake /\ y.s.una = x.s.una
      /\ y.s.win = x.s.win /\ y.s.nxt >= x.s.nxt /\ y.accepting = x.accepting
  BY DEF Same, Frame
<1>2. y.s.win <= x.s.win
  <2>1. x.s.win \in Nat
    BY WorkFields, SocketFields DEF Fine
  <2> QED  BY <1>1, <2>1
<1>3. Timed(y.s)
  BY DEF Timed, Same, Frame
<1>4. ~CanSend(x.s) => ~CanSend(y.s)
  BY <1>1, <1>2, NoRoom
<1> QED
  BY <1>1, <1>3, <1>4, SafeIf

\* When the connection is given up, everybody looks again.
LEMMA AbortedSafe ==
    ASSUME NEW h, NEW x, NEW y, Fine(h, y), Aborted(x, y), x.s.state # "FREE"
    PROVE  Safe(h, x, y)
<1>1. y.s.state \in {"TIME_WAIT", "CLOSED"}
  BY DEF Aborted
<1>2. Timed(y.s)
  BY <1>1 DEF Timed, AckState
<1>3. x.s.state \in OpenState => y.s.state = "CLOSED"
  BY DEF Aborted, HasClosed, OpenState
<1>4. x.s.state \in ClosedState => y.s.state = "TIME_WAIT"
  BY DEF Aborted, HasClosed, ClosedState, AckState
<1>5. y.wake = Queue /\ "recv" \in Queue /\ "send" \in Queue /\ "accept" \in Queue /\ "connect" \in Queue
  BY DEF Aborted, Queue
<1>6. "CLOSED" \in OpenState /\ "TIME_WAIT" \in ClosedState /\ y.accepting = x.accepting
  BY DEF Aborted, OpenState, ClosedState
<1> QED
  BY <1>2, <1>3, <1>4, <1>5, <1>6, SafeIf

\* No call waits at a socket in one of the other states.
LEMMA IdleSafe ==
    ASSUME NEW h, NEW x, NEW y, Fine(h, y), Timed(y.s), y.accepting = x.accepting,
           \/ x.s.state \in ClosedState /\ y.s.state \in ClosedState
           \/ x.s.state \in {"CLOSED", "CLOSE_WAIT"} /\ y.s.state \in OpenState
    PROVE  Safe(h, x, y)
<1>1. x.s.state \notin {"ESTABLISHED", "SYN_SENT", "LISTEN", "SYN_RECEIVED"}
  BY DEF ClosedState, AckState
<1>2. x.s.state \in OpenState => y.s.state \in OpenState
  BY DEF ClosedState, AckState, OpenState
<1>3. x.s.state \in ClosedState => y.s.state \in ClosedState
  BY DEF ClosedState, AckState
<1> QED
  BY <1>1, <1>2, <1>3, SafeIf

\* NutTcpAbortSocket
LEMMA AbortAborts ==
    ASSUME NEW h, NEW x, Fine(h, x)
    PROVE  Fine(h, NutTcpAbortSocket(x)) /\ Aborted(x, NutTcpAbortSocket(x))
  BY AbortFine DEF Aborted

\* A FIN takes a number.
LEMMA BumpFine ==
    ASSUME NEW h, NEW x, Fine(h, x)
    PROVE  LET y == [x EXCEPT !.s.rx_nxt = @ + 1] IN Fine(h, y) /\ Same(x, y)
<1> DEFINE n == x.s.rx_nxt + 1
           t == [x.s EXCEPT !.rx_nxt = n]
           y == [x EXCEPT !.s.rx_nxt = @ + 1]
<1>1. x \in Work(h) /\ x.s \in Socket(h) /\ Numbered(x.s) /\ Quiet(x.s) /\ x.s.nxt \in Nat /\ n \in Nat
  BY WorkFields, SocketFields DEF Fine
<1>2. y = [x EXCEPT !.s = t]
  OBVIOUS
<1> HIDE DEF n
<1>3. /\ t \in Socket(h) /\ t.state = x.s.state /\ t.flags = x.s.flags /\ t.una = x.s.una
      /\ t.win = x.s.win /\ t.nxt = x.s.nxt /\ t.nbq = x.s.nbq /\ t.rx_buf = x.s.rx_buf
  BY <1>1 DEF Socket
<1> HIDE DEF t, y
<1>4. Numbered(t) /\ Quiet(t)
  BY <1>1, <1>3 DEF Numbered, Quiet
<1>5. Fine(h, y) /\ y.s = t /\ y.wake = x.wake /\ y.accepting = x.accepting
  BY <1>2, <1>3, <1>4, PutFine
<1> QED
  BY <1>1, <1>3, <1>5 DEF Same, Frame, y

-----------------------------------------------------------------------------
(* A segment for an established connection                                 *)

\* Whoever waits for data is woken up when there is some.
Later(x, y) ==
    /\ y.accepting = x.accepting /\ y.s.nxt >= x.s.nxt /\ x.wake \subseteq y.wake
    /\ y.s.rx_buf = x.s.rx_buf \/ "recv" \in y.wake

LEMMA LaterChain ==
    ASSUME NEW h, NEW x, NEW y, NEW z, Fine(h, x), Fine(h, y), Fine(h, z), Later(x, y), Later(y, z)
    PROVE  Later(x, z)
<1>1. x.s.nxt \in Nat /\ y.s.nxt \in Nat /\ z.s.nxt \in Nat
  BY WorkFields, SocketFields DEF Fine
<1> QED
  BY <1>1 DEF Later

LEMMA SameLater ==
    ASSUME NEW x, NEW y, Same(x, y)
    PROVE  Later(x, y) /\ y.s.state = x.s.state
  BY DEF Same, Frame, Later

\* The acknowledgement of a segment that is not expected.
LEMMA ForceAckFine ==
    ASSUME NEW h \in Host, NEW x, Fine(h, x)
    PROVE  LET y == NutTcpOutput(Flag(x, {"ACK", "FORCE"}), <<>>)
           IN  Fine(h, y) /\ Later(x, y) /\ y.s.state = x.s.state
<1> DEFINE f == {"ACK", "FORCE"}
           u == Flag(x, f)
           y == NutTcpOutput(u, <<>>)
<1>1. f \in SUBSET {"ACK", "FORCE"}
  OBVIOUS
<1>2. Fine(h, u) /\ Same(x, u)
  <2> HIDE DEF f
  <2> QED  BY <1>1, FlagFine
<1> HIDE DEF u
<1>3. Fine(h, y) /\ Same(u, y)
  BY <1>2, QuietOutput
<1> HIDE DEF y
<1>4. Later(x, y) /\ y.s.state = x.s.state
  BY <1>2, <1>3, SameLater, LaterChain
<1> QED
  BY <1>3, <1>4 DEF y, u

\* Data is stored and those who wait for it are woken up.
LEMMA TakeDataFine ==
    ASSUME NEW h \in Host, NEW x, Fine(h, x), NEW m \in Msg
    PROVE  /\ LET y == Wakes(Drain(NutTcpProcessAppData(x, m)), {"recv"})
              IN  Fine(h, y) /\ Later(x, y) /\ y.s.state = x.s.state
           /\ LET y == Wakes(NutTcpProcessAppData(x, m), {"recv"})
              IN  /\ Fine(h, y) /\ Later(x, y) /\ y.s.state = x.s.state
                  /\ x.s.nbq # <<>> => y.s.nbq # <<>>
<1> DEFINE a == NutTcpProcessAppData(x, m)
           b == Drain(a)
           q == {"recv"}
           c == Wakes(a, q)
           d == Wakes(b, q)
<1>1. q \in SUBSET Queue
  BY DEF Queue
<1>2. Fine(h, a) /\ Frame(x, a) /\ a.s.state = x.s.state /\ a.wake = x.wake
  BY AppDataFine
<1> HIDE DEF a
<1>3. Fine(h, b) /\ Frame(a, b) /\ b.s.state = a.s.state /\ b.wake = a.wake
  BY <1>2, DrainFine
<1> HIDE DEF b, q
<1>4. Fine(h, c) /\ c.s = a.s /\ c.wake = a.wake \cup q /\ c.accepting = a.accepting
  BY <1>1, <1>2, WakesFine
<1>5. Fine(h, d) /\ d.s = b.s /\ d.wake = b.wake \cup q /\ d.accepting = b.accepting
  BY <1>1, <1>3, WakesFine
<1>6. x.s.nxt \in Nat /\ a.s.nxt \in Nat /\ b.s.nxt \in Nat
  BY <1>2, <1>3, WorkFields, SocketFields DEF Fine
<1> HIDE DEF c, d
<1>7. "recv" \in c.wake /\ "recv" \in d.wake
  BY <1>4, <1>5 DEF q
<1>8. Later(x, c) /\ c.s.state = x.s.state /\ (x.s.nbq # <<>> => c.s.nbq # <<>>)
  BY <1>2, <1>4, <1>7 DEF Frame, Later
<1>9. Later(x, d) /\ d.s.state = x.s.state
  BY <1>2, <1>3, <1>5, <1>6, <1>7 DEF Frame, Later
<1> QED
  BY <1>4, <1>5, <1>8, <1>9 DEF a, b, c, d, q

\* The end of the data is reported, unless the connection was given up before.
LEMMA InSequenceFine ==
    ASSUME NEW h \in Host, NEW x, Fine(h, x), NEW m \in Msg, x.s.state \in {"ESTABLISHED", "CLOSED"}
    PROVE  LET y == InSequence(x, m)
           IN  /\ Fine(h, y) /\ Later(x, y)
               /\ y.s.state = x.s.state \/ (y.s.state = "CLOSE_WAIT" /\ "recv" \in y.wake)
<1> DEFINE a == NutTcpOutput(Flag(x, {"ACK", "FORCE"}), <<>>)
           b == Wakes(Drain(NutTcpProcessAppData(x, m)), {"recv"})
           c == IF m.seq # x.s.rx_nxt THEN a ELSE IF m.data # <<>> THEN b ELSE x
           d == [c EXCEPT !.s.rx_nxt = @ + 1]
           e == NutTcpStateChange(d, "CLOSE_WAIT")
           y == IF "FIN" \in m.flags THEN e ELSE c
<1>1. InSequence(x, m) = y
  BY DEF InSequence
<1>2. Fine(h, a) /\ Later(x, a) /\ a.s.state = x.s.state
  BY ForceAckFine
<1>3. Fine(h, b) /\ Later(x, b) /\ b.s.state = x.s.state
  BY TakeDataFine
<1>4. Later(x, x)
  <2>1. x.s.nxt \in Nat
    BY WorkFields, SocketFields DEF Fine
  <2> QED  BY <2>1 DEF Later
<1> HIDE DEF a, b
<1>5. Fine(h, c) /\ Later(x, c) /\ c.s.state = x.s.state
  BY <1>2, <1>3, <1>4
<1> HIDE DEF c
<1>6. Fine(h, d) /\ Same(c, d)
  BY <1>5, BumpFine
<1> HIDE DEF d
<1>7. Fine(h, d) /\ Later(x, d) /\ d.s.state = x.s.state
  BY <1>5, <1>6, SameLater, LaterChain
<1>8. /\ Fine(h, e) /\ Later(x, e)
      /\ e.s.state = x.s.state \/ (e.s.state = "CLOSE_WAIT" /\ "recv" \in e.wake)
  <2>1. CASE d.s.state = "CLOSED"
    <3>1. ~CanGo("CLOSED", "CLOSE_WAIT")
      BY Transitions
    <3>2. e = d
      BY <2>1, <3>1, StateKept
    <3> QED  BY <1>7, <3>2
  <2>2. CASE d.s.state = "ESTABLISHED"
    <3>1. CanGo("ESTABLISHED", "CLOSE_WAIT")
      BY Transitions
    <3>2. /\ Fine(h, e) /\ Frame(d, e) /\ e.s.state = "CLOSE_WAIT"
          /\ d.wake \subseteq e.wake /\ "recv" \in e.wake
      BY <1>7, <2>2, <3>1, StateChanged
    <3> HIDE DEF e
    <3>3. Later(d, e) /\ "recv" \in e.wake
      BY <3>2 DEF Frame, Later
    <3>4. Later(x, e)
      BY <1>7, <3>2, <3>3, LaterChain
    <3> QED  BY <3>2, <3>3, <3>4
  <2> QED  BY <1>7, <2>1, <2>2
<1> HIDE DEF e
<1>9. /\ Fine(h, y) /\ Later(x, y)
      /\ y.s.state = x.s.state \/ (y.s.state = "CLOSE_WAIT" /\ "recv" \in y.wake)
  BY <1>5, <1>8
<1> HIDE DEF y
<1> QED
  BY <1>1, <1>9

\* NutTcpStateEstablished: no other calls than those for data wait now, and
\* they are woken up when data comes or the state changes.
LEMMA EstablishedFine ==
    ASSUME NEW h \in Host, NEW x, Fine(h, x), NEW m \in Msg, x.s.state = "ESTABLISHED"
    PROVE  LET y == NutTcpStateEstablished(x, m)
           IN  /\ Fine(h, y) /\ y.accepting = x.accepting
               /\ \/ Later(x, y) /\ y.s.state = "ESTABLISHED"
                  \/ y.s.state \in {"CLOSED", "CLOSE_WAIT"} /\ "recv" \in y.wake
<1> DEFINE y == NutTcpStateEstablished(x, m)
           a == NutTcpProcessAck(x, m)
<1>1. x.s.nxt \in Nat
  BY WorkFields, SocketFields DEF Fine
<1>2. \/ y = NutTcpAbortSocket(x) \/ y = x \/ y = NutTcpReject(x, m)
      \/ y = InAdvance(a, m) \/ y = InSequence(a, m)
  BY DEF NutTcpStateEstablished
<1>3. ~HasClosed("ESTABLISHED") /\ "recv" \in Queue
  BY DEF HasClosed, Queue
<1>4. Fine(h, a) /\ (Heard(x, a) \/ Aborted(x, a))
  BY ProcessAckFine
<1> HIDE DEF y, a
<1>5. CASE y = NutTcpAbortSocket(x)
  <2>1. Fine(h, y) /\ Aborted(x, y)
    BY <1>5, AbortAborts
  <2> QED  BY <1>3, <2>1 DEF Aborted, y
<1>6. CASE y = x
  BY <1>1, <1>6 DEF Later, y
<1>7. CASE y = NutTcpReject(x, m)
  <2>1. Fine(h, y) /\ Same(x, y)
    BY <1>7, RejectFine
  <2> QED  BY <2>1, SameLater DEF Later, y
<1>8. /\ a.s.state \in {"ESTABLISHED", "CLOSED"} /\ a.accepting = x.accepting
      /\ a.s.state = "ESTABLISHED" => Later(x, a)
      /\ a.s.state = "CLOSED" => "recv" \in a.wake
  BY <1>3, <1>4 DEF Heard, Aborted, Later
<1>9. CASE y = InAdvance(a, m)
  <2>1. Fine(h, y) /\ Same(a, y)
    BY <1>4, <1>9, InAdvanceFine
  <2>2. Later(a, y) /\ y.s.state = a.s.state
    BY <2>1, SameLater
  <2>3. a.s.state = "ESTABLISHED" => Later(x, y)
    BY <1>4, <1>8, <2>1, <2>2, LaterChain
  <2> QED  BY <1>8, <2>1, <2>2, <2>3 DEF Later, y
<1>10. CASE y = InSequence(a, m)
  <2>1. /\ Fine(h, y) /\ Later(a, y)
        /\ y.s.state = a.s.state \/ (y.s.state = "CLOSE_WAIT" /\ "recv" \in y.wake)
    BY <1>4, <1>8, <1>10, InSequenceFine
  <2>2. a.s.state = "ESTABLISHED" => Later(x, y)
    BY <1>4, <1>8, <2>1, LaterChain
  <2> QED  BY <1>8, <2>1, <2>2 DEF Later, y
<1> QED
  BY <1>2, <1>5, <1>6, <1>7, <1>9, <1>10

\* Senders are woken up whenever they may have got room or the state changes.
LEMMA EstablishedSafe ==
    ASSUME NEW h \in Host, NEW x, Fine(h, x), NEW m \in Msg, x.s.state = "ESTABLISHED"
    PROVE  LET y == NutTcpStateEstablished(x, m)
           IN  Safe(h, x, IF WakesSenders(x, y) THEN Wakes(y, {"send"}) ELSE y)
<1> DEFINE y == NutTcpStateEstablished(x, m)
           q == {"send"}
           z == IF WakesSenders(x, y) THEN Wakes(y, q) ELSE y
<1>1. /\ Fine(h, y) /\ y.accepting = x.accepting
      /\ \/ Later(x, y) /\ y.s.state = "ESTABLISHED"
         \/ y.s.state \in {"CLOSED", "CLOSE_WAIT"} /\ "recv" \in y.wake
  BY EstablishedFine
<1> HIDE DEF y
<1>2. q \in SUBSET Queue /\ "send" \in q
  BY DEF Queue
<1> HIDE DEF q
<1>3. /\ Fine(h, Wakes(y, q)) /\ Wakes(y, q).s = y.s /\ Wakes(y, q).accepting = y.accepting
      /\ Wakes(y, q).wake = y.wake \cup q
  BY <1>1, <1>2, WakesFine
<1>4. /\ Fine(h, z) /\ z.s = y.s /\ z.accepting = x.accepting /\ y.wake \subseteq z.wake
      /\ "send" \in z.wake \/ ~WakesSenders(x, y)
  BY <1>1, <1>2, <1>3
<1> HIDE DEF z
<1>5. Timed(z.s) /\ z.s.state \in OpenState
  BY <1>1, <1>4 DEF Timed, AckState, OpenState
<1>6. "send" \notin z.wake /\ ~CanSend(x.s) => z.s.state = "ESTABLISHED" /\ ~CanSend(z.s)
  <2> SUFFICES ASSUME "send" \notin z.wake, ~CanSend(x.s)
               PROVE  z.s.state = "ESTABLISHED" /\ ~CanSend(z.s)
    OBVIOUS
  <2>1. y.s.state = "ESTABLISHED" /\ ~(y.s.win > x.s.win) /\ y.s.una = x.s.una
    BY <1>4 DEF WakesSenders
  <2>2. y.s.win \in Nat /\ x.s.win \in Nat
    BY <1>1, WorkFields, SocketFields DEF Fine
  <2>3. y.s.win <= x.s.win /\ y.s.nxt >= x.s.nxt
    BY <1>1, <2>1, <2>2 DEF Later
  <2>4. ~CanSend(y.s)
    BY <1>1, <2>1, <2>3, NoRoom
  <2> QED  BY <1>4, <2>1, <2>4
<1>7. "recv" \notin z.wake /\ x.s.rx_buf = <<>> => z.s.state = "ESTABLISHED" /\ z.s.rx_buf = <<>>
  BY <1>1, <1>4 DEF Later
<1>8. x.s.state \notin ClosedState
  BY DEF ClosedState, AckState
<1>9. Safe(h, x, z)
  BY <1>4, <1>5, <1>6, <1>7, <1>8, SafeIf
<1> QED
  BY <1>9 DEF y, z, q

-----------------------------------------------------------------------------
(* A segment while the connection is opened                                *)

\* NutTcpStateListen
LEMMA ListenSafe ==
    ASSUME NEW h \in Host, NEW x, Fine(h, x), NEW m \in Msg, x.s.state = "LISTEN"
    PROVE  Safe(h, x, NutTcpStateListen(x, m))
<1> DEFINE y == NutTcpStateListen(x, m)
           a == NutTcpProcessSyn(x, m)
           b == NutTcpStateChange(a, "SYN_RECEIVED")
<1>1. y = b \/ y = NutTcpReject(x, m)
  BY DEF NutTcpStateListen
<1>2. Timed(x.s)
  BY DEF Timed, AckState
<1> HIDE DEF y
<1>3. CASE y = NutTcpReject(x, m)
  <2>1. Fine(h, y) /\ Same(x, y)
    BY <1>3, RejectFine
  <2>2. Safe(h, x, y)
    BY <1>2, <2>1, SameSafe
  <2> QED  BY <2>2 DEF y
<1>4. CASE y = b
  <2>1. Fine(h, a) /\ a.s.state = "LISTEN" /\ a.accepting = x.accepting
    BY ProcessSynFine DEF Heard
  <2> HIDE DEF a
  <2>2. CanGo("LISTEN", "SYN_RECEIVED")
    BY Transitions
  <2>3. Fine(h, b) /\ Frame(a, b) /\ b.s.state = "SYN_RECEIVED"
    BY <2>1, <2>2, StateChanged
  <2> HIDE DEF b
  <2>4. b.accepting = x.accepting
    BY <2>1, <2>3 DEF Frame
  <2>5. Timed(b.s) /\ b.s.state \in OpenState /\ x.s.state \notin ClosedState
    BY <2>3 DEF Timed, AckState, OpenState, ClosedState
  <2>6. Safe(h, x, b)
    BY <2>3, <2>4, <2>5, SafeIf
  <2> QED  BY <1>4, <2>6 DEF y
<1> QED
  BY <1>1, <1>3, <1>4

\* The transition to a state that a socket in use may have.
LEMMA OpenChange ==
    ASSUME NEW h \in Host, NEW x, Fine(h, x), NEW to \in OpenState, h = client \/ to # "SYN_SENT",
           x.s.state \in OpenState
    PROVE  LET y == NutTcpStateChange(x, to)
           IN  /\ Fine(h, y) /\ y.s.state \in OpenState /\ y.accepting = x.accepting
               /\ x.wake \subseteq y.wake
               /\ y.s.state = to \/ y = x
<1> DEFINE y == NutTcpStateChange(x, to)
<1>1. CASE CanGo(x.s.state, to)
  <2>1. Fine(h, y) /\ Frame(x, y) /\ y.s.state = to /\ x.wake \subseteq y.wake
    BY <1>1, StateChanged
  <2> HIDE DEF y
  <2> QED  BY <2>1 DEF Frame, y
<1>2. CASE ~CanGo(x.s.state, to)
  <2>1. y = x
    BY <1>2, StateKept
  <2> QED  BY <2>1
<1> QED
  BY <1>1, <1>2

\* NutTcpStateSynSent: the client does not fall back to SYN_RECEIVED, because
\* the server's SYNs acknowledge.
LEMMA SynSentSafe ==
    ASSUME NEW h \in Host, NEW x, Fine(h, x), NEW m \in Out(Peer(h)), x.s.state = "SYN_SENT"
    PROVE  Safe(h, x, NutTcpStateSynSent(x, m))
<1> DEFINE y == NutTcpStateSynSent(x, m)
           a == NutTcpProcessSyn(x, m)
           b == NutTcpProcessAck(a, m)
           c == NutTcpStateChange(b, "ESTABLISHED")
           q == {"connect"}
           d == Wakes(c, q)
           e == NutTcpStateChange(a, "SYN_RECEIVED")
<1>1. m \in Msg /\ (h = client /\ "SYN" \in m.flags => "ACK" \in m.flags)
  BY DEF Out, Peer
<1>2. \/ y = NutTcpReject(x, m) \/ y = NutTcpAbortSocket(x) \/ y = x
      \/ y = d \/ (y = e /\ h # client)
  BY <1>1 DEF NutTcpStateSynSent
<1>3. Timed(x.s) /\ x.s.state \in OpenState /\ x.s.state \notin ClosedState
  BY DEF Timed, AckState, OpenState, ClosedState
<1>4. Fine(h, a) /\ a.s.state = "SYN_SENT" /\ a.accepting = x.accepting
  BY <1>1, ProcessSynFine DEF Heard
<1> HIDE DEF y, a
<1>5. CASE y = NutTcpReject(x, m)
  <2>1. Fine(h, y) /\ Same(x, y)
    BY <1>1, <1>5, RejectFine
  <2>2. Safe(h, x, y)
    BY <1>3, <2>1, SameSafe
  <2> QED  BY <2>2 DEF y
<1>6. CASE y = NutTcpAbortSocket(x)
  <2>1. Fine(h, y) /\ Aborted(x, y)
    BY <1>6, AbortAborts
  <2>2. Safe(h, x, y)
    BY <2>1, AbortedSafe
  <2> QED  BY <2>2 DEF y
<1>7. CASE y = x
  <2>1. Safe(h, x, x)
    BY <1>3, SafeIf
  <2> QED  BY <1>7, <2>1 DEF y
<1>8. CASE y = d
  <2>1. Fine(h, b) /\ (Heard(a, b) \/ Aborted(a, b))
    BY <1>1, <1>4, ProcessAckFine
  <2>2. b.s.state \in OpenState /\ b.accepting = x.accepting
    <3>1. "CLOSED" \in OpenState /\ "SYN_SENT" \in OpenState /\ ~HasClosed("SYN_SENT")
      BY DEF OpenState, HasClosed
    <3> QED  BY <1>4, <2>1, <3>1 DEF Heard, Aborted
  <2> HIDE DEF b
  <2>3. "ESTABLISHED" \in OpenState /\ "ESTABLISHED" # "SYN_SENT"
    BY DEF OpenState
  <2>4. Fine(h, c) /\ c.s.state \in OpenState /\ c.accepting = x.accepting
    BY <2>1, <2>2, <2>3, OpenChange
  <2> HIDE DEF c
  <2>5. q \in SUBSET Queue /\ "connect" \in q
    BY DEF Queue
  <2> HIDE DEF q
  <2>6. Fine(h, d) /\ d.s = c.s /\ d.wake = c.wake \cup q /\ d.accepting = c.accepting
    BY <2>4, <2>5, WakesFine
  <2> HIDE DEF d
  <2>7. d.s.state \in OpenState /\ d.accepting = x.accepting /\ "connect" \in d.wake
    BY <2>4, <2>5, <2>6
  <2>8. Timed(d.s)
    BY <2>7 DEF Timed, OpenState, AckState
  <2>9. Safe(h, x, d)
    BY <1>3, <2>6, <2>7, <2>8, SafeIf
  <2> QED  BY <1>8, <2>9 DEF y
<1>9. CASE y = e /\ h # client
  <2>1. "SYN_RECEIVED" \in OpenState /\ "SYN_RECEIVED" # "SYN_SENT"
    BY DEF OpenState
  <2>2. Fine(h, e) /\ e.s.state \in OpenState /\ e.accepting = x.accepting
    BY <1>3, <1>4, <2>1, OpenChange
  <2> HIDE DEF e
  <2>3. Timed(e.s)
    BY <2>2 DEF Timed, OpenState, AckState
  <2>4. Safe(h, x, e)
    BY <1>3, <1>9, <2>2, <2>3, SafeIf
  <2> QED  BY <1>9, <2>4 DEF y
<1> QED
  BY <1>2, <1>5, <1>6, <1>7, <1>8, <1>9

\* The buffers of a socket are released.
LEMMA DiscardFine ==
    ASSUME NEW h, NEW x, Fine(h, x)
    PROVE  LET y == DiscardBuffers(x)
           IN  Fine(h, y) /\ y.s.state = x.s.state /\ y.wake = x.wake /\ y.accepting = x.accepting
<1> DEFINE e == <<>>
           t == [x.s EXCEPT !.rx_buf = e, !.nbq = e, !.rx_nbq = e]
           y == DiscardBuffers(x)
<1>1. x \in Work(h) /\ x.s \in Socket(h) /\ Numbered(x.s) /\ Quiet(x.s) /\ x.s.nxt \in Nat
  BY WorkFields, SocketFields DEF Fine
<1>2. y = [x EXCEPT !.s = t]
  BY <1>1 DEF Work, DiscardBuffers
<1>3. e \in Seq(Nat) /\ e \in Seq(Out(h)) /\ e \in Seq(Kept)
  OBVIOUS
<1> HIDE DEF e
<1>4. /\ t \in Socket(h) /\ t.state = x.s.state /\ t.flags = x.s.flags /\ t.una = x.s.una
      /\ t.nxt = x.s.nxt /\ t.nbq = e
  BY <1>1, <1>3 DEF Socket
<1> HIDE DEF t, y
<1>5. Numbered(t) /\ Quiet(t)
  BY <1>1, <1>4 DEF Numbered, Quiet, e
<1>6. Fine(h, y) /\ y.s = t /\ y.wake = x.wake /\ y.accepting = x.accepting
  BY <1>2, <1>4, <1>5, PutFine
<1> QED
  BY <1>4, <1>6 DEF y

\* NutTcpStateSynReceived: the call of NutTcpAccept is woken up unless the
\* socket listens again.
LEMMA SynReceivedSafe ==
    ASSUME NEW h \in Host, NEW x, Fine(h, x), NEW m \in Msg, x.s.state = "SYN_RECEIVED"
    PROVE  Safe(h, x, NutTcpStateSynReceived(x, m))
<1> DEFINE y == NutTcpStateSynReceived(x, m)
           l == NutTcpStateChange(x, "LISTEN")
           k == NutTcpAbortSocket(x)
           a == NutTcpProcessAck(x, m)
           b == IF m.data # <<>> THEN NutTcpProcessAppData(a, m) ELSE a
           c == [b EXCEPT !.s.rx_nxt = @ + 1]
           d == NutTcpStateChange(c, "CLOSE_WAIT")
           e == NutTcpStateChange(b, "ESTABLISHED")
           q == {"accept", "connect"}
           f == Wakes(e, q)
<1>1. \/ y = DiscardBuffers(l) \/ y = DiscardBuffers(k) \/ y = x \/ y = NutTcpReject(x, m)
      \/ y = d \/ y = f
  BY DEF NutTcpStateSynReceived
<1>2. /\ Timed(x.s) /\ x.s.state \in OpenState /\ x.s.state \notin ClosedState
      /\ ~HasClosed("SYN_RECEIVED")
  BY DEF Timed, AckState, OpenState, ClosedState, HasClosed
<1>3. /\ "LISTEN" \in OpenState /\ "LISTEN" # "SYN_SENT" /\ "CLOSED" \in OpenState
      /\ "ESTABLISHED" \in OpenState /\ "ESTABLISHED" # "SYN_SENT"
      /\ "CLOSE_WAIT" \in OpenState /\ "CLOSE_WAIT" # "SYN_SENT"
  BY DEF OpenState
<1>4. ASSUME NEW z, Fine(h, z), z.s.state \in OpenState, z.accepting = x.accepting,
             "accept" \in z.wake \/ z.s.state \in {"LISTEN", "SYN_RECEIVED"}
      PROVE  Safe(h, x, z)
  <2>1. Timed(z.s)
    BY <1>4 DEF Timed, OpenState, AckState
  <2> QED  BY <1>2, <1>4, <2>1, SafeIf
<1>5. /\ Fine(h, b) /\ b.s.state \in {"SYN_RECEIVED", "CLOSED"} /\ b.accepting = x.accepting
      /\ b.s.state = "CLOSED" => "accept" \in b.wake
  <2>1. Fine(h, a) /\ (Heard(x, a) \/ Aborted(x, a))
    BY ProcessAckFine
  <2>2. /\ a.s.state \in {"SYN_RECEIVED", "CLOSED"} /\ a.accepting = x.accepting
        /\ a.s.state = "CLOSED" => "accept" \in a.wake
    BY <1>2, <2>1 DEF Heard, Aborted, Queue
  <2> HIDE DEF a
  <2> DEFINE p == NutTcpProcessAppData(a, m)
  <2>3. Fine(h, p) /\ Frame(a, p) /\ p.s.state = a.s.state /\ p.wake = a.wake
    BY <2>1, AppDataFine
  <2> HIDE DEF p
  <2>4. p.accepting = a.accepting
    BY <2>3 DEF Frame
  <2>5. b = p \/ b = a
    BY DEF p
  <2> HIDE DEF b
  <2> QED  BY <2>1, <2>2, <2>3, <2>4, <2>5
<1> HIDE DEF y, a, b
<1>6. CASE y = DiscardBuffers(l)
  <2>1. Fine(h, l) /\ l.s.state = "LISTEN" /\ l.accepting = x.accepting
    <3>1. CanGo("SYN_RECEIVED", "LISTEN")
      BY Transitions
    <3>2. Fine(h, l) /\ Frame(x, l) /\ l.s.state = "LISTEN"
      BY <1>3, <3>1, StateChanged
    <3> HIDE DEF l
    <3> QED  BY <3>2 DEF Frame
  <2> HIDE DEF l
  <2>2. Fine(h, y) /\ y.s.state = l.s.state /\ y.accepting = l.accepting
    BY <1>6, <2>1, DiscardFine
  <2>3. Safe(h, x, y)
    BY <1>3, <1>4, <2>1, <2>2
  <2> QED  BY <2>3 DEF y
<1>7. CASE y = DiscardBuffers(k)
  <2>1. Fine(h, k) /\ Aborted(x, k)
    BY AbortAborts
  <2> HIDE DEF k
  <2>2. k.s.state = "CLOSED" /\ "accept" \in k.wake /\ k.accepting = x.accepting
    BY <1>2, <2>1 DEF Aborted, Queue
  <2>3. Fine(h, y) /\ y.s.state = k.s.state /\ y.wake = k.wake /\ y.accepting = k.accepting
    BY <1>7, <2>1, DiscardFine
  <2>4. Safe(h, x, y)
    BY <1>3, <1>4, <2>2, <2>3
  <2> QED  BY <2>4 DEF y
<1>8. CASE y = x
  <2>1. Safe(h, x, x)
    BY <1>2, <1>4
  <2> QED  BY <1>8, <2>1 DEF y
<1>9. CASE y = NutTcpReject(x, m)
  <2>1. Fine(h, y) /\ Same(x, y)
    BY <1>9, RejectFine
  <2>2. Safe(h, x, y)
    BY <1>2, <2>1, SameSafe
  <2> QED  BY <2>2 DEF y
<1>10. CASE y = d
  <2>1. Fine(h, c) /\ c.s.state = b.s.state /\ c.wake = b.wake /\ c.accepting = b.accepting
    BY <1>5, BumpFine DEF Same, Frame
  <2> HIDE DEF c
  <2>2. CASE c.s.state = "CLOSED"
    <3>1. ~CanGo("CLOSED", "CLOSE_WAIT")
      BY Transitions
    <3>2. d = c
      BY <2>2, <3>1, StateKept
    <3> HIDE DEF d
    <3>3. Safe(h, x, d)
      BY <1>3, <1>4, <1>5, <2>1, <2>2, <3>2
    <3> QED  BY <1>10, <3>3 DEF y
  <2>3. CASE c.s.state = "SYN_RECEIVED"
    <3>1. CanGo("SYN_RECEIVED", "CLOSE_WAIT")
      BY Transitions
    <3>2. Fine(h, d) /\ Frame(c, d) /\ d.s.state = "CLOSE_WAIT" /\ "accept" \in d.wake
      BY <1>3, <2>1, <2>3, <3>1, StateChanged
    <3> HIDE DEF d
    <3>3. d.accepting = x.accepting
      BY <1>5, <2>1, <3>2 DEF Frame
    <3>4. Safe(h, x, d)
      BY <1>3, <1>4, <3>2, <3>3
    <3> QED  BY <1>10, <3>4 DEF y
  <2> QED  BY <1>5, <2>1, <2>2, <2>3
<1>11. CASE y = f
  <2>1. Fine(h, e) /\ e.s.state \in OpenState /\ e.accepting = x.accepting
    BY <1>2, <1>3, <1>5, OpenChange
  <2> HIDE DEF e
  <2>2. q \in SUBSET Queue /\ "accept" \in q
    BY DEF Queue
  <2> HIDE DEF q
  <2>3. Fine(h, f) /\ f.s = e.s /\ f.wake = e.wake \cup q /\ f.accepting = e.accepting
    BY <2>1, <2>2, WakesFine
  <2> HIDE DEF f
  <2>4. Safe(h, x, f)
    BY <1>4, <2>1, <2>2, <2>3
  <2> QED  BY <1>11, <2>4 DEF y
<1> QED
  BY <1>1, <1>6, <1>7, <1>8, <1>9, <1>10, <1>11

-----------------------------------------------------------------------------
(* A segment after the application has closed the socket                   *)

\* The socket stays closed, and something ends it.
Ending(h, x, y) ==
    Fine(h, y) /\ Timed(y.s) /\ y.s.state \in ClosedState /\ y.accepting = x.accepting

\* A change of state never loses the segment that a timer repeats.
LEMMA ClosedChange ==
    ASSUME NEW h \in Host, NEW x, Fine(h, x), Timed(x.s), x.s.state \in ClosedState,
           NEW to \in ClosedState
    PROVE  Ending(h, x, NutTcpStateChange(x, to))
<1> DEFINE y == NutTcpStateChange(x, to)
<1>1. CASE CanGo(x.s.state, to)
  <2>1. to # "SYN_SENT"
    BY DEF ClosedState, AckState
  <2>2. Fine(h, y) /\ Frame(x, y) /\ y.s.state = to
    BY <1>1, <2>1, StateChanged
  <2>3. to \in AckState => x.s.state \in AckState
    BY <1>1, Transitions DEF ClosedState, AckState
  <2> HIDE DEF y
  <2>4. Timed(y.s) /\ y.accepting = x.accepting
    BY <2>2, <2>3 DEF Timed, Frame
  <2> QED  BY <2>2, <2>4 DEF Ending, y
<1>2. CASE ~CanGo(x.s.state, to)
  <2>1. y = x
    BY <1>2, StateKept
  <2> QED  BY <2>1 DEF Ending
<1> QED
  BY <1>1, <1>2

\* A reset, a SYN or a segment without an acknowledgement.
LEMMA RefusedEnding ==
    ASSUME NEW h \in Host, NEW x, Fine(h, x), Timed(x.s), x.s.state \in ClosedState, NEW m \in Msg
    PROVE  Ending(h, x, Refused(x, m))
<1> DEFINE y == Refused(x, m)
<1>1. y = NutTcpStateChange(x, "DESTROY") \/ y = NutTcpReject(x, m) \/ y = x
  BY DEF Refused
<1> HIDE DEF y
<1>2. CASE y = NutTcpStateChange(x, "DESTROY")
  <2>1. "DESTROY" \in ClosedState
    BY DEF ClosedState
  <2> QED  BY <1>2, <2>1, ClosedChange DEF y
<1>3. CASE y = NutTcpReject(x, m)
  <2>1. Fine(h, y) /\ Same(x, y)
    BY <1>3, RejectFine
  <2> QED  BY <2>1 DEF Ending, Timed, Same, Frame, y
<1>4. CASE y = x
  BY <1>4 DEF Ending, y
<1> QED
  BY <1>1, <1>2, <1>3, <1>4

\* The state is left when everything is acknowledged; otherwise there is still
\* a segment to repeat, or the connection has been given up.
LEMMA AckedEnding ==
    ASSUME NEW h \in Host, NEW x, Fine(h, x), Timed(x.s), x.s.state \in AckState, NEW m \in Msg,
           NEW to \in ClosedState \ AckState, CanGo(x.s.state, to)
    PROVE  LET y == NutTcpProcessAck(x, m)
           IN  Ending(h, x, IF AllAcked(y) THEN NutTcpStateChange(y, to) ELSE y)
<1> DEFINE y == NutTcpProcessAck(x, m)
           c == NutTcpStateChange(y, to)
           z == IF AllAcked(y) THEN c ELSE y
<1>1. Fine(h, y) /\ (Heard(x, y) \/ Aborted(x, y))
  BY ProcessAckFine
<1>2. x.s.nbq # <<>> /\ x.s.state \in ClosedState /\ HasClosed(x.s.state)
  BY DEF Timed, ClosedState, AckState, HasClosed
<1> HIDE DEF y
<1>3. CASE Aborted(x, y)
  <2>1. y.s.state = "TIME_WAIT" /\ y.accepting = x.accepting
    BY <1>2, <1>3 DEF Aborted
  <2>2. Timed(y.s) /\ y.s.state \in ClosedState
    BY <2>1 DEF Timed, AckState, ClosedState
  <2>3. Ending(h, y, c)
    BY <1>1, <2>2, ClosedChange
  <2> HIDE DEF c
  <2>4. Ending(h, x, c) /\ Ending(h, x, y)
    BY <1>1, <2>1, <2>2, <2>3 DEF Ending
  <2> QED  BY <2>4 DEF y, c
<1>4. CASE Heard(x, y) /\ AllAcked(y)
  <2>1. CanGo(y.s.state, to) /\ to # "SYN_SENT" /\ y.accepting = x.accepting
    BY <1>4 DEF Heard, ClosedState
  <2>2. Fine(h, c) /\ Frame(y, c) /\ c.s.state = to
    BY <1>1, <2>1, StateChanged
  <2> HIDE DEF c
  <2>3. Timed(c.s) /\ c.accepting = x.accepting
    BY <2>1, <2>2 DEF Timed, Frame
  <2>4. Ending(h, x, c)
    BY <2>2, <2>3 DEF Ending
  <2> QED  BY <1>4, <2>4 DEF y, c
<1>5. CASE Heard(x, y) /\ ~AllAcked(y)
  <2>1. Ending(h, x, y)
    BY <1>1, <1>2, <1>5 DEF Heard, Ending, Timed
  <2> QED  BY <1>5, <2>1 DEF y
<1> QED
  BY <1>1, <1>3, <1>4, <1>5

\* Late data and a FIN do not concern what has been sent.
LEMMA LateEnding ==
    ASSUME NEW h \in Host, NEW x, Fine(h, x), Timed(x.s), x.s.state \in ClosedState, NEW m \in Msg
    PROVE  /\ Ending(h, x, LateData(x, m))
           /\ \A to \in ClosedState : Ending(h, x, LateFin(x, m, to))
<1>1. Ending(h, x, x)
  BY DEF Ending
<1>2. Ending(h, x, LateData(x, m))
  <2> DEFINE a == Wakes(NutTcpProcessAppData(x, m), {"recv"})
  <2>1. /\ Fine(h, a) /\ Later(x, a) /\ a.s.state = x.s.state
        /\ x.s.nbq # <<>> => a.s.nbq # <<>>
    BY TakeDataFine
  <2>2. LateData(x, m) = a \/ LateData(x, m) = x
    BY DEF LateData
  <2> HIDE DEF a
  <2>3. Ending(h, x, a)
    BY <2>1 DEF Later, Timed, Ending
  <2> QED  BY <1>1, <2>2, <2>3
<1>3. ASSUME NEW to \in ClosedState
      PROVE  Ending(h, x, LateFin(x, m, to))
  <2> DEFINE a == [x EXCEPT !.s.rx_nxt = @ + 1]
  <2>1. Fine(h, a) /\ Same(x, a)
    BY BumpFine
  <2>2. LateFin(x, m, to) = NutTcpStateChange(a, to) \/ LateFin(x, m, to) = x
    BY DEF LateFin
  <2> HIDE DEF a
  <2>3. Timed(a.s) /\ a.s.state \in ClosedState /\ a.accepting = x.accepting
    BY <2>1 DEF Same, Frame, Timed
  <2>4. Ending(h, a, NutTcpStateChange(a, to))
    BY <2>1, <2>3, ClosedChange
  <2>5. Ending(h, x, NutTcpStateChange(a, to))
    BY <2>3, <2>4 DEF Ending
  <2> QED  BY <1>1, <2>2, <2>5
<1> QED
  BY <1>2, <1>3

\* Ending is kept by one function after the other.
LEMMA EndingChain ==
    ASSUME NEW h, NEW x, NEW y, NEW z, Ending(h, x, y), Ending(h, y, z)
    PROVE  Ending(h, x, z)
  BY DEF Ending

\* NutTcpStateFinWait1, NutTcpStateFinWait2, NutTcpStateClosing and
\* NutTcpStateLastAck
LEMMA ClosedStatesEnding ==
    ASSUME NEW h \in Host, NEW x, Fine(h, x), Timed(x.s), NEW m \in Msg
    PROVE  /\ x.s.state = "FIN_WAIT_1" => Ending(h, x, NutTcpStateFinWait1(x, m))
           /\ x.s.state = "FIN_WAIT_2" => Ending(h, x, NutTcpStateFinWait2(x, m))
           /\ x.s.state = "CLOSING" => Ending(h, x, NutTcpStateClosing(x, m))
           /\ x.s.state = "LAST_ACK" => Ending(h, x, NutTcpStateLastAck(x, m))
<1> DEFINE y == NutTcpProcessAck(x, m)
           z(to) == IF AllAcked(y) THEN NutTcpStateChange(y, to) ELSE y
<1>1. /\ "FIN_WAIT_1" \in AckState /\ "CLOSING" \in AckState /\ "LAST_ACK" \in AckState
      /\ "FIN_WAIT_2" \in ClosedState \ AckState /\ "TIME_WAIT" \in ClosedState \ AckState
      /\ "DESTROY" \in ClosedState \ AckState /\ AckState \subseteq ClosedState
  BY DEF AckState, ClosedState
<1>2. x.s.state \in ClosedState => Ending(h, x, Refused(x, m))
  BY RefusedEnding
<1>3. ASSUME NEW a, Ending(h, x, a), NEW to \in ClosedState
      PROVE  Ending(h, x, LateFin(LateData(a, m), m, to))
  <2> DEFINE b == LateData(a, m)
  <2>1. Fine(h, a) /\ Timed(a.s) /\ a.s.state \in ClosedState
    BY <1>3 DEF Ending
  <2>2. Ending(h, a, b)
    BY <2>1, LateEnding
  <2> HIDE DEF b
  <2>3. Fine(h, b) /\ Timed(b.s) /\ b.s.state \in ClosedState
    BY <2>2 DEF Ending
  <2>4. Ending(h, b, LateFin(b, m, to))
    BY <2>3, LateEnding
  <2>5. Ending(h, x, LateFin(b, m, to))
    BY <1>3, <2>2, <2>4, EndingChain
  <2> QED  BY <2>5 DEF b
<1>4. ASSUME x.s.state = "FIN_WAIT_1"
      PROVE  Ending(h, x, NutTcpStateFinWait1(x, m))
  <2> DEFINE a == z("FIN_WAIT_2")
             b == LateData(a, m)
             to == IF b.s.state = "FIN_WAIT_2" THEN "TIME_WAIT" ELSE "CLOSING"
  <2>1. CanGo("FIN_WAIT_1", "FIN_WAIT_2")
    BY Transitions
  <2>2. Ending(h, x, a)
    BY <1>1, <1>4, <2>1, AckedEnding
  <2>3. NutTcpStateFinWait1(x, m) = Refused(x, m) \/ NutTcpStateFinWait1(x, m) = LateFin(b, m, to)
    BY DEF NutTcpStateFinWait1
  <2>4. to \in ClosedState
    BY <1>1
  <2> HIDE DEF a, to
  <2>5. Ending(h, x, LateFin(b, m, to))
    BY <1>3, <2>2, <2>4
  <2> QED  BY <1>1, <1>2, <1>4, <2>3, <2>5
<1>5. ASSUME x.s.state = "FIN_WAIT_2"
      PROVE  Ending(h, x, NutTcpStateFinWait2(x, m))
  <2>1. Fine(h, y) /\ (Heard(x, y) \/ Aborted(x, y))
    BY ProcessAckFine
  <2>2. \/ NutTcpStateFinWait2(x, m) = Refused(x, m)
        \/ NutTcpStateFinWait2(x, m) = LateFin(LateData(y, m), m, "TIME_WAIT")
    BY DEF NutTcpStateFinWait2
  <2> HIDE DEF y
  <2>3. Ending(h, x, y)
    <3>1. HasClosed("FIN_WAIT_2")
      BY DEF HasClosed
    <3>2. y.s.state \in {"FIN_WAIT_2", "TIME_WAIT"} /\ y.accepting = x.accepting
      BY <1>5, <2>1, <3>1 DEF Heard, Aborted
    <3> QED  BY <1>1, <2>1, <3>2 DEF Ending, Timed
  <2>4. Ending(h, x, LateFin(LateData(y, m), m, "TIME_WAIT"))
    BY <1>1, <1>3, <2>3
  <2> QED  BY <1>1, <1>2, <1>5, <2>2, <2>4
<1>6. ASSUME x.s.state = "CLOSING"
      PROVE  Ending(h, x, NutTcpStateClosing(x, m))
  <2>1. CanGo("CLOSING", "TIME_WAIT")
    BY Transitions
  <2>2. Ending(h, x, z("TIME_WAIT"))
    BY <1>1, <1>6, <2>1, AckedEnding
  <2>3. NutTcpStateClosing(x, m) = Refused(x, m) \/ NutTcpStateClosing(x, m) = z("TIME_WAIT")
    BY DEF NutTcpStateClosing
  <2> HIDE DEF z
  <2> QED  BY <1>1, <1>2, <1>6, <2>2, <2>3
<1>7. ASSUME x.s.state = "LAST_ACK"
      PROVE  Ending(h, x, NutTcpStateLastAck(x, m))
  <2>1. CanGo("LAST_ACK", "DESTROY")
    BY Transitions
  <2>2. Ending(h, x, z("DESTROY"))
    BY <1>1, <1>7, <2>1, AckedEnding
  <2>3. NutTcpStateLastAck(x, m) = Refused(x, m) \/ NutTcpStateLastAck(x, m) = z("DESTROY")
    BY DEF NutTcpStateLastAck
  <2> HIDE DEF z
  <2> QED  BY <1>1, <1>2, <1>7, <2>2, <2>3
<1> QED
  BY <1>4, <1>5, <1>6, <1>7

\* NutTcpStateCloseWait
LEMMA CloseWaitSafe ==
    ASSUME NEW h \in Host, NEW x, Fine(h, x), NEW m \in Msg, x.s.state = "CLOSE_WAIT"
    PROVE  Safe(h, x, NutTcpStateCloseWait(x, m))
<1> DEFINE y == NutTcpStateCloseWait(x, m)
<1>1. \/ y = NutTcpAbortSocket(x) \/ y = NutTcpReject(x, m) \/ y = NutTcpProcessAck(x, m) \/ y = x
  BY DEF NutTcpStateCloseWait
<1> HIDE DEF y
<1>2. Fine(h, y) /\ y.s.state \in {"CLOSE_WAIT", "CLOSED"} /\ y.accepting = x.accepting
  <2>1. ~HasClosed("CLOSE_WAIT")
    BY DEF HasClosed
  <2>2. CASE y = NutTcpAbortSocket(x)
    <3>1. Fine(h, y) /\ Aborted(x, y)
      BY <2>2, AbortAborts
    <3> QED  BY <2>1, <3>1 DEF Aborted
  <2>3. CASE y = NutTcpReject(x, m)
    <3>1. Fine(h, y) /\ Same(x, y)
      BY <2>3, RejectFine
    <3> QED  BY <3>1 DEF Same, Frame
  <2>4. CASE y = NutTcpProcessAck(x, m)
    <3>1. Fine(h, y) /\ (Heard(x, y) \/ Aborted(x, y))
      BY <2>4, ProcessAckFine
    <3> QED  BY <2>1, <3>1 DEF Heard, Aborted
  <2>5. CASE y = x
    BY <2>5
  <2> QED  BY <1>1, <2>2, <2>3, <2>4, <2>5
<1>3. Timed(y.s) /\ y.s.state \in OpenState
  BY <1>2 DEF Timed, AckState, OpenState
<1>4. Safe(h, x, y)
  BY <1>2, <1>3, IdleSafe
<1> QED
  BY <1>4 DEF y

\* NutTcpStateProcess, for any segment in any state
LEMMA ProcessSafe ==
    ASSUME NEW h \in Host, NEW x, Fine(h, x), Timed(x.s), NEW m \in Out(Peer(h)),
           x.s.state \notin {"CLOSED", "DESTROY", "FREE"}
    PROVE  Safe(h, x, NutTcpStateProcess(x, m))
<1>1. m \in Msg
  BY DEF Out
<1>2. x.s.state \in OpenState \cup ClosedState
  BY WorkFields, SocketFields DEF Fine
<1>3. CASE x.s.state = "ESTABLISHED"
  <2>1. NutTcpStateProcess(x, m) = LET y == NutTcpStateEstablished(x, m)
                                   IN  IF WakesSenders(x, y) THEN Wakes(y, {"send"}) ELSE y
    BY <1>3 DEF NutTcpStateProcess
  <2> QED  BY <1>1, <1>3, <2>1, EstablishedSafe
<1>4. CASE x.s.state = "LISTEN"
  <2>1. NutTcpStateProcess(x, m) = NutTcpStateListen(x, m)
    BY <1>4 DEF NutTcpStateProcess
  <2> QED  BY <1>1, <1>4, <2>1, ListenSafe
<1>5. CASE x.s.state = "SYN_SENT"
  <2>1. NutTcpStateProcess(x, m) = NutTcpStateSynSent(x, m)
    BY <1>5 DEF NutTcpStateProcess
  <2> QED  BY <1>1, <1>5, <2>1, SynSentSafe
<1>6. CASE x.s.state = "SYN_RECEIVED"
  <2>1. NutTcpStateProcess(x, m) = NutTcpStateSynReceived(x, m)
    BY <1>6 DEF NutTcpStateProcess
  <2> QED  BY <1>1, <1>6, <2>1, SynReceivedSafe
<1>7. CASE x.s.state = "CLOSE_WAIT"
  <2>1. NutTcpStateProcess(x, m) = NutTcpStateCloseWait(x, m)
    BY <1>7 DEF NutTcpStateProcess
  <2> QED  BY <1>1, <1>7, <2>1, CloseWaitSafe
<1>8. CASE x.s.state \in {"FIN_WAIT_1", "FIN_WAIT_2", "CLOSING", "LAST_ACK", "TIME_WAIT"}
  <2> DEFINE y == NutTcpStateProcess(x, m)
  <2>1. Ending(h, x, y)
    <3>1. CASE x.s.state = "FIN_WAIT_1"
      BY <1>1, <3>1, ClosedStatesEnding DEF NutTcpStateProcess
    <3>2. CASE x.s.state = "FIN_WAIT_2"
      BY <1>1, <3>2, ClosedStatesEnding DEF NutTcpStateProcess
    <3>3. CASE x.s.state = "CLOSING"
      BY <1>1, <3>3, ClosedStatesEnding DEF NutTcpStateProcess
    <3>4. CASE x.s.state = "LAST_ACK"
      BY <1>1, <3>4, ClosedStatesEnding DEF NutTcpStateProcess
    <3>5. CASE x.s.state = "TIME_WAIT"
      BY <3>5 DEF NutTcpStateProcess, Ending, ClosedState
    <3> QED  BY <1>8, <3>1, <3>2, <3>3, <3>4, <3>5
  <2> HIDE DEF y
  <2>2. x.s.state \in ClosedState
    BY <1>8 DEF ClosedState, AckState
  <2>3. Safe(h, x, y)
    BY <2>1, <2>2, IdleSafe DEF Ending
  <2> QED  BY <2>3 DEF y
<1> QED
  BY <1>2, <1>3, <1>4, <1>5, <1>6, <1>7, <1>8 DEF OpenState, ClosedState, AckState

-----------------------------------------------------------------------------
(* Timers                                                                  *)

\* Two functions that only send.
LEMMA SameChain ==
    ASSUME NEW h, NEW x, NEW y, NEW z, Fine(h, x), Fine(h, y), Fine(h, z), Same(x, y), Same(y, z)
    PROVE  Same(x, z)
<1>1. x.s.nxt \in Nat /\ y.s.nxt \in Nat /\ z.s.nxt \in Nat
  BY WorkFields, SocketFields DEF Fine
<1> QED
  BY <1>1 DEF Same, Frame

\* Two safe functions, of which the second one takes no wake-up back.
LEMMA SafeChain ==
    ASSUME NEW h, NEW x, NEW y, NEW z, Safe(h, x, y), Safe(h, y, z), y.wake \subseteq z.wake
    PROVE  Safe(h, x, z)
  BY DEF Safe

\* A delayed acknowledgement
LEMMA DelayedAckFine ==
    ASSUME NEW h \in Host, NEW x, Fine(h, x)
    PROVE  Fine(h, SendDelayedAck(x)) /\ Same(x, SendDelayedAck(x))
<1> DEFINE f == {"FORCE"}
           u == Flag(x, f)
           v == NutTcpOutput(u, <<>>)
<1>1. SendDelayedAck(x) = v \/ SendDelayedAck(x) = x
  BY DEF SendDelayedAck
<1>2. f \in SUBSET {"ACK", "FORCE"} /\ x.s.nxt \in Nat
  BY WorkFields, SocketFields DEF Fine
<1> HIDE DEF f
<1>3. Fine(h, u) /\ Same(x, u)
  BY <1>2, FlagFine
<1> HIDE DEF u
<1>4. Fine(h, v) /\ Same(u, v)
  BY <1>3, QuietOutput
<1> HIDE DEF v
<1>5. Same(x, v)
  BY <1>3, <1>4, SameChain
<1>6. Same(x, x)
  BY <1>2 DEF Same, Frame
<1> QED
  BY <1>1, <1>4, <1>5, <1>6

\* The end of a state of limited duration
LEMMA StateOverSafe ==
    ASSUME NEW h \in Host, NEW x, Fine(h, x), Timed(x.s)
    PROVE  LET y == StateOver(x)
           IN  Safe(h, x, y) /\ x.wake \subseteq y.wake /\ (x.s.state = "CLOSED" => y = x)
<1> DEFINE y == StateOver(x)
<1>1. CASE x.s.state \in {"TIME_WAIT", "FIN_WAIT_2"}
  <2> DEFINE to == "DESTROY"
             c == NutTcpStateChange(x, to)
  <2>1. y = c
    BY <1>1 DEF StateOver
  <2>2. CanGo(x.s.state, to) /\ to \in ClosedState /\ x.s.state \in ClosedState /\ to # "SYN_SENT"
    BY <1>1, Transitions DEF ClosedState
  <2> HIDE DEF to
  <2>3. Ending(h, x, c)
    BY <2>2, ClosedChange
  <2>4. x.wake \subseteq c.wake
    BY <2>2, StateChanged
  <2> HIDE DEF c
  <2>5. Safe(h, x, c)
    BY <2>2, <2>3, IdleSafe DEF Ending
  <2> QED  BY <1>1, <2>1, <2>4, <2>5
<1>2. CASE x.s.state = "SYN_RECEIVED"
  <2> DEFINE t == [x.s EXCEPT !.state = "LISTEN"]
  <2>1. y = [x EXCEPT !.s = t]
    BY <1>2 DEF StateOver
  <2>2. x \in Work(h) /\ x.s \in Socket(h) /\ Numbered(x.s) /\ Quiet(x.s)
    BY WorkFields DEF Fine
  <2>3. /\ t \in Socket(h) /\ t.state = "LISTEN" /\ t.flags = x.s.flags /\ t.una = x.s.una
        /\ t.nxt = x.s.nxt /\ t.nbq = x.s.nbq
    BY <2>2 DEF Socket, OpenState
  <2> HIDE DEF t, y
  <2>4. Numbered(t) /\ Quiet(t)
    BY <2>2, <2>3 DEF Numbered, Quiet
  <2>5. Fine(h, y) /\ y.s = t /\ y.wake = x.wake /\ y.accepting = x.accepting
    BY <2>1, <2>3, <2>4, PutFine
  <2>6. Timed(y.s) /\ y.s.state \in OpenState /\ x.s.state \notin ClosedState
    BY <1>2, <2>3, <2>5 DEF Timed, AckState, OpenState, ClosedState
  <2>7. Safe(h, x, y)
    BY <1>2, <2>3, <2>5, <2>6, SafeIf
  <2> QED  BY <1>2, <2>5, <2>7 DEF y
<1>3. CASE x.s.state \notin {"TIME_WAIT", "FIN_WAIT_2", "SYN_RECEIVED"}
  <2>1. y = x
    BY <1>3 DEF StateOver
  <2>2. Safe(h, x, x)
    BY DEF Safe
  <2> HIDE DEF y
  <2> QED  BY <2>1, <2>2 DEF y
<1> QED
  BY <1>1, <1>2, <1>3

\* What the loop of NutTcpSm does with a socket
LEMMA TimerSafe ==
    ASSUME NEW h \in Host, NEW x, Fine(h, x), Timed(x.s), x.s.state # "FREE",
           NEW due \in BOOLEAN, NEW over \in BOOLEAN
    PROVE  LET a == SendDelayedAck(x)
               b == IF due /\ a.s.nbq # <<>> THEN NutTcpStateRetranTimeout(a) ELSE a
               y == IF over THEN StateOver(b) ELSE b
           IN  Safe(h, x, y) /\ (x.s.state = "CLOSED" => y.s.state = "CLOSED")
<1> DEFINE a == SendDelayedAck(x)
           r == NutTcpStateRetranTimeout(a)
           b == IF due /\ a.s.nbq # <<>> THEN r ELSE a
           c == StateOver(b)
           y == IF over THEN c ELSE b
<1>1. Fine(h, a) /\ Same(x, a)
  BY DelayedAckFine
<1> HIDE DEF a
<1>2. Safe(h, x, a) /\ Timed(a.s) /\ a.s.state = x.s.state
  BY <1>1, SameSafe DEF Safe, Same
<1>3. Safe(h, a, b) /\ a.wake \subseteq b.wake /\ (a.s.state = "CLOSED" => b.s.state = "CLOSED")
  <2>1. CASE due /\ a.s.nbq # <<>>
    <3>1. b = r
      BY <2>1
    <3>2. Fine(h, r) /\ (Same(a, r) \/ Aborted(a, r))
      BY <1>1, <2>1, RetranFine DEF Aborted
    <3> HIDE DEF r, b
    <3>3. CASE Same(a, r)
      <4>1. Safe(h, a, r)
        BY <1>1, <1>2, <3>2, <3>3, SameSafe
      <4> QED  BY <3>1, <3>3, <4>1 DEF Same
    <3>4. CASE Aborted(a, r)
      <4>1. Safe(h, a, r)
        BY <1>2, <3>2, <3>4, AbortedSafe
      <4>2. a.wake \subseteq r.wake
        BY <1>1, <3>4, WorkFields DEF Fine, Aborted
      <4>3. ~HasClosed("CLOSED")
        BY DEF HasClosed
      <4> QED  BY <3>1, <3>4, <4>1, <4>2, <4>3 DEF Aborted
    <3> QED  BY <3>2, <3>3, <3>4
  <2>2. CASE ~(due /\ a.s.nbq # <<>>)
    <3>1. b = a
      BY <2>2
    <3>2. Safe(h, a, a)
      BY <1>1, <1>2 DEF Safe
    <3> HIDE DEF b
    <3> QED  BY <3>1, <3>2
  <2> QED  BY <2>1, <2>2
<1> HIDE DEF b
<1>4. Safe(h, x, b) /\ Fine(h, b) /\ Timed(b.s)
  BY <1>2, <1>3, SafeChain DEF Safe
<1>5. Safe(h, b, c) /\ b.wake \subseteq c.wake /\ (b.s.state = "CLOSED" => c = b)
  BY <1>4, StateOverSafe
<1> HIDE DEF c
<1>6. Safe(h, x, c)
  BY <1>4, <1>5, SafeChain
<1>7. Safe(h, x, y) /\ (x.s.state = "CLOSED" => y.s.state = "CLOSED")
  BY <1>2, <1>3, <1>4, <1>5, <1>6
<1> QED
  BY <1>7 DEF y, c, b, r, a

-----------------------------------------------------------------------------
(* Steps of the hosts                                                      *)

\* The functions start from a socket that has what they need.
LEMMA BeginFine ==
    ASSUME NEW h \in Host, Types, Local(h)
    PROVE  /\ Fine(h, Begin(h)) /\ Begin(h).s = so[h] /\ Timed(Begin(h).s) /\ Begin(h).h = h
           /\ Begin(h).accepting = (op[h] = "accept" /\ blocked[h])
<1> DEFINE e == <<>>
           w == {}
           b == op[h] = "accept" /\ blocked[h]
           x == [h |-> h, s |-> so[h], out |-> e, wake |-> w, adv |-> adv_cnt[h], accepting |-> b]
<1>1. Begin(h) = x
  BY DEF Begin
<1>2. e \in Seq(Out(h)) /\ w \in SUBSET Queue /\ b \in BOOLEAN /\ adv_cnt[h] \in Int
  BY DEF Types
<1>3. so[h] \in Socket(h) /\ Numbered(so[h]) /\ Quiet(so[h]) /\ Timed(so[h])
  BY DEF Local
<1> HIDE DEF e, w, b
<1>4. x \in Work(h) /\ x.s = so[h] /\ x.h = h /\ x.accepting = b
  BY <1>2, <1>3 DEF Work
<1> HIDE DEF x
<1> QED
  BY <1>1, <1>3, <1>4 DEF Fine, b

\* A host that a step does not concern
LEMMA LocalKept ==
    ASSUME NEW g, Local(g), so'[g] = so[g], op'[g] = op[g], blocked'[g] = blocked[g],
           app'[g] = app[g], adv_cnt'[g] = adv_cnt[g]
    PROVE  Local(g)'
<1>1. Begin(g)' = Begin(g)
  BY DEF Begin
<1>2. Waiting(g, op[g], Begin(g)) => Waiting(g, op[g], Begin(g))'
  BY <1>1 DEF Waiting, CanSend
<1> QED
  BY <1>1, <1>2 DEF Local, Numbered, Quiet, Timed

\* The other host.
LEMMA Peers == ASSUME NEW h \in Host
               PROVE  Peer(h) \in Host /\ Peer(Peer(h)) = h /\ Peer(h) # h
  BY TcpAssumption DEF Host, Peer

\* The results of a function are stored and its segments sent.
LEMMA StoreFine ==
    ASSUME NEW h \in Host, Types, NEW y \in Work(h), NEW n, InFlightOK(n), Store(y, n)
    PROVE  /\ so' = [g \in Host |-> so'[g]] /\ so'[h] = y.s /\ adv_cnt' \in [Host -> Int]
           /\ InFlightOK(net')
           /\ \A g \in Host \ {h} : so'[g] = so[g] /\ adv_cnt'[g] = adv_cnt[g]
<1>1. y.h = h /\ y.s \in Socket(h) /\ y.out \in Seq(Out(h)) /\ y.adv \in Int
  BY WorkFields
<1>2. so = [g \in Host |-> so[g]] /\ adv_cnt \in [Host -> Int]
  BY DEF Types
<1>3. so' = [so EXCEPT ![h] = y.s] /\ adv_cnt' = [adv_cnt EXCEPT ![h] = y.adv]
  BY <1>1 DEF Store
<1>4. so' = [g \in Host |-> IF g = h THEN y.s ELSE so[g]]
  BY <1>2, <1>3
<1>5. InFlightOK(net')
  <2>1. CASE net' = n
    BY <2>1
  <2>2. CASE net' = [n EXCEPT ![Peer(h)] = @ \o y.out]
    <3> DEFINE p == Peer(h)
               r == n[p] \o y.out
    <3>1. p \in Host /\ Peer(p) = h
      BY Peers
    <3>2. n = [g \in Host |-> n[g]] /\ (\A g \in Host : n[g] \in Seq(Out(Peer(g)))) /\ n[p] \in Seq(Out(h))
      BY <3>1 DEF InFlightOK
    <3>3. r \in Seq(Out(h))
      BY <1>1, <3>2, ConcatProperties
    <3>4. net' = [n EXCEPT ![p] = r]
      BY <2>2
    <3> HIDE DEF r, p
    <3>5. net' = [g \in Host |-> IF g = p THEN r ELSE n[g]]
      BY <3>2, <3>4
    <3> HIDE <2>2, <3>4
    <3> QED  BY <3>1, <3>2, <3>3, <3>5 DEF InFlightOK
  <2> QED  BY <1>1, <2>1, <2>2 DEF Store
<1>6. /\ adv_cnt' \in [Host -> Int]
      /\ \A g \in Host \ {h} : adv_cnt'[g] = adv_cnt[g]
  BY <1>1, <1>2, <1>3
<1> QED
  BY <1>4, <1>5, <1>6

\* After a safe function the calls that still wait do so rightly.
LEMMA CommitLocal ==
    ASSUME NEW h \in Host, Types, Local(h), NEW y, Safe(h, Begin(h), y), NEW n, InFlightOK(n),
           Commit(y, n), UNCHANGED <<op, app>>, app[h] = "new" => y.s.state = "CLOSED"
    PROVE  /\ so' = [g \in Host |-> so'[g]] /\ adv_cnt' \in [Host -> Int]
           /\ blocked' \in [Host -> BOOLEAN] /\ InFlightOK(net') /\ Local(h)'
           /\ \A g \in Host \ {h} : Local(g) => Local(g)'
<1>1. Fine(h, y) /\ Timed(y.s) /\ y \in Work(h) /\ y.h = h
  BY WorkFields DEF Safe, Fine
<1>2. Store(y, n) /\ blocked' = [blocked EXCEPT ![h] = @ /\ op[h] \notin y.wake]
  BY <1>1 DEF Commit
<1>3. /\ so' = [g \in Host |-> so'[g]] /\ so'[h] = y.s /\ adv_cnt' \in [Host -> Int]
      /\ InFlightOK(net')
      /\ \A g \in Host \ {h} : so'[g] = so[g] /\ adv_cnt'[g] = adv_cnt[g]
  BY <1>1, <1>2, StoreFine
<1>4. /\ blocked' \in [Host -> BOOLEAN] /\ (blocked'[h] => blocked[h] /\ op[h] \notin y.wake)
      /\ \A g \in Host \ {h} : blocked'[g] = blocked[g]
  BY <1>2 DEF Types
<1>5. \A g \in Host \ {h} : Local(g) => Local(g)'
  BY <1>3, <1>4, LocalKept
<1>6. Begin(h).s = so[h] /\ Begin(h).accepting = (op[h] = "accept" /\ blocked[h])
  BY BeginFine
<1>7. blocked'[h] => app[h] = "open" /\ op[h] \in Queue /\ Waiting(h, op[h], Begin(h)')
  <2> SUFFICES ASSUME blocked'[h]
               PROVE  app[h] = "open" /\ op[h] \in Queue /\ Waiting(h, op[h], Begin(h)')
    OBVIOUS
  <2>1. app[h] = "open" /\ op[h] \in Queue \ y.wake /\ Waiting(h, op[h], Begin(h))
    BY <1>4 DEF Local
  <2>2. Waiting(h, op[h], y)
    BY <2>1 DEF Safe
  <2>3. Begin(h)'.s = y.s /\ Begin(h)'.accepting = (op[h] = "accept" /\ blocked'[h])
    BY <1>3 DEF Begin
  <2>4. Waiting(h, op[h], Begin(h)')
    <3>1. CASE op[h] = "recv"
      BY <2>2, <2>3, <3>1 DEF Waiting
    <3>2. CASE op[h] = "send"
      BY <2>2, <2>3, <3>2 DEF Waiting
    <3>3. CASE op[h] = "connect"
      BY <2>2, <2>3, <3>3 DEF Waiting
    <3>4. CASE op[h] = "accept"
      BY <2>2, <2>3, <3>4 DEF Waiting
    <3> QED  BY <2>1, <3>1, <3>2, <3>3, <3>4 DEF Queue
  <2> QED  BY <2>1, <2>4
<1>8. Local(h)'
  <2>1. /\ so'[h] \in Socket(h) /\ Numbered(so'[h]) /\ Quiet(so'[h]) /\ Timed(so'[h])
    BY <1>1, <1>3, WorkFields DEF Fine
  <2>2. /\ app'[h] = "new" => so'[h].state = "CLOSED"
        /\ app'[h] = "open" => so'[h].state \in OpenState
        /\ app'[h] = "closed" => so'[h].state \in ClosedState
    BY <1>3, <1>6 DEF Local, Safe
  <2>3. blocked'[h] => app'[h] = "open" /\ op'[h] \in Queue /\ Waiting(h, op'[h], Begin(h)')
    BY <1>7
  <2> QED  BY <2>1, <2>2, <2>3 DEF Local
<1> QED
  BY <1>3, <1>4, <1>5, <1>8

\* A segment reaches a host.
LEMMA ProcessInv ==
    ASSUME NEW h \in Host, IInv, NEW m \in Out(Peer(h)), NEW n, InFlightOK(n), Process(h, m, n)
    PROVE  IInv'
<1>1. Types /\ Local(h) /\ \A g \in Host : Local(g)
  BY DEF IInv
<1> DEFINE x == Begin(h)
<1>2. Fine(h, x) /\ x.s = so[h] /\ Timed(x.s)
  BY <1>1, BeginFine
<1>3. app[h] = "new" => so[h].state = "CLOSED"
  BY <1>1 DEF Local
<1>4. UNCHANGED <<op, app, sent>> /\ m \in Msg
  BY DEF Process, Out
<1>5. PICK y : Commit(y, n) /\ Safe(h, x, y) /\ (app[h] = "new" => y.s.state = "CLOSED")
  <2>1. CASE Found(h)
    <3> DEFINE y == NutTcpStateProcess(x, m)
    <3>1. so[h].state \notin {"CLOSED", "DESTROY", "FREE"}
      BY <2>1 DEF Found
    <3>2. Commit(y, n)
      BY <2>1 DEF Process
    <3> HIDE DEF x
    <3>3. Safe(h, x, y)
      BY <1>2, <3>1, ProcessSafe
    <3> HIDE DEF y
    <3> QED  BY <1>3, <3>1, <3>2, <3>3
  <2>2. CASE ~Found(h)
    <3> DEFINE r == NutTcpReject(x, m)
    <3>1. Commit(x, n) \/ Commit(r, n)
      BY <2>2 DEF Process
    <3> HIDE DEF x
    <3>2. Fine(h, r) /\ Same(x, r)
      BY <1>2, <1>4, RejectFine
    <3> HIDE DEF r
    <3>3. Safe(h, x, r) /\ r.s.state = x.s.state
      BY <1>2, <3>2, SameSafe DEF Same
    <3>4. Safe(h, x, x)
      BY <1>2 DEF Safe
    <3> QED  BY <1>2, <1>3, <3>1, <3>3, <3>4
  <2> QED  BY <2>1, <2>2
<1> HIDE DEF x
<1>6. /\ so' = [g \in Host |-> so'[g]] /\ adv_cnt' \in [Host -> Int]
      /\ blocked' \in [Host -> BOOLEAN] /\ InFlightOK(net') /\ Local(h)'
      /\ \A g \in Host \ {h} : Local(g) => Local(g)'
  BY <1>1, <1>4, <1>5, CommitLocal DEF x
<1>7. backlog' \subseteq Msg
  BY <1>1, <1>4 DEF Process, NutTcpBacklogAdd, Types
<1>8. Types'
  BY <1>1, <1>4, <1>6, <1>7 DEF Types, InFlightOK
<1> QED
  BY <1>1, <1>6, <1>8 DEF IInv

\* The oldest segment is taken out of the network or not.
LEMMA NetFine ==
    ASSUME NEW h \in Host, Types, net[h] # <<>>
    PROVE  /\ Head(net[h]) \in Out(Peer(h)) /\ InFlightOK(net)
           /\ InFlightOK([net EXCEPT ![h] = Tail(@)])
           /\ InFlightOK([net EXCEPT ![h] = Append(Tail(@), Head(@))])
<1>1. InFlightOK(net)
  BY DEF Types
<1>2. net = [g \in Host |-> net[g]] /\ \A g \in Host : net[g] \in Seq(Out(Peer(g)))
  BY <1>1 DEF InFlightOK
<1>3. Head(net[h]) \in Out(Peer(h)) /\ Tail(net[h]) \in Seq(Out(Peer(h)))
  BY <1>2, HeadTailProperties
<1>4. Append(Tail(net[h]), Head(net[h])) \in Seq(Out(Peer(h)))
  BY <1>3, AppendProperties
<1>5. ASSUME NEW r \in Seq(Out(Peer(h)))
      PROVE  InFlightOK([net EXCEPT ![h] = r])
  <2> DEFINE n == [net EXCEPT ![h] = r]
  <2>1. n = [g \in Host |-> IF g = h THEN r ELSE net[g]]
    BY <1>2
  <2> HIDE DEF n
  <2> QED  BY <1>2, <2>1 DEF InFlightOK, n
<1> QED
  BY <1>1, <1>3, <1>4, <1>5

\* The network: delivery, a copy, loss, another order, and its end.
LEMMA NetInv ==
    ASSUME NEW h \in Host, IInv, Deliver(h) \/ Duplicate(h) \/ Lose(h) \/ Overtake(h) \/ Disconnect
    PROVE  IInv'
<1>1. Types /\ \A g \in Host : Local(g)
  BY DEF IInv
<1>2. CASE Deliver(h)
  <2> DEFINE n == [net EXCEPT ![h] = Tail(@)]
             m == Head(net[h])
  <2>1. net[h] # <<>> /\ Process(h, m, n)
    BY <1>2 DEF Deliver
  <2>2. m \in Out(Peer(h)) /\ InFlightOK(n)
    BY <1>1, <2>1, NetFine
  <2> HIDE DEF n, m
  <2> QED  BY <2>1, <2>2, ProcessInv
<1>3. CASE Duplicate(h)
  <2> DEFINE m == Head(net[h])
  <2>1. net[h] # <<>> /\ Process(h, m, net)
    BY <1>3 DEF Duplicate
  <2>2. m \in Out(Peer(h)) /\ InFlightOK(net)
    BY <1>1, <2>1, NetFine
  <2> HIDE DEF m
  <2> QED  BY <2>1, <2>2, ProcessInv
<1>4. ASSUME InFlightOK(net'), UNCHANGED <<so, op, blocked, app, sent, backlog, adv_cnt>>
      PROVE  IInv'
  <2>1. \A g \in Host : Local(g)'
    BY <1>1, <1>4, LocalKept
  <2>2. Types'
    BY <1>1, <1>4 DEF Types, InFlightOK
  <2> QED  BY <2>1, <2>2 DEF IInv
<1>5. CASE Lose(h)
  <2>1. net[h] # <<>> /\ net' = [net EXCEPT ![h] = Tail(@)]
    BY <1>5 DEF Lose
  <2>2. InFlightOK(net')
    BY <1>1, <2>1, NetFine
  <2> QED  BY <1>4, <1>5, <2>2 DEF Lose
<1>6. CASE Overtake(h)
  <2>1. net[h] # <<>> /\ net' = [net EXCEPT ![h] = Append(Tail(@), Head(@))]
    BY <1>6 DEF Overtake
  <2>2. InFlightOK(net')
    BY <1>1, <2>1, NetFine
  <2> QED  BY <1>4, <1>6, <2>2 DEF Overtake
<1>7. CASE Disconnect
  <2>1. net' = [g \in Host |-> <<>>]
    BY <1>7 DEF Disconnect
  <2>2. InFlightOK(net')
    BY <2>1 DEF InFlightOK
  <2> QED  BY <1>4, <1>7, <2>2 DEF Disconnect
<1> QED
  BY <1>2, <1>3, <1>5, <1>6, <1>7

\* NutTcpSm looks at the timers of a socket.
LEMMA TimerInv ==
    ASSUME NEW h \in Host, IInv, NEW due \in BOOLEAN, NEW over \in BOOLEAN, TimerPass(h, due, over)
    PROVE  IInv'
<1> DEFINE x == Begin(h)
           a == SendDelayedAck(x)
           b == IF due /\ a.s.nbq # <<>> THEN NutTcpStateRetranTimeout(a) ELSE a
           y == IF over THEN StateOver(b) ELSE b
<1>1. Types /\ Local(h) /\ \A g \in Host : Local(g)
  BY DEF IInv
<1>2. Fine(h, x) /\ x.s = so[h] /\ Timed(x.s)
  BY <1>1, BeginFine
<1>3. so[h].state # "FREE" /\ Commit(y, net) /\ UNCHANGED <<op, app, sent, backlog>>
  BY DEF TimerPass
<1>4. (app[h] = "new" => so[h].state = "CLOSED") /\ InFlightOK(net)
  BY <1>1 DEF Local, Types
<1> HIDE DEF x
<1>5. Safe(h, x, y) /\ (x.s.state = "CLOSED" => y.s.state = "CLOSED")
  BY <1>2, <1>3, TimerSafe
<1> HIDE DEF y
<1>6. app[h] = "new" => y.s.state = "CLOSED"
  BY <1>2, <1>4, <1>5
<1>7. /\ so' = [g \in Host |-> so'[g]] /\ adv_cnt' \in [Host -> Int]
      /\ blocked' \in [Host -> BOOLEAN] /\ InFlightOK(net') /\ Local(h)'
      /\ \A g \in Host \ {h} : Local(g) => Local(g)'
  BY <1>1, <1>3, <1>4, <1>5, <1>6, CommitLocal DEF x
<1>8. Types'
  BY <1>1, <1>3, <1>7 DEF Types, InFlightOK
<1> QED
  BY <1>1, <1>7, <1>8 DEF IInv

\* NutTcpBacklogTimer
LEMMA BacklogInv ==
    ASSUME IInv, BacklogOver
    PROVE  IInv'
<1>1. PICK m \in backlog : /\ Commit(NutTcpReject(Begin(server), m), net) /\ backlog' = {}
                           /\ UNCHANGED <<op, app, sent>>
  BY DEF BacklogOver
<1> DEFINE h == server
           x == Begin(h)
           y == NutTcpReject(x, m)
<1>2. h \in Host
  BY DEF Host
<1>3. Commit(y, net)
  BY <1>1
<1> HIDE DEF h
<1>4. Types /\ Local(h) /\ \A g \in Host : Local(g)
  BY <1>2 DEF IInv
<1>5. Fine(h, x) /\ x.s = so[h] /\ Timed(x.s)
  BY <1>2, <1>4, BeginFine
<1>6. (app[h] = "new" => so[h].state = "CLOSED") /\ InFlightOK(net) /\ m \in Msg
  BY <1>4 DEF Local, Types
<1> HIDE DEF x
<1>7. Fine(h, y) /\ Same(x, y)
  BY <1>5, <1>6, RejectFine
<1> HIDE DEF y
<1>8. Safe(h, x, y) /\ y.s.state = x.s.state
  BY <1>5, <1>7, SameSafe DEF Same
<1>9. app[h] = "new" => y.s.state = "CLOSED"
  BY <1>5, <1>6, <1>8
<1>10. /\ so' = [g \in Host |-> so'[g]] /\ adv_cnt' \in [Host -> Int]
       /\ blocked' \in [Host -> BOOLEAN] /\ InFlightOK(net') /\ Local(h)'
       /\ \A g \in Host \ {h} : Local(g) => Local(g)'
  BY <1>1, <1>2, <1>3, <1>4, <1>6, <1>8, <1>9, CommitLocal DEF x
<1>11. Types'
  BY <1>1, <1>4, <1>10 DEF Types, InFlightOK
<1> QED
  BY <1>4, <1>10, <1>11 DEF IInv

\* What a call leaves behind when it does not wait.
LEMMA LocalNotBlocked ==
    ASSUME NEW h, so'[h] \in Socket(h), Numbered(so'[h]), Quiet(so'[h]), Timed(so'[h]), ~blocked'[h],
           app'[h] = "new" => so'[h].state = "CLOSED",
           app'[h] = "open" => so'[h].state \in OpenState,
           app'[h] = "closed" => so'[h].state \in ClosedState
    PROVE  Local(h)'
  BY DEF Local

\* NutTcpCreateSocket
LEMMA NewSocketFine ==
    ASSUME NEW h
    PROVE  /\ NewSocket \in Socket(h) /\ NewSocket.una = 0 /\ NewSocket.nxt = 0
           /\ NewSocket.nbq = <<>> /\ NewSocket.flags = {} /\ NewSocket.state = "CLOSED"
<1> DEFINE e == <<>>
           f == {}
           c == "CLOSED"
<1>1. NewSocket = [state |-> c, una |-> 0, nxt |-> 0, rx_isn |-> 0, rx_nxt |-> 0, win |-> 0,
                   wl1 |-> 0, wl2 |-> 0, flags |-> f, nbq |-> e, rx_buf |-> e, rx_nbq |-> e,
                   rx_win |-> RXBSZ, retransmits |-> 0, dup |-> 0]
  BY DEF NewSocket
<1>2. /\ e \in Seq(Nat) /\ e \in Seq(Out(h)) /\ e \in Seq(Kept) /\ f \in SUBSET FlagSet
      /\ c \in OpenState \cup ClosedState /\ RXBSZ \in Nat
  BY TcpAssumption DEF OpenState
<1> HIDE DEF e, f, c
<1>3. /\ NewSocket \in Socket(h) /\ NewSocket.una = 0 /\ NewSocket.nxt = 0
      /\ NewSocket.nbq = e /\ NewSocket.flags = f /\ NewSocket.state = c
  BY <1>1, <1>2 DEF Socket
<1> QED
  BY <1>3 DEF e, f, c

\* NutTcpGarbadgeCollect frees only what its application has closed.
LEMMA CollectInv ==
    ASSUME NEW h \in Host, IInv, NutTcpGarbadgeCollect(h)
    PROVE  IInv'
<1> DEFINE t == [NewSocket EXCEPT !.state = "FREE"]
<1>1. Types /\ Local(h) /\ \A g \in Host : Local(g)
  BY DEF IInv
<1>2. /\ so[h].state = "DESTROY" /\ so' = [so EXCEPT ![h] = t]
      /\ UNCHANGED <<op, blocked, app, sent, net, backlog, adv_cnt>>
  BY DEF NutTcpGarbadgeCollect
<1>3. t \in Socket(h) /\ t.una = 0 /\ t.nxt = 0 /\ t.nbq = <<>> /\ t.flags = {} /\ t.state = "FREE"
  <2> DEFINE n == NewSocket
  <2>1. n \in Socket(h) /\ n.una = 0 /\ n.nxt = 0 /\ n.nbq = <<>> /\ n.flags = {}
    BY NewSocketFine
  <2>2. t = [n EXCEPT !.state = "FREE"] /\ "FREE" \in OpenState \cup ClosedState
    BY DEF ClosedState
  <2> HIDE DEF n, t
  <2>3. /\ t \in Socket(h) /\ t.una = n.una /\ t.nxt = n.nxt /\ t.nbq = n.nbq
        /\ t.flags = n.flags /\ t.state = "FREE"
    BY <2>1, <2>2 DEF Socket
  <2> QED  BY <2>1, <2>3
<1> HIDE DEF t
<1>4. Numbered(t) /\ Quiet(t) /\ Timed(t)
  BY <1>3 DEF Numbered, Quiet, Timed, AckState
<1>5. so' = [g \in Host |-> IF g = h THEN t ELSE so[g]]
  BY <1>1, <1>2 DEF Types
<1>6. app[h] = "closed" /\ ~blocked[h]
  <2>1. "DESTROY" \notin OpenState /\ "DESTROY" # "CLOSED"
    BY DEF OpenState
  <2>2. app[h] \in {"new", "open", "closed"}
    BY <1>1 DEF Types
  <2> QED  BY <1>1, <1>2, <2>1, <2>2 DEF Local
<1>7. so'[h] = t /\ \A g \in Host \ {h} : so'[g] = so[g]
  BY <1>5
<1>8. Local(h)'
  BY <1>2, <1>3, <1>4, <1>6, <1>7, LocalNotBlocked DEF ClosedState
<1>9. \A g \in Host \ {h} : Local(g)'
  BY <1>1, <1>2, <1>7, LocalKept
<1>10. Types'
  BY <1>1, <1>2, <1>5 DEF Types, InFlightOK
<1> QED
  BY <1>8, <1>9, <1>10 DEF IInv

-----------------------------------------------------------------------------
(* Calls of the application                                                *)

\* What a call leaves behind when it waits.
LEMMA LocalBlocked ==
    ASSUME NEW h, so'[h] \in Socket(h), Numbered(so'[h]), Quiet(so'[h]), Timed(so'[h]),
           blocked'[h] = TRUE, app'[h] = "open", so'[h].state \in OpenState, NEW q \in Queue, op'[h] = q,
           q = "recv" => so'[h].state = "ESTABLISHED" /\ so'[h].rx_buf = <<>>,
           q = "send" => so'[h].state = "ESTABLISHED" /\ ~CanSend(so'[h]),
           q = "connect" => h = client /\ so'[h].state = "SYN_SENT",
           q = "accept" => so'[h].state = "LISTEN"
    PROVE  Local(h)'
<1>1. Begin(h)'.s = so'[h] /\ Begin(h)'.accepting = (op'[h] = "accept" /\ blocked'[h])
  BY DEF Begin
<1>2. Waiting(h, q, Begin(h)')
  <2>1. CASE q = "recv"
    BY <1>1, <2>1 DEF Waiting
  <2>2. CASE q = "send"
    BY <1>1, <2>2 DEF Waiting
  <2>3. CASE q = "connect"
    BY <1>1, <2>3 DEF Waiting
  <2>4. CASE q = "accept"
    BY <1>1, <2>4 DEF Waiting
  <2> QED  BY <2>1, <2>2, <2>3, <2>4 DEF Queue
<1> QED
  BY <1>2 DEF Local

\* NutTcpConnect
LEMMA ConnectInv ==
    ASSUME IInv, NutTcpConnect
    PROVE  IInv'
<1> DEFINE h == client
           to == "SYN_SENT"
           x == Begin(h)
           y == NutTcpStateChange(x, to)
<1>1. /\ Store(y, net) /\ app[h] = "new" /\ app' = [app EXCEPT ![h] = "open"]
      /\ op' = [op EXCEPT ![h] = "connect"] /\ blocked' = [blocked EXCEPT ![h] = TRUE]
      /\ UNCHANGED <<sent, backlog>>
  BY DEF NutTcpConnect, Opens, Waits
<1>2. h \in Host /\ h = client
  BY DEF Host
<1>3. CanGo("CLOSED", to) /\ to \in OpenState
  BY Transitions DEF OpenState
<1> HIDE DEF h
<1>4. Types /\ Local(h) /\ \A g \in Host : Local(g)
  BY <1>2 DEF IInv
<1>5. Fine(h, x) /\ x.s = so[h] /\ InFlightOK(net) /\ so[h].state = "CLOSED"
  BY <1>1, <1>2, <1>4, BeginFine DEF Local, Types
<1> HIDE DEF x, to
<1>6. Fine(h, y) /\ y.s.state = to
  BY <1>2, <1>3, <1>5, StateChanged
<1> HIDE DEF y
<1>7. y \in Work(h) /\ y.s \in Socket(h) /\ Numbered(y.s) /\ Quiet(y.s)
  BY <1>6, WorkFields DEF Fine
<1>8. Timed(y.s)
  BY <1>6 DEF Timed, AckState, to
<1>9. /\ so' = [g \in Host |-> so'[g]] /\ so'[h] = y.s /\ adv_cnt' \in [Host -> Int]
      /\ InFlightOK(net')
      /\ \A g \in Host \ {h} : so'[g] = so[g] /\ adv_cnt'[g] = adv_cnt[g]
  BY <1>1, <1>2, <1>4, <1>5, <1>7, StoreFine
<1>10. /\ app' \in [Host -> {"new", "open", "closed"}] /\ app'[h] = "open"
       /\ op' \in [Host -> Queue \cup {"none"}] /\ op'[h] = "connect"
       /\ blocked' \in [Host -> BOOLEAN] /\ blocked'[h] = TRUE
       /\ \A g \in Host \ {h} : app'[g] = app[g] /\ op'[g] = op[g] /\ blocked'[g] = blocked[g]
  BY <1>1, <1>2, <1>4 DEF Types, Queue
<1>11. Local(h)'
  <2>1. "connect" \in Queue
    BY DEF Queue
  <2>2. /\ so'[h] \in Socket(h) /\ Numbered(so'[h]) /\ Quiet(so'[h]) /\ Timed(so'[h])
        /\ so'[h].state \in OpenState /\ so'[h].state = "SYN_SENT"
    BY <1>3, <1>6, <1>7, <1>8, <1>9 DEF to
  <2>3. blocked'[h] = TRUE /\ app'[h] = "open" /\ op'[h] = "connect"
    BY <1>10
  <2> QED  BY <1>2, <2>1, <2>2, <2>3, LocalBlocked
<1>12. \A g \in Host \ {h} : Local(g)'
  BY <1>4, <1>9, <1>10, LocalKept
<1>13. Types'
  BY <1>1, <1>4, <1>9, <1>10 DEF Types, InFlightOK
<1> QED
  BY <1>11, <1>12, <1>13 DEF IInv

\* NutTcpAccept, with and without a SYN in the backlog
LEMMA AcceptInv ==
    ASSUME IInv, NutTcpAccept
    PROVE  IInv'
<1> DEFINE h == server
           to == "LISTEN"
           z == Begin(h)
           x == NutTcpStateChange(z, to)
<1>1. /\ app[h] = "new" /\ app' = [app EXCEPT ![h] = "open"] /\ backlog' = {} /\ UNCHANGED sent
      /\ \/ Store(x, net) /\ op' = [op EXCEPT ![h] = "accept"] /\ blocked' = [blocked EXCEPT ![h] = TRUE]
         \/ \E m \in backlog : Commit(NutTcpStateProcess(x, m), net) /\ UNCHANGED op
  BY DEF NutTcpAccept, Opens, Waits
<1>2. h \in Host /\ Peer(h) = client
  BY TcpAssumption DEF Host, Peer
<1>3. CanGo("CLOSED", to) /\ to \in OpenState /\ to # "SYN_SENT"
  BY Transitions DEF OpenState
<1>4. Msg \subseteq Out(client)
  BY TcpAssumption DEF Out
<1> HIDE DEF h
<1>5. Types /\ Local(h) /\ \A g \in Host : Local(g)
  BY <1>2 DEF IInv
<1>6. Fine(h, z) /\ z.s = so[h] /\ InFlightOK(net) /\ so[h].state = "CLOSED" /\ ~blocked[h]
  BY <1>1, <1>2, <1>5, BeginFine DEF Local, Types
<1> HIDE DEF z, to
<1>7. Fine(h, x) /\ x.s.state = to
  BY <1>2, <1>3, <1>6, StateChanged
<1> HIDE DEF x
<1>8. Timed(x.s) /\ x.s.state = "LISTEN"
  BY <1>7 DEF Timed, AckState, to
<1>9. /\ app' \in [Host -> {"new", "open", "closed"}] /\ app'[h] = "open"
      /\ \A g \in Host \ {h} : app'[g] = app[g]
  BY <1>1, <1>2, <1>5 DEF Types
<1>10. ASSUME NEW y, Fine(h, y), Timed(y.s), Store(y, net), y.s.state \in OpenState
       PROVE  /\ so' = [g \in Host |-> so'[g]] /\ adv_cnt' \in [Host -> Int] /\ InFlightOK(net')
              /\ \A g \in Host \ {h} : so'[g] = so[g] /\ adv_cnt'[g] = adv_cnt[g]
              /\ so'[h] \in Socket(h) /\ Numbered(so'[h]) /\ Quiet(so'[h]) /\ Timed(so'[h])
              /\ so'[h].state \in OpenState /\ so'[h] = y.s
  <2>1. y \in Work(h) /\ y.s \in Socket(h) /\ Numbered(y.s) /\ Quiet(y.s)
    BY <1>10, WorkFields DEF Fine
  <2>2. /\ so' = [g \in Host |-> so'[g]] /\ so'[h] = y.s /\ adv_cnt' \in [Host -> Int]
        /\ InFlightOK(net')
        /\ \A g \in Host \ {h} : so'[g] = so[g] /\ adv_cnt'[g] = adv_cnt[g]
    BY <1>2, <1>5, <1>6, <1>10, <2>1, StoreFine
  <2> QED  BY <1>10, <2>1, <2>2
<1>11. CASE Store(x, net) /\ op' = [op EXCEPT ![h] = "accept"] /\ blocked' = [blocked EXCEPT ![h] = TRUE]
  <2>1. /\ so' = [g \in Host |-> so'[g]] /\ adv_cnt' \in [Host -> Int] /\ InFlightOK(net')
        /\ \A g \in Host \ {h} : so'[g] = so[g] /\ adv_cnt'[g] = adv_cnt[g]
        /\ so'[h] \in Socket(h) /\ Numbered(so'[h]) /\ Quiet(so'[h]) /\ Timed(so'[h])
        /\ so'[h].state \in OpenState /\ so'[h] = x.s
    BY <1>3, <1>7, <1>8, <1>10, <1>11
  <2>2. /\ op' \in [Host -> Queue \cup {"none"}] /\ op'[h] = "accept"
        /\ blocked' \in [Host -> BOOLEAN] /\ blocked'[h] = TRUE
        /\ \A g \in Host \ {h} : op'[g] = op[g] /\ blocked'[g] = blocked[g]
    BY <1>2, <1>5, <1>11 DEF Types, Queue
  <2>3. "accept" \in Queue /\ so'[h].state = "LISTEN"
    BY <1>8, <2>1 DEF Queue
  <2>4. Local(h)'
    BY <1>9, <2>1, <2>2, <2>3, LocalBlocked
  <2>5. \A g \in Host \ {h} : Local(g)'
    BY <1>5, <1>9, <2>1, <2>2, LocalKept
  <2>6. Types'
    BY <1>1, <1>5, <1>9, <2>1, <2>2 DEF Types, InFlightOK
  <2> QED  BY <2>4, <2>5, <2>6 DEF IInv
<1>12. CASE \E m \in backlog : Commit(NutTcpStateProcess(x, m), net) /\ UNCHANGED op
  <2>1. PICK m \in backlog : Commit(NutTcpStateProcess(x, m), net) /\ UNCHANGED op
    BY <1>12
  <2> DEFINE y == NutTcpStateProcess(x, m)
  <2>2. m \in Out(Peer(h))
    BY <1>2, <1>4, <1>5 DEF Types
  <2>3. Safe(h, x, y)
    BY <1>2, <1>7, <1>8, <2>2, ProcessSafe
  <2>4. Commit(y, net) /\ op' = op
    BY <2>1
  <2> HIDE DEF y
  <2>5. Fine(h, y) /\ Timed(y.s) /\ y.s.state \in OpenState /\ y.h = h
    BY <1>3, <1>7, <2>3, WorkFields DEF Safe, Fine
  <2>6. Store(y, net) /\ blocked' = [blocked EXCEPT ![h] = @ /\ op[h] \notin y.wake]
    BY <2>4, <2>5 DEF Commit
  <2>7. /\ so' = [g \in Host |-> so'[g]] /\ adv_cnt' \in [Host -> Int] /\ InFlightOK(net')
        /\ \A g \in Host \ {h} : so'[g] = so[g] /\ adv_cnt'[g] = adv_cnt[g]
        /\ so'[h] \in Socket(h) /\ Numbered(so'[h]) /\ Quiet(so'[h]) /\ Timed(so'[h])
        /\ so'[h].state \in OpenState /\ so'[h] = y.s
    BY <1>10, <2>5, <2>6
  <2>8. /\ blocked' \in [Host -> BOOLEAN] /\ ~blocked'[h]
        /\ \A g \in Host \ {h} : blocked'[g] = blocked[g]
    BY <1>2, <1>5, <1>6, <2>6 DEF Types
  <2>9. Local(h)'
    BY <1>9, <2>7, <2>8, LocalNotBlocked
  <2>10. \A g \in Host \ {h} : Local(g)'
    BY <1>5, <1>9, <2>4, <2>7, <2>8, LocalKept
  <2>11. Types'
    BY <1>1, <1>5, <1>9, <2>4, <2>7, <2>8 DEF Types, InFlightOK
  <2> QED  BY <2>9, <2>10, <2>11 DEF IInv
<1> QED
  BY <1>1, <1>11, <1>12

\* A call that does not wait leaves the socket in a state that suits what the
\* application does with it from now on.
LEMMA CallInv ==
    ASSUME NEW h \in Host, IInv, ~blocked[h], NEW y, Fine(h, y), Timed(y.s), Commit(y, net),
           op' \in [Host -> Queue \cup {"none"}], \A g \in Host \ {h} : op'[g] = op[g],
           app' \in [Host -> {"new", "open", "closed"}], \A g \in Host \ {h} : app'[g] = app[g],
           sent' \in [Host -> Nat], backlog' = backlog,
           \/ app'[h] = "open" /\ y.s.state \in OpenState
           \/ app'[h] = "closed" /\ y.s.state \in ClosedState
    PROVE  IInv'
<1>1. Types /\ InFlightOK(net) /\ \A g \in Host : Local(g)
  BY DEF IInv, Types
<1>2. y \in Work(h) /\ y.s \in Socket(h) /\ Numbered(y.s) /\ Quiet(y.s) /\ y.h = h
  BY WorkFields DEF Fine
<1>3. Store(y, net) /\ blocked' = [blocked EXCEPT ![h] = @ /\ op[h] \notin y.wake]
  BY <1>2 DEF Commit
<1>4. /\ so' = [g \in Host |-> so'[g]] /\ so'[h] = y.s /\ adv_cnt' \in [Host -> Int]
      /\ InFlightOK(net')
      /\ \A g \in Host \ {h} : so'[g] = so[g] /\ adv_cnt'[g] = adv_cnt[g]
  BY <1>1, <1>2, <1>3, StoreFine
<1>5. /\ blocked' \in [Host -> BOOLEAN] /\ ~blocked'[h]
      /\ \A g \in Host \ {h} : blocked'[g] = blocked[g]
  BY <1>1, <1>3 DEF Types
<1>6. /\ so'[h] \in Socket(h) /\ Numbered(so'[h]) /\ Quiet(so'[h]) /\ Timed(so'[h])
      /\ app'[h] = "new" => so'[h].state = "CLOSED"
      /\ app'[h] = "open" => so'[h].state \in OpenState
      /\ app'[h] = "closed" => so'[h].state \in ClosedState
  BY <1>2, <1>4
<1>7. Local(h)'
  BY <1>5, <1>6, LocalNotBlocked
<1>8. \A g \in Host \ {h} : Local(g)'
  BY <1>1, <1>4, <1>5, LocalKept
<1>9. Types'
  BY <1>1, <1>4, <1>5 DEF Types, InFlightOK
<1> QED
  BY <1>7, <1>8, <1>9 DEF IInv

\* A call that leaves the socket alone returns, or waits for data or for room.
LEMMA NoStoreInv ==
    ASSUME NEW h \in Host, IInv, ~blocked[h],
           UNCHANGED <<so, app, sent, net, backlog, adv_cnt>>,
           \/ op' = [op EXCEPT ![h] = "none"] /\ UNCHANGED blocked
           \/ /\ app[h] = "open" /\ so[h].state = "ESTABLISHED"
              /\ blocked' = [blocked EXCEPT ![h] = TRUE]
              /\ \/ op' = [op EXCEPT ![h] = "recv"] /\ so[h].rx_buf = <<>>
                 \/ op' = [op EXCEPT ![h] = "send"] /\ ~CanSend(so[h])
    PROVE  IInv'
<1>1. Types /\ Local(h) /\ \A g \in Host : Local(g)
  BY DEF IInv
<1>2. /\ op' \in [Host -> Queue \cup {"none"}] /\ blocked' \in [Host -> BOOLEAN]
      /\ \A g \in Host \ {h} : op'[g] = op[g] /\ blocked'[g] = blocked[g]
  BY <1>1 DEF Types, Queue
<1>3. \A g \in Host \ {h} : Local(g)'
  BY <1>1, <1>2, LocalKept
<1>4. Types'
  BY <1>1, <1>2 DEF Types, InFlightOK
<1>5. /\ so'[h] \in Socket(h) /\ Numbered(so'[h]) /\ Quiet(so'[h]) /\ Timed(so'[h])
      /\ app'[h] = "new" => so'[h].state = "CLOSED"
      /\ app'[h] = "open" => so'[h].state \in OpenState
      /\ app'[h] = "closed" => so'[h].state \in ClosedState
  BY <1>1 DEF Local
<1>6. Local(h)'
  <2>1. CASE UNCHANGED blocked
    BY <1>5, <2>1, LocalNotBlocked
  <2>2. CASE /\ app[h] = "open" /\ so[h].state = "ESTABLISHED"
             /\ blocked' = [blocked EXCEPT ![h] = TRUE]
             /\ \/ op' = [op EXCEPT ![h] = "recv"] /\ so[h].rx_buf = <<>>
                \/ op' = [op EXCEPT ![h] = "send"] /\ ~CanSend(so[h])
    <3>1. blocked'[h] = TRUE /\ app'[h] = "open" /\ so'[h].state = "ESTABLISHED" /\ so'[h].state \in OpenState
      BY <1>1, <1>5, <2>2 DEF Types
    <3>2. /\ op'[h] \in {"recv", "send"} /\ op'[h] \in Queue
          /\ op'[h] = "recv" => so'[h].rx_buf = <<>>
          /\ op'[h] = "send" => ~CanSend(so'[h])
      BY <1>1, <2>2 DEF Types, Queue
    <3> QED  BY <1>5, <3>1, <3>2, LocalBlocked
  <2> QED  BY <2>1, <2>2
<1> QED
  BY <1>3, <1>4, <1>6 DEF IInv

\* NutTcpConnect and NutTcpAccept return.
LEMMA OpenReturnsInv ==
    ASSUME NEW h \in Host, IInv, OpenReturns(h)
    PROVE  IInv'
  BY NoStoreInv DEF OpenReturns, Returns

\* NutTcpSend
LEMMA SendInv ==
    ASSUME NEW h \in Host, IInv, NutTcpSend(h)
    PROVE  IInv'
<1>1. Types /\ Local(h)
  BY DEF IInv
<1>2. app[h] = "open" /\ ~blocked[h] /\ UNCHANGED <<app, backlog>>
  BY DEF NutTcpSend, Runs
<1>3. CASE /\ op' = [op EXCEPT ![h] = "none"]
           /\ UNCHANGED <<so, blocked, sent, net, adv_cnt>>
  BY <1>2, <1>3, NoStoreInv
<1>4. CASE /\ so[h].state = "ESTABLISHED" /\ ~CanSend(so[h])
           /\ op' = [op EXCEPT ![h] = "send"] /\ blocked' = [blocked EXCEPT ![h] = TRUE]
           /\ UNCHANGED <<so, sent, net, adv_cnt>>
  BY <1>2, <1>4, NoStoreInv
<1>5. CASE /\ so[h].state = "ESTABLISHED"
           /\ Commit(NutTcpOutput(Flag(Begin(h), {"ACK"}), <<sent[h] + 1>>), net)
           /\ sent' = [sent EXCEPT ![h] = @ + 1]
           /\ op' = [op EXCEPT ![h] = "none"]
  <2> DEFINE x == Begin(h)
             f == {"ACK"}
             u == Flag(x, f)
             d == <<sent[h] + 1>>
             y == NutTcpOutput(u, d)
  <2>1. Fine(h, x) /\ x.s = so[h] /\ Timed(x.s)
    BY <1>1, BeginFine
  <2>2. Commit(y, net)
    BY <1>5
  <2>3. f \in SUBSET {"ACK", "FORCE"}
    OBVIOUS
  <2>4. sent[h] \in Nat /\ sent' \in [Host -> Nat]
    BY <1>1, <1>5 DEF Types
  <2>5. d \in Seq(Nat)
    BY <2>4
  <2> HIDE DEF x, f, d
  <2>6. Fine(h, u) /\ Same(x, u)
    BY <2>1, <2>3, FlagFine
  <2> HIDE DEF u
  <2>7. u \in Work(h) /\ Numbered(u.s) /\ Quiet(u.s)
    BY <2>6 DEF Fine
  <2>8. /\ u.s.flags \subseteq {"SYN", "FIN", "ACK", "FORCE"} /\ "SYN" \notin u.s.flags
    BY <2>7 DEF Quiet
  <2>9. Fine(h, y) /\ Same(u, y)
    BY <2>5, <2>7, <2>8, OutputFine
  <2> HIDE DEF y
  <2>10. y.s.state = "ESTABLISHED"
    BY <1>5, <2>1, <2>6, <2>9 DEF Same
  <2>11. y.s.state \in OpenState /\ Timed(y.s)
    BY <2>10 DEF OpenState, Timed, AckState
  <2>12. op' \in [Host -> Queue \cup {"none"}] /\ \A g \in Host \ {h} : op'[g] = op[g]
    BY <1>1, <1>5 DEF Types
  <2>13. /\ app' \in [Host -> {"new", "open", "closed"}] /\ app'[h] = "open"
         /\ \A g \in Host \ {h} : app'[g] = app[g]
    BY <1>1, <1>2 DEF Types
  <2> QED  BY <1>2, <2>2, <2>4, <2>9, <2>11, <2>12, <2>13, CallInv
<1> QED
  BY <1>3, <1>4, <1>5 DEF NutTcpSend, Returns, Waits

\* The end of NutTcpReceive
LEMMA ReceiveUpdateFine ==
    ASSUME NEW h \in Host, NEW x, Fine(h, x), x.s.rx_buf # <<>>
    PROVE  LET y == ReceiveUpdate(x)
           IN  Fine(h, y) /\ y.s.state = x.s.state /\ (x.s.nbq # <<>> => y.s.nbq # <<>>)
<1> DEFINE i == IF x.s.rx_win + 1 > RXBSZ THEN RXBSZ ELSE x.s.rx_win + 1
           b == Tail(x.s.rx_buf)
           t(w) == [x.s EXCEPT !.rx_buf = b, !.rx_win = w]
           u(w) == [x EXCEPT !.s = t(w)]
           v == Flag(u(i), {"ACK", "FORCE"})
           a == Flag(u(i), {"ACK"})
           z == NutTcpOutput(v, <<>>)
           y == ReceiveUpdate(x)
<1>1. /\ x \in Work(h) /\ x.s \in Socket(h) /\ Numbered(x.s) /\ Quiet(x.s)
      /\ x.s.rx_buf \in Seq(Nat) /\ x.s.rx_win \in Nat
  BY WorkFields, SocketFields DEF Fine
<1>2. i \in Nat /\ b \in Seq(Nat)
  BY <1>1, TcpAssumption, HeadTailProperties
<1>3. y = u(x.s.rx_win) \/ y = z \/ y = a
  <2>1. [x EXCEPT !.s.rx_buf = b, !.s.rx_win = i] = u(i)
    <3> HIDE DEF i, b
    <3> QED  BY <1>1 DEF Work
  <2>2. [u(i) EXCEPT !.s.rx_win = x.s.rx_win] = u(x.s.rx_win)
    <3> HIDE DEF i, b
    <3> QED  BY <1>1 DEF Work, Socket
  <2>3. \/ y = [[x EXCEPT !.s.rx_buf = b, !.s.rx_win = i] EXCEPT !.s.rx_win = x.s.rx_win]
        \/ y = NutTcpOutput(Flag([x EXCEPT !.s.rx_buf = b, !.s.rx_win = i], {"ACK", "FORCE"}), <<>>)
        \/ y = Flag([x EXCEPT !.s.rx_buf = b, !.s.rx_win = i], {"ACK"})
    BY DEF ReceiveUpdate
  <2> QED  BY <2>1, <2>2, <2>3
<1> HIDE DEF b, i
<1>4. ASSUME NEW w \in Nat
      PROVE  Fine(h, u(w)) /\ u(w).s.state = x.s.state /\ u(w).s.nbq = x.s.nbq
  <2> DEFINE p == t(w)
             r == u(w)
  <2>1. /\ p \in Socket(h) /\ p.state = x.s.state /\ p.flags = x.s.flags /\ p.una = x.s.una
        /\ p.nxt = x.s.nxt /\ p.nbq = x.s.nbq
    BY <1>1, <1>2 DEF Socket
  <2>2. r = [x EXCEPT !.s = p]
    OBVIOUS
  <2> HIDE DEF t, u, p, r
  <2>3. Numbered(p) /\ Quiet(p)
    BY <1>1, <2>1 DEF Numbered, Quiet
  <2>4. Fine(h, r) /\ r.s = p
    BY <2>1, <2>2, <2>3, PutFine
  <2> QED  BY <2>1, <2>4 DEF r
<1> HIDE DEF u
<1>5. Fine(h, v) /\ Same(u(i), v) /\ Fine(h, a) /\ Same(u(i), a)
  <2> DEFINE f == {"ACK", "FORCE"}
             k == {"ACK"}
  <2>1. f \in SUBSET {"ACK", "FORCE"} /\ k \in SUBSET {"ACK", "FORCE"}
    OBVIOUS
  <2> HIDE DEF f, k
  <2>2. Fine(h, u(i))
    BY <1>2, <1>4
  <2>3. /\ Fine(h, Flag(u(i), f)) /\ Same(u(i), Flag(u(i), f))
        /\ Fine(h, Flag(u(i), k)) /\ Same(u(i), Flag(u(i), k))
    BY <2>1, <2>2, FlagFine
  <2> QED  BY <2>3 DEF f, k
<1> HIDE DEF v, a
<1>6. Fine(h, z) /\ Same(v, z)
  BY <1>5, QuietOutput
<1> HIDE DEF z, y
<1>7. CASE y = u(x.s.rx_win)
  BY <1>1, <1>4, <1>7 DEF y
<1>8. CASE y = z
  <2>1. u(i).s.state = x.s.state /\ u(i).s.nbq = x.s.nbq
    BY <1>2, <1>4
  <2> QED  BY <1>5, <1>6, <1>8, <2>1 DEF Same, Frame, y
<1>9. CASE y = a
  <2>1. u(i).s.state = x.s.state /\ u(i).s.nbq = x.s.nbq
    BY <1>2, <1>4
  <2> QED  BY <1>5, <1>9, <2>1 DEF Same, Frame, y
<1> QED
  BY <1>3, <1>7, <1>8, <1>9

\* NutTcpReceive
LEMMA ReceiveInv ==
    ASSUME NEW h \in Host, IInv, NutTcpReceive(h)
    PROVE  IInv'
<1>1. Types /\ Local(h)
  BY DEF IInv
<1>2. app[h] = "open" /\ ~blocked[h] /\ UNCHANGED <<app, backlog>>
  BY DEF NutTcpReceive, Runs
<1>3. CASE /\ op' = [op EXCEPT ![h] = "none"]
           /\ UNCHANGED <<so, blocked, sent, net, adv_cnt>>
  BY <1>2, <1>3, NoStoreInv
<1>4. CASE /\ so[h].rx_buf = <<>> /\ so[h].state = "ESTABLISHED"
           /\ op' = [op EXCEPT ![h] = "recv"] /\ blocked' = [blocked EXCEPT ![h] = TRUE]
           /\ UNCHANGED <<so, sent, net, adv_cnt>>
  BY <1>2, <1>4, NoStoreInv
<1>5. CASE /\ so[h].rx_buf # <<>> /\ Commit(ReceiveUpdate(Begin(h)), net)
           /\ op' = [op EXCEPT ![h] = "none"] /\ UNCHANGED sent
  <2> DEFINE x == Begin(h)
             y == ReceiveUpdate(x)
  <2>1. Fine(h, x) /\ x.s = so[h] /\ Timed(x.s)
    BY <1>1, BeginFine
  <2>2. Commit(y, net)
    BY <1>5
  <2> HIDE DEF x
  <2>3. Fine(h, y) /\ y.s.state = x.s.state /\ (x.s.nbq # <<>> => y.s.nbq # <<>>)
    BY <1>5, <2>1, ReceiveUpdateFine
  <2> HIDE DEF y
  <2>4. y.s.state \in OpenState /\ Timed(y.s)
    BY <1>1, <1>2, <2>1, <2>3 DEF Local, Timed
  <2>5. op' \in [Host -> Queue \cup {"none"}] /\ \A g \in Host \ {h} : op'[g] = op[g]
    BY <1>1, <1>5 DEF Types
  <2>6. /\ app' \in [Host -> {"new", "open", "closed"}] /\ app'[h] = "open"
        /\ (\A g \in Host \ {h} : app'[g] = app[g]) /\ sent' \in [Host -> Nat]
    BY <1>1, <1>2, <1>5 DEF Types
  <2> QED  BY <1>2, <2>2, <2>3, <2>4, <2>5, <2>6, CallInv
<1> QED
  BY <1>3, <1>4, <1>5 DEF NutTcpReceive, Returns, Waits

\* NutTcpCloseSocket: a FIN is sent and kept, or the socket is destroyed.
LEMMA CloseInv ==
    ASSUME NEW h \in Host, IInv, NutTcpCloseSocket(h)
    PROVE  IInv'
<1> DEFINE x  == Begin(h)
           to == CloseTo(so[h].state)
           y  == NutTcpStateChange(x, to)
<1>1. Types /\ Local(h)
  BY DEF IInv
<1>2. /\ app[h] = "open" /\ ~blocked[h] /\ Commit(y, net)
      /\ app' = [app EXCEPT ![h] = "closed"] /\ UNCHANGED <<op, sent, backlog>>
  BY DEF NutTcpCloseSocket, Runs
<1>3. Fine(h, x) /\ x.s = so[h]
  BY <1>1, BeginFine
<1>4. so[h].state \in OpenState
  BY <1>1, <1>2 DEF Local
<1>5. /\ CanGo(so[h].state, to) /\ to \in ClosedState /\ to # "SYN_SENT"
      /\ to \in AckState => "FIN" \in Transition[so[h].state][to]
  <2>1. CASE so[h].state \in {"LISTEN", "SYN_SENT", "CLOSED"}
    <3>1. to = "DESTROY"
      BY <2>1 DEF CloseTo
    <3> HIDE DEF to
    <3> QED  BY <2>1, <3>1, Transitions DEF ClosedState, AckState
  <2>2. CASE so[h].state \in {"SYN_RECEIVED", "ESTABLISHED"}
    <3>1. to = "FIN_WAIT_1"
      BY <2>2 DEF CloseTo
    <3> HIDE DEF to
    <3> QED  BY <2>2, <3>1, Transitions, CloseSendsFin DEF ClosedState, AckState
  <2>3. CASE so[h].state = "CLOSE_WAIT"
    <3>1. to = "LAST_ACK"
      BY <2>3 DEF CloseTo
    <3> HIDE DEF to
    <3> QED  BY <2>3, <3>1, Transitions, CloseSendsFin DEF ClosedState, AckState
  <2> QED  BY <1>4, <2>1, <2>2, <2>3 DEF OpenState
<1> HIDE DEF x, to
<1>6. /\ Fine(h, y) /\ y.s.state = to
      /\ "FIN" \in Transition[so[h].state][to] => y.s.nbq # <<>>
  BY <1>3, <1>5, StateChanged
<1> HIDE DEF y
<1>7. Timed(y.s) /\ y.s.state \in ClosedState
  BY <1>5, <1>6 DEF Timed
<1>8. /\ op' \in [Host -> Queue \cup {"none"}] /\ (\A g \in Host \ {h} : op'[g] = op[g])
      /\ app' \in [Host -> {"new", "open", "closed"}] /\ app'[h] = "closed"
      /\ (\A g \in Host \ {h} : app'[g] = app[g]) /\ sent' \in [Host -> Nat] /\ backlog' = backlog
  BY <1>1, <1>2 DEF Types
<1> QED
  BY <1>2, <1>6, <1>7, <1>8, CallInv

-----------------------------------------------------------------------------
(* Theorems                                                                *)

\* Both sockets are new.
LEMMA IInvInit == Init => IInv
<1> SUFFICES ASSUME Init PROVE IInv
  OBVIOUS
<1>1. \A h \in Host : so[h] = NewSocket /\ app[h] = "new" /\ blocked[h] = FALSE
  BY DEF Init
<1>2. Types
  BY DEF Init, Types, InFlightOK
<1>3. ASSUME NEW h \in Host
      PROVE  Local(h)
  <2> DEFINE n == NewSocket
  <2>1. n \in Socket(h) /\ n.una = 0 /\ n.nxt = 0 /\ n.nbq = <<>> /\ n.flags = {} /\ n.state = "CLOSED"
    BY NewSocketFine
  <2>2. so[h] = n
    BY <1>1
  <2> HIDE DEF n
  <2>3. Numbered(n) /\ Quiet(n) /\ Timed(n)
    BY <2>1 DEF Numbered, Quiet, Timed, AckState
  <2> QED  BY <1>1, <2>1, <2>2, <2>3 DEF Local
<1> QED
  BY <1>2, <1>3 DEF IInv

\* One case for each action.
LEMMA IInvNext == IInv /\ [Next]_vars => IInv'
<1> SUFFICES ASSUME IInv, [Next]_vars PROVE IInv'
  OBVIOUS
<1>1. ASSUME NEW h \in Host, Deliver(h) \/ Duplicate(h) \/ Lose(h) \/ Overtake(h)
      PROVE  IInv'
  BY <1>1, NetInv
<1>2. ASSUME NEW h \in Host, NEW due \in BOOLEAN, NEW over \in BOOLEAN, TimerPass(h, due, over)
      PROVE  IInv'
  BY <1>2, TimerInv
<1>3. ASSUME NEW h \in Host, NutTcpGarbadgeCollect(h) PROVE IInv'
  BY <1>3, CollectInv
<1>4. ASSUME NEW h \in Host, OpenReturns(h) PROVE IInv'
  BY <1>4, OpenReturnsInv
<1>5. ASSUME NEW h \in Host, NutTcpSend(h) PROVE IInv'
  BY <1>5, SendInv
<1>6. ASSUME NEW h \in Host, NutTcpReceive(h) PROVE IInv'
  BY <1>6, ReceiveInv
<1>7. ASSUME NEW h \in Host, NutTcpCloseSocket(h) PROVE IInv'
  BY <1>7, CloseInv
<1>8. CASE Disconnect
  <2>1. client \in Host
    BY DEF Host
  <2> QED  BY <1>8, <2>1, NetInv
<1>9. CASE BacklogOver
  BY <1>9, BacklogInv
<1>10. CASE NutTcpConnect
  BY <1>10, ConnectInv
<1>11. CASE NutTcpAccept
  BY <1>11, AcceptInv
<1>12. CASE UNCHANGED vars
  <2>1. UNCHANGED <<so, op, blocked, app, sent, net, backlog, adv_cnt>>
    BY <1>12 DEF vars
  <2>2. \A h \in Host : Local(h)'
    BY <2>1, LocalKept DEF IInv
  <2>3. Types'
    BY <2>1 DEF IInv, Types, InFlightOK
  <2> QED  BY <2>2, <2>3 DEF IInv
<1> QED
  BY <1>1, <1>2, <1>3, <1>4, <1>5, <1>6, <1>7, <1>8, <1>9, <1>10, <1>11, <1>12 DEF Next

\* The invariant holds always.
LEMMA IInvAlways == Spec => []IInv
  BY IInvInit, IInvNext, PTL DEF Spec

\* No wake-up is missed (NutEventPost in NutTcpStateProcess, NutTcpStateChange
\* and NutTcpAbortSocket): whatever segments and timeouts a connection meets, an
\* application waits only while what it waits for has not happened.
THEOREM TcpBlockedRightly == Spec => []BlockedRightly
<1>1. IInv => BlockedRightly
  <2> SUFFICES ASSUME IInv, NEW h \in Host, blocked[h]
               PROVE  CASE op[h] = "recv"    -> so[h].state = "ESTABLISHED" /\ so[h].rx_buf = <<>>
                        [] op[h] = "send"    -> so[h].state = "ESTABLISHED" /\ ~CanSend(so[h])
                        [] op[h] = "connect" -> so[h].state = "SYN_SENT"
                        [] op[h] = "accept"  -> so[h].state \in {"LISTEN", "SYN_RECEIVED"}
    BY DEF BlockedRightly
  <2>1. op[h] \in Queue /\ Waiting(h, op[h], Begin(h)) /\ Begin(h).s = so[h]
    BY BeginFine DEF IInv, Local
  <2>2. CASE op[h] = "recv"
    BY <2>1, <2>2 DEF Waiting
  <2>3. CASE op[h] = "send"
    BY <2>1, <2>3 DEF Waiting
  <2>4. CASE op[h] = "connect"
    BY <2>1, <2>4 DEF Waiting
  <2>5. CASE op[h] = "accept"
    BY <2>1, <2>5 DEF Waiting
  <2> QED  BY <2>1, <2>2, <2>3, <2>4, <2>5 DEF Queue
<1> QED
  BY <1>1, IInvAlways, PTL

\* The socket of an application that has not closed it is not destroyed
\* (NutTcpAbortSocket, NutTcpStateChange, NutTcpGarbadgeCollect).
THEOREM TcpNoUseAfterFree == Spec => []NoUseAfterFree
<1>1. IInv => NoUseAfterFree
  BY DEF IInv, Local, OpenState, NoUseAfterFree
<1> QED
  BY <1>1, IInvAlways, PTL

\* A closed socket is always left to a timer (NutTcpStateCloseEvent,
\* NutTcpProcessAck): the last segment sent stays in so_tx_nbq until everything
\* is acknowledged, and then the state is left.
THEOREM TcpClosedIsTimed == Spec => []ClosedIsTimed
<1>1. IInv => ClosedIsTimed
  BY DEF IInv, Local, ClosedState, Timed, ClosedIsTimed
<1> QED
  BY <1>1, IInvAlways, PTL

-----------------------------------------------------------------------------
(* The data on their way                                                   *)

\* Before the connection is established.
EarlyState == {"LISTEN", "SYN_SENT", "SYN_RECEIVED"}

\* What else the data on their way depend on: what the applications have done,
\* and the sequence number of the last SYN of the server.
Worlds ==
    [app : [Host -> {"new", "open", "closed"}], sent : [Host -> Nat],
     got : [Host -> Seq(Nat)], isn : Nat]

\* The initial sequence number of h.
Base(h, w) == IF h = client THEN 0 ELSE w.isn

\* The right edge of the window that a socket offers.
Edge(s) == s.rx_nxt + s.rx_win

\* A segment of h never offered more than the window, with the edge e, has
\* now.  It has one unit of data, which follows from its number and which lies
\* in the window of the peer, with the edge f.  The number of a FIN follows
\* that of all data.
Seg(h, e, f, w) ==
    {m \in Out(h) :
        /\ w.app[h] # "closed" /\ "RST" \notin m.flags => m.ack + m.win <= e
        /\ "SYN" \in m.flags => m.seq <= Base(h, w)
        /\ "FIN" \in m.flags /\ w.app[Peer(h)] # "closed" =>
             w.app[h] = "closed" /\ m.seq = Base(h, w) + w.sent[h] + 1
        /\ m.data # <<>> =>
             /\ m.flags = {"ACK"} /\ m.data = <<m.seq - Base(h, w)>>
             /\ Base(h, w) < m.seq /\ m.seq <= Base(h, w) + w.sent[h]
             /\ w.app[Peer(h)] # "closed" => m.seq + 1 <= f}

Sorted(q) == \A i, j \in 1..Len(q) : i < j => q[i].seq < q[j].seq

\* What a socket in use has received fits into its buffer, and what it keeps
\* in advance will.
Holds(h, s, f, w) ==
    /\ s.rx_win + Len(s.rx_buf) <= RXBSZ
    /\ s.rx_nbq \in Seq(Seg(Peer(h), f, Edge(s), w)) /\ Sorted(s.rx_nbq)

\* What is between h and its peer with the edge f, as far as the socket s knows.
Flow(h, s, f, w) ==
    /\ s.nbq \in Seq(Seg(h, Edge(s), f, w))
    /\ w.app[Peer(h)] # "closed" => s.una + s.win <= f
    /\ w.app[h] # "closed" => Holds(h, s, f, w)

\* The functions keep it up, and never take back what has been offered.
Good(h, x, e, f, w) ==
    /\ Flow(h, x.s, f, w) /\ x.out \in Seq(Seg(h, Edge(x.s), f, w))
    /\ w.app[h] # "closed" => e <= Edge(x.s)

SameRx(s, t) ==
    t.rx_nxt = s.rx_nxt /\ t.rx_win = s.rx_win /\ t.rx_buf = s.rx_buf /\ t.rx_nbq = s.rx_nbq

\* Neither data nor an acknowledgement.
Still(x, y) ==
    /\ SameRx(x.s, y.s) /\ y.s.state = x.s.state
    /\ y.s.una = x.s.una /\ y.s.nxt = x.s.nxt /\ y.s.win = x.s.win

\* The fields of a world.
LEMMA WorldFields ==
    ASSUME NEW w \in Worlds, NEW h \in Host
    PROVE  /\ w.app[h] \in {"new", "open", "closed"} /\ w.sent[h] \in Nat
           /\ w.got[h] \in Seq(Nat) /\ w.isn \in Nat /\ Base(h, w) \in Nat /\ Peer(h) \in Host
           /\ w.app[Peer(h)] \in {"new", "open", "closed"} /\ w.sent[Peer(h)] \in Nat
           /\ w.got[Peer(h)] \in Seq(Nat) /\ Base(Peer(h), w) \in Nat
  BY Peers DEF Worlds, Base

\* A list of segments of one kind is one of segments of a wider kind.
LEMMA SeqMore ==
    ASSUME NEW A, NEW B, A \subseteq B, NEW q \in Seq(A)
    PROVE  q \in Seq(B)
<1>1. /\ Len(q) \in Nat /\ q = [i \in 1..Len(q) |-> q[i]]
      /\ \A i \in 1..Len(q) : q[i] \in A
  BY LenProperties, ElementOfSeq
<1> QED
  BY <1>1, IsASeq

\* What a segment says stays true when the windows move on.
LEMMA SegMore ==
    ASSUME NEW h \in Host, NEW w \in Worlds, NEW e \in Nat, NEW d \in Nat, NEW f \in Nat,
           NEW g \in Nat, w.app[h] # "closed" => e <= d, w.app[Peer(h)] # "closed" => f <= g
    PROVE  Seg(h, e, f, w) \subseteq Seg(h, d, g, w)
<1> SUFFICES ASSUME NEW m \in Seg(h, e, f, w)
             PROVE  m \in Seg(h, d, g, w)
  OBVIOUS
<1>1. m \in Out(h) /\ m.seq \in Nat /\ m.ack \in Nat /\ m.win \in Nat
  BY DEF Seg, Out, Msg
<1> QED
  BY <1>1 DEF Seg

\* The edge of a socket is a number.
LEMMA EdgeNat ==
    ASSUME NEW h, NEW x, Fine(h, x)
    PROVE  /\ x \in Work(h) /\ x.s \in Socket(h) /\ Edge(x.s) \in Nat /\ x.s.rx_nxt \in Nat
           /\ x.s.rx_win \in Nat /\ x.s.una \in Nat /\ x.s.win \in Nat /\ x.s.nxt \in Nat
           /\ x.out \in Seq(Out(h)) /\ x.s.nbq \in Seq(Out(h)) /\ x.s.rx_buf \in Seq(Nat)
           /\ Len(x.s.rx_buf) \in Nat /\ x.s.rx_nbq \in Seq(Kept) /\ Len(x.s.rx_nbq) \in Nat
<1>1. x \in Work(h) /\ x.s \in Socket(h)
  BY WorkFields DEF Fine
<1>2. /\ x.s.rx_nxt \in Nat /\ x.s.rx_win \in Nat /\ x.s.una \in Nat /\ x.s.win \in Nat
      /\ x.s.nxt \in Nat /\ x.out \in Seq(Out(h)) /\ x.s.nbq \in Seq(Out(h))
      /\ x.s.rx_buf \in Seq(Nat) /\ x.s.rx_nbq \in Seq(Kept)
  BY <1>1, WorkFields, SocketFields
<1>3. Len(x.s.rx_buf) \in Nat /\ Len(x.s.rx_nbq) \in Nat
  BY <1>2, LenProperties
<1> QED
  BY <1>1, <1>2, <1>3 DEF Edge

\* A segment without data, SYN or FIN that offers no more than the window.
LEMMA PlainSeg ==
    ASSUME NEW h \in Host, NEW w \in Worlds, NEW e, NEW f, NEW m \in Out(h), m.data = <<>>,
           "SYN" \notin m.flags, "FIN" \notin m.flags,
           "RST" \notin m.flags => m.ack + m.win <= e
    PROVE  m \in Seg(h, e, f, w)
  BY DEF Seg

\* A function that leaves the data received alone.
LEMMA GoodKept ==
    ASSUME NEW h \in Host, NEW w \in Worlds, NEW e, NEW f, NEW x, NEW y, Good(h, x, e, f, w),
           SameRx(x.s, y.s),
           y.s.nbq \in Seq(Seg(h, Edge(x.s), f, w)), y.out \in Seq(Seg(h, Edge(x.s), f, w)),
           w.app[Peer(h)] # "closed" => y.s.una + y.s.win <= f
    PROVE  Good(h, y, e, f, w)
<1>1. Edge(y.s) = Edge(x.s)
  BY DEF SameRx, Edge
<1> QED
  BY <1>1 DEF Good, Flow, Holds, SameRx

-----------------------------------------------------------------------------
(* What the functions do to the data                                       *)

\* Flags to be sent with the next segment.
LEMMA FlagGood ==
    ASSUME NEW h \in Host, NEW w \in Worlds, NEW e, NEW f, NEW x, Fine(h, x), Good(h, x, e, f, w),
           NEW fs \in SUBSET {"ACK", "FORCE"}
    PROVE  Good(h, Flag(x, fs), e, f, w) /\ Still(x, Flag(x, fs))
<1> DEFINE g == x.s.flags \cup fs
           t == [x.s EXCEPT !.flags = g]
           y == Flag(x, fs)
<1>1. x \in Work(h) /\ x.s \in Socket(h)
  BY EdgeNat
<1>2. y = [x EXCEPT !.s = t]
  BY DEF Flag
<1> HIDE DEF g
<1>3. t.nbq = x.s.nbq /\ SameRx(x.s, t) /\ t.state = x.s.state /\ t.una = x.s.una
      /\ t.nxt = x.s.nxt /\ t.win = x.s.win
  BY <1>1 DEF Socket, SameRx
<1>4. y.s = t /\ y.out = x.out
  BY <1>1, <1>2 DEF Work
<1> HIDE DEF t, y
<1>5. Still(x, y)
  BY <1>3, <1>4 DEF Still
<1>6. Good(h, y, e, f, w)
  BY <1>3, <1>4, GoodKept DEF Good, Flow
<1> QED
  BY <1>5, <1>6 DEF y

\* Posting to event queues.
LEMMA WakesGood ==
    ASSUME NEW h \in Host, NEW w, NEW e, NEW f, NEW x, Fine(h, x), Good(h, x, e, f, w), NEW qs
    PROVE  Good(h, Wakes(x, qs), e, f, w) /\ Wakes(x, qs).s = x.s
<1>1. x \in Work(h)
  BY EdgeNat
<1>2. Wakes(x, qs).s = x.s /\ Wakes(x, qs).out = x.out
  BY <1>1 DEF Wakes, Work
<1> QED
  BY <1>2 DEF Good

\* A segment is sent.
LEMMA SendsGood ==
    ASSUME NEW h \in Host, NEW w, NEW e, NEW f, NEW x, Fine(h, x), Good(h, x, e, f, w),
           NEW m \in Seg(h, Edge(x.s), f, w)
    PROVE  Good(h, Sends(x, m), e, f, w) /\ Sends(x, m).s = x.s
<1>1. x \in Work(h)
  BY EdgeNat
<1>2. Sends(x, m).s = x.s /\ Sends(x, m).out = Append(x.out, m)
  BY <1>1 DEF Sends, Work
<1>3. Append(x.out, m) \in Seq(Seg(h, Edge(x.s), f, w))
  BY AppendProperties DEF Good
<1> QED
  BY <1>2, <1>3 DEF Good

\* What NutTcpOutput makes of a socket: the flags that control the connection,
\* the segment, and whether it has a sequence number.
Ctl(s, data) ==
    IF "SYN" \in s.flags THEN {"SYN"} ELSE IF data # <<>> THEN {} ELSE s.flags \cap {"FIN"}

Made(s, data) ==
    [flags |-> Ctl(s, data) \cup (IF data # <<>> \/ "ACK" \in s.flags THEN {"ACK"} ELSE {}),
     seq |-> s.nxt, ack |-> IF data # <<>> \/ "ACK" \in s.flags THEN s.rx_nxt ELSE 0,
     data |-> IF Ctl(s, data) = {} THEN data ELSE <<>>, win |-> s.rx_win]

\* NutTcpOutput
LEMMA OutputIs ==
    ASSUME NEW h \in Host, NEW x \in Work(h), NEW data
    PROVE  LET y == NutTcpOutput(x, data)
               k == Ctl(x.s, data) # {} \/ data # <<>>
               m == Made(x.s, data)
           IN  IF data = <<>> /\ x.s.flags \cap {"SYN", "FIN", "FORCE"} = {} THEN y = x
               ELSE /\ SameRx(x.s, y.s) /\ y.s.state = x.s.state /\ y.s.una = x.s.una
                    /\ y.s.win = x.s.win /\ y.s.nxt = (IF k THEN x.s.nxt + 1 ELSE x.s.nxt)
                    /\ y.s.nbq = (IF k THEN Append(x.s.nbq, m) ELSE x.s.nbq)
                    /\ y.out = Append(x.out, m)
<1> DEFINE s == x.s
           y == NutTcpOutput(x, data)
           k == Ctl(x.s, data) # {} \/ data # <<>>
           m == Made(x.s, data)
           g == s.flags \ (m.flags \cup {"FORCE"})
           n == IF k THEN s.nxt + 1 ELSE s.nxt
           q == IF k THEN Append(s.nbq, m) ELSE s.nbq
           t == [s EXCEPT !.flags = g, !.nxt = n, !.nbq = q]
           z == [x EXCEPT !.s = t]
<1>1. CASE data = <<>> /\ s.flags \cap {"SYN", "FIN", "FORCE"} = {}
  BY <1>1 DEF NutTcpOutput
<1>2. CASE ~(data = <<>> /\ s.flags \cap {"SYN", "FIN", "FORCE"} = {})
  <2>1. y = Sends([x EXCEPT !.s.flags = g, !.s.nxt = n, !.s.nbq = q], m)
    BY <1>2 DEF NutTcpOutput, Made, Ctl
  <2> HIDE DEF g, n, q, m, k
  <2>2. [x EXCEPT !.s.flags = g, !.s.nxt = n, !.s.nbq = q] = z
    BY DEF Work
  <2>3. s \in Socket(h)
    BY WorkFields
  <2>4. /\ SameRx(s, t) /\ t.state = s.state /\ t.una = s.una /\ t.win = s.win /\ t.nxt = n
        /\ t.nbq = q
    BY <2>3 DEF Socket, SameRx
  <2> HIDE DEF t
  <2>5. y.s = t /\ y.out = Append(x.out, m)
    BY <2>1, <2>2 DEF Sends, Work
  <2> HIDE DEF y
  <2> QED  BY <1>2, <2>4, <2>5 DEF n, q, m, k, y
<1> QED
  BY <1>1, <1>2

\* NutTcpOutput for an acknowledgement.
LEMMA AckGood ==
    ASSUME NEW h \in Host, NEW w \in Worlds, NEW e, NEW f, NEW x, Fine(h, x), Good(h, x, e, f, w)
    PROVE  Good(h, NutTcpOutput(x, <<>>), e, f, w) /\ Still(x, NutTcpOutput(x, <<>>))
<1> DEFINE y == NutTcpOutput(x, <<>>)
           m == Made(x.s, <<>>)
<1>1. /\ x \in Work(h) /\ x.s.flags \subseteq {"ACK", "FORCE"} /\ x.s \in Socket(h)
      /\ x.s.nxt \in Nat /\ x.s.rx_nxt \in Nat /\ x.s.rx_win \in Nat
  BY EdgeNat DEF Fine, Quiet
<1>2. Ctl(x.s, <<>>) = {}
  BY <1>1 DEF Ctl
<1>3. m \in Seg(h, Edge(x.s), f, w)
  <2> DEFINE fl == IF "ACK" \in x.s.flags THEN {"ACK"} ELSE {}
             ac == IF "ACK" \in x.s.flags THEN x.s.rx_nxt ELSE 0
  <2>1. /\ m = [flags |-> fl, seq |-> x.s.nxt, ack |-> ac, data |-> <<>>, win |-> x.s.rx_win]
        /\ fl \subseteq {"ACK"} /\ ac \in {0, x.s.rx_nxt}
    BY <1>2 DEF Made
  <2> HIDE DEF m, fl, ac
  <2>2. m \in Msg /\ m.data = <<>> /\ "SYN" \notin m.flags /\ "FIN" \notin m.flags
    BY <1>1, <2>1 DEF Msg, FlagSet
  <2>3. m.ack + m.win <= Edge(x.s)
    BY <1>1, <2>1 DEF Edge
  <2> QED  BY <2>2, <2>3, PlainSeg DEF Out
<1>4. \/ y = x
      \/ /\ SameRx(x.s, y.s) /\ y.s.state = x.s.state /\ y.s.una = x.s.una
         /\ y.s.win = x.s.win /\ y.s.nxt = x.s.nxt /\ y.s.nbq = x.s.nbq
         /\ y.out = Append(x.out, m)
  BY <1>1, <1>2, OutputIs
<1> HIDE DEF y, m
<1>5. CASE y = x
  BY <1>5 DEF Still, SameRx, y
<1>6. CASE /\ SameRx(x.s, y.s) /\ y.s.state = x.s.state /\ y.s.una = x.s.una
           /\ y.s.win = x.s.win /\ y.s.nxt = x.s.nxt /\ y.s.nbq = x.s.nbq
           /\ y.out = Append(x.out, m)
  <2>1. y.out \in Seq(Seg(h, Edge(x.s), f, w))
    BY <1>3, <1>6, AppendProperties DEF Good
  <2>2. Good(h, y, e, f, w)
    BY <1>6, <2>1, GoodKept DEF Good, Flow
  <2> QED  BY <1>6, <2>2 DEF Still, y
<1> QED
  BY <1>4, <1>5, <1>6

\* What NutTcpOutput makes without data never offers more than the window.
Offer(s, m) ==
    m.seq = s.nxt /\ m.data = <<>> /\ "RST" \notin m.flags /\ m.ack + m.win <= Edge(s)

\* What NutTcpStateChange does on a transition that the table has.
Changed(h, x, y, to) ==
    LET c == Transition[x.s.state][to] \cap {"SYN", "FIN"}
    IN  /\ SameRx(x.s, y.s) /\ y.s.state = to /\ y.s.una = x.s.una /\ y.s.win = x.s.win
        /\ \E m \in Out(h) :
              /\ Offer(x.s, m) /\ m.flags \cap {"SYN", "FIN"} = c
              /\ IF c = {} THEN /\ y.s.nxt = x.s.nxt /\ y.s.nbq = x.s.nbq
                                /\ y.out \in {x.out, Append(x.out, m)}
                 ELSE /\ y.s.nxt = x.s.nxt + 1 /\ y.s.nbq = Append(x.s.nbq, m)
                      /\ y.out = Append(x.out, m)

\* NutTcpStateChange
LEMMA StateIs ==
    ASSUME NEW h \in Host, NEW x, Fine(h, x), NEW to, CanGo(x.s.state, to),
           h = client \/ to # "SYN_SENT"
    PROVE  Changed(h, x, NutTcpStateChange(x, to), to)
<1> DEFINE fs == Transition[x.s.state][to]
           f  == x.s.flags \cup fs
           t  == [x.s EXCEPT !.state = to, !.flags = f]
           u  == [x EXCEPT !.s = t]
           z  == IF fs = {} THEN u ELSE NutTcpOutput(u, <<>>)
           y  == IF to = "CLOSE_WAIT" THEN Wakes(z, {"recv", "accept", "connect"}) ELSE z
           c  == fs \cap {"SYN", "FIN"}
<1>1. /\ x \in Work(h) /\ x.s \in Socket(h) /\ Quiet(x.s) /\ x.s.nxt \in Nat
      /\ x.s.rx_nxt \in Nat /\ x.s.rx_win \in Nat /\ x.s.flags \in SUBSET FlagSet
  BY EdgeNat, SocketFields DEF Fine
<1>2. /\ to \in OpenState \cup ClosedState /\ fs \subseteq {"SYN", "FIN", "ACK", "FORCE"}
      /\ "SYN" \in fs => "FIN" \notin fs
      /\ to # "SYN_SENT" /\ "SYN" \in fs => "ACK" \in fs
  BY TransitionFlags
<1>3. NutTcpStateChange(x, to) = y
  <2>1. Flag([x EXCEPT !.s.state = to], fs) = u
    <3>1. [x EXCEPT !.s.state = to].s.flags = x.s.flags
      BY <1>1 DEF Work, Socket
    <3>2. Flag([x EXCEPT !.s.state = to], fs) = [[x EXCEPT !.s.state = to] EXCEPT !.s.flags = f]
      BY <3>1 DEF Flag
    <3> HIDE DEF f
    <3>3. [[x EXCEPT !.s.state = to] EXCEPT !.s.flags = f] = u
      BY <1>1 DEF Work
    <3> QED  BY <3>2, <3>3
  <2> QED  BY <2>1 DEF NutTcpStateChange, CanGo
<1> HIDE DEF fs
<1>4. /\ f \in SUBSET FlagSet /\ f \cap {"SYN", "FIN"} = c /\ "RST" \notin f
      /\ h = server /\ "SYN" \in f => "ACK" \in f
      /\ fs = {} => f = x.s.flags
  BY <1>1, <1>2, TcpAssumption DEF Quiet, FlagSet
<1>5. Ctl(t, <<>>) = c /\ c \subseteq {"SYN", "FIN"}
  <2>1. t.flags = f
    BY <1>1 DEF Socket
  <2>2. "SYN" \in f => "FIN" \notin f
    BY <1>1, <1>2 DEF Quiet
  <2> HIDE DEF t, f
  <2> QED  BY <1>4, <2>1, <2>2 DEF Ctl
<1> HIDE DEF f
<1>6. /\ t \in Socket(h) /\ t.state = to /\ t.flags = f /\ t.una = x.s.una /\ t.win = x.s.win
      /\ t.nxt = x.s.nxt /\ t.nbq = x.s.nbq /\ SameRx(x.s, t)
  BY <1>1, <1>2, <1>4 DEF Socket, SameRx
<1> HIDE DEF t
<1>7. u \in Work(h) /\ u.s = t /\ u.out = x.out
  BY <1>1, <1>6, PutSocket
<1> HIDE DEF u, c
<1> DEFINE m == Made(t, <<>>)
<1>8. m \in Out(h) /\ Offer(x.s, m) /\ m.flags \cap {"SYN", "FIN"} = c
  <2> DEFINE fl == c \cup (IF "ACK" \in f THEN {"ACK"} ELSE {})
             ac == IF "ACK" \in f THEN x.s.rx_nxt ELSE 0
             e  == <<>>
  <2>1. m = [flags |-> fl, seq |-> x.s.nxt, ack |-> ac, data |-> e, win |-> x.s.rx_win]
    BY <1>5, <1>6 DEF Made, SameRx
  <2>2. /\ fl \in SUBSET FlagSet /\ "RST" \notin fl /\ ac \in {0, x.s.rx_nxt} /\ e \in Seq(Nat)
        /\ fl \cap {"SYN", "FIN"} = c /\ (h = server /\ "SYN" \in fl => "ACK" \in fl)
    BY <1>4, <1>5 DEF FlagSet
  <2> HIDE DEF fl, ac, m, e
  <2>3. m \in Msg /\ m.flags = fl /\ m.seq = x.s.nxt /\ m.ack = ac /\ m.win = x.s.rx_win /\ m.data = e
    BY <1>1, <2>1, <2>2 DEF Msg
  <2>4. m.ack + m.win <= Edge(x.s)
    BY <1>1, <2>2, <2>3 DEF Edge
  <2> QED  BY <2>2, <2>3, <2>4 DEF Out, Offer, e
<1> HIDE DEF m
<1>9. /\ SameRx(x.s, z.s) /\ z.s.state = to /\ z.s.una = x.s.una /\ z.s.win = x.s.win
      /\ IF c = {} THEN /\ z.s.nxt = x.s.nxt /\ z.s.nbq = x.s.nbq
                        /\ z.out \in {x.out, Append(x.out, m)}
         ELSE /\ z.s.nxt = x.s.nxt + 1 /\ z.s.nbq = Append(x.s.nbq, m)
              /\ z.out = Append(x.out, m)
  <2>1. CASE fs = {}
    <3>1. z = u /\ c = {}
      BY <2>1 DEF c
    <3> HIDE DEF z
    <3> QED  BY <1>6, <1>7, <3>1
  <2>2. CASE fs # {}
    <3>1. z = NutTcpOutput(u, <<>>)
      BY <2>2
    <3> HIDE DEF z
    <3>2. IF t.flags \cap {"SYN", "FIN", "FORCE"} = {} THEN z = u
          ELSE /\ SameRx(t, z.s) /\ z.s.state = t.state /\ z.s.una = t.una
               /\ z.s.win = t.win /\ z.s.nxt = (IF c # {} THEN t.nxt + 1 ELSE t.nxt)
               /\ z.s.nbq = (IF c # {} THEN Append(t.nbq, m) ELSE t.nbq)
               /\ z.out = Append(u.out, m)
      BY <1>5, <1>7, <3>1, OutputIs DEF m
    <3>3. t.flags \cap {"SYN", "FIN", "FORCE"} = {} => c = {}
      BY <1>4, <1>6
    <3> QED  BY <1>6, <1>7, <3>2, <3>3 DEF SameRx
  <2> QED  BY <2>1, <2>2
<1>10. y.s = z.s /\ y.out = z.out
  <2>1. z \in Work(h)
    <3>1. Fine(h, NutTcpStateChange(x, to))
      BY StateChanged
    <3>2. CASE to # "CLOSE_WAIT"
      BY <1>3, <3>1, <3>2 DEF Fine
    <3>3. CASE to = "CLOSE_WAIT" /\ fs = {}
      BY <1>7, <3>3
    <3>4. CASE to = "CLOSE_WAIT" /\ fs # {}
      <4>1. <<>> \in Seq(Nat) /\ Numbered(u.s)
        BY <1>6, <1>7 DEF Fine, Numbered
      <4>2. Fine(h, NutTcpOutput(u, <<>>))
        BY <1>1, <1>2, <1>4, <1>6, <1>7, <4>1, OutputFine DEF c, f, Quiet
      <4> QED  BY <3>4, <4>2 DEF Fine
    <3> QED  BY <3>2, <3>3, <3>4
  <2> HIDE DEF z
  <2> QED  BY <2>1 DEF Wakes, Work
<1> HIDE DEF y, z
<1> QED
  BY <1>3, <1>8, <1>9, <1>10 DEF Changed, c, fs

\* A transition with neither SYN nor FIN.
LEMMA StateGood ==
    ASSUME NEW h \in Host, NEW w \in Worlds, NEW e, NEW f, NEW x, Fine(h, x), Good(h, x, e, f, w),
           NEW to, CanGo(x.s.state, to), Transition[x.s.state][to] \cap {"SYN", "FIN"} = {},
           h = client \/ to # "SYN_SENT"
    PROVE  LET y == NutTcpStateChange(x, to)
           IN  /\ Good(h, y, e, f, w) /\ SameRx(x.s, y.s) /\ y.s.state = to
               /\ y.s.una = x.s.una /\ y.s.nxt = x.s.nxt /\ y.s.win = x.s.win
<1> DEFINE y == NutTcpStateChange(x, to)
<1>1. /\ SameRx(x.s, y.s) /\ y.s.state = to /\ y.s.una = x.s.una /\ y.s.win = x.s.win
      /\ y.s.nxt = x.s.nxt /\ y.s.nbq = x.s.nbq
      /\ \E m \in Out(h) :
            /\ Offer(x.s, m) /\ m.flags \cap {"SYN", "FIN"} = {}
            /\ y.out \in {x.out, Append(x.out, m)}
  <2>1. Changed(h, x, y, to)
    BY StateIs
  <2> HIDE DEF y
  <2> QED  BY <2>1 DEF Changed
<1>2. PICK m \in Out(h) :
            /\ Offer(x.s, m) /\ m.flags \cap {"SYN", "FIN"} = {}
            /\ y.out \in {x.out, Append(x.out, m)}
  BY <1>1
<1> HIDE DEF y
<1>3. m \in Seg(h, Edge(x.s), f, w)
  BY <1>2, PlainSeg DEF Offer
<1>4. y.out \in Seq(Seg(h, Edge(x.s), f, w))
  BY <1>2, <1>3, AppendProperties DEF Good
<1>5. Good(h, y, e, f, w)
  BY <1>1, <1>4, GoodKept DEF Good, Flow
<1> QED
  BY <1>1, <1>5 DEF y

\* All data are discarded.
Dropped(x, y) ==
    /\ y.s.rx_nxt = x.s.rx_nxt /\ y.s.rx_win = x.s.rx_win /\ y.s.una = x.s.una
    /\ y.s.nxt = x.s.nxt /\ y.s.win = x.s.win /\ y.out = x.out
    /\ y.s.rx_buf = <<>> /\ y.s.rx_nbq = <<>> /\ y.s.nbq = <<>>

\* A socket whose lists are emptied.
LEMMA DroppedGood ==
    ASSUME NEW h \in Host, NEW w \in Worlds, NEW e, NEW f, NEW x, Fine(h, x), Good(h, x, e, f, w),
           NEW y, Dropped(x, y)
    PROVE  Good(h, y, e, f, w)
<1>1. Edge(y.s) = Edge(x.s)
  BY DEF Dropped, Edge
<1>2. x.s.rx_win \in Nat /\ Len(x.s.rx_buf) \in Nat
  BY EdgeNat
<1>3. Len(<<>>) = 0 /\ Sorted(<<>>) /\ \A S : <<>> \in Seq(S)
  BY DEF Sorted
<1>4. w.app[h] # "closed" => Holds(h, y.s, f, w)
  <2> SUFFICES ASSUME w.app[h] # "closed" PROVE Holds(h, y.s, f, w)
    OBVIOUS
  <2>1. x.s.rx_win + Len(x.s.rx_buf) <= RXBSZ
    BY DEF Good, Flow, Holds
  <2>2. y.s.rx_win + Len(y.s.rx_buf) <= RXBSZ
    BY <1>2, <1>3, <2>1, TcpAssumption DEF Dropped
  <2> QED  BY <1>3, <2>2 DEF Holds, Dropped
<1> QED
  BY <1>1, <1>3, <1>4 DEF Good, Flow, Dropped

\* NutTcpAbortSocket
LEMMA AbortGood ==
    ASSUME NEW h \in Host, NEW w \in Worlds, NEW e, NEW f, NEW x, Fine(h, x), Good(h, x, e, f, w)
    PROVE  LET y == NutTcpAbortSocket(x)
           IN  Good(h, y, e, f, w) /\ Dropped(x, y)
<1> DEFINE st == IF HasClosed(x.s.state) THEN "TIME_WAIT" ELSE "CLOSED"
           qs == {"recv", "send", "accept", "connect"}
           n  == <<>>
           t  == [x.s EXCEPT !.state = st, !.rx_buf = n, !.nbq = n, !.rx_nbq = n]
           u  == [x EXCEPT !.s = t]
           y  == Wakes(u, qs)
<1>1. x \in Work(h) /\ x.s \in Socket(h)
  BY EdgeNat
<1>2. NutTcpAbortSocket(x) = y
  <2> HIDE DEF st
  <2>1. DiscardBuffers([x EXCEPT !.s.state = st]) = u
    BY <1>1 DEF Work, DiscardBuffers
  <2> QED  BY <2>1 DEF NutTcpAbortSocket, st
<1> HIDE DEF st
<1>3. /\ t.rx_nxt = x.s.rx_nxt /\ t.rx_win = x.s.rx_win /\ t.una = x.s.una
      /\ t.nxt = x.s.nxt /\ t.win = x.s.win /\ t.rx_buf = n /\ t.rx_nbq = n /\ t.nbq = n
  BY <1>1 DEF Socket
<1> HIDE DEF t
<1>4. y.s = t /\ y.out = x.out
  BY <1>1 DEF Work, Wakes
<1> HIDE DEF y
<1>5. Dropped(x, y)
  BY <1>3, <1>4 DEF Dropped, n
<1> QED
  BY <1>2, <1>5, DroppedGood

\* The buffers of a socket are released.
LEMMA DiscardGood ==
    ASSUME NEW h \in Host, NEW w \in Worlds, NEW e, NEW f, NEW x, Fine(h, x), Good(h, x, e, f, w)
    PROVE  LET y == DiscardBuffers(x)
           IN  Good(h, y, e, f, w) /\ Dropped(x, y) /\ y.s.state = x.s.state
<1> DEFINE n  == <<>>
           t  == [x.s EXCEPT !.rx_buf = n, !.nbq = n, !.rx_nbq = n]
           y  == DiscardBuffers(x)
<1>1. x \in Work(h) /\ x.s \in Socket(h)
  BY EdgeNat
<1>2. y = [x EXCEPT !.s = t]
  BY <1>1 DEF Work, DiscardBuffers
<1>3. /\ t.rx_nxt = x.s.rx_nxt /\ t.rx_win = x.s.rx_win /\ t.una = x.s.una
      /\ t.nxt = x.s.nxt /\ t.win = x.s.win /\ t.rx_buf = n /\ t.rx_nbq = n /\ t.nbq = n
      /\ t.state = x.s.state
  BY <1>1 DEF Socket
<1> HIDE DEF t
<1>4. y.s = t /\ y.out = x.out
  BY <1>1, <1>2 DEF Work
<1> HIDE DEF y
<1>5. Dropped(x, y)
  BY <1>3, <1>4 DEF Dropped, n
<1> QED
  BY <1>3, <1>4, <1>5, DroppedGood DEF y

\* A segment is repeated, or the socket is given up.
GivenUp(x, y) ==
    /\ y.s.rx_buf = <<>> /\ y.s.nxt = x.s.nxt /\ y.s.una = x.s.una
    /\ y.s.rx_nxt = x.s.rx_nxt /\ y.s.rx_win = x.s.rx_win
    /\ y.s.state = IF HasClosed(x.s.state) THEN "TIME_WAIT" ELSE "CLOSED"

\* NutTcpStateRetranTimeout
LEMMA RetranGood ==
    ASSUME NEW h \in Host, NEW w \in Worlds, NEW e, NEW f, NEW x, Fine(h, x), Good(h, x, e, f, w),
           x.s.nbq # <<>>
    PROVE  LET y == NutTcpStateRetranTimeout(x)
           IN  Good(h, y, e, f, w) /\ (Still(x, y) \/ GivenUp(x, y))
<1> DEFINE r == x.s.retransmits + 1
           t == [x.s EXCEPT !.retransmits = r]
           u == [x EXCEPT !.s = t]
           y == NutTcpStateRetranTimeout(x)
<1>1. /\ x \in Work(h) /\ x.s \in Socket(h) /\ Numbered(x.s) /\ Quiet(x.s)
      /\ x.s.retransmits \in Nat
  BY EdgeNat, SocketFields DEF Fine
<1>2. y = IF x.s.retransmits > TCP_RETRIES_MAX THEN NutTcpAbortSocket(u) ELSE Sends(u, Head(x.s.nbq))
  BY DEF NutTcpStateRetranTimeout
<1>3. r \in Nat
  BY <1>1
<1> HIDE DEF r
<1>4. /\ t \in Socket(h) /\ t.state = x.s.state /\ t.una = x.s.una /\ t.flags = x.s.flags
      /\ t.win = x.s.win /\ t.nxt = x.s.nxt /\ t.nbq = x.s.nbq /\ SameRx(x.s, t)
  BY <1>1, <1>3 DEF Socket, SameRx
<1> HIDE DEF t
<1>5. Numbered(t) /\ Quiet(t)
  BY <1>1, <1>4 DEF Numbered, Quiet
<1>6. Fine(h, u) /\ u.s = t /\ u.out = x.out
  BY <1>1, <1>4, <1>5, PutFine, PutSocket
<1> HIDE DEF u
<1>7. Good(h, u, e, f, w) /\ Still(x, u) /\ Edge(u.s) = Edge(x.s)
  BY <1>4, <1>6, GoodKept DEF Good, Flow, Still, SameRx, Edge
<1>8. Head(x.s.nbq) \in Seg(h, Edge(u.s), f, w)
  BY <1>7 DEF Good, Flow
<1> HIDE DEF y
<1>9. CASE y = NutTcpAbortSocket(u)
  <2>1. Good(h, y, e, f, w) /\ Dropped(u, y)
    BY <1>6, <1>7, <1>9, AbortGood
  <2>2. y.s.state = IF HasClosed(u.s.state) THEN "TIME_WAIT" ELSE "CLOSED"
    BY <1>6, <1>9, AbortFine
  <2> QED  BY <1>4, <1>6, <2>1, <2>2 DEF GivenUp, Dropped, SameRx, y
<1>10. CASE y = Sends(u, Head(x.s.nbq))
  <2>1. Good(h, y, e, f, w) /\ y.s = u.s
    BY <1>6, <1>7, <1>8, <1>10, SendsGood
  <2> QED  BY <1>7, <2>1 DEF Still, y
<1> QED
  BY <1>2, <1>9, <1>10

\* NutTcpReject
LEMMA RejectGood ==
    ASSUME NEW h \in Host, NEW w \in Worlds, NEW e, NEW f, NEW x, Fine(h, x), Good(h, x, e, f, w),
           NEW m \in Msg
    PROVE  Good(h, NutTcpReject(x, m), e, f, w) /\ NutTcpReject(x, m).s = x.s
<1>1. CASE "RST" \in m.flags
  BY <1>1 DEF NutTcpReject
<1>2. CASE "RST" \notin m.flags
  <2> DEFINE a == IF "SYN" \in m.flags THEN m.seq + 1 ELSE m.seq
             n == IF "ACK" \in m.flags
                    THEN [flags |-> {"RST"}, seq |-> m.ack, ack |-> 0, data |-> <<>>, win |-> 0]
                    ELSE [flags |-> {"RST", "ACK"}, seq |-> 0, ack |-> a, data |-> <<>>, win |-> 0]
             y == NutTcpReject(x, m)
  <2>1. y = Sends(x, n)
    BY <1>2 DEF NutTcpReject
  <2>2. a \in Nat /\ m.ack \in Nat
    BY DEF Msg
  <2> HIDE DEF a
  <2>3. n \in Out(h)
    <3>1. [flags |-> {"RST"}, seq |-> m.ack, ack |-> 0, data |-> <<>>, win |-> 0] \in Out(h)
      BY <2>2 DEF Out, Msg, FlagSet
    <3>2. [flags |-> {"RST", "ACK"}, seq |-> 0, ack |-> a, data |-> <<>>, win |-> 0] \in Out(h)
      BY <2>2 DEF Out, Msg, FlagSet
    <3> QED  BY <3>1, <3>2
  <2>4. n.data = <<>> /\ "RST" \in n.flags /\ "SYN" \notin n.flags /\ "FIN" \notin n.flags
    OBVIOUS
  <2> HIDE DEF n, y
  <2>5. n \in Seg(h, Edge(x.s), f, w)
    BY <2>3, <2>4, PlainSeg
  <2> QED  BY <2>1, <2>5, SendsGood DEF y
<1> QED
  BY <1>1, <1>2

-----------------------------------------------------------------------------
(* Data and acknowledgements                                               *)

\* A function that moves the window.
LEMMA GoodMoved ==
    ASSUME NEW h \in Host, NEW w \in Worlds, NEW e \in Nat, NEW f \in Nat, NEW x, NEW y,
           Fine(h, x), Fine(h, y), Good(h, x, e, f, w),
           y.s.nbq = x.s.nbq, y.out = x.out, y.s.una = x.s.una, y.s.win = x.s.win,
           w.app[h] # "closed" => Edge(x.s) <= Edge(y.s) /\ Holds(h, y.s, f, w)
    PROVE  Good(h, y, e, f, w)
<1>1. Edge(x.s) \in Nat /\ Edge(y.s) \in Nat
  BY EdgeNat
<1>2. Seg(h, Edge(x.s), f, w) \subseteq Seg(h, Edge(y.s), f, w)
  BY <1>1, SegMore
<1>3. y.s.nbq \in Seq(Seg(h, Edge(y.s), f, w)) /\ y.out \in Seq(Seg(h, Edge(y.s), f, w))
  BY <1>2, SeqMore DEF Good, Flow
<1> QED
  BY <1>1, <1>3 DEF Good, Flow

\* The segments kept in advance stay in the window.
LEMMA KeptMoved ==
    ASSUME NEW h \in Host, NEW w \in Worlds, NEW f \in Nat, NEW e \in Nat, NEW d \in Nat, e <= d,
           NEW q \in Seq(Seg(Peer(h), f, e, w))
    PROVE  q \in Seq(Seg(Peer(h), f, d, w))
<1>1. Peer(h) \in Host /\ Peer(Peer(h)) = h
  BY Peers
<1>2. Seg(Peer(h), f, e, w) \subseteq Seg(Peer(h), f, d, w)
  BY <1>1, SegMore
<1> QED
  BY <1>2, SeqMore

\* One unit of data is stored.
Stored(x, y, data) ==
    /\ y.s.rx_buf = x.s.rx_buf \o data /\ y.s.rx_nxt = x.s.rx_nxt + 1
    /\ y.s.rx_nbq = x.s.rx_nbq /\ y.s.rx_win = (IF x.s.rx_win = 0 THEN 0 ELSE x.s.rx_win - 1)
    /\ y.s.state = x.s.state /\ y.s.una = x.s.una /\ y.s.nxt = x.s.nxt /\ y.s.win = x.s.win

\* NutTcpProcessAppData
LEMMA AppDataGood ==
    ASSUME NEW h \in Host, NEW w \in Worlds, NEW e \in Nat, NEW f \in Nat, NEW x, Fine(h, x),
           Good(h, x, e, f, w), NEW m \in Msg,
           w.app[h] # "closed" => x.s.rx_win >= 1 /\ Len(m.data) = 1
    PROVE  LET y == NutTcpProcessAppData(x, m)
           IN  Good(h, y, e, f, w) /\ Stored(x, y, m.data)
<1> DEFINE b == x.s.rx_buf \o m.data
           n == x.s.rx_nxt + 1
           rw == IF x.s.rx_win = 0 THEN 0 ELSE x.s.rx_win - 1
           t == [x.s EXCEPT !.rx_buf = b, !.rx_nxt = n, !.rx_win = rw]
           u == [x EXCEPT !.s = t]
           fs == {"ACK"}
           z == Flag(u, fs)
           y == NutTcpOutput(z, <<>>)
<1>1. /\ x \in Work(h) /\ x.s \in Socket(h) /\ Numbered(x.s) /\ Quiet(x.s)
      /\ x.s.rx_buf \in Seq(Nat) /\ x.s.rx_nxt \in Nat /\ x.s.rx_win \in Nat /\ m.data \in Seq(Nat)
      /\ Len(x.s.rx_buf) \in Nat
  BY EdgeNat DEF Fine, Msg
<1>2. b \in Seq(Nat) /\ Len(b) = Len(x.s.rx_buf) + Len(m.data)
  BY <1>1, ConcatProperties
<1>3. n \in Nat /\ rw \in Nat
  BY <1>1
<1>4. NutTcpProcessAppData(x, m) = y
  <2>1. [x EXCEPT !.s.rx_buf = b, !.s.rx_nxt = n, !.s.rx_win = rw] = u
    <3> HIDE DEF b, n, rw
    <3> QED  BY <1>1 DEF Work
  <2>2. NutTcpProcessAppData(x, m) =
          NutTcpOutput(Flag([x EXCEPT !.s.rx_buf = b, !.s.rx_nxt = n, !.s.rx_win = rw], {"ACK"}), <<>>)
    <3>1. /\ [x EXCEPT !.s.rx_buf = b].s.rx_nxt = x.s.rx_nxt
          /\ [x EXCEPT !.s.rx_buf = b, !.s.rx_nxt = n].s.rx_win = x.s.rx_win
      <4> HIDE DEF b, n
      <4> QED  BY <1>1 DEF Work, Socket
    <3> QED  BY <3>1 DEF NutTcpProcessAppData
  <2> QED  BY <2>1, <2>2
<1> HIDE DEF b, n, rw
<1>5. /\ t \in Socket(h) /\ t.state = x.s.state /\ t.flags = x.s.flags /\ t.una = x.s.una
      /\ t.win = x.s.win /\ t.nxt = x.s.nxt /\ t.nbq = x.s.nbq /\ t.rx_buf = b /\ t.rx_nxt = n
      /\ t.rx_win = rw /\ t.rx_nbq = x.s.rx_nbq
  BY <1>1, <1>2, <1>3 DEF Socket
<1> HIDE DEF t
<1>6. Numbered(t) /\ Quiet(t)
  BY <1>1, <1>5 DEF Numbered, Quiet
<1>7. Fine(h, u) /\ u.s = t /\ u.out = x.out
  BY <1>1, <1>5, <1>6, PutFine, PutSocket
<1> HIDE DEF u
<1>8. Stored(x, u, m.data)
  BY <1>5, <1>7 DEF Stored, b, n, rw
<1>9. w.app[h] # "closed" => Edge(u.s) = Edge(x.s) /\ Holds(h, u.s, f, w)
  <2> SUFFICES ASSUME w.app[h] # "closed"
               PROVE  Edge(u.s) = Edge(x.s) /\ Holds(h, u.s, f, w)
    OBVIOUS
  <2>0. x.s.rx_win >= 1 /\ Len(m.data) = 1
    OBVIOUS
  <2>1. rw = x.s.rx_win - 1 /\ Len(b) = Len(x.s.rx_buf) + 1
    <3>1. rw = x.s.rx_win - 1
      BY <1>1, <2>0 DEF rw
    <3> QED  BY <1>1, <1>2, <2>0, <3>1
  <2>2. Edge(u.s) = Edge(x.s)
    <3>1. Edge(u.s) = n + rw
      BY <1>5, <1>7 DEF Edge
    <3>2. (x.s.rx_nxt + 1) + (x.s.rx_win - 1) = x.s.rx_nxt + x.s.rx_win
      <4>1. x.s.rx_nxt \in Int /\ x.s.rx_win \in Int
        BY <1>1
      <4> QED  BY ONLY <4>1
    <3>3. rw = x.s.rx_win - 1 /\ n = x.s.rx_nxt + 1
      BY <2>1 DEF n
    <3>4. n + rw = x.s.rx_nxt + x.s.rx_win
      BY ONLY <3>2, <3>3
    <3> QED  BY <3>1, <3>4 DEF Edge
  <2>3. /\ x.s.rx_win + Len(x.s.rx_buf) <= RXBSZ /\ Sorted(x.s.rx_nbq)
        /\ x.s.rx_nbq \in Seq(Seg(Peer(h), f, Edge(x.s), w))
    BY DEF Good, Flow, Holds
  <2>4. u.s.rx_win + Len(u.s.rx_buf) <= RXBSZ
    <3>1. (x.s.rx_win - 1) + (Len(x.s.rx_buf) + 1) = x.s.rx_win + Len(x.s.rx_buf)
      <4>1. x.s.rx_win \in Int /\ Len(x.s.rx_buf) \in Int
        BY <1>1
      <4> QED  BY ONLY <4>1
    <3>2. rw + Len(b) = x.s.rx_win + Len(x.s.rx_buf)
      BY ONLY <2>1, <3>1
    <3> QED  BY <1>5, <1>7, <2>3, <3>2
  <2> QED  BY <1>5, <1>7, <2>2, <2>3, <2>4 DEF Holds
<1>10. Good(h, u, e, f, w)
  <2>1. Edge(x.s) \in Nat
    BY EdgeNat
  <2> QED  BY <1>5, <1>7, <1>9, <2>1, GoodMoved
<1>11. fs \in SUBSET {"ACK", "FORCE"}
  OBVIOUS
<1> HIDE DEF fs
<1>12. Fine(h, z) /\ Good(h, z, e, f, w) /\ Still(u, z)
  BY <1>7, <1>10, <1>11, FlagFine, FlagGood
<1> HIDE DEF z
<1>13. Good(h, y, e, f, w) /\ Still(z, y)
  BY <1>12, AckGood
<1> HIDE DEF y
<1> QED
  BY <1>4, <1>8, <1>12, <1>13 DEF Still, SameRx, Stored

\* A FIN counts as one unit.
LEMMA BumpGood ==
    ASSUME NEW h \in Host, NEW w \in Worlds, NEW e \in Nat, NEW f \in Nat, NEW x, Fine(h, x),
           Good(h, x, e, f, w)
    PROVE  LET y == [x EXCEPT !.s.rx_nxt = @ + 1]
           IN  /\ Good(h, y, e, f, w) /\ y.s.rx_nxt = x.s.rx_nxt + 1 /\ y.s.rx_buf = x.s.rx_buf
               /\ y.s.state = x.s.state /\ y.s.una = x.s.una /\ y.s.nxt = x.s.nxt
               /\ y.s.win = x.s.win
<1> DEFINE n == x.s.rx_nxt + 1
           t == [x.s EXCEPT !.rx_nxt = n]
           y == [x EXCEPT !.s.rx_nxt = @ + 1]
<1>1. /\ x \in Work(h) /\ x.s \in Socket(h) /\ n \in Nat /\ x.s.rx_nxt \in Nat /\ x.s.rx_win \in Nat
  BY EdgeNat
<1>2. y = [x EXCEPT !.s = t]
  OBVIOUS
<1>3. Fine(h, y)
  BY BumpFine
<1> HIDE DEF n
<1>4. /\ t.state = x.s.state /\ t.una = x.s.una /\ t.rx_nxt = n /\ t.rx_win = x.s.rx_win
      /\ t.win = x.s.win /\ t.nxt = x.s.nxt /\ t.nbq = x.s.nbq /\ t.rx_buf = x.s.rx_buf
      /\ t.rx_nbq = x.s.rx_nbq
  BY <1>1 DEF Socket
<1> HIDE DEF t, y
<1>5. y.s = t /\ y.out = x.out
  BY <1>1, <1>2 DEF Work
<1>6. Edge(x.s) \in Nat /\ Edge(y.s) \in Nat /\ Edge(x.s) <= Edge(y.s)
  BY <1>1, <1>4, <1>5 DEF Edge, n
<1>7. w.app[h] # "closed" => Holds(h, y.s, f, w)
  BY <1>4, <1>5, <1>6, KeptMoved DEF Good, Flow, Holds
<1>8. Good(h, y, e, f, w)
  BY <1>3, <1>4, <1>5, <1>6, <1>7, GoodMoved
<1> QED
  BY <1>4, <1>5, <1>8 DEF n, y

\* The sequence number and the window of a SYN are taken over.
LEMMA ProcessSynGood ==
    ASSUME NEW h \in Host, NEW w \in Worlds, NEW e \in Nat, NEW f \in Nat, NEW x, Fine(h, x),
           Good(h, x, e, f, w), NEW m \in Msg, x.s.rx_nxt <= m.seq + 1,
           w.app[Peer(h)] # "closed" => x.s.una + m.win <= f
    PROVE  LET y == NutTcpProcessSyn(x, m)
           IN  /\ Good(h, y, e, f, w) /\ y.s.rx_nxt = m.seq + 1 /\ y.s.rx_buf = x.s.rx_buf
               /\ y.s.rx_nbq = x.s.rx_nbq /\ y.s.rx_win = x.s.rx_win /\ y.s.state = x.s.state
               /\ y.s.una = x.s.una /\ y.s.nxt = x.s.nxt
<1> DEFINE a == m.seq
           b == m.seq + 1
           v == m.win
           t == [x.s EXCEPT !.rx_isn = a, !.wl1 = a, !.rx_nxt = b, !.win = v]
           y == NutTcpProcessSyn(x, m)
<1>1. /\ x \in Work(h) /\ x.s \in Socket(h) /\ x.s.rx_nxt \in Nat /\ x.s.rx_win \in Nat
      /\ a \in Nat /\ b \in Nat /\ v \in Nat /\ x.s.rx_nxt <= b /\ m.win = v
  BY EdgeNat DEF Msg
<1>2. y = [x EXCEPT !.s = t]
  <2>1. y = [x EXCEPT !.s.rx_isn = a, !.s.wl1 = a, !.s.rx_nxt = b, !.s.win = v]
    BY DEF NutTcpProcessSyn
  <2> HIDE DEF a, b, v, y
  <2> QED  BY <1>1, <2>1 DEF Work
<1>3. Fine(h, y)
  BY ProcessSynFine
<1> HIDE DEF a, b, v
<1>4. /\ t.state = x.s.state /\ t.una = x.s.una /\ t.nxt = x.s.nxt /\ t.nbq = x.s.nbq
      /\ t.rx_buf = x.s.rx_buf /\ t.rx_nbq = x.s.rx_nbq /\ t.rx_win = x.s.rx_win
      /\ t.rx_nxt = b /\ t.win = v
  BY <1>1 DEF Socket
<1> HIDE DEF t, y
<1>5. y.s = t /\ y.out = x.out
  BY <1>1, <1>2 DEF Work
<1>6. Edge(x.s) \in Nat /\ Edge(y.s) \in Nat /\ Edge(x.s) <= Edge(y.s)
  BY <1>1, <1>4, <1>5 DEF Edge
<1>7. w.app[h] # "closed" => Holds(h, y.s, f, w)
  BY <1>4, <1>5, <1>6, KeptMoved DEF Good, Flow, Holds
<1>8. Seg(h, Edge(x.s), f, w) \subseteq Seg(h, Edge(y.s), f, w)
  BY <1>6, SegMore
<1>9. y.s.nbq \in Seq(Seg(h, Edge(y.s), f, w)) /\ y.out \in Seq(Seg(h, Edge(y.s), f, w))
  BY <1>4, <1>5, <1>8, SeqMore DEF Good, Flow
<1>10. Good(h, y, e, f, w)
  BY <1>1, <1>4, <1>5, <1>6, <1>7, <1>9 DEF Good, Flow
<1> QED
  BY <1>4, <1>5, <1>10 DEF b, y

\* The window that a segment offers is taken over.
LEMMA WindowUpdateGood ==
    ASSUME NEW h \in Host, NEW w \in Worlds, NEW e, NEW f, NEW x, Fine(h, x), Good(h, x, e, f, w),
           NEW m \in Msg, m.ack = x.s.una, w.app[Peer(h)] # "closed" => m.ack + m.win <= f
    PROVE  LET y == WindowUpdate(x, m)
           IN  /\ Good(h, y, e, f, w) /\ SameRx(x.s, y.s) /\ y.s.nxt = x.s.nxt
               /\ y.s.state = x.s.state /\ y.s.nbq = x.s.nbq /\ y.s.una = x.s.una
<1> DEFINE a == m.seq
           b == m.ack
           v == m.win
           t == [x.s EXCEPT !.win = v, !.wl1 = a, !.wl2 = b]
           u == [x EXCEPT !.s = t]
           y == WindowUpdate(x, m)
<1>1. x \in Work(h) /\ x.s \in Socket(h)
  BY EdgeNat
<1>2. y = u \/ y = x
  <2>1. y = [x EXCEPT !.s.win = v, !.s.wl1 = a, !.s.wl2 = b] \/ y = x
    BY DEF WindowUpdate
  <2>2. [x EXCEPT !.s.win = v, !.s.wl1 = a, !.s.wl2 = b] = u
    <3> HIDE DEF a, b, v
    <3> QED  BY <1>1 DEF Work
  <2> QED  BY <2>1, <2>2
<1>3. w.app[Peer(h)] # "closed" => x.s.una + v <= f
  OBVIOUS
<1> HIDE DEF a, b, v
<1>4. /\ t.state = x.s.state /\ t.una = x.s.una /\ t.win = v /\ SameRx(x.s, t)
      /\ t.nxt = x.s.nxt /\ t.nbq = x.s.nbq
  BY <1>1 DEF Socket, SameRx
<1> HIDE DEF t
<1>5. u.s = t /\ u.out = x.out
  BY <1>1 DEF Work
<1> HIDE DEF u, y
<1>6. CASE y = x
  BY <1>6 DEF SameRx, y
<1>7. CASE y = u
  <2>1. Good(h, y, e, f, w)
    BY <1>3, <1>4, <1>5, <1>7, GoodKept DEF Good, Flow
  <2> QED  BY <1>4, <1>5, <1>7, <2>1 DEF y
<1> QED
  BY <1>2, <1>6, <1>7

\* An acknowledgement does not concern what has been received, or it makes the
\* code give up, which one with data or a FIN never does.
Acked(x, y, m) ==
    /\ y.s.nxt = x.s.nxt
    /\ \/ SameRx(x.s, y.s) /\ y.s.state = x.s.state
       \/ GivenUp(x, y) /\ m.data = <<>> /\ "FIN" \notin m.flags /\ m.ack = x.s.una

\* An acknowledgement that is repeated.
LEMMA DuplicateAckGood ==
    ASSUME NEW h \in Host, NEW w \in Worlds, NEW e, NEW f, NEW x, Fine(h, x), Good(h, x, e, f, w),
           NEW m \in Msg, m.ack = x.s.una
    PROVE  LET y == DuplicateAck(x, m)
           IN  Good(h, y, e, f, w) /\ Acked(x, y, m)
<1> DEFINE u(n) == [x EXCEPT !.s.dup = n]
           y == DuplicateAck(x, m)
<1>1. x \in Work(h) /\ x.s \in Socket(h) /\ x.s.dup \in Nat /\ Numbered(x.s) /\ Quiet(x.s)
  BY EdgeNat, SocketFields DEF Fine
<1>2. ASSUME NEW n \in Nat
      PROVE  Fine(h, u(n)) /\ Good(h, u(n), e, f, w) /\ Still(x, u(n)) /\ u(n).s.nbq = x.s.nbq
  <2> DEFINE t == [x.s EXCEPT !.dup = n]
             v == u(n)
  <2>1. /\ t \in Socket(h) /\ t.state = x.s.state /\ t.flags = x.s.flags /\ t.una = x.s.una
        /\ t.win = x.s.win /\ t.nxt = x.s.nxt /\ t.nbq = x.s.nbq /\ SameRx(x.s, t)
    BY <1>1 DEF Socket, SameRx
  <2>2. v = [x EXCEPT !.s = t]
    OBVIOUS
  <2> HIDE DEF t, u, v
  <2>3. Numbered(t) /\ Quiet(t)
    BY <1>1, <2>1 DEF Numbered, Quiet
  <2>4. Fine(h, v) /\ v.s = t /\ v.out = x.out
    BY <1>1, <2>1, <2>2, <2>3, PutFine, PutSocket
  <2>5. Good(h, v, e, f, w)
    BY <2>1, <2>4, GoodKept DEF Good, Flow
  <2> QED  BY <2>1, <2>4, <2>5 DEF Still, v
<1>3. \/ y = x \/ y = u(x.s.dup + 1)
      \/ /\ x.s.nbq # <<>> /\ y = NutTcpStateRetranTimeout(u(0))
         /\ m.data = <<>> /\ "FIN" \notin m.flags
  BY DEF DuplicateAck
<1> HIDE DEF u, y
<1>4. CASE y = x
  BY <1>4 DEF Acked, SameRx, y
<1>5. CASE y = u(x.s.dup + 1)
  <2>1. x.s.dup + 1 \in Nat
    BY <1>1
  <2> QED  BY <1>2, <1>5, <2>1 DEF Acked, Still, y
<1>6. CASE /\ x.s.nbq # <<>> /\ y = NutTcpStateRetranTimeout(u(0))
           /\ m.data = <<>> /\ "FIN" \notin m.flags
  <2> DEFINE v == u(0)
  <2>1. Fine(h, v) /\ Good(h, v, e, f, w) /\ Still(x, v) /\ v.s.nbq # <<>>
    BY <1>2, <1>6
  <2> HIDE DEF v
  <2>2. y = NutTcpStateRetranTimeout(v)
    BY <1>6 DEF v
  <2>3. Good(h, y, e, f, w) /\ (Still(v, y) \/ GivenUp(v, y))
    BY <2>1, <2>2, RetranGood
  <2> QED  BY <1>6, <2>1, <2>3 DEF Acked, Still, GivenUp, SameRx, y
<1> QED
  BY <1>3, <1>4, <1>5, <1>6

\* The segments that are not acknowledged yet are some of those there were.
LEMMA UnackedSome ==
    ASSUME NEW S, NEW q \in Seq(S), NEW ack
    PROVE  Unacked(q, ack) \in Seq(S)
<1> DEFINE P == {i \in 1..Len(q) : q[i].seq + 1 > ack}
<1>1. P \in SUBSET (1..Len(q))
  OBVIOUS
<1> HIDE DEF P
<1>2. First(q, P) \in 1..(Len(q) + 1)
  BY <1>1, FirstIs
<1>3. From(q, First(q, P)) \in Seq(S)
  BY <1>2, FromSeq
<1> QED
  BY <1>3 DEF Unacked, P

\* NutTcpProcessAck
LEMMA ProcessAckGood ==
    ASSUME NEW h \in Host, NEW w \in Worlds, NEW e, NEW f, NEW x, Fine(h, x), Good(h, x, e, f, w),
           NEW m \in Msg, w.app[Peer(h)] # "closed" => m.ack + m.win <= f
    PROVE  LET y == NutTcpProcessAck(x, m)
           IN  Good(h, y, e, f, w) /\ Acked(x, y, m)
<1> DEFINE y == NutTcpProcessAck(x, m)
           q == Unacked(x.s.nbq, m.ack)
           a == m.ack
           v == m.win
           t == [x.s EXCEPT !.dup = 0, !.una = a, !.win = v, !.retransmits = 0, !.nbq = q]
           u == [x EXCEPT !.s = t]
           z == WindowUpdate(x, m)
           fs == {"ACK", "FORCE"}
           k == [x EXCEPT !.s.dup = 0, !.s.una = a, !.s.win = v, !.s.retransmits = 0, !.s.nbq = q]
<1>1. x \in Work(h) /\ x.s \in Socket(h) /\ x.s.nxt \in Nat /\ x.s.una \in Nat /\ m.ack \in Nat
  BY EdgeNat DEF Msg
<1>2. \/ y = Flag(x, fs) \/ y = x \/ (m.ack = x.s.una /\ y = DuplicateAck(z, m))
      \/ y = k
  <2>1. [x EXCEPT !.s.dup = 0, !.s.una = a, !.s.win = v, !.s.retransmits = 0].s.nbq = x.s.nbq
    BY <1>1 DEF Work, Socket
  <2>2. y = IF m.ack > x.s.nxt THEN Flag(x, fs) ELSE IF m.ack < x.s.una THEN x
            ELSE IF m.ack = x.s.una THEN DuplicateAck(z, m)
            ELSE k
    BY <2>1 DEF NutTcpProcessAck
  <2> HIDE DEF y, q, a, v, z, fs, k
  <2> QED  BY <2>2
<1>3. k = u
  <2> HIDE DEF a, v, q
  <2> QED  BY <1>1 DEF Work
<1>4. fs \in SUBSET {"ACK", "FORCE"}
  OBVIOUS
<1> HIDE DEF y, u, z, fs, k
<1>5. CASE y = Flag(x, fs)
  BY <1>4, <1>5, FlagGood DEF Still, Acked, y
<1>6. CASE y = x
  BY <1>6 DEF Acked, SameRx, y
<1>7. CASE m.ack = x.s.una /\ y = DuplicateAck(z, m)
  <2>1. Fine(h, z)
    BY WindowUpdateFine DEF z
  <2>2. /\ Good(h, z, e, f, w) /\ SameRx(x.s, z.s) /\ z.s.nxt = x.s.nxt
        /\ z.s.state = x.s.state /\ z.s.una = x.s.una
    BY <1>7, WindowUpdateGood DEF z
  <2>3. Good(h, y, e, f, w) /\ Acked(z, y, m)
    BY <1>7, <2>1, <2>2, DuplicateAckGood
  <2> QED  BY <2>2, <2>3 DEF Acked, SameRx, GivenUp, y
<1>8. CASE y = u
  <2>1. q \in Seq(Seg(h, Edge(x.s), f, w))
    BY UnackedSome DEF Good, Flow
  <2>2. w.app[Peer(h)] # "closed" => a + v <= f
    OBVIOUS
  <2> HIDE DEF a, v, q
  <2>3. /\ t.state = x.s.state /\ t.una = a /\ t.win = v /\ SameRx(x.s, t)
        /\ t.nxt = x.s.nxt /\ t.nbq = q
    BY <1>1 DEF Socket, SameRx
  <2> HIDE DEF t
  <2>4. y.s = t /\ y.out = x.out
    BY <1>1, <1>8 DEF Work, u
  <2>5. Good(h, y, e, f, w)
    BY <2>1, <2>2, <2>3, <2>4, GoodKept DEF Good
  <2> QED  BY <2>3, <2>4, <2>5 DEF Acked, y
<1> QED
  BY <1>2, <1>3, <1>5, <1>6, <1>7, <1>8

-----------------------------------------------------------------------------
(* Segments from the future                                                *)

\* A list with one more element.
LEMMA Inserted ==
    ASSUME NEW S, NEW q \in Seq(S), NEW i \in 1..(Len(q) + 1), NEW m \in S
    PROVE  LET r == InsertAt(q, i, m)
           IN  /\ r \in Seq(S) /\ Len(r) = Len(q) + 1 /\ r[i] = m
               /\ \A j \in 1..(i - 1) : r[j] = q[j]
               /\ \A j \in (i + 1)..(Len(q) + 1) : r[j] = q[j - 1]
<1> DEFINE n == Len(q)
           a == SubSeq(q, 1, i - 1)
           b == SubSeq(q, i, n)
           c == a \o <<m>>
           r == c \o b
<1>1. n \in Nat /\ i \in Nat /\ i >= 1 /\ i <= n + 1 /\ i - 1 \in Int /\ n \in Int /\ 1 \in Int
  BY LenProperties
<1>2. \A j \in 1..n : q[j] \in S
  BY ElementOfSeq
<1>3. (\A j \in 1..(i - 1) : q[j] \in S) /\ (\A j \in i..n : q[j] \in S)
  BY <1>1, <1>2
<1> HIDE DEF n
<1>4. a \in Seq(S) /\ Len(a) = i - 1 /\ \A j \in 1..(i - 1) : a[j] = q[j]
  <2>1. /\ a \in Seq(S) /\ Len(a) = (IF 1 <= i - 1 THEN (i - 1) - 1 + 1 ELSE 0)
        /\ \A j \in 1..((i - 1) - 1 + 1) : a[j] = q[1 + j - 1]
    BY <1>1, <1>3, SubSeqProperties
  <2> HIDE DEF a
  <2> QED  BY <1>1, <2>1
<1>5. b \in Seq(S) /\ Len(b) = n - i + 1 /\ \A j \in 1..(n - i + 1) : b[j] = q[i + j - 1]
  <2>1. /\ b \in Seq(S) /\ Len(b) = (IF i <= n THEN n - i + 1 ELSE 0)
        /\ \A j \in 1..(n - i + 1) : b[j] = q[i + j - 1]
    BY <1>1, <1>3, SubSeqProperties
  <2> HIDE DEF b
  <2> QED  BY <1>1, <2>1
<1> HIDE DEF a, b
<1>6. <<m>> \in Seq(S) /\ Len(<<m>>) = 1 /\ <<m>>[1] = m
  OBVIOUS
<1>7. /\ c \in Seq(S) /\ Len(c) = i /\ c[i] = m
      /\ \A j \in 1..(i - 1) : c[j] = q[j]
  <2>1. /\ c \in Seq(S) /\ Len(c) = Len(a) + Len(<<m>>)
        /\ \A j \in 1..Len(a) : c[j] = a[j]
        /\ \A j \in 1..Len(<<m>>) : c[Len(a) + j] = <<m>>[j]
    BY <1>4, <1>6, ConcatProperties
  <2>2. c[Len(a) + 1] = m
    BY <1>6, <2>1
  <2> HIDE DEF c
  <2> QED  BY <1>1, <1>4, <1>6, <2>1, <2>2
<1> HIDE DEF c
<1>8. /\ r \in Seq(S) /\ Len(r) = Len(c) + Len(b)
      /\ \A j \in 1..Len(c) : r[j] = c[j]
      /\ \A j \in 1..Len(b) : r[Len(c) + j] = b[j]
  BY <1>5, <1>7, ConcatProperties
<1> HIDE DEF r
<1>9. Len(r) = n + 1 /\ r[i] = m /\ \A j \in 1..(i - 1) : r[j] = q[j]
  BY <1>1, <1>5, <1>7, <1>8
<1>10. ASSUME NEW j \in (i + 1)..(n + 1)
       PROVE  r[j] = q[j - 1]
  <2>1. j - i \in 1..(n - i + 1) /\ i + (j - i) = j /\ i + (j - i) - 1 = j - 1
    BY <1>1
  <2>2. r[i + (j - i)] = b[j - i]
    BY <1>5, <1>7, <1>8, <2>1
  <2> QED  BY <1>5, <2>1, <2>2
<1> QED
  BY <1>8, <1>9, <1>10 DEF InsertAt, r, c, a, b, n

\* Between the n numbers of q, in order, r has another one, c, in place i.
Between(q, r, n, i, c) ==
    /\ \A j \in 1..n : q[j].seq \in Nat
    /\ \A j, k \in 1..n : j < k => q[j].seq < q[k].seq
    /\ \A j \in 1..(i - 1) : q[j].seq < c
    /\ i <= n => q[i].seq > c
    /\ r[i].seq = c /\ \A j \in 1..(i - 1) : r[j] = q[j]
    /\ \A j \in (i + 1)..(n + 1) : r[j] = q[j - 1]

\* Such a list is ordered if its new element is in its place.
LEMMA OrderedInsert ==
    ASSUME NEW q, NEW r, NEW n \in Nat, NEW i \in 1..(n + 1), NEW c \in Nat, Between(q, r, n, i, c)
    PROVE  \A j, k \in 1..(n + 1) : j < k => r[j].seq < r[k].seq
<1> USE DEF Between
<1> SUFFICES ASSUME NEW j \in 1..(n + 1), NEW k \in 1..(n + 1), j < k
             PROVE  r[j].seq < r[k].seq
  OBVIOUS
<1>1. ASSUME NEW l \in i..n
      PROVE  l \in 1..n /\ q[l].seq > c
  <2>1. l \in 1..n /\ i \in 1..n /\ i <= n /\ (i = l \/ i < l)
    OBVIOUS
  <2>2. q[l].seq \in Nat /\ q[i].seq \in Nat /\ q[i].seq > c /\ (i < l => q[i].seq < q[l].seq)
    BY <2>1
  <2> QED  BY <2>1, <2>2
<1>2. CASE k < i
  <2>1. j \in 1..(i - 1) /\ k \in 1..(i - 1) /\ j \in 1..n /\ k \in 1..n
    BY <1>2
  <2> QED  BY <2>1
<1>3. CASE k = i
  BY <1>3
<1>4. CASE j = i
  <2>1. k \in (i + 1)..(n + 1) /\ k - 1 \in i..n
    BY <1>4
  <2> QED  BY <1>1, <1>4, <2>1
<1>5. CASE j < i /\ i < k
  <2>1. k \in (i + 1)..(n + 1) /\ k - 1 \in i..n /\ j \in 1..(i - 1) /\ j \in 1..n
    BY <1>5
  <2>2. r[j].seq < c /\ r[k].seq > c /\ r[j].seq \in Nat /\ r[k].seq \in Nat
    BY <1>1, <2>1
  <2> QED  BY <2>2
<1>6. CASE i < j
  <2>1. /\ k \in (i + 1)..(n + 1) /\ k - 1 \in 1..n /\ j \in (i + 1)..(n + 1) /\ j - 1 \in 1..n
        /\ j - 1 < k - 1
    BY <1>6
  <2> QED  BY <2>1
<1> QED
  BY <1>2, <1>3, <1>4, <1>5, <1>6

\* The place where NutTcpStateEstablished links a segment in keeps the order.
LEMMA SortedInsert ==
    ASSUME NEW S, \A m \in S : m.seq \in Nat, NEW q \in Seq(S), Sorted(q), NEW m \in S,
           NEW i, i = First(q, {j \in 1..Len(q) : q[j].seq >= m.seq}),
           ~(i <= Len(q) /\ q[i].seq = m.seq)
    PROVE  InsertAt(q, i, m) \in Seq(S) /\ Sorted(InsertAt(q, i, m))
<1> DEFINE P == {j \in 1..Len(q) : q[j].seq >= m.seq}
           r == InsertAt(q, i, m)
           n == Len(q)
<1>1. n \in Nat /\ P \in SUBSET (1..n) /\ m.seq \in Nat /\ \A j \in 1..n : q[j].seq \in Nat
  <2>1. n \in Nat /\ P \in SUBSET (1..n) /\ \A j \in 1..n : q[j] \in S
    BY LenProperties, ElementOfSeq
  <2> HIDE DEF P, n
  <2> QED  BY <2>1
<1>2. \A j \in P : j \in 1..n /\ q[j].seq >= m.seq
  OBVIOUS
<1>3. \A j \in 1..n : j \notin P => ~(q[j].seq >= m.seq)
  OBVIOUS
<1>4. i = First(q, P) /\ q \in Seq(S)
  OBVIOUS
<1> HIDE DEF P
<1>5. i \in 1..(n + 1) /\ (i <= n => i \in P) /\ \A j \in P : i <= j
  BY ONLY <1>1, <1>4, FirstIs
<1>6. /\ r \in Seq(S) /\ Len(r) = n + 1 /\ r[i] = m
      /\ \A j \in 1..(i - 1) : r[j] = q[j]
      /\ \A j \in (i + 1)..(n + 1) : r[j] = q[j - 1]
  <2>1. m \in S
    OBVIOUS
  <2> QED  BY ONLY <1>4, <1>5, <2>1, Inserted
<1>7. ~(i <= n /\ q[i].seq = m.seq)
  OBVIOUS
<1>8. \A j, k \in 1..n : j < k => q[j].seq < q[k].seq
  BY DEF Sorted
<1> HIDE DEF r, n
<1>9. \A j \in 1..(i - 1) : q[j].seq < m.seq
  <2> SUFFICES ASSUME NEW j \in 1..(i - 1) PROVE q[j].seq < m.seq
    OBVIOUS
  <2>1. j \in 1..n /\ ~(i <= j)
    BY <1>1, <1>5
  <2>2. ~(q[j].seq >= m.seq) /\ q[j].seq \in Nat /\ m.seq \in Nat
    BY <1>1, <1>3, <1>5, <2>1
  <2> QED  BY ONLY <2>2
<1>10. i <= n => q[i].seq > m.seq
  <2>1. i <= n => q[i].seq >= m.seq /\ q[i].seq \in Nat /\ m.seq \in Nat
    BY <1>1, <1>2, <1>5
  <2> QED  BY ONLY <1>7, <2>1
<1>11. Between(q, r, n, i, m.seq)
  BY <1>1, <1>6, <1>8, <1>9, <1>10 DEF Between
<1>12. \A j, k \in 1..(n + 1) : j < k => r[j].seq < r[k].seq
  BY ONLY <1>1, <1>5, <1>11, OrderedInsert
<1> QED
  BY <1>6, <1>12 DEF Sorted, r

\* What InAdvance leaves alone.
Ahead(x, y) ==
    /\ y.s.rx_nxt = x.s.rx_nxt /\ y.s.rx_win = x.s.rx_win /\ y.s.rx_buf = x.s.rx_buf
    /\ y.s.state = x.s.state /\ y.s.una = x.s.una /\ y.s.nxt = x.s.nxt /\ y.s.win = x.s.win

\* A segment from the future is kept.
LEMMA InAdvanceGood ==
    ASSUME NEW h \in Host, NEW w \in Worlds, NEW e \in Nat, NEW f \in Nat, NEW x, Fine(h, x),
           Good(h, x, e, f, w), NEW m \in Msg,
           w.app[h] # "closed" => m \in Seg(Peer(h), f, Edge(x.s), w)
    PROVE  Good(h, InAdvance(x, m), e, f, w) /\ Ahead(x, InAdvance(x, m))
<1> DEFINE q == x.s.rx_nbq
           P == {j \in 1..Len(q) : q[j].seq >= m.seq}
           i == First(q, P)
           r == InsertAt(q, i, m)
           t == [x.s EXCEPT !.rx_nbq = r]
           a == x.adv + 1
           u == [x EXCEPT !.adv = a]
           v == [u EXCEPT !.s = t]
           y == IF m.data = <<>> \/ x.adv + 1 > ADV_MAX THEN x
                ELSE IF i <= Len(q) /\ q[i].seq = m.seq THEN u ELSE v
           g == {"ACK", "FORCE"}
           k == Flag(y, g)
           z == NutTcpOutput(k, <<>>)
<1>1. /\ x \in Work(h) /\ x.s \in Socket(h) /\ Numbered(x.s) /\ Quiet(x.s) /\ x.adv \in Int
      /\ q \in Seq(Kept)
  BY WorkFields, SocketFields DEF Fine
<1>2. InAdvance(x, m) = z
  <2>1. [x EXCEPT !.adv = a, !.s.rx_nbq = r] = v
    <3> HIDE DEF a, r
    <3> QED  BY <1>1 DEF Work
  <2> QED  BY <2>1 DEF InAdvance
<1>3. a \in Int
  BY <1>1
<1>4. \/ y = x \/ y = u
      \/ (y = v /\ m.data # <<>> /\ ~(i <= Len(q) /\ q[i].seq = m.seq))
  OBVIOUS
<1>5. m.data # <<>> => r \in Seq(Kept)
  <2> SUFFICES ASSUME m.data # <<>> PROVE r \in Seq(Kept)
    OBVIOUS
  <2>1. P \in SUBSET (1..Len(q)) /\ m \in Kept
    BY DEF Kept
  <2> HIDE DEF P, q
  <2>2. i \in 1..(Len(q) + 1)
    BY <1>1, <2>1, FirstIs
  <2> HIDE DEF i
  <2> QED  BY <1>1, <2>1, <2>2, Inserted
<1>6. ASSUME w.app[h] # "closed", m.data # <<>>, ~(i <= Len(q) /\ q[i].seq = m.seq)
      PROVE  r \in Seq(Seg(Peer(h), f, Edge(x.s), w)) /\ Sorted(r)
  <2> DEFINE S == Seg(Peer(h), f, Edge(x.s), w)
  <2>1. q \in Seq(S) /\ Sorted(q) /\ m \in S
    BY <1>6 DEF Good, Flow, Holds
  <2>2. \A n \in S : n.seq \in Nat
    BY DEF Seg, Out, Msg
  <2>3. i = First(q, {j \in 1..Len(q) : q[j].seq >= m.seq})
    OBVIOUS
  <2> HIDE DEF S, q, i
  <2>4. r \in Seq(S) /\ Sorted(r)
    BY <1>6, <2>1, <2>2, <2>3, SortedInsert
  <2> QED  BY <2>4 DEF S
<1> HIDE DEF q, i, r, a
<1>7. Fine(h, u) /\ u.s = x.s /\ u.out = x.out
  <2>1. u \in Work(h) /\ u.s = x.s /\ u.out = x.out
    BY <1>1, <1>3 DEF Work
  <2> HIDE DEF u
  <2> QED  BY <1>1, <2>1 DEF Fine
<1> HIDE DEF u
<1>8. Good(h, u, e, f, w)
  BY <1>7 DEF Good
<1> HIDE DEF y
<1>9. CASE y = x \/ y = u
  <2>1. Fine(h, y) /\ Good(h, y, e, f, w) /\ Ahead(x, y)
    BY <1>7, <1>8, <1>9 DEF Ahead
  <2>2. Fine(h, k) /\ Good(h, k, e, f, w) /\ Still(y, k)
    BY <2>1, FlagFine, FlagGood
  <2> HIDE DEF k
  <2>3. Good(h, z, e, f, w) /\ Still(k, z)
    BY <2>2, AckGood
  <2> HIDE DEF z
  <2>4. Ahead(x, z)
    BY <2>1, <2>2, <2>3 DEF Ahead, Still, SameRx
  <2> QED  BY <1>2, <2>3, <2>4
<1>10. CASE y = v /\ m.data # <<>> /\ ~(i <= Len(q) /\ q[i].seq = m.seq)
  <2>1. /\ t \in Socket(h) /\ t.state = x.s.state /\ t.flags = x.s.flags /\ t.una = x.s.una
        /\ t.win = x.s.win /\ t.nxt = x.s.nxt /\ t.nbq = x.s.nbq /\ t.rx_buf = x.s.rx_buf
        /\ t.rx_nxt = x.s.rx_nxt /\ t.rx_win = x.s.rx_win /\ t.rx_nbq = r
    BY <1>1, <1>5, <1>10 DEF Socket
  <2> HIDE DEF t
  <2>2. Numbered(t) /\ Quiet(t)
    BY <1>1, <2>1 DEF Numbered, Quiet
  <2>3. Fine(h, y) /\ y.s = t /\ y.out = u.out
    BY <1>7, <1>10, <2>1, <2>2, PutFine, PutSocket DEF Fine
  <2>4. Edge(y.s) = Edge(x.s) /\ Ahead(x, y)
    BY <2>1, <2>3 DEF Edge, Ahead
  <2>5. w.app[h] # "closed" => Holds(h, y.s, f, w)
    <3> SUFFICES ASSUME w.app[h] # "closed" PROVE Holds(h, y.s, f, w)
      OBVIOUS
    <3>1. r \in Seq(Seg(Peer(h), f, Edge(y.s), w)) /\ Sorted(r)
      BY <1>6, <1>10, <2>4
    <3>2. x.s.rx_win + Len(x.s.rx_buf) <= RXBSZ
      BY DEF Good, Flow, Holds
    <3> QED  BY <2>1, <2>3, <3>1, <3>2 DEF Holds
  <2>6. Good(h, y, e, f, w)
    <3>1. Edge(x.s) \in Nat
      BY EdgeNat
    <3> QED  BY <1>7, <2>1, <2>3, <2>4, <2>5, <3>1, GoodMoved
  <2>7. Fine(h, k) /\ Good(h, k, e, f, w) /\ Still(y, k)
    BY <2>3, <2>6, FlagFine, FlagGood
  <2> HIDE DEF k
  <2>8. Good(h, z, e, f, w) /\ Still(k, z)
    BY <2>7, AckGood
  <2> HIDE DEF z
  <2>9. Ahead(x, z)
    BY <2>4, <2>7, <2>8 DEF Ahead, Still, SameRx
  <2> QED  BY <1>2, <2>8, <2>9
<1> QED
  BY <1>4, <1>9, <1>10

-----------------------------------------------------------------------------
(* The loop over the segments kept in advance                              *)

\* Numbers in order, from c on, grow at least as fast as their places.
LEMMA OrderedGrowth ==
    ASSUME NEW q, NEW n \in Nat, \A j \in 1..n : q[j].seq \in Nat,
           \A j, k \in 1..n : j < k => q[j].seq < q[k].seq,
           NEW c \in Nat, NEW i \in 1..(n + 1), i <= n => q[i].seq >= c
    PROVE  \A j \in i..n : q[j].seq >= c + (j - i)
<1> DEFINE B == {j \in i..n : ~(q[j].seq >= c + (j - i))}
<1> SUFFICES ASSUME B # {} PROVE FALSE
  OBVIOUS
<1>1. B \in SUBSET Nat
  OBVIOUS
<1>2. \A j \in B : j \in i..n /\ ~(q[j].seq >= c + (j - i))
  OBVIOUS
<1>3. \A j \in i..n : j \notin B => q[j].seq >= c + (j - i)
  OBVIOUS
<1> HIDE DEF B
<1>4. PICK b \in B : \A j \in B : b <= j
  BY <1>1, LeastNatural
<1>5. b \in i..n /\ b \in 1..n /\ i <= n /\ q[b].seq \in Nat /\ b \in Nat
  BY <1>2, <1>4
<1>6. CASE b = i
  <2>1. q[b].seq >= c /\ c + (b - i) = c
    BY <1>5, <1>6
  <2> QED  BY <1>2, <1>4, <2>1
<1>7. CASE b # i
  <2>1. b - 1 \in i..n /\ b - 1 \in 1..n /\ b - 1 < b /\ ~(b <= b - 1)
    BY <1>5, <1>7
  <2>2. q[b - 1].seq >= c + ((b - 1) - i) /\ q[b - 1].seq < q[b].seq /\ q[b - 1].seq \in Nat
    BY <1>3, <1>4, <1>5, <2>1
  <2>3. q[b].seq >= c + (b - i)
    BY <1>5, <2>2
  <2> QED  BY <1>2, <1>4, <2>3
<1> QED
  BY <1>6, <1>7

\* In a list in order, those not older than the one expected are the last.
LEMMA NotOlderIs ==
    ASSUME NEW x, x.s.rx_nbq \in Seq(Kept), Sorted(x.s.rx_nbq), x.s.rx_nxt \in Nat,
           NEW i, i = First(x.s.rx_nbq, {j \in 1..Len(x.s.rx_nbq) : x.s.rx_nbq[j].seq >= x.s.rx_nxt}),
           NEW k \in 0..Len(x.s.rx_nbq)
    PROVE  NotOlder(x, k) = IF k < i THEN 0 ELSE k - i + 1
<1> DEFINE q == x.s.rx_nbq
           c == x.s.rx_nxt
           n == Len(q)
           P == {j \in 1..n : q[j].seq >= c}
           T == {j \in 1..k : q[j].seq >= c}
<1>1. n \in Nat /\ \A j \in 1..n : q[j].seq \in Nat
  <2>1. n \in Nat /\ \A j \in 1..n : q[j] \in Kept
    BY LenProperties, ElementOfSeq
  <2> HIDE DEF n, q
  <2> QED  BY <2>1 DEF Kept, Msg
<1>2. P \in SUBSET (1..n) /\ i = First(q, P) /\ q \in Seq(Kept)
  OBVIOUS
<1>3. \A j : j \in P <=> j \in 1..n /\ q[j].seq >= c
  OBVIOUS
<1>4. \A j : j \in T <=> j \in 1..k /\ q[j].seq >= c
  OBVIOUS
<1>5. \A j, l \in 1..n : j < l => q[j].seq < q[l].seq
  BY DEF Sorted
<1>6. NotOlder(x, k) = Cardinality(T) /\ c \in Nat /\ k \in Nat /\ k <= n
  <2>1. k \in Nat /\ k <= n
    BY <1>1
  <2> QED  BY <2>1 DEF NotOlder
<1> HIDE DEF P, T, n, q, c
<1>7. i \in 1..(n + 1) /\ (i <= n => i \in P) /\ \A j \in P : i <= j
  BY ONLY <1>2, FirstIs DEF n
<1>8. \A j : j \in T <=> j \in i..k
  <2> SUFFICES ASSUME NEW j \in 1..k PROVE q[j].seq >= c <=> i <= j
    BY <1>1, <1>4, <1>6, <1>7
  <2>1. j \in 1..n /\ j \in Nat /\ q[j].seq \in Nat
    BY <1>1, <1>6
  <2>2. CASE i <= j
    <3>1. i \in 1..n /\ q[i].seq >= c /\ q[i].seq \in Nat
      BY <1>1, <1>3, <1>7, <2>1, <2>2
    <3>2. i = j \/ q[i].seq < q[j].seq
      BY <1>5, <2>1, <2>2, <3>1
    <3> QED  BY <1>6, <2>1, <2>2, <3>1, <3>2
  <2>3. CASE ~(i <= j)
    BY <1>3, <1>7, <2>1, <2>3
  <2> QED  BY <2>2, <2>3
<1>9. T = i..k
  BY <1>8
<1>10. i \in Int /\ k \in Int /\ i >= 1
  BY <1>1, <1>6, <1>7
<1>11. Cardinality(T) = IF i > k THEN 0 ELSE k - i + 1
  BY <1>9, <1>10, FS_Interval
<1> QED
  BY <1>6, <1>10, <1>11

\* The data received grow by those that come next in the stream.
Took(h, x, y, n, w) ==
    /\ y.s.rx_buf \in Seq(Nat) /\ y.s.rx_nxt = x.s.rx_nxt + n
    /\ Len(y.s.rx_buf) = Len(x.s.rx_buf) + n
    /\ \A j \in 1..Len(x.s.rx_buf) : y.s.rx_buf[j] = x.s.rx_buf[j]
    /\ \A j \in 1..n : y.s.rx_buf[Len(x.s.rx_buf) + j] = (x.s.rx_nxt + j) - (Base(Peer(h), w) + 1)
    /\ n > 0 => /\ x.s.rx_nxt > Base(Peer(h), w)
                /\ x.s.rx_nxt + n <= Base(Peer(h), w) + w.sent[Peer(h)] + 1
    /\ y.s.state = x.s.state /\ y.s.una = x.s.una /\ y.s.nxt = x.s.nxt /\ y.s.win = x.s.win

\* The first segment that Drain does not remove from the list.
DrainEnd(x) ==
    First(x.s.rx_nbq,
          {j \in 1..Len(x.s.rx_nbq) : x.s.rx_nbq[j].seq > x.s.rx_nxt + NotOlder(x, j - 1)})

\* Those it takes, among the ones it removes, are what comes next.
LEMMA DrainTakes ==
    ASSUME NEW h \in Host, NEW w \in Worlds, NEW f \in Nat, NEW x, Fine(h, x),
           w.app[h] # "closed", Holds(h, x.s, f, w)
    PROVE  LET q == x.s.rx_nbq
               i == DrainEnd(x)
               n == NotOlder(x, i - 1)
           IN  /\ i \in 1..(Len(q) + 1) /\ n \in Nat /\ n <= i - 1 /\ n <= x.s.rx_win
               /\ \A j \in (i - n)..(i - 1) : q[j].seq = x.s.rx_nxt + (j - (i - n))
<1> DEFINE q == x.s.rx_nbq
           c == x.s.rx_nxt
           m == Len(q)
           F == {j \in 1..m : q[j].seq >= c}
           a == First(q, F)
           P == {j \in 1..m : q[j].seq > c + NotOlder(x, j - 1)}
           i == First(q, P)
           n == NotOlder(x, i - 1)
<1>1. q \in Seq(Kept) /\ c \in Nat /\ x.s.rx_win \in Nat /\ Edge(x.s) = c + x.s.rx_win
  BY EdgeNat DEF Edge
<1>2. q \in Seq(Seg(Peer(h), f, Edge(x.s), w)) /\ Sorted(q)
  BY DEF Holds
<1>3. m \in Nat /\ \A j \in 1..m : q[j] \in Kept /\ q[j] \in Seg(Peer(h), f, Edge(x.s), w)
  BY <1>1, <1>2, LenProperties, ElementOfSeq
<1>4. F \in SUBSET (1..m) /\ P \in SUBSET (1..m)
  OBVIOUS
<1>5. \A j : j \in F <=> j \in 1..m /\ q[j].seq >= c
  OBVIOUS
<1>6. \A j : j \in P <=> j \in 1..m /\ q[j].seq > c + NotOlder(x, j - 1)
  OBVIOUS
<1>7. ASSUME NEW k \in 0..m
      PROVE  NotOlder(x, k) = IF k < a THEN 0 ELSE k - a + 1
  BY <1>1, <1>2, NotOlderIs
<1>8. \A j, k \in 1..m : j < k => q[j].seq < q[k].seq
  BY <1>2 DEF Sorted
<1> HIDE DEF q, c, F, P
<1>9. a \in 1..(m + 1) /\ (a <= m => a \in F) /\ \A j \in F : a <= j
  BY <1>1, <1>4, FirstIs
<1>10. i \in 1..(m + 1) /\ (i <= m => i \in P) /\ \A j \in P : i <= j
  BY <1>1, <1>4, FirstIs
<1> HIDE DEF a, i, m
<1>11. \A j \in 1..m : /\ q[j].seq \in Nat /\ q[j].seq + 1 <= c + x.s.rx_win
  <2> SUFFICES ASSUME NEW j \in 1..m
               PROVE  q[j].seq \in Nat /\ q[j].seq + 1 <= c + x.s.rx_win
    OBVIOUS
  <2>1. q[j] \in Kept /\ q[j] \in Seg(Peer(h), f, Edge(x.s), w) /\ Peer(Peer(h)) = h
    BY <1>3, Peers
  <2> QED  BY <1>1, <2>1 DEF Kept, Seg, Msg
<1>12. a <= i
  <2>1. CASE i <= m
    <3>1. i \in 1..m /\ i - 1 \in 0..m /\ q[i].seq > c + NotOlder(x, i - 1) /\ q[i].seq \in Nat
      BY <1>3, <1>6, <1>10, <1>11, <2>1
    <3>2. NotOlder(x, i - 1) \in Nat
      BY <1>7, <1>9, <1>3, <3>1
    <3>3. q[i].seq >= c
      BY <1>1, <3>1, <3>2
    <3> QED  BY <1>5, <1>9, <3>1, <3>3
  <2> QED  BY <1>3, <1>9, <1>10, <2>1
<1>13. n = i - a
  <2>1. i - 1 \in 0..m
    BY <1>3, <1>10
  <2>2. n = IF i - 1 < a THEN 0 ELSE (i - 1) - a + 1
    BY <1>7, <2>1
  <2> HIDE DEF n
  <2> QED  BY <1>3, <1>9, <1>10, <1>12, <2>2
<1> HIDE DEF n
<1>14. \A j \in a..m : q[j].seq >= c + (j - a)
  <2>1. a <= m => q[a].seq >= c
    BY <1>5, <1>9
  <2>2. \A j \in 1..m : q[j].seq \in Nat
    BY <1>11
  <2> QED  BY ONLY <1>1, <1>3, <1>8, <1>9, <2>1, <2>2, OrderedGrowth
<1>15. ASSUME NEW j \in a..(i - 1)
       PROVE  q[j].seq = c + (j - a)
  <2>1. j \in 1..m /\ j \in a..m /\ j - 1 \in 0..m /\ ~(i <= j) /\ j \in Int /\ a \in Int /\ a <= j
    BY <1>3, <1>9, <1>10
  <2>2. ~(q[j].seq > c + NotOlder(x, j - 1)) /\ q[j].seq \in Nat
    BY <1>6, <1>10, <1>11, <2>1
  <2>3. NotOlder(x, j - 1) = j - a
    <3>1. NotOlder(x, j - 1) = IF j - 1 < a THEN 0 ELSE (j - 1) - a + 1
      BY <1>7, <2>1
    <3> QED  BY <2>1, <3>1
  <2>4. q[j].seq >= c + (j - a)
    BY <1>14, <2>1
  <2>5. ~(q[j].seq > c + (j - a)) /\ q[j].seq \in Int /\ c \in Int /\ j - a \in Int
    BY <1>1, <2>1, <2>2, <2>3
  <2> DEFINE u == q[j].seq
             v == c + (j - a)
  <2>6. u >= v /\ ~(u > v) /\ u \in Int /\ v \in Int
    BY <2>4, <2>5
  <2> HIDE DEF u, v
  <2>7. u = v
    BY <2>6
  <2> QED  BY <2>7 DEF u, v
<1>16. n <= x.s.rx_win
  <2>1. CASE i = a
    BY <1>1, <1>9, <1>13, <2>1
  <2>2. CASE i # a
    <3>1. i - 1 \in a..(i - 1) /\ i - 1 \in 1..m
      BY <1>3, <1>9, <1>10, <1>12, <2>2
    <3>2. q[i - 1].seq = c + ((i - 1) - a) /\ q[i - 1].seq + 1 <= c + x.s.rx_win
      BY <1>11, <1>15, <3>1
    <3>3. i \in Int /\ a \in Int /\ x.s.rx_win \in Int /\ c \in Int
      BY <1>1, <1>3, <1>9, <1>10
    <3>4. i - a <= x.s.rx_win
      BY ONLY <3>2, <3>3
    <3> QED  BY <1>13, <3>4
  <2> QED  BY <2>1, <2>2
<1>17. n \in Nat /\ n <= i - 1 /\ i - n = a
  BY <1>3, <1>9, <1>10, <1>12, <1>13
<1> QED
  BY <1>10, <1>15, <1>16, <1>17 DEF n, i, P, m, c, q, DrainEnd

\* The rest of a list in order is in order.
LEMMA FromSorted ==
    ASSUME NEW S, NEW q \in Seq(S), Sorted(q), NEW i \in 1..(Len(q) + 1)
    PROVE  Sorted(From(q, i))
<1> DEFINE n == Len(q)
           r == SubSeq(q, i, n)
<1>1. n \in Nat /\ i \in Int /\ \A j \in i..n : q[j] \in S
  BY LenProperties, ElementOfSeq
<1>2. /\ Len(r) = (IF i <= n THEN n - i + 1 ELSE 0)
      /\ \A j \in 1..(n - i + 1) : r[j] = q[i + j - 1]
  BY <1>1, SubSeqProperties
<1>3. \A j, k \in 1..n : j < k => q[j].seq < q[k].seq
  BY DEF Sorted
<1>4. i \in 1..(n + 1)
  OBVIOUS
<1> HIDE DEF n, r
<1>5. ASSUME NEW j \in 1..Len(r), NEW k \in 1..Len(r), j < k
      PROVE  r[j].seq < r[k].seq
  <2>1. j \in 1..(n - i + 1) /\ k \in 1..(n - i + 1)
    BY <1>1, <1>2, <1>4
  <2>2. i + j - 1 \in 1..n /\ i + k - 1 \in 1..n /\ i + j - 1 < i + k - 1
    BY <1>1, <1>4, <1>5, <2>1
  <2> QED  BY <1>2, <1>3, <2>1, <2>2
<1> QED
  BY <1>5 DEF Sorted, From, r, n

\* A segment with data has the unit that its number tells.
LEMMA DataIs ==
    ASSUME NEW h \in Host, NEW e, NEW f, NEW w \in Worlds, NEW m \in Seg(h, e, f, w), m.data # <<>>
    PROVE  /\ m.seq \in Nat /\ m.data = <<m.seq - Base(h, w)>> /\ Base(h, w) < m.seq
           /\ m.seq <= Base(h, w) + w.sent[h] /\ Len(m.data) = 1 /\ m.flags = {"ACK"}
           /\ Head(m.data) = m.seq - Base(h, w) /\ m.seq - Base(h, w) \in Nat
<1>1. /\ m.seq \in Nat /\ m.data = <<m.seq - Base(h, w)>> /\ Base(h, w) < m.seq
      /\ m.seq <= Base(h, w) + w.sent[h] /\ m.flags = {"ACK"}
  BY DEF Seg, Out, Msg
<1>2. Base(h, w) \in Nat
  BY WorldFields
<1>3. m.seq - Base(h, w) \in Nat
  BY <1>1, <1>2
<1> QED
  BY <1>1, <1>3

\* What was kept follows the data that have arrived.
LEMMA DrainGood ==
    ASSUME NEW h \in Host, NEW w \in Worlds, NEW e \in Nat, NEW f \in Nat, NEW x, Fine(h, x),
           Good(h, x, e, f, w), w.app[h] # "closed"
    PROVE  Good(h, Drain(x), e, f, w) /\ \E n \in Nat : Took(h, x, Drain(x), n, w)
<1> DEFINE q == x.s.rx_nbq
           i == DrainEnd(x)
           n == NotOlder(x, i - 1)
           g == SubSeq(q, i - n, i - 1)
           a == x.adv - (i - 1)
           r == From(q, i)
           b == x.s.rx_buf \o Data(g)
           c == x.s.rx_nxt + n
           v == IF x.s.rx_win < n THEN 0 ELSE x.s.rx_win - n
           k == IF n = 0 THEN x.s.flags ELSE x.s.flags \cup {"ACK"}
           t == [x.s EXCEPT !.rx_nbq = r, !.rx_buf = b, !.rx_nxt = c, !.rx_win = v, !.flags = k]
           u == [x EXCEPT !.s = t]
           y == Drain(x)
           B == Base(Peer(h), w)
<1>1. /\ x \in Work(h) /\ x.s \in Socket(h) /\ q \in Seq(Kept) /\ x.s.rx_buf \in Seq(Nat)
      /\ x.s.rx_nxt \in Nat /\ x.s.rx_win \in Nat /\ Len(x.s.rx_buf) \in Nat /\ Edge(x.s) \in Nat
  BY EdgeNat
<1>2. y = [x EXCEPT !.adv = a, !.s.rx_nbq = r, !.s.rx_buf = b, !.s.rx_nxt = c, !.s.rx_win = v, !.s.flags = k]
  <2> HIDE DEF i, n, g
  <2> DEFINE x1 == [x EXCEPT !.adv = a, !.s.rx_nbq = r]
             x2 == [x EXCEPT !.adv = a, !.s.rx_nbq = r, !.s.rx_buf = b]
             x3 == [x EXCEPT !.adv = a, !.s.rx_nbq = r, !.s.rx_buf = b, !.s.rx_nxt = c]
             x4 == [x EXCEPT !.adv = a, !.s.rx_nbq = r, !.s.rx_buf = b, !.s.rx_nxt = c, !.s.rx_win = v]
  <2>1. x1.s.rx_buf = x.s.rx_buf /\ x2.s.rx_nxt = x.s.rx_nxt /\ x3.s.rx_win = x.s.rx_win /\ x4.s.flags = x.s.flags
    <3> HIDE DEF a, r, b, c, v
    <3> QED  BY <1>1 DEF Work, Socket
  <2> QED  BY <2>1 DEF Drain, DrainEnd, i, n, g
<1>3. Holds(h, x.s, f, w)
  BY DEF Good, Flow
<1>4. /\ i \in 1..(Len(q) + 1) /\ n \in Nat /\ n <= i - 1 /\ n <= x.s.rx_win
      /\ \A j \in (i - n)..(i - 1) : q[j].seq = x.s.rx_nxt + (j - (i - n))
  BY <1>3, DrainTakes
<1>5. Fine(h, y)
  BY DrainFine
<1>6. /\ q \in Seq(Seg(Peer(h), f, Edge(x.s), w)) /\ Sorted(q)
      /\ x.s.rx_win + Len(x.s.rx_buf) <= RXBSZ
  BY <1>3 DEF Holds
<1> HIDE DEF q, i, n, y
<1>7. /\ Len(q) \in Nat /\ i \in Int /\ n \in Int /\ x.s.rx_win \in Int
      /\ \A j \in 1..Len(q) : q[j] \in Kept /\ q[j] \in Seg(Peer(h), f, Edge(x.s), w)
  <2>1. Len(q) \in Nat
    BY <1>1, LenProperties
  <2>2. ASSUME NEW j \in 1..Len(q)
        PROVE  q[j] \in Kept /\ q[j] \in Seg(Peer(h), f, Edge(x.s), w)
    BY <1>1, <1>6, ElementOfSeq
  <2> QED  BY <1>1, <1>4, <2>1, <2>2
<1>8. \A j \in (i - n)..(i - 1) : j \in 1..Len(q)
  BY <1>4, <1>7
<1>9. /\ g \in Seq(Kept) /\ Len(g) = n
      /\ \A j \in 1..n : g[j] = q[(i - n) + j - 1]
  <2>1. i - n \in Int /\ i - 1 \in Int /\ \A j \in (i - n)..(i - 1) : q[j] \in Kept
    BY <1>7, <1>8
  <2>2. /\ g \in Seq(Kept)
        /\ Len(g) = (IF i - n <= i - 1 THEN (i - 1) - (i - n) + 1 ELSE 0)
        /\ \A j \in 1..((i - 1) - (i - n) + 1) : g[j] = q[(i - n) + j - 1]
    BY <2>1, SubSeqProperties
  <2>3. (i - 1) - (i - n) + 1 = n /\ (i - n <= i - 1 <=> n >= 1)
    BY <1>7
  <2> HIDE DEF g
  <2> QED  BY <1>4, <2>2, <2>3
<1>10. ASSUME NEW j \in 1..n
       PROVE  /\ g[j].seq = (x.s.rx_nxt + j) - 1 /\ g[j].data # <<>>
              /\ g[j] \in Seg(Peer(h), f, Edge(x.s), w)
  <2>1. (i - n) + j - 1 \in (i - n)..(i - 1)
    BY <1>4, <1>7
  <2>2. q[(i - n) + j - 1].seq = x.s.rx_nxt + (((i - n) + j - 1) - (i - n))
    BY <1>4, <2>1
  <2>3. x.s.rx_nxt + (((i - n) + j - 1) - (i - n)) = (x.s.rx_nxt + j) - 1
    BY <1>1, <1>7
  <2>4. q[(i - n) + j - 1] \in Kept /\ q[(i - n) + j - 1] \in Seg(Peer(h), f, Edge(x.s), w)
    BY <1>7, <1>8, <2>1
  <2> QED  BY <1>9, <2>2, <2>3, <2>4 DEF Kept
<1> HIDE DEF g
<1>11. /\ Data(g) \in Seq(Nat) /\ Len(Data(g)) = n
       /\ \A j \in 1..n : Data(g)[j] = (x.s.rx_nxt + j) - (B + 1)
  <2>1. Data(g) \in Seq(Nat) /\ Len(Data(g)) = n
    <3>1. Data(g) \in Seq(Nat) /\ Len(Data(g)) \in Nat
      BY <1>9, DataSeq, LenProperties
    <3>2. DOMAIN Data(g) = 1..n
      BY <1>9 DEF Data
    <3> QED  BY <1>4, <3>1, <3>2, LenProperties
  <2>2. ASSUME NEW j \in 1..n
        PROVE  Data(g)[j] = (x.s.rx_nxt + j) - (B + 1)
    <3>1. Data(g)[j] = Head(g[j].data)
      BY <1>9 DEF Data
    <3>2. Head(g[j].data) = g[j].seq - B
      BY <1>10, Peers, DataIs
    <3>3. B \in Int /\ x.s.rx_nxt \in Int /\ j \in Int
      BY <1>1, <1>7, WorldFields
    <3> HIDE DEF B
    <3>4. g[j].seq = (x.s.rx_nxt + j) - 1
      BY <1>10
    <3>5. ((x.s.rx_nxt + j) - 1) - B = (x.s.rx_nxt + j) - (B + 1)
      BY ONLY <3>3
    <3> QED  BY <3>1, <3>2, <3>4, <3>5
  <2> QED  BY <2>1, <2>2
<1>12. n > 0 => x.s.rx_nxt > B /\ x.s.rx_nxt + n <= B + w.sent[Peer(h)] + 1
  <2> SUFFICES ASSUME n > 0
               PROVE  x.s.rx_nxt > B /\ x.s.rx_nxt + n <= B + w.sent[Peer(h)] + 1
    OBVIOUS
  <2>1. 1 \in 1..n /\ n \in 1..n
    BY <1>4
  <2>2. B < g[1].seq /\ g[n].seq <= B + w.sent[Peer(h)]
    BY <1>10, <2>1, Peers, DataIs
  <2>3. g[1].seq = (x.s.rx_nxt + 1) - 1 /\ g[n].seq = (x.s.rx_nxt + n) - 1
    BY <1>10, <2>1
  <2>4. B \in Int /\ x.s.rx_nxt \in Int /\ n \in Int /\ w.sent[Peer(h)] \in Int
    BY <1>1, <1>7, WorldFields
  <2> HIDE DEF B
  <2> QED  BY ONLY <2>2, <2>3, <2>4
<1> DEFINE d == Data(g)
<1> HIDE DEF d
<1>13. /\ b \in Seq(Nat) /\ Len(b) = Len(x.s.rx_buf) + n
       /\ \A j \in 1..Len(x.s.rx_buf) : b[j] = x.s.rx_buf[j]
       /\ \A j \in 1..n : b[Len(x.s.rx_buf) + j] = (x.s.rx_nxt + j) - (B + 1)
  <2> HIDE DEF B
  <2>1. d \in Seq(Nat) /\ Len(d) = n /\ b = x.s.rx_buf \o d
    BY <1>11 DEF d
  <2>2. \A j \in 1..n : d[j] = (x.s.rx_nxt + j) - (B + 1)
    BY <1>11 DEF d
  <2> HIDE DEF b
  <2>3. /\ b \in Seq(Nat) /\ Len(b) = Len(x.s.rx_buf) + Len(d)
        /\ \A j \in 1..(Len(x.s.rx_buf) + Len(d)) :
              b[j] = IF j <= Len(x.s.rx_buf) THEN x.s.rx_buf[j] ELSE d[j - Len(x.s.rx_buf)]
    BY <1>1, <2>1, ConcatProperties
  <2>4. \A j \in 1..Len(x.s.rx_buf) : b[j] = x.s.rx_buf[j]
    BY <1>1, <1>4, <2>1, <2>3
  <2>5. ASSUME NEW j \in 1..n
        PROVE  b[Len(x.s.rx_buf) + j] = d[j]
    <3>1. /\ Len(x.s.rx_buf) + j \in 1..(Len(x.s.rx_buf) + Len(d))
          /\ ~(Len(x.s.rx_buf) + j <= Len(x.s.rx_buf)) /\ (Len(x.s.rx_buf) + j) - Len(x.s.rx_buf) = j
      <4>1. Len(x.s.rx_buf) \in Nat /\ n \in Nat /\ Len(d) = n /\ j \in 1..n
        BY <1>1, <1>4, <2>1
      <4> QED  BY ONLY <4>1
    <3> QED  BY <2>3, <3>1
  <2> QED  BY <2>1, <2>2, <2>3, <2>4, <2>5
<1>14. /\ r \in Seq(Kept) /\ r \in Seq(Seg(Peer(h), f, Edge(x.s), w)) /\ Sorted(r)
  BY <1>1, <1>4, <1>6, FromSeq, FromSorted
<1>15. v = x.s.rx_win - n
  BY <1>4, <1>7
<1> HIDE DEF a, r, b, v, k
<1>16. /\ t.state = x.s.state /\ t.una = x.s.una /\ t.win = x.s.win /\ t.nxt = x.s.nxt
       /\ t.nbq = x.s.nbq /\ t.rx_buf = b /\ t.rx_nxt = c /\ t.rx_win = v /\ t.rx_nbq = r
  BY <1>1 DEF Socket
<1>17. y.s = t /\ y.out = x.out
  <2> HIDE DEF c
  <2> QED  BY <1>1, <1>2 DEF Work
<1> HIDE DEF t, u
<1>18. Edge(y.s) = Edge(x.s)
  <2>1. c + v = x.s.rx_nxt + x.s.rx_win
    <3>1. x.s.rx_nxt \in Int /\ n \in Int /\ x.s.rx_win \in Int
      BY <1>1, <1>7
    <3>2. (x.s.rx_nxt + n) + (x.s.rx_win - n) = x.s.rx_nxt + x.s.rx_win
      BY ONLY <3>1
    <3> QED  BY <1>15, <3>2
  <2> HIDE DEF c
  <2> QED  BY <1>16, <1>17, <2>1 DEF Edge
<1>19. Took(h, x, y, n, w)
  BY <1>12, <1>13, <1>16, <1>17 DEF Took
<1>20. y.s.rx_win + Len(y.s.rx_buf) <= RXBSZ
  <2>1. (x.s.rx_win - n) + (Len(x.s.rx_buf) + n) = x.s.rx_win + Len(x.s.rx_buf)
    <3>1. Len(x.s.rx_buf) \in Int /\ n \in Int /\ x.s.rx_win \in Int
      BY <1>1, <1>7
    <3> QED  BY ONLY <3>1
  <2> QED  BY <1>6, <1>13, <1>15, <1>16, <1>17, <2>1
<1>21. Holds(h, y.s, f, w)
  BY <1>14, <1>16, <1>17, <1>18, <1>20 DEF Holds
<1>22. Good(h, y, e, f, w)
  BY <1>1, <1>5, <1>16, <1>17, <1>18, <1>21, GoodMoved
<1> QED
  BY <1>4, <1>19, <1>22 DEF y

-----------------------------------------------------------------------------
(* What the state of a socket says about the data                          *)

\* As long as no connection is established there are no data, and the window
\* is open.
Early(h, s, w) ==
    /\ s.una = 0 /\ w.sent[h] = 0 /\ w.got[h] = <<>> /\ s.rx_buf = <<>> /\ s.rx_win = RXBSZ
    /\ \/ s.nxt = Base(h, w) + 1
       \/ (s.nxt = 0 /\ Base(h, w) = 0 /\ s.state \in {"LISTEN", "CLOSED"})
    /\ s.rx_nxt <= 1 /\ ((w.app[h] = "new" \/ s.state = "SYN_SENT") => s.rx_nxt = 0)
    /\ w.app[h] = "new" => s.nxt = 0
    /\ s.state = "SYN_RECEIVED" => s.rx_nxt = 1
    /\ s.state \in {"LISTEN", "SYN_RECEIVED"} => h = server
    /\ s.state = "SYN_SENT" => h = client

\* What h has received, with what its application has got of it, is what the
\* peer has sent up to the number that h expects next.
Reads(h, s, w) ==
    LET b == Base(Peer(h), w)
        k == Len(w.got[h]) + Len(s.rx_buf)
    IN  \/ (s.rx_nxt <= b /\ w.got[h] = <<>> /\ s.rx_buf = <<>> /\ s.state = "ESTABLISHED")
        \/ /\ s.rx_nxt = (b + 1) + k + (IF s.state = "CLOSE_WAIT" THEN 1 ELSE 0)
           /\ k <= w.sent[Peer(h)] /\ (s.state = "CLOSE_WAIT" => k = w.sent[Peer(h)])
           /\ \A i \in 1..Len(s.rx_buf) : s.rx_buf[i] = Len(w.got[h]) + i

Phase(h, s, w) ==
    /\ (w.app[h] = "new" \/ s.state \in EarlyState) => Early(h, s, w)
    /\ s.state = "ESTABLISHED" => s.nxt = Base(h, w) + w.sent[h] + 1
    /\ s.state = "CLOSE_WAIT" => w.app[Peer(h)] = "closed"
    /\ s.state = "CLOSED" => s.rx_buf = <<>>
    /\ ServerFirst /\ s.state \in {"ESTABLISHED", "CLOSE_WAIT"} => Reads(h, s, w)

Ready(h, x, e, f, w) == Good(h, x, e, f, w) /\ Phase(h, x.s, w)

\* A function that changes nothing of this.
LEMMA PhaseKept ==
    ASSUME NEW h, NEW w, NEW s, NEW t, Phase(h, s, w), t.state = s.state, t.nxt = s.nxt,
           t.rx_nxt = s.rx_nxt, t.rx_win = s.rx_win, t.rx_buf = s.rx_buf,
           t.una = s.una \/ (w.app[h] # "new" /\ s.state \notin EarlyState)
    PROVE  Phase(h, t, w)
<1>1. (w.app[h] = "new" \/ s.state \in EarlyState) /\ Early(h, s, w) => Early(h, t, w)
  BY DEF Early
<1>2. Reads(h, s, w) => Reads(h, t, w)
  BY DEF Reads
<1> QED
  BY <1>1, <1>2 DEF Phase

\* A connection that was given up.
LEMMA PhaseClosed ==
    ASSUME NEW h, NEW w, NEW s, s.state = "CLOSED", s.rx_buf = <<>>, w.app[h] # "new"
    PROVE  Phase(h, s, w)
  BY DEF Phase, EarlyState

\* The socket of an application that has closed it.
LEMMA PhaseOver ==
    ASSUME NEW h, NEW w, NEW s, s.state \in ClosedState, w.app[h] # "new"
    PROVE  Phase(h, s, w)
  BY DEF Phase, EarlyState, ClosedState, AckState

\* Data that come next.
LEMMA PhaseTook ==
    ASSUME NEW h \in Host, NEW w \in Worlds, NEW x, NEW y, NEW n \in Nat, Fine(h, x), Fine(h, y),
           Phase(h, x.s, w), x.s.state = "ESTABLISHED", w.app[h] # "new", Took(h, x, y, n, w)
    PROVE  Phase(h, y.s, w)
<1> DEFINE b == Base(Peer(h), w)
           g == Len(w.got[h])
           l == Len(x.s.rx_buf)
           v == w.sent[Peer(h)]
<1>1. y.s.state = "ESTABLISHED" /\ y.s.nxt = x.s.nxt /\ y.s.nxt = Base(h, w) + w.sent[h] + 1
  BY DEF Took, Phase
<1>2. ServerFirst => Reads(h, y.s, w)
  <2> SUFFICES ASSUME ServerFirst PROVE Reads(h, y.s, w)
    OBVIOUS
  <2>1. Reads(h, x.s, w)
    BY DEF Phase
  <2>2. b \in Nat /\ g \in Nat /\ l \in Nat /\ v \in Nat /\ x.s.rx_nxt \in Nat
    BY WorldFields, EdgeNat, LenProperties
  <2>3. /\ y.s.rx_nxt = x.s.rx_nxt + n /\ Len(y.s.rx_buf) = l + n /\ y.s.rx_buf \in Seq(Nat)
        /\ \A j \in 1..l : y.s.rx_buf[j] = x.s.rx_buf[j]
        /\ \A j \in 1..n : y.s.rx_buf[l + j] = (x.s.rx_nxt + j) - (b + 1)
        /\ n > 0 => x.s.rx_nxt > b /\ x.s.rx_nxt + n <= b + v + 1
    BY DEF Took
  <2>4. \/ (x.s.rx_nxt <= b /\ w.got[h] = <<>> /\ x.s.rx_buf = <<>>)
        \/ (/\ x.s.rx_nxt = (b + 1) + (g + l) + 0 /\ g + l <= v
            /\ \A i \in 1..l : x.s.rx_buf[i] = g + i)
    BY <2>1 DEF Reads
  <2>5. CASE x.s.rx_nxt <= b /\ w.got[h] = <<>> /\ x.s.rx_buf = <<>>
    <3> HIDE DEF b, v
    <3>1. n = 0
      BY <2>2, <2>3, <2>5
    <3>2. y.s.rx_nxt <= b /\ Len(y.s.rx_buf) = 0
      BY <2>2, <2>3, <2>5, <3>1
    <3>3. y.s.rx_buf = <<>>
      BY <2>3, <3>2, EmptySeq
    <3> QED  BY <1>1, <2>5, <3>2, <3>3 DEF Reads, b
  <2>6. CASE /\ x.s.rx_nxt = (b + 1) + (g + l) + 0 /\ g + l <= v
             /\ \A i \in 1..l : x.s.rx_buf[i] = g + i
    <3> HIDE DEF b, v, g, l
    <3>1. y.s.rx_nxt = (b + 1) + (g + (l + n)) + 0
      BY <2>2, <2>3, <2>6
    <3>2. g + (l + n) <= v
      BY <2>2, <2>3, <2>6
    <3>3. ASSUME NEW i \in 1..(l + n)
          PROVE  y.s.rx_buf[i] = g + i
      <4>1. CASE i <= l
        BY <2>2, <2>3, <2>6, <4>1
      <4>2. CASE i > l
        <5>1. i - l \in 1..n /\ l + (i - l) = i
          BY <2>2, <4>2
        <5>2. y.s.rx_buf[i] = (x.s.rx_nxt + (i - l)) - (b + 1)
          BY <2>3, <5>1
        <5>3. (((b + 1) + (g + l) + 0) + (i - l)) - (b + 1) = g + i
          BY <2>2, <5>1
        <5> QED  BY <2>6, <5>2, <5>3
      <4> QED  BY <2>2, <4>1, <4>2
    <3> QED  BY <1>1, <2>3, <3>1, <3>2, <3>3 DEF Reads, b, v, g, l
  <2> QED  BY <2>4, <2>5, <2>6
<1> QED
  BY <1>1, <1>2 DEF Phase, EarlyState

\* Nothing is taken.
LEMMA TookNone ==
    ASSUME NEW h \in Host, NEW w, NEW x, NEW y, Fine(h, x), Ahead(x, y)
    PROVE  Took(h, x, y, 0, w)
<1>1. x.s.rx_nxt \in Nat /\ Len(x.s.rx_buf) \in Nat /\ x.s.rx_buf \in Seq(Nat)
  BY EdgeNat
<1> QED
  BY <1>1 DEF Took, Ahead

\* One after the other.
LEMMA TookChain ==
    ASSUME NEW h \in Host, NEW w \in Worlds, NEW x, NEW y, NEW z, NEW m \in Nat, NEW n \in Nat,
           Fine(h, x), Took(h, x, y, m, w), Took(h, y, z, n, w)
    PROVE  Took(h, x, z, m + n, w)
<1> DEFINE b == Base(Peer(h), w)
           l == Len(x.s.rx_buf)
           k == Len(y.s.rx_buf)
           v == w.sent[Peer(h)]
           c == x.s.rx_nxt
           p == x.s.rx_buf
           q == y.s.rx_buf
           r == z.s.rx_buf
<1>1. c \in Nat /\ l \in Nat /\ b \in Nat /\ v \in Nat
  BY EdgeNat, WorldFields
<1>2. /\ y.s.rx_nxt = c + m /\ k = l + m /\ (\A j \in 1..l : q[j] = p[j])
      /\ \A j \in 1..m : q[l + j] = (c + j) - (b + 1)
      /\ m > 0 => c > b /\ c + m <= b + v + 1
  BY DEF Took
<1>3. /\ r \in Seq(Nat) /\ z.s.rx_nxt = y.s.rx_nxt + n /\ Len(r) = k + n
      /\ \A j \in 1..k : r[j] = q[j]
      /\ \A j \in 1..n : r[k + j] = (y.s.rx_nxt + j) - (b + 1)
      /\ n > 0 => y.s.rx_nxt > b /\ y.s.rx_nxt + n <= b + v + 1
  BY DEF Took
<1>4. z.s.state = x.s.state /\ z.s.una = x.s.una /\ z.s.nxt = x.s.nxt /\ z.s.win = x.s.win
  BY DEF Took
<1> HIDE DEF b, l, k, v, c, p, q, r
<1>5. z.s.rx_nxt = c + (m + n) /\ Len(r) = l + (m + n)
  BY <1>1, <1>2, <1>3
<1>6. \A j \in 1..l : r[j] = p[j]
  BY <1>1, <1>2, <1>3
<1>7. m + n > 0 => c > b /\ c + (m + n) <= b + v + 1
  <2>1. CASE m > 0 /\ n > 0
    BY <1>1, <1>2, <1>3, <2>1
  <2>2. CASE m = 0
    BY <1>1, <1>2, <1>3, <2>2
  <2>3. CASE n = 0
    BY <1>1, <1>2, <1>3, <2>3
  <2> QED  BY <2>1, <2>2, <2>3
<1>8. ASSUME NEW j \in 1..(m + n)
      PROVE  r[l + j] = (c + j) - (b + 1)
  <2>1. CASE j <= m
    <3>1. l + j \in 1..k /\ j \in 1..m
      BY <1>1, <1>2, <2>1
    <3> QED  BY <1>2, <1>3, <3>1
  <2>2. CASE j > m
    <3>1. j - m \in 1..n /\ k + (j - m) = l + j /\ (c + m) + (j - m) = c + j
      BY <1>1, <1>2, <2>2
    <3>2. r[k + (j - m)] = ((c + m) + (j - m)) - (b + 1)
      BY <1>2, <1>3, <3>1
    <3> QED  BY <3>1, <3>2
  <2> QED  BY <2>1, <2>2
<1> QED
  BY <1>3, <1>4, <1>5, <1>6, <1>7, <1>8 DEF Took, b, l, v, c, p, r

-----------------------------------------------------------------------------
(* A segment for an established connection                                 *)

\* The segments of the peer, when the application of h has not closed.
LEMMA FromPeer ==
    ASSUME NEW h \in Host, NEW w \in Worlds, NEW e, NEW f, NEW m \in Seg(Peer(h), f, e, w)
    PROVE  /\ m \in Msg /\ m \in Out(Peer(h))
           /\ w.app[Peer(h)] # "closed" /\ "RST" \notin m.flags => m.ack + m.win <= f
           /\ "SYN" \in m.flags => m.seq <= Base(Peer(h), w)
           /\ "FIN" \in m.flags /\ w.app[h] # "closed" =>
                /\ w.app[Peer(h)] = "closed" /\ m.data = <<>>
                /\ m.seq = Base(Peer(h), w) + w.sent[Peer(h)] + 1
           /\ m.data # <<>> /\ w.app[h] # "closed" => m.seq + 1 <= e
           /\ m.seq \in Nat /\ m.ack \in Nat /\ m.win \in Nat
<1>1. Peer(Peer(h)) = h
  BY Peers
<1>2. m \in Msg /\ m \in Out(Peer(h))
  BY DEF Seg, Out
<1>3. "FIN" \in m.flags => m.data = <<>>
  BY DEF Seg
<1> QED
  BY <1>1, <1>2, <1>3 DEF Seg, Msg

\* The data of the expected segment are what comes next.
LEMMA StoredTook ==
    ASSUME NEW h \in Host, NEW w \in Worlds, NEW e, NEW f, NEW x, Fine(h, x), NEW y,
           NEW m \in Seg(Peer(h), f, e, w), m.data # <<>>, m.seq = x.s.rx_nxt, Stored(x, y, m.data)
    PROVE  Took(h, x, y, 1, w)
<1> DEFINE b == Base(Peer(h), w)
           p == x.s.rx_buf
           d == <<m.seq - b>>
           k == m.seq - b
           v == w.sent[Peer(h)]
<1>1. /\ p \in Seq(Nat) /\ Len(p) \in Nat /\ x.s.rx_nxt \in Nat /\ b \in Nat /\ v \in Nat
  BY EdgeNat, WorldFields
<1>2. /\ m.seq \in Nat /\ m.data = d /\ b < m.seq /\ m.seq <= b + v /\ k \in Nat
  BY Peers, DataIs
<1>3. y.s.rx_buf = p \o d /\ y.s.rx_nxt = x.s.rx_nxt + 1
  BY <1>2 DEF Stored
<1>4. d = <<k>> /\ x.s.rx_nxt = m.seq
  OBVIOUS
<1>5. x.s.rx_nxt > b /\ x.s.rx_nxt + 1 <= b + v + 1
  BY <1>1, <1>2, <1>4
<1>6. (x.s.rx_nxt + 1) - (b + 1) = k
  BY <1>1, <1>2, <1>4
<1> HIDE DEF b, p, d, k, v
<1>7. d \in Seq(Nat) /\ Len(d) = 1 /\ d[1] = k
  <2>1. k \in Nat /\ d = <<k>>
    BY <1>2, <1>4
  <2> QED  BY ONLY <2>1
<1>8. /\ y.s.rx_buf \in Seq(Nat) /\ Len(y.s.rx_buf) = Len(p) + Len(d)
      /\ \A j \in 1..(Len(p) + Len(d)) : y.s.rx_buf[j] = IF j <= Len(p) THEN p[j] ELSE d[j - Len(p)]
  <2>1. p \in Seq(Nat)
    BY <1>1
  <2>2. /\ p \o d \in Seq(Nat) /\ Len(p \o d) = Len(p) + Len(d)
        /\ \A j \in 1..(Len(p) + Len(d)) : (p \o d)[j] = IF j <= Len(p) THEN p[j] ELSE d[j - Len(p)]
    BY ONLY <1>7, <2>1, ConcatProperties
  <2> QED  BY <1>3, <2>2
<1>9. (\A j \in 1..Len(p) : y.s.rx_buf[j] = p[j]) /\ y.s.rx_buf[Len(p) + 1] = k
  <2>1. \A j \in 1..Len(p) : j \in 1..(Len(p) + Len(d)) /\ j <= Len(p)
    BY <1>1, <1>7
  <2>2. Len(p) + 1 \in 1..(Len(p) + Len(d)) /\ ~(Len(p) + 1 <= Len(p)) /\ (Len(p) + 1) - Len(p) = 1
    BY <1>1, <1>7
  <2> QED  BY <1>7, <1>8, <2>1, <2>2
<1>10. \A j \in 1..1 : y.s.rx_buf[Len(p) + j] = (x.s.rx_nxt + j) - (b + 1)
  BY <1>6, <1>9
<1>11. y.s.state = x.s.state /\ y.s.una = x.s.una /\ y.s.nxt = x.s.nxt /\ y.s.win = x.s.win
  BY DEF Stored
<1> QED
  BY <1>3, <1>5, <1>7, <1>8, <1>9, <1>10, <1>11 DEF Took, b, p, v

\* InSequence but for the FIN.
LEMMA TakeGood ==
    ASSUME NEW h \in Host, NEW w \in Worlds, NEW e \in Nat, NEW f \in Nat, NEW x, Fine(h, x),
           Good(h, x, e, f, w), w.app[h] # "closed", NEW m \in Seg(Peer(h), f, Edge(x.s), w),
           m.seq = x.s.rx_nxt, m.data # <<>>
    PROVE  LET y == Wakes(Drain(NutTcpProcessAppData(x, m)), {"recv"})
           IN  Good(h, y, e, f, w) /\ \E n \in Nat : Took(h, x, y, n, w)
<1> DEFINE a == NutTcpProcessAppData(x, m)
           b == Drain(a)
           q == {"recv"}
           y == Wakes(b, q)
<1>1. m \in Msg /\ m.seq + 1 <= Edge(x.s) /\ Len(m.data) = 1
  BY FromPeer, Peers, DataIs
<1>2. x.s.rx_win >= 1
  <2>1. x.s.rx_nxt \in Nat /\ x.s.rx_win \in Nat
    BY EdgeNat
  <2> QED  BY <1>1, <2>1 DEF Edge
<1>3. Fine(h, a) /\ Good(h, a, e, f, w) /\ Stored(x, a, m.data)
  BY <1>1, <1>2, AppDataFine, AppDataGood
<1> HIDE DEF a
<1>4. Took(h, x, a, 1, w)
  BY <1>3, StoredTook
<1>5. Fine(h, b) /\ Good(h, b, e, f, w) /\ \E n \in Nat : Took(h, a, b, n, w)
  BY <1>3, DrainFine, DrainGood
<1>6. PICK n \in Nat : Took(h, a, b, n, w)
  BY <1>5
<1> HIDE DEF b, q
<1>7. Good(h, y, e, f, w) /\ y.s = b.s
  BY <1>5, WakesGood
<1>8. Took(h, x, b, 1 + n, w) /\ 1 + n \in Nat
  BY <1>4, <1>6, TookChain
<1> HIDE DEF y
<1>9. Took(h, x, y, 1 + n, w)
  BY <1>7, <1>8 DEF Took
<1> QED
  BY <1>7, <1>8, <1>9 DEF y, b, a, q

\* An acknowledgement at once.
LEMMA ForceAckGood ==
    ASSUME NEW h \in Host, NEW w \in Worlds, NEW e, NEW f, NEW x, Fine(h, x), Good(h, x, e, f, w)
    PROVE  LET y == NutTcpOutput(Flag(x, {"ACK", "FORCE"}), <<>>)
           IN  Good(h, y, e, f, w) /\ Ahead(x, y)
<1> DEFINE g == {"ACK", "FORCE"}
           u == Flag(x, g)
           y == NutTcpOutput(u, <<>>)
<1>1. g \in SUBSET {"ACK", "FORCE"}
  OBVIOUS
<1>2. Fine(h, u) /\ Good(h, u, e, f, w) /\ Still(x, u)
  <2> HIDE DEF g
  <2> QED  BY <1>1, FlagFine, FlagGood
<1> HIDE DEF u
<1>3. Good(h, y, e, f, w) /\ Still(u, y)
  BY <1>2, AckGood
<1> HIDE DEF y
<1> QED
  BY <1>2, <1>3 DEF Still, SameRx, Ahead, y, u, g

\* What is not from the future: data that come next, or the end of them.
LEMMA InSequenceGood ==
    ASSUME NEW h \in Host, NEW w \in Worlds, NEW e \in Nat, NEW f \in Nat, NEW x, Fine(h, x),
           Good(h, x, e, f, w), w.app[h] # "closed", NEW m \in Seg(Peer(h), f, Edge(x.s), w),
           "FIN" \in m.flags => x.s.state = "ESTABLISHED"
    PROVE  LET y == InSequence(x, m)
           IN  /\ Good(h, y, e, f, w)
               /\ "FIN" \notin m.flags => \E n \in Nat : Took(h, x, y, n, w)
               /\ "FIN" \in m.flags =>
                    /\ y.s.state = "CLOSE_WAIT" /\ y.s.rx_nxt = x.s.rx_nxt + 1
                    /\ y.s.rx_buf = x.s.rx_buf
<1> DEFINE a == NutTcpOutput(Flag(x, {"ACK", "FORCE"}), <<>>)
           b == Wakes(Drain(NutTcpProcessAppData(x, m)), {"recv"})
           c == IF m.seq # x.s.rx_nxt THEN a ELSE IF m.data # <<>> THEN b ELSE x
           d == [c EXCEPT !.s.rx_nxt = @ + 1]
           g == NutTcpStateChange(d, "CLOSE_WAIT")
           y == IF "FIN" \in m.flags THEN g ELSE c
<1>1. InSequence(x, m) = y
  BY DEF InSequence
<1>2. m \in Msg /\ ("FIN" \in m.flags => m.data = <<>>)
  BY FromPeer
<1>3. Fine(h, a) /\ Good(h, a, e, f, w) /\ Ahead(x, a)
  BY ForceAckFine, ForceAckGood
<1>4. Fine(h, b)
  BY <1>2, TakeDataFine
<1>5. m.seq = x.s.rx_nxt /\ m.data # <<>> =>
        Good(h, b, e, f, w) /\ \E n \in Nat : Took(h, x, b, n, w)
  BY TakeGood
<1>6. Ahead(x, x) /\ 0 \in Nat
  BY DEF Ahead
<1> HIDE DEF a, b
<1>7. Fine(h, c) /\ Good(h, c, e, f, w) /\ (\E n \in Nat : Took(h, x, c, n, w))
  <2>1. CASE c = a
    BY <1>3, <1>6, <2>1, TookNone
  <2>2. CASE c = x
    BY <1>6, <2>2, TookNone
  <2>3. CASE c = b /\ m.seq = x.s.rx_nxt /\ m.data # <<>>
    BY <1>4, <1>5, <2>3
  <2> QED  BY <2>1, <2>2, <2>3
<1>8. "FIN" \in m.flags => Ahead(x, c)
  BY <1>2, <1>3, <1>6
<1> HIDE DEF c
<1>9. /\ Fine(h, d) /\ Good(h, d, e, f, w) /\ d.s.rx_nxt = c.s.rx_nxt + 1 /\ d.s.rx_buf = c.s.rx_buf
      /\ d.s.state = c.s.state
  BY <1>7, BumpFine, BumpGood
<1> HIDE DEF d
<1>10. ASSUME "FIN" \in m.flags
       PROVE  /\ Good(h, g, e, f, w) /\ g.s.state = "CLOSE_WAIT"
              /\ g.s.rx_nxt = x.s.rx_nxt + 1 /\ g.s.rx_buf = x.s.rx_buf
  <2>1. Ahead(x, c) /\ d.s.state = "ESTABLISHED"
    BY <1>8, <1>9, <1>10 DEF Ahead
  <2>2. CanGo("ESTABLISHED", "CLOSE_WAIT") /\ Transition["ESTABLISHED"]["CLOSE_WAIT"] \cap {"SYN", "FIN"} = {}
    BY Transitions DEF Transition
  <2>3. Good(h, g, e, f, w) /\ SameRx(d.s, g.s) /\ g.s.state = "CLOSE_WAIT"
    BY <1>9, <2>1, <2>2, StateGood
  <2> HIDE DEF g
  <2> QED  BY <1>9, <2>1, <2>3 DEF Ahead, SameRx
<1> HIDE DEF g
<1>11. "FIN" \in m.flags => y = g
  OBVIOUS
<1>12. "FIN" \notin m.flags => y = c
  OBVIOUS
<1> HIDE DEF y
<1> QED
  BY <1>1, <1>7, <1>10, <1>11, <1>12

\* The end of the data: nothing is missing.
LEMMA PhaseFin ==
    ASSUME NEW h \in Host, NEW w \in Worlds, NEW x, NEW y, Fine(h, x), Phase(h, x.s, w),
           x.s.state = "ESTABLISHED", w.app[h] # "new", w.app[Peer(h)] = "closed",
           NEW c \in Nat, c <= x.s.rx_nxt, c = Base(Peer(h), w) + w.sent[Peer(h)] + 1,
           y.s.state = "CLOSE_WAIT", y.s.rx_nxt = x.s.rx_nxt + 1, y.s.rx_buf = x.s.rx_buf
    PROVE  Phase(h, y.s, w)
<1> DEFINE b == Base(Peer(h), w)
           g == Len(w.got[h])
           l == Len(x.s.rx_buf)
           v == w.sent[Peer(h)]
<1>1. ServerFirst => Reads(h, y.s, w)
  <2> SUFFICES ASSUME ServerFirst PROVE Reads(h, y.s, w)
    OBVIOUS
  <2>1. b \in Nat /\ g \in Nat /\ l \in Nat /\ v \in Nat /\ x.s.rx_nxt \in Nat
    BY WorldFields, EdgeNat, LenProperties
  <2>2. \/ x.s.rx_nxt <= b
        \/ (/\ x.s.rx_nxt = (b + 1) + (g + l) + 0 /\ g + l <= v
            /\ \A i \in 1..l : x.s.rx_buf[i] = g + i)
    BY DEF Phase, Reads
  <2>3. b + v + 1 <= x.s.rx_nxt
    OBVIOUS
  <2> HIDE DEF b, v, g, l
  <2>4. /\ x.s.rx_nxt + 1 = (b + 1) + (g + l) + 1 /\ g + l = v
        /\ \A i \in 1..l : x.s.rx_buf[i] = g + i
    BY <2>1, <2>2, <2>3
  <2>5. y.s.rx_nxt = (b + 1) + (g + l) + 1 /\ y.s.rx_buf = x.s.rx_buf /\ y.s.state = "CLOSE_WAIT"
    BY <2>4
  <2>6. g + l <= v
    BY <2>1, <2>4
  <2> QED  BY <2>4, <2>5, <2>6 DEF Reads, b, v, g, l
<1> QED
  BY <1>1 DEF Phase, EarlyState

\* NutTcpStateEstablished
LEMMA EstablishedGood ==
    ASSUME NEW h \in Host, NEW w \in Worlds, NEW e \in Nat, NEW f \in Nat, NEW x, Fine(h, x),
           Ready(h, x, e, f, w), x.s.state = "ESTABLISHED", w.app[h] = "open",
           NEW m \in Seg(Peer(h), f, Edge(x.s), w)
    PROVE  Ready(h, NutTcpStateEstablished(x, m), e, f, w)
<1> DEFINE y == NutTcpStateEstablished(x, m)
           a == NutTcpProcessAck(x, m)
<1>1. \/ y = NutTcpAbortSocket(x) \/ y = x \/ y = NutTcpReject(x, m)
      \/ (y = InAdvance(a, m) /\ "RST" \notin m.flags /\ m.seq > a.s.rx_nxt)
      \/ (y = InSequence(a, m) /\ "RST" \notin m.flags /\ ~(m.seq > a.s.rx_nxt))
  BY DEF NutTcpStateEstablished
<1>2. m \in Msg /\ m.seq \in Nat
  BY FromPeer
<1>3. ~HasClosed("ESTABLISHED") /\ w.app[h] # "new" /\ w.app[h] # "closed"
  BY DEF HasClosed
<1>4. Good(h, x, e, f, w) /\ Phase(h, x.s, w)
  BY DEF Ready
<1> HIDE DEF y, a
<1>5. CASE y = NutTcpAbortSocket(x)
  <2>1. Good(h, y, e, f, w) /\ Dropped(x, y)
    BY <1>4, <1>5, AbortGood
  <2>2. y.s.state = IF HasClosed(x.s.state) THEN "TIME_WAIT" ELSE "CLOSED"
    BY <1>5, AbortFine
  <2>3. Phase(h, y.s, w)
    BY <1>3, <2>1, <2>2, PhaseClosed DEF Dropped
  <2> QED  BY <2>1, <2>3 DEF Ready, y
<1>6. CASE y = x
  BY <1>6 DEF y
<1>7. CASE y = NutTcpReject(x, m)
  <2>1. Good(h, y, e, f, w) /\ y.s = x.s
    BY <1>2, <1>4, <1>7, RejectGood
  <2> QED  BY <1>4, <2>1 DEF Ready, y
<1>8. "RST" \notin m.flags =>
        /\ Fine(h, a) /\ Good(h, a, e, f, w) /\ Acked(x, a, m)
  <2> SUFFICES ASSUME "RST" \notin m.flags
               PROVE  Fine(h, a) /\ Good(h, a, e, f, w) /\ Acked(x, a, m)
    OBVIOUS
  <2>1. w.app[Peer(h)] # "closed" => m.ack + m.win <= f
    BY FromPeer
  <2> QED  BY <1>2, <1>4, <2>1, ProcessAckFine, ProcessAckGood DEF a
<1>9. ASSUME "RST" \notin m.flags, SameRx(x.s, a.s), a.s.state = x.s.state, a.s.nxt = x.s.nxt
      PROVE  Phase(h, a.s, w) /\ m \in Seg(Peer(h), f, Edge(a.s), w)
  <2>1. Phase(h, a.s, w)
    BY <1>3, <1>4, <1>9, PhaseKept DEF SameRx, EarlyState
  <2>2. Edge(a.s) = Edge(x.s)
    BY <1>9 DEF SameRx, Edge
  <2> QED  BY <2>1, <2>2
<1>10. ASSUME GivenUp(x, a)
       PROVE  a.s.state = "CLOSED" /\ a.s.rx_buf = <<>>
  BY <1>3, <1>10 DEF GivenUp
<1>11. CASE y = InAdvance(a, m) /\ "RST" \notin m.flags /\ m.seq > a.s.rx_nxt
  <2>1. CASE SameRx(x.s, a.s) /\ a.s.state = x.s.state /\ a.s.nxt = x.s.nxt
    <3>1. Good(h, y, e, f, w) /\ Ahead(a, y)
      BY <1>2, <1>8, <1>9, <1>11, <2>1, InAdvanceGood
    <3>2. Phase(h, y.s, w)
      BY <1>9, <1>11, <2>1, <3>1, PhaseKept DEF Ahead
    <3> QED  BY <3>1, <3>2 DEF Ready, y
  <2>2. CASE GivenUp(x, a) /\ m.data = <<>>
    <3>1. y = NutTcpOutput(Flag(a, {"ACK", "FORCE"}), <<>>)
      BY <1>11, <2>2 DEF InAdvance
    <3>2. Good(h, y, e, f, w) /\ Ahead(a, y)
      BY <1>8, <1>11, <3>1, ForceAckGood
    <3>3. Phase(h, y.s, w)
      BY <1>3, <1>10, <2>2, <3>2, PhaseClosed DEF Ahead
    <3> QED  BY <3>2, <3>3 DEF Ready, y
  <2> QED  BY <1>8, <1>11, <2>1, <2>2 DEF Acked
<1>12. CASE y = InSequence(a, m) /\ "RST" \notin m.flags /\ ~(m.seq > a.s.rx_nxt)
  <2>1. Fine(h, a) /\ Fine(h, y)
    <3>1. a.s.state \in {"ESTABLISHED", "CLOSED"}
      BY <1>8, <1>10, <1>12 DEF Acked
    <3> QED  BY <1>2, <1>8, <1>12, <3>1, InSequenceFine
  <2>2. CASE SameRx(x.s, a.s) /\ a.s.state = x.s.state /\ a.s.nxt = x.s.nxt
    <3>1. Phase(h, a.s, w) /\ m \in Seg(Peer(h), f, Edge(a.s), w) /\ a.s.state = "ESTABLISHED"
      BY <1>9, <1>12, <2>2
    <3>2. /\ Good(h, y, e, f, w)
          /\ "FIN" \notin m.flags => \E n \in Nat : Took(h, a, y, n, w)
          /\ "FIN" \in m.flags =>
                /\ y.s.state = "CLOSE_WAIT" /\ y.s.rx_nxt = a.s.rx_nxt + 1
                /\ y.s.rx_buf = a.s.rx_buf
      BY <1>3, <1>8, <1>12, <3>1, InSequenceGood
    <3>3. CASE "FIN" \notin m.flags
      <4>1. PICK n \in Nat : Took(h, a, y, n, w)
        BY <3>2, <3>3
      <4>2. Phase(h, y.s, w)
        BY <1>3, <2>1, <3>1, <4>1, PhaseTook
      <4> QED  BY <3>2, <4>2 DEF Ready, y
    <3>4. CASE "FIN" \in m.flags
      <4>1. w.app[Peer(h)] = "closed" /\ m.seq = Base(Peer(h), w) + w.sent[Peer(h)] + 1
        BY <1>3, <3>4, FromPeer
      <4>2. m.seq <= a.s.rx_nxt
        <5>1. a.s.rx_nxt \in Nat
          BY <2>1, EdgeNat
        <5> QED  BY <1>2, <1>12, <5>1
      <4>3. Phase(h, y.s, w)
        BY <1>2, <1>3, <2>1, <3>1, <3>2, <3>4, <4>1, <4>2, PhaseFin
      <4> QED  BY <3>2, <4>3 DEF Ready, y
    <3> QED  BY <3>3, <3>4
  <2>3. CASE GivenUp(x, a) /\ m.data = <<>> /\ "FIN" \notin m.flags
    <3>1. y = NutTcpOutput(Flag(a, {"ACK", "FORCE"}), <<>>) \/ y = a
      BY <1>12, <2>3 DEF InSequence
    <3>2. Good(h, y, e, f, w) /\ Ahead(a, y)
      BY <1>8, <1>12, <3>1, ForceAckGood DEF Ahead
    <3>3. Phase(h, y.s, w)
      BY <1>3, <1>10, <2>3, <3>2, PhaseClosed DEF Ahead
    <3> QED  BY <3>2, <3>3 DEF Ready, y
  <2> QED  BY <1>8, <1>12, <2>2, <2>3 DEF Acked
<1> QED
  BY <1>1, <1>5, <1>6, <1>7, <1>11, <1>12

-----------------------------------------------------------------------------
(* What the other host does                                                *)

\* The numbers of h in two worlds: the initial one may still change as long as
\* h has sent no data, nothing does after the close.
Follows(h, w, v) ==
    /\ w.app[h] = "closed" =>
         v.app[h] = "closed" /\ v.sent[h] = w.sent[h] /\ Base(h, v) = Base(h, w)
    /\ \/ (Base(h, v) = Base(h, w) /\ w.sent[h] <= v.sent[h])
       \/ (Base(h, w) < Base(h, v) /\ w.sent[h] = 0 /\ v.sent[h] = 0)

Onward(w, v) == \A h \in Host : Follows(h, w, v)

\* What a segment says stays true ...
LEMMA SegOnward ==
    ASSUME NEW h \in Host, NEW w \in Worlds, NEW v \in Worlds, Onward(w, v),
           NEW e \in Nat, NEW d \in Nat, NEW f \in Nat, NEW g \in Nat,
           v.app[h] # "closed" => e <= d, v.app[Peer(h)] # "closed" => f <= g
    PROVE  Seg(h, e, f, w) \subseteq Seg(h, d, g, v)
<1> SUFFICES ASSUME NEW m \in Seg(h, e, f, w)
             PROVE  m \in Seg(h, d, g, v)
  OBVIOUS
<1>1. m \in Out(h) /\ m.seq \in Nat /\ m.ack \in Nat /\ m.win \in Nat
  BY DEF Seg, Out, Msg
<1>2. /\ Base(h, w) \in Nat /\ Base(h, v) \in Nat /\ w.sent[h] \in Nat /\ v.sent[h] \in Nat
      /\ Peer(h) \in Host
  BY WorldFields
<1>3. /\ w.app[h] = "closed" =>
           v.app[h] = "closed" /\ v.sent[h] = w.sent[h] /\ Base(h, v) = Base(h, w)
      /\ w.app[Peer(h)] = "closed" => v.app[Peer(h)] = "closed"
      /\ \/ (Base(h, v) = Base(h, w) /\ w.sent[h] <= v.sent[h])
         \/ (Base(h, w) < Base(h, v) /\ w.sent[h] = 0 /\ v.sent[h] = 0)
  BY <1>2 DEF Onward, Follows
<1>4. /\ w.app[h] # "closed" /\ "RST" \notin m.flags => m.ack + m.win <= e
      /\ "SYN" \in m.flags => m.seq <= Base(h, w)
      /\ "FIN" \in m.flags /\ w.app[Peer(h)] # "closed" =>
           w.app[h] = "closed" /\ m.seq = Base(h, w) + w.sent[h] + 1
      /\ m.data # <<>> =>
           /\ m.flags = {"ACK"} /\ m.data = <<m.seq - Base(h, w)>>
           /\ Base(h, w) < m.seq /\ m.seq <= Base(h, w) + w.sent[h]
           /\ w.app[Peer(h)] # "closed" => m.seq + 1 <= f
  BY DEF Seg
<1>5. v.app[h] # "closed" /\ "RST" \notin m.flags => m.ack + m.win <= d
  BY <1>1, <1>3, <1>4
<1>6. "SYN" \in m.flags => m.seq <= Base(h, v)
  BY <1>1, <1>2, <1>3, <1>4
<1>7. "FIN" \in m.flags /\ v.app[Peer(h)] # "closed" =>
        v.app[h] = "closed" /\ m.seq = Base(h, v) + v.sent[h] + 1
  BY <1>3, <1>4
<1>8. m.data # <<>> =>
        /\ m.flags = {"ACK"} /\ m.data = <<m.seq - Base(h, v)>>
        /\ Base(h, v) < m.seq /\ m.seq <= Base(h, v) + v.sent[h]
        /\ v.app[Peer(h)] # "closed" => m.seq + 1 <= g
  <2> SUFFICES ASSUME m.data # <<>>
               PROVE  /\ m.flags = {"ACK"} /\ m.data = <<m.seq - Base(h, v)>>
                      /\ Base(h, v) < m.seq /\ m.seq <= Base(h, v) + v.sent[h]
                      /\ v.app[Peer(h)] # "closed" => m.seq + 1 <= g
    OBVIOUS
  <2>1. Base(h, v) = Base(h, w) /\ w.sent[h] <= v.sent[h]
    BY <1>1, <1>2, <1>3, <1>4
  <2>2. m.seq <= Base(h, v) + v.sent[h]
    BY <1>1, <1>2, <1>4, <2>1
  <2>3. v.app[Peer(h)] # "closed" => m.seq + 1 <= g
    BY <1>1, <1>3, <1>4
  <2> QED  BY <1>4, <2>1, <2>2, <2>3
<1> QED
  BY <1>1, <1>5, <1>6, <1>7, <1>8 DEF Seg

\* ... and so does what is between a socket and its peer ...
LEMMA FlowOnward ==
    ASSUME NEW h \in Host, NEW w \in Worlds, NEW v \in Worlds, Onward(w, v), NEW s \in Socket(h),
           NEW f \in Nat, NEW g \in Nat, v.app[Peer(h)] # "closed" => f <= g, Flow(h, s, f, w)
    PROVE  Flow(h, s, g, v)
<1>1. /\ Edge(s) \in Nat /\ s.una \in Nat /\ s.win \in Nat
  BY SocketFields DEF Edge
<1>2. Peer(h) \in Host /\ Peer(Peer(h)) = h
  BY Peers
<1>3. (w.app[h] = "closed" => v.app[h] = "closed") /\ (w.app[Peer(h)] = "closed" => v.app[Peer(h)] = "closed")
  BY <1>2 DEF Onward, Follows
<1>4. Seg(h, Edge(s), f, w) \subseteq Seg(h, Edge(s), g, v)
  BY <1>1, SegOnward
<1>5. Seg(Peer(h), f, Edge(s), w) \subseteq Seg(Peer(h), g, Edge(s), v)
  BY <1>1, <1>2, SegOnward
<1>6. s.nbq \in Seq(Seg(h, Edge(s), g, v))
  BY <1>4, SeqMore DEF Flow
<1>7. v.app[Peer(h)] # "closed" => s.una + s.win <= g
  BY <1>1, <1>3 DEF Flow
<1>8. v.app[h] # "closed" => Holds(h, s, g, v)
  BY <1>3, <1>5, SeqMore DEF Flow, Holds
<1> QED
  BY <1>6, <1>7, <1>8 DEF Flow

\* ... and what the functions keep up.
LEMMA GoodOnward ==
    ASSUME NEW h \in Host, NEW w \in Worlds, NEW v \in Worlds, Onward(w, v), NEW x, Fine(h, x),
           NEW e, NEW f \in Nat, Good(h, x, e, f, w)
    PROVE  Good(h, x, e, f, v)
<1>1. Edge(x.s) \in Nat /\ x.s \in Socket(h)
  BY EdgeNat
<1>2. Flow(h, x.s, f, v)
  BY <1>1, FlowOnward DEF Good
<1>3. Seg(h, Edge(x.s), f, w) \subseteq Seg(h, Edge(x.s), f, v)
  BY <1>1, SegOnward
<1>4. x.out \in Seq(Seg(h, Edge(x.s), f, v))
  BY <1>3, SeqMore DEF Good
<1>5. w.app[h] = "closed" => v.app[h] = "closed"
  BY DEF Onward, Follows
<1> QED
  BY <1>2, <1>4, <1>5 DEF Good

\* What the socket of h says stays true when the peer sends more, begins anew
\* or closes.
LEMMA PhaseOnward ==
    ASSUME NEW h \in Host, NEW w \in Worlds, NEW v \in Worlds, Onward(w, v), NEW s \in Socket(h),
           v.app[h] = w.app[h], v.sent[h] = w.sent[h], v.got[h] = w.got[h], Base(h, v) = Base(h, w),
           Phase(h, s, w)
    PROVE  Phase(h, s, v)
<1> DEFINE p == Peer(h)
           b == Base(p, w)
           c == Base(p, v)
           n == Len(w.got[h])
           l == Len(s.rx_buf)
           k == n + l
<1>1. /\ p \in Host /\ b \in Nat /\ c \in Nat /\ w.sent[p] \in Nat /\ v.sent[p] \in Nat
      /\ k \in Nat /\ s.rx_nxt \in Nat /\ s.rx_buf \in Seq(Nat) /\ w.got[h] \in Seq(Nat)
      /\ Len(w.got[h]) \in Nat /\ Len(s.rx_buf) \in Nat
  <2>1. /\ p \in Host /\ b \in Nat /\ c \in Nat /\ w.sent[p] \in Nat /\ v.sent[p] \in Nat
        /\ w.got[h] \in Seq(Nat)
    BY WorldFields
  <2>2. s.rx_nxt \in Nat /\ s.rx_buf \in Seq(Nat)
    BY SocketFields
  <2>3. Len(w.got[h]) \in Nat /\ Len(s.rx_buf) \in Nat
    BY <2>1, <2>2, LenProperties
  <2>4. k \in Nat
    <3>1. n \in Nat /\ l \in Nat
      BY <2>3
    <3> HIDE DEF n, l
    <3> QED  BY <3>1
  <2> QED  BY <2>1, <2>2, <2>3, <2>4
<1>2. /\ w.app[p] = "closed" => v.app[p] = "closed" /\ v.sent[p] = w.sent[p] /\ c = b
      /\ \/ (c = b /\ w.sent[p] <= v.sent[p])
         \/ (b < c /\ w.sent[p] = 0 /\ v.sent[p] = 0)
  BY <1>1 DEF Onward, Follows
<1>3. Early(h, s, w) => Early(h, s, v)
  BY DEF Early
<1>4. s.state = "CLOSE_WAIT" => w.app[p] = "closed" /\ v.app[p] = "closed"
  BY <1>2 DEF Phase
<1>5. ASSUME Reads(h, s, w), s.state \in {"ESTABLISHED", "CLOSE_WAIT"}
      PROVE  Reads(h, s, v)
  <2>1. \/ (s.rx_nxt <= b /\ w.got[h] = <<>> /\ s.rx_buf = <<>> /\ s.state = "ESTABLISHED")
        \/ /\ s.rx_nxt = (b + 1) + k + (IF s.state = "CLOSE_WAIT" THEN 1 ELSE 0)
           /\ k <= w.sent[p] /\ (s.state = "CLOSE_WAIT" => k = w.sent[p])
           /\ \A i \in 1..Len(s.rx_buf) : s.rx_buf[i] = Len(w.got[h]) + i
    BY <1>5 DEF Reads
  <2>2. CASE s.state = "CLOSE_WAIT"
    <3>1. c = b /\ v.sent[p] = w.sent[p]
      BY <1>2, <1>4, <2>2
    <3> QED  BY <1>5, <3>1 DEF Reads
  <2>3. CASE s.state = "ESTABLISHED" /\ s.rx_nxt <= b /\ w.got[h] = <<>> /\ s.rx_buf = <<>>
    <3>1. s.rx_nxt <= c
      <4> HIDE DEF b, c, k, p
      <4> QED  BY <1>1, <1>2, <2>3
    <3> QED  BY <2>3, <3>1 DEF Reads
  <2>4. CASE /\ s.state = "ESTABLISHED" /\ s.rx_nxt = (b + 1) + k + 0 /\ k <= w.sent[p]
             /\ \A i \in 1..Len(s.rx_buf) : s.rx_buf[i] = Len(w.got[h]) + i
    <3>1. CASE c = b /\ w.sent[p] <= v.sent[p]
      <4>1. k <= v.sent[p] /\ s.rx_nxt = (c + 1) + k + 0
        <5> HIDE DEF b, c, k, p
        <5> QED  BY <1>1, <2>4, <3>1
      <4> QED  BY <2>4, <4>1 DEF Reads
    <3>2. CASE b < c /\ w.sent[p] = 0 /\ v.sent[p] = 0
      <4>1. s.rx_nxt <= c /\ Len(w.got[h]) = 0 /\ Len(s.rx_buf) = 0
        <5>1. k = 0
          <6> HIDE DEF b, c, k, p
          <6> QED  BY <1>1, <2>4, <3>2
        <5>2. Len(w.got[h]) = 0 /\ Len(s.rx_buf) = 0
          <6>1. n \in Nat /\ l \in Nat /\ n + l = 0
            BY <1>1, <5>1
          <6>2. n = 0 /\ l = 0
            <7> HIDE DEF n, l
            <7> QED  BY <6>1
          <6> QED  BY <6>2
        <5> HIDE DEF b, c, k, p
        <5> QED  BY <1>1, <2>4, <3>2, <5>1, <5>2
      <4>2. w.got[h] = <<>> /\ s.rx_buf = <<>>
        BY <1>1, <4>1, EmptySeq
      <4> QED  BY <2>4, <4>1, <4>2 DEF Reads
    <3> QED  BY <1>2, <3>1, <3>2
  <2> QED  BY <1>5, <2>1, <2>2, <2>3, <2>4
<1> QED
  BY <1>3, <1>4, <1>5 DEF Phase

-----------------------------------------------------------------------------
(* Transitions with a SYN or a FIN                                         *)

\* NutTcpStateChange with a segment that is kept until it is acknowledged.
LEMMA ChangeGood ==
    ASSUME NEW h \in Host, NEW w \in Worlds, NEW e, NEW f, NEW x, Fine(h, x), Good(h, x, e, f, w),
           NEW to, CanGo(x.s.state, to), Transition[x.s.state][to] \cap {"SYN", "FIN"} # {},
           h = client \/ to # "SYN_SENT",
           \A m \in Out(h) :
              Offer(x.s, m) /\ m.flags \cap {"SYN", "FIN"} = Transition[x.s.state][to] \cap {"SYN", "FIN"}
              => m \in Seg(h, Edge(x.s), f, w)
    PROVE  LET y == NutTcpStateChange(x, to)
           IN  /\ Good(h, y, e, f, w) /\ SameRx(x.s, y.s) /\ y.s.state = to
               /\ y.s.una = x.s.una /\ y.s.nxt = x.s.nxt + 1 /\ y.s.win = x.s.win
<1> DEFINE y == NutTcpStateChange(x, to)
           c == Transition[x.s.state][to] \cap {"SYN", "FIN"}
<1>1. Changed(h, x, y, to) /\ c # {}
  BY StateIs
<1> HIDE DEF y
<1>2. /\ SameRx(x.s, y.s) /\ y.s.state = to /\ y.s.una = x.s.una /\ y.s.win = x.s.win
      /\ y.s.nxt = x.s.nxt + 1
      /\ \E m \in Out(h) :
            /\ Offer(x.s, m) /\ m.flags \cap {"SYN", "FIN"} = c
            /\ y.s.nbq = Append(x.s.nbq, m) /\ y.out = Append(x.out, m)
  BY <1>1 DEF Changed
<1>3. PICK m \in Out(h) :
            /\ Offer(x.s, m) /\ m.flags \cap {"SYN", "FIN"} = c
            /\ y.s.nbq = Append(x.s.nbq, m) /\ y.out = Append(x.out, m)
  BY <1>2
<1>4. m \in Seg(h, Edge(x.s), f, w)
  BY <1>3
<1>5. y.s.nbq \in Seq(Seg(h, Edge(x.s), f, w)) /\ y.out \in Seq(Seg(h, Edge(x.s), f, w))
  BY <1>3, <1>4, AppendProperties DEF Good, Flow
<1>6. Good(h, y, e, f, w)
  BY <1>2, <1>5, GoodKept DEF Good, Flow
<1> QED
  BY <1>2, <1>6 DEF y

-----------------------------------------------------------------------------
(* A segment while the connection is opened                                *)

\* The world with another initial sequence number of the server.
Renew(w, i) == [w EXCEPT !.isn = i]

\* It is a world again.
LEMMA RenewFields ==
    ASSUME NEW w \in Worlds, NEW i \in Nat
    PROVE  LET v == Renew(w, i)
           IN  /\ v \in Worlds /\ v.app = w.app /\ v.sent = w.sent /\ v.got = w.got /\ v.isn = i
               /\ Base(server, v) = i /\ Base(client, v) = 0 /\ (i = w.isn => v = w)
               /\ Base(server, w) = w.isn /\ Base(client, w) = 0
<1>1. client # server
  BY TcpAssumption
<1> QED
  BY <1>1 DEF Renew, Worlds, Base

\* When the server takes a SYN, its initial sequence number is the next one.
LEMMA RenewOnward ==
    ASSUME NEW w \in Worlds, NEW i \in Nat, w.app[server] # "closed", w.sent[server] = 0, i >= w.isn
    PROVE  Onward(w, Renew(w, i))
<1> DEFINE v == Renew(w, i)
<1>1. /\ v \in Worlds /\ v.app = w.app /\ v.sent = w.sent /\ v.got = w.got
      /\ Base(server, v) = i /\ Base(client, v) = 0
      /\ Base(server, w) = w.isn /\ Base(client, w) = 0
  BY RenewFields
<1> HIDE DEF v
<1>2. /\ w.isn \in Nat /\ \A h \in Host : w.sent[h] \in Nat
  BY DEF Worlds
<1>3. Follows(client, w, v)
  BY <1>1, <1>2 DEF Follows, Host
<1>4. Follows(server, w, v)
  BY <1>1, <1>2 DEF Follows, Host
<1> QED
  BY <1>3, <1>4 DEF Onward, Host, v

\* The segments with SYN that h may send.
LEMMA SynSeg ==
    ASSUME NEW h \in Host, NEW w \in Worlds, NEW s, NEW f, NEW m \in Out(h), Offer(s, m),
           m.flags \cap {"SYN", "FIN"} = {"SYN"}, s.nxt <= Base(h, w)
    PROVE  m \in Seg(h, Edge(s), f, w)
<1>1. "FIN" \notin m.flags
  OBVIOUS
<1> QED
  BY <1>1 DEF Seg, Offer

\* The segments with FIN.
LEMMA FinSeg ==
    ASSUME NEW h \in Host, NEW w \in Worlds, NEW s, NEW f, NEW m \in Out(h), Offer(s, m),
           m.flags \cap {"SYN", "FIN"} = {"FIN"},
           \/ w.app[Peer(h)] = "closed"
           \/ (w.app[h] = "closed" /\ s.nxt = Base(h, w) + w.sent[h] + 1)
    PROVE  m \in Seg(h, Edge(s), f, w)
<1>1. "SYN" \notin m.flags
  OBVIOUS
<1> QED
  BY <1>1 DEF Seg, Offer

\* NutTcpStateListen
LEMMA ListenGood ==
    ASSUME NEW h \in Host, NEW w \in Worlds, NEW e \in Nat, NEW f \in Nat, NEW x, Fine(h, x),
           Ready(h, x, e, f, w), x.s.state = "LISTEN", w.app[h] = "open",
           NEW m \in Seg(Peer(h), f, Edge(x.s), w)
    PROVE  \E i \in Nat : /\ Onward(w, Renew(w, i)) /\ (h = server \/ i = w.isn)
                          /\ Ready(h, NutTcpStateListen(x, m), e, f, Renew(w, i))
<1> DEFINE y == NutTcpStateListen(x, m)
           a == NutTcpProcessSyn(x, m)
           b == NutTcpStateChange(a, "SYN_RECEIVED")
           i == x.s.nxt
           v == Renew(w, i)
<1>1. y = NutTcpReject(x, m) \/ (y = b /\ "SYN" \in m.flags /\ "RST" \notin m.flags)
  BY DEF NutTcpStateListen
<1>2. /\ m \in Msg /\ m.seq \in Nat /\ m.ack \in Nat /\ m.win \in Nat
      /\ w.app[Peer(h)] # "closed" /\ "RST" \notin m.flags => m.ack + m.win <= f
      /\ "SYN" \in m.flags => m.seq <= Base(Peer(h), w)
  BY FromPeer
<1>3. /\ x.s.nxt \in Nat /\ x.s.rx_nxt \in Nat /\ x.s.una \in Nat
  BY EdgeNat
<1>4. Good(h, x, e, f, w) /\ Phase(h, x.s, w) /\ Early(h, x.s, w) /\ h = server
  BY DEF Ready, Phase, EarlyState, Early
<1>5. /\ x.s.una = 0 /\ w.sent[h] = 0 /\ w.got[h] = <<>> /\ x.s.rx_buf = <<>> /\ x.s.rx_win = RXBSZ
      /\ x.s.nxt = w.isn + 1 \/ (x.s.nxt = 0 /\ w.isn = 0)
      /\ x.s.rx_nxt <= 1 /\ Base(Peer(h), w) = 0
  BY <1>4, TcpAssumption DEF Early, Base, Peer
<1>6. /\ w.isn \in Nat /\ Renew(w, w.isn) = w /\ Onward(w, w)
  <2>1. w.isn \in Nat
    BY DEF Worlds
  <2>2. Renew(w, w.isn) = w
    BY <2>1, RenewFields
  <2>3. \A g \in Host : w.sent[g] \in Nat
    BY DEF Worlds
  <2>4. Onward(w, w)
    BY <2>3 DEF Onward, Follows
  <2> QED  BY <2>1, <2>2, <2>4
<1> HIDE DEF y
<1>7. CASE y = NutTcpReject(x, m)
  <2>1. Good(h, y, e, f, w) /\ y.s = x.s
    BY <1>2, <1>4, <1>7, RejectGood
  <2>2. Ready(h, y, e, f, w)
    BY <1>4, <2>1 DEF Ready
  <2> QED  BY <1>6, <2>2 DEF y
<1>8. CASE y = b /\ "SYN" \in m.flags /\ "RST" \notin m.flags
  <2>1. m.seq = 0
    BY <1>2, <1>5, <1>8
  <2>2. w.app[Peer(h)] # "closed" => x.s.una + m.win <= f
    <3> SUFFICES ASSUME w.app[Peer(h)] # "closed" PROVE x.s.una + m.win <= f
      OBVIOUS
    <3>1. m.ack + m.win <= f /\ x.s.una + m.win = m.win
      BY <1>2, <1>5, <1>8
    <3> QED  BY <1>2, <3>1
  <2>3. x.s.rx_nxt <= m.seq + 1
    BY <1>3, <1>5, <2>1
  <2>4. /\ Fine(h, a) /\ Good(h, a, e, f, w) /\ a.s.rx_nxt = m.seq + 1 /\ a.s.rx_buf = x.s.rx_buf
        /\ a.s.rx_win = x.s.rx_win /\ a.s.state = x.s.state /\ a.s.una = x.s.una /\ a.s.nxt = x.s.nxt
    BY <1>2, <1>4, <2>2, <2>3, ProcessSynFine, ProcessSynGood
  <2> HIDE DEF a
  <2>5. Onward(w, v)
    <3>1. i >= w.isn
      BY <1>3, <1>5, <1>6
    <3> QED  BY <1>3, <1>4, <1>5, <3>1, RenewOnward
  <2>6. /\ v \in Worlds /\ v.app = w.app /\ v.sent = w.sent /\ v.got = w.got
        /\ Base(h, v) = i /\ Base(client, v) = 0
    BY <1>3, <1>4, RenewFields
  <2> HIDE DEF v
  <2>7. Good(h, a, e, f, v)
    BY <2>4, <2>5, <2>6, GoodOnward
  <2>8. /\ CanGo("LISTEN", "SYN_RECEIVED")
        /\ Transition["LISTEN"]["SYN_RECEIVED"] \cap {"SYN", "FIN"} = {"SYN"}
    BY Transitions DEF Transition
  <2>9. ASSUME NEW n \in Out(h), Offer(a.s, n), n.flags \cap {"SYN", "FIN"} = {"SYN"}
        PROVE  n \in Seg(h, Edge(a.s), f, v)
    <3>1. a.s.nxt <= Base(h, v)
      BY <1>3, <2>4, <2>6
    <3> QED  BY <2>6, <2>9, <3>1, SynSeg
  <2>10. /\ Good(h, b, e, f, v) /\ SameRx(a.s, b.s) /\ b.s.state = "SYN_RECEIVED"
         /\ b.s.una = a.s.una /\ b.s.nxt = a.s.nxt + 1
    <3> DEFINE c == Transition["LISTEN"]["SYN_RECEIVED"] \cap {"SYN", "FIN"}
    <3>1. /\ a.s.state = "LISTEN" /\ c # {}
          /\ \A n \in Out(h) : Offer(a.s, n) /\ n.flags \cap {"SYN", "FIN"} = c
                                => n \in Seg(h, Edge(a.s), f, v)
      BY <2>4, <2>8, <2>9
    <3> QED  BY <2>4, <2>6, <2>7, <2>8, <3>1, ChangeGood
  <2> HIDE DEF b
  <2>11. Early(h, b.s, v)
    <3>1. b.s.rx_nxt = 1
      BY <2>1, <2>4, <2>10 DEF SameRx
    <3>2. /\ b.s.una = 0 /\ v.sent[h] = 0 /\ v.got[h] = <<>> /\ b.s.rx_buf = <<>>
          /\ b.s.rx_win = RXBSZ /\ b.s.nxt = Base(h, v) + 1
      BY <1>5, <2>4, <2>6, <2>10 DEF SameRx
    <3> QED  BY <1>4, <2>6, <2>10, <3>1, <3>2 DEF Early
  <2>12. Phase(h, b.s, v)
    BY <2>10, <2>11 DEF Phase
  <2>13. Ready(h, y, e, f, v)
    BY <1>8, <2>10, <2>12 DEF Ready
  <2> QED  BY <1>3, <1>4, <2>5, <2>13 DEF v, y
<1> QED
  BY <1>1, <1>7, <1>8

\* A connection that has just been established.
LEMMA PhaseBegins ==
    ASSUME NEW h \in Host, NEW w \in Worlds, NEW s \in Socket(h), s.state = "ESTABLISHED",
           w.app[h] # "new", s.nxt = Base(h, w) + 1, w.sent[h] = 0, w.got[h] = <<>>, s.rx_buf = <<>>,
           s.rx_nxt <= Base(Peer(h), w) + 1
    PROVE  Phase(h, s, w)
<1>1. /\ s.rx_nxt \in Nat /\ Base(h, w) \in Nat /\ Base(Peer(h), w) \in Nat /\ w.sent[Peer(h)] \in Nat
  BY SocketFields, WorldFields
<1>2. Len(w.got[h]) = 0 /\ Len(s.rx_buf) = 0
  OBVIOUS
<1>3. Reads(h, s, w)
  <2>1. s.rx_nxt <= Base(Peer(h), w) \/ s.rx_nxt = Base(Peer(h), w) + 1
    BY <1>1
  <2>2. CASE s.rx_nxt <= Base(Peer(h), w)
    BY <2>2 DEF Reads
  <2>3. CASE s.rx_nxt = Base(Peer(h), w) + 1
    <3> DEFINE k == Len(w.got[h]) + Len(s.rx_buf)
    <3>1. k = 0 /\ s.rx_nxt = (Base(Peer(h), w) + 1) + k + 0 /\ k <= w.sent[Peer(h)]
      BY <1>1, <1>2, <2>3
    <3>2. \A i \in 1..Len(s.rx_buf) : s.rx_buf[i] = Len(w.got[h]) + i
      BY <1>2
    <3> QED  BY <3>1, <3>2 DEF Reads
  <2> QED  BY <2>1, <2>2, <2>3
<1>4. s.nxt = Base(h, w) + w.sent[h] + 1
  BY <1>1
<1> QED
  BY <1>3, <1>4 DEF Phase, EarlyState

\* NutTcpStateSynSent
LEMMA SynSentGood ==
    ASSUME NEW h \in Host, NEW w \in Worlds, NEW e \in Nat, NEW f \in Nat, NEW x, Fine(h, x),
           Ready(h, x, e, f, w), x.s.state = "SYN_SENT", w.app[h] = "open",
           NEW m \in Seg(Peer(h), f, Edge(x.s), w)
    PROVE  Ready(h, NutTcpStateSynSent(x, m), e, f, w)
<1> DEFINE y == NutTcpStateSynSent(x, m)
           a == NutTcpProcessSyn(x, m)
           b == NutTcpProcessAck(a, m)
           c == NutTcpStateChange(b, "ESTABLISHED")
<1>1. /\ m \in Msg /\ m \in Out(Peer(h)) /\ m.seq \in Nat /\ m.ack \in Nat /\ m.win \in Nat
      /\ w.app[Peer(h)] # "closed" /\ "RST" \notin m.flags => m.ack + m.win <= f
      /\ "SYN" \in m.flags => m.seq <= Base(Peer(h), w)
  BY FromPeer
<1>2. Good(h, x, e, f, w) /\ Phase(h, x.s, w) /\ Early(h, x.s, w) /\ h = client
  BY DEF Ready, Phase, EarlyState, Early
<1>3. "SYN" \in m.flags => "ACK" \in m.flags
  BY <1>1, <1>2, TcpAssumption DEF Out, Peer
<1>4. \/ y = NutTcpReject(x, m) \/ y = x \/ y = NutTcpAbortSocket(x)
      \/ (y = Wakes(c, {"connect"}) /\ "SYN" \in m.flags /\ "RST" \notin m.flags /\ 1 <= m.ack)
  BY <1>3 DEF NutTcpStateSynSent
<1>5. /\ x.s.una = 0 /\ w.sent[h] = 0 /\ w.got[h] = <<>> /\ x.s.rx_buf = <<>> /\ x.s.rx_nxt = 0
      /\ x.s.nxt = Base(h, w) + 1
  BY <1>2 DEF Early
<1>6. /\ x.s.nxt \in Nat /\ Base(h, w) \in Nat /\ Base(Peer(h), w) \in Nat
  BY EdgeNat, WorldFields
<1> HIDE DEF y
<1>7. CASE y = NutTcpReject(x, m)
  <2>1. Good(h, y, e, f, w) /\ y.s = x.s
    BY <1>1, <1>2, <1>7, RejectGood
  <2> QED  BY <1>2, <2>1 DEF Ready, y
<1>8. CASE y = x
  BY <1>8 DEF y
<1>9. CASE y = NutTcpAbortSocket(x)
  <2>1. Good(h, y, e, f, w) /\ y.s.rx_buf = <<>>
    BY <1>2, <1>9, AbortGood DEF Dropped
  <2>2. y.s.state = "CLOSED"
    BY <1>9, AbortFine DEF HasClosed
  <2>3. Phase(h, y.s, w)
    BY <2>1, <2>2, PhaseClosed
  <2> QED  BY <2>1, <2>3 DEF Ready, y
<1>10. CASE y = Wakes(c, {"connect"}) /\ "SYN" \in m.flags /\ "RST" \notin m.flags /\ 1 <= m.ack
  <2>1. w.app[Peer(h)] # "closed" => x.s.una + m.win <= f
    <3> SUFFICES ASSUME w.app[Peer(h)] # "closed" PROVE x.s.una + m.win <= f
      OBVIOUS
    <3>1. m.ack + m.win <= f /\ x.s.una + m.win = m.win
      BY <1>1, <1>5, <1>10
    <3> QED  BY <1>1, <3>1
  <2>2. x.s.rx_nxt <= m.seq + 1
    BY <1>1, <1>5
  <2>3. /\ Fine(h, a) /\ Good(h, a, e, f, w) /\ a.s.rx_nxt = m.seq + 1 /\ a.s.rx_buf = <<>>
        /\ a.s.state = "SYN_SENT" /\ a.s.una = 0 /\ a.s.nxt = x.s.nxt
    BY <1>1, <1>2, <1>5, <2>1, <2>2, ProcessSynFine, ProcessSynGood
  <2> HIDE DEF a
  <2>4. Good(h, b, e, f, w) /\ Acked(a, b, m) /\ Fine(h, b)
    BY <1>1, <1>10, <2>3, ProcessAckGood, ProcessAckFine
  <2> HIDE DEF b
  <2>5. /\ b.s.state = "SYN_SENT" /\ b.s.rx_nxt = m.seq + 1 /\ b.s.rx_buf = <<>> /\ b.s.nxt = x.s.nxt
    <3>1. m.ack # a.s.una
      BY <1>1, <1>10, <2>3
    <3> QED  BY <2>3, <2>4, <3>1 DEF Acked, SameRx
  <2>6. CanGo("SYN_SENT", "ESTABLISHED") /\ Transition["SYN_SENT"]["ESTABLISHED"] \cap {"SYN", "FIN"} = {}
    BY Transitions DEF Transition
  <2>7. /\ Good(h, c, e, f, w) /\ c.s.state = "ESTABLISHED" /\ c.s.rx_nxt = m.seq + 1
        /\ c.s.rx_buf = <<>> /\ c.s.nxt = x.s.nxt
    BY <2>4, <2>5, <2>6, StateGood DEF SameRx
  <2>8. Fine(h, c)
    BY <1>2, <2>4, <2>5, <2>6, StateChanged
  <2> HIDE DEF c
  <2>9. Good(h, y, e, f, w) /\ y.s = c.s
    BY <1>10, <2>7, <2>8, WakesGood
  <2>10. c.s \in Socket(h)
    BY <2>8, EdgeNat
  <2>11. Phase(h, c.s, w)
    <3>1. c.s.rx_nxt <= Base(Peer(h), w) + 1
      BY <1>1, <1>6, <1>10, <2>7
    <3> QED  BY <1>5, <2>7, <2>10, <3>1, PhaseBegins
  <2> QED  BY <2>9, <2>11 DEF Ready, y
<1> QED
  BY <1>4, <1>7, <1>8, <1>9, <1>10 DEF y

\* NutTcpStateSynReceived.  Data and a FIN are taken whatever their sequence
\* number is, which is the one expected if the client has not sent data yet.
LEMMA SynReceivedGood ==
    ASSUME NEW h \in Host, NEW w \in Worlds, NEW e \in Nat, NEW f \in Nat, NEW x, Fine(h, x),
           Ready(h, x, e, f, w), x.s.state = "SYN_RECEIVED", w.app[h] = "open",
           ServerFirst => w.sent[Peer(h)] = 0,
           NEW m \in Seg(Peer(h), f, Edge(x.s), w)
    PROVE  Ready(h, NutTcpStateSynReceived(x, m), e, f, w)
<1> DEFINE y == NutTcpStateSynReceived(x, m)
           a == NutTcpProcessAck(x, m)
           b == IF m.data # <<>> THEN NutTcpProcessAppData(a, m) ELSE a
           c == [b EXCEPT !.s.rx_nxt = @ + 1]
           d == NutTcpStateChange(b, "ESTABLISHED")
           l == NutTcpStateChange(x, "LISTEN")
           t == NutTcpAbortSocket(x)
<1>1. /\ m \in Msg /\ m.seq \in Nat /\ m.ack \in Nat /\ m.win \in Nat
      /\ w.app[Peer(h)] # "closed" /\ "RST" \notin m.flags => m.ack + m.win <= f
      /\ "FIN" \in m.flags => /\ w.app[Peer(h)] = "closed" /\ m.data = <<>>
                              /\ m.seq = Base(Peer(h), w) + w.sent[Peer(h)] + 1
  BY FromPeer
<1>2. Good(h, x, e, f, w) /\ Phase(h, x.s, w) /\ Early(h, x.s, w) /\ h = server
  BY DEF Ready, Phase, EarlyState, Early
<1>3. /\ x.s.una = 0 /\ w.sent[h] = 0 /\ w.got[h] = <<>> /\ x.s.rx_buf = <<>> /\ x.s.rx_nxt = 1
      /\ x.s.nxt = Base(h, w) + 1 /\ x.s.rx_win = RXBSZ /\ Base(Peer(h), w) = 0
  BY <1>2, TcpAssumption DEF Early, Base, Peer
<1>4. /\ x.s.nxt \in Nat /\ Base(h, w) \in Nat /\ w.sent[Peer(h)] \in Nat
  BY EdgeNat, WorldFields
<1>5. \/ y = NutTcpReject(x, m) \/ y = x \/ y = DiscardBuffers(l) \/ y = DiscardBuffers(t)
      \/ /\ "RST" \notin m.flags /\ x.s.una + 1 <= m.ack
         /\ \/ y = NutTcpStateChange(c, "CLOSE_WAIT") /\ "FIN" \in m.flags
            \/ y = Wakes(d, {"accept", "connect"})
  BY DEF NutTcpStateSynReceived
<1> HIDE DEF y
<1>6. CASE y = NutTcpReject(x, m)
  <2>1. Good(h, y, e, f, w) /\ y.s = x.s
    BY <1>1, <1>2, <1>6, RejectGood
  <2> QED  BY <1>2, <2>1 DEF Ready, y
<1>7. CASE y = x
  BY <1>7 DEF y
<1>8. CASE y = DiscardBuffers(l)
  <2>1. CanGo("SYN_RECEIVED", "LISTEN") /\ Transition["SYN_RECEIVED"]["LISTEN"] \cap {"SYN", "FIN"} = {}
    BY Transitions DEF Transition
  <2>2. /\ Good(h, l, e, f, w) /\ SameRx(x.s, l.s) /\ l.s.state = "LISTEN" /\ l.s.una = x.s.una
        /\ l.s.nxt = x.s.nxt
    BY <1>2, <2>1, StateGood
  <2>3. Fine(h, l)
    BY <2>1, StateChanged
  <2> HIDE DEF l
  <2>4. Good(h, y, e, f, w) /\ Dropped(l, y) /\ y.s.state = "LISTEN"
    BY <1>8, <2>2, <2>3, DiscardGood
  <2>5. Early(h, y.s, w)
    <3>1. /\ y.s.una = 0 /\ y.s.rx_buf = <<>> /\ y.s.rx_nxt = 1 /\ y.s.nxt = Base(h, w) + 1
          /\ y.s.rx_win = RXBSZ
      BY <1>3, <2>2, <2>4 DEF SameRx, Dropped
    <3> QED  BY <1>2, <1>3, <2>4, <3>1 DEF Early
  <2>6. Phase(h, y.s, w)
    BY <2>4, <2>5 DEF Phase
  <2> QED  BY <2>4, <2>6 DEF Ready, y
<1>9. CASE y = DiscardBuffers(t)
  <2>1. Fine(h, t) /\ t.s.state = "CLOSED"
    BY AbortFine DEF HasClosed
  <2>2. Good(h, t, e, f, w)
    BY <1>2, AbortGood
  <2> HIDE DEF t
  <2>3. Good(h, y, e, f, w) /\ y.s.rx_buf = <<>> /\ y.s.state = "CLOSED"
    BY <1>9, <2>1, <2>2, DiscardGood DEF Dropped
  <2>4. Phase(h, y.s, w)
    BY <2>3, PhaseClosed
  <2> QED  BY <2>3, <2>4 DEF Ready, y
<1>10. CASE "RST" \notin m.flags /\ x.s.una + 1 <= m.ack
  <2>1. Good(h, a, e, f, w) /\ Acked(x, a, m) /\ Fine(h, a)
    BY <1>1, <1>2, <1>10, ProcessAckGood, ProcessAckFine
  <2> HIDE DEF a
  <2>2. SameRx(x.s, a.s) /\ a.s.state = "SYN_RECEIVED" /\ a.s.nxt = x.s.nxt
    <3>1. m.ack # x.s.una
      BY <1>1, <1>3, <1>10
    <3> QED  BY <2>1, <3>1 DEF Acked
  <2>3. CASE m.data # <<>> /\ y = Wakes(d, {"accept", "connect"})
    <3>1. ~ServerFirst /\ Len(m.data) = 1
      BY <1>3, <1>4, <2>3, Peers, DataIs
    <3>2. a.s.rx_win >= 1
      BY <1>3, <2>2, TcpAssumption DEF SameRx
    <3>3. b = NutTcpProcessAppData(a, m)
      BY <2>3
    <3> HIDE DEF b
    <3>4. Fine(h, b) /\ Good(h, b, e, f, w) /\ Stored(a, b, m.data)
      BY <1>1, <2>1, <3>1, <3>2, <3>3, AppDataGood, AppDataFine
    <3>5. b.s.state = "SYN_RECEIVED" /\ b.s.nxt = x.s.nxt
      BY <2>2, <3>4 DEF Stored
    <3>6. CanGo("SYN_RECEIVED", "ESTABLISHED")
          /\ Transition["SYN_RECEIVED"]["ESTABLISHED"] \cap {"SYN", "FIN"} = {}
      BY Transitions DEF Transition
    <3>7. Good(h, d, e, f, w) /\ d.s.state = "ESTABLISHED" /\ d.s.nxt = x.s.nxt /\ Fine(h, d)
      BY <3>4, <3>5, <3>6, StateGood, StateChanged
    <3> HIDE DEF d
    <3>8. Good(h, y, e, f, w) /\ y.s = d.s
      BY <2>3, <3>7, WakesGood
    <3>9. d.s.nxt = Base(h, w) + w.sent[h] + 1
      BY <1>3, <1>4, <3>7
    <3>10. Phase(h, d.s, w)
      BY <3>1, <3>7, <3>9 DEF Phase, EarlyState
    <3> QED  BY <3>8, <3>10 DEF Ready, y
  <2>4. CASE m.data = <<>> /\ y = Wakes(d, {"accept", "connect"})
    <3>1. b = a
      BY <2>4
    <3> HIDE DEF b
    <3>2. CanGo("SYN_RECEIVED", "ESTABLISHED")
          /\ Transition["SYN_RECEIVED"]["ESTABLISHED"] \cap {"SYN", "FIN"} = {}
      BY Transitions DEF Transition
    <3>3. /\ Good(h, d, e, f, w) /\ d.s.state = "ESTABLISHED" /\ d.s.nxt = x.s.nxt
          /\ Fine(h, d) /\ SameRx(a.s, d.s)
      BY <2>1, <2>2, <3>1, <3>2, StateGood, StateChanged
    <3> HIDE DEF d
    <3>4. Good(h, y, e, f, w) /\ y.s = d.s
      BY <2>4, <3>3, WakesGood
    <3>5. d.s \in Socket(h)
      BY <3>3, EdgeNat
    <3>6. d.s.rx_nxt <= Base(Peer(h), w) + 1 /\ d.s.rx_buf = <<>>
      BY <1>3, <2>2, <3>3 DEF SameRx
    <3>7. Phase(h, d.s, w)
      BY <1>3, <3>3, <3>5, <3>6, PhaseBegins
    <3> QED  BY <3>4, <3>7 DEF Ready, y
  <2>5. CASE y = NutTcpStateChange(c, "CLOSE_WAIT") /\ "FIN" \in m.flags
    <3>1. b = a
      BY <1>1, <2>5
    <3> HIDE DEF b
    <3>2. /\ Good(h, c, e, f, w) /\ c.s.rx_nxt = a.s.rx_nxt + 1 /\ c.s.rx_buf = a.s.rx_buf
          /\ c.s.state = a.s.state
      BY <2>1, <3>1, BumpGood
    <3>3. Fine(h, c)
      BY <2>1, <3>1, BumpFine
    <3> HIDE DEF c
    <3>4. /\ CanGo("SYN_RECEIVED", "CLOSE_WAIT")
          /\ Transition["SYN_RECEIVED"]["CLOSE_WAIT"] \cap {"SYN", "FIN"} = {"FIN"}
      BY Transitions DEF Transition
    <3>5. ASSUME NEW n \in Out(h), Offer(c.s, n), n.flags \cap {"SYN", "FIN"} = {"FIN"}
          PROVE  n \in Seg(h, Edge(c.s), f, w)
      BY <1>1, <2>5, <3>5, FinSeg
    <3>6. Good(h, y, e, f, w) /\ SameRx(c.s, y.s) /\ y.s.state = "CLOSE_WAIT"
      <4> DEFINE q == Transition["SYN_RECEIVED"]["CLOSE_WAIT"] \cap {"SYN", "FIN"}
      <4>1. /\ c.s.state = "SYN_RECEIVED" /\ q # {}
            /\ \A n \in Out(h) : Offer(c.s, n) /\ n.flags \cap {"SYN", "FIN"} = q
                                  => n \in Seg(h, Edge(c.s), f, w)
        BY <2>2, <3>2, <3>4, <3>5
      <4> QED  BY <2>5, <3>2, <3>3, <3>4, <4>1, ChangeGood
    <3>7. y.s.rx_nxt = 2 /\ y.s.rx_buf = <<>>
      BY <1>3, <2>2, <3>2, <3>6 DEF SameRx
    <3>8. ServerFirst => Reads(h, y.s, w)
      <4> SUFFICES ASSUME ServerFirst PROVE Reads(h, y.s, w)
        OBVIOUS
      <4> DEFINE k == Len(w.got[h]) + Len(y.s.rx_buf)
      <4>1. k = 0 /\ y.s.rx_nxt = (Base(Peer(h), w) + 1) + k + 1 /\ k = w.sent[Peer(h)]
            /\ k <= w.sent[Peer(h)]
        BY <1>3, <3>7
      <4>2. \A i \in 1..Len(y.s.rx_buf) : y.s.rx_buf[i] = Len(w.got[h]) + i
        BY <3>7
      <4> QED  BY <3>6, <4>1, <4>2 DEF Reads
    <3>9. Phase(h, y.s, w)
      BY <1>1, <2>5, <3>6, <3>8 DEF Phase, EarlyState
    <3> QED  BY <3>6, <3>9 DEF Ready, y
  <2> QED
    BY <1>5, <1>6, <1>7, <1>8, <1>9, <2>3, <2>4, <2>5
<1> QED
  BY <1>5, <1>6, <1>7, <1>8, <1>9, <1>10

-----------------------------------------------------------------------------
(* A segment after the close                                               *)

Past(h, x, e, f, w) ==
    Fine(h, x) /\ Good(h, x, e, f, w) /\ x.s.state \in ClosedState \ {"FREE"}

\* A transition after the close.
LEMMA PastChange ==
    ASSUME NEW h \in Host, NEW w \in Worlds, NEW e, NEW f, NEW x, Past(h, x, e, f, w),
           NEW to \in ClosedState \ {"FREE"}
    PROVE  Past(h, NutTcpStateChange(x, to), e, f, w)
<1>1. CASE ~CanGo(x.s.state, to)
  BY <1>1, StateKept
<1>2. CASE CanGo(x.s.state, to)
  <2>1. Fine(h, x) /\ Good(h, x, e, f, w) /\ x.s.state \in ClosedState \ {"FREE"}
    BY DEF Past
  <2>2. to # "SYN_SENT"
    BY DEF ClosedState, AckState
  <2>3. Transition[x.s.state][to] \cap {"SYN", "FIN"} = {}
    <3>1. x.s.state \in {"FIN_WAIT_1", "CLOSING", "LAST_ACK", "FIN_WAIT_2", "TIME_WAIT", "DESTROY"}
      BY <2>1 DEF ClosedState, AckState
    <3>2. CASE x.s.state = "FIN_WAIT_1"
      BY <1>2, <3>2, Transitions DEF Transition
    <3>3. CASE x.s.state = "FIN_WAIT_2"
      BY <1>2, <3>3, Transitions DEF Transition
    <3>4. CASE x.s.state = "CLOSING"
      BY <1>2, <3>4, Transitions DEF Transition
    <3>5. CASE x.s.state = "LAST_ACK"
      BY <1>2, <3>5, Transitions DEF Transition
    <3>6. CASE x.s.state = "TIME_WAIT"
      BY <1>2, <3>6, Transitions DEF Transition
    <3>7. x.s.state # "DESTROY"
      BY <1>2, Transitions
    <3> QED  BY <3>1, <3>2, <3>3, <3>4, <3>5, <3>6, <3>7
  <2>4. Fine(h, NutTcpStateChange(x, to))
    BY <1>2, <2>1, <2>2, StateChanged
  <2>5. Good(h, NutTcpStateChange(x, to), e, f, w) /\ NutTcpStateChange(x, to).s.state = to
    BY <1>2, <2>1, <2>2, <2>3, StateGood
  <2> QED  BY <2>4, <2>5 DEF Past
<1> QED
  BY <1>1, <1>2

\* NutTcpProcessAck after the close
LEMMA PastAck ==
    ASSUME NEW h \in Host, NEW w \in Worlds, NEW e, NEW f, NEW x, Past(h, x, e, f, w),
           NEW m \in Msg, w.app[Peer(h)] # "closed" => m.ack + m.win <= f
    PROVE  Past(h, NutTcpProcessAck(x, m), e, f, w)
<1> DEFINE y == NutTcpProcessAck(x, m)
<1>1. Fine(h, x) /\ Good(h, x, e, f, w) /\ x.s.state \in ClosedState \ {"FREE"}
  BY DEF Past
<1>2. Fine(h, y) /\ Good(h, y, e, f, w) /\ Acked(x, y, m)
  BY <1>1, ProcessAckFine, ProcessAckGood
<1> HIDE DEF y
<1>3. y.s.state \in ClosedState \ {"FREE"}
  <2>1. HasClosed(x.s.state)
    BY <1>1 DEF ClosedState, AckState, HasClosed
  <2>2. y.s.state = x.s.state \/ y.s.state = "TIME_WAIT"
    BY <1>2, <2>1 DEF Acked, GivenUp
  <2> QED  BY <1>1, <2>2 DEF ClosedState
<1> QED
  BY <1>2, <1>3 DEF Past, y

\* Segments that are refused after the close.
LEMMA PastRefused ==
    ASSUME NEW h \in Host, NEW w \in Worlds, NEW e, NEW f, NEW x, Past(h, x, e, f, w), NEW m \in Msg
    PROVE  Past(h, Refused(x, m), e, f, w)
<1> DEFINE y == NutTcpReject(x, m)
<1>1. Fine(h, y) /\ Good(h, y, e, f, w) /\ y.s = x.s
  BY RejectFine, RejectGood DEF Past
<1>2. Past(h, y, e, f, w)
  BY <1>1 DEF Past
<1>3. Past(h, NutTcpStateChange(x, "DESTROY"), e, f, w)
  <2>1. "DESTROY" \in ClosedState \ {"FREE"}
    BY DEF ClosedState
  <2> QED  BY <2>1, PastChange
<1> QED
  BY <1>2, <1>3 DEF Refused

\* Data and a FIN after the close.
LEMMA PastLate ==
    ASSUME NEW h \in Host, NEW w \in Worlds, NEW e \in Nat, NEW f \in Nat, NEW x,
           Past(h, x, e, f, w), NEW m \in Msg, w.app[h] = "closed"
    PROVE  /\ Past(h, LateData(x, m), e, f, w)
           /\ \A to \in ClosedState \ {"FREE"} : Past(h, LateFin(x, m, to), e, f, w)
<1> DEFINE a == NutTcpProcessAppData(x, m)
           b == [x EXCEPT !.s.rx_nxt = @ + 1]
<1>1. Fine(h, x) /\ Good(h, x, e, f, w) /\ x.s.state \in ClosedState \ {"FREE"}
  BY DEF Past
<1>2. Past(h, Wakes(a, {"recv"}), e, f, w)
  <2>1. Fine(h, a) /\ Good(h, a, e, f, w) /\ a.s.state = x.s.state
    BY <1>1, AppDataFine, AppDataGood
  <2> HIDE DEF a
  <2>2. {"recv"} \in SUBSET Queue
    BY DEF Queue
  <2>3. /\ Fine(h, Wakes(a, {"recv"})) /\ Good(h, Wakes(a, {"recv"}), e, f, w)
        /\ Wakes(a, {"recv"}).s = a.s
    BY <2>1, <2>2, WakesFine, WakesGood
  <2> QED  BY <1>1, <2>1, <2>3 DEF Past
<1>3. Past(h, b, e, f, w)
  BY <1>1, BumpFine, BumpGood DEF Past
<1> HIDE DEF a, b
<1>4. ASSUME NEW to \in ClosedState \ {"FREE"}
      PROVE  Past(h, LateFin(x, m, to), e, f, w)
  <2>1. Past(h, NutTcpStateChange(b, to), e, f, w)
    BY <1>3, PastChange
  <2> QED  BY <2>1 DEF LateFin, b
<1>5. Past(h, LateData(x, m), e, f, w)
  BY <1>2 DEF LateData, a
<1> QED
  BY <1>4, <1>5

\* The states after NutTcpCloseSocket
LEMMA PastGood ==
    ASSUME NEW h \in Host, NEW w \in Worlds, NEW e \in Nat, NEW f \in Nat, NEW x,
           Past(h, x, e, f, w), w.app[h] = "closed", NEW d \in Nat, NEW m \in Seg(Peer(h), f, d, w)
    PROVE  /\ Past(h, NutTcpStateFinWait1(x, m), e, f, w) /\ Past(h, NutTcpStateFinWait2(x, m), e, f, w)
           /\ Past(h, NutTcpStateClosing(x, m), e, f, w) /\ Past(h, NutTcpStateLastAck(x, m), e, f, w)
<1> DEFINE a == NutTcpProcessAck(x, m)
           b == IF AllAcked(a) THEN NutTcpStateChange(a, "FIN_WAIT_2") ELSE a
           c == LateData(b, m)
<1>1. m \in Msg /\ (w.app[Peer(h)] # "closed" /\ "RST" \notin m.flags => m.ack + m.win <= f)
  BY FromPeer
<1>2. Past(h, Refused(x, m), e, f, w)
  BY <1>1, PastRefused
<1>3. /\ "FIN_WAIT_2" \in ClosedState \ {"FREE"} /\ "TIME_WAIT" \in ClosedState \ {"FREE"}
      /\ "CLOSING" \in ClosedState \ {"FREE"} /\ "DESTROY" \in ClosedState \ {"FREE"}
  BY DEF ClosedState, AckState
<1>4. CASE Refuses(m)
  BY <1>2, <1>4 DEF NutTcpStateFinWait1, NutTcpStateFinWait2, NutTcpStateClosing, NutTcpStateLastAck
<1>5. CASE ~Refuses(m)
  <2>1. "RST" \notin m.flags
    BY <1>5 DEF Refuses
  <2>2. Past(h, a, e, f, w)
    BY <1>1, <2>1, PastAck
  <2> HIDE DEF a
  <2>3. Past(h, b, e, f, w)
    BY <1>3, <2>2, PastChange
  <2> HIDE DEF b
  <2>4. Past(h, c, e, f, w) /\ Past(h, LateData(a, m), e, f, w)
    BY <1>1, <2>2, <2>3, PastLate
  <2> HIDE DEF c
  <2>5. /\ Past(h, LateFin(c, m, "TIME_WAIT"), e, f, w) /\ Past(h, LateFin(c, m, "CLOSING"), e, f, w)
        /\ Past(h, LateFin(LateData(a, m), m, "TIME_WAIT"), e, f, w)
    BY <1>1, <1>3, <2>4, PastLate
  <2>6. /\ Past(h, NutTcpStateChange(a, "TIME_WAIT"), e, f, w)
        /\ Past(h, NutTcpStateChange(a, "DESTROY"), e, f, w)
    BY <1>3, <2>2, PastChange
  <2>7. Past(h, NutTcpStateFinWait1(x, m), e, f, w)
    <3>1. NutTcpStateFinWait1(x, m) \in {LateFin(c, m, "TIME_WAIT"), LateFin(c, m, "CLOSING")}
      BY <1>5 DEF NutTcpStateFinWait1, a, b, c
    <3> QED  BY <2>5, <3>1
  <2>8. Past(h, NutTcpStateFinWait2(x, m), e, f, w)
    BY <1>5, <2>5 DEF NutTcpStateFinWait2, a
  <2>9. Past(h, NutTcpStateClosing(x, m), e, f, w)
    BY <1>5, <2>2, <2>6 DEF NutTcpStateClosing, a
  <2>10. Past(h, NutTcpStateLastAck(x, m), e, f, w)
    BY <1>5, <2>2, <2>6 DEF NutTcpStateLastAck, a
  <2> QED  BY <2>7, <2>8, <2>9, <2>10
<1> QED
  BY <1>4, <1>5

-----------------------------------------------------------------------------
(* Any segment                                                             *)

\* NutTcpStateCloseWait
LEMMA CloseWaitGood ==
    ASSUME NEW h \in Host, NEW w \in Worlds, NEW e \in Nat, NEW f \in Nat, NEW x, Fine(h, x),
           Ready(h, x, e, f, w), x.s.state = "CLOSE_WAIT", w.app[h] = "open",
           NEW d, NEW m \in Seg(Peer(h), f, d, w)
    PROVE  Ready(h, NutTcpStateCloseWait(x, m), e, f, w)
<1> DEFINE y == NutTcpStateCloseWait(x, m)
<1>1. m \in Msg /\ (w.app[Peer(h)] # "closed" /\ "RST" \notin m.flags => m.ack + m.win <= f)
  BY FromPeer
<1>2. Good(h, x, e, f, w) /\ Phase(h, x.s, w)
  BY DEF Ready
<1>3. \/ y = NutTcpReject(x, m) \/ y = x \/ y = NutTcpAbortSocket(x)
      \/ (y = NutTcpProcessAck(x, m) /\ "RST" \notin m.flags)
  BY DEF NutTcpStateCloseWait
<1>4. ~HasClosed(x.s.state)
  BY DEF HasClosed
<1> HIDE DEF y
<1>5. CASE y = NutTcpReject(x, m)
  <2>1. Good(h, y, e, f, w) /\ y.s = x.s
    BY <1>1, <1>2, <1>5, RejectGood
  <2> QED  BY <1>2, <2>1 DEF Ready, y
<1>6. CASE y = x
  BY <1>6 DEF y
<1>7. CASE y = NutTcpAbortSocket(x)
  <2>1. Good(h, y, e, f, w) /\ y.s.rx_buf = <<>>
    BY <1>2, <1>7, AbortGood DEF Dropped
  <2>2. y.s.state = "CLOSED"
    BY <1>4, <1>7, AbortFine
  <2>3. Phase(h, y.s, w)
    BY <2>1, <2>2, PhaseClosed
  <2> QED  BY <2>1, <2>3 DEF Ready, y
<1>8. CASE y = NutTcpProcessAck(x, m) /\ "RST" \notin m.flags
  <2>1. Good(h, y, e, f, w) /\ Acked(x, y, m)
    BY <1>1, <1>2, <1>8, ProcessAckGood
  <2>2. CASE GivenUp(x, y)
    <3>1. y.s.state = "CLOSED" /\ y.s.rx_buf = <<>>
      BY <1>4, <2>2 DEF GivenUp
    <3>2. Phase(h, y.s, w)
      BY <3>1, PhaseClosed
    <3> QED  BY <2>1, <3>2 DEF Ready, y
  <2>3. CASE ~GivenUp(x, y)
    <3>1. /\ y.s.state = x.s.state /\ y.s.nxt = x.s.nxt /\ y.s.rx_nxt = x.s.rx_nxt
          /\ y.s.rx_win = x.s.rx_win /\ y.s.rx_buf = x.s.rx_buf /\ x.s.state \notin EarlyState
      BY <2>1, <2>3 DEF Acked, SameRx, EarlyState
    <3>2. Phase(h, y.s, w)
      BY <1>2, <3>1, PhaseKept
    <3> QED  BY <2>1, <3>2 DEF Ready, y
  <2> QED  BY <2>2, <2>3
<1> QED
  BY <1>3, <1>5, <1>6, <1>7, <1>8 DEF y

\* The server may have begun anew.
Moves(h, y, e, f, w) ==
    \E i \in Nat : /\ Onward(w, Renew(w, i)) /\ (h = server \/ i = w.isn)
                   /\ Ready(h, y, e, f, Renew(w, i))

\* Nothing has happened.
LEMMA OnwardSame ==
    ASSUME NEW w \in Worlds
    PROVE  w.isn \in Nat /\ Renew(w, w.isn) = w /\ Onward(w, w)
<1>1. w.isn \in Nat
  BY DEF Worlds
<1>2. Renew(w, w.isn) = w
  BY <1>1, RenewFields
<1>3. \A g \in Host : w.sent[g] \in Nat
  BY DEF Worlds
<1>4. Onward(w, w)
  BY <1>3 DEF Onward, Follows
<1> QED
  BY <1>1, <1>2, <1>4

\* A function after which the server has not begun anew.
LEMMA ReadyMoves ==
    ASSUME NEW h \in Host, NEW w \in Worlds, NEW e, NEW f, NEW y, Ready(h, y, e, f, w)
    PROVE  Moves(h, y, e, f, w)
BY OnwardSame DEF Moves

\* NutTcpStateProcess
LEMMA ProcessGood ==
    ASSUME NEW h \in Host, NEW w \in Worlds, NEW e \in Nat, NEW f \in Nat, NEW x, Fine(h, x),
           Ready(h, x, e, f, w), x.s.state \notin {"CLOSED", "DESTROY", "FREE"},
           \/ (w.app[h] = "open" /\ x.s.state \in OpenState)
           \/ (w.app[h] = "closed" /\ x.s.state \in ClosedState),
           ServerFirst /\ w.sent[server] = 0 => w.sent[client] = 0,
           NEW m \in Seg(Peer(h), f, Edge(x.s), w)
    PROVE  Moves(h, NutTcpStateProcess(x, m), e, f, w)
<1> DEFINE y == NutTcpStateProcess(x, m)
<1>1. Good(h, x, e, f, w) /\ Phase(h, x.s, w) /\ m \in Msg /\ Edge(x.s) \in Nat
  BY FromPeer, EdgeNat DEF Ready
<1>2. CASE w.app[h] = "open" /\ x.s.state \in OpenState
  <2>1. x.s.state \in {"LISTEN", "SYN_SENT", "SYN_RECEIVED", "ESTABLISHED", "CLOSE_WAIT"}
    BY <1>2 DEF OpenState
  <2>2. CASE x.s.state = "LISTEN"
    <3>1. y = NutTcpStateListen(x, m)
      BY <2>2 DEF NutTcpStateProcess
    <3> QED  BY <1>2, <2>2, <3>1, ListenGood DEF Moves
  <2>3. CASE x.s.state = "SYN_SENT"
    <3>1. y = NutTcpStateSynSent(x, m)
      BY <2>3 DEF NutTcpStateProcess
    <3>2. Ready(h, y, e, f, w)
      BY <1>2, <2>3, <3>1, SynSentGood
    <3> QED  BY <3>2, ReadyMoves
  <2>4. CASE x.s.state = "SYN_RECEIVED"
    <3>1. y = NutTcpStateSynReceived(x, m)
      BY <2>4 DEF NutTcpStateProcess
    <3>2. ServerFirst => w.sent[Peer(h)] = 0
      BY <1>1, <2>4, TcpAssumption DEF Phase, EarlyState, Early, Peer
    <3>3. Ready(h, y, e, f, w)
      BY <1>2, <2>4, <3>1, <3>2, SynReceivedGood
    <3> QED  BY <3>3, ReadyMoves
  <2>5. CASE x.s.state = "ESTABLISHED"
    <3> DEFINE z == NutTcpStateEstablished(x, m)
    <3>1. y \in {z, Wakes(z, {"send"})}
      BY <2>5 DEF NutTcpStateProcess
    <3>2. Ready(h, z, e, f, w) /\ Fine(h, z)
      BY <1>1, <1>2, <2>5, EstablishedGood, EstablishedFine
    <3> HIDE DEF z
    <3>3. Ready(h, Wakes(z, {"send"}), e, f, w)
      <4>1. Good(h, Wakes(z, {"send"}), e, f, w) /\ Wakes(z, {"send"}).s = z.s
        BY <3>2, WakesGood DEF Ready
      <4> QED  BY <3>2, <4>1 DEF Ready
    <3> QED  BY <3>1, <3>2, <3>3, ReadyMoves
  <2>6. CASE x.s.state = "CLOSE_WAIT"
    <3>1. y = NutTcpStateCloseWait(x, m)
      BY <2>6 DEF NutTcpStateProcess
    <3>2. Ready(h, y, e, f, w)
      BY <1>2, <2>6, <3>1, CloseWaitGood
    <3> QED  BY <3>2, ReadyMoves
  <2> QED  BY <2>1, <2>2, <2>3, <2>4, <2>5, <2>6
<1>3. CASE w.app[h] = "closed" /\ x.s.state \in ClosedState
  <2>1. Past(h, x, e, f, w)
    BY <1>1, <1>3 DEF Past
  <2>2. x.s.state \in {"FIN_WAIT_1", "FIN_WAIT_2", "CLOSING", "LAST_ACK", "TIME_WAIT"}
    BY <1>3 DEF ClosedState, AckState
  <2>3. /\ Past(h, NutTcpStateFinWait1(x, m), e, f, w) /\ Past(h, NutTcpStateFinWait2(x, m), e, f, w)
        /\ Past(h, NutTcpStateClosing(x, m), e, f, w) /\ Past(h, NutTcpStateLastAck(x, m), e, f, w)
    BY <1>1, <1>3, <2>1, PastGood
  <2>4. y \in {NutTcpStateFinWait1(x, m), NutTcpStateFinWait2(x, m), NutTcpStateClosing(x, m),
               NutTcpStateLastAck(x, m), x}
    BY <2>2 DEF NutTcpStateProcess
  <2> HIDE DEF y
  <2>5. Past(h, y, e, f, w)
    BY <2>1, <2>3, <2>4
  <2>6. Good(h, y, e, f, w) /\ y.s.state \in ClosedState
    BY <2>5 DEF Past
  <2>7. Ready(h, y, e, f, w)
    BY <1>3, <2>6, PhaseOver DEF Ready
  <2> QED  BY <2>7, ReadyMoves DEF y
<1> QED
  BY <1>2, <1>3

-----------------------------------------------------------------------------
(* Timers                                                                  *)

\* The state of a socket goes with what its application has done.
Stage(h, s, w) ==
    \/ (w.app[h] = "new" /\ s.state = "CLOSED")
    \/ (w.app[h] = "open" /\ s.state \in OpenState)
    \/ (w.app[h] = "closed" /\ s.state \in ClosedState)

\* A delayed acknowledgement.
LEMMA DelayedAckGood ==
    ASSUME NEW h \in Host, NEW w \in Worlds, NEW e, NEW f, NEW x, Fine(h, x), Good(h, x, e, f, w)
    PROVE  Good(h, SendDelayedAck(x), e, f, w) /\ Still(x, SendDelayedAck(x))
<1> DEFINE a == Flag(x, {"FORCE"})
           b == NutTcpOutput(a, <<>>)
<1>1. Fine(h, a) /\ Good(h, a, e, f, w) /\ Still(x, a)
  BY FlagFine, FlagGood
<1> HIDE DEF a
<1>2. Good(h, b, e, f, w) /\ Still(a, b)
  BY <1>1, AckGood
<1> HIDE DEF b
<1>3. Still(x, b) /\ Still(x, x)
  BY <1>1, <1>2 DEF Still, SameRx
<1> QED
  BY <1>2, <1>3 DEF SendDelayedAck, a, b

\* A function that leaves numbers and data alone.
LEMMA StillPhase ==
    ASSUME NEW h, NEW w, NEW x, NEW y, Phase(h, x.s, w), Still(x, y)
    PROVE  Phase(h, y.s, w)
BY PhaseKept DEF Still, SameRx

\* A connection that is given up by a timer.
LEMMA GivenUpPhase ==
    ASSUME NEW h \in Host, NEW w \in Worlds, NEW x, NEW y, Phase(h, x.s, w), GivenUp(x, y),
           Stage(h, x.s, w), x.s.state # "FREE"
    PROVE  Phase(h, y.s, w)
<1>1. CASE w.app[h] = "new" /\ x.s.state = "CLOSED"
  <2>1. x.s.rx_buf = <<>> /\ y.s.state = "CLOSED"
    BY <1>1 DEF Phase, Early, GivenUp, HasClosed
  <2> QED  BY <1>1, <2>1, PhaseKept DEF GivenUp
<1>2. CASE w.app[h] = "open" /\ x.s.state \in OpenState
  <2>1. y.s.state = "CLOSED" /\ y.s.rx_buf = <<>>
    BY <1>2 DEF GivenUp, HasClosed, OpenState
  <2> QED  BY <1>2, <2>1, PhaseClosed
<1>3. CASE w.app[h] = "closed" /\ x.s.state \in ClosedState
  <2>1. y.s.state = "TIME_WAIT"
    BY <1>3 DEF GivenUp, HasClosed, ClosedState, AckState
  <2>2. y.s.state \in ClosedState
    BY <2>1 DEF ClosedState
  <2> QED  BY <1>3, <2>2, PhaseOver
<1> QED
  BY <1>1, <1>2, <1>3 DEF Stage

\* The end of a state of limited duration.
LEMMA StateOverGood ==
    ASSUME NEW h \in Host, NEW w \in Worlds, NEW e, NEW f, NEW x, Fine(h, x), Ready(h, x, e, f, w),
           Stage(h, x.s, w)
    PROVE  Ready(h, StateOver(x), e, f, w)
<1> DEFINE y == StateOver(x)
<1>1. Good(h, x, e, f, w) /\ Phase(h, x.s, w) /\ x \in Work(h) /\ x.s \in Socket(h)
  BY EdgeNat DEF Ready
<1>2. CASE x.s.state \in {"TIME_WAIT", "FIN_WAIT_2"}
  <2>1. y = NutTcpStateChange(x, "DESTROY") /\ "DESTROY" \in ClosedState \ {"FREE"}
    BY <1>2 DEF StateOver, ClosedState
  <2>2. w.app[h] = "closed" /\ x.s.state \in ClosedState \ {"FREE"}
    BY <1>2 DEF Stage, OpenState, ClosedState
  <2>3. Past(h, x, e, f, w)
    BY <1>1, <2>2 DEF Past
  <2>4. Past(h, y, e, f, w)
    BY <2>1, <2>3, PastChange
  <2> QED  BY <2>2, <2>4, PhaseOver DEF Past, Ready
<1>3. CASE x.s.state = "SYN_RECEIVED"
  <2> DEFINE t == [x.s EXCEPT !.state = "LISTEN"]
  <2>1. y = [x EXCEPT !.s = t]
    BY <1>3 DEF StateOver
  <2>2. /\ SameRx(x.s, t) /\ t.state = "LISTEN" /\ t.nbq = x.s.nbq /\ t.una = x.s.una
        /\ t.win = x.s.win /\ t.nxt = x.s.nxt
    BY <1>1 DEF Socket, SameRx
  <2>3. y.s = t /\ y.out = x.out
    BY <1>1, <2>1 DEF Work
  <2> HIDE DEF t, y
  <2>4. Good(h, y, e, f, w)
    BY <1>1, <2>2, <2>3, GoodKept DEF Good, Flow
  <2>5. Early(h, x.s, w)
    BY <1>1, <1>3 DEF Phase, EarlyState
  <2>6. w.app[h] = "open"
    BY <1>3 DEF Stage, ClosedState, AckState
  <2>7. Early(h, y.s, w)
    BY <1>3, <2>2, <2>3, <2>5, <2>6 DEF Early, SameRx
  <2>8. Phase(h, y.s, w)
    BY <2>2, <2>3, <2>7 DEF Phase
  <2> QED  BY <2>4, <2>8 DEF Ready, y
<1>4. CASE x.s.state \notin {"TIME_WAIT", "FIN_WAIT_2", "SYN_RECEIVED"}
  BY <1>4 DEF StateOver
<1> QED
  BY <1>2, <1>3, <1>4

\* What the loop over the sockets does with one.
LEMMA TimerGood ==
    ASSUME NEW h \in Host, NEW w \in Worlds, NEW e, NEW f, NEW x, Fine(h, x), Timed(x.s),
           Ready(h, x, e, f, w), Stage(h, x.s, w), x.s.state # "FREE",
           NEW due \in BOOLEAN, NEW over \in BOOLEAN
    PROVE  LET a == SendDelayedAck(x)
               b == IF due /\ a.s.nbq # <<>> THEN NutTcpStateRetranTimeout(a) ELSE a
           IN  Ready(h, IF over THEN StateOver(b) ELSE b, e, f, w)
<1> DEFINE a == SendDelayedAck(x)
           b == IF due /\ a.s.nbq # <<>> THEN NutTcpStateRetranTimeout(a) ELSE a
<1>1. Good(h, x, e, f, w) /\ Phase(h, x.s, w)
  BY DEF Ready
<1>2. Fine(h, a) /\ Good(h, a, e, f, w) /\ Still(x, a)
  BY <1>1, DelayedAckGood, DelayedAckFine
<1> HIDE DEF a
<1>3. Phase(h, a.s, w) /\ a.s.state = x.s.state
  BY <1>1, <1>2, StillPhase DEF Still
<1>4. Stage(h, a.s, w)
  BY <1>3 DEF Stage
<1>5. Fine(h, b) /\ Ready(h, b, e, f, w) /\ Stage(h, b.s, w)
  <2>1. CASE due /\ a.s.nbq # <<>>
    <3>1. b = NutTcpStateRetranTimeout(a)
      BY <2>1
    <3> HIDE DEF b
    <3>2. Fine(h, b) /\ Good(h, b, e, f, w) /\ (Still(a, b) \/ GivenUp(a, b))
      BY <1>2, <2>1, <3>1, RetranFine, RetranGood
    <3>3. Phase(h, b.s, w)
      BY <1>3, <1>4, <3>2, StillPhase, GivenUpPhase
    <3>4. Stage(h, b.s, w)
      BY <1>3, <1>4, <3>2 DEF Stage, Still, GivenUp, HasClosed, OpenState, ClosedState, AckState
    <3> QED  BY <3>2, <3>3, <3>4 DEF Ready
  <2>2. CASE ~(due /\ a.s.nbq # <<>>)
    <3>1. b = a
      BY <2>2
    <3> QED  BY <1>2, <1>3, <1>4, <3>1 DEF Ready
  <2> QED  BY <2>1, <2>2
<1> HIDE DEF b
<1>6. Ready(h, StateOver(b), e, f, w)
  BY <1>5, StateOverGood
<1> QED
  BY <1>5, <1>6 DEF a, b

-----------------------------------------------------------------------------
(* The application takes data                                              *)

\* The first unit of the data is handed over.
Consumed(x, y) ==
    /\ y.s.rx_buf = Tail(x.s.rx_buf) /\ y.s.rx_nxt = x.s.rx_nxt
    /\ y.s.state = x.s.state /\ y.s.una = x.s.una /\ y.s.nxt = x.s.nxt

\* The end of NutTcpReceive
LEMMA ReceiveUpdateGood ==
    ASSUME NEW h \in Host, NEW w \in Worlds, NEW e \in Nat, NEW f \in Nat, NEW x, Fine(h, x),
           Good(h, x, e, f, w), x.s.rx_buf # <<>>, w.app[h] = "open"
    PROVE  LET y == ReceiveUpdate(x)
           IN  Good(h, y, e, f, w) /\ Consumed(x, y)
<1> DEFINE i == IF x.s.rx_win + 1 > RXBSZ THEN RXBSZ ELSE x.s.rx_win + 1
           b == Tail(x.s.rx_buf)
           t(k) == [x.s EXCEPT !.rx_buf = b, !.rx_win = k]
           u(k) == [x EXCEPT !.s = t(k)]
           z == NutTcpOutput(Flag(u(i), {"ACK", "FORCE"}), <<>>)
           y == ReceiveUpdate(x)
           n == x.s.rx_win
           l == Len(x.s.rx_buf)
           r == x.s.rx_nxt
<1>1. /\ x \in Work(h) /\ x.s \in Socket(h) /\ Numbered(x.s) /\ Quiet(x.s)
      /\ x.s.rx_buf \in Seq(Nat) /\ n \in Nat /\ l \in Nat /\ r \in Nat
  BY EdgeNat DEF Fine
<1>2. b \in Seq(Nat) /\ Len(b) = l - 1 /\ l # 0
  BY <1>1, HeadTailProperties, EmptySeq
<1>3. n + l <= RXBSZ /\ RXBSZ \in Nat
  BY TcpAssumption DEF Good, Flow, Holds
<1>4. \/ y = u(n) \/ y = z \/ y = Flag(u(i), {"ACK"})
  <2>1. [x EXCEPT !.s.rx_buf = b, !.s.rx_win = i] = u(i)
    <3> HIDE DEF i, b
    <3> QED  BY <1>1 DEF Work
  <2>2. [u(i) EXCEPT !.s.rx_win = n] = u(n)
    <3> HIDE DEF i, b
    <3> QED  BY <1>1 DEF Work, Socket
  <2>3. \/ y = [[x EXCEPT !.s.rx_buf = b, !.s.rx_win = i] EXCEPT !.s.rx_win = n]
        \/ y = NutTcpOutput(Flag([x EXCEPT !.s.rx_buf = b, !.s.rx_win = i], {"ACK", "FORCE"}), <<>>)
        \/ y = Flag([x EXCEPT !.s.rx_buf = b, !.s.rx_win = i], {"ACK"})
    BY DEF ReceiveUpdate
  <2> QED  BY <2>1, <2>2, <2>3
<1>5. /\ i \in Nat /\ n <= i /\ i + (l - 1) <= RXBSZ /\ n + (l - 1) <= RXBSZ
  <2>1. \/ (n + 1 > RXBSZ /\ i = RXBSZ) \/ (~(n + 1 > RXBSZ) /\ i = n + 1)
    OBVIOUS
  <2> HIDE DEF i, n, l
  <2> QED  BY ONLY <1>1, <1>2, <1>3, <2>1
<1> HIDE DEF b, i
<1>6. ASSUME NEW k \in Nat, n <= k, k + (l - 1) <= RXBSZ
      PROVE  Fine(h, u(k)) /\ Good(h, u(k), e, f, w) /\ Consumed(x, u(k))
  <2> DEFINE p == t(k)
             q == u(k)
  <2>1. /\ p \in Socket(h) /\ p.state = x.s.state /\ p.flags = x.s.flags /\ p.una = x.s.una
        /\ p.win = x.s.win /\ p.nxt = x.s.nxt /\ p.nbq = x.s.nbq /\ p.rx_buf = b
        /\ p.rx_nxt = x.s.rx_nxt /\ p.rx_win = k /\ p.rx_nbq = x.s.rx_nbq
    BY <1>1, <1>2 DEF Socket
  <2>2. q = [x EXCEPT !.s = p]
    OBVIOUS
  <2> HIDE DEF t, u, p, q
  <2>3. Numbered(p) /\ Quiet(p)
    BY <1>1, <2>1 DEF Numbered, Quiet
  <2>4. Fine(h, q) /\ q.s = p /\ q.out = x.out
    BY <1>1, <2>1, <2>2, <2>3, PutFine, PutSocket
  <2>5. Edge(x.s) <= Edge(q.s) /\ Edge(x.s) \in Nat /\ Edge(q.s) \in Nat
    <3>1. Edge(q.s) = r + k /\ Edge(x.s) = r + n
      BY <2>1, <2>4 DEF Edge
    <3> HIDE DEF r, n
    <3>2. r + n <= r + k /\ r + n \in Nat /\ r + k \in Nat
      BY ONLY <1>1, <1>6, k \in Nat
    <3> QED  BY <3>1, <3>2
  <2>6. Holds(h, q.s, f, w)
    <3>1. q.s.rx_win + Len(q.s.rx_buf) <= RXBSZ
      BY <1>2, <1>6, <2>1, <2>4
    <3>2. x.s.rx_nbq \in Seq(Seg(Peer(h), f, Edge(x.s), w)) /\ Sorted(x.s.rx_nbq)
      BY DEF Good, Flow, Holds
    <3>3. x.s.rx_nbq \in Seq(Seg(Peer(h), f, Edge(q.s), w))
      BY <2>5, <3>2, KeptMoved
    <3> QED  BY <2>1, <2>4, <3>1, <3>2, <3>3 DEF Holds
  <2>7. Good(h, q, e, f, w)
    BY <2>1, <2>4, <2>5, <2>6, GoodMoved
  <2>8. Consumed(x, q)
    BY <2>1, <2>4 DEF Consumed, b
  <2> QED  BY <2>4, <2>7, <2>8 DEF q
<1> HIDE DEF u
<1>7. CASE y = u(n)
  BY <1>1, <1>5, <1>6, <1>7 DEF y
<1>8. Fine(h, u(i)) /\ Good(h, u(i), e, f, w) /\ Consumed(x, u(i))
  BY <1>5, <1>6
<1> HIDE DEF z, y
<1>9. CASE y = Flag(u(i), {"ACK"})
  <2> DEFINE v == u(i)
  <2>1. Fine(h, v) /\ Good(h, v, e, f, w) /\ Consumed(x, v) /\ y = Flag(v, {"ACK"})
    BY <1>8, <1>9
  <2> HIDE DEF v
  <2>2. Good(h, y, e, f, w) /\ Still(v, y)
    BY <2>1, FlagGood
  <2> QED  BY <2>1, <2>2 DEF Consumed, Still, SameRx, y
<1>10. CASE y = z
  <2> DEFINE v == u(i)
  <2>1. Fine(h, v) /\ Good(h, v, e, f, w) /\ Consumed(x, v)
        /\ y = NutTcpOutput(Flag(v, {"ACK", "FORCE"}), <<>>)
    BY <1>8, <1>10 DEF z
  <2> HIDE DEF v
  <2>2. Good(h, y, e, f, w) /\ Ahead(v, y)
    BY <2>1, ForceAckGood
  <2> QED  BY <2>1, <2>2 DEF Consumed, Ahead, y
<1> QED
  BY <1>4, <1>7, <1>9, <1>10

-----------------------------------------------------------------------------
(* Both hosts                                                              *)

\* What an application has got is what the other one has sent.
Got(h, w) ==
    ServerFirst => /\ Len(w.got[h]) <= w.sent[Peer(h)]
                   /\ \A i \in 1..Len(w.got[h]) : w.got[h][i] = i

\* The segments in flight n, between hosts with the sockets t.
Flight(t, n, w) ==
    \A h \in Host : n[Peer(h)] \in Seq(Seg(h, Edge(t[h]), Edge(t[Peer(h)]), w))

Whole(t, n, b, w) ==
    /\ \A h \in Host : Flow(h, t[h], Edge(t[Peer(h)]), w) /\ Phase(h, t[h], w) /\ Got(h, w)
    /\ Flight(t, n, w)
    /\ b \subseteq Seg(client, Edge(t[client]), Edge(t[server]), w)

\* A step of h, which leaves alone what the other application has done.
Advance(h, w, v) ==
    /\ Onward(w, v) /\ v.app[Peer(h)] = w.app[Peer(h)] /\ v.sent[Peer(h)] = w.sent[Peer(h)]
    /\ v.got[Peer(h)] = w.got[Peer(h)] /\ Base(Peer(h), v) = Base(Peer(h), w)

\* A step of h, seen from both sides: the peer and what it has sent are not
\* concerned, and what h sends joins what is in flight.
LEMMA WholeStep ==
    ASSUME NEW h \in Host, NEW w \in Worlds, NEW v \in Worlds, Advance(h, w, v),
           NEW t, \A g \in Host : t[g] \in Socket(g),
           NEW n, NEW b, Whole(t, n, b, w),
           NEW y, Fine(h, y), Ready(h, y, Edge(t[h]), Edge(t[Peer(h)]), v), Got(h, v),
           NEW u, u[h] = y.s, u[Peer(h)] = t[Peer(h)],
           NEW k, Flight(t, k, w),
           NEW l, l[h] = k[h], l[Peer(h)] \in {k[Peer(h)], k[Peer(h)] \o y.out},
           NEW c, c \subseteq Seg(client, Edge(t[client]), Edge(t[server]), w)
    PROVE  Whole(u, l, c, v)
<1> DEFINE g == Peer(h)
           e == Edge(t[h])
           d == Edge(y.s)
           f == Edge(t[g])
<1>1. g \in Host /\ Peer(g) = h /\ g # h /\ Host = {g, h}
  BY Peers DEF Host, Peer
<1>2. /\ Onward(w, v) /\ v.app[g] = w.app[g] /\ v.sent[g] = w.sent[g]
      /\ v.got[g] = w.got[g] /\ Base(g, v) = Base(g, w)
  BY DEF Advance
<1>3. e \in Nat /\ d \in Nat /\ f \in Nat
  <2>1. d \in Nat
    BY EdgeNat
  <2>2. \A i \in Host : Edge(t[i]) \in Nat
    <3> SUFFICES ASSUME NEW i \in Host PROVE Edge(t[i]) \in Nat
      OBVIOUS
    <3>1. t[i].rx_nxt \in Nat /\ t[i].rx_win \in Nat
      BY SocketFields
    <3> QED  BY <3>1 DEF Edge
  <2> QED  BY <1>1, <2>1, <2>2
<1>4. /\ Flow(h, y.s, f, v) /\ y.out \in Seq(Seg(h, d, f, v)) /\ (v.app[h] # "closed" => e <= d)
      /\ Phase(h, y.s, v)
  BY DEF Ready, Good
<1>5. /\ Flow(g, t[g], e, w) /\ Phase(g, t[g], w) /\ Got(g, w)
      /\ k[g] \in Seq(Seg(h, e, f, w)) /\ k[h] \in Seq(Seg(g, f, e, w))
  BY <1>1 DEF Whole, Flight
<1> HIDE DEF e, d, f, g
<1>6. Flow(g, t[g], d, v)
  BY <1>1, <1>2, <1>3, <1>4, <1>5, FlowOnward
<1>7. Phase(g, t[g], v)
  BY <1>1, <1>2, <1>5, PhaseOnward
<1>8. Got(g, v)
  <2>1. w.sent[h] <= v.sent[h] /\ w.sent[h] \in Nat /\ v.sent[h] \in Nat
    <3>1. w.sent[h] \in Nat /\ v.sent[h] \in Nat
      BY WorldFields
    <3> QED  BY <1>2, <3>1 DEF Onward, Follows
  <2> SUFFICES ASSUME ServerFirst
               PROVE  /\ Len(v.got[g]) <= v.sent[h]
                      /\ \A i \in 1..Len(v.got[g]) : v.got[g][i] = i
    BY <1>1 DEF Got
  <2>2. Len(w.got[g]) <= w.sent[h] /\ \A i \in 1..Len(w.got[g]) : w.got[g][i] = i
    BY <1>1, <1>5 DEF Got
  <2>3. Len(w.got[g]) \in Nat
    BY <1>1, WorldFields
  <2> QED  BY <1>2, <2>1, <2>2, <2>3
<1>9. /\ Seg(h, e, f, w) \subseteq Seg(h, d, f, v) /\ Seg(g, f, e, w) \subseteq Seg(g, f, d, v)
  BY <1>1, <1>2, <1>3, <1>4, SegOnward
<1>10. l[g] \in Seq(Seg(h, d, f, v)) /\ l[h] \in Seq(Seg(g, f, d, v))
  <2>1. k[g] \in Seq(Seg(h, d, f, v)) /\ k[h] \in Seq(Seg(g, f, d, v))
    BY <1>5, <1>9, SeqMore
  <2>2. k[g] \o y.out \in Seq(Seg(h, d, f, v))
    BY <1>4, <2>1, ConcatProperties
  <2> QED  BY <2>1, <2>2 DEF g
<1>11. u[h] = y.s /\ u[g] = t[g] /\ Edge(u[h]) = d /\ Edge(u[g]) = f
  BY DEF g, d, f
<1>12. Flight(u, l, v)
  <2>1. Peer(h) = g
    BY DEF g
  <2> QED  BY <1>1, <1>10, <1>11, <2>1 DEF Flight
<1>13. c \subseteq Seg(client, Edge(u[client]), Edge(u[server]), v)
  <2>1. CASE h = client
    <3>1. g = server
      BY <2>1 DEF g, Peer
    <3> QED  BY <1>9, <1>11, <2>1, <3>1 DEF e, f
  <2>2. CASE h # client
    <3>1. g = client /\ h = server
      BY <2>2 DEF g, Peer, Host
    <3> QED  BY <1>9, <1>11, <3>1 DEF e, f
  <2> QED  BY <2>1, <2>2
<1>14. /\ Flow(h, u[h], Edge(u[g]), v) /\ Phase(h, u[h], v) /\ Got(h, v)
       /\ Flow(g, u[g], Edge(u[h]), v) /\ Phase(g, u[g], v) /\ Got(g, v)
  BY <1>4, <1>6, <1>7, <1>8, <1>11
<1>15. \A i \in Host : Flow(i, u[i], Edge(u[Peer(i)]), v) /\ Phase(i, u[i], v) /\ Got(i, v)
  BY <1>1, <1>14 DEF g
<1> QED
  BY <1>12, <1>13, <1>15 DEF Whole

-----------------------------------------------------------------------------
(* The invariant                                                           *)

\* The world is as the applications have made it, with some initial sequence
\* number of the server.
Agrees(w, a, s, g, t, n, b) ==
    w \in Worlds /\ w.app = a /\ w.sent = s /\ w.got = g /\ Whole(t, n, b, w)

DataInv == \E w : Agrees(w, app, sent, got, so, net, backlog)

\* With ServerFirst the client does not send before it has received.
Turns == ServerFirst /\ (sent[client] > 0 \/ op[client] = "send") => got[client] # <<>>

\* The functions start from a socket that is ready.
LEMMA BeginReady ==
    ASSUME NEW h \in Host, IInv, NEW w, Agrees(w, app, sent, got, so, net, backlog)
    PROVE  /\ w \in Worlds /\ Fine(h, Begin(h)) /\ Begin(h).s = so[h] /\ Timed(so[h])
           /\ Ready(h, Begin(h), Edge(so[h]), Edge(so[Peer(h)]), w) /\ Stage(h, so[h], w)
           /\ Edge(so[h]) \in Nat /\ Edge(so[Peer(h)]) \in Nat /\ Got(h, w)
           /\ Advance(h, w, w) /\ Flight(so, net, w) /\ InFlightOK(net)
           /\ backlog \subseteq Seg(client, Edge(so[client]), Edge(so[server]), w)
<1>1. /\ w \in Worlds /\ w.app = app /\ w.sent = sent /\ w.got = got /\ Whole(so, net, backlog, w)
      /\ Types /\ Local(h) /\ InFlightOK(net) /\ Peer(h) \in Host
  BY Peers DEF Agrees, IInv, Types
<1>2. Fine(h, Begin(h)) /\ Begin(h).s = so[h] /\ Timed(so[h])
  BY <1>1, BeginFine
<1>3. /\ Flow(h, so[h], Edge(so[Peer(h)]), w) /\ Phase(h, so[h], w) /\ Got(h, w)
      /\ Flight(so, net, w) /\ backlog \subseteq Seg(client, Edge(so[client]), Edge(so[server]), w)
  BY <1>1 DEF Whole
<1>4. \A g \in Host : Edge(so[g]) \in Nat
  <2> SUFFICES ASSUME NEW g \in Host PROVE Edge(so[g]) \in Nat
    OBVIOUS
  <2>1. so[g] \in Socket(g)
    BY DEF IInv, Local
  <2>2. so[g].rx_nxt \in Nat /\ so[g].rx_win \in Nat
    BY <2>1, SocketFields
  <2> QED  BY <2>2 DEF Edge
<1>5. Begin(h).out = <<>>
  BY DEF Begin
<1>6. Edge(so[h]) <= Edge(so[h])
  BY <1>4
<1>7. Ready(h, Begin(h), Edge(so[h]), Edge(so[Peer(h)]), w)
  <2>1. Begin(h).out \in Seq(Seg(h, Edge(so[h]), Edge(so[Peer(h)]), w))
    BY <1>5
  <2> QED  BY <1>2, <1>3, <1>6, <2>1 DEF Ready, Good
<1>8. Advance(h, w, w)
  BY <1>1, OnwardSame DEF Advance
<1>9. Stage(h, so[h], w)
  <2>1. app[h] \in {"new", "open", "closed"}
    BY <1>1 DEF Types
  <2> QED  BY <1>1, <2>1 DEF Stage, Local
<1> QED
  BY <1>1, <1>2, <1>3, <1>4, <1>7, <1>8, <1>9

\* An action that stores the result of a function.
LEMMA StoreData ==
    ASSUME NEW h \in Host, IInv, NEW w, Agrees(w, app, sent, got, so, net, backlog),
           NEW v \in Worlds, Advance(h, w, v), v.app = app', v.sent = sent', v.got = got',
           NEW y, Fine(h, y), Ready(h, y, Edge(so[h]), Edge(so[Peer(h)]), v), Got(h, v),
           NEW k, InFlightOK(k), Flight(so, k, w), Store(y, k),
           backlog' \subseteq Seg(client, Edge(so[client]), Edge(so[server]), w)
    PROVE  DataInv'
<1>1. w \in Worlds /\ Whole(so, net, backlog, w)
  BY DEF Agrees
<1>2. Types /\ \A g \in Host : so[g] \in Socket(g)
  BY DEF IInv, Local
<1>3. y \in Work(h) /\ y.h = h
  BY WorkFields DEF Fine
<1>4. Peer(h) \in Host /\ Peer(h) # h
  BY Peers
<1>5. so'[h] = y.s /\ so'[Peer(h)] = so[Peer(h)]
  BY <1>2, <1>3, <1>4, StoreFine
<1>6. net'[h] = k[h] /\ net'[Peer(h)] \in {k[Peer(h)], k[Peer(h)] \o y.out}
  <2>1. k = [g \in Host |-> k[g]]
    BY DEF InFlightOK
  <2>2. net' = IF link THEN [k EXCEPT ![Peer(h)] = @ \o y.out] ELSE k
    BY <1>3 DEF Store
  <2> QED  BY <1>4, <2>1, <2>2
<1>7. Whole(so', net', backlog', v)
  BY <1>1, <1>2, <1>5, <1>6, WholeStep
<1>8. Agrees(v, app', sent', got', so', net', backlog')
  BY <1>7 DEF Agrees
<1> QED
  BY <1>8 DEF DataInv

\* As long as the server has not sent, the client has not either.
LEMMA TurnsWorld ==
    ASSUME IInv, Turns, NEW w, Agrees(w, app, sent, got, so, net, backlog)
    PROVE  ServerFirst /\ w.sent[server] = 0 => w.sent[client] = 0
<1> SUFFICES ASSUME ServerFirst, w.sent[server] = 0, w.sent[client] # 0 PROVE FALSE
  OBVIOUS
<1>1. client \in Host /\ Peer(client) = server
  BY DEF Host, Peer
<1>2. w \in Worlds /\ w.sent = sent /\ w.got = got /\ Got(client, w)
  BY <1>1 DEF Agrees, Whole
<1>3. w.sent[client] \in Nat /\ w.got[client] \in Seq(Nat)
  BY <1>1, <1>2, WorldFields
<1>4. got[client] # <<>>
  BY <1>2, <1>3 DEF Turns
<1>5. Len(w.got[client]) \in Nat /\ Len(w.got[client]) # 0
  BY <1>2, <1>3, <1>4, EmptySeq
<1> QED
  BY <1>1, <1>2, <1>5 DEF Got

\* A step that the applications do not take part in.
LEMMA MovesData ==
    ASSUME NEW h \in Host, IInv, NEW w, Agrees(w, app, sent, got, so, net, backlog),
           NEW y, Fine(h, y), Moves(h, y, Edge(so[h]), Edge(so[Peer(h)]), w),
           NEW k, InFlightOK(k), Flight(so, k, w), Store(y, k), UNCHANGED <<app, sent, got>>,
           backlog' \subseteq Seg(client, Edge(so[client]), Edge(so[server]), w)
    PROVE  DataInv'
<1>1. PICK i \in Nat : /\ Onward(w, Renew(w, i)) /\ (h = server \/ i = w.isn)
                       /\ Ready(h, y, Edge(so[h]), Edge(so[Peer(h)]), Renew(w, i))
  BY DEF Moves
<1> DEFINE v == Renew(w, i)
<1>2. w \in Worlds /\ w.app = app /\ w.sent = sent /\ w.got = got /\ Got(h, w)
  BY DEF Agrees, Whole
<1>3. /\ v \in Worlds /\ v.app = w.app /\ v.sent = w.sent /\ v.got = w.got /\ Base(client, v) = 0
      /\ (i = w.isn => v = w) /\ Base(client, w) = 0 /\ Onward(w, v)
      /\ Ready(h, y, Edge(so[h]), Edge(so[Peer(h)]), v)
  BY <1>1, <1>2, RenewFields
<1> HIDE DEF v
<1>4. Base(Peer(h), v) = Base(Peer(h), w)
  <2>1. h = server => Peer(h) = client
    BY TcpAssumption DEF Peer
  <2> QED  BY <1>1, <1>3, <2>1
<1>5. Advance(h, w, v) /\ Got(h, v)
  BY <1>2, <1>3, <1>4 DEF Advance, Got
<1> QED
  BY <1>2, <1>3, <1>5, StoreData

\* ... and in which the server does not begin anew.
LEMMA ReadyData ==
    ASSUME NEW h \in Host, IInv, NEW w, Agrees(w, app, sent, got, so, net, backlog),
           NEW y, Fine(h, y), Ready(h, y, Edge(so[h]), Edge(so[Peer(h)]), w),
           NEW k, InFlightOK(k), Flight(so, k, w), Store(y, k), UNCHANGED <<app, sent, got>>,
           backlog' \subseteq Seg(client, Edge(so[client]), Edge(so[server]), w)
    PROVE  DataInv'
BY MovesData, ReadyMoves DEF Agrees

\* The thread NutTcpSm treats a segment.
LEMMA ProcessData ==
    ASSUME NEW h \in Host, IInv, Turns, NEW w, Agrees(w, app, sent, got, so, net, backlog),
           NEW m \in Seg(Peer(h), Edge(so[Peer(h)]), Edge(so[h]), w),
           NEW k, InFlightOK(k), Flight(so, k, w), Process(h, m, k)
    PROVE  DataInv'
<1> DEFINE x == Begin(h)
           e == Edge(so[h])
           f == Edge(so[Peer(h)])
<1>1. /\ w \in Worlds /\ Fine(h, x) /\ x.s = so[h] /\ Timed(so[h]) /\ Ready(h, x, e, f, w)
      /\ Stage(h, so[h], w) /\ e \in Nat /\ f \in Nat
      /\ backlog \subseteq Seg(client, Edge(so[client]), Edge(so[server]), w)
  BY BeginReady
<1>2. UNCHANGED <<app, sent, got>>
  BY DEF Process
<1>3. m \in Msg /\ m \in Out(Peer(h))
  BY <1>1, FromPeer
<1> HIDE DEF x, e, f
<1>4. CASE Found(h)
  <2> DEFINE y == NutTcpStateProcess(x, m)
  <2>1. Store(y, k) /\ backlog' = backlog
    BY <1>4 DEF Process, Commit, x
  <2>2. x.s.state \notin {"CLOSED", "DESTROY", "FREE"}
    BY <1>1, <1>4 DEF Found
  <2>3. Fine(h, y)
    BY <1>1, <1>3, <2>2, ProcessSafe DEF Safe
  <2>4. Moves(h, y, e, f, w)
    <3>1. ServerFirst /\ w.sent[server] = 0 => w.sent[client] = 0
      BY TurnsWorld
    <3>2. \/ (w.app[h] = "open" /\ x.s.state \in OpenState)
          \/ (w.app[h] = "closed" /\ x.s.state \in ClosedState)
      BY <1>1, <2>2 DEF Stage
    <3>3. m \in Seg(Peer(h), f, Edge(x.s), w)
      BY <1>1 DEF f
    <3> QED  BY <1>1, <2>2, <3>1, <3>2, <3>3, ProcessGood
  <2> HIDE DEF y
  <2> QED  BY <1>1, <1>2, <2>1, <2>3, <2>4, MovesData DEF e, f
<1>5. CASE ~Found(h)
  <2> DEFINE y == IF m \in backlog' THEN x ELSE NutTcpReject(x, m)
  <2>1. Store(y, k) /\ NutTcpBacklogAdd(m)
    BY <1>5 DEF Process, Commit, x
  <2>2. IsSyn(m) => Peer(h) = client /\ h = server
    BY <1>3, Peers, TcpAssumption DEF IsSyn, Out, Host, Peer
  <2>3. backlog' \subseteq Seg(client, Edge(so[client]), Edge(so[server]), w)
    BY <1>1, <2>1, <2>2 DEF NutTcpBacklogAdd
  <2>4. Fine(h, y) /\ Ready(h, y, e, f, w)
    <3>1. Fine(h, NutTcpReject(x, m))
      BY <1>1, <1>3, RejectFine
    <3>2. Good(h, NutTcpReject(x, m), e, f, w) /\ NutTcpReject(x, m).s = x.s
      BY <1>1, <1>3, RejectGood DEF Ready
    <3> QED  BY <1>1, <3>1, <3>2 DEF Ready
  <2> HIDE DEF y
  <2> QED  BY <1>2, <2>1, <2>3, <2>4, ReadyData DEF e, f
<1> QED
  BY <1>4, <1>5

\* The network
LEMMA FlightFine ==
    ASSUME NEW h \in Host, InFlightOK(net), NEW w, Flight(so, net, w), net[h] # <<>>
    PROVE  /\ Head(net[h]) \in Seg(Peer(h), Edge(so[Peer(h)]), Edge(so[h]), w)
           /\ Flight(so, [net EXCEPT ![h] = Tail(@)], w)
           /\ Flight(so, [net EXCEPT ![h] = Append(Tail(@), Head(@))], w)
<1> DEFINE S == Seg(Peer(h), Edge(so[Peer(h)]), Edge(so[h]), w)
           q == net[h]
           p == Tail(q)
           r == Append(p, Head(q))
<1>1. Peer(h) \in Host /\ Peer(Peer(h)) = h
  BY Peers
<1>2. q \in Seq(S)
  BY <1>1 DEF Flight
<1>3. Head(q) \in S /\ p \in Seq(S) /\ r \in Seq(S)
  <2> HIDE DEF S
  <2>1. Head(q) \in S /\ p \in Seq(S)
    BY <1>2, HeadTailProperties
  <2> QED  BY <2>1, AppendProperties
<1>4. net = [g \in Host |-> net[g]]
  BY DEF InFlightOK
<1>5. ASSUME NEW z \in Seq(S)
      PROVE  Flight(so, [net EXCEPT ![h] = z], w)
  <2> SUFFICES ASSUME NEW g \in Host
               PROVE  [net EXCEPT ![h] = z][Peer(g)] \in Seq(Seg(g, Edge(so[g]), Edge(so[Peer(g)]), w))
    BY DEF Flight
  <2>1. Peer(g) \in Host /\ Peer(Peer(g)) = g
    BY Peers
  <2>2. CASE Peer(g) = h
    BY <1>4, <1>5, <2>1, <2>2
  <2>3. CASE Peer(g) # h
    <3>1. [net EXCEPT ![h] = z][Peer(g)] = net[Peer(g)]
      BY <1>4, <2>1, <2>3
    <3> QED  BY <3>1 DEF Flight
  <2> QED  BY <2>2, <2>3
<1>6. Flight(so, [net EXCEPT ![h] = p], w) /\ Flight(so, [net EXCEPT ![h] = r], w)
  BY <1>3, <1>5
<1> QED
  BY <1>3, <1>6

\* A step of the network alone.
LEMMA FlightData ==
    ASSUME NEW w, Agrees(w, app, sent, got, so, net, backlog), Flight(so, net', w),
           UNCHANGED <<so, app, sent, got, backlog>>
    PROVE  DataInv'
<1>1. Whole(so', net', backlog', w)
  BY DEF Agrees, Whole
<1>2. Agrees(w, app', sent', got', so', net', backlog')
  BY <1>1 DEF Agrees
<1> QED
  BY <1>2 DEF DataInv

\* The network and its faults
LEMMA NetData ==
    ASSUME NEW h \in Host, IInv, Turns, DataInv,
           Deliver(h) \/ Duplicate(h) \/ Lose(h) \/ Overtake(h) \/ Disconnect
    PROVE  DataInv'
<1>1. PICK w : Agrees(w, app, sent, got, so, net, backlog)
  BY DEF DataInv
<1>2. Types /\ Flight(so, net, w) /\ InFlightOK(net)
  BY <1>1, BeginReady DEF IInv
<1> DEFINE k == [net EXCEPT ![h] = Tail(@)]
           l == [net EXCEPT ![h] = Append(Tail(@), Head(@))]
<1>3. ASSUME net[h] # <<>>
      PROVE  /\ Head(net[h]) \in Seg(Peer(h), Edge(so[Peer(h)]), Edge(so[h]), w)
             /\ Flight(so, k, w) /\ Flight(so, l, w) /\ InFlightOK(k)
  BY <1>2, <1>3, FlightFine, NetFine
<1>4. CASE Deliver(h)
  <2>1. net[h] # <<>> /\ Process(h, Head(net[h]), k)
    BY <1>4 DEF Deliver
  <2> HIDE DEF k
  <2> QED  BY <1>1, <1>3, <2>1, ProcessData
<1>5. CASE Duplicate(h)
  <2>1. net[h] # <<>> /\ Process(h, Head(net[h]), net)
    BY <1>5 DEF Duplicate
  <2> QED  BY <1>1, <1>2, <1>3, <2>1, ProcessData
<1>6. CASE Lose(h)
  <2>1. net[h] # <<>> /\ net' = k /\ UNCHANGED <<so, app, sent, got, backlog>>
    BY <1>6 DEF Lose
  <2> QED  BY <1>1, <1>3, <2>1, FlightData
<1>7. CASE Overtake(h)
  <2>1. net' = l /\ UNCHANGED <<so, app, sent, got, backlog>>
    BY <1>7 DEF Overtake
  <2>2. net[h] # <<>>
    BY <1>7 DEF Overtake
  <2> QED  BY <1>1, <1>3, <2>1, <2>2, FlightData
<1>8. CASE Disconnect
  <2>1. net' = [g \in Host |-> <<>>] /\ UNCHANGED <<so, app, sent, got, backlog>>
    BY <1>8 DEF Disconnect
  <2>2. \A g \in Host : net'[Peer(g)] = <<>>
    BY <2>1, Peers
  <2>3. \A S : <<>> \in Seq(S)
    OBVIOUS
  <2>4. Flight(so, net', w)
    BY <2>2, <2>3 DEF Flight
  <2> QED  BY <1>1, <2>1, <2>4, FlightData
<1> QED
  BY <1>4, <1>5, <1>6, <1>7, <1>8

\* The loop over the sockets
LEMMA TimerData ==
    ASSUME NEW h \in Host, IInv, DataInv, NEW due \in BOOLEAN, NEW over \in BOOLEAN,
           TimerPass(h, due, over)
    PROVE  DataInv'
<1> DEFINE x == Begin(h)
           a == SendDelayedAck(x)
           b == IF due /\ a.s.nbq # <<>> THEN NutTcpStateRetranTimeout(a) ELSE a
           y == IF over THEN StateOver(b) ELSE b
<1>1. PICK w : Agrees(w, app, sent, got, so, net, backlog)
  BY DEF DataInv
<1>2. so[h].state # "FREE" /\ Store(y, net) /\ UNCHANGED <<app, sent, got, backlog>>
  BY DEF TimerPass, Commit
<1>3. /\ w \in Worlds /\ Fine(h, x) /\ x.s = so[h] /\ Timed(so[h])
      /\ Ready(h, x, Edge(so[h]), Edge(so[Peer(h)]), w) /\ Stage(h, so[h], w)
      /\ Flight(so, net, w) /\ InFlightOK(net)
      /\ backlog \subseteq Seg(client, Edge(so[client]), Edge(so[server]), w)
  BY <1>1, BeginReady
<1> HIDE DEF x
<1>4. Fine(h, y)
  BY <1>2, <1>3, TimerSafe DEF Safe
<1>5. Ready(h, y, Edge(so[h]), Edge(so[Peer(h)]), w)
  BY <1>2, <1>3, TimerGood
<1> HIDE DEF y
<1> QED
  BY <1>1, <1>2, <1>3, <1>4, <1>5, ReadyData

\* NutTcpBacklogTimer
LEMMA BacklogData ==
    ASSUME IInv, DataInv, BacklogOver
    PROVE  DataInv'
<1>1. PICK w : Agrees(w, app, sent, got, so, net, backlog)
  BY DEF DataInv
<1> DEFINE h == server
           x == Begin(h)
<1>2. PICK m \in backlog : Store(NutTcpReject(x, m), net) /\ backlog' = {} /\ UNCHANGED <<app, sent, got>>
  BY DEF BacklogOver, Commit
<1>3. h \in Host /\ m \in Msg
  BY <1>2 DEF Host, IInv, Types
<1> DEFINE y == NutTcpReject(x, m)
<1>4. /\ w \in Worlds /\ Fine(h, x) /\ Ready(h, x, Edge(so[h]), Edge(so[Peer(h)]), w)
      /\ Flight(so, net, w) /\ InFlightOK(net)
  BY <1>1, <1>3, BeginReady
<1> HIDE DEF h, x
<1>5. Fine(h, y) /\ Ready(h, y, Edge(so[h]), Edge(so[Peer(h)]), w)
  <2>1. Fine(h, y) /\ y.s = x.s /\ Good(h, y, Edge(so[h]), Edge(so[Peer(h)]), w)
    BY <1>3, <1>4, RejectFine, RejectGood DEF Ready
  <2> QED  BY <1>4, <2>1 DEF Ready
<1>6. Store(y, net) /\ backlog' \subseteq Seg(client, Edge(so[client]), Edge(so[server]), w)
  BY <1>2
<1> HIDE DEF y
<1> QED
  BY <1>1, <1>2, <1>3, <1>4, <1>5, <1>6, ReadyData

-----------------------------------------------------------------------------
(* Calls                                                                   *)

\* NutTcpGarbadgeCollect
LEMMA CollectData ==
    ASSUME NEW h \in Host, IInv, DataInv, NutTcpGarbadgeCollect(h)
    PROVE  DataInv'
<1> DEFINE t == [NewSocket EXCEPT !.state = "FREE"]
           x == Begin(h)
           y == [x EXCEPT !.s = t]
           f == Edge(so[Peer(h)])
<1>1. PICK w : Agrees(w, app, sent, got, so, net, backlog)
  BY DEF DataInv
<1>2. so[h].state = "DESTROY" /\ so' = [so EXCEPT ![h] = t] /\ UNCHANGED <<app, sent, got, net, backlog>>
  BY DEF NutTcpGarbadgeCollect
<1>3. /\ w \in Worlds /\ Fine(h, x) /\ Stage(h, so[h], w) /\ Flight(so, net, w) /\ f \in Nat
      /\ InFlightOK(net) /\ backlog \subseteq Seg(client, Edge(so[client]), Edge(so[server]), w)
      /\ Got(h, w) /\ Advance(h, w, w)
  BY <1>1, BeginReady
<1> HIDE DEF x, f
<1>4. w.app[h] = "closed"
  BY <1>2, <1>3 DEF Stage, OpenState
<1>5. /\ t \in Socket(h) /\ t.una = 0 /\ t.win = 0 /\ t.nxt = 0 /\ t.nbq = <<>> /\ t.flags = {}
      /\ t.state = "FREE"
  <2>1. NewSocket \in Socket(h) /\ NewSocket.win = 0
    BY NewSocketFine DEF NewSocket
  <2>2. "FREE" \in OpenState \cup ClosedState
    BY DEF ClosedState
  <2>3. /\ NewSocket.una = 0 /\ NewSocket.nxt = 0 /\ NewSocket.nbq = <<>> /\ NewSocket.flags = {}
    BY NewSocketFine
  <2> QED  BY <2>1, <2>2, <2>3 DEF Socket
<1> HIDE DEF t
<1>6. Numbered(t) /\ Quiet(t)
  BY <1>5 DEF Numbered, Quiet
<1>7. Fine(h, y) /\ y.s = t /\ y.out = <<>>
  <2>1. x \in Work(h) /\ x.out = <<>>
    BY <1>3 DEF Fine, x, Begin
  <2>2. Fine(h, y) /\ y.s = t
    BY <1>3, <1>5, <1>6, PutFine
  <2>3. y.out = x.out
    BY <1>5, <2>1, PutSocket
  <2> QED  BY <2>1, <2>2, <2>3
<1> HIDE DEF y
<1>8. Ready(h, y, Edge(so[h]), f, w)
  <2>1. \A S : <<>> \in Seq(S)
    OBVIOUS
  <2>2. y.s.una + y.s.win <= f
    BY <1>3, <1>5, <1>7
  <2>3. Good(h, y, Edge(so[h]), f, w)
    BY <1>4, <1>5, <1>7, <2>1, <2>2 DEF Good, Flow
  <2>4. y.s.state \in ClosedState
    BY <1>5, <1>7 DEF ClosedState
  <2> QED  BY <1>4, <2>3, <2>4, PhaseOver DEF Ready
<1>9. Whole(so', net', backlog', w)
  <2>1. Whole(so, net, backlog, w) /\ Types /\ \A g \in Host : so[g] \in Socket(g)
    BY <1>1 DEF Agrees, IInv, Local
  <2>2. so'[h] = y.s /\ so'[Peer(h)] = so[Peer(h)]
    BY <1>2, <1>7, <2>1, Peers DEF Types
  <2>3. net'[h] = net[h] /\ net'[Peer(h)] \in {net[Peer(h)], net[Peer(h)] \o y.out}
        /\ backlog' \subseteq Seg(client, Edge(so[client]), Edge(so[server]), w)
    BY <1>2, <1>3
  <2> QED  BY <1>3, <1>7, <1>8, <2>1, <2>2, <2>3, WholeStep DEF f
<1>10. Agrees(w, app', sent', got', so', net', backlog')
  BY <1>1, <1>2, <1>9 DEF Agrees
<1> QED
  BY <1>10 DEF DataInv

\* The world after a call of an application.
Acts(w, a, s, g) == [w EXCEPT !.app = a, !.sent = s, !.got = g]

\* It is a world again ...
LEMMA ActsFields ==
    ASSUME NEW w \in Worlds, NEW a \in [Host -> {"new", "open", "closed"}], NEW s \in [Host -> Nat],
           NEW g \in [Host -> Seq(Nat)]
    PROVE  LET v == Acts(w, a, s, g)
           IN  /\ v \in Worlds /\ v.app = a /\ v.sent = s /\ v.got = g /\ v.isn = w.isn
               /\ \A h : Base(h, v) = Base(h, w)
BY DEF Worlds, Acts, Base

\* ... and the other host is not concerned.
LEMMA ActsAdvance ==
    ASSUME NEW h \in Host, NEW w \in Worlds, NEW v \in Worlds, v.isn = w.isn, w.app[h] # "closed",
           w.sent[h] <= v.sent[h], v.app[Peer(h)] = w.app[Peer(h)],
           v.sent[Peer(h)] = w.sent[Peer(h)], v.got[Peer(h)] = w.got[Peer(h)]
    PROVE  Advance(h, w, v)
<1>1. \A g \in Host : Base(g, v) = Base(g, w) /\ w.sent[g] \in Nat
  BY WorldFields DEF Base
<1>2. Peer(h) \in Host /\ \A g \in Host : g = h \/ g = Peer(h)
  BY Peers DEF Host, Peer
<1>3. \A g \in Host : Follows(g, w, v)
  BY <1>1, <1>2 DEF Follows
<1> QED
  BY <1>1, <1>2, <1>3 DEF Advance, Onward

\* A call, after which the server may have begun anew.
LEMMA ActsData ==
    ASSUME NEW h \in Host, IInv, NEW w, Agrees(w, app, sent, got, so, net, backlog),
           NEW v \in Worlds, Advance(h, w, v), v.isn = w.isn, v.sent = w.sent,
           v.app = app', v.sent = sent', v.got = got', Got(h, v),
           NEW y, Fine(h, y), Moves(h, y, Edge(so[h]), Edge(so[Peer(h)]), v), Store(y, net),
           backlog' \subseteq backlog
    PROVE  DataInv'
<1>1. PICK i \in Nat : /\ Onward(v, Renew(v, i)) /\ (h = server \/ i = v.isn)
                       /\ Ready(h, y, Edge(so[h]), Edge(so[Peer(h)]), Renew(v, i))
  BY DEF Moves
<1> DEFINE u == Renew(v, i)
<1>2. /\ w \in Worlds /\ Flight(so, net, w) /\ InFlightOK(net)
      /\ backlog \subseteq Seg(client, Edge(so[client]), Edge(so[server]), w)
  BY BeginReady
<1>3. /\ u \in Worlds /\ u.app = v.app /\ u.sent = v.sent /\ u.got = v.got /\ Base(client, u) = 0
      /\ (i = v.isn => u = v) /\ Base(client, v) = 0 /\ Onward(v, u)
      /\ Ready(h, y, Edge(so[h]), Edge(so[Peer(h)]), u)
  BY <1>1, RenewFields
<1> HIDE DEF u
<1>4. Base(Peer(h), u) = Base(Peer(h), v)
  <2>1. h = server => Peer(h) = client
    BY TcpAssumption DEF Peer
  <2> QED  BY <1>1, <1>3, <2>1
<1>5. Onward(w, u)
  <2>1. \A g \in Host : Base(g, v) = Base(g, w) /\ w.sent[g] \in Nat
    BY <1>2, WorldFields DEF Base
  <2>2. \A g \in Host : Follows(g, w, u)
    <3> SUFFICES ASSUME NEW g \in Host PROVE Follows(g, w, u)
      OBVIOUS
    <3>1. Follows(g, w, v) /\ Follows(g, v, u)
      BY <1>3 DEF Advance, Onward
    <3> QED  BY <1>3, <2>1, <3>1 DEF Follows
  <2> QED  BY <2>2 DEF Onward
<1>6. Advance(h, w, u) /\ Got(h, u)
  BY <1>3, <1>4, <1>5 DEF Advance, Got
<1> QED
  BY <1>2, <1>3, <1>6, StoreData

\* A new socket is opened: nothing has happened to it yet.
Opened(h, x, e, f, w, v) ==
    /\ v \in Worlds /\ v.isn = w.isn /\ v.sent = w.sent /\ v.got = w.got
    /\ v.app[h] = "open" /\ Advance(h, w, v) /\ Got(h, v) /\ Good(h, x, e, f, v)
    /\ x.s.state = "CLOSED" /\ x.s.una = 0 /\ x.s.nxt = 0 /\ x.s.rx_nxt = 0 /\ x.s.rx_win = RXBSZ
    /\ x.s.rx_buf = <<>> /\ v.sent[h] = 0 /\ v.got[h] = <<>> /\ Base(h, v) = 0

\* The application opens its socket.
LEMMA OpensWorld ==
    ASSUME NEW h \in Host, IInv, NEW w, Agrees(w, app, sent, got, so, net, backlog), Opens(h)
    PROVE  LET v == Acts(w, app', sent, got)
           IN  /\ v.app = app' /\ v.sent = sent /\ v.got = got
               /\ Opened(h, Begin(h), Edge(so[h]), Edge(so[Peer(h)]), w, v)
<1> DEFINE x == Begin(h)
           e == Edge(so[h])
           f == Edge(so[Peer(h)])
           v == Acts(w, app', sent, got)
<1>1. app[h] = "new" /\ app' = [app EXCEPT ![h] = "open"] /\ Peer(h) \in Host /\ Peer(h) # h
  BY Peers DEF Opens
<1>2. /\ w \in Worlds /\ Fine(h, x) /\ x.s = so[h] /\ Ready(h, x, e, f, w) /\ Stage(h, so[h], w)
      /\ e \in Nat /\ f \in Nat /\ Got(h, w)
  BY BeginReady
<1>3. w.app = app /\ w.sent = sent /\ w.got = got /\ Types
  BY DEF Agrees, IInv
<1>4. app' \in [Host -> {"new", "open", "closed"}] /\ sent \in [Host -> Nat] /\ got \in [Host -> Seq(Nat)]
  BY <1>1, <1>2, <1>3 DEF Types, Worlds
<1>5. /\ v \in Worlds /\ v.app = app' /\ v.sent = sent /\ v.got = got /\ v.isn = w.isn
      /\ \A g : Base(g, v) = Base(g, w)
  <2>1. w \in Worlds
    BY <1>2
  <2> QED  BY ONLY <2>1, <1>4, ActsFields
<1> HIDE DEF v, x, e, f
<1>6. /\ v.app[h] = "open" /\ v.app[Peer(h)] = w.app[Peer(h)] /\ v.sent = w.sent /\ v.got = w.got
      /\ w.app[h] = "new"
  BY <1>1, <1>3, <1>4, <1>5
<1>7. Advance(h, w, v) /\ Got(h, v)
  <2>1. w.sent[h] <= v.sent[h]
    BY <1>2, <1>6, WorldFields
  <2> QED  BY <1>2, <1>5, <1>6, <2>1, ActsAdvance DEF Got
<1>8. Good(h, x, e, f, v)
  BY <1>2, <1>5, <1>7, GoodOnward DEF Ready, Advance
<1>9. Early(h, x.s, w) /\ x.s.state = "CLOSED"
  BY <1>2, <1>6 DEF Ready, Phase, Stage
<1>10. /\ x.s.una = 0 /\ w.sent[h] = 0 /\ w.got[h] = <<>> /\ x.s.rx_buf = <<>> /\ x.s.rx_win = RXBSZ
       /\ x.s.nxt = 0 /\ x.s.rx_nxt = 0
  BY <1>6, <1>9 DEF Early
<1>11. Base(h, w) = 0
  <2>1. Base(h, w) \in Nat /\ (x.s.nxt = Base(h, w) + 1 \/ Base(h, w) = 0)
    BY <1>2, <1>9, WorldFields DEF Early
  <2> QED  BY <1>10, <2>1
<1>12. Opened(h, x, e, f, w, v)
  BY <1>5, <1>6, <1>7, <1>8, <1>9, <1>10, <1>11 DEF Opened
<1> QED
  BY <1>5, <1>12 DEF v, x, e, f

\* NutTcpConnect
LEMMA ConnectData ==
    ASSUME IInv, DataInv, NutTcpConnect
    PROVE  DataInv'
<1> DEFINE h == client
           x == Begin(h)
           y == NutTcpStateChange(x, "SYN_SENT")
           e == Edge(so[h])
           f == Edge(so[Peer(h)])
<1>1. PICK w : Agrees(w, app, sent, got, so, net, backlog)
  BY DEF DataInv
<1> DEFINE v == Acts(w, app', sent, got)
<1>2. Opens(h) /\ Store(y, net) /\ UNCHANGED <<sent, got, backlog>>
  BY DEF NutTcpConnect
<1>3. h \in Host
  BY DEF Host
<1>4. Fine(h, x) /\ e \in Nat /\ f \in Nat
  BY <1>1, <1>3, BeginReady
<1>5. v.app = app' /\ v.sent = sent /\ v.got = got /\ Opened(h, x, e, f, w, v)
  BY <1>1, <1>2, <1>3, OpensWorld
<1> HIDE DEF v, x, e, f
<1>6. CanGo("CLOSED", "SYN_SENT") /\ Transition["CLOSED"]["SYN_SENT"] \cap {"SYN", "FIN"} = {"SYN"}
  BY Transitions DEF Transition
<1>7. Fine(h, y)
  BY <1>3, <1>4, <1>5, <1>6, StateChanged DEF Opened
<1>8. v \in Worlds /\ Good(h, x, e, f, v) /\ x.s.state = "CLOSED" /\ x.s.nxt = 0 /\ Base(h, v) = 0
  BY <1>5 DEF Opened
<1>9. /\ Good(h, y, e, f, v) /\ SameRx(x.s, y.s) /\ y.s.state = "SYN_SENT"
      /\ y.s.una = x.s.una /\ y.s.nxt = x.s.nxt + 1
  <2> DEFINE c == Transition["CLOSED"]["SYN_SENT"] \cap {"SYN", "FIN"}
  <2>1. \A n \in Out(h) : Offer(x.s, n) /\ n.flags \cap {"SYN", "FIN"} = c => n \in Seg(h, Edge(x.s), f, v)
    <3> SUFFICES ASSUME NEW n \in Out(h), Offer(x.s, n), n.flags \cap {"SYN", "FIN"} = {"SYN"}
                 PROVE  n \in Seg(h, Edge(x.s), f, v)
      BY <1>6
    <3>1. x.s.nxt <= Base(h, v)
      BY <1>8
    <3> QED  BY <1>3, <1>8, <3>1, SynSeg
  <2> QED  BY <1>3, <1>4, <1>6, <1>8, <2>1, ChangeGood
<1> HIDE DEF y
<1>10. Ready(h, y, e, f, v)
  <2>1. Early(h, y.s, v)
    <3>1. /\ y.s.una = 0 /\ v.sent[h] = 0 /\ v.got[h] = <<>> /\ y.s.rx_buf = <<>> /\ y.s.rx_win = RXBSZ
          /\ y.s.nxt = Base(h, v) + 1 /\ y.s.rx_nxt = 0 /\ v.app[h] = "open"
      BY <1>5, <1>9 DEF SameRx, Opened
    <3> QED  BY <1>9, <3>1 DEF Early
  <2>2. Phase(h, y.s, v)
    BY <1>9, <2>1 DEF Phase
  <2> QED  BY <1>9, <2>2 DEF Ready
<1>11. Moves(h, y, e, f, v)
  BY <1>3, <1>8, <1>10, ReadyMoves
<1>12. v.sent = sent' /\ v.got = got' /\ backlog' \subseteq backlog
  BY <1>2, <1>5
<1>13. Advance(h, w, v) /\ v.isn = w.isn /\ v.sent = w.sent /\ Got(h, v)
  BY <1>5 DEF Opened
<1> HIDE DEF h
<1> QED
  BY <1>1, <1>2, <1>3, <1>5, <1>7, <1>8, <1>11, <1>12, <1>13, ActsData DEF e, f

\* NutTcpAccept
LEMMA AcceptData ==
    ASSUME IInv, Turns, DataInv, NutTcpAccept
    PROVE  DataInv'
<1> DEFINE h == server
           x == Begin(h)
           y == NutTcpStateChange(x, "LISTEN")
           e == Edge(so[h])
           f == Edge(so[Peer(h)])
<1>1. PICK w : Agrees(w, app, sent, got, so, net, backlog)
  BY DEF DataInv
<1> DEFINE v == Acts(w, app', sent, got)
<1>2. /\ Opens(h) /\ UNCHANGED <<sent, got>> /\ backlog' = {}
      /\ Store(y, net) \/ \E m \in backlog : Store(NutTcpStateProcess(y, m), net)
  BY DEF NutTcpAccept, Commit
<1>3. h \in Host /\ Peer(h) = client
  BY TcpAssumption DEF Host, Peer
<1>4. /\ w \in Worlds /\ Fine(h, x) /\ e \in Nat /\ f \in Nat /\ x.s = so[h]
      /\ backlog \subseteq Seg(Peer(h), f, e, w)
  BY <1>1, <1>3, BeginReady
<1>5. v.app = app' /\ v.sent = sent /\ v.got = got /\ Opened(h, x, e, f, w, v)
  BY <1>1, <1>2, <1>3, OpensWorld
<1>6. ServerFirst /\ w.sent[server] = 0 => w.sent[client] = 0
  BY <1>1, TurnsWorld
<1>7. Edge(x.s) = e
  BY <1>4
<1> HIDE DEF v, x, e, f
<1>8. CanGo("CLOSED", "LISTEN") /\ Transition["CLOSED"]["LISTEN"] \cap {"SYN", "FIN"} = {}
  BY Transitions DEF Transition
<1>9. v \in Worlds /\ Good(h, x, e, f, v) /\ x.s.state = "CLOSED" /\ v.app[h] = "open" /\ v.sent = w.sent
  BY <1>5 DEF Opened
<1>10. Fine(h, y) /\ Good(h, y, e, f, v) /\ SameRx(x.s, y.s) /\ y.s.state = "LISTEN"
       /\ y.s.una = x.s.una /\ y.s.nxt = x.s.nxt
  BY <1>3, <1>4, <1>8, <1>9, StateChanged, StateGood
<1> HIDE DEF y
<1>11. Ready(h, y, e, f, v) /\ Edge(y.s) = e
  <2>1. Early(h, y.s, v)
    <3>1. /\ y.s.una = 0 /\ v.sent[h] = 0 /\ v.got[h] = <<>> /\ y.s.rx_buf = <<>> /\ y.s.rx_win = RXBSZ
          /\ y.s.nxt = 0 /\ Base(h, v) = 0 /\ y.s.rx_nxt = 0 /\ v.app[h] = "open"
      BY <1>5, <1>10 DEF SameRx, Opened
    <3> QED  BY <1>10, <3>1 DEF Early
  <2>2. Phase(h, y.s, v)
    BY <1>10, <2>1 DEF Phase
  <2>3. Edge(y.s) = e
    BY <1>7, <1>10 DEF Edge, SameRx
  <2> QED  BY <1>10, <2>2, <2>3 DEF Ready
<1>12. v.sent = sent' /\ v.got = got' /\ backlog' \subseteq backlog
  BY <1>2, <1>5
<1>13. Advance(h, w, v) /\ v.isn = w.isn /\ Got(h, v)
  BY <1>5 DEF Opened
<1>14. CASE Store(y, net)
  <2>1. Moves(h, y, e, f, v)
    BY <1>3, <1>9, <1>11, ReadyMoves
  <2> HIDE DEF h
  <2> QED
    BY <1>1, <1>3, <1>5, <1>9, <1>10, <1>12, <1>13, <1>14, <2>1, ActsData DEF e, f
<1>15. CASE \E m \in backlog : Store(NutTcpStateProcess(y, m), net)
  <2>1. PICK m \in backlog : Store(NutTcpStateProcess(y, m), net)
    BY <1>15
  <2> DEFINE z == NutTcpStateProcess(y, m)
  <2>2. m \in Seg(Peer(h), f, Edge(y.s), v)
    <3>1. Peer(h) \in Host /\ Peer(Peer(h)) = h /\ Onward(w, v)
      BY <1>3, <1>13, Peers DEF Advance
    <3>2. e <= e /\ f <= f
      BY <1>4
    <3>3. Seg(Peer(h), f, e, w) \subseteq Seg(Peer(h), f, e, v)
      BY <1>4, <1>9, <3>1, <3>2, SegOnward
    <3> QED  BY <1>4, <1>11, <2>1, <3>3
  <2>3. Fine(h, z)
    <3>1. Timed(y.s) /\ y.s.state \notin {"CLOSED", "DESTROY", "FREE"}
      BY <1>10 DEF Timed, AckState
    <3>2. m \in Out(Peer(h))
      BY <2>2 DEF Seg
    <3> QED  BY <1>3, <1>10, <3>1, <3>2, ProcessSafe DEF Safe
  <2>4. Moves(h, z, e, f, v)
    <3>1. y.s.state \notin {"CLOSED", "DESTROY", "FREE"} /\ y.s.state \in OpenState
      BY <1>10 DEF OpenState
    <3>2. ServerFirst /\ v.sent[server] = 0 => v.sent[client] = 0
      BY <1>6, <1>9
    <3> QED  BY <1>3, <1>4, <1>9, <1>10, <1>11, <2>2, <3>1, <3>2, ProcessGood
  <2> HIDE DEF h, z
  <2>5. Store(z, net)
    BY <2>1 DEF z
  <2> QED
    BY <1>1, <1>3, <1>5, <1>9, <1>12, <1>13, <2>3, <2>4, <2>5, ActsData DEF e, f
<1> QED
  BY <1>2, <1>14, <1>15

\* One unit of data is sent.
LEMMA SendGood ==
    ASSUME NEW h \in Host, NEW w \in Worlds, NEW v \in Worlds, NEW e \in Nat, NEW f \in Nat,
           NEW x, Fine(h, x), Ready(h, x, e, f, w), x.s.state = "ESTABLISHED", CanSend(x.s),
           w.app[h] = "open", Advance(h, w, v), v.app = w.app, v.got = w.got, Base(h, v) = Base(h, w),
           v.sent[h] = w.sent[h] + 1
    PROVE  LET y == NutTcpOutput(Flag(x, {"ACK"}), <<w.sent[h] + 1>>)
           IN  Fine(h, y) /\ Ready(h, y, e, f, v)
<1> DEFINE c == w.sent[h] + 1
           data == <<c>>
           a == Flag(x, {"ACK"})
           y == NutTcpOutput(a, data)
           m == Made(a.s, data)
           n == x.s.nxt
           b == Base(h, w)
<1>1. Good(h, x, e, f, w) /\ Phase(h, x.s, w) /\ Onward(w, v)
  BY DEF Ready, Advance
<1>2. Fine(h, a) /\ Good(h, a, e, f, w) /\ Still(x, a) /\ a.s.flags = x.s.flags \cup {"ACK"}
  BY <1>1, FlagFine, FlagGood
<1>3. Good(h, a, e, f, v)
  BY <1>1, <1>2, GoodOnward
<1>4. /\ a \in Work(h) /\ a.s \in Socket(h) /\ Numbered(a.s) /\ Quiet(a.s) /\ n \in Nat
      /\ a.s.rx_nxt \in Nat /\ a.s.rx_win \in Nat /\ a.s.nbq \in Seq(Out(h)) /\ a.out \in Seq(Out(h))
      /\ x.s.una \in Nat /\ x.s.win \in Nat
  BY <1>2, EdgeNat DEF Fine
<1>5. c \in Nat /\ b \in Nat /\ w.sent[h] \in Nat /\ Base(h, v) = b /\ v.sent[h] = c
  BY WorldFields
<1>6. a.s.nxt = n /\ n = b + c
  <2>1. n = b + w.sent[h] + 1
    BY <1>1 DEF Phase
  <2>2. b + w.sent[h] + 1 = b + c
    BY <1>5
  <2> QED  BY <1>2, <2>1, <2>2 DEF Still
<1> HIDE DEF a, b, c, n
<1>7. data # <<>> /\ data \in Seq(Nat)
  BY <1>5
<1>8. "SYN" \notin a.s.flags
  BY <1>4 DEF Quiet
<1>9. m = [flags |-> {"ACK"}, seq |-> n, ack |-> a.s.rx_nxt, data |-> data, win |-> a.s.rx_win]
  BY <1>6, <1>7, <1>8 DEF Made, Ctl
<1>10. Fine(h, y)
  <2>1. a.s.flags \subseteq {"SYN", "FIN", "ACK", "FORCE"}
    BY <1>4 DEF Quiet
  <2> QED  BY <1>4, <1>7, <1>8, <2>1, OutputFine
<1>11. /\ SameRx(a.s, y.s) /\ y.s.state = a.s.state /\ y.s.una = a.s.una /\ y.s.win = a.s.win
       /\ y.s.nxt = a.s.nxt + 1 /\ y.s.nbq = Append(a.s.nbq, m) /\ y.out = Append(a.out, m)
  <2> HIDE DEF data
  <2>1. LET k == Ctl(a.s, data) # {} \/ data # <<>>
        IN  IF data = <<>> /\ a.s.flags \cap {"SYN", "FIN", "FORCE"} = {} THEN y = a
            ELSE /\ SameRx(a.s, y.s) /\ y.s.state = a.s.state /\ y.s.una = a.s.una
                 /\ y.s.win = a.s.win /\ y.s.nxt = (IF k THEN a.s.nxt + 1 ELSE a.s.nxt)
                 /\ y.s.nbq = (IF k THEN Append(a.s.nbq, m) ELSE a.s.nbq)
                 /\ y.out = Append(a.out, m)
    BY ONLY <1>4, OutputIs, h \in Host DEF y, m
  <2> HIDE DEF y, m
  <2> QED  BY ONLY <1>7, <2>1
<1> HIDE DEF y, data, m
<1>12. m \in Out(h)
  <2>1. {"ACK"} \in SUBSET FlagSet
    BY DEF FlagSet
  <2>2. m \in Msg
    BY <1>4, <1>7, <1>9, <2>1 DEF Msg
  <2> QED  BY <1>9, <2>2 DEF Out
<1>13. m \in Seg(h, Edge(a.s), f, v)
  <2>1. m.ack + m.win <= Edge(a.s)
    BY <1>4, <1>9 DEF Edge
  <2>2. m.data = <<m.seq - b>> /\ b < m.seq /\ m.seq <= b + v.sent[h]
    <3>1. n - b = c /\ b < n /\ n <= b + c
      <4>1. c # 0
        BY <1>5 DEF c
      <4> QED  BY <1>4, <1>5, <1>6, <4>1
    <3> QED  BY <1>5, <1>9, <3>1 DEF data
  <2>3. v.app[Peer(h)] # "closed" => m.seq + 1 <= f
    <3> SUFFICES ASSUME v.app[Peer(h)] # "closed" PROVE m.seq + 1 <= f
      OBVIOUS
    <3>1. x.s.una + x.s.win <= f
      BY <1>1 DEF Good, Flow
    <3>2. (n - x.s.una) + 1 <= x.s.win
      BY DEF CanSend, n
    <3>3. n + 1 <= f
      <4> DEFINE p == x.s.una
                 q == x.s.win
      <4>1. p \in Nat /\ q \in Nat /\ p + q <= f /\ (n - p) + 1 <= q
        BY <1>4, <3>1, <3>2
      <4> HIDE DEF p, q
      <4> QED  BY <1>4, <4>1
    <3> QED  BY <1>9, <3>3
  <2> QED  BY <1>5, <1>9, <1>12, <2>1, <2>2, <2>3 DEF Seg
<1>14. Good(h, y, e, f, v)
  <2> DEFINE S == Seg(h, Edge(a.s), f, v)
  <2>1. a.s.nbq \in Seq(S) /\ a.out \in Seq(S) /\ (v.app[Peer(h)] # "closed" => a.s.una + a.s.win <= f)
    BY <1>3 DEF Good, Flow
  <2>2. m \in S
    BY <1>13
  <2> HIDE DEF S
  <2>3. Append(a.s.nbq, m) \in Seq(S) /\ Append(a.out, m) \in Seq(S)
    BY <2>1, <2>2, AppendProperties
  <2> QED  BY <1>3, <1>11, <2>1, <2>3, GoodKept DEF S
<1>15. Phase(h, y.s, v)
  <2>1. /\ y.s.state = "ESTABLISHED" /\ y.s.rx_nxt = x.s.rx_nxt /\ y.s.rx_buf = x.s.rx_buf
    BY <1>2, <1>11 DEF Still, SameRx
  <2>2. y.s.nxt = Base(h, v) + v.sent[h] + 1
    BY <1>4, <1>5, <1>6, <1>11
  <2>3. ServerFirst => Reads(h, y.s, v)
    <3>1. ServerFirst => Reads(h, x.s, w)
      BY <1>1 DEF Phase
    <3>2. v.sent[Peer(h)] = w.sent[Peer(h)] /\ Base(Peer(h), v) = Base(Peer(h), w)
      BY DEF Advance
    <3> QED  BY <2>1, <3>1, <3>2 DEF Reads
  <2> QED  BY <2>1, <2>2, <2>3 DEF Phase, EarlyState
<1> QED
  BY <1>10, <1>14, <1>15 DEF Ready, y, a, data, c

\* A call that does nothing to the socket.
LEMMA IdleData ==
    ASSUME DataInv, UNCHANGED <<so, net, app, sent, got, backlog>>
    PROVE  DataInv'
  BY DEF DataInv

\* NutTcpSend
LEMMA SendData ==
    ASSUME NEW h \in Host, IInv, DataInv, NutTcpSend(h)
    PROVE  DataInv'
<1> DEFINE x == Begin(h)
           e == Edge(so[h])
           f == Edge(so[Peer(h)])
           y == NutTcpOutput(Flag(x, {"ACK"}), <<sent[h] + 1>>)
<1>1. app[h] = "open" /\ UNCHANGED <<app, backlog>>
  BY DEF NutTcpSend, Runs
<1>2. CASE UNCHANGED <<so, net, sent, got>>
  BY <1>1, <1>2, IdleData
<1>3. CASE /\ so[h].state = "ESTABLISHED" /\ CanSend(so[h]) /\ Store(y, net)
           /\ sent' = [sent EXCEPT ![h] = @ + 1] /\ UNCHANGED got
  <2>1. PICK w : Agrees(w, app, sent, got, so, net, backlog)
    BY DEF DataInv
  <2> DEFINE v == Acts(w, app, sent', got)
  <2>2. /\ w \in Worlds /\ Fine(h, x) /\ x.s = so[h] /\ Ready(h, x, e, f, w) /\ Got(h, w)
        /\ e \in Nat /\ f \in Nat /\ Flight(so, net, w) /\ InFlightOK(net)
        /\ backlog \subseteq Seg(client, Edge(so[client]), Edge(so[server]), w)
    BY <2>1, BeginReady
  <2>3. w.app = app /\ w.sent = sent /\ w.got = got
    BY <2>1 DEF Agrees
  <2>4. /\ app \in [Host -> {"new", "open", "closed"}] /\ sent \in [Host -> Nat]
        /\ got \in [Host -> Seq(Nat)]
    BY <2>2, <2>3 DEF Worlds
  <2>5. sent' \in [Host -> Nat] /\ sent'[h] = sent[h] + 1 /\ sent'[Peer(h)] = sent[Peer(h)]
    BY <1>3, <2>4, Peers
  <2>6. /\ v \in Worlds /\ v.app = app /\ v.sent = sent' /\ v.got = got /\ v.isn = w.isn
        /\ \A g : Base(g, v) = Base(g, w)
    <3>1. w \in Worlds /\ sent' \in [Host -> Nat]
      BY <2>2, <2>5
    <3> QED  BY ONLY <3>1, <2>4, ActsFields
  <2> HIDE DEF v, x, e, f
  <2>7. Advance(h, w, v) /\ Got(h, v)
    <3>1. w.sent[h] \in Nat /\ w.sent[h] <= v.sent[h]
      BY <2>3, <2>4, <2>5, <2>6
    <3>2. Advance(h, w, v)
      BY <1>1, <2>2, <2>3, <2>5, <2>6, <3>1, ActsAdvance
    <3> QED  BY <2>2, <2>3, <2>5, <2>6, <3>2 DEF Got
  <2>8. Fine(h, y) /\ Ready(h, y, e, f, v)
    <3>1. y = NutTcpOutput(Flag(x, {"ACK"}), <<w.sent[h] + 1>>)
      BY <2>3
    <3>2. /\ x.s.state = "ESTABLISHED" /\ CanSend(x.s) /\ w.app[h] = "open" /\ v.app = w.app
          /\ v.got = w.got /\ Base(h, v) = Base(h, w) /\ v.sent[h] = w.sent[h] + 1
      BY <1>1, <1>3, <2>2, <2>3, <2>5, <2>6
    <3> HIDE DEF y
    <3> QED  BY <2>2, <2>6, <2>7, <3>1, <3>2, SendGood
  <2> HIDE DEF y
  <2>9. v.app = app' /\ v.sent = sent' /\ v.got = got' /\ Store(y, net) /\ backlog' = backlog
    BY <1>1, <1>3, <2>6
  <2> QED  BY <2>1, <2>2, <2>6, <2>7, <2>8, <2>9, StoreData DEF e, f
<1> QED
  BY <1>2, <1>3 DEF NutTcpSend, Commit

\* What a socket has for its application moves on to it.
LEMMA PhaseConsumed ==
    ASSUME NEW h \in Host, NEW w \in Worlds, NEW v \in Worlds, NEW x, NEW y, Fine(h, x), Fine(h, y),
           Phase(h, x.s, w), x.s.state \in {"ESTABLISHED", "CLOSE_WAIT"}, w.app[h] = "open",
           x.s.rx_buf # <<>>, Consumed(x, y), v.app = w.app, v.sent = w.sent, Got(h, w),
           \A g : Base(g, v) = Base(g, w), v.got[h] = Append(w.got[h], Head(x.s.rx_buf))
    PROVE  Phase(h, y.s, v) /\ Got(h, v)
<1> DEFINE q == x.s.rx_buf
           r == Tail(q)
           d == w.got[h]
           c == Append(d, Head(q))
           b == Base(Peer(h), w)
           o == w.sent[Peer(h)]
           n == Len(d)
           l == Len(q)
<1>1. q \in Seq(Nat) /\ d \in Seq(Nat) /\ b \in Nat /\ o \in Nat /\ x.s.rx_nxt \in Nat
  BY EdgeNat, WorldFields
<1>2. /\ y.s.state = x.s.state /\ y.s.nxt = x.s.nxt /\ y.s.rx_nxt = x.s.rx_nxt /\ y.s.rx_buf = r
      /\ v.got[h] = c /\ v.sent[Peer(h)] = o /\ Base(Peer(h), v) = b /\ q # <<>>
  BY DEF Consumed
<1>3. n \in Nat /\ l \in Nat /\ l # 0
  BY <1>1, <1>2, EmptySeq, LenProperties
<1>4. /\ r \in Seq(Nat) /\ Len(r) = l - 1 /\ \A i \in 1..(l - 1) : r[i] = q[i + 1]
      /\ Head(q) = q[1] /\ Head(q) \in Nat
  <2>1. Head(q) \in Nat /\ r \in Seq(Nat) /\ Head(q) = q[1]
    BY <1>1, <1>2, HeadTailProperties
  <2>2. Len(r) = l - 1 /\ \A i \in 1..Len(r) : r[i] = q[i + 1]
    BY <1>1, <1>2, HeadTailProperties
  <2> QED  BY <2>1, <2>2
<1>5. c \in Seq(Nat) /\ Len(c) = n + 1 /\ \A i \in 1..n : c[i] = d[i]
  BY <1>1, <1>4, AppendProperties
<1>6. c[n + 1] = Head(q)
  BY <1>1, <1>4, AppendProperties
<1> HIDE DEF q, r, d, c, b, o, n, l
<1>7. ASSUME ServerFirst
      PROVE  Reads(h, y.s, v) /\ Got(h, v)
  <2>1. Reads(h, x.s, w)
    BY <1>7 DEF Phase
  <2>2. /\ x.s.rx_nxt = (b + 1) + (n + l) + (IF x.s.state = "CLOSE_WAIT" THEN 1 ELSE 0)
        /\ n + l <= o /\ (x.s.state = "CLOSE_WAIT" => n + l = o)
        /\ \A i \in 1..l : q[i] = n + i
    BY <1>2, <2>1 DEF Reads, n, l, d, q, b, o
  <2>3. (n + 1) + (l - 1) = n + l /\ n + 1 <= o /\ 1 \in 1..l
    BY <1>1, <1>3, <2>2
  <2>4. \A i \in 1..(l - 1) : r[i] = (n + 1) + i
    <3> SUFFICES ASSUME NEW i \in 1..(l - 1) PROVE r[i] = (n + 1) + i
      OBVIOUS
    <3>1. i + 1 \in 1..l /\ n + (i + 1) = (n + 1) + i
      BY <1>3
    <3>2. q[i + 1] = n + (i + 1)
      BY <2>2, <3>1
    <3> QED  BY <1>4, <3>1, <3>2
  <2>5. Reads(h, y.s, v)
    BY <1>2, <1>4, <1>5, <2>2, <2>3, <2>4 DEF Reads
  <2>6. \A i \in 1..n : d[i] = i
    BY <1>7 DEF Got, d, n
  <2>7. \A i \in 1..(n + 1) : c[i] = i
    <3> SUFFICES ASSUME NEW i \in 1..(n + 1) PROVE c[i] = i
      OBVIOUS
    <3>1. i \in 1..n \/ i = n + 1
      BY <1>3
    <3>2. c[n + 1] = n + 1
      BY <1>4, <1>6, <2>2, <2>3
    <3> QED  BY <1>5, <2>6, <3>1, <3>2
  <2>8. Got(h, v)
    BY <1>2, <1>5, <2>3, <2>7 DEF Got
  <2> QED  BY <2>5, <2>8
<1>8. Got(h, v)
  BY <1>7 DEF Got
<1>9. x.s.state = "ESTABLISHED" => y.s.nxt = Base(h, v) + v.sent[h] + 1
  BY <1>2 DEF Phase
<1>10. x.s.state = "CLOSE_WAIT" => v.app[Peer(h)] = "closed"
  BY DEF Phase
<1>11. v.app[h] # "new" /\ y.s.state \notin EarlyState /\ y.s.state # "CLOSED"
  BY <1>2 DEF EarlyState
<1> QED
  BY <1>2, <1>7, <1>8, <1>9, <1>10, <1>11 DEF Phase

\* NutTcpReceive
LEMMA ReceiveData ==
    ASSUME NEW h \in Host, IInv, DataInv, NutTcpReceive(h)
    PROVE  DataInv'
<1> DEFINE x == Begin(h)
           e == Edge(so[h])
           f == Edge(so[Peer(h)])
           y == ReceiveUpdate(x)
           d == Head(so[h].rx_buf)
<1>1. app[h] = "open" /\ UNCHANGED <<app, backlog>>
  BY DEF NutTcpReceive, Runs
<1>2. CASE UNCHANGED <<so, net, sent, got>>
  BY <1>1, <1>2, IdleData
<1>3. CASE /\ so[h].rx_buf # <<>> /\ Store(y, net)
           /\ got' = [got EXCEPT ![h] = Append(@, d)] /\ UNCHANGED sent
  <2>1. PICK w : Agrees(w, app, sent, got, so, net, backlog)
    BY DEF DataInv
  <2> DEFINE v == Acts(w, app, sent, got')
  <2>2. /\ w \in Worlds /\ Fine(h, x) /\ x.s = so[h] /\ Ready(h, x, e, f, w) /\ Got(h, w)
        /\ e \in Nat /\ f \in Nat /\ Flight(so, net, w) /\ InFlightOK(net) /\ Stage(h, so[h], w)
        /\ backlog \subseteq Seg(client, Edge(so[client]), Edge(so[server]), w)
    BY <2>1, BeginReady
  <2>3. w.app = app /\ w.sent = sent /\ w.got = got
    BY <2>1 DEF Agrees
  <2>4. /\ app \in [Host -> {"new", "open", "closed"}] /\ sent \in [Host -> Nat]
        /\ got \in [Host -> Seq(Nat)]
    BY <2>2, <2>3 DEF Worlds
  <2>5. /\ got' \in [Host -> Seq(Nat)] /\ got'[h] = Append(got[h], d)
        /\ got'[Peer(h)] = got[Peer(h)]
    <3>1. d \in Nat
      <4>1. so[h].rx_buf \in Seq(Nat)
        BY <2>2, EdgeNat
      <4> QED  BY <1>3, <4>1, HeadTailProperties
    <3> HIDE DEF d
    <3>2. Append(got[h], d) \in Seq(Nat)
      BY <2>4, <3>1, AppendProperties
    <3>3. Peer(h) \in Host /\ Peer(h) # h
      BY Peers
    <3> QED  BY <1>3, <2>4, <3>2, <3>3
  <2>6. /\ v \in Worlds /\ v.app = app /\ v.sent = sent /\ v.got = got' /\ v.isn = w.isn
        /\ \A g : Base(g, v) = Base(g, w)
    <3>1. w \in Worlds /\ got' \in [Host -> Seq(Nat)]
      BY <2>2, <2>5
    <3> QED  BY ONLY <3>1, <2>4, ActsFields
  <2>7. v.got[h] = Append(w.got[h], Head(x.s.rx_buf))
    BY <2>2, <2>3, <2>5, <2>6
  <2> HIDE DEF v, x, e, f, d
  <2>8. Advance(h, w, v)
    <3>1. w.sent[h] \in Nat /\ w.sent[h] <= v.sent[h]
      BY <2>3, <2>4, <2>6
    <3> QED  BY <1>1, <2>2, <2>3, <2>5, <2>6, <3>1, ActsAdvance
  <2>9. x.s.state \in {"ESTABLISHED", "CLOSE_WAIT"}
    <3>1. x.s.state \in OpenState
      BY <1>1, <2>2, <2>3 DEF Stage
    <3>2. x.s.state \notin EarlyState
      BY <1>3, <2>2 DEF Ready, Phase, Early
    <3>3. x.s.state # "CLOSED"
      BY <1>3, <2>2 DEF Ready, Phase
    <3> QED  BY <3>1, <3>2, <3>3 DEF OpenState, EarlyState
  <2>10. Fine(h, y) /\ Good(h, y, e, f, w) /\ Consumed(x, y)
    <3>1. w.app[h] = "open" /\ x.s.rx_buf # <<>> /\ Good(h, x, e, f, w)
      BY <1>1, <1>3, <2>2, <2>3 DEF Ready
    <3> QED  BY <2>2, <3>1, ReceiveUpdateFine, ReceiveUpdateGood
  <2> HIDE DEF y
  <2>11. Phase(h, y.s, v) /\ Got(h, v)
    <3>1. Phase(h, x.s, w) /\ w.app[h] = "open" /\ x.s.rx_buf # <<>> /\ v.app = w.app /\ v.sent = w.sent
      BY <1>1, <1>3, <2>2, <2>3, <2>6 DEF Ready
    <3> QED  BY <2>2, <2>6, <2>7, <2>9, <2>10, <3>1, PhaseConsumed
  <2>12. Ready(h, y, e, f, v)
    BY <2>2, <2>6, <2>8, <2>10, <2>11, GoodOnward DEF Ready, Advance
  <2>13. v.app = app' /\ v.sent = sent' /\ v.got = got' /\ Store(y, net) /\ backlog' = backlog
    BY <1>1, <1>3, <2>6
  <2> QED  BY <2>1, <2>2, <2>6, <2>8, <2>10, <2>11, <2>12, <2>13, StoreData DEF e, f
<1> QED
  BY <1>2, <1>3 DEF NutTcpReceive, Commit

\* NutTcpCloseSocket: the FIN comes after all data.
LEMMA CloseData ==
    ASSUME NEW h \in Host, IInv, DataInv, NutTcpCloseSocket(h)
    PROVE  DataInv'
<1> DEFINE x  == Begin(h)
           to == CloseTo(so[h].state)
           y  == NutTcpStateChange(x, to)
           e  == Edge(so[h])
           f  == Edge(so[Peer(h)])
<1>1. PICK w : Agrees(w, app, sent, got, so, net, backlog)
  BY DEF DataInv
<1> DEFINE v == Acts(w, app', sent, got)
<1>2. /\ app[h] = "open" /\ Store(y, net) /\ app' = [app EXCEPT ![h] = "closed"]
      /\ UNCHANGED <<sent, got, backlog>>
  BY DEF NutTcpCloseSocket, Runs, Commit
<1>3. /\ w \in Worlds /\ Fine(h, x) /\ x.s = so[h] /\ Ready(h, x, e, f, w) /\ Got(h, w)
      /\ e \in Nat /\ f \in Nat /\ Flight(so, net, w) /\ InFlightOK(net) /\ Stage(h, so[h], w)
      /\ backlog \subseteq Seg(client, Edge(so[client]), Edge(so[server]), w)
  BY <1>1, BeginReady
<1>4. w.app = app /\ w.sent = sent /\ w.got = got
  BY <1>1 DEF Agrees
<1>5. /\ app' \in [Host -> {"new", "open", "closed"}] /\ app'[h] = "closed"
      /\ app'[Peer(h)] = app[Peer(h)] /\ sent \in [Host -> Nat] /\ got \in [Host -> Seq(Nat)]
  <2>1. /\ app \in [Host -> {"new", "open", "closed"}] /\ sent \in [Host -> Nat]
        /\ got \in [Host -> Seq(Nat)]
    BY <1>3, <1>4 DEF Worlds
  <2> QED  BY <1>2, <2>1, Peers
<1>6. /\ v \in Worlds /\ v.app = app' /\ v.sent = sent /\ v.got = got /\ v.isn = w.isn
      /\ \A g : Base(g, v) = Base(g, w)
  <2>1. w \in Worlds
    BY <1>3
  <2> QED  BY ONLY <2>1, <1>5, ActsFields
<1> HIDE DEF v, e, f
<1>7. Advance(h, w, v) /\ Got(h, v)
  <2>1. w.sent[h] \in Nat /\ w.sent[h] <= v.sent[h]
    BY <1>4, <1>5, <1>6
  <2> QED  BY <1>2, <1>3, <1>4, <1>5, <1>6, <2>1, ActsAdvance DEF Got
<1>8. Good(h, x, e, f, v) /\ Phase(h, x.s, w)
  BY <1>3, <1>6, <1>7, GoodOnward DEF Ready, Advance
<1>9. x.s.state \in OpenState /\ to = CloseTo(x.s.state)
  BY <1>2, <1>3, <1>4 DEF Stage
<1> HIDE DEF x
<1>10. ASSUME x.s.state \in {"LISTEN", "SYN_SENT", "CLOSED"}
       PROVE  Fine(h, y) /\ Good(h, y, e, f, v) /\ y.s.state \in ClosedState
  <2>1. to = "DESTROY"
    BY <1>9, <1>10 DEF CloseTo
  <2>2. CanGo(x.s.state, "DESTROY") /\ Transition[x.s.state]["DESTROY"] \cap {"SYN", "FIN"} = {}
    BY <1>10, Transitions DEF Transition
  <2> HIDE DEF to
  <2>3. Fine(h, y) /\ Good(h, y, e, f, v) /\ y.s.state = "DESTROY"
    BY <1>3, <1>6, <1>8, <2>1, <2>2, StateChanged, StateGood
  <2> QED  BY <2>3 DEF ClosedState
<1>11. ASSUME x.s.state \in {"SYN_RECEIVED", "ESTABLISHED", "CLOSE_WAIT"}
       PROVE  Fine(h, y) /\ Good(h, y, e, f, v) /\ y.s.state \in ClosedState
  <2>1. /\ to \in {"FIN_WAIT_1", "LAST_ACK"} /\ CanGo(x.s.state, to)
        /\ Transition[x.s.state][to] \cap {"SYN", "FIN"} = {"FIN"}
    <3>1. CASE x.s.state \in {"SYN_RECEIVED", "ESTABLISHED"}
      <4>1. to = "FIN_WAIT_1"
        BY <1>9, <3>1 DEF CloseTo
      <4> HIDE DEF to
      <4> QED  BY <3>1, <4>1, Transitions DEF Transition
    <3>2. CASE x.s.state = "CLOSE_WAIT"
      <4>1. to = "LAST_ACK"
        BY <1>9, <3>2 DEF CloseTo
      <4> HIDE DEF to
      <4> QED  BY <3>2, <4>1, Transitions DEF Transition
    <3> QED  BY <1>11, <3>1, <3>2
  <2> HIDE DEF to
  <2>2. v.app[Peer(h)] = "closed" \/ (v.app[h] = "closed" /\ x.s.nxt = Base(h, v) + v.sent[h] + 1)
    <3>1. CASE x.s.state = "CLOSE_WAIT"
      <4>1. w.app[Peer(h)] = "closed"
        BY <1>8, <3>1 DEF Phase
      <4> QED  BY <1>4, <1>5, <1>6, <4>1
    <3>2. CASE x.s.state = "ESTABLISHED"
      <4>1. x.s.nxt = Base(h, w) + w.sent[h] + 1
        BY <1>8, <3>2 DEF Phase
      <4> QED  BY <1>4, <1>5, <1>6, <4>1
    <3>3. CASE x.s.state = "SYN_RECEIVED"
      <4>1. x.s.nxt = Base(h, w) + 1 /\ w.sent[h] = 0 /\ Base(h, w) \in Nat
        BY <1>3, <1>8, <3>3, WorldFields DEF Phase, Early, EarlyState
      <4>2. Base(h, v) + v.sent[h] + 1 = Base(h, w) + 1
        BY <1>4, <1>6, <4>1
      <4> QED  BY <1>5, <1>6, <4>1, <4>2
    <3> QED  BY <1>11, <3>1, <3>2, <3>3
  <2>3. \A m \in Out(h) :
           Offer(x.s, m) /\ m.flags \cap {"SYN", "FIN"} = {"FIN"} => m \in Seg(h, Edge(x.s), f, v)
    BY <1>6, <2>2, FinSeg
  <2>4. Good(h, y, e, f, v) /\ y.s.state = to
    BY <1>3, <1>6, <1>8, <2>1, <2>3, ChangeGood
  <2>5. Fine(h, y)
    BY <1>3, <2>1, StateChanged
  <2> QED  BY <2>1, <2>4, <2>5 DEF ClosedState, AckState
<1>12. Fine(h, y) /\ Good(h, y, e, f, v) /\ y.s.state \in ClosedState
  <2> HIDE DEF to, y
  <2> QED  BY <1>9, <1>10, <1>11 DEF OpenState
<1> HIDE DEF y
<1>13. Ready(h, y, e, f, v)
  BY <1>5, <1>6, <1>12, PhaseOver DEF Ready
<1>14. v.sent = sent' /\ v.got = got' /\ backlog' = backlog
  BY <1>2, <1>6
<1> QED
  BY <1>1, <1>2, <1>3, <1>6, <1>7, <1>12, <1>13, <1>14, StoreData DEF e, f

-----------------------------------------------------------------------------
(* The data are always as sent                                             *)

\* A step in which the client does not call NutTcpSend and gets no data.
LEMMA TurnsKept ==
    ASSUME Turns, sent'[client] = sent[client], got'[client] = got[client],
           op'[client] # "send" \/ op'[client] = op[client]
    PROVE  Turns'
  BY DEF Turns

\* Only NutTcpSend and NutTcpReceive of the client matter to it.
LEMMA TurnsNext ==
    ASSUME IInv, DataInv, Turns, [Next]_vars
    PROVE  Turns'
<1>1. /\ op \in [Host -> Queue \cup {"none"}] /\ sent \in [Host -> Nat] /\ client \in Host
      /\ got \in [Host -> Seq(Nat)]
  BY DEF IInv, Types, DataInv, Agrees, Worlds, Host
<1>2. ASSUME NEW h \in Host, Deliver(h) \/ Duplicate(h) \/ Lose(h) \/ Overtake(h) PROVE Turns'
  BY <1>2, TurnsKept DEF Deliver, Duplicate, Lose, Overtake, Process
<1>3. ASSUME NEW h \in Host, NEW due \in BOOLEAN, NEW over \in BOOLEAN, TimerPass(h, due, over)
      PROVE  Turns'
  <2>1. UNCHANGED <<op, sent, got>>
    BY <1>3 DEF TimerPass
  <2> QED  BY <2>1, TurnsKept
<1>4. ASSUME NEW h \in Host, NutTcpGarbadgeCollect(h) \/ NutTcpCloseSocket(h) PROVE Turns'
  BY <1>4, TurnsKept DEF NutTcpGarbadgeCollect, NutTcpCloseSocket
<1>5. ASSUME NEW h \in Host, OpenReturns(h) PROVE Turns'
  <2>1. op'[client] \in {"none", op[client]} /\ UNCHANGED <<sent, got>>
    BY <1>1, <1>5 DEF OpenReturns, Returns
  <2> QED  BY <2>1, TurnsKept
<1>6. ASSUME NEW h \in Host, NutTcpSend(h) PROVE Turns'
  <2>1. CASE h = client
    <3>1. got' = got /\ op[client] \in {"none", "send"}
      BY <1>6, <2>1 DEF NutTcpSend, Runs
    <3>2. ServerFirst => got[client] # <<>>
      BY <1>6, <2>1, <3>1 DEF NutTcpSend, Turns
    <3> QED  BY <3>1, <3>2 DEF Turns
  <2>2. CASE h # client
    <3>1. op'[client] = op[client] /\ sent'[client] = sent[client] /\ got' = got
      BY <1>1, <1>6, <2>2 DEF NutTcpSend, Returns, Waits
    <3> QED  BY <3>1, TurnsKept
  <2> QED  BY <2>1, <2>2
<1>7. ASSUME NEW h \in Host, NutTcpReceive(h) PROVE Turns'
  <2>1. sent' = sent /\ op'[client] \in {"none", "recv", op[client]}
    BY <1>1, <1>7 DEF NutTcpReceive, Returns, Waits
  <2>2. CASE got' = got
    BY <2>1, <2>2, TurnsKept
  <2>3. CASE so[h].rx_buf # <<>> /\ got' = [got EXCEPT ![h] = Append(@, Head(so[h].rx_buf))]
    <3> DEFINE d == Head(so[h].rx_buf)
    <3>1. CASE h = client
      <4>1. got'[client] = Append(got[client], d) /\ got[client] \in Seq(Nat)
        BY <1>1, <2>3, <3>1
      <4>2. d \in Nat
        <5>1. so[h].rx_buf \in Seq(Nat)
          BY SocketFields DEF IInv, Local
        <5> QED  BY <2>3, <5>1, HeadTailProperties
      <4> HIDE DEF d
      <4>3. Append(got[client], d) # <<>>
        BY <4>1, <4>2, AppendProperties
      <4> QED  BY <4>1, <4>3 DEF Turns
    <3>2. CASE h # client
      <4>1. got'[client] = got[client]
        BY <1>1, <2>3, <3>2
      <4> QED  BY <2>1, <4>1, TurnsKept
    <3> QED  BY <3>1, <3>2
  <2> QED  BY <1>7, <2>2, <2>3 DEF NutTcpReceive
<1>8. CASE Disconnect \/ BacklogOver
  BY <1>8, TurnsKept DEF Disconnect, BacklogOver
<1>9. CASE NutTcpConnect
  <2>1. op'[client] = "connect" /\ UNCHANGED <<sent, got>>
    BY <1>1, <1>9 DEF NutTcpConnect, Waits
  <2> QED  BY <2>1, TurnsKept
<1>10. CASE NutTcpAccept
  <2>1. op'[client] \in {"accept", op[client]} /\ UNCHANGED <<sent, got>>
    <3>1. (op' = op \/ op' = [op EXCEPT ![server] = "accept"]) /\ UNCHANGED <<sent, got>>
      BY <1>10 DEF NutTcpAccept, Waits
    <3> QED  BY <1>1, <3>1
  <2> QED  BY <2>1, TurnsKept
<1>11. CASE UNCHANGED vars
  BY <1>11, TurnsKept DEF vars
<1> QED
  BY <1>2, <1>3, <1>4, <1>5, <1>6, <1>7, <1>8, <1>9, <1>10, <1>11 DEF Next

\* One case for each action.
LEMMA DataNext ==
    ASSUME IInv, DataInv, Turns, [Next]_vars
    PROVE  DataInv'
<1>1. ASSUME NEW h \in Host, Deliver(h) \/ Duplicate(h) \/ Lose(h) \/ Overtake(h)
      PROVE  DataInv'
  BY <1>1, NetData
<1>2. ASSUME NEW h \in Host, NEW due \in BOOLEAN, NEW over \in BOOLEAN, TimerPass(h, due, over)
      PROVE  DataInv'
  BY <1>2, TimerData
<1>3. ASSUME NEW h \in Host, NutTcpGarbadgeCollect(h) PROVE DataInv'
  BY <1>3, CollectData
<1>4. ASSUME NEW h \in Host, OpenReturns(h) PROVE DataInv'
  BY <1>4, IdleData DEF OpenReturns
<1>5. ASSUME NEW h \in Host, NutTcpSend(h) PROVE DataInv'
  BY <1>5, SendData
<1>6. ASSUME NEW h \in Host, NutTcpReceive(h) PROVE DataInv'
  BY <1>6, ReceiveData
<1>7. ASSUME NEW h \in Host, NutTcpCloseSocket(h) PROVE DataInv'
  BY <1>7, CloseData
<1>8. CASE Disconnect
  <2>1. client \in Host
    BY DEF Host
  <2> QED  BY <1>8, <2>1, NetData
<1>9. CASE BacklogOver
  BY <1>9, BacklogData
<1>10. CASE NutTcpConnect
  BY <1>10, ConnectData
<1>11. CASE NutTcpAccept
  BY <1>11, AcceptData
<1>12. CASE UNCHANGED vars
  BY <1>12, IdleData DEF vars
<1> QED
  BY <1>1, <1>2, <1>3, <1>4, <1>5, <1>6, <1>7, <1>8, <1>9, <1>10, <1>11, <1>12 DEF Next

\* Two new sockets.
LEMMA DataInit == Init => DataInv /\ Turns
<1> SUFFICES ASSUME Init PROVE DataInv /\ Turns
  OBVIOUS
<1> DEFINE w == [app |-> app, sent |-> sent, got |-> got, isn |-> 0]
<1>1. \A S : <<>> \in Seq(S)
  OBVIOUS
<1>2. /\ w \in Worlds /\ w.app = app /\ w.sent = sent /\ w.got = got /\ w.isn = 0
      /\ \A h : Base(h, w) = 0
  BY <1>1 DEF Init, Worlds, Base
<1>3. /\ \A h \in Host : /\ so[h] = NewSocket /\ app[h] = "new" /\ sent[h] = 0 /\ got[h] = <<>>
                         /\ net[h] = <<>> /\ op[h] = "none" /\ Peer(h) \in Host
      /\ backlog = {}
  BY Peers DEF Init
<1> HIDE DEF w
<1> DEFINE s == NewSocket
<1>4. /\ s.state = "CLOSED" /\ s.una = 0 /\ s.nxt = 0 /\ s.rx_nxt = 0 /\ s.win = 0 /\ s.nbq = <<>>
      /\ s.rx_buf = <<>> /\ s.rx_nbq = <<>> /\ s.rx_win = RXBSZ
  BY DEF NewSocket
<1> HIDE DEF s
<1>5. Edge(s) \in Nat /\ RXBSZ \in Nat /\ Edge(s) = 0 + RXBSZ
  BY <1>4, TcpAssumption DEF Edge
<1>6. ASSUME NEW h \in Host
      PROVE  Flow(h, so[h], Edge(so[Peer(h)]), w) /\ Phase(h, so[h], w) /\ Got(h, w)
  <2>1. so[h] = s /\ so[Peer(h)] = s /\ w.app[h] = "new" /\ w.sent[h] = 0 /\ w.got[h] = <<>>
        /\ w.sent[Peer(h)] = 0 /\ Base(h, w) = 0
    BY <1>2, <1>3, <1>6 DEF s
  <2>2. s.una + s.win <= Edge(s) /\ s.rx_win + Len(s.rx_buf) <= RXBSZ
    BY <1>4, <1>5
  <2>3. Sorted(<<>>)
    BY DEF Sorted
  <2>4. Flow(h, s, Edge(s), w)
    BY <1>1, <1>4, <2>2, <2>3 DEF Flow, Holds
  <2>5. Early(h, s, w)
    BY <1>4, <2>1 DEF Early
  <2>6. Phase(h, s, w)
    BY <1>4, <2>5 DEF Phase
  <2>7. Got(h, w)
    BY <2>1 DEF Got
  <2> QED  BY <2>1, <2>4, <2>6, <2>7
<1>7. Whole(so, net, backlog, w)
  BY <1>1, <1>3, <1>6 DEF Whole, Flight
<1>8. DataInv
  BY <1>2, <1>7 DEF DataInv, Agrees
<1>9. Turns
  <2>1. client \in Host
    BY DEF Host
  <2> QED  BY <1>3, <2>1 DEF Turns
<1> QED
  BY <1>8, <1>9

\* The invariant holds always.
LEMMA DataAlways == Spec => [](IInv /\ DataInv /\ Turns)
<1>1. Init => IInv /\ DataInv /\ Turns
  BY IInvInit, DataInit
<1>2. IInv /\ DataInv /\ Turns /\ [Next]_vars => (IInv /\ DataInv /\ Turns)'
  BY IInvNext, DataNext, TurnsNext
<1> QED
  BY <1>1, <1>2, PTL DEF Spec

\* Data that a socket in use holds fit into its receive buffer
\* (NutTcpProcessAppData, NutTcpReceive): all that the peer may have sent on the
\* strength of any window that it was ever offered, stale ones included, does.
THEOREM TcpWindowRespected == Spec => []WindowRespected
<1>1. IInv /\ DataInv => WindowRespected
  <2> SUFFICES ASSUME IInv, DataInv, NEW h \in Host, app[h] # "closed"
               PROVE  Len(so[h].rx_buf) <= RXBSZ
    BY DEF WindowRespected
  <2>1. PICK w : Agrees(w, app, sent, got, so, net, backlog)
    BY DEF DataInv
  <2>2. so[h].rx_win + Len(so[h].rx_buf) <= RXBSZ
    BY <2>1 DEF Agrees, Whole, Flow, Holds
  <2>3. so[h].rx_win \in Nat /\ so[h].rx_buf \in Seq(Nat)
    BY SocketFields DEF IInv, Local
  <2>4. Len(so[h].rx_buf) \in Nat /\ RXBSZ \in Nat
    BY <2>3, TcpAssumption, LenProperties
  <2> DEFINE a == so[h].rx_win
             b == Len(so[h].rx_buf)
  <2>5. a \in Nat /\ b \in Nat /\ a + b <= RXBSZ
    BY <2>2, <2>3, <2>4
  <2> HIDE DEF a, b
  <2>6. b <= RXBSZ
    BY <2>4, <2>5
  <2> QED  BY <2>6 DEF b
<1> QED
  BY <1>1, DataAlways, PTL

\* The units of data that are sent.
LEMMA StreamIs ==
    ASSUME NEW n \in Nat
    PROVE  /\ Stream(n) \in Seq(Nat) /\ Len(Stream(n)) = n
           /\ \A i \in 1..n : Stream(n)[i] = i
  BY DEF Stream

\* What an application has got is a prefix of them.
LEMMA PrefixIs ==
    ASSUME NEW n \in Nat, NEW g \in Seq(Nat), Len(g) <= n, \A i \in 1..Len(g) : g[i] = i
    PROVE  IsPrefix(g, Stream(n))
<1> DEFINE k == Len(g)
           t == Stream(n)
<1>1. t \in Seq(Nat) /\ Len(t) = n /\ \A i \in 1..n : t[i] = i
  BY StreamIs
<1>2. k \in Nat /\ k <= n /\ \A i \in 1..k : g[i] = i
  BY LenProperties
<1> HIDE DEF t, k
<1>3. \A i \in 1..k : t[i] = i /\ t[i] \in Nat /\ g[i] \in Nat
  BY <1>1, <1>2
<1>4. /\ SubSeq(t, 1, k) \in Seq(Nat) /\ Len(SubSeq(t, 1, k)) = (IF 1 <= k THEN k - 1 + 1 ELSE 0)
      /\ \A i \in 1..(k - 1 + 1) : SubSeq(t, 1, k)[i] = t[1 + i - 1]
  BY <1>2, <1>3, SubSeqProperties
<1>5. /\ SubSeq(g, 1, k) \in Seq(Nat) /\ Len(SubSeq(g, 1, k)) = (IF 1 <= k THEN k - 1 + 1 ELSE 0)
      /\ \A i \in 1..(k - 1 + 1) : SubSeq(g, 1, k)[i] = g[1 + i - 1]
  BY <1>2, <1>3, SubSeqProperties
<1>6. k - 1 + 1 = k /\ \A i \in 1..k : 1 + i - 1 = i
  BY <1>2
<1>7. Len(SubSeq(g, 1, k)) = Len(SubSeq(t, 1, k)) /\ Len(SubSeq(g, 1, k)) = k
  BY <1>2, <1>4, <1>5
<1>8. \A i \in 1..k : SubSeq(g, 1, k)[i] = SubSeq(t, 1, k)[i]
  BY <1>2, <1>3, <1>4, <1>5, <1>6
<1>9. SubSeq(g, 1, k) = SubSeq(t, 1, k)
  BY <1>4, <1>5, <1>7, <1>8, SeqEqual
<1> QED
  BY <1>1, <1>2, <1>9 DEF IsPrefix, k, t

\* When nothing is missing, it has got all of them with what its socket holds.
LEMMA AllIs ==
    ASSUME NEW n \in Nat, NEW g \in Seq(Nat), NEW q \in Seq(Nat), Len(g) + Len(q) = n,
           \A i \in 1..Len(g) : g[i] = i, \A i \in 1..Len(q) : q[i] = Len(g) + i
    PROVE  g \o q = Stream(n)
<1> DEFINE k == Len(g)
           l == Len(q)
           t == Stream(n)
           r == g \o q
<1>1. t \in Seq(Nat) /\ Len(t) = n /\ \A i \in 1..n : t[i] = i
  BY StreamIs
<1>2. k \in Nat /\ l \in Nat /\ k + l = n
  BY LenProperties
<1>3. r \in Seq(Nat) /\ Len(r) = k + l /\ \A i \in 1..(k + l) : r[i] = IF i <= k THEN g[i] ELSE q[i - k]
  BY ConcatProperties
<1>4. (\A i \in 1..k : g[i] = i) /\ (\A i \in 1..l : q[i] = k + i)
  OBVIOUS
<1> HIDE DEF k, l, t, r
<1>5. \A i \in 1..n : r[i] = t[i]
  <2> SUFFICES ASSUME NEW i \in 1..n PROVE r[i] = i
    BY <1>1
  <2>1. CASE i <= k
    <3>1. i \in 1..k
      BY <1>2, <2>1
    <3> QED  BY <1>2, <1>3, <1>4, <2>1, <3>1
  <2>2. CASE ~(i <= k)
    <3>1. i - k \in 1..l /\ k + (i - k) = i
      BY <1>2, <2>2
    <3>2. q[i - k] = k + (i - k)
      BY <1>4, <3>1
    <3> QED  BY <1>2, <1>3, <2>2, <3>1, <3>2
  <2> QED  BY <2>1, <2>2
<1>6. r = t
  BY <1>1, <1>2, <1>3, <1>5, SeqEqual
<1> QED
  BY <1>6 DEF r, t

\* Data arrive complete and in order (NutTcpStateEstablished, NutTcpProcessAppData,
\* NutTcpStateRetranTimeout), for any number of lost, repeated and overtaking
\* segments and of timeouts, if the client lets the server speak first.
THEOREM TcpStreamIntegrity ==
    ASSUME ServerFirst
    PROVE  Spec => []StreamIntegrity
<1>1. IInv /\ DataInv => StreamIntegrity
  <2> SUFFICES ASSUME IInv, DataInv, NEW h \in Host
               PROVE  /\ IsPrefix(got[h], Stream(sent[Peer(h)]))
                      /\ so[h].state = "CLOSE_WAIT" => got[h] \o so[h].rx_buf = Stream(sent[Peer(h)])
    BY DEF StreamIntegrity
  <2>1. PICK w : Agrees(w, app, sent, got, so, net, backlog)
    BY DEF DataInv
  <2>2. /\ w \in Worlds /\ w.sent = sent /\ w.got = got /\ Got(h, w) /\ Phase(h, so[h], w)
    BY <2>1 DEF Agrees, Whole
  <2>3. w.got[h] \in Seq(Nat) /\ w.sent[Peer(h)] \in Nat /\ so[h].rx_buf \in Seq(Nat)
    BY <2>2, WorldFields, SocketFields DEF IInv, Local
  <2>4. Len(w.got[h]) <= w.sent[Peer(h)] /\ \A i \in 1..Len(w.got[h]) : w.got[h][i] = i
    BY <2>2 DEF Got
  <2>5. IsPrefix(w.got[h], Stream(w.sent[Peer(h)]))
    BY <2>3, <2>4, PrefixIs
  <2>6. ASSUME so[h].state = "CLOSE_WAIT"
        PROVE  w.got[h] \o so[h].rx_buf = Stream(w.sent[Peer(h)])
    <3>1. Reads(h, so[h], w)
      BY <2>2, <2>6 DEF Phase
    <3>2. /\ Len(w.got[h]) + Len(so[h].rx_buf) = w.sent[Peer(h)]
          /\ \A i \in 1..Len(so[h].rx_buf) : so[h].rx_buf[i] = Len(w.got[h]) + i
      BY <2>6, <3>1 DEF Reads
    <3> QED  BY <2>3, <2>4, <3>2, AllIs
  <2> QED  BY <2>2, <2>5, <2>6
<1> QED
  BY <1>1, DataAlways, PTL
=============================================================================
