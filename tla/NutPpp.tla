------------------------------- MODULE NutPpp -------------------------------
(***************************************************************************)
(* The PPP link of Nut/Net: the state machine of net/pppsm.c with the      *)
(* treatment of LCP, PAP and IPCP frames (net/lcpin.c, net/papin.c,        *)
(* net/ipcpin.c), the device calls of dev/ppp.c and the thread that waits  *)
(* for the link in NutNetIfConfig (net/ifconfig.c).                        *)
(*                                                                         *)
(* The peer may send any frame at any time and need not answer, so frames  *)
(* that are lost, repeated or out of date are included and what is sent to *)
(* it is left out.  Of a frame remains what the code finds out about it: is *)
(* the identifier that of our last request (current), and are the options  *)
(* acceptable.  Buffers can be allocated and sending does not block, so    *)
(* the treatment of a frame, a pass of the thread NutPppSm and a device    *)
(* call are one action each.                                               *)
(***************************************************************************)
EXTENDS Naturals

CONSTANTS
    Auth,         \* is there a user name or a password? (dcb_auth = PPP_PAP)
    MAX_RETRIES   \* 9 in the code

ASSUME PppAssumption == Auth \in BOOLEAN /\ MAX_RETRIES \in Nat \ {0}

VARIABLES
    dcb,    \* the PPPDCB; states are named as in netinet/ppp_fsm.h
    open,   \* is the device open?
    conf,   \* where a thread is in NutNetIfConfig
    wasUp   \* history: was the network layer up when it called NutNetIfConfig?

PppVars == <<dcb, open, conf, wasUp>>

\* The PPPDCB.
PppState ==
    {"INITIAL", "STARTING", "CLOSED", "STOPPED", "CLOSING", "STOPPING",
     "REQSENT", "ACKRCVD", "ACKSENT", "OPENED"}

PppDcb ==
    [lcp_state : PppState, ipcp_state : PppState,
     auth_state : {"INITIAL", "AUTHREQ", "OPEN", "BADAUTH"},
     acked : BOOLEAN, retries : Nat, evt : BOOLEAN]

\* NutPppOpen clears the structure.  The field evt, not one of the code's,
\* tells that an event was posted to dcb_state_chg.
Cleared ==
    [lcp_state |-> "INITIAL", ipcp_state |-> "INITIAL", auth_state |-> "INITIAL",
     acked |-> FALSE, retries |-> 0, evt |-> FALSE]

PppInit == dcb = Cleared /\ open = FALSE /\ conf = "idle" /\ wasUp = FALSE

-----------------------------------------------------------------------------
(* State changes of net/pppsm.c, functions of the PPPDCB                   *)

Lcp(d, state) == [d EXCEPT !.lcp_state = state]
Ipcp(d, state) == [d EXCEPT !.ipcp_state = state]
Post(d) == [d EXCEPT !.evt = TRUE]

\* The configuration requests.  That of IPCP leaves the retries alone.
LcpTxConfReq(d) == [d EXCEPT !.acked = FALSE, !.retries = 0]
IpcpTxConfReq(d) == [d EXCEPT !.acked = FALSE]
PapTxAuthReq(d) == [d EXCEPT !.auth_state = "AUTHREQ"]

\* What both layers do when they are opened or when the layer below them comes
\* or goes: the new state, or none for a state without entry.
OpenTo == [INITIAL |-> "STARTING", CLOSED |-> "REQSENT", CLOSING |-> "STOPPING"]

CloseTo == [STARTING |-> "INITIAL", STOPPED |-> "CLOSED", STOPPING |-> "CLOSING",
            REQSENT |-> "CLOSING", ACKRCVD |-> "CLOSING", ACKSENT |-> "CLOSING",
            OPENED |-> "CLOSING"]

UpTo == [INITIAL |-> "CLOSED", STARTING |-> "REQSENT"]

DownTo ==
    [CLOSED |-> "INITIAL", STOPPED |-> "STARTING", CLOSING |-> "INITIAL",
     STOPPING |-> "STARTING", REQSENT |-> "STARTING", ACKRCVD |-> "STARTING",
     ACKSENT |-> "STARTING", OPENED |-> "STARTING"]

IpcpLowerUp(d) ==
    IF d.ipcp_state \notin DOMAIN UpTo THEN d
    ELSE LET e == IF d.ipcp_state = "STARTING" THEN IpcpTxConfReq(d) ELSE d
         IN  Ipcp(e, UpTo[d.ipcp_state])

IpcpLowerDown(d) ==
    IF d.ipcp_state \notin DOMAIN DownTo THEN d
    ELSE LET e == IF d.ipcp_state = "OPENED" THEN Post(d) ELSE d
         IN  Ipcp(e, DownTo[d.ipcp_state])

LcpOpen(d) ==
    IF d.lcp_state \notin DOMAIN OpenTo THEN d
    ELSE Lcp(IF d.lcp_state = "CLOSED" THEN LcpTxConfReq(d) ELSE d, OpenTo[d.lcp_state])

LcpClose(d) ==
    IF d.lcp_state \notin DOMAIN CloseTo THEN d
    ELSE LET busy == d.lcp_state \in {"REQSENT", "ACKRCVD", "ACKSENT", "OPENED"}
         IN  Lcp(IF busy THEN IpcpLowerDown(d) ELSE d, CloseTo[d.lcp_state])

LcpLowerUp(d) ==
    IF d.lcp_state \notin DOMAIN UpTo THEN d
    ELSE Lcp(IF d.lcp_state = "STARTING" THEN LcpTxConfReq(d) ELSE d, UpTo[d.lcp_state])

LcpLowerDown(d) ==
    IF d.lcp_state \notin DOMAIN DownTo THEN d
    ELSE Lcp(IF d.lcp_state = "OPENED" THEN IpcpLowerDown(d) ELSE d, DownTo[d.lcp_state])

IpcpOpen(d) ==
    CASE d.ipcp_state = "INITIAL" -> LcpOpen(Ipcp(d, "STARTING"))
      [] d.ipcp_state = "CLOSED"  -> Ipcp(IpcpTxConfReq(d), "REQSENT")
      [] d.ipcp_state = "CLOSING" -> Ipcp(d, "STOPPING")
      [] OTHER                    -> d

IpcpClose(d) ==
    IF d.ipcp_state \notin DOMAIN CloseTo THEN d
    ELSE LET busy == d.ipcp_state \in {"REQSENT", "ACKRCVD", "ACKSENT", "OPENED"}
             e    == Ipcp(d, CloseTo[d.ipcp_state])
         IN  IF busy THEN Post(e) ELSE e

-----------------------------------------------------------------------------
(* Frames of the link layer, net/lcpin.c                                   *)

\* The link layer is up: authenticate, or bring up the network layer.
LcpUp(d) ==
    LET e == Lcp(d, "OPENED") IN IF Auth THEN PapTxAuthReq(e) ELSE IpcpLowerUp(e)

\* Mutant: a renegotiation of the link is not reported to the network layer.
Renegotiate_Silent(d) == LcpTxConfReq(d)

\* The opened link is negotiated anew.
Renegotiate(d) == LcpTxConfReq(IpcpLowerDown(d))

\* The state after the answer to a Configure-Request.
Answered(state, ok) ==
    IF ok THEN IF state = "ACKRCVD" THEN "OPENED" ELSE "ACKSENT"
    ELSE IF state = "ACKRCVD" THEN "ACKRCVD" ELSE "REQSENT"

LcpRxConfReq(d, f) ==
    IF d.lcp_state \in {"CLOSED", "CLOSING", "STOPPING"} THEN d
    ELSE LET e == CASE d.lcp_state = "OPENED"  -> Renegotiate(d)
                    [] d.lcp_state = "STOPPED" -> Lcp(LcpTxConfReq(d), "REQSENT")
                    [] OTHER                   -> d
             state == Answered(e.lcp_state, f.acceptable)
         IN  IF state = "OPENED" THEN LcpUp(e) ELSE Lcp(e, state)

\* The first acknowledgement of the last request is examined, all others count
\* as valid once that one was.
LcpRxConfAck(d, f) ==
    LET e == IF f.current /\ ~d.acked THEN [d EXCEPT !.acked = f.acceptable] ELSE d
    IN  IF ~e.acked THEN e
        ELSE CASE e.lcp_state = "REQSENT" -> [Lcp(e, "ACKRCVD") EXCEPT !.retries = 0]
               [] e.lcp_state = "ACKRCVD" -> Lcp(LcpTxConfReq(e), "REQSENT")
               [] e.lcp_state = "ACKSENT" -> LcpUp(e)
               [] e.lcp_state = "OPENED"  -> Lcp(Renegotiate(e), "REQSENT")
               [] OTHER                   -> e

LcpRxConfNakRej(d, f) ==
    LET e == [d EXCEPT !.acked = TRUE]
    IN  IF ~f.current \/ d.acked THEN d
        ELSE CASE e.lcp_state \in {"REQSENT", "ACKSENT"} -> LcpTxConfReq(e)
               [] e.lcp_state = "ACKRCVD" -> Lcp(LcpTxConfReq(e), "REQSENT")
               [] e.lcp_state = "OPENED"  -> Lcp(Renegotiate(e), "REQSENT")
               [] OTHER                   -> e

LcpRxTermReq(d) ==
    CASE d.lcp_state \in {"ACKRCVD", "ACKSENT"} -> Lcp(d, "REQSENT")
      [] d.lcp_state = "OPENED"                 -> Lcp(IpcpLowerDown(d), "STOPPING")
      [] OTHER                                  -> d

\* An opened link sends a new request and stays opened.
LcpRxTermAck(d) ==
    CASE d.lcp_state = "CLOSING"  -> Lcp(d, "CLOSED")
      [] d.lcp_state = "STOPPING" -> Lcp(d, "STOPPED")
      [] d.lcp_state = "ACKRCVD"  -> Lcp(d, "REQSENT")
      [] d.lcp_state = "OPENED"   -> Renegotiate(d)
      [] OTHER                    -> d

LcpRxCodeRej(d) == IF d.lcp_state = "ACKRCVD" THEN Lcp(d, "REQSENT") ELSE d

\* NutLcpInput
NutLcpInput(d, f) ==
    IF d.lcp_state \in {"INITIAL", "STARTING"} THEN d
    ELSE CASE f.code = "CONFREQ"              -> LcpRxConfReq(d, f)
           [] f.code = "CONFACK"              -> LcpRxConfAck(d, f)
           [] f.code \in {"CONFNAK", "CONFREJ"} -> LcpRxConfNakRej(d, f)
           [] f.code = "TERMREQ"              -> LcpRxTermReq(d)
           [] f.code = "TERMACK"              -> LcpRxTermAck(d)
           [] f.code = "CODEREJ"              -> LcpRxCodeRej(d)

-----------------------------------------------------------------------------
(* Frames of the network layer, net/ipcpin.c, and of PAP, net/papin.c      *)

\* Mutant: nobody is told that the network layer is up.
IpcpUp_Silent(d) == Ipcp(d, "OPENED")

\* The network layer is up.
IpcpUp(d) == Post(Ipcp(d, "OPENED"))

IpcpRxConfReq(d, f) ==
    IF d.ipcp_state \in {"CLOSED", "CLOSING", "STOPPING"} THEN d
    ELSE LET e == CASE d.ipcp_state = "OPENED"  -> IpcpTxConfReq(IpcpLowerDown(d))
                    [] d.ipcp_state = "STOPPED" -> Ipcp(IpcpTxConfReq(d), "REQSENT")
                    [] OTHER                    -> d
             state == Answered(e.ipcp_state, f.acceptable)
         IN  IF state = "OPENED" THEN IpcpUp(e) ELSE Ipcp(e, state)

IpcpRestart(d) == Ipcp(IpcpTxConfReq(d), "REQSENT")

\* acked is set last, even if a new request has just been sent.
IpcpRxConfAck(d, f) ==
    IF ~f.current \/ d.acked \/ d.ipcp_state \in {"CLOSED", "STOPPED"} THEN d
    ELSE [CASE d.ipcp_state = "REQSENT" -> [Ipcp(d, "ACKRCVD") EXCEPT !.retries = 0]
            [] d.ipcp_state = "ACKRCVD" -> IpcpRestart(d)
            [] d.ipcp_state = "ACKSENT" -> [IpcpUp(d) EXCEPT !.retries = 0]
            [] d.ipcp_state = "OPENED"  -> IpcpRestart(IpcpLowerDown(d))
            [] OTHER                    -> d
          EXCEPT !.acked = TRUE]

IpcpRxConfNakRej(d, f) ==
    IF ~f.current \/ d.acked THEN d
    ELSE CASE d.ipcp_state \in {"REQSENT", "ACKSENT"} -> IpcpTxConfReq(d)
           [] d.ipcp_state = "ACKRCVD" -> IpcpRestart(d)
           [] d.ipcp_state = "OPENED"  -> IpcpRestart(IpcpLowerDown(d))
           [] OTHER                    -> d

IpcpRxTermReq(d) ==
    CASE d.ipcp_state \in {"ACKRCVD", "ACKSENT"} -> Ipcp(d, "REQSENT")
      [] d.ipcp_state = "OPENED"                 -> Ipcp(IpcpLowerDown(d), "STOPPING")
      [] OTHER                                   -> d

\* An opened network layer sends a new request and waits for the link layer.
IpcpRxTermAck(d) ==
    CASE d.ipcp_state = "CLOSING"  -> Ipcp(d, "CLOSED")
      [] d.ipcp_state = "STOPPING" -> Ipcp(d, "STOPPED")
      [] d.ipcp_state = "ACKRCVD"  -> Ipcp(d, "REQSENT")
      [] d.ipcp_state = "OPENED"   -> IpcpTxConfReq(IpcpLowerDown(d))
      [] OTHER                     -> d

IpcpRxCodeRej(d) == IF d.ipcp_state = "ACKRCVD" THEN Ipcp(d, "REQSENT") ELSE d

NutIpcpInput(d, f) ==
    IF d.ipcp_state \in {"INITIAL", "STARTING"} THEN d
    ELSE CASE f.code = "CONFREQ"              -> IpcpRxConfReq(d, f)
           [] f.code = "CONFACK"              -> IpcpRxConfAck(d, f)
           [] f.code \in {"CONFNAK", "CONFREJ"} -> IpcpRxConfNakRej(d, f)
           [] f.code = "TERMREQ"              -> IpcpRxTermReq(d)
           [] f.code = "TERMACK"              -> IpcpRxTermAck(d)
           [] f.code = "CODEREJ"              -> IpcpRxCodeRej(d)

\* NutPapInput: only the answers to our request change anything.
NutPapInput(d, f) ==
    IF d.auth_state # "AUTHREQ" THEN d
    ELSE CASE f.code = "CONFACK" -> IpcpLowerUp([d EXCEPT !.auth_state = "OPEN"])
           [] f.code = "CONFNAK" -> IpcpLowerDown([d EXCEPT !.auth_state = "BADAUTH"])
           [] OTHER              -> d

Frame == [protocol : {"LCP", "IPCP", "PAP"},
          code : {"CONFREQ", "CONFACK", "CONFNAK", "CONFREJ", "TERMREQ", "TERMACK", "CODEREJ"},
          current : BOOLEAN, acceptable : BOOLEAN]

\* NutPppInput drops what the link is not ready for.
Admitted(d, protocol) ==
    /\ protocol # "LCP" => d.lcp_state = "OPENED"
    /\ Auth /\ d.auth_state # "OPEN" => protocol \in {"LCP", "PAP"}

-----------------------------------------------------------------------------
(* Actions                                                                 *)

\* Store the result.  An event posted to dcb_state_chg wakes up the thread in
\* NutNetIfConfig or is remembered for it.
Set(d) ==
    /\ dcb' = [d EXCEPT !.evt = FALSE]
    /\ conf' = IF d.evt /\ conf = "wait" THEN "woken"
               ELSE IF d.evt /\ conf = "attach" THEN "signaled"
               ELSE conf
    /\ UNCHANGED wasUp

NutPppInput(f) ==
    /\ open /\ Admitted(dcb, f.protocol)
    /\ Set(CASE f.protocol = "LCP"  -> NutLcpInput(dcb, f)
             [] f.protocol = "IPCP" -> NutIpcpInput(dcb, f)
             [] f.protocol = "PAP"  -> NutPapInput(dcb, f))
    /\ UNCHANGED open

\* Mutant: the attempts are not counted.
Retry_Forever(d, retries) == d

\* One more attempt; retries is the number of attempts before this pass.
Retry(d, retries) == [d EXCEPT !.retries = retries + 1]

GivenUp(state) == IF state = "CLOSING" THEN "CLOSED" ELSE "STOPPED"

Repeats(state) == state \in {"CLOSING", "STOPPING", "REQSENT", "ACKSENT"}

\* A pass of the thread NutPppSm, every five seconds.  The three parts, for
\* LCP, PAP and IPCP, share one counter of attempts.
SmLcp(d, retries) ==
    IF ~Repeats(d.lcp_state) THEN d
    ELSE IF retries >= MAX_RETRIES THEN Lcp(d, GivenUp(d.lcp_state))
    ELSE Retry(IF retries > 0 /\ d.lcp_state \in {"REQSENT", "ACKSENT"} THEN LcpTxConfReq(d) ELSE d,
               retries)

SmPap(d, retries) ==
    IF d.auth_state # "AUTHREQ" THEN d
    ELSE IF retries >= MAX_RETRIES THEN Lcp(d, "STOPPED")
    ELSE Retry(d, retries)

SmIpcp(d, retries) ==
    IF ~Repeats(d.ipcp_state) THEN d
    ELSE IF retries >= MAX_RETRIES THEN Ipcp(d, GivenUp(d.ipcp_state))
    ELSE Retry(IF retries > 0 /\ d.ipcp_state \in {"REQSENT", "ACKSENT"} THEN IpcpTxConfReq(d) ELSE d,
               retries)

NutPppSm ==
    /\ Set(SmIpcp(SmPap(SmLcp(dcb, dcb.retries), dcb.retries), dcb.retries))
    /\ UNCHANGED open

NutPppOpen ==
    /\ ~open /\ open' = TRUE
    /\ Set(IpcpOpen(Cleared))

NutPppClose ==
    /\ open /\ open' = FALSE /\ conf = "idle"
    /\ Set(IpcpClose(dcb))

\* NutPppIOCtl, by the application (LCP_OPEN, LCP_CLOSE) and by the HDLC
\* driver when its receiver starts and stops (LCP_LOWERUP, LCP_LOWERDOWN)
NutPppIOCtl ==
    /\ open
    /\ \/ Set(LcpOpen(dcb)) \/ Set(LcpClose(dcb))
       \/ Set(LcpLowerUp(dcb)) \/ Set(LcpLowerDown(dcb))
    /\ UNCHANGED open

\* NutNetIfConfig empties the queue dcb_state_chg and tells the HDLC driver to
\* attach, which yields: its receiver may come up and treat frames meanwhile.
\* Whether the network layer is up already is not looked at.
NutNetIfConfig ==
    /\ open /\ conf = "idle"
    /\ conf' = "attach"
    /\ wasUp' = (dcb.ipcp_state = "OPENED")
    /\ UNCHANGED <<dcb, open>>

\* It waits for an event, for at most a minute, ...
IfConfigWait ==
    /\ \/ conf = "attach" /\ conf' = "wait"
       \/ conf = "signaled" /\ conf' = "woken"
    /\ UNCHANGED <<dcb, open, wasUp>>

\* ... and goes on.
IfConfigDone ==
    conf \in {"wait", "woken"} /\ conf' = "idle" /\ UNCHANGED <<dcb, open, wasUp>>

PppNext ==
    \/ \E f \in Frame : NutPppInput(f)
    \/ NutPppSm
    \/ NutPppOpen \/ NutPppClose \/ NutPppIOCtl
    \/ NutNetIfConfig \/ IfConfigWait \/ IfConfigDone

\* The thread NutPppSm does not stop.
PppSpec == PppInit /\ [][PppNext]_PppVars /\ WF_PppVars(NutPppSm)

-----------------------------------------------------------------------------
(* Properties                                                              *)

\* The network layer is never ahead of the layers below it: it negotiates, is
\* up or terminates only while the link is opened and, if that is required,
\* authenticated, whatever the peer sends and whichever timer expires.
LayersOrdered ==
    dcb.ipcp_state \notin {"INITIAL", "STARTING"} =>
        dcb.lcp_state = "OPENED" /\ (Auth => dcb.auth_state = "OPEN")

\* NutNetIfConfig does not miss that the network layer comes up after the call,
\* even if that happens before it waits.  It waits while the layer is up only
\* if the layer was up before the call: then there is no event to wait for, the
\* minute passes and the call fails.
UpNotMissed == conf = "wait" /\ dcb.ipcp_state = "OPENED" => wasUp

\* A layer that terminates comes to an end even if the peer does not answer,
\* although all layers share one counter of attempts.
TerminationEnds ==
    /\ dcb.lcp_state \in {"CLOSING", "STOPPING"} ~> dcb.lcp_state \notin {"CLOSING", "STOPPING"}
    /\ dcb.ipcp_state \in {"CLOSING", "STOPPING"} ~> dcb.ipcp_state \notin {"CLOSING", "STOPPING"}
=============================================================================
