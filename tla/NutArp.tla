------------------------------- MODULE NutArp -------------------------------
(***************************************************************************)
(* The ARP cache of an Ethernet interface (net/arpcache.c) and the ARP     *)
(* receiver (net/arpin.c).  Threads query addresses while others query     *)
(* the same ones, entries age and replies come in.                         *)
(*                                                                         *)
(* Threads are cooperative: code between two points where the CPU may be   *)
(* given up is one action.  These points are NutArpOutput (the driver      *)
(* waits for its transmitter) and NutEventWait.  An entry is named by its  *)
(* pointer e; the name can be used again as soon as the entry is freed.    *)
(* Waiting threads are named by where they wait: ae_tq is a set, because   *)
(* all of them are always woken at once.  ATF_REM is set only right before *)
(* ArpCacheFlush, so a set of entries to remove stands for it; nothing     *)
(* sets ATF_PERM.  The linked list of entries is a set: its order could    *)
(* matter only if an address had two entries, which NoOrphan excludes.     *)
(***************************************************************************)
EXTENDS Integers

CONSTANTS
    Thread,
    Ip, Ha,            \* network and hardware addresses
    NoHa,              \* the address of an incomplete entry (no ATF_COM)
    Entry,             \* the pointers malloc may return
    NoEntry,           \* the null pointer
    MAX_ARPAGE, MAX_ARPREQUESTS

ASSUME ArpAssumption ==
    /\ Ip # {} /\ NoHa \notin Ha /\ NoEntry \notin Entry
    /\ MAX_ARPAGE \in Nat \ {0} /\ MAX_ARPREQUESTS \in Nat \ {0}

VARIABLES
    arpTable,  \* set of records with the pointer and the fields of an entry
    due,       \* a minute has passed since last_update
    pc,        \* "ready", or where the thread is in NutArpCacheQuery
    query,     \* its local variables ip, entry, nb, retries
    rc,        \* the value the last query to end returned
    answered,  \* history: whose address was announced since it was looked up
    ticked     \* history: whose queries have seen a minute pass

vars == <<arpTable, due, pc, query, rc, answered, ticked>>

Querying(t) == pc[t] # "ready"
NoQuery == [ip |-> CHOOSE i \in Ip : TRUE, entry |-> NoEntry, nb |-> FALSE, retries |-> 0]

Init ==
    /\ arpTable = {} /\ due = FALSE
    /\ pc = [t \in Thread |-> "ready"]
    /\ query = [t \in Thread |-> NoQuery]
    /\ rc = -1
    /\ answered = {} /\ ticked = {}

-----------------------------------------------------------------------------
(* The table                                                               *)

Entries(tab) == {a.e : a \in tab}

\* ArpCacheLookup
Found(tab, ip) == \E a \in tab : a.ip = ip
Lookup(tab, ip) == CHOOSE a \in tab : a.ip = ip
Complete(tab, ip) == Found(tab, ip) /\ Lookup(tab, ip).ha # NoHa

\* Mutant: an entry is removed a minute too early.
Outdated_Early(a) == a.age + 1 >= MAX_ARPAGE

\* Is a due for removal when it is aged?
Outdated(a) == a.age >= MAX_ARPAGE

\* ArpCacheAging: the table afterwards; it removes what Outdated says.
Aged(tab) ==
    IF due THEN {[a EXCEPT !.age = @ + 1] : a \in {b \in tab : ~Outdated(b)}} ELSE tab

\* ArpCacheNew at the pointer e.
New(tab, e, ip, ha) == tab \cup {[e |-> e, ip |-> ip, ha |-> ha, age |-> 0]}

Without(tab, ip) == tab \ {Lookup(tab, ip)}

\* The threads blocked in the queues of the given entries.
WaitingAt(es) == {t \in Thread : pc[t] = "wait" /\ query[t].entry \in es}

\* The threads that a flush wakes up when it leaves the table as left.
FlushWakes(tab, left) == WaitingAt(Entries(tab) \ Entries(left))

\* The threads in ws become ready to run, t gets to where.
Wake(ws) == [u \in Thread |-> IF u \in ws THEN "woken" ELSE pc[u]]
WakeAndGo(ws, t, where) == [Wake(ws) EXCEPT ![t] = where]

-----------------------------------------------------------------------------
(* NutArpCacheQuery                                                        *)

\* The query of t ends with table tab after the threads in ws were woken.
Return(t, tab, ws, code) ==
    /\ arpTable' = tab
    /\ pc' = WakeAndGo(ws, t, "ready")
    /\ rc' = code
    /\ query' = [query EXCEPT ![t] = NoQuery]
    /\ answered' = answered \ {t} /\ ticked' = ticked \ {t}

\* Mutant: the creator of an entry leaves it behind when it gives up.
GiveUp_Keep(tab, q) == tab

\* Giving up, the creator of an incomplete entry, which is the one with the
\* request buffer nb, removes the entry.
GiveUp(tab, q) == IF q.nb /\ Found(tab, q.ip) THEN Without(tab, q.ip) ELSE tab

\* Mutant: waiting without a request of one's own is not counted.
Spend_Requests(q) == IF q.nb THEN [q EXCEPT !.retries = @ - 1] ELSE q

Spend(q) == [q EXCEPT !.retries = @ - 1]

\* The loop from its top to the next point where it gives up the CPU, with
\* q.entry just looked up in tab.
Loop(t, tab, ws, q) ==
    \/ /\ Complete(tab, q.ip)
       /\ Return(t, tab, ws, 0)
    \/ /\ ~Complete(tab, q.ip) /\ q.retries = 0
       /\ LET left == GiveUp(tab, q) IN Return(t, left, ws \cup FlushWakes(tab, left), -1)
    \/ /\ ~Complete(tab, q.ip) /\ q.retries > 0
       /\ arpTable' = tab
       /\ query' = [query EXCEPT ![t] = Spend(q)]
       /\ pc' = WakeAndGo(ws, t, IF q.nb THEN "output" ELSE "wait")
       /\ UNCHANGED <<rc, answered, ticked>>

\* The call: age the cache, look the address up, create an incomplete entry
\* and a request if there is none.  Both may fail for lack of memory.
NutArpCacheQuery(t, ip) ==
    LET tab == Aged(arpTable)
        ws  == FlushWakes(arpTable, tab)
        q   == [ip |-> ip, entry |-> NoEntry, nb |-> FALSE, retries |-> MAX_ARPREQUESTS]
    IN  /\ pc[t] = "ready"
        /\ due' = FALSE
        /\ \/ /\ Found(tab, ip)
              /\ Loop(t, tab, ws, [q EXCEPT !.entry = Lookup(tab, ip).e])
           \/ /\ ~Found(tab, ip)
              /\ \E e \in Entry \ Entries(tab) :
                   Loop(t, New(tab, e, ip, NoHa), ws, [q EXCEPT !.entry = e, !.nb = TRUE])
           \/ /\ ~Found(tab, ip)
              /\ Return(t, tab, ws, -1)

\* The table after the output of the request failed.
OutputFailed(q) ==
    IF Found(arpTable, q.ip) /\ ~Complete(arpTable, q.ip)
      THEN Without(arpTable, q.ip) ELSE arpTable

\* NutArpOutput returns.
OutputDone(t) ==
    /\ pc[t] = "output"
    /\ \/ /\ pc' = [pc EXCEPT ![t] = "wait"]
          /\ UNCHANGED <<arpTable, query, rc, answered, ticked>>
       \/ LET left == OutputFailed(query[t])
          IN  Return(t, left, FlushWakes(arpTable, left), -1)
    /\ UNCHANGED due

\* NutEventWait times out.
Timeout(t) ==
    /\ pc[t] = "wait"
    /\ pc' = [pc EXCEPT ![t] = "woken"]
    /\ UNCHANGED <<arpTable, due, query, rc, answered, ticked>>

\* NutEventWait returns.  The entry is looked up again, it may be gone.
WaitDone(t) ==
    /\ pc[t] = "woken"
    /\ LET ip == query[t].ip
       IN  IF Found(arpTable, ip)
             THEN Loop(t, arpTable, {}, [query[t] EXCEPT !.entry = Lookup(arpTable, ip).e])
             ELSE Return(t, arpTable, {}, -1)
    /\ UNCHANGED due

-----------------------------------------------------------------------------
(* The receiver and the clock                                              *)

\* The threads that NutEventBroadcast wakes in NutArpCacheUpdate.
UpdateWakes(ip) == WaitingAt({Lookup(arpTable, ip).e})

\* Mutant: an entry that exists is left as it is.
Updated_Keep(ip, ha) == arpTable

Updated(ip, ha) ==
    Without(arpTable, ip) \cup {[Lookup(arpTable, ip) EXCEPT !.ha = ha, !.age = 0]}

NutArpCacheUpdate(ip, ha) ==
    LET told == answered \cup {t \in Thread : Querying(t) /\ query[t].ip = ip}
        tab  == Aged(arpTable)
    IN  \/ /\ Found(arpTable, ip)
           /\ arpTable' = Updated(ip, ha)
           /\ pc' = Wake(UpdateWakes(ip))
           /\ answered' = told
           /\ UNCHANGED due
        \/ /\ ~Found(arpTable, ip)
           /\ due' = FALSE
           /\ pc' = Wake(FlushWakes(arpTable, tab))
           /\ \/ \E e \in Entry \ Entries(tab) : arpTable' = New(tab, e, ip, ha) /\ answered' = told
              \/ arpTable' = tab /\ UNCHANGED answered

\* NutArpInput treats a telegram to this host, request or reply; that it
\* answers a request changes nothing here.
NutArpInput ==
    /\ \E ip \in Ip, ha \in Ha : NutArpCacheUpdate(ip, ha)
    /\ UNCHANGED <<query, rc, ticked>>

\* A minute passes.  Waiting takes less than a second and transmitting is
\* assumed to be as short, so no query sees two minutes pass.
Minute ==
    /\ ticked = {}
    /\ due' = TRUE
    /\ ticked' = {t \in Thread : Querying(t)}
    /\ UNCHANGED <<arpTable, pc, query, rc, answered>>

QueryStep(t) == OutputDone(t) \/ Timeout(t) \/ WaitDone(t)

Next ==
    \/ \E t \in Thread : QueryStep(t)
    \/ \E t \in Thread, ip \in Ip : NutArpCacheQuery(t, ip)
    \/ NutArpInput
    \/ Minute

\* Drivers complete their output, timers elapse and ready threads run.
Spec == Init /\ [][Next]_vars /\ \A t \in Thread : WF_vars(QueryStep(t))

-----------------------------------------------------------------------------
(* Properties                                                              *)

\* A thread that is about to wait, or waits, for an entry holds the pointer of
\* an entry in the table for its address: neither aging nor the failure of
\* another thread's request frees it unseen.
EntryAlive ==
    \A t \in Thread : pc[t] \in {"output", "wait"} =>
        \E a \in arpTable : a.e = query[t].entry /\ a.ip = query[t].ip

\* There is one entry per address, and an incomplete one has a thread that
\* sends requests for it and will remove it: others would wait for an answer
\* to a request that nobody sends.
NoOrphan ==
    \A a \in arpTable :
        /\ \A b \in arpTable : a.ip = b.ip => a = b
        /\ a.ha = NoHa =>
             \E t \in Thread : Querying(t) /\ query[t].nb /\ query[t].ip = a.ip

\* An answer is never missed: a query whose address was announced while it was
\* under way, even between its request and its wait, does not return from the
\* wait with an error, whatever the other threads have done to the entry.
AnswerNotMissed ==
    [][\A t \in answered : pc[t] = "woken" /\ pc'[t] = "ready" => rc' = 0]_vars

\* Every query ends, resolved or not.
QueryEnds == \A t \in Thread : Querying(t) ~> ~Querying(t)
=============================================================================
