---------------------------- MODULE NutLinkProofs ----------------------------
(***************************************************************************)
(* The two components below IP.  The ARP cache: whoever uses it, in        *)
(* whatever order, no thread waits at an entry that was freed, no          *)
(* incomplete entry is left behind and no answer is missed, for any number *)
(* of threads, addresses, entries and retries and every age limit.  PPP:   *)
(* its layers stay in order and it is not missed that the link comes up,   *)
(* with and without authentication and for any number of retries.          *)
(***************************************************************************)
EXTENDS NutArp, NutPpp, TLAPS

-----------------------------------------------------------------------------
Row == [e : Entry, ip : Ip, ha : Ha \cup {NoHa}, age : Nat]
Query == [ip : Ip, entry : Entry \cup {NoEntry}, nb : BOOLEAN, retries : Nat]
Where == {"ready", "output", "wait", "woken"}

\* Neither an address nor a pointer belongs to two entries.
Table(tab) ==
    /\ tab \subseteq Row
    /\ \A a, b \in tab : a.ip = b.ip \/ a.e = b.e => a = b

(***************************************************************************)
(* The invariant of one query, with table tab, a minute not applied to the *)
(* table yet (d), its place w and its variables r, and whether it has seen *)
(* a minute pass (k) and an answer arrive (n).                             *)
(*                                                                         *)
(* Aging cannot remove an entry while the query relies on it: the entry is *)
(* new or was refreshed since the query began, the query sees at most one  *)
(* minute pass, and an entry outlives its first aging.                     *)
(***************************************************************************)
Fresh(a, d, k) == a.age <= 1 /\ (d \/ ~k => a.age = 0)

Local(tab, d, w, r, k, n) ==
    /\ w = "ready" => ~k /\ ~n
    /\ w # "ready" /\ d => k
    /\ w = "output" => r.nb
    /\ w \in {"output", "wait"} => \E a \in tab : a.e = r.entry /\ a.ip = r.ip
    /\ w # "ready" /\ r.nb =>
         \E a \in tab : a.ip = r.ip /\ a.e = r.entry /\ Fresh(a, d, k)
    /\ n => \E a \in tab : a.ip = r.ip /\ a.ha # NoHa /\ Fresh(a, d, k)

\* t has created the entry for its address, which stays until it is done.
Creator(t) == Querying(t) /\ query[t].nb

ArpIInv ==
    /\ Table(arpTable) /\ due \in BOOLEAN
    /\ pc \in [Thread -> Where] /\ query \in [Thread -> Query]
    /\ answered \subseteq Thread /\ ticked \subseteq Thread
    /\ \A t \in Thread : Local(arpTable, due, pc[t], query[t], t \in ticked, t \in answered)
    /\ \A t, u \in Thread : Creator(t) /\ Creator(u) /\ query[t].ip = query[u].ip => t = u
    /\ \A a \in arpTable : a.ha = NoHa => \E t \in Thread : Creator(t) /\ query[t].ip = a.ip

-----------------------------------------------------------------------------
(* The table                                                               *)

\* ArpCacheLookup returns the one entry for the address.
LEMMA LookupProperties ==
    ASSUME NEW tab, NEW ip, Table(tab), Found(tab, ip)
    PROVE  /\ Lookup(tab, ip) \in tab /\ Lookup(tab, ip) \in Row
           /\ Lookup(tab, ip).ip = ip
           /\ \A a \in tab : a.ip = ip => a = Lookup(tab, ip)
  BY DEF Found, Lookup, Table

\* The table after aging when the flag due is d.
AgedWhen(d, tab) ==
    IF d THEN {[a EXCEPT !.age = @ + 1] : a \in {b \in tab : ~Outdated(b)}} ELSE tab

\* Aging, seen by one query: its entry stays if it is the creator or has got
\* an answer, and otherwise it is woken up when the entry goes.
LEMMA AgingLocal ==
    ASSUME NEW tab, NEW d \in BOOLEAN, NEW w \in Where, NEW r \in Query,
           NEW k \in BOOLEAN, NEW n \in BOOLEAN,
           Table(tab), Local(tab, d, w, r, k, n), NEW aged, NEW v,
           aged = AgedWhen(d, tab),
           v = IF w = "wait" /\ r.entry \in Entries(tab) \ Entries(aged) THEN "woken" ELSE w
    PROVE  Local(aged, FALSE, v, r, k, n)
<1>1. CASE ~d
  <2>1. aged = tab
    BY <1>1 DEF AgedWhen
  <2>2. v = w
    BY <2>1
  <2> QED  BY <1>1, <2>1, <2>2 DEF Local, Fresh
<1>2. CASE d
  <2>1. ASSUME NEW a \in tab, ~Outdated(a)
        PROVE  /\ [a EXCEPT !.age = @ + 1] \in aged
               /\ [a EXCEPT !.age = @ + 1].ip = a.ip /\ [a EXCEPT !.age = @ + 1].e = a.e
               /\ [a EXCEPT !.age = @ + 1].ha = a.ha /\ [a EXCEPT !.age = @ + 1].age = a.age + 1
    BY <1>2, <2>1 DEF Table, Row, AgedWhen
  <2>2. \A a \in tab : a.age = 0 => ~Outdated(a)
    BY ArpAssumption DEF Outdated
  <2>3. ASSUME NEW a \in tab, Fresh(a, d, k)
        PROVE  \E b \in aged : b.ip = a.ip /\ b.e = a.e /\ b.ha = a.ha /\ b.age = 1
    <3>1. a.age = 0
      BY <1>2, <2>3 DEF Fresh
    <3>2. ~Outdated(a)
      BY <2>2, <3>1
    <3>3. [a EXCEPT !.age = @ + 1].age = 1
      BY <2>1, <3>1, <3>2
    <3> QED  BY <2>1, <3>2, <3>3
  <2>4. w # "ready" => k
    BY <1>2 DEF Local
  <2>5. v # "ready" <=> w # "ready"
    OBVIOUS
  <2>6. v # "ready" /\ r.nb =>
          \E a \in aged : a.ip = r.ip /\ a.e = r.entry /\ Fresh(a, FALSE, k)
    BY <2>3, <2>4, <2>5 DEF Local, Fresh
  <2>7. n => \E a \in aged : a.ip = r.ip /\ a.ha # NoHa /\ Fresh(a, FALSE, k)
    <3>1. n => w # "ready"
      BY DEF Local
    <3> QED  BY <2>3, <2>4, <3>1 DEF Local, Fresh
  <2>8. v = "output" => r.nb
    BY DEF Local
  <2>9. v \in {"output", "wait"} => \E a \in aged : a.e = r.entry /\ a.ip = r.ip
    <3>1. CASE v = "output"
      BY <2>6, <2>8, <3>1
    <3>2. CASE v = "wait"
      <4>1. w = "wait" /\ r.entry \notin Entries(tab) \ Entries(aged)
        BY <3>2
      <4>2. PICK a \in tab : a.e = r.entry /\ a.ip = r.ip
        BY <4>1 DEF Local
      <4>3. r.entry \in Entries(aged)
        BY <4>1, <4>2 DEF Entries
      <4>4. PICK b \in tab : ~Outdated(b) /\ [b EXCEPT !.age = @ + 1].e = r.entry
        BY <1>2, <4>3 DEF Entries, AgedWhen
      <4>5. b.e = a.e
        BY <2>1, <4>2, <4>4
      <4>6. a = b
        BY <4>5 DEF Table
      <4> QED  BY <2>1, <4>2, <4>4, <4>6
    <3> QED  BY <3>1, <3>2
  <2>10. v = "ready" => ~k /\ ~n
    BY DEF Local
  <2> QED  BY <2>6, <2>7, <2>8, <2>9, <2>10 DEF Local
<1> QED
  BY <1>1, <1>2

\* Where a query at w is once the entries that left lacks have been freed.
Flushed(w, r, tab, left) ==
    IF w = "wait" /\ r.entry \in Entries(tab) \ Entries(left) THEN "woken" ELSE w

\* An incomplete entry goes, which is not the one of the query if that is its
\* creator.
LEMMA RemovalLocal ==
    ASSUME NEW tab, NEW d \in BOOLEAN, NEW w \in Where, NEW r \in Query,
           NEW k \in BOOLEAN, NEW n \in BOOLEAN,
           Table(tab), Local(tab, d, w, r, k, n), NEW a \in tab, a.ha = NoHa,
           w # "ready" /\ r.nb => r.ip # a.ip, NEW v, v = Flushed(w, r, tab, tab \ {a})
    PROVE  Local(tab \ {a}, d, v, r, k, n)
<1>0. v = IF w = "wait" /\ r.entry \in Entries(tab) \ Entries(tab \ {a}) THEN "woken" ELSE w
  BY DEF Flushed
<1>1. v # "ready" <=> w # "ready"
  BY <1>0
<1>2. v # "ready" /\ r.nb =>
        \E b \in tab \ {a} : b.ip = r.ip /\ b.e = r.entry /\ Fresh(b, d, k)
  BY <1>1 DEF Local
<1>3. n => \E b \in tab \ {a} : b.ip = r.ip /\ b.ha # NoHa /\ Fresh(b, d, k)
  BY DEF Local
<1>4. v = "output" => r.nb
  BY <1>0 DEF Local
<1>5. v \in {"output", "wait"} => \E b \in tab \ {a} : b.e = r.entry /\ b.ip = r.ip
  <2>1. CASE v = "output"
    BY <1>2, <1>4, <2>1
  <2>2. CASE v = "wait"
    <3>1. w = "wait" /\ r.entry \notin Entries(tab) \ Entries(tab \ {a})
      BY <1>0, <2>2
    <3>2. PICK b \in tab : b.e = r.entry /\ b.ip = r.ip
      BY <3>1 DEF Local
    <3>3. r.entry \in Entries(tab \ {a})
      BY <3>1, <3>2 DEF Entries
    <3>4. PICK c \in tab \ {a} : c.e = r.entry
      BY <3>3 DEF Entries
    <3>5. b = c
      BY <3>2, <3>4 DEF Table
    <3> QED  BY <3>2, <3>4, <3>5
  <2> QED  BY <2>1, <2>2
<1> QED
  BY <1>1, <1>2, <1>3, <1>4, <1>5 DEF Local

\* An entry is replaced by a complete one of the same age 0 at its place.
LEMMA UpdateLocal ==
    ASSUME NEW tab, NEW d \in BOOLEAN, NEW w \in Where, NEW r \in Query,
           NEW k \in BOOLEAN, NEW n \in BOOLEAN,
           Table(tab), Local(tab, d, w, r, k, n), NEW a \in tab, NEW b,
           b.ip = a.ip, b.e = a.e, b.ha # NoHa, b.age = 0, NEW v,
           v \in {w, "woken"}, v = "woken" => w \in {"wait", "woken"}, NEW m \in BOOLEAN,
           m => n \/ (w # "ready" /\ r.ip = a.ip)
    PROVE  Local((tab \ {a}) \cup {b}, d, v, r, k, m)
<1>1. b.ip = a.ip /\ b.e = a.e /\ b.ha # NoHa
  OBVIOUS
<1>2. Fresh(b, d, k)
  BY DEF Fresh
<1> DEFINE t == (tab \ {a}) \cup {b}
<1>3. \A c \in tab : c # a => c \in t
  OBVIOUS
<1>4. b \in t
  OBVIOUS
<1> HIDE DEF t
<1>5. v # "ready" /\ r.nb => \E c \in t : c.ip = r.ip /\ c.e = r.entry /\ Fresh(c, d, k)
  BY <1>1, <1>2, <1>3, <1>4 DEF Local
<1>6. m => \E c \in t : c.ip = r.ip /\ c.ha # NoHa /\ Fresh(c, d, k)
  BY <1>1, <1>2, <1>3, <1>4 DEF Local
<1>7. v \in {"output", "wait"} => \E c \in t : c.e = r.entry /\ c.ip = r.ip
  BY <1>1, <1>3, <1>4 DEF Local
<1>8. /\ v = "ready" => ~k /\ ~m
      /\ v # "ready" /\ d => k
      /\ v = "output" => r.nb
  BY DEF Local
<1>9. Local(t, d, v, r, k, m)
  BY <1>5, <1>6, <1>7, <1>8 DEF Local
<1> QED
  BY <1>9 DEF t

\* A new entry disturbs nobody.
LEMMA NewLocal ==
    ASSUME NEW tab, NEW d, NEW w, NEW r, NEW k, NEW n, Local(tab, d, w, r, k, n),
           NEW e, NEW ip, NEW ha
    PROVE  Local(New(tab, e, ip, ha), d, w, r, k, n)
  BY DEF Local, New

-----------------------------------------------------------------------------
(* What an action leaves the other threads with                            *)

\* The threads in S are fine with table tab, flag d and places p.
Settled(S, tab, d, p) ==
    /\ Table(tab) /\ d \in BOOLEAN /\ p \in [Thread -> Where]
    /\ \A u \in S : p[u] = "ready" <=> pc[u] = "ready"
    /\ \A u \in S : Local(tab, d, p[u], query[u], u \in ticked, u \in answered)

\* The incomplete entries of tab have their creators in S.
Owned(S, tab) ==
    \A a \in tab : a.ha = NoHa => \E u \in S : Creator(u) /\ query[u].ip = a.ip

\* Others than t may be woken up: their places stay in the type.
LEMMA WakeType ==
    ASSUME pc \in [Thread -> Where], NEW ws
    PROVE  /\ Wake(ws) \in [Thread -> Where]
           /\ \A u \in Thread : Wake(ws)[u] = IF u \in ws THEN "woken" ELSE pc[u]
  BY DEF Wake, Where

\* Without a wake-up nothing changes.
LEMMA WakeNobody ==
    ASSUME pc \in [Thread -> Where]
    PROVE  Wake({}) = pc
  BY DEF Wake

\* Nothing that is still there is flushed.
LEMMA FlushNothing ==
    ASSUME NEW tab
    PROVE  FlushWakes(tab, tab) = {}
  BY DEF FlushWakes, WaitingAt

\* ArpCacheAging keeps the addresses and the pointers of entries apart and
\* completes none.
LEMMA AgedTable ==
    ASSUME Table(arpTable)
    PROVE  /\ Table(Aged(arpTable))
           /\ \A b \in Aged(arpTable) :
                \E a \in arpTable : a.ip = b.ip /\ a.ha = b.ha
<1>1. CASE ~due
  BY <1>1 DEF Aged
<1>2. CASE due
  <2>1. ASSUME NEW b \in Aged(arpTable)
        PROVE  \E a \in arpTable : /\ b = [a EXCEPT !.age = @ + 1] /\ b \in Row
                                   /\ a.ip = b.ip /\ a.e = b.e /\ a.ha = b.ha
    <3>1. PICK a \in arpTable : b = [a EXCEPT !.age = @ + 1]
      BY <1>2, <2>1 DEF Aged
    <3>2. a \in Row
      BY DEF Table
    <3> QED  BY <3>1, <3>2 DEF Row
  <2>2. ASSUME NEW b \in Aged(arpTable), NEW c \in Aged(arpTable), b.ip = c.ip \/ b.e = c.e
        PROVE  b = c
    <3>1. PICK x \in arpTable : b = [x EXCEPT !.age = @ + 1] /\ x.ip = b.ip /\ x.e = b.e
      BY <2>1
    <3>2. PICK y \in arpTable : c = [y EXCEPT !.age = @ + 1] /\ y.ip = c.ip /\ y.e = c.e
      BY <2>1
    <3>3. x = y
      BY <2>2, <3>1, <3>2 DEF Table
    <3> QED  BY <3>1, <3>2, <3>3
  <2> QED  BY <2>1, <2>2 DEF Table
<1> QED
  BY <1>1, <1>2

\* ArpCacheAging is safe for all threads.
LEMMA AgedSettled ==
    ASSUME ArpIInv
    PROVE  /\ Settled(Thread, Aged(arpTable), FALSE, Wake(FlushWakes(arpTable, Aged(arpTable))))
           /\ Owned(Thread, Aged(arpTable))
<1> DEFINE tab == Aged(arpTable)
           ws  == FlushWakes(arpTable, tab)
<1>1. Table(arpTable) /\ pc \in [Thread -> Where] /\ query \in [Thread -> Query] /\ due \in BOOLEAN
  BY DEF ArpIInv
<1>2. ASSUME NEW u \in Thread
      PROVE  /\ Local(tab, FALSE, Wake(ws)[u], query[u], u \in ticked, u \in answered)
             /\ Wake(ws)[u] = "ready" <=> pc[u] = "ready"
  <2>1. Wake(ws)[u] = IF pc[u] = "wait" /\ query[u].entry \in Entries(arpTable) \ Entries(tab)
                        THEN "woken" ELSE pc[u]
    BY <1>1, WakeType DEF FlushWakes, WaitingAt
  <2>2. tab = AgedWhen(due, arpTable)
    BY DEF Aged, AgedWhen
  <2>3. Local(arpTable, due, pc[u], query[u], u \in ticked, u \in answered)
    BY DEF ArpIInv
  <2>4. /\ pc[u] \in Where /\ query[u] \in Query
        /\ (u \in ticked) \in BOOLEAN /\ (u \in answered) \in BOOLEAN
    BY <1>1
  <2> DEFINE w == pc[u]
             r == query[u]
             k == u \in ticked
             n == u \in answered
             v == Wake(ws)[u]
  <2>5. /\ Table(arpTable) /\ due \in BOOLEAN /\ w \in Where /\ r \in Query
        /\ k \in BOOLEAN /\ n \in BOOLEAN
        /\ Local(arpTable, due, w, r, k, n) /\ tab = AgedWhen(due, arpTable)
        /\ v = IF w = "wait" /\ r.entry \in Entries(arpTable) \ Entries(tab) THEN "woken" ELSE w
    BY <1>1, <2>1, <2>2, <2>3, <2>4
  <2> HIDE DEF tab, w, r, k, n, v
  <2>6. Local(tab, FALSE, v, r, k, n)
    BY <2>5, AgingLocal, Zenon
  <2>7. Local(tab, FALSE, Wake(ws)[u], query[u], u \in ticked, u \in answered)
    BY <2>6 DEF w, r, k, n, v
  <2> QED  BY <2>1, <2>7
<1>3. Settled(Thread, tab, FALSE, Wake(ws))
  BY <1>1, <1>2, AgedTable, WakeType DEF Settled
<1>4. Owned(Thread, tab)
  BY <1>1, AgedTable DEF ArpIInv, Owned
<1> QED
  BY <1>3, <1>4

\* Removing an incomplete entry whose creator is not in S, after the threads in
\* ws were woken, is safe for S.
LEMMA RemovedSettled ==
    ASSUME ArpIInv, NEW S \in SUBSET Thread, NEW tab, NEW d \in BOOLEAN, NEW ws,
           Settled(S, tab, d, Wake(ws)), NEW a \in tab, a.ha = NoHa,
           \A u \in S : Creator(u) => query[u].ip # a.ip
    PROVE  Settled(S, tab \ {a}, d, Wake(ws \cup FlushWakes(tab, tab \ {a})))
<1> DEFINE left == tab \ {a}
           all  == ws \cup FlushWakes(tab, left)
<1>1. Table(tab) /\ pc \in [Thread -> Where] /\ query \in [Thread -> Query]
  BY DEF ArpIInv, Settled
<1>2. ASSUME NEW u \in S
      PROVE  /\ Local(left, d, Wake(all)[u], query[u], u \in ticked, u \in answered)
             /\ Wake(all)[u] = "ready" <=> pc[u] = "ready"
  <2> DEFINE w == Wake(ws)[u]
             r == query[u]
             k == u \in ticked
             n == u \in answered
             v == Wake(all)[u]
  <2>1. w = IF u \in ws THEN "woken" ELSE pc[u]
    BY <1>1, WakeType
  <2>2. v = IF u \in ws \/ u \in FlushWakes(tab, left) THEN "woken" ELSE pc[u]
    BY DEF Wake
  <2>3. u \in FlushWakes(tab, left) <=> pc[u] = "wait" /\ r.entry \in Entries(tab) \ Entries(left)
    BY DEF FlushWakes, WaitingAt
  <2>4. v = Flushed(w, r, tab, left)
    BY <2>1, <2>2, <2>3 DEF Flushed
  <2>5. (w = "ready" <=> pc[u] = "ready") /\ Local(tab, d, w, r, k, n)
    BY DEF Settled
  <2>6. w # "ready" /\ r.nb => r.ip # a.ip
    BY <2>5 DEF Creator, Querying
  <2>7. w \in Where /\ r \in Query /\ k \in BOOLEAN /\ n \in BOOLEAN
    BY <1>1 DEF Settled
  <2> HIDE DEF w, r, k, n, v
  <2>8. Local(left, d, v, r, k, n)
    BY <1>1, <2>4, <2>5, <2>6, <2>7, RemovalLocal
  <2>9. v = "ready" <=> pc[u] = "ready"
    BY <2>4, <2>5 DEF Flushed
  <2> QED  BY <2>8, <2>9 DEF w, r, k, n, v
<1>3. Table(left)
  BY <1>1 DEF Table
<1> QED
  BY <1>1, <1>2, <1>3, WakeType DEF Settled

\* The query of t ends when the others are fine and own the incomplete entries.
LEMMA Returned ==
    ASSUME ArpIInv, NEW t \in Thread, NEW tab, NEW ws, NEW code, Return(t, tab, ws, code),
           Settled(Thread \ {t}, tab, due', Wake(ws)), Owned(Thread \ {t}, tab)
    PROVE  ArpIInv'
<1>1. /\ pc \in [Thread -> Where] /\ query \in [Thread -> Query]
      /\ answered \subseteq Thread /\ ticked \subseteq Thread
  BY DEF ArpIInv
<1>2. Wake(ws) \in [Thread -> Where] /\ Table(tab) /\ due' \in BOOLEAN
  BY DEF Settled
<1>3. /\ pc' \in [Thread -> Where] /\ pc'[t] = "ready"
      /\ \A u \in Thread \ {t} : pc'[u] = Wake(ws)[u]
  BY <1>2 DEF Return, WakeAndGo, Where
<1>4. NoQuery \in Query /\ ~NoQuery.nb
  BY ArpAssumption DEF NoQuery, Query
<1>5. /\ query' \in [Thread -> Query] /\ query'[t] = NoQuery
      /\ \A u \in Thread \ {t} : query'[u] = query[u]
  BY <1>1, <1>4 DEF Return
<1>6. /\ answered' \subseteq Thread /\ ticked' \subseteq Thread
      /\ t \notin answered' /\ t \notin ticked' /\ arpTable' = tab
      /\ \A u \in Thread \ {t} : (u \in ticked' <=> u \in ticked) /\ (u \in answered' <=> u \in answered)
  BY <1>1 DEF Return
<1>7. ~Creator(t)' /\ \A u \in Thread \ {t} : Creator(u)' <=> Creator(u)
  BY <1>3, <1>5 DEF Creator, Querying, Settled
<1>8. ASSUME NEW u \in Thread
      PROVE  Local(tab, due', pc'[u], query'[u], u \in ticked', u \in answered')
  <2>1. CASE u = t
    BY <1>3, <1>6, <2>1 DEF Local
  <2>2. CASE u # t
    <3>1. Local(tab, due', Wake(ws)[u], query[u], u \in ticked, u \in answered)
      BY <2>2 DEF Settled
    <3>2. (u \in ticked') = (u \in ticked) /\ (u \in answered') = (u \in answered)
      BY <1>6, <2>2
    <3> QED  BY <1>3, <1>5, <2>2, <3>1, <3>2
  <2> QED  BY <2>1, <2>2
<1>9. \A u, v \in Thread : Creator(u)' /\ Creator(v)' /\ query'[u].ip = query'[v].ip => u = v
  BY <1>5, <1>7 DEF ArpIInv
<1>10. \A a \in tab : a.ha = NoHa => \E u \in Thread : Creator(u)' /\ query'[u].ip = a.ip
  BY <1>5, <1>7 DEF Owned
<1> QED
  BY <1>2, <1>3, <1>5, <1>6, <1>8, <1>9, <1>10 DEF ArpIInv

\* The query of t goes on at w with its variables q: the others are fine, and
\* each incomplete entry has one creator.
Continue(t, tab, ws, q, w) ==
    /\ q \in Query /\ w \in Where \ {"ready"}
    /\ arpTable' = tab /\ pc' = WakeAndGo(ws, t, w) /\ query' = [query EXCEPT ![t] = q]
    /\ answered' = answered /\ ticked' = ticked
    /\ Settled(Thread \ {t}, tab, due', Wake(ws))
    /\ Local(tab, due', w, q, t \in ticked, t \in answered)
    /\ q.nb => \A u \in Thread \ {t} : Creator(u) => query[u].ip # q.ip
    /\ \A a \in tab : a.ha = NoHa => \/ q.nb /\ q.ip = a.ip
                                    \/ \E u \in Thread \ {t} : Creator(u) /\ query[u].ip = a.ip

\* A query that goes on keeps the invariant.
LEMMA Continued ==
    ASSUME ArpIInv, NEW t \in Thread, NEW tab, NEW ws, NEW q, NEW w, Continue(t, tab, ws, q, w)
    PROVE  ArpIInv'
<1>1. /\ q \in Query /\ w \in Where \ {"ready"}
      /\ arpTable' = tab /\ pc' = WakeAndGo(ws, t, w) /\ query' = [query EXCEPT ![t] = q]
      /\ answered' = answered /\ ticked' = ticked
      /\ Settled(Thread \ {t}, tab, due', Wake(ws))
      /\ Local(tab, due', w, q, t \in ticked, t \in answered)
  BY DEF Continue
<1>2. /\ pc \in [Thread -> Where] /\ query \in [Thread -> Query]
      /\ answered \subseteq Thread /\ ticked \subseteq Thread
  BY DEF ArpIInv
<1>3. Wake(ws) \in [Thread -> Where] /\ Table(tab) /\ due' \in BOOLEAN
  BY <1>1 DEF Settled
<1>4. /\ pc' \in [Thread -> Where] /\ pc'[t] = w
      /\ \A u \in Thread \ {t} : pc'[u] = Wake(ws)[u]
  BY <1>1, <1>3 DEF WakeAndGo, Where
<1>5. /\ query' \in [Thread -> Query] /\ query'[t] = q
      /\ \A u \in Thread \ {t} : query'[u] = query[u]
  BY <1>1, <1>2
<1>6. (Creator(t)' <=> q.nb) /\ \A u \in Thread \ {t} : Creator(u)' <=> Creator(u)
  BY <1>1, <1>4, <1>5 DEF Creator, Querying, Settled
<1>7. ASSUME NEW u \in Thread
      PROVE  Local(tab, due', pc'[u], query'[u], u \in ticked, u \in answered)
  BY <1>1, <1>4, <1>5 DEF Settled
<1>8. \A u, v \in Thread : Creator(u)' /\ Creator(v)' /\ query'[u].ip = query'[v].ip => u = v
  BY <1>1, <1>5, <1>6 DEF ArpIInv, Continue
<1>9. \A a \in tab : a.ha = NoHa => \E u \in Thread : Creator(u)' /\ query'[u].ip = a.ip
  BY <1>5, <1>6 DEF Continue
<1> QED
  BY <1>1, <1>2, <1>3, <1>4, <1>5, <1>7, <1>8, <1>9 DEF ArpIInv

\* One pass of the loop: t, which has seen the minute that is due, has just
\* looked its entry up in tab.
LEMMA LoopStep ==
    ASSUME ArpIInv, NEW t \in Thread, NEW tab, NEW ws, NEW q \in Query, Loop(t, tab, ws, q),
           Settled(Thread \ {t}, tab, due', Wake(ws)),
           Found(tab, q.ip), q.entry = Lookup(tab, q.ip).e,
           due' => t \in ticked,
           q.nb => Fresh(Lookup(tab, q.ip), due', t \in ticked),
           q.nb => \A u \in Thread \ {t} : Creator(u) => query[u].ip # q.ip,
           t \in answered => Complete(tab, q.ip),
           \A a \in tab : a.ha = NoHa => \/ q.nb /\ q.ip = a.ip
                                        \/ \E u \in Thread \ {t} : Creator(u) /\ query[u].ip = a.ip
    PROVE  ArpIInv' /\ (t \in answered => rc' = 0)
<1> DEFINE a == Lookup(tab, q.ip)
<1>1. Table(tab) /\ due' \in BOOLEAN
  BY DEF Settled
<1>2. a \in tab /\ a.ip = q.ip /\ (\A b \in tab : b.ip = q.ip => b = a)
  BY <1>1, LookupProperties
<1>3. Complete(tab, q.ip) <=> a.ha # NoHa
  BY DEF Complete
<1> HIDE DEF a
<1>4. CASE Complete(tab, q.ip)
  <2>1. Return(t, tab, ws, 0)
    BY <1>4 DEF Loop
  <2>2. Owned(Thread \ {t}, tab)
    BY <1>2, <1>3, <1>4 DEF Owned
  <2> QED  BY <2>1, <2>2, Returned DEF Return
<1>5. CASE ~Complete(tab, q.ip) /\ q.retries = 0
  <2> DEFINE left == GiveUp(tab, q)
  <2>1. Return(t, left, ws \cup FlushWakes(tab, left), -1)
    BY <1>5 DEF Loop
  <2>2. CASE q.nb
    <3>1. left = tab \ {a}
      BY <2>2 DEF GiveUp, Without, a
    <3>2. Owned(Thread \ {t}, left)
      BY <1>2, <3>1 DEF Owned
    <3>3. Settled(Thread \ {t}, left, due', Wake(ws \cup FlushWakes(tab, left)))
      <4>1. a.ha = NoHa
        BY <1>3, <1>5
      <4>2. \A u \in Thread \ {t} : Creator(u) => query[u].ip # a.ip
        BY <1>2, <2>2
      <4> HIDE DEF left
      <4> QED  BY <1>1, <1>2, <3>1, <4>1, <4>2, RemovedSettled
    <3> HIDE DEF left
    <3>4. ArpIInv'
      BY <2>1, <3>2, <3>3, Returned
    <3> QED  BY <1>5, <3>4
  <2>3. CASE ~q.nb
    <3>1. left = tab /\ ws \cup FlushWakes(tab, left) = ws
      BY <2>3, FlushNothing DEF GiveUp
    <3>2. Owned(Thread \ {t}, tab)
      BY <2>3 DEF Owned
    <3>3. Return(t, tab, ws, -1)
      BY <2>1, <3>1
    <3>4. ArpIInv'
      BY <3>2, <3>3, Returned
    <3> QED  BY <1>5, <3>4
  <2> QED  BY <2>2, <2>3
<1>6. CASE ~Complete(tab, q.ip) /\ q.retries > 0
  <2> DEFINE w == IF q.nb THEN "output" ELSE "wait"
             r == Spend(q)
  <2>1. /\ arpTable' = tab /\ query' = [query EXCEPT ![t] = r] /\ pc' = WakeAndGo(ws, t, w)
        /\ answered' = answered /\ ticked' = ticked
    BY <1>6 DEF Loop
  <2>2. r \in Query /\ r.ip = q.ip /\ r.entry = q.entry /\ r.nb = q.nb
    BY <1>6 DEF Spend, Query
  <2>3. w \in Where \ {"ready"} /\ (w = "output" => q.nb)
    BY DEF Where
  <2>4. q.entry = a.e /\ (q.nb => Fresh(a, due', t \in ticked)) /\ t \notin answered
    BY <1>6 DEF a
  <2> HIDE DEF r, w
  <2>5. Local(tab, due', w, r, t \in ticked, t \in answered)
    BY <1>2, <2>2, <2>3, <2>4 DEF Local
  <2>6. r.nb => \A u \in Thread \ {t} : Creator(u) => query[u].ip # r.ip
    BY <2>2
  <2>7. \A b \in tab : b.ha = NoHa => \/ r.nb /\ r.ip = b.ip
                                     \/ \E u \in Thread \ {t} : Creator(u) /\ query[u].ip = b.ip
    BY <2>2
  <2>8. Continue(t, tab, ws, r, w)
    BY <2>1, <2>2, <2>3, <2>5, <2>6, <2>7 DEF Continue
  <2> QED  BY <2>4, <2>8, Continued
<1>7. q.retries \in Nat
  BY DEF Query
<1> QED
  BY <1>4, <1>5, <1>6, <1>7

-----------------------------------------------------------------------------
(* The actions                                                             *)

\* The invariant, for the threads other than t.
LEMMA SettledNow ==
    ASSUME ArpIInv, NEW t \in Thread
    PROVE  Settled(Thread \ {t}, arpTable, due, pc)
  BY DEF ArpIInv, Settled

\* A new entry, which t owns, is safe for the others.
LEMMA NewSettled ==
    ASSUME NEW S, NEW tab, NEW d, NEW p, Settled(S, tab, d, p),
           NEW ip \in Ip, ~Found(tab, ip), NEW e \in Entry \ Entries(tab), NEW ha \in Ha \cup {NoHa}
    PROVE  /\ Settled(S, New(tab, e, ip, ha), d, p)
           /\ Found(New(tab, e, ip, ha), ip)
           /\ Lookup(New(tab, e, ip, ha), ip) = [e |-> e, ip |-> ip, ha |-> ha, age |-> 0]
<1> DEFINE a == [e |-> e, ip |-> ip, ha |-> ha, age |-> 0]
<1>1. a \in Row /\ a.ip = ip /\ a.e = e
  BY DEF Row
<1>2. New(tab, e, ip, ha) = tab \cup {a}
  BY DEF New
<1> HIDE DEF a
<1>3. \A b \in tab : b.ip # ip /\ b.e # e
  BY DEF Found, Entries
<1>4. Table(tab \cup {a})
  BY <1>1, <1>3 DEF Table, Settled
<1>5. Settled(S, New(tab, e, ip, ha), d, p)
  BY <1>2, <1>4, NewLocal DEF Settled
<1>6. Found(tab \cup {a}, ip) /\ Lookup(tab \cup {a}, ip) = a
  BY <1>1, <1>3 DEF Found, Lookup
<1> QED
  BY <1>2, <1>5, <1>6 DEF a

\* The call of NutArpCacheQuery: no other thread has created an entry for an
\* address that is not in the table.
LEMMA QueryPreserves ==
    ASSUME ArpIInv, NEW t \in Thread, NEW ip \in Ip, NutArpCacheQuery(t, ip)
    PROVE  ArpIInv'
<1> DEFINE tab == Aged(arpTable)
           ws  == FlushWakes(arpTable, tab)
           q   == [ip |-> ip, entry |-> NoEntry, nb |-> FALSE, retries |-> MAX_ARPREQUESTS]
<1>1. pc[t] = "ready" /\ due' = FALSE
  BY DEF NutArpCacheQuery
<1>2. ~Creator(t) /\ t \notin ticked /\ t \notin answered
  BY <1>1 DEF Creator, Querying, ArpIInv, Local
<1>3. Settled(Thread \ {t}, tab, due', Wake(ws))
  BY <1>1, AgedSettled DEF Settled
<1>4. Owned(Thread \ {t}, tab)
  BY <1>2, AgedSettled DEF Owned
<1>5. \/ Found(tab, ip) /\ Loop(t, tab, ws, [q EXCEPT !.entry = Lookup(tab, ip).e])
      \/ /\ ~Found(tab, ip)
         /\ \E e \in Entry \ Entries(tab) :
              Loop(t, New(tab, e, ip, NoHa), ws, [q EXCEPT !.entry = e, !.nb = TRUE])
      \/ Return(t, tab, ws, -1)
  BY DEF NutArpCacheQuery
<1>6. MAX_ARPREQUESTS \in Nat
  BY ArpAssumption
<1> HIDE DEF tab, ws
<1>7. CASE Found(tab, ip) /\ Loop(t, tab, ws, [q EXCEPT !.entry = Lookup(tab, ip).e])
  <2> DEFINE r == [q EXCEPT !.entry = Lookup(tab, ip).e]
  <2>1. Lookup(tab, ip) \in Row
    BY <1>3, <1>7, LookupProperties DEF Settled
  <2>2. r \in Query /\ r.ip = ip /\ r.entry = Lookup(tab, ip).e /\ ~r.nb
    BY <1>6, <2>1 DEF Query, Row
  <2>3. Loop(t, tab, ws, r)
    BY <1>7
  <2> HIDE DEF r
  <2> QED  BY <1>1, <1>2, <1>3, <1>4, <1>7, <2>2, <2>3, LoopStep DEF Owned
<1>8. CASE /\ ~Found(tab, ip)
           /\ \E e \in Entry \ Entries(tab) :
                Loop(t, New(tab, e, ip, NoHa), ws, [q EXCEPT !.entry = e, !.nb = TRUE])
  <2>1. PICK e \in Entry \ Entries(tab) :
               Loop(t, New(tab, e, ip, NoHa), ws, [q EXCEPT !.entry = e, !.nb = TRUE])
    BY <1>8
  <2> DEFINE r   == [q EXCEPT !.entry = e, !.nb = TRUE]
             new == New(tab, e, ip, NoHa)
             a   == [e |-> e, ip |-> ip, ha |-> NoHa, age |-> 0]
  <2>2. r \in Query /\ r.ip = ip /\ r.entry = e /\ r.nb
    BY <1>6 DEF Query
  <2>3. Settled(Thread \ {t}, new, due', Wake(ws)) /\ Found(new, ip) /\ Lookup(new, ip) = a
    BY <1>3, <1>8, NewSettled
  <2>4. a.e = e /\ Fresh(a, due', t \in ticked)
    BY DEF Fresh
  <2>5. \A u \in Thread \ {t} : Creator(u) => query[u].ip # ip
    <3>1. ASSUME NEW u \in Thread \ {t}, Creator(u), query[u].ip = ip
          PROVE  FALSE
      <4>1. Wake(ws)[u] # "ready" /\ Local(tab, due', Wake(ws)[u], query[u], u \in ticked, u \in answered)
        BY <1>3, <3>1 DEF Settled, Creator, Querying
      <4>2. query[u].nb
        BY <3>1 DEF Creator
      <4> QED  BY <1>8, <3>1, <4>1, <4>2 DEF Local, Found
    <3> QED  BY <3>1
  <2>6. \A b \in new : b.ha = NoHa => \/ r.nb /\ r.ip = b.ip
                                     \/ \E u \in Thread \ {t} : Creator(u) /\ query[u].ip = b.ip
    <3>1. new = tab \cup {a} /\ a.ip = ip
      BY DEF New
    <3> HIDE DEF new, r, a
    <3> QED  BY <1>4, <2>2, <3>1 DEF Owned
  <2>7. Loop(t, new, ws, r)
    BY <2>1
  <2> HIDE DEF r, new, a
  <2> QED  BY <1>1, <1>2, <2>2, <2>3, <2>4, <2>5, <2>6, <2>7, LoopStep
<1>9. CASE Return(t, tab, ws, -1)
  BY <1>3, <1>4, <1>9, Returned
<1> QED
  BY <1>5, <1>7, <1>8, <1>9

\* A query gets to its wait or out of it; its variables stay the same.
LEMMA StayPreserves ==
    ASSUME ArpIInv, NEW t \in Thread, NEW w \in {"wait", "woken"},
           pc[t] \in {"output", "wait"}, pc' = [pc EXCEPT ![t] = w],
           UNCHANGED <<arpTable, due, query, answered, ticked>>
    PROVE  ArpIInv'
<1>1. /\ pc \in [Thread -> Where] /\ query \in [Thread -> Query]
      /\ Local(arpTable, due, pc[t], query[t], t \in ticked, t \in answered)
  BY DEF ArpIInv
<1>2. pc' = WakeAndGo({}, t, w) /\ Settled(Thread \ {t}, arpTable, due', Wake({}))
  BY <1>1, WakeNobody, SettledNow DEF WakeAndGo
<1>3. query' = [query EXCEPT ![t] = query[t]] /\ query[t] \in Query
  BY <1>1
<1>4. Local(arpTable, due', w, query[t], t \in ticked, t \in answered)
  BY <1>1 DEF Local
<1>5. query[t].nb => \A u \in Thread \ {t} : Creator(u) => query[u].ip # query[t].ip
  BY DEF ArpIInv, Creator, Querying
<1>6. \A a \in arpTable : a.ha = NoHa => \/ query[t].nb /\ query[t].ip = a.ip
                                        \/ \E u \in Thread \ {t} : Creator(u) /\ query[u].ip = a.ip
  BY DEF ArpIInv, Creator, Querying
<1>7. Continue(t, arpTable, {}, query[t], w)
  BY <1>2, <1>3, <1>4, <1>5, <1>6 DEF Continue, Where
<1> QED
  BY <1>7, Continued

\* NutArpOutput returns: when it has failed, its caller, the creator, removes
\* the entry unless an answer to somebody else's telegram has completed it.
LEMMA OutputPreserves ==
    ASSUME ArpIInv, NEW t \in Thread, OutputDone(t)
    PROVE  ArpIInv'
<1>1. pc[t] = "output" /\ due' = due
  BY DEF OutputDone
<1>2. CASE pc' = [pc EXCEPT ![t] = "wait"] /\ UNCHANGED <<arpTable, query, rc, answered, ticked>>
  BY <1>1, <1>2, StayPreserves
<1>3. CASE Return(t, OutputFailed(query[t]), FlushWakes(arpTable, OutputFailed(query[t])), -1)
  <2> DEFINE ip == query[t].ip
             a  == Lookup(arpTable, ip)
             left == OutputFailed(query[t])
  <2>1. Table(arpTable) /\ pc \in [Thread -> Where] /\ due \in BOOLEAN
    BY DEF ArpIInv
  <2>2. Creator(t)
    BY <1>1 DEF ArpIInv, Local, Creator, Querying
  <2>3. Found(arpTable, ip)
    BY <2>2 DEF ArpIInv, Local, Creator, Querying, Found
  <2>4. a \in arpTable /\ a.ip = ip /\ (\A b \in arpTable : b.ip = ip => b = a)
    BY <2>1, <2>3, LookupProperties
  <2>5. \A u \in Thread \ {t} : Creator(u) => query[u].ip # ip
    BY <2>2 DEF ArpIInv
  <2>6. \A b \in arpTable : b.ha = NoHa =>
           b = a \/ \E u \in Thread \ {t} : Creator(u) /\ query[u].ip = b.ip
    BY <2>2, <2>4 DEF ArpIInv
  <2>7. Settled(Thread \ {t}, arpTable, due, Wake({}))
    BY <2>1, WakeNobody, SettledNow
  <2>8. CASE a.ha = NoHa
    <3>1. left = arpTable \ {a}
      BY <2>3, <2>8 DEF OutputFailed, Without, Complete
    <3> HIDE DEF a, left
    <3>2. Settled(Thread \ {t}, left, due, Wake({} \cup FlushWakes(arpTable, left)))
      BY <2>1, <2>4, <2>5, <2>7, <2>8, <3>1, RemovedSettled
    <3>3. {} \cup FlushWakes(arpTable, left) = FlushWakes(arpTable, left)
      OBVIOUS
    <3>4. Owned(Thread \ {t}, left)
      BY <2>6, <3>1 DEF Owned
    <3>5. Return(t, left, FlushWakes(arpTable, left), -1)
      BY <1>3 DEF left
    <3> QED  BY <1>1, <3>2, <3>3, <3>4, <3>5, Returned
  <2>9. CASE a.ha # NoHa
    <3>1. left = arpTable /\ FlushWakes(arpTable, left) = {}
      BY <2>3, <2>9, FlushNothing DEF OutputFailed, Complete
    <3>2. Return(t, arpTable, {}, -1)
      BY <1>3, <3>1
    <3>3. Owned(Thread \ {t}, arpTable)
      BY <2>6, <2>9 DEF Owned
    <3> QED  BY <1>1, <2>7, <3>2, <3>3, Returned
  <2> QED  BY <2>8, <2>9
<1> QED
  BY <1>2, <1>3 DEF OutputDone

\* NutEventWait returns: the entry of a creator and one with an answer are
\* still there.
LEMMA WaitPreserves ==
    ASSUME ArpIInv, NEW t \in Thread, WaitDone(t)
    PROVE  ArpIInv' /\ (t \in answered => rc' = 0)
<1> DEFINE ip == query[t].ip
           a  == Lookup(arpTable, ip)
           q  == [query[t] EXCEPT !.entry = a.e]
<1>1. /\ pc[t] = "woken" /\ due' = due /\ Table(arpTable) /\ due \in BOOLEAN
      /\ pc \in [Thread -> Where] /\ query[t] \in Query
      /\ Local(arpTable, due, pc[t], query[t], t \in ticked, t \in answered)
  BY DEF WaitDone, ArpIInv
<1>2. Settled(Thread \ {t}, arpTable, due', Wake({}))
  BY <1>1, WakeNobody, SettledNow
<1>3. Creator(t) <=> query[t].nb
  BY <1>1 DEF Creator, Querying
<1>4. query[t].nb => \E b \in arpTable : b.ip = ip /\ Fresh(b, due, t \in ticked)
  BY <1>1 DEF Local
<1>5. t \in answered => \E b \in arpTable : b.ip = ip /\ b.ha # NoHa
  BY <1>1 DEF Local
<1>6. CASE Found(arpTable, ip) /\ Loop(t, arpTable, {}, q)
  <2>1. a \in arpTable /\ a \in Row /\ a.ip = ip /\ (\A b \in arpTable : b.ip = ip => b = a)
    BY <1>1, <1>6, LookupProperties
  <2>2. q \in Query /\ q.ip = ip /\ q.nb = query[t].nb /\ q.entry = a.e
    BY <1>1, <2>1 DEF Query, Row
  <2>3. t \in answered => Complete(arpTable, ip)
    BY <1>5, <1>6, <2>1 DEF Complete
  <2>4. q.nb => Fresh(a, due', t \in ticked)
    BY <1>1, <1>4, <2>1, <2>2
  <2>5. q.nb => \A u \in Thread \ {t} : Creator(u) => query[u].ip # ip
    BY <1>3, <2>2 DEF ArpIInv
  <2>6. \A b \in arpTable : b.ha = NoHa => \/ q.nb /\ ip = b.ip
                                          \/ \E u \in Thread \ {t} : Creator(u) /\ query[u].ip = b.ip
    BY <1>3, <2>2 DEF ArpIInv
  <2>7. due' => t \in ticked
    BY <1>1 DEF Local
  <2>8. Loop(t, arpTable, {}, q)
    BY <1>6
  <2> HIDE DEF q
  <2> QED  BY <1>2, <1>6, <2>2, <2>3, <2>4, <2>5, <2>6, <2>7, <2>8, LoopStep
<1>7. CASE ~Found(arpTable, ip) /\ Return(t, arpTable, {}, -1)
  <2>1. ~query[t].nb /\ t \notin answered
    BY <1>4, <1>5, <1>7 DEF Found
  <2>2. Owned(Thread \ {t}, arpTable)
    BY <1>3, <2>1 DEF ArpIInv, Owned
  <2>3. ArpIInv'
    BY <1>2, <1>7, <2>2, Returned
  <2> QED  BY <2>1, <2>3
<1> QED
  BY <1>6, <1>7 DEF WaitDone

\* A step that leaves every query under way or not, as it was.
LEMMA Received ==
    ASSUME ArpIInv, query' = query, answered' \subseteq Thread, ticked' \subseteq Thread,
           Table(arpTable'), due' \in BOOLEAN, pc' \in [Thread -> Where],
           \A u \in Thread : pc'[u] = "ready" <=> pc[u] = "ready",
           \A u \in Thread : Local(arpTable', due', pc'[u], query[u], u \in ticked', u \in answered'),
           Owned(Thread, arpTable')
    PROVE  ArpIInv'
<1>1. \A u \in Thread : Creator(u)' <=> Creator(u)
  BY DEF Creator, Querying
<1>2. \A u, v \in Thread : Creator(u)' /\ Creator(v)' /\ query'[u].ip = query'[v].ip => u = v
  BY <1>1 DEF ArpIInv
<1>3. \A a \in arpTable' : a.ha = NoHa => \E u \in Thread : Creator(u)' /\ query'[u].ip = a.ip
  BY <1>1 DEF Owned
<1>4. query' \in [Thread -> Query]
  BY DEF ArpIInv
<1> QED
  BY <1>2, <1>3, <1>4 DEF ArpIInv

\* An answer for the address of a query arrives.
LEMMA AnswerLocal ==
    ASSUME NEW tab, NEW d, NEW w, NEW r, NEW k, NEW n, Local(tab, d, w, r, k, n), w # "ready",
           NEW a \in tab, a.ip = r.ip, a.ha # NoHa, Fresh(a, d, k)
    PROVE  Local(tab, d, w, r, k, TRUE)
  BY DEF Local

\* NutArpCacheUpdate completes an entry that exists: all who wait at it are
\* woken up, and those who do not wait yet find it complete.
LEMMA UpdatePreserves ==
    ASSUME ArpIInv, NEW ip \in Ip, NEW ha \in Ha, Found(arpTable, ip),
           arpTable' = Updated(ip, ha), pc' = Wake(UpdateWakes(ip)),
           answered' = answered \cup {t \in Thread : Querying(t) /\ query[t].ip = ip},
           UNCHANGED <<due, query, rc, ticked>>
    PROVE  ArpIInv'
<1> DEFINE a == Lookup(arpTable, ip)
           b == [a EXCEPT !.ha = ha, !.age = 0]
<1>1. /\ Table(arpTable) /\ pc \in [Thread -> Where] /\ query \in [Thread -> Query]
      /\ due \in BOOLEAN /\ answered \subseteq Thread /\ ticked \subseteq Thread
  BY DEF ArpIInv
<1>2. a \in arpTable /\ a \in Row /\ a.ip = ip
  BY <1>1, LookupProperties
<1>3. arpTable' = (arpTable \ {a}) \cup {b}
  BY DEF Updated, Without
<1>4. b \in Row /\ b.ip = a.ip /\ b.e = a.e /\ b.ha # NoHa /\ b.age = 0
  BY <1>2, ArpAssumption DEF Row
<1>5. Table(arpTable')
  <2> HIDE DEF a, b
  <2> QED  BY <1>1, <1>2, <1>3, <1>4 DEF Table
<1>6. /\ pc' \in [Thread -> Where]
      /\ \A u \in Thread : pc'[u] = IF u \in UpdateWakes(ip) THEN "woken" ELSE pc[u]
      /\ \A u \in Thread : u \in UpdateWakes(ip) => pc[u] = "wait"
  BY <1>1, WakeType DEF UpdateWakes, WaitingAt
<1>7. ASSUME NEW u \in Thread
      PROVE  Local(arpTable', due', pc'[u], query[u], u \in ticked', u \in answered')
  <2> DEFINE w == pc[u]
             r == query[u]
             k == u \in ticked
             n == u \in answered
             v == pc'[u]
             m == u \in answered'
  <2>1. /\ w \in Where /\ r \in Query /\ k \in BOOLEAN /\ n \in BOOLEAN /\ m \in BOOLEAN
        /\ Local(arpTable, due, w, r, k, n)
    BY <1>1 DEF ArpIInv
  <2>2. v \in {w, "woken"} /\ (v = "woken" => w \in {"wait", "woken"})
    BY <1>6
  <2>3. m => n \/ (w # "ready" /\ r.ip = a.ip)
    BY <1>2 DEF Querying
  <2> HIDE DEF w, r, k, n, v, m, a, b
  <2>4. Local((arpTable \ {a}) \cup {b}, due, v, r, k, m)
    BY <1>1, <1>2, <1>4, <2>1, <2>2, <2>3, UpdateLocal
  <2> QED  BY <1>3, <2>4 DEF w, r, k, n, v, m
<1>8. Owned(Thread, arpTable')
  <2> HIDE DEF a, b
  <2> QED  BY <1>3, <1>4 DEF Owned, ArpIInv
<1>9. answered' \subseteq Thread /\ \A u \in Thread : pc'[u] = "ready" <=> pc[u] = "ready"
  BY <1>1, <1>6
<1> QED
  BY <1>1, <1>5, <1>6, <1>7, <1>8, <1>9, Received

\* NutArpInput, whether NutArpCacheUpdate finds an entry, makes one or has no
\* memory for it.
LEMMA InputPreserves ==
    ASSUME ArpIInv, NutArpInput
    PROVE  ArpIInv'
<1>1. PICK ip \in Ip, ha \in Ha : NutArpCacheUpdate(ip, ha)
  BY DEF NutArpInput
<1>2. query' = query /\ rc' = rc /\ ticked' = ticked
  BY DEF NutArpInput
<1> DEFINE told == answered \cup {t \in Thread : Querying(t) /\ query[t].ip = ip}
           tab  == Aged(arpTable)
           ws   == FlushWakes(arpTable, tab)
<1>3. CASE Found(arpTable, ip)
  BY <1>1, <1>2, <1>3, UpdatePreserves DEF NutArpCacheUpdate
<1>4. CASE ~Found(arpTable, ip)
  <2>1. /\ due' = FALSE /\ pc' = Wake(ws)
        /\ \/ \E e \in Entry \ Entries(tab) : arpTable' = New(tab, e, ip, ha) /\ answered' = told
           \/ arpTable' = tab /\ answered' = answered
    BY <1>1, <1>4 DEF NutArpCacheUpdate
  <2>2. Settled(Thread, tab, due', pc') /\ Owned(Thread, tab)
    BY <2>1, AgedSettled
  <2>3. ~Found(tab, ip)
    BY <1>4, AgedTable DEF Found, ArpIInv
  <2>4. answered \subseteq Thread /\ ticked \subseteq Thread
    BY DEF ArpIInv
  <2> HIDE DEF tab, ws
  <2>5. CASE arpTable' = tab /\ answered' = answered
    BY <1>2, <2>2, <2>4, <2>5, Received DEF Settled
  <2>6. CASE \E e \in Entry \ Entries(tab) : arpTable' = New(tab, e, ip, ha) /\ answered' = told
    <3>1. PICK e \in Entry \ Entries(tab) : arpTable' = New(tab, e, ip, ha) /\ answered' = told
      BY <2>6
    <3> DEFINE a == [e |-> e, ip |-> ip, ha |-> ha, age |-> 0]
    <3>2. Settled(Thread, arpTable', due', pc')
      BY <2>2, <2>3, <3>1, NewSettled
    <3>3. arpTable' = tab \cup {a}
      BY <3>1 DEF New
    <3>4. a.ip = ip /\ a.ha # NoHa /\ a.age = 0
      BY ArpAssumption
    <3> HIDE DEF a
    <3>5. ASSUME NEW u \in Thread
          PROVE  Local(arpTable', due', pc'[u], query[u], u \in ticked', u \in answered')
      <4>1. /\ Local(arpTable', due', pc'[u], query[u], u \in ticked, u \in answered)
            /\ pc'[u] = "ready" <=> pc[u] = "ready"
        BY <3>2 DEF Settled
      <4>2. CASE u \in answered \/ u \notin told
        BY <1>2, <3>1, <4>1, <4>2
      <4>3. CASE u \in told /\ u \notin answered
        <5>1. pc'[u] # "ready" /\ query[u].ip = ip
          BY <4>1, <4>3 DEF Querying
        <5>2. Fresh(a, due', u \in ticked)
          BY <3>4 DEF Fresh
        <5>3. Local(arpTable', due', pc'[u], query[u], u \in ticked, TRUE)
          BY <3>3, <3>4, <4>1, <5>1, <5>2, AnswerLocal
        <5> QED  BY <1>2, <3>1, <4>3, <5>3
      <4> QED  BY <4>2, <4>3
    <3>6. Owned(Thread, arpTable')
      BY <2>2, <3>3, <3>4 DEF Owned
    <3>7. answered' \subseteq Thread
      BY <2>4, <3>1
    <3> QED  BY <1>2, <2>4, <3>2, <3>5, <3>6, <3>7, Received DEF Settled
  <2> QED  BY <2>1, <2>5, <2>6
<1> QED
  BY <1>3, <1>4

\* A minute passes: no query has seen one before, so what the queries rely on
\* has not aged yet.
LEMMA MinutePreserves ==
    ASSUME ArpIInv, Minute
    PROVE  ArpIInv'
<1>1. /\ ticked = {} /\ due' = TRUE /\ ticked' = {t \in Thread : Querying(t)}
      /\ UNCHANGED <<arpTable, pc, query, rc, answered>>
  BY DEF Minute
<1>2. ASSUME NEW u \in Thread
      PROVE  Local(arpTable', due', pc'[u], query[u], u \in ticked', u \in answered')
  <2>1. Local(arpTable, due, pc[u], query[u], u \in ticked, u \in answered)
    BY DEF ArpIInv
  <2>2. (u \in ticked') = (pc[u] # "ready")
    BY <1>1 DEF Querying
  <2>3. \A a \in arpTable : Fresh(a, due, u \in ticked) => Fresh(a, TRUE, pc[u] # "ready")
    BY <1>1 DEF Fresh
  <2>4. Local(arpTable, TRUE, pc[u], query[u], pc[u] # "ready", u \in answered)
    BY <2>1, <2>3 DEF Local
  <2> QED  BY <1>1, <2>2, <2>4
<1>3. Table(arpTable') /\ pc' \in [Thread -> Where] /\ answered' \subseteq Thread /\ ticked' \subseteq Thread
  BY <1>1 DEF ArpIInv
<1>4. Owned(Thread, arpTable')
  BY <1>1 DEF ArpIInv, Owned
<1> QED
  BY <1>1, <1>2, <1>3, <1>4, Received

-----------------------------------------------------------------------------
(* The theorems                                                            *)

LEMMA IInvInit == Init => ArpIInv
<1>1. NoQuery \in Query
  BY ArpAssumption DEF NoQuery, Query
<1> QED
  BY <1>1 DEF Init, ArpIInv, Table, Where, Local, Creator, Querying

LEMMA IInvNext == ArpIInv /\ [Next]_vars => ArpIInv'
<1> SUFFICES ASSUME ArpIInv, [Next]_vars
             PROVE  ArpIInv'
  OBVIOUS
<1>1. ASSUME NEW t \in Thread, QueryStep(t)
      PROVE  ArpIInv'
  <2>1. CASE OutputDone(t)
    BY <2>1, OutputPreserves
  <2>2. CASE Timeout(t)
    BY <2>2, StayPreserves DEF Timeout
  <2>3. CASE WaitDone(t)
    BY <2>3, WaitPreserves
  <2> QED  BY <1>1, <2>1, <2>2, <2>3 DEF QueryStep
<1>2. ASSUME NEW t \in Thread, NEW ip \in Ip, NutArpCacheQuery(t, ip)
      PROVE  ArpIInv'
  BY <1>2, QueryPreserves
<1>3. CASE NutArpInput
  BY <1>3, InputPreserves
<1>4. CASE Minute
  BY <1>4, MinutePreserves
<1>5. CASE UNCHANGED vars
  BY <1>5 DEF vars, ArpIInv, Creator, Querying
<1> QED
  BY <1>1, <1>2, <1>3, <1>4, <1>5 DEF Next

LEMMA IInvAlways == Spec => []ArpIInv
  BY IInvInit, IInvNext, PTL DEF Spec

\* NutArpCacheQuery never waits at, and never sends a request for, an entry
\* that ArpCacheFlush has freed, whichever thread aged the cache or gave up.
THEOREM ArpEntryAlive == Spec => []EntryAlive
<1>1. ArpIInv => EntryAlive
  BY DEF ArpIInv, Local, EntryAlive
<1> QED
  BY <1>1, IInvAlways, PTL

\* NutArpCacheQuery and NutArpCacheUpdate never make two entries for one
\* address, and every incomplete entry has the thread that created it still
\* sending requests and bound to remove it.
THEOREM ArpNoOrphan == Spec => []NoOrphan
<1>1. ArpIInv => NoOrphan
  BY DEF ArpIInv, Table, NoOrphan, Creator
<1> QED
  BY <1>1, IInvAlways, PTL

\* NutArpCacheUpdate reaches every query under way: none whose address was
\* announced leaves NutEventWait with an error, even if the entry was created
\* again, aged or given up by others in between.
THEOREM ArpAnswerNotMissed == Spec => AnswerNotMissed
<1> DEFINE A == \A t \in answered : pc[t] = "woken" /\ pc'[t] = "ready" => rc' = 0
<1>1. ArpIInv /\ [Next]_vars => [A]_vars
  <2> SUFFICES ASSUME ArpIInv, Next, NEW t \in answered, pc[t] = "woken", pc'[t] = "ready"
               PROVE  rc' = 0
    OBVIOUS
  <2>1. /\ t \in Thread /\ pc \in [Thread -> Where]
    BY DEF ArpIInv
  <2>2. ASSUME NEW u \in Thread \ {t}, NEW ws, NEW w, pc' = WakeAndGo(ws, u, w)
        PROVE  FALSE
    BY <2>1, <2>2 DEF WakeAndGo, Wake
  <2>3. ASSUME NEW ws, pc' = Wake(ws)
        PROVE  FALSE
    BY <2>1, <2>3 DEF Wake
  <2>4. ASSUME NEW u \in Thread, NEW w, pc' = [pc EXCEPT ![u] = w], w # "ready"
        PROVE  FALSE
    BY <2>1, <2>4
  <2>5. ASSUME NEW u \in Thread \ {t}, NEW tab, NEW ws, NEW q, Loop(u, tab, ws, q)
        PROVE  FALSE
    BY <2>2, <2>5 DEF Loop, Return
  <2>6. ASSUME NEW u \in Thread, QueryStep(u)
        PROVE  rc' = 0
    <3>1. CASE u = t
      <4>1. WaitDone(t)
        BY <2>6, <3>1 DEF QueryStep, OutputDone, Timeout
      <4> QED  BY <2>1, <4>1, WaitPreserves
    <3>2. CASE u # t
      <4>1. CASE OutputDone(u)
        BY <2>2, <2>4, <3>2, <4>1 DEF OutputDone, Return
      <4>2. CASE Timeout(u)
        BY <2>4, <4>2 DEF Timeout
      <4>3. CASE WaitDone(u)
        BY <2>2, <2>5, <3>2, <4>3 DEF WaitDone, Return
      <4> QED  BY <2>6, <4>1, <4>2, <4>3 DEF QueryStep
    <3> QED  BY <3>1, <3>2
  <2>7. ASSUME NEW u \in Thread, NEW ip \in Ip, NutArpCacheQuery(u, ip)
        PROVE  FALSE
    <3>1. u # t
      BY <2>7 DEF NutArpCacheQuery
    <3> QED  BY <2>2, <2>5, <2>7, <3>1 DEF NutArpCacheQuery, Return
  <2>8. CASE NutArpInput
    BY <2>3, <2>8 DEF NutArpInput, NutArpCacheUpdate
  <2>9. CASE Minute
    BY <2>9 DEF Minute
  <2> QED  BY <2>6, <2>7, <2>8, <2>9 DEF Next
<1> QED
  BY <1>1, IInvAlways, PTL DEF Spec, AnswerNotMissed

-----------------------------------------------------------------------------
(***************************************************************************)
(* The functions of the state machine map a PPPDCB to a PPPDCB and call    *)
(* one another, so the invariant is one of these records.  In order are    *)
(* the layers if the network layer is down unless the link is opened and,  *)
(* with authentication, accepted; without authentication nothing ever      *)
(* changes the state of PAP.                                               *)
(***************************************************************************)
Down(d) == d.ipcp_state \in {"INITIAL", "STARTING"}

Ordered(d) ==
    /\ d \in PppDcb
    /\ ~Down(d) => d.lcp_state = "OPENED" /\ (Auth => d.auth_state = "OPEN")
    /\ ~Auth => d.auth_state = "INITIAL"

\* e comes from d by a function that reports when the network layer comes up.
Told(d, e) ==
    /\ d.evt => e.evt
    /\ e.ipcp_state = "OPENED" => d.ipcp_state = "OPENED" \/ e.evt

\* e is reached from d by a correct function.
Correct(d, e) == Ordered(e) /\ Told(d, e)

LEMMA CorrectTransitive ==
    ASSUME NEW d, NEW e, NEW f, Correct(d, e), Correct(e, f)
    PROVE  Correct(d, f)
  BY DEF Correct, Told

LEMMA Requests ==
    ASSUME NEW d, Ordered(d)
    PROVE  /\ Correct(d, LcpTxConfReq(d))
           /\ Correct(d, IpcpTxConfReq(d))
           /\ LcpTxConfReq(d).lcp_state = d.lcp_state
           /\ LcpTxConfReq(d).ipcp_state = d.ipcp_state
           /\ LcpTxConfReq(d).auth_state = d.auth_state
           /\ IpcpTxConfReq(d).lcp_state = d.lcp_state
           /\ IpcpTxConfReq(d).ipcp_state = d.ipcp_state
           /\ IpcpTxConfReq(d).auth_state = d.auth_state
  BY DEF Correct, Ordered, Told, Down, PppDcb, LcpTxConfReq, IpcpTxConfReq

-----------------------------------------------------------------------------
(* The functions of net/pppsm.c                                            *)

\* What the tables of state changes say.
LEMMA Tables ==
    /\ DOMAIN DownTo = PppState \ {"INITIAL", "STARTING"}
    /\ \A s \in DOMAIN DownTo : DownTo[s] \in {"INITIAL", "STARTING"}
    /\ DOMAIN UpTo = {"INITIAL", "STARTING"}
    /\ UpTo["INITIAL"] = "CLOSED" /\ UpTo["STARTING"] = "REQSENT"
    /\ DOMAIN OpenTo = {"INITIAL", "CLOSED", "CLOSING"}
    /\ \A s \in DOMAIN OpenTo : OpenTo[s] \in PppState \ {"OPENED"}
    /\ DOMAIN CloseTo = PppState \ {"INITIAL", "CLOSED", "CLOSING"}
    /\ CloseTo["STARTING"] = "INITIAL"
    /\ \A s \in DOMAIN CloseTo : CloseTo[s] \in PppState \ {"OPENED"}
<1>1. /\ DOMAIN DownTo = PppState \ {"INITIAL", "STARTING"}
      /\ \A s \in DOMAIN DownTo : DownTo[s] \in {"INITIAL", "STARTING"}
  BY DEF DownTo, PppState
<1>2. /\ DOMAIN UpTo = {"INITIAL", "STARTING"}
      /\ UpTo["INITIAL"] = "CLOSED" /\ UpTo["STARTING"] = "REQSENT"
  BY DEF UpTo
<1>3. /\ DOMAIN OpenTo = {"INITIAL", "CLOSED", "CLOSING"}
      /\ \A s \in DOMAIN OpenTo : OpenTo[s] \in PppState \ {"OPENED"}
  BY DEF OpenTo, PppState
<1>4. /\ DOMAIN CloseTo = PppState \ {"INITIAL", "CLOSED", "CLOSING"}
      /\ CloseTo["STARTING"] = "INITIAL"
      /\ \A s \in DOMAIN CloseTo : CloseTo[s] \in PppState \ {"OPENED"}
  BY DEF CloseTo, PppState
<1> QED
  BY <1>1, <1>2, <1>3, <1>4

\* Bringing the network layer down takes it to one of the states that need
\* nothing of the link, and leaves the link alone.
LEMMA LowerDown ==
    ASSUME NEW d, Ordered(d)
    PROVE  /\ Correct(d, IpcpLowerDown(d))
           /\ Down(IpcpLowerDown(d))
           /\ IpcpLowerDown(d).lcp_state = d.lcp_state
           /\ IpcpLowerDown(d).auth_state = d.auth_state
  BY Tables, ZenonT(30) DEF Correct, Ordered, Told, Down, PppDcb, PppState, IpcpLowerDown, Ipcp, Post

\* With an opened and authenticated link the network layer may come up.
LEMMA LowerUp ==
    ASSUME NEW d, Ordered(d), d.lcp_state = "OPENED", Auth => d.auth_state = "OPEN"
    PROVE  Correct(d, IpcpLowerUp(d))
  BY Tables, ZenonT(30) DEF Correct, Ordered, Told, Down, PppDcb, PppState, IpcpLowerUp, IpcpTxConfReq, Ipcp

\* The link may change its state if that is to be opened or if the network
\* layer is down.
LEMMA LinkChange ==
    ASSUME NEW d, Ordered(d), Down(d), NEW s \in PppState
    PROVE  /\ Correct(d, Lcp(d, s))
           /\ Down(Lcp(d, s)) /\ Lcp(d, s).lcp_state = s /\ Lcp(d, s).auth_state = d.auth_state
  BY DEF Correct, Ordered, Told, Down, PppDcb, Lcp

\* A network layer that is not down may change to any state but OPENED unseen.
LEMMA NetworkChange ==
    ASSUME NEW d, Ordered(d), ~Down(d), NEW s \in PppState \ {"OPENED"}
    PROVE  Correct(d, Ipcp(d, s))
  BY DEF Correct, Ordered, Told, Down, PppDcb, Ipcp

LEMMA CorrectRefl ==
    ASSUME NEW d, Ordered(d)
    PROVE  Correct(d, d)
  BY DEF Correct, Told

LEMMA IoctlCorrect ==
    ASSUME NEW d, Ordered(d)
    PROVE  /\ Correct(d, LcpOpen(d)) /\ Correct(d, LcpClose(d))
           /\ Correct(d, LcpLowerUp(d)) /\ Correct(d, LcpLowerDown(d))
<1>1. Correct(d, LcpOpen(d))
  BY Tables, ZenonT(30) DEF Correct, Ordered, Told, Down, PppDcb, PppState, LcpOpen, Lcp, LcpTxConfReq
<1>2. Correct(d, LcpClose(d))
  BY Tables, ZenonT(60) DEF Correct, Ordered, Told, Down, PppDcb, PppState, LcpClose, Lcp,
         IpcpLowerDown, Ipcp, Post
<1>3. Correct(d, LcpLowerUp(d))
  BY Tables, ZenonT(30) DEF Correct, Ordered, Told, Down, PppDcb, PppState, LcpLowerUp, Lcp, LcpTxConfReq
<1>4. Correct(d, LcpLowerDown(d))
  BY Tables, ZenonT(30) DEF Correct, Ordered, Told, Down, PppDcb, PppState, LcpLowerDown, Lcp,
         IpcpLowerDown, Ipcp, Post
<1> QED
  BY <1>1, <1>2, <1>3, <1>4

-----------------------------------------------------------------------------
(* The treatment of frames                                                 *)

\* When the negotiation of the link succeeds, the network layer, which is
\* down, stays down until the peer has accepted the authentication.
LEMMA LcpUpCorrect ==
    ASSUME NEW d, Ordered(d), Down(d)
    PROVE  Correct(d, LcpUp(d))
<1> DEFINE e == Lcp(d, "OPENED")
<1>1. Correct(d, e) /\ Down(e) /\ e.lcp_state = "OPENED"
  BY LinkChange DEF PppState
<1> HIDE DEF e
<1>2. CASE Auth
  <2>1. Correct(e, PapTxAuthReq(e))
    BY <1>1, <1>2 DEF Correct, Ordered, Told, Down, PppDcb, PapTxAuthReq
  <2> QED  BY <1>1, <1>2, <2>1, CorrectTransitive DEF LcpUp, e
<1>3. CASE ~Auth
  <2>1. Correct(e, IpcpLowerUp(e))
    BY <1>1, <1>3, LowerUp DEF Correct
  <2> QED  BY <1>1, <1>3, <2>1, CorrectTransitive DEF LcpUp, e
<1> QED
  BY <1>2, <1>3

\* Negotiating an opened link anew takes the network layer down first.
LEMMA RenegotiateCorrect ==
    ASSUME NEW d, Ordered(d)
    PROVE  /\ Correct(d, Renegotiate(d))
           /\ Down(Renegotiate(d))
           /\ Renegotiate(d).lcp_state = d.lcp_state
<1> DEFINE e == IpcpLowerDown(d)
<1>1. Correct(d, e) /\ Down(e) /\ e.lcp_state = d.lcp_state
  BY LowerDown
<1>2. Correct(e, LcpTxConfReq(e)) /\ Down(LcpTxConfReq(e)) /\ LcpTxConfReq(e).lcp_state = e.lcp_state
  BY <1>1, Requests DEF Correct, Down
<1> QED
  BY <1>1, <1>2, CorrectTransitive DEF Renegotiate

\* After that the link may change to any state.
LEMMA RenegotiateTo ==
    ASSUME NEW d, Ordered(d), NEW s \in PppState
    PROVE  Correct(d, Lcp(Renegotiate(d), s))
<1>1. Correct(d, Renegotiate(d)) /\ Ordered(Renegotiate(d)) /\ Down(Renegotiate(d))
  BY RenegotiateCorrect DEF Correct
<1>2. Correct(Renegotiate(d), Lcp(Renegotiate(d), s))
  BY <1>1, LinkChange
<1> QED
  BY <1>1, <1>2, CorrectTransitive

\* Only an opened link has a network layer that is not down.
LEMMA LinkNotOpened ==
    ASSUME NEW d, Ordered(d), d.lcp_state # "OPENED"
    PROVE  Down(d)
  BY DEF Ordered

\* Every frame of the link layer is treated correctly, in every state.
LEMMA LcpInputCorrect ==
    ASSUME NEW d, Ordered(d), NEW f \in Frame
    PROVE  Correct(d, NutLcpInput(d, f))
<1> USE DEF PppState
<1>1. Correct(d, LcpRxConfReq(d, f))
  <2> DEFINE e == CASE d.lcp_state = "OPENED"  -> Renegotiate(d)
                    [] d.lcp_state = "STOPPED" -> Lcp(LcpTxConfReq(d), "REQSENT")
                    [] OTHER                   -> d
             s == Answered(e.lcp_state, f.acceptable)
  <2>1. s \in PppState
    BY DEF Answered
  <2>2. Correct(d, e) /\ Down(e)
    <3>1. CASE d.lcp_state = "OPENED"
      BY <3>1, RenegotiateCorrect
    <3>2. CASE d.lcp_state = "STOPPED"
      <4>1. Correct(d, LcpTxConfReq(d)) /\ Down(LcpTxConfReq(d)) /\ Ordered(LcpTxConfReq(d))
        BY <3>2, Requests, LinkNotOpened DEF Correct, Down
      <4>2. Correct(LcpTxConfReq(d), e) /\ Down(e)
        BY <3>2, <4>1, LinkChange
      <4> QED  BY <4>1, <4>2, CorrectTransitive
    <3>3. CASE d.lcp_state \notin {"OPENED", "STOPPED"}
      BY <3>3, CorrectRefl, LinkNotOpened
    <3> QED  BY <3>1, <3>2, <3>3
  <2> HIDE DEF e, s
  <2>3. Ordered(e)
    BY <2>2 DEF Correct
  <2>4. Correct(e, LcpUp(e)) /\ Correct(e, Lcp(e, s))
    BY <2>1, <2>2, <2>3, LcpUpCorrect, LinkChange
  <2>5. Correct(d, LcpUp(e)) /\ Correct(d, Lcp(e, s))
    BY <2>2, <2>4, CorrectTransitive
  <2> QED  BY <2>5, CorrectRefl DEF LcpRxConfReq, e, s
<1>2. Correct(d, LcpRxConfAck(d, f))
  <2> DEFINE e == IF f.current /\ ~d.acked THEN [d EXCEPT !.acked = f.acceptable] ELSE d
  <2>1. Correct(d, e) /\ Ordered(e) /\ e.lcp_state = d.lcp_state
    BY DEF Frame, Correct, Ordered, Told, Down, PppDcb
  <2> HIDE DEF e
  <2>2. ASSUME Down(e)
        PROVE  /\ Correct(e, [Lcp(e, "ACKRCVD") EXCEPT !.retries = 0])
               /\ Correct(e, Lcp(LcpTxConfReq(e), "REQSENT"))
    BY <2>1, <2>2, ZenonT(30) DEF Correct, Ordered, Told, Down, PppDcb, Lcp, LcpTxConfReq
  <2>3. Down(e) => Correct(e, LcpUp(e))
    BY <2>1, LcpUpCorrect
  <2>4. Correct(e, Lcp(Renegotiate(e), "REQSENT"))
    BY <2>1, RenegotiateTo
  <2>5. Correct(e, e)
    BY <2>1, CorrectRefl
  <2>6. e.lcp_state # "OPENED" => Down(e)
    BY <2>1, LinkNotOpened
  <2>7. ~e.acked => LcpRxConfAck(d, f) = e
    BY DEF LcpRxConfAck, e
  <2>8. e.acked => Correct(e, LcpRxConfAck(d, f))
    BY <2>2, <2>3, <2>4, <2>5, <2>6 DEF LcpRxConfAck, e
  <2> QED  BY <2>1, <2>7, <2>8, CorrectTransitive
<1>3. Correct(d, LcpRxConfNakRej(d, f))
  <2> DEFINE e == [d EXCEPT !.acked = TRUE]
  <2>1. Correct(d, e) /\ Ordered(e) /\ e.lcp_state = d.lcp_state
    BY DEF Correct, Ordered, Told, Down, PppDcb
  <2> HIDE DEF e
  <2>2. Correct(e, LcpTxConfReq(e))
    BY <2>1, Requests
  <2>3. Down(e) => Correct(e, Lcp(LcpTxConfReq(e), "REQSENT"))
    BY <2>1 DEF Correct, Ordered, Told, Down, PppDcb, Lcp, LcpTxConfReq
  <2>4. Correct(e, Lcp(Renegotiate(e), "REQSENT"))
    BY <2>1, RenegotiateTo
  <2>5. e.lcp_state # "OPENED" => Down(e)
    BY <2>1, LinkNotOpened
  <2>6. \/ LcpRxConfNakRej(d, f) = d
        \/ Correct(e, LcpRxConfNakRej(d, f))
    BY <2>1, <2>2, <2>3, <2>4, <2>5, CorrectRefl DEF LcpRxConfNakRej, e
  <2> QED  BY <2>1, <2>6, CorrectTransitive, CorrectRefl
<1>4. Correct(d, LcpRxTermReq(d))
  <2>1. Correct(d, Lcp(IpcpLowerDown(d), "STOPPING"))
    BY LowerDown, LinkChange, CorrectTransitive DEF Correct
  <2>2. d.lcp_state # "OPENED" => Correct(d, Lcp(d, "REQSENT"))
    BY LinkNotOpened, LinkChange
  <2> QED  BY <2>1, <2>2, CorrectRefl DEF LcpRxTermReq
<1>5. Correct(d, LcpRxTermAck(d))
  <2>1. ASSUME d.lcp_state # "OPENED", NEW s \in PppState
        PROVE  Correct(d, Lcp(d, s))
    BY <2>1, LinkNotOpened, LinkChange
  <2> QED  BY <2>1, RenegotiateCorrect, CorrectRefl DEF LcpRxTermAck
<1>6. Correct(d, LcpRxCodeRej(d))
  BY LinkNotOpened, LinkChange, CorrectRefl DEF LcpRxCodeRej
<1> QED
  BY <1>1, <1>2, <1>3, <1>4, <1>5, <1>6, CorrectRefl DEF NutLcpInput, Frame

\* The functions that the network layer is made of, with a link that is up.
Ready(d, e) ==
    Correct(d, e) /\ e.lcp_state = "OPENED" /\ (Auth => e.auth_state = "OPEN")

LEMMA ReadyPreserved ==
    ASSUME NEW d, NEW e, Ready(d, e)
    PROVE  /\ Ready(d, IpcpTxConfReq(e))
           /\ Ready(d, IpcpUp(e))
           /\ \A s \in PppState \ {"OPENED"} : Ready(d, Ipcp(e, s))
           /\ Ready(d, IpcpRestart(e))
           /\ \A a \in BOOLEAN : Ready(d, [e EXCEPT !.acked = a])
           /\ Ready(d, [e EXCEPT !.retries = 0])
           /\ Ready(d, IpcpLowerDown(e))
<1>1. /\ Ready(d, IpcpTxConfReq(e))
      /\ Ready(d, IpcpUp(e))
      /\ \A s \in PppState \ {"OPENED"} : Ready(d, Ipcp(e, s))
      /\ Ready(d, IpcpRestart(e))
      /\ \A a \in BOOLEAN : Ready(d, [e EXCEPT !.acked = a])
      /\ Ready(d, [e EXCEPT !.retries = 0])
  BY ZenonT(30) DEF Ready, Correct, Ordered, Told, Down, PppDcb, PppState, Ipcp, IpcpUp, Post,
         IpcpTxConfReq, IpcpRestart
<1>2. Ready(d, IpcpLowerDown(e))
  <2>1. Ordered(e) /\ Correct(e, IpcpLowerDown(e))
    BY LowerDown DEF Ready, Correct
  <2> QED  BY <2>1, LowerDown, CorrectTransitive DEF Ready
<1> QED
  BY <1>1, <1>2

\* Every frame of the network layer is treated correctly; it is passed on only
\* if the link is up.
LEMMA IpcpInputCorrect ==
    ASSUME NEW d, Ordered(d), Admitted(d, "IPCP"), NEW f \in Frame
    PROVE  Correct(d, NutIpcpInput(d, f))
<1> USE DEF PppState
<1>1. Ready(d, d)
  BY CorrectRefl DEF Ready, Admitted, Ordered, PppDcb
<1>2. Ready(d, IpcpRxConfReq(d, f))
  <2> DEFINE e == CASE d.ipcp_state = "OPENED"  -> IpcpTxConfReq(IpcpLowerDown(d))
                    [] d.ipcp_state = "STOPPED" -> Ipcp(IpcpTxConfReq(d), "REQSENT")
                    [] OTHER                    -> d
             s == Answered(e.ipcp_state, f.acceptable)
  <2>1. s \in PppState
    BY DEF Answered
  <2>2. Ready(d, IpcpLowerDown(d)) /\ Ready(d, IpcpTxConfReq(d))
    BY <1>1, ReadyPreserved
  <2>3. Ready(d, IpcpTxConfReq(IpcpLowerDown(d))) /\ Ready(d, Ipcp(IpcpTxConfReq(d), "REQSENT"))
    BY <2>2, ReadyPreserved
  <2>4. Ready(d, e)
    BY <1>1, <2>3
  <2> HIDE DEF e, s
  <2>5. Ready(d, IpcpUp(e)) /\ (s # "OPENED" => Ready(d, Ipcp(e, s)))
    BY <2>1, <2>4, ReadyPreserved
  <2> QED  BY <1>1, <2>5 DEF IpcpRxConfReq, e, s
<1>3. Ready(d, IpcpRestart(d)) /\ Ready(d, IpcpRestart(IpcpLowerDown(d)))
  BY <1>1, ReadyPreserved
<1>4. Ready(d, IpcpRxConfAck(d, f))
  <2> DEFINE e == CASE d.ipcp_state = "REQSENT" -> [Ipcp(d, "ACKRCVD") EXCEPT !.retries = 0]
                    [] d.ipcp_state = "ACKRCVD" -> IpcpRestart(d)
                    [] d.ipcp_state = "ACKSENT" -> [IpcpUp(d) EXCEPT !.retries = 0]
                    [] d.ipcp_state = "OPENED"  -> IpcpRestart(IpcpLowerDown(d))
                    [] OTHER                    -> d
  <2>1. Ready(d, IpcpUp(d)) /\ Ready(d, Ipcp(d, "ACKRCVD"))
    BY <1>1, ReadyPreserved
  <2>2. Ready(d, [IpcpUp(d) EXCEPT !.retries = 0]) /\ Ready(d, [Ipcp(d, "ACKRCVD") EXCEPT !.retries = 0])
    BY <2>1, ReadyPreserved
  <2>3. Ready(d, e)
    BY <1>1, <1>3, <2>2
  <2> HIDE DEF e
  <2>4. Ready(d, [e EXCEPT !.acked = TRUE])
    BY <2>3, ReadyPreserved
  <2> QED  BY <1>1, <2>4 DEF IpcpRxConfAck, e
<1>5. Ready(d, IpcpRxConfNakRej(d, f))
  BY <1>1, <1>3, ReadyPreserved DEF IpcpRxConfNakRej
<1>6. Ready(d, Ipcp(d, "REQSENT")) /\ Ready(d, Ipcp(d, "CLOSED")) /\ Ready(d, Ipcp(d, "STOPPED"))
  BY <1>1, ReadyPreserved
<1>7. Ready(d, IpcpRxTermReq(d))
  <2>1. Ready(d, Ipcp(IpcpLowerDown(d), "STOPPING"))
    BY <1>1, ReadyPreserved
  <2> QED  BY <1>1, <1>6, <2>1 DEF IpcpRxTermReq
<1>8. Ready(d, IpcpRxTermAck(d))
  <2>1. Ready(d, IpcpTxConfReq(IpcpLowerDown(d)))
    BY <1>1, ReadyPreserved
  <2> QED  BY <1>1, <1>6, <2>1 DEF IpcpRxTermAck
<1>9. Ready(d, IpcpRxCodeRej(d))
  BY <1>1, <1>6 DEF IpcpRxCodeRej
<1> QED
  BY <1>1, <1>2, <1>4, <1>5, <1>7, <1>8, <1>9 DEF NutIpcpInput, Frame, Ready

\* The answers of the peer to the authentication request.
LEMMA PapInputCorrect ==
    ASSUME NEW d, Ordered(d), Admitted(d, "PAP"), NEW f \in Frame
    PROVE  Correct(d, NutPapInput(d, f))
<1>1. CASE d.auth_state # "AUTHREQ"
  BY <1>1, CorrectRefl DEF NutPapInput
<1>2. CASE d.auth_state = "AUTHREQ"
  <2>1. d.lcp_state = "OPENED" /\ Auth /\ Down(d)
    BY <1>2 DEF Admitted, Ordered
  <2>2. ASSUME NEW a \in {"OPEN", "BADAUTH"}
        PROVE  /\ Correct(d, [d EXCEPT !.auth_state = a])
               /\ [d EXCEPT !.auth_state = a].lcp_state = "OPENED"
               /\ [d EXCEPT !.auth_state = a].auth_state = a
    BY <2>1 DEF Correct, Ordered, Told, Down, PppDcb
  <2>3. Correct(d, IpcpLowerUp([d EXCEPT !.auth_state = "OPEN"]))
    BY <2>2, LowerUp, CorrectTransitive DEF Correct
  <2>4. Correct(d, IpcpLowerDown([d EXCEPT !.auth_state = "BADAUTH"]))
    BY <2>2, LowerDown, CorrectTransitive DEF Correct
  <2> QED  BY <2>3, <2>4, CorrectRefl DEF NutPapInput
<1> QED
  BY <1>1, <1>2

-----------------------------------------------------------------------------
(* The retry thread and the device calls                                   *)

\* A pass of NutPppSm.
LEMMA SmCorrect ==
    ASSUME NEW d, Ordered(d), NEW r \in Nat
    PROVE  /\ Correct(d, SmLcp(d, r))
           /\ Correct(d, SmPap(d, r))
           /\ Correct(d, SmIpcp(d, r))
<1> USE PppAssumption DEF PppState
<1>1. ASSUME NEW e, Correct(d, e)
      PROVE  Correct(d, Retry(e, r))
  BY <1>1 DEF Retry, Correct, Ordered, Told, Down, PppDcb
<1>2. Correct(d, LcpTxConfReq(d)) /\ Correct(d, IpcpTxConfReq(d)) /\ Correct(d, d)
  BY Requests, CorrectRefl
<1>3. Correct(d, SmLcp(d, r))
  <2>1. Repeats(d.lcp_state) => Correct(d, Lcp(d, GivenUp(d.lcp_state)))
    BY LinkNotOpened, LinkChange DEF Repeats, GivenUp
  <2> QED  BY <1>1, <1>2, <2>1 DEF SmLcp
<1>4. Correct(d, SmPap(d, r))
  <2>1. d.auth_state = "AUTHREQ" => Correct(d, Lcp(d, "STOPPED"))
    BY LinkChange DEF Ordered
  <2> QED  BY <1>1, <1>2, <2>1 DEF SmPap
<1>5. Correct(d, SmIpcp(d, r))
  <2>1. Repeats(d.ipcp_state) => Correct(d, Ipcp(d, GivenUp(d.ipcp_state)))
    BY NetworkChange DEF Repeats, GivenUp, Down
  <2> QED  BY <1>1, <1>2, <2>1 DEF SmIpcp
<1> QED
  BY <1>3, <1>4, <1>5

\* NutPppOpen and NutPppClose.
LEMMA DeviceCorrect ==
    /\ Ordered(IpcpOpen(Cleared)) /\ IpcpOpen(Cleared).ipcp_state = "STARTING"
    /\ \A d : Ordered(d) => Correct(d, IpcpClose(d))
<1>1. Ordered(IpcpOpen(Cleared)) /\ IpcpOpen(Cleared).ipcp_state = "STARTING"
  BY Tables, ZenonT(30) DEF Ordered, Down, PppDcb, PppState, Cleared, IpcpOpen, LcpOpen, Lcp, Ipcp,
         LcpTxConfReq
<1>2. ASSUME NEW d, Ordered(d)
      PROVE  Correct(d, IpcpClose(d))
  BY <1>2, Tables, ZenonT(30) DEF Correct, Ordered, Told, Down, PppDcb, PppState, IpcpClose, Ipcp, Post
<1> QED
  BY <1>1, <1>2

-----------------------------------------------------------------------------
(***************************************************************************)
(* The inductive invariant.  LayersOrdered alone is not inductive: that a  *)
(* link without authentication never comes to wait for an answer of PAP is *)
(* needed for the retries, and UpNotMissed needs that the network layer    *)
(* does not come up unnoticed from the moment the queue dcb_state_chg is   *)
(* emptied.                                                                *)
(***************************************************************************)
PppIInv ==
    /\ Ordered(dcb)
    /\ open \in BOOLEAN
    /\ conf \in {"idle", "attach", "signaled", "wait", "woken"}
    /\ conf \in {"attach", "wait"} /\ dcb.ipcp_state = "OPENED" => wasUp

\* Storing what a correct function returns keeps the invariant: if the network
\* layer came up, the event reaches the thread that waits or is about to wait.
LEMMA SetPreserves ==
    ASSUME PppIInv, NEW d, Correct(dcb, d), Set(d), open' \in BOOLEAN
    PROVE  PppIInv'
<1>1. dcb' = [d EXCEPT !.evt = FALSE] /\ Ordered(d)
  BY DEF Set, Correct
<1>2. /\ dcb' \in PppDcb
      /\ dcb'.ipcp_state = d.ipcp_state /\ dcb'.lcp_state = d.lcp_state
      /\ dcb'.auth_state = d.auth_state
  BY <1>1 DEF Ordered, PppDcb
<1>3. Ordered(dcb')
  BY <1>1, <1>2 DEF Ordered, Down
<1>4. conf' \in {"idle", "attach", "signaled", "wait", "woken"}
  BY DEF Set, PppIInv
<1>5. conf' \in {"attach", "wait"} /\ dcb'.ipcp_state = "OPENED" => wasUp'
  BY <1>2 DEF Set, PppIInv, Correct, Told
<1> QED
  BY <1>3, <1>4, <1>5 DEF PppIInv

LEMMA PppInitOK == PppInit => PppIInv
<1> SUFFICES ASSUME PppInit PROVE PppIInv
  OBVIOUS
<1>1. Cleared \in PppDcb
  BY DEF Cleared, PppDcb, PppState
<1>2. Ordered(Cleared)
  BY <1>1 DEF Ordered, Down, Cleared
<1> QED
  BY <1>2 DEF PppInit, PppIInv

LEMMA PppStep ==
    ASSUME PppIInv, [PppNext]_PppVars
    PROVE  PppIInv'
<1>1. Ordered(dcb) /\ open \in BOOLEAN
  BY DEF PppIInv
<1>2. ASSUME NEW f \in Frame, NutPppInput(f)
      PROVE  PppIInv'
  <2>1. open' \in BOOLEAN /\ Admitted(dcb, f.protocol)
    BY <1>1, <1>2 DEF NutPppInput
  <2>2. CASE f.protocol = "LCP"
    BY <1>1, <1>2, <2>1, <2>2, LcpInputCorrect, SetPreserves DEF NutPppInput
  <2>3. CASE f.protocol = "IPCP"
    BY <1>1, <1>2, <2>1, <2>3, IpcpInputCorrect, SetPreserves DEF NutPppInput
  <2>4. CASE f.protocol = "PAP"
    BY <1>1, <1>2, <2>1, <2>4, PapInputCorrect, SetPreserves DEF NutPppInput
  <2> QED  BY <2>2, <2>3, <2>4 DEF Frame
<1>3. CASE NutPppSm
  <2> DEFINE r == dcb.retries
             d == SmLcp(dcb, r)
             e == SmPap(d, r)
  <2>1. r \in Nat
    BY <1>1 DEF Ordered, PppDcb
  <2> HIDE DEF r
  <2>2. Correct(dcb, d) /\ Ordered(d)
    BY <1>1, <2>1, SmCorrect DEF Correct
  <2> HIDE DEF d
  <2>3. Correct(dcb, e) /\ Ordered(e)
    BY <2>1, <2>2, SmCorrect, CorrectTransitive DEF Correct
  <2> HIDE DEF e
  <2>4. Correct(dcb, SmIpcp(e, r))
    BY <2>1, <2>3, SmCorrect, CorrectTransitive
  <2>5. Set(SmIpcp(e, r)) /\ open' \in BOOLEAN
    BY <1>1, <1>3 DEF NutPppSm, r, d, e
  <2> QED  BY <2>4, <2>5, SetPreserves
<1>4. CASE NutPppOpen
  <2> DEFINE d == IpcpOpen(Cleared)
  <2>1. Ordered(d) /\ d.ipcp_state = "STARTING"
    BY DeviceCorrect
  <2>2. d.evt = FALSE
    BY Tables DEF Cleared, IpcpOpen, LcpOpen, Lcp, Ipcp, LcpTxConfReq, OpenTo
  <2>3. dcb' = [d EXCEPT !.evt = FALSE] /\ conf' = conf /\ open' = TRUE
    BY <1>4, <2>2 DEF NutPppOpen, Set
  <2> HIDE DEF d
  <2>4. dcb' = d
    BY <2>1, <2>2, <2>3 DEF Ordered, PppDcb
  <2> QED  BY <2>1, <2>3, <2>4 DEF PppIInv
<1>5. CASE NutPppClose
  BY <1>1, <1>5, DeviceCorrect, SetPreserves DEF NutPppClose
<1>6. CASE NutPppIOCtl
  BY <1>1, <1>6, IoctlCorrect, SetPreserves DEF NutPppIOCtl
<1>7. CASE NutNetIfConfig
  BY <1>7 DEF NutNetIfConfig, PppIInv, Ordered, Down
<1>8. CASE IfConfigWait
  BY <1>8 DEF IfConfigWait, PppIInv, Ordered, Down
<1>9. CASE IfConfigDone
  BY <1>9 DEF IfConfigDone, PppIInv, Ordered, Down
<1>10. CASE UNCHANGED PppVars
  BY <1>10 DEF PppVars, PppIInv, Ordered, Down
<1> QED
  BY <1>2, <1>3, <1>4, <1>5, <1>6, <1>7, <1>8, <1>9, <1>10 DEF PppNext

LEMMA PppInvariant == PppSpec => []PppIInv
<1>1. PppIInv /\ [PppNext]_PppVars => PppIInv'
  BY PppStep
<1> QED
  BY <1>1, PppInitOK, PTL DEF PppSpec

\* Whatever frames the peer sends and whichever timer expires, the network
\* layer is never ahead of the link and of its authentication (net/lcpin.c,
\* net/ipcpin.c, net/papin.c, net/pppsm.c).
THEOREM PppLayersOrdered == PppSpec => []LayersOrdered
<1>1. PppIInv => LayersOrdered
  BY DEF PppIInv, Ordered, Down, LayersOrdered
<1> QED
  BY <1>1, PppInvariant, PTL

\* NutNetIfConfig waits while the network layer is up only if the layer was up
\* before the call: that the layer comes up later is never missed, not even
\* while the HDLC driver attaches.
THEOREM PppUpNotMissed == PppSpec => []UpNotMissed
<1>1. PppIInv => UpNotMissed
  BY DEF PppIInv, UpNotMissed
<1> QED
  BY <1>1, PppInvariant, PTL
=============================================================================
