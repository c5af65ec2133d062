-------------------------- MODULE NutThreadProofs --------------------------
(***************************************************************************)
(* The heap of os/heap.c neither loses memory nor gives it away twice, and *)
(* the threads of os/thread.c neither use the memory of their stacks after *)
(* its release nor lose it, for any memory, any requests and any threads.  *)
(***************************************************************************)
EXTENDS NutThread, NutThreadQueueProofs

-----------------------------------------------------------------------------
(* Free lists                                                              *)

\* Where a node ends.
End(n) == n.addr + n.size

\* The memory of a free list.
ListCells(s) == UNION {Cells(s[i]) : i \in 1..Len(s)}

\* A node of a free list, or one that may be put into it.
Sound(n) == n \in Node /\ n.size >= NODE

\* Every node ends before all that follow it, with a gap between them.
Apart(s) == \A i, j \in 1..Len(s) : i < j => End(s[i]) < s[j].addr

\* The i-th node may touch its successor, all others have gaps between them.
ApartBut(s, i) ==
    \A j, k \in 1..Len(s) : j < k =>
        End(s[j]) <= s[k].addr /\ (End(s[j]) = s[k].addr => j = i /\ k = i + 1)

FreeList(s) == s \in Seq(Node) /\ (\A i \in 1..Len(s) : Sound(s[i])) /\ Apart(s)

LEMMA InCells ==
    ASSUME NEW n \in Node
    PROVE  /\ \A a : a \in Cells(n) <=> a \in Nat /\ n.addr <= a /\ a < End(n)
           /\ Cells(n) \subseteq Nat
  BY DEF Cells, Node, End

LEMMA InListCells ==
    ASSUME NEW s, NEW a
    PROVE  a \in ListCells(s) <=> \E i \in 1..Len(s) : a \in Cells(s[i])
  BY DEF ListCells

LEMMA NodeType ==
    ASSUME NEW n \in Node
    PROVE  n.addr \in Nat /\ n.size \in Nat /\ End(n) \in Nat /\ n.addr <= End(n)
<1>1. n.addr \in Nat /\ n.size \in Nat
  BY DEF Node
<1> QED
  BY <1>1 DEF End

\* Nodes without a common cell lie one behind the other.
LEMMA DisjointNodes ==
    ASSUME NEW n, NEW m, Sound(n), Sound(m), Cells(n) \cap Cells(m) = {}
    PROVE  End(n) <= m.addr \/ End(m) <= n.addr
<1>1. /\ n \in Node /\ m \in Node
      /\ n.addr \in Nat /\ m.addr \in Nat /\ n.size \in Nat /\ m.size \in Nat
      /\ n.size >= 1 /\ m.size >= 1
  BY HeapAssumption DEF Sound, Node
<1>2. /\ n.addr \in Cells(n) /\ m.addr \in Cells(m)
  BY <1>1 DEF Cells
<1>3. m.addr \notin Cells(n) /\ n.addr \notin Cells(m)
  BY <1>2
<1> QED
  BY <1>1, <1>3 DEF Cells, End

\* Merging two nodes that touch neither loses a cell nor gains one, and closes
\* the only missing gap.
LEMMA JoinedProperties ==
    ASSUME NEW s \in Seq(Node), NEW i \in 1..Len(s),
           \A k \in 1..Len(s) : Sound(s[k]), ApartBut(s, i)
    PROVE  FreeList(Joined(s, i)) /\ ListCells(Joined(s, i)) = ListCells(s)
<1>0. /\ Len(s) \in Nat /\ i \in Nat /\ i >= 1 /\ i <= Len(s)
      /\ \A k \in 1..Len(s) : s[k] \in Node /\ s[k].addr \in Nat /\ s[k].size \in Nat /\ s[k].size >= NODE
      /\ NODE \in Nat
  BY HeapAssumption, LenProperties DEF Sound, Node
<1>1. CASE ~(i < Len(s) /\ Touches(s[i], s[i + 1]))
  <2>1. Joined(s, i) = s
    BY <1>1 DEF Joined
  <2>2. ASSUME NEW j \in 1..Len(s), NEW k \in 1..Len(s), j < k
        PROVE  End(s[j]) < s[k].addr
    <3>1. End(s[j]) \in Nat /\ s[k].addr \in Nat
      BY <1>0 DEF End
    <3>2. End(s[j]) <= s[k].addr /\ (End(s[j]) = s[k].addr => j = i /\ k = i + 1)
      BY <2>2 DEF ApartBut
    <3>3. ~(j = i /\ k = i + 1 /\ End(s[j]) = s[k].addr)
      BY <1>0, <1>1, <2>2 DEF Touches, End
    <3> QED  BY <3>1, <3>2, <3>3
  <2> QED  BY <2>1, <2>2 DEF FreeList, Apart
<1>2. CASE i < Len(s) /\ Touches(s[i], s[i + 1])
  <2> DEFINE m == [s[i] EXCEPT !.size = @ + s[i + 1].size]
             t == [s EXCEPT ![i].size = @ + s[i + 1].size]
             r == RemoveAt(t, i + 1)
  <2>1. /\ m \in Node /\ m.addr = s[i].addr /\ m.size = s[i].size + s[i + 1].size
        /\ End(m) = End(s[i + 1]) /\ m.size >= NODE
    <3>1. i + 1 \in 1..Len(s)
      BY <1>0, <1>2
    <3>2. /\ s[i] \in Node /\ s[i].addr \in Nat /\ s[i].size \in Nat /\ s[i].size >= NODE
          /\ s[i + 1].addr \in Nat /\ s[i + 1].size \in Nat
          /\ s[i].addr + s[i].size = s[i + 1].addr
      BY <1>0, <1>2, <3>1 DEF Touches
    <3>3. m \in Node /\ m.addr = s[i].addr /\ m.size = s[i].size + s[i + 1].size
      BY <3>2, SMTT(30) DEF Node
    <3> HIDE DEF m
    <3>4. s[i].size + s[i + 1].size >= NODE
      BY <1>0, <3>2
    <3>5. s[i].addr + (s[i].size + s[i + 1].size) = s[i + 1].addr + s[i + 1].size
      BY <3>2
    <3> QED  BY <3>3, <3>4, <3>5 DEF End
  <2>2. t = [s EXCEPT ![i] = m]
    OBVIOUS
  <2> HIDE DEF m
  <2>3. t \in Seq(Node) /\ Len(t) = Len(s)
        /\ \A k \in 1..Len(s) : t[k] = IF k = i THEN m ELSE s[k]
    <3> HIDE DEF t
    <3> QED  BY <2>1, <2>2, ExceptSeq
  <2> HIDE DEF t
  <2>4. i + 1 \in 1..Len(t)
    BY <1>0, <1>2, <2>3
  <2>5. /\ r \in Seq(Node) /\ Len(r) = Len(s) - 1
        /\ \A k \in 1..(Len(s) - 1) : r[k] = IF k < i + 1 THEN t[k] ELSE t[k + 1]
    BY <2>3, <2>4, RemoveAtProperties
  <2> HIDE DEF r
  <2>6. \A k \in 1..Len(r) : r[k] = IF k = i THEN m ELSE IF k < i THEN s[k] ELSE s[k + 1]
    BY <1>0, <1>2, <2>3, <2>5
  <2>7. \A k \in 1..Len(r) : Sound(r[k])
    <3> SUFFICES ASSUME NEW k \in 1..Len(r)  PROVE Sound(r[k])
      OBVIOUS
    <3>1. k \in 1..Len(s) /\ k + 1 \in 1..Len(s)
      BY <1>0, <2>5
    <3> QED  BY <1>0, <2>1, <2>6, <3>1 DEF Sound
  <2>8. ASSUME NEW j \in 1..Len(r), NEW k \in 1..Len(r), j < k
        PROVE  End(r[j]) < r[k].addr
    <3> DEFINE a == IF j < i THEN j ELSE j + 1
               b == IF k <= i THEN k ELSE k + 1
    <3>1. /\ a \in 1..Len(s) /\ b \in 1..Len(s) /\ a < b /\ ~(a = i /\ b = i + 1)
      BY <1>0, <2>5, <2>8
    <3>2. End(r[j]) = End(s[a])
      <4>1. r[j] = IF j = i THEN m ELSE IF j < i THEN s[j] ELSE s[j + 1]
        BY <2>6
      <4> QED  BY <1>0, <2>1, <2>5, <4>1
    <3>3. r[k].addr = s[b].addr
      <4>1. r[k] = IF k = i THEN m ELSE IF k < i THEN s[k] ELSE s[k + 1]
        BY <2>6
      <4> QED  BY <1>0, <2>1, <2>5, <4>1
    <3>4. End(s[a]) <= s[b].addr /\ End(s[a]) # s[b].addr
      BY <3>1 DEF ApartBut
    <3>5. End(s[a]) \in Nat /\ s[b].addr \in Nat
      <4>1. s[a] \in Node /\ s[b] \in Node
        <5> HIDE DEF a, b
        <5> QED  BY <1>0, <3>1
      <4> HIDE DEF a, b
      <4> QED  BY <4>1, NodeType
    <3> QED  BY <3>2, <3>3, <3>4, <3>5
  <2>9. ASSUME NEW a  PROVE a \in ListCells(r) <=> a \in ListCells(s)
    <3>1. a \in Cells(m) <=> a \in Cells(s[i]) \/ a \in Cells(s[i + 1])
      <4>1. /\ s[i] \in Node /\ s[i + 1] \in Node /\ m \in Node
            /\ m.addr = s[i].addr /\ End(m) = End(s[i + 1]) /\ End(s[i]) = s[i + 1].addr
        BY <1>0, <1>2, <2>1 DEF End, Touches
      <4>2. /\ a \in Cells(m) <=> a \in Nat /\ m.addr <= a /\ a < End(m)
            /\ a \in Cells(s[i]) <=> a \in Nat /\ s[i].addr <= a /\ a < End(s[i])
            /\ a \in Cells(s[i + 1]) <=> a \in Nat /\ s[i + 1].addr <= a /\ a < End(s[i + 1])
        BY <4>1, InCells
      <4>3. /\ s[i].addr \in Nat /\ End(s[i]) \in Nat /\ End(s[i + 1]) \in Nat
            /\ s[i].addr <= End(s[i]) /\ s[i + 1].addr <= End(s[i + 1])
        BY <4>1, NodeType
      <4> QED  BY <4>1, <4>2, <4>3
    <3>2. ASSUME NEW k \in 1..Len(r), a \in Cells(r[k])
          PROVE  \E j \in 1..Len(s) : a \in Cells(s[j])
      <4>1. k \in 1..Len(s) /\ k + 1 \in 1..Len(s) /\ i + 1 \in 1..Len(s)
        BY <1>0, <1>2, <2>5
      <4>2. r[k] = m \/ r[k] = s[k] \/ r[k] = s[k + 1]
        BY <2>6
      <4> QED  BY <3>1, <3>2, <4>1, <4>2
    <3>3. ASSUME NEW j \in 1..Len(s), a \in Cells(s[j])
          PROVE  \E k \in 1..Len(r) : a \in Cells(r[k])
      <4>1. CASE j < i
        <5>1. j \in 1..Len(r) /\ r[j] = s[j]
          BY <1>0, <1>2, <2>5, <2>6, <4>1
        <5> QED  BY <3>3, <5>1
      <4>2. CASE j = i \/ j = i + 1
        <5>1. i \in 1..Len(r) /\ r[i] = m
          BY <1>0, <1>2, <2>5, <2>6
        <5> QED  BY <3>1, <3>3, <4>2, <5>1
      <4>3. CASE j > i + 1
        <5>1. j - 1 \in 1..Len(r) /\ r[j - 1] = s[j]
          BY <1>0, <1>2, <2>5, <2>6, <4>3
        <5> QED  BY <3>3, <5>1
      <4> QED  BY <1>0, <4>1, <4>2, <4>3
    <3> QED  BY <3>2, <3>3, InListCells
  <2>10. Joined(s, i) = r
    BY <1>2 DEF Joined, r, t
  <2> QED  BY <2>5, <2>7, <2>8, <2>9, <2>10 DEF FreeList, Apart
<1> QED
  BY <1>1, <1>2

\* The walk of NutHeapRootFree stops at the first node it has reason to.
LEMMA FreeStopProperties ==
    ASSUME NEW s \in Seq(Node), NEW f, FreeStops(s, f) # {}
    PROVE  /\ FreeStop(s, f) \in 1..Len(s)
           /\ StopsAt(s[FreeStop(s, f)], f)
           /\ \A j \in 1..Len(s) : j < FreeStop(s, f) => ~StopsAt(s[j], f)
<1> DEFINE S == FreeStops(s, f)
<1>1. S \in SUBSET Nat /\ S # {}
  BY DEF FreeStops
<1>2. \E i \in S : \A j \in S : i <= j
  <2> HIDE DEF S
  <2> QED  BY <1>1, LeastNatural
<1>3. FreeStop(s, f) \in S /\ \A j \in S : FreeStop(s, f) <= j
  BY <1>2 DEF FreeStop
<1>4. \A j \in 1..Len(s) : j < FreeStop(s, f) => j \notin S
  BY <1>1, <1>3
<1> QED
  BY <1>3, <1>4 DEF FreeStops

\* NutHeapRootFree adds exactly the cells of the released node to the free
\* list, which stays in order and without adjacent nodes.
LEMMA ReleasedProperties ==
    ASSUME NEW s, FreeList(s), NEW f, Sound(f), Cells(f) \cap ListCells(s) = {}
    PROVE  FreeList(Released(s, f)) /\ ListCells(Released(s, f)) = ListCells(s) \cup Cells(f)
<1>1. /\ s \in Seq(Node) /\ Len(s) \in Nat
      /\ \A k \in 1..Len(s) : Sound(s[k]) /\ s[k] \in Node
      /\ \A k \in 1..Len(s) : s[k].addr \in Nat /\ s[k].size \in Nat /\ s[k].size >= NODE
      /\ \A k \in 1..Len(s) : End(s[k]) \in Nat /\ s[k].addr < End(s[k])
      /\ NODE \in Nat
  BY HeapAssumption, LenProperties, SMTT(30) DEF FreeList, Sound, Node, End
<1>2. /\ f \in Node /\ f.addr \in Nat /\ f.size \in Nat /\ f.size >= NODE
      /\ End(f) \in Nat /\ f.addr < End(f) /\ End(f) = f.addr + f.size
  BY HeapAssumption DEF Sound, Node, End
<1>3. ASSUME NEW k \in 1..Len(s)
      PROVE  End(s[k]) <= f.addr \/ End(f) <= s[k].addr
  <2>1. Cells(f) \cap Cells(s[k]) = {}
    BY InListCells
  <2> QED  BY <1>1, <2>1, DisjointNodes
<1>4. ASSUME NEW k \in 1..Len(s), ~StopsAt(s[k], f)
      PROVE  End(s[k]) < f.addr
  BY <1>1, <1>2, <1>4 DEF StopsAt, Touches, End
<1>5. CASE FreeStops(s, f) = {}
  <2> DEFINE r == Append(s, f)
  <2>1. /\ r \in Seq(Node) /\ Len(r) = Len(s) + 1
        /\ \A k \in 1..(Len(s) + 1) : r[k] = IF k = Len(s) + 1 THEN f ELSE s[k]
    BY <1>1, <1>2
  <2> HIDE DEF r
  <2>2. \A k \in 1..Len(r) : (k \in 1..Len(s) /\ r[k] = s[k]) \/ (k = Len(s) + 1 /\ r[k] = f)
    <3> SUFFICES ASSUME NEW k \in 1..Len(r)
                 PROVE  (k \in 1..Len(s) /\ r[k] = s[k]) \/ (k = Len(s) + 1 /\ r[k] = f)
      OBVIOUS
    <3>1. CASE k = Len(s) + 1
      BY <1>1, <2>1, <3>1
    <3>2. CASE k # Len(s) + 1
      BY <1>1, <2>1, <3>2
    <3> QED  BY <3>1, <3>2
  <2>3. \A k \in 1..Len(r) : Sound(r[k])
    BY <1>1, <2>2
  <2>4. ASSUME NEW j \in 1..Len(r), NEW k \in 1..Len(r), j < k
        PROVE  End(r[j]) < r[k].addr
    <3>1. j \in 1..Len(s) /\ r[j] = s[j]
      BY <1>1, <2>1, <2>4
    <3>2. CASE k = Len(s) + 1 /\ r[k] = f
      BY <1>4, <1>5, <3>1, <3>2 DEF FreeStops
    <3>3. CASE k \in 1..Len(s) /\ r[k] = s[k]
      BY <2>4, <3>1, <3>3 DEF FreeList, Apart
    <3> QED  BY <2>2, <3>2, <3>3
  <2>5. ASSUME NEW a  PROVE a \in ListCells(r) <=> a \in ListCells(s) \cup Cells(f)
    <3>1. Len(s) + 1 \in 1..Len(r) /\ r[Len(s) + 1] = f
      BY <1>1, <2>1
    <3>2. \A k \in 1..Len(s) : k \in 1..Len(r) /\ r[k] = s[k]
      BY <1>1, <2>1
    <3> QED  BY <2>2, <3>1, <3>2, InListCells
  <2>6. Released(s, f) = r
    BY <1>5 DEF Released, r
  <2> QED  BY <2>1, <2>3, <2>4, <2>5, <2>6 DEF FreeList, Apart
<1>6. CASE FreeStops(s, f) # {}
  <2> DEFINE i == FreeStop(s, f)
  <2>1. /\ i \in 1..Len(s) /\ StopsAt(s[i], f)
        /\ \A j \in 1..Len(s) : j < i => End(s[j]) < f.addr
    BY <1>1, <1>4, <1>6, FreeStopProperties
  <2> HIDE DEF i
  <2>2. i \in Nat /\ i >= 1 /\ i <= Len(s)
    BY <1>1, <2>1
  <2>3. \A j, k \in 1..Len(s) : j < k => End(s[j]) < s[k].addr
    BY DEF FreeList, Apart
  <2>4. CASE Touches(s[i], f)
    <3> DEFINE m == [s[i] EXCEPT !.size = @ + f.size]
               t == [s EXCEPT ![i].size = @ + f.size]
    <3>1. /\ m \in Node /\ m.addr = s[i].addr /\ m.size = s[i].size + f.size
      <4>1. s[i] \in Node /\ s[i].size \in Nat
        BY <1>1, <2>1
      <4> QED  BY <1>2, <4>1 DEF Node
    <3>2. t = [s EXCEPT ![i] = m]
      OBVIOUS
    <3> HIDE DEF m
    <3>3. End(s[i]) = f.addr /\ End(m) = End(f) /\ Sound(m)
      <4>1. s[i].addr \in Nat /\ s[i].size \in Nat /\ s[i].size >= NODE /\ s[i].addr + s[i].size = f.addr
        BY <1>1, <2>1, <2>4 DEF Touches
      <4> QED  BY <1>1, <1>2, <3>1, <4>1 DEF End, Sound
    <3>4. /\ t \in Seq(Node) /\ Len(t) = Len(s)
          /\ \A k \in 1..Len(s) : t[k] = IF k = i THEN m ELSE s[k]
      <4> HIDE DEF t
      <4> QED  BY <1>1, <2>1, <3>1, <3>2, ExceptSeq
    <3> HIDE DEF t
    <3>5. \A k \in 1..Len(t) : Sound(t[k])
      BY <1>1, <3>3, <3>4
    <3>6. ApartBut(t, i)
      <4> SUFFICES ASSUME NEW j \in 1..Len(t), NEW k \in 1..Len(t), j < k
                   PROVE  End(t[j]) <= t[k].addr /\ (End(t[j]) = t[k].addr => j = i /\ k = i + 1)
        BY DEF ApartBut
      <4>1. j \in 1..Len(s) /\ k \in 1..Len(s) /\ End(s[j]) < s[k].addr /\ t[k].addr = s[k].addr
        BY <2>3, <3>1, <3>4
      <4>2. End(s[j]) \in Nat /\ s[k].addr \in Nat
        BY <1>1, <4>1
      <4>3. CASE j # i
        BY <3>4, <4>1, <4>2, <4>3
      <4>4. CASE j = i
        <5>1. End(f) <= s[k].addr
          <6>1. End(s[k]) > s[k].addr /\ End(s[k]) \in Nat
            BY <1>1, <4>1
          <6> QED  BY <1>2, <1>3, <3>3, <4>1, <4>2, <4>4, <6>1
        <5>2. ASSUME k # i + 1  PROVE End(f) # s[k].addr
          <6>1. i + 1 \in 1..Len(s) /\ i + 1 < k /\ i < i + 1
            BY <1>1, <2>2, <4>1, <4>4, <5>2
          <6>2. /\ End(s[i]) < s[i + 1].addr /\ End(s[i + 1]) < s[k].addr
                /\ s[i + 1].addr < End(s[i + 1]) /\ s[i + 1].addr \in Nat /\ End(s[i + 1]) \in Nat
            BY <1>1, <2>1, <2>3, <4>1, <6>1
          <6>3. End(f) <= s[i + 1].addr
            BY <1>2, <1>3, <3>3, <6>1, <6>2, SMTT(30)
          <6> QED  BY <1>2, <4>2, <6>2, <6>3
        <5>3. End(t[j]) = End(f)
          BY <3>3, <3>4, <4>1, <4>4
        <5> QED  BY <1>2, <4>1, <4>4, <5>1, <5>2, <5>3
      <4> QED  BY <4>3, <4>4
    <3>7. FreeList(Joined(t, i)) /\ ListCells(Joined(t, i)) = ListCells(t)
      <4>1. i \in 1..Len(t)
        BY <2>1, <3>4
      <4> QED  BY <3>4, <3>5, <3>6, <4>1, JoinedProperties
    <3>8. ASSUME NEW a  PROVE a \in ListCells(t) <=> a \in ListCells(s) \cup Cells(f)
      <4>1. a \in Cells(m) <=> a \in Cells(s[i]) \/ a \in Cells(f)
        <5>1. /\ s[i] \in Node /\ s[i].addr \in Nat /\ s[i].addr < End(s[i])
          BY <1>1, <2>1
        <5> QED  BY <1>2, <3>1, <3>3, <5>1, InCells
      <4> QED  BY <2>1, <3>4, <4>1, InListCells
    <3>9. Released(s, f) = Joined(t, i)
      BY <1>6, <2>4 DEF Released, i, t
    <3> QED  BY <3>7, <3>8, <3>9
  <2>5. CASE ~Touches(s[i], f) /\ s[i].addr > f.addr
    <3> DEFINE t == InsertAt(s, i, f)
    <3>1. /\ t \in Seq(Node) /\ Len(t) = Len(s) + 1
          /\ \A k \in 1..(Len(s) + 1) : t[k] = IF k < i THEN s[k] ELSE IF k = i THEN f ELSE s[k - 1]
      <4>1. i \in 1..(Len(s) + 1)
        BY <1>1, <2>2
      <4> QED  BY <1>1, <1>2, <4>1, InsertAtProperties
    <3> HIDE DEF t
    <3> DEFINE Place(k) ==
                 \/ k < i /\ k \in 1..Len(s) /\ t[k] = s[k]
                 \/ k = i /\ t[k] = f
                 \/ k > i /\ k - 1 \in 1..Len(s) /\ t[k] = s[k - 1]
    <3>2. ASSUME NEW k \in 1..Len(t)  PROVE Place(k)
      <4>1. CASE k < i
        BY <1>1, <2>2, <3>1, <4>1
      <4>2. CASE k = i
        BY <1>1, <2>2, <3>1, <4>2
      <4>3. CASE k > i
        BY <1>1, <2>2, <3>1, <4>3
      <4> QED  BY <2>2, <3>1, <4>1, <4>2, <4>3
    <3>3. \A k \in 1..Len(t) : Sound(t[k])
      BY <1>1, <3>2
    <3>4. End(f) <= s[i].addr
      <4>1. s[i].addr \in Nat /\ End(s[i]) \in Nat /\ s[i].addr < End(s[i])
        BY <1>1, <2>1
      <4> QED  BY <1>2, <1>3, <2>1, <2>5, <4>1
    <3>5. ApartBut(t, i)
      <4> SUFFICES ASSUME NEW j \in 1..Len(t), NEW k \in 1..Len(t), j < k
                   PROVE  End(t[j]) <= t[k].addr /\ (End(t[j]) = t[k].addr => j = i /\ k = i + 1)
        BY DEF ApartBut
      <4>1. Place(j) /\ Place(k) /\ j \in Nat /\ k \in Nat
        <5> HIDE DEF Place
        <5> QED  BY <1>1, <3>1, <3>2
      <4>2. CASE j = i /\ t[j] = f
        <5>1. k - 1 \in 1..Len(s) /\ t[k] = s[k - 1] /\ k - 1 >= i
          BY <2>2, <4>1, <4>2
        <5>2. CASE k - 1 = i
          <6>1. k = i + 1
            BY <2>2, <4>1, <5>2
          <6> QED  BY <3>4, <4>2, <5>1, <5>2, <6>1
        <5>3. CASE k - 1 > i
          <6>1. End(s[i]) < s[k - 1].addr
            BY <2>1, <2>3, <5>1, <5>3
          <6>2. /\ s[i].addr \in Nat /\ End(s[i]) \in Nat /\ s[i].addr < End(s[i]) /\ s[k - 1].addr \in Nat
            BY <1>1, <2>1, <5>1
          <6>3. End(f) < s[k - 1].addr
            BY <1>2, <3>4, <6>1, <6>2
          <6> QED  BY <1>2, <4>2, <5>1, <6>2, <6>3
        <5> QED  BY <2>2, <4>1, <5>1, <5>2, <5>3
      <4>3. CASE j < i /\ j \in 1..Len(s) /\ t[j] = s[j]
        <5>1. End(s[j]) \in Nat /\ End(s[j]) < f.addr
          BY <1>1, <2>1, <4>3
        <5>2. CASE k = i /\ t[k] = f
          BY <1>2, <4>3, <5>1, <5>2
        <5>3. CASE k < i /\ k \in 1..Len(s) /\ t[k] = s[k]
          <6>1. End(s[j]) < s[k].addr /\ s[k].addr \in Nat
            BY <1>1, <2>3, <4>3, <5>3
          <6> QED  BY <4>3, <5>1, <5>3, <6>1
        <5>4. CASE k > i /\ k - 1 \in 1..Len(s) /\ t[k] = s[k - 1]
          <6>1. j < k - 1
            BY <2>2, <4>1, <4>3, <5>4
          <6>2. End(s[j]) < s[k - 1].addr /\ s[k - 1].addr \in Nat
            BY <1>1, <2>3, <4>3, <5>4, <6>1
          <6> QED  BY <4>3, <5>1, <5>4, <6>2
        <5> QED  BY <4>1, <5>2, <5>3, <5>4
      <4>4. CASE j > i /\ j - 1 \in 1..Len(s) /\ t[j] = s[j - 1]
        <5>1. k - 1 \in 1..Len(s) /\ t[k] = s[k - 1] /\ j - 1 < k - 1
          BY <2>2, <4>1, <4>4
        <5>2. End(s[j - 1]) < s[k - 1].addr /\ End(s[j - 1]) \in Nat /\ s[k - 1].addr \in Nat
          BY <1>1, <2>3, <4>4, <5>1
        <5> QED  BY <4>4, <5>1, <5>2
      <4> QED  BY <4>1, <4>2, <4>3, <4>4
    <3>6. FreeList(Joined(t, i)) /\ ListCells(Joined(t, i)) = ListCells(t)
      <4>1. i \in 1..Len(t)
        BY <1>1, <2>2, <3>1
      <4> QED  BY <3>1, <3>3, <3>5, <4>1, JoinedProperties
    <3>7. ASSUME NEW a  PROVE a \in ListCells(t) <=> a \in ListCells(s) \cup Cells(f)
      <4>1. \A k \in 1..Len(t) : t[k] = f \/ \E j \in 1..Len(s) : t[k] = s[j]
        BY <3>2
      <4>2. i \in 1..Len(t) /\ t[i] = f
        BY <1>1, <2>2, <3>1
      <4>3. ASSUME NEW j \in 1..Len(s)  PROVE \E k \in 1..Len(t) : t[k] = s[j]
        <5>1. CASE j < i
          <6>1. j \in 1..Len(t) /\ t[j] = s[j]
            BY <1>1, <2>2, <3>1, <5>1
          <6> QED  BY <6>1
        <5>2. CASE j >= i
          <6>1. j + 1 \in 1..Len(t) /\ ~(j + 1 < i) /\ j + 1 # i /\ (j + 1) - 1 = j
            BY <1>1, <2>2, <3>1, <5>2
          <6>2. t[j + 1] = s[j]
            BY <3>1, <6>1
          <6> QED  BY <6>1, <6>2
        <5> QED  BY <1>1, <2>2, <5>1, <5>2
      <4> QED  BY <4>1, <4>2, <4>3, InListCells
    <3>8. Released(s, f) = Joined(t, i)
      BY <1>6, <2>5 DEF Released, i, t
    <3> QED  BY <3>6, <3>7, <3>8
  <2>6. Touches(s[i], f) \/ s[i].addr > f.addr
    <3>1. s[i].addr \in Nat /\ s[i].size \in Nat /\ End(s[i]) = s[i].addr + s[i].size
      BY <1>1, <2>1 DEF End
    <3> QED  BY <1>2, <1>3, <2>1, <3>1 DEF StopsAt
  <2> QED  BY <2>4, <2>5, <2>6
<1> QED
  BY <1>5, <1>6

\* No cell belongs to two nodes of a free list.
LEMMA ListDisjoint ==
    ASSUME NEW s, FreeList(s), NEW j \in 1..Len(s), NEW k \in 1..Len(s), j # k
    PROVE  Cells(s[j]) \cap Cells(s[k]) = {}
<1>1. /\ s[j] \in Node /\ s[k] \in Node /\ s[j].addr \in Nat /\ s[k].addr \in Nat
      /\ s[j].size \in Nat /\ s[k].size \in Nat
  BY DEF FreeList, Sound, Node
<1>2. End(s[j]) \in Nat /\ End(s[k]) \in Nat
  BY <1>1, SMTT(30) DEF End
<1>3. End(s[j]) < s[k].addr \/ End(s[k]) < s[j].addr
  BY DEF FreeList, Apart
<1> QED
  BY <1>1, <1>2, <1>3, InCells

\* Taking memory from a free node splits its cells between the node that is
\* handed out and the free list.
LEMMA TakeProperties ==
    ASSUME NEW s, FreeList(s), NEW i \in 1..Len(s), NEW need \in Nat,
           need >= 1, s[i].size >= need
    PROVE  /\ FreeList(TakeFrom(s, i, need))
           /\ Taken(s[i], need) \in Node
           /\ Taken(s[i], need).addr = s[i].addr
           /\ Taken(s[i], need).size >= need
           /\ Cells(Taken(s[i], need)) \cap ListCells(TakeFrom(s, i, need)) = {}
           /\ Cells(Taken(s[i], need)) \cup ListCells(TakeFrom(s, i, need)) = ListCells(s)
<1> DEFINE n == Taken(s[i], need)
           t == TakeFrom(s, i, need)
<1>1. /\ s \in Seq(Node) /\ Len(s) \in Nat
      /\ \A k \in 1..Len(s) : Sound(s[k]) /\ s[k] \in Node
      /\ \A k \in 1..Len(s) : s[k].addr \in Nat /\ s[k].size \in Nat /\ s[k].size >= NODE
      /\ NODE \in Nat /\ NODE >= 1
  BY HeapAssumption, LenProperties DEF FreeList, Sound, Node
<1>2. s[i] \in Node /\ s[i].addr \in Nat /\ s[i].size \in Nat
  BY <1>1
<1>3. \A j, k \in 1..Len(s) : j < k => End(s[j]) < s[k].addr
  BY DEF FreeList, Apart
<1>4. \A k \in 1..Len(s) : k # i => Cells(s[k]) \cap Cells(s[i]) = {}
  BY ListDisjoint
<1>5. CASE Splits(s[i], need)
  <2> DEFINE m == Rest(s[i], need)
  <2>1. /\ m \in Node /\ m.addr = s[i].addr + need /\ m.size = s[i].size - need
        /\ m.size >= NODE
    BY <1>1, <1>2, <1>5, SMTT(30) DEF Rest, Splits, Node
  <2>2. n \in Node /\ n.addr = s[i].addr /\ n.size = need
    BY <1>2, <1>5 DEF Taken, Node
  <2>3. t = [s EXCEPT ![i] = m]
    BY <1>5 DEF TakeFrom
  <2> HIDE DEF m, n
  <2>4. /\ t \in Seq(Node) /\ Len(t) = Len(s)
        /\ \A k \in 1..Len(s) : t[k] = IF k = i THEN m ELSE s[k]
    <3> HIDE DEF t
    <3> QED  BY <1>1, <2>1, <2>3, ExceptSeq
  <2> HIDE DEF t
  <2>5. Sound(m) /\ End(m) = End(s[i]) /\ s[i].addr <= m.addr
    BY <1>2, <2>1 DEF Sound, End
  <2>6. FreeList(t)
    <3>1. \A k \in 1..Len(t) : Sound(t[k])
      BY <1>1, <2>4, <2>5
    <3>2. ASSUME NEW j \in 1..Len(t), NEW k \in 1..Len(t), j < k
          PROVE  End(t[j]) < t[k].addr
      <4>1. j \in 1..Len(s) /\ k \in 1..Len(s) /\ End(s[j]) < s[k].addr
        BY <1>3, <2>4, <3>2
      <4>2. End(t[j]) = End(s[j])
        BY <2>4, <2>5, <4>1
      <4>3. s[k].addr <= t[k].addr
        <5>1. t[k] = IF k = i THEN m ELSE s[k]
          BY <2>4, <4>1
        <5>2. s[k].addr \in Nat
          BY <1>1, <4>1
        <5> QED  BY <2>5, <5>1, <5>2
      <4>4. End(s[j]) \in Nat /\ s[k].addr \in Nat /\ t[k].addr \in Nat
        <5>1. s[j] \in Node /\ s[k] \in Node
          BY <1>1, <4>1
        <5>2. t[k] \in Node
          BY <2>4, <4>1, ElementOfSeq
        <5> QED  BY <5>1, <5>2, NodeType
      <4> QED  BY <4>1, <4>2, <4>3, <4>4
    <3> QED  BY <2>4, <3>1, <3>2 DEF FreeList, Apart
  <2>7. ASSUME NEW a
        PROVE  /\ a \in Cells(s[i]) <=> a \in Cells(n) \/ a \in Cells(m)
               /\ ~(a \in Cells(n) /\ a \in Cells(m))
    BY <1>2, <2>1, <2>2, InCells, SMTT(30) DEF End
  <2>8. ASSUME NEW a
        PROVE  a \in ListCells(t) <=> \/ a \in Cells(m)
                                      \/ \E k \in 1..Len(s) : k # i /\ a \in Cells(s[k])
    BY <2>4, InListCells
  <2>9. ASSUME NEW a \in Cells(n)  PROVE a \notin ListCells(t)
    BY <1>4, <2>7, <2>8
  <2>10. ASSUME NEW a  PROVE a \in Cells(n) \/ a \in ListCells(t) <=> a \in ListCells(s)
    BY <2>7, <2>8, InListCells
  <2> QED  BY <2>2, <2>6, <2>9, <2>10 DEF n, t
<1>6. CASE ~Splits(s[i], need)
  <2>1. n = s[i]
    BY <1>6 DEF Taken
  <2>2. t = RemoveAt(s, i)
    BY <1>6 DEF TakeFrom
  <2> HIDE DEF n, t
  <2>3. /\ t \in Seq(Node) /\ Len(t) = Len(s) - 1
        /\ \A k \in 1..(Len(s) - 1) : t[k] = IF k < i THEN s[k] ELSE s[k + 1]
    BY <1>1, <2>2, RemoveAtProperties
  <2>4. ASSUME NEW k \in 1..Len(t)
        PROVE  \/ k < i /\ k \in 1..Len(s) /\ t[k] = s[k]
               \/ k >= i /\ k + 1 \in 1..Len(s) /\ t[k] = s[k + 1]
    BY <1>1, <2>3
  <2>5. FreeList(t)
    <3>1. \A k \in 1..Len(t) : Sound(t[k])
      BY <1>1, <2>4
    <3>2. ASSUME NEW j \in 1..Len(t), NEW k \in 1..Len(t), j < k
          PROVE  End(t[j]) < t[k].addr
      <4> DEFINE a == IF j < i THEN j ELSE j + 1
                 b == IF k < i THEN k ELSE k + 1
      <4>1. a \in 1..Len(s) /\ b \in 1..Len(s) /\ a < b
        BY <1>1, <2>3, <3>2
      <4>2. t[j] = s[a] /\ t[k] = s[b]
        BY <1>1, <2>3
      <4> QED  BY <1>3, <4>1, <4>2
    <3> QED  BY <2>3, <3>1, <3>2 DEF FreeList, Apart
  <2>6. ASSUME NEW a
        PROVE  a \in ListCells(t) <=> \E k \in 1..Len(s) : k # i /\ a \in Cells(s[k])
    <3>1. ASSUME NEW k \in 1..Len(t), a \in Cells(t[k])
          PROVE  \E j \in 1..Len(s) : j # i /\ a \in Cells(s[j])
      <4>1. CASE k < i /\ k \in 1..Len(s) /\ t[k] = s[k]
        BY <3>1, <4>1
      <4>2. CASE k >= i /\ k + 1 \in 1..Len(s) /\ t[k] = s[k + 1]
        <5>1. k + 1 # i
          BY <1>1, <2>3, <4>2
        <5> QED  BY <3>1, <4>2, <5>1
      <4> QED  BY <2>4, <4>1, <4>2
    <3>2. ASSUME NEW j \in 1..Len(s), j # i, a \in Cells(s[j])
          PROVE  \E k \in 1..Len(t) : a \in Cells(t[k])
      <4>1. CASE j < i
        <5>1. j \in 1..Len(t) /\ t[j] = s[j]
          BY <1>1, <2>3, <4>1
        <5> QED  BY <3>2, <5>1
      <4>2. CASE j > i
        <5>1. j - 1 \in 1..Len(t) /\ ~(j - 1 < i) /\ (j - 1) + 1 = j
          BY <1>1, <2>3, <4>2
        <5>2. t[j - 1] = s[j]
          BY <2>3, <5>1
        <5> QED  BY <3>2, <5>1, <5>2
      <4> QED  BY <1>1, <3>2, <4>1, <4>2
    <3> QED  BY <3>1, <3>2, InListCells
  <2>7. ASSUME NEW a \in Cells(n)  PROVE a \notin ListCells(t)
    BY <1>4, <2>1, <2>6
  <2>8. ASSUME NEW a  PROVE a \in Cells(n) \/ a \in ListCells(t) <=> a \in ListCells(s)
    BY <2>1, <2>6, InListCells
  <2> QED  BY <1>2, <2>1, <2>5, <2>7, <2>8 DEF n, t
<1> QED
  BY <1>5, <1>6

\* The search of NutHeapRootAlloc ends at a node that fits.
LEMMA BestFitFits ==
    ASSUME NEW s \in Seq(Node), NEW need \in Nat, Allocates(s, need)
    PROVE  BestFit(s, need) \in 1..Len(s) /\ s[BestFit(s, need)].size >= need
<1> DEFINE S == {s[i].size : i \in Fits(s, need)}
<1>0. \A j \in Fits(s, need) : j \in Nat /\ s[j].size \in Nat
  <2> SUFFICES ASSUME NEW j \in Fits(s, need)  PROVE j \in Nat /\ s[j].size \in Nat
    OBVIOUS
  <2>1. j \in 1..Len(s) /\ s[j] \in Node
    BY DEF Fits
  <2> QED  BY <2>1 DEF Node
<1>1. S \in SUBSET Nat /\ S # {}
  BY <1>0 DEF Allocates
<1>2. PICK z \in S : \A y \in S : z <= y
  <2> HIDE DEF S
  <2> QED  BY <1>1, LeastNatural
<1> DEFINE I == {i \in Fits(s, need) : s[i].size = z}
<1>3. I \in SUBSET Nat /\ I # {}
  BY <1>0
<1>4. PICK i \in I : \A j \in I : i <= j
  <2> HIDE DEF I
  <2> QED  BY <1>3, LeastNatural
<1>5. s[i].size = z /\ i \in Fits(s, need)
  BY <1>4
<1>6. ASSUME NEW j \in Fits(s, need)
      PROVE  s[i].size < s[j].size \/ (s[i].size = s[j].size /\ i <= j)
  <2>1. z <= s[j].size /\ z \in Nat /\ s[j].size \in Nat
    BY <1>0, <1>2, <1>5
  <2>2. s[j].size = z => i <= j
    BY <1>4
  <2> QED  BY <1>5, <2>1, <2>2
<1>7. BestFit(s, need) \in Fits(s, need)
  BY <1>5, <1>6 DEF BestFit
<1> QED
  BY <1>7 DEF Fits

\* NutHeapRootAlloc hands out cells of the free list, enough of them, and
\* leaves the others.
LEMMA AllocProperties ==
    ASSUME NEW s, FreeList(s), NEW need \in Nat, need >= NODE, Allocates(s, need)
    PROVE  /\ FreeList(AllocLeaves(s, need))
           /\ Sound(Allocated(s, need))
           /\ Allocated(s, need).size >= need
           /\ Cells(Allocated(s, need)) \cap ListCells(AllocLeaves(s, need)) = {}
           /\ Cells(Allocated(s, need)) \cup ListCells(AllocLeaves(s, need)) = ListCells(s)
<1> DEFINE i == BestFit(s, need)
<1>1. i \in 1..Len(s) /\ s[i].size >= need
  BY BestFitFits DEF FreeList
<1>2. need >= 1 /\ NODE \in Nat
  BY HeapAssumption
<1> HIDE DEF i
<1>3. /\ FreeList(TakeFrom(s, i, need))
      /\ Taken(s[i], need) \in Node
      /\ Taken(s[i], need).size >= need
      /\ Cells(Taken(s[i], need)) \cap ListCells(TakeFrom(s, i, need)) = {}
      /\ Cells(Taken(s[i], need)) \cup ListCells(TakeFrom(s, i, need)) = ListCells(s)
  BY <1>1, <1>2, TakeProperties
<1>4. Sound(Taken(s[i], need))
  BY <1>2, <1>3 DEF Sound, Node
<1> QED
  BY <1>3, <1>4 DEF Allocated, AllocLeaves, i

-----------------------------------------------------------------------------
(***************************************************************************)
(* The invariant of the heap: the free list is sound, and the cells of the *)
(* added regions are divided between it and the blocks.                    *)
(***************************************************************************)
AddedCells == UNION {Cells(r) : r \in region}
UsedCells == UNION {Cells(block[o]) : o \in Owner}

HeapInv ==
    /\ FreeList(heapFreeList)
    /\ block \in [Owner -> Node]
    /\ \A o \in Owner : block[o] = None \/ Sound(block[o])
    /\ region \subseteq Region
    /\ AddedCells = ListCells(heapFreeList) \cup UsedCells
    /\ \A o \in Owner : Cells(block[o]) \cap ListCells(heapFreeList) = {}
    /\ \A o, p \in Owner : o # p => Cells(block[o]) \cap Cells(block[p]) = {}

LEMMA NoneHasNoCells == None \in Node /\ Cells(None) = {} /\ ~Sound(None)
  BY HeapAssumption DEF None, Node, Cells, Sound

\* Every call but NutHeapRootAdd exchanges cells between one block and the free
\* list, which neither lose nor gain any together.
LEMMA HeapExchange ==
    ASSUME HeapInv, NEW o \in Owner, NEW n \in Node, n = None \/ Sound(n),
           block' = [block EXCEPT ![o] = n], region' = region,
           FreeList(heapFreeList'),
           Cells(n) \cap ListCells(heapFreeList') = {},
           Cells(n) \cup ListCells(heapFreeList') = Cells(block[o]) \cup ListCells(heapFreeList)
    PROVE  HeapInv'
<1>1. /\ block' \in [Owner -> Node] /\ block'[o] = n
      /\ \A p \in Owner : p # o => block'[p] = block[p]
  BY DEF HeapInv
<1>2. \A p \in Owner : block'[p] = None \/ Sound(block'[p])
  BY <1>1 DEF HeapInv
<1>3. \A p \in Owner : p # o => /\ Cells(block[p]) \cap Cells(n) = {}
                                /\ Cells(block[p]) \cap ListCells(heapFreeList') = {}
  <2> SUFFICES ASSUME NEW p \in Owner, p # o
               PROVE  Cells(block[p]) \cap (Cells(n) \cup ListCells(heapFreeList')) = {}
    OBVIOUS
  <2>1. Cells(block[p]) \cap Cells(block[o]) = {} /\ Cells(block[p]) \cap ListCells(heapFreeList) = {}
    BY DEF HeapInv
  <2> QED  BY <2>1
<1>4. \A p \in Owner : Cells(block'[p]) \cap ListCells(heapFreeList') = {}
  BY <1>1, <1>3
<1>5. \A p, q \in Owner : p # q => Cells(block'[p]) \cap Cells(block'[q]) = {}
  <2> SUFFICES ASSUME NEW p \in Owner, NEW q \in Owner, p # q
               PROVE  Cells(block'[p]) \cap Cells(block'[q]) = {}
    OBVIOUS
  <2>1. CASE p = o
    BY <1>1, <1>3, <2>1
  <2>2. CASE q = o
    BY <1>1, <1>3, <2>2
  <2>3. CASE p # o /\ q # o
    BY <1>1, <2>3 DEF HeapInv
  <2> QED  BY <2>1, <2>2, <2>3
<1>6. AddedCells' = ListCells(heapFreeList') \cup UsedCells'
  <2>1. AddedCells' = ListCells(heapFreeList) \cup UsedCells
    BY DEF AddedCells, HeapInv
  <2>2. ASSUME NEW a
        PROVE  a \in UsedCells <=> \/ a \in Cells(block[o])
                                   \/ \E p \in Owner : p # o /\ a \in Cells(block[p])
    BY DEF UsedCells
  <2>3. ASSUME NEW a
        PROVE  a \in UsedCells' <=> \/ a \in Cells(n)
                                    \/ \E p \in Owner : p # o /\ a \in Cells(block[p])
    BY <1>1 DEF UsedCells
  <2> QED  BY <2>1, <2>2, <2>3
<1>7. FreeList(heapFreeList)' /\ ListCells(heapFreeList)' = ListCells(heapFreeList')
  BY DEF FreeList, ListCells, Apart, Sound, End, Cells
<1> QED
  BY <1>1, <1>2, <1>4, <1>5, <1>6, <1>7 DEF HeapInv, None, Sound, Cells

LEMMA HeapAddPreserves ==
    ASSUME HeapInv, NEW r \in Region, NutHeapRootAdd(r)
    PROVE  HeapInv'
<1>1. Sound(r) /\ region' \subseteq Region
  BY HeapAssumption DEF NutHeapRootAdd, HeapInv, Sound
<1>2. Cells(r) \cap AddedCells = {}
  BY HeapAssumption DEF NutHeapRootAdd, HeapInv, AddedCells
<1>3. Cells(r) \cap ListCells(heapFreeList) = {} /\ Cells(r) \cap UsedCells = {}
  BY <1>2 DEF HeapInv
<1>4. /\ FreeList(heapFreeList')
      /\ ListCells(heapFreeList') = ListCells(heapFreeList) \cup Cells(r)
  BY <1>1, <1>3, ReleasedProperties DEF NutHeapRootAdd, HeapInv
<1>5. \A o \in Owner : Cells(block[o]) \cap ListCells(heapFreeList') = {}
  BY <1>3, <1>4 DEF HeapInv, UsedCells
<1>6. AddedCells' = AddedCells \cup Cells(r)
  BY DEF AddedCells, NutHeapRootAdd
<1>7. block' = block /\ UsedCells' = UsedCells
  BY DEF NutHeapRootAdd, UsedCells
<1> QED
  BY <1>1, <1>4, <1>5, <1>6, <1>7 DEF HeapInv

LEMMA NeedProperties ==
    ASSUME NEW size \in Nat
    PROVE  Need(size) \in Nat /\ Need(size) >= NODE
  BY HeapAssumption DEF Need

LEMMA HeapAllocPreserves ==
    ASSUME HeapInv, NEW o \in Owner, NEW size \in Nat, NutHeapRootAlloc(o, size)
    PROVE  /\ HeapInv'
           /\ \A p \in Owner : p # o => block'[p] = block[p]
<1> DEFINE need == Need(size)
<1>1. need \in Nat /\ need >= NODE
  BY NeedProperties
<1> HIDE DEF need
<1>2. CASE ~Allocates(heapFreeList, need)
  BY <1>2 DEF NutHeapRootAlloc, need, HeapInv, AddedCells, UsedCells
<1>3. CASE Allocates(heapFreeList, need)
  <2> DEFINE n == Allocated(heapFreeList, need)
  <2>1. /\ block' = [block EXCEPT ![o] = n] /\ region' = region
        /\ heapFreeList' = AllocLeaves(heapFreeList, need)
        /\ block[o] = None /\ block \in [Owner -> Node]
    BY <1>3 DEF NutHeapRootAlloc, need, HeapInv
  <2>2. /\ FreeList(heapFreeList') /\ Sound(n) /\ n \in Node
        /\ Cells(n) \cap ListCells(heapFreeList') = {}
        /\ Cells(n) \cup ListCells(heapFreeList') = ListCells(heapFreeList)
    BY <1>1, <1>3, <2>1, AllocProperties DEF HeapInv, Sound
  <2> HIDE DEF n
  <2>3. HeapInv'
    BY <2>1, <2>2, HeapExchange, NoneHasNoCells
  <2> QED  BY <2>1, <2>3
<1> QED
  BY <1>2, <1>3

LEMMA HeapFreePreserves ==
    ASSUME HeapInv, NEW o \in Owner, NutHeapRootFree(o)
    PROVE  /\ HeapInv'
           /\ block'[o] = None
           /\ \A p \in Owner : p # o => block'[p] = block[p]
<1>1. /\ block' = [block EXCEPT ![o] = None] /\ region' = region
      /\ heapFreeList' = Released(heapFreeList, block[o])
      /\ Sound(block[o]) /\ block \in [Owner -> Node]
      /\ Cells(block[o]) \cap ListCells(heapFreeList) = {}
      /\ FreeList(heapFreeList)
  BY DEF NutHeapRootFree, HeapInv
<1>2. /\ FreeList(heapFreeList')
      /\ ListCells(heapFreeList') = ListCells(heapFreeList) \cup Cells(block[o])
  BY <1>1, ReleasedProperties
<1>3. HeapInv'
  BY <1>1, <1>2, HeapExchange, NoneHasNoCells
<1> QED
  BY <1>1, <1>3

LEMMA HeapReallocPreserves ==
    ASSUME HeapInv, NEW o \in Owner, NEW sz \in Nat, NutHeapRootRealloc(o, sz)
    PROVE  /\ HeapInv'
           /\ \A p \in Owner : p # o => block'[p] = block[p]
<1> DEFINE size == Need(sz)
           f == block[o]
           s == heapFreeList
<1>1. /\ size \in Nat /\ size >= NODE /\ NODE \in Nat /\ NODE >= 1
  BY NeedProperties, HeapAssumption
<1>2. /\ Sound(f) /\ f \in Node /\ f.addr \in Nat /\ f.size \in Nat
      /\ FreeList(s) /\ Cells(f) \cap ListCells(s) = {}
      /\ block \in [Owner -> Node] /\ region' = region
  BY DEF HeapInv, NutHeapRootRealloc, Sound, Node
<1> HIDE DEF size
<1>3. CASE size > f.size /\ Follows(s, f, size - f.size) # {}
  <2> DEFINE miss == size - f.size
  <2>1. PICK i \in Follows(s, f, miss) :
           /\ block' = [block EXCEPT ![o].size = @ + Taken(s[i], miss).size]
           /\ heapFreeList' = TakeFrom(s, i, miss)
    BY <1>3 DEF NutHeapRootRealloc, Expand, size
  <2>2. i \in 1..Len(s) /\ s[i].size >= miss /\ Touches(f, s[i])
    BY DEF Follows
  <2>3. miss \in Nat /\ miss >= 1
    BY <1>1, <1>2, <1>3
  <2> HIDE DEF miss
  <2> DEFINE g == Taken(s[i], miss)
             n == [f EXCEPT !.size = @ + g.size]
  <2>4. /\ FreeList(heapFreeList') /\ g \in Node /\ g.addr = s[i].addr
        /\ Cells(g) \cap ListCells(heapFreeList') = {}
        /\ Cells(g) \cup ListCells(heapFreeList') = ListCells(s)
    BY <1>2, <2>1, <2>2, <2>3, TakeProperties
  <2> HIDE DEF g
  <2>5. n \in Node /\ n.addr = f.addr /\ n.size = f.size + g.size /\ Sound(n)
    BY <1>1, <1>2, <2>4 DEF Node, Sound
  <2>6. block' = [block EXCEPT ![o] = n]
    BY <2>1 DEF g
  <2> HIDE DEF n
  <2>7. Cells(n) = Cells(f) \cup Cells(g)
    <3>1. g.addr = f.addr + f.size /\ g.addr \in Nat /\ g.size \in Nat
      BY <2>2, <2>4 DEF Touches, Node
    <3>2. ASSUME NEW a  PROVE a \in Cells(n) <=> a \in Cells(f) \/ a \in Cells(g)
      BY <1>2, <2>4, <2>5, <3>1, InCells DEF End
    <3> QED  BY <3>2
  <2>8. Cells(n) \cap ListCells(heapFreeList') = {}
    BY <1>2, <2>4, <2>7
  <2>9. Cells(n) \cup ListCells(heapFreeList') = Cells(f) \cup ListCells(s)
    BY <2>4, <2>7
  <2>10. HeapInv'
    BY <1>2, <2>4, <2>5, <2>6, <2>8, <2>9, HeapExchange
  <2> QED  BY <1>2, <2>6, <2>10
<1>4. CASE size > f.size /\ Follows(s, f, size - f.size) = {} /\ Allocates(s, Need(size))
  <2> DEFINE n == Allocated(s, Need(size))
             t == AllocLeaves(s, Need(size))
  <2>1. block' = [block EXCEPT ![o] = n] /\ heapFreeList' = Released(t, f)
    BY <1>4 DEF NutHeapRootRealloc, Expand, size
  <2>2. /\ FreeList(t) /\ Sound(n) /\ n \in Node
        /\ Cells(n) \cap ListCells(t) = {} /\ Cells(n) \cup ListCells(t) = ListCells(s)
    BY <1>1, <1>2, <1>4, NeedProperties, AllocProperties DEF Sound
  <2> HIDE DEF n, t
  <2>3. Cells(f) \cap ListCells(t) = {} /\ Cells(f) \cap Cells(n) = {}
    BY <1>2, <2>2
  <2>4. FreeList(heapFreeList') /\ ListCells(heapFreeList') = ListCells(t) \cup Cells(f)
    BY <1>2, <2>1, <2>2, <2>3, ReleasedProperties
  <2>5. Cells(n) \cap ListCells(heapFreeList') = {}
    BY <2>2, <2>3, <2>4
  <2>6. Cells(n) \cup ListCells(heapFreeList') = Cells(f) \cup ListCells(s)
    BY <2>2, <2>4
  <2>7. HeapInv'
    BY <1>2, <2>1, <2>2, <2>4, <2>5, <2>6, HeapExchange
  <2> QED  BY <1>2, <2>1, <2>7
<1>5. CASE ~(size > f.size) /\ size < f.size - NODE
  <2> DEFINE m == Rest(f, size)
             n == [f EXCEPT !.size = size]
  <2>1. heapFreeList' = Released(s, m) /\ block' = [block EXCEPT ![o].size = size]
    BY <1>5 DEF NutHeapRootRealloc, Reduce, size
  <2>2. block' = [block EXCEPT ![o] = n]
    BY <2>1
  <2>3. /\ m \in Node /\ m.addr = f.addr + size /\ m.size = f.size - size /\ Sound(m)
        /\ n \in Node /\ n.addr = f.addr /\ n.size = size /\ Sound(n)
    BY <1>1, <1>2, <1>5 DEF Rest, Node, Sound
  <2> HIDE DEF m, n
  <2>4. ASSUME NEW a
        PROVE  /\ a \in Cells(f) <=> a \in Cells(n) \/ a \in Cells(m)
               /\ ~(a \in Cells(n) /\ a \in Cells(m))
    BY <1>1, <1>2, <1>5, <2>3, InCells DEF End
  <2>5. Cells(m) \cap ListCells(s) = {} /\ Cells(n) \cap ListCells(s) = {}
    BY <1>2, <2>4
  <2>6. FreeList(heapFreeList') /\ ListCells(heapFreeList') = ListCells(s) \cup Cells(m)
    BY <1>2, <2>1, <2>3, <2>5, ReleasedProperties
  <2>7. Cells(n) \cap ListCells(heapFreeList') = {}
    BY <2>4, <2>5, <2>6
  <2>8. Cells(n) \cup ListCells(heapFreeList') = Cells(f) \cup ListCells(s)
    BY <2>4, <2>6
  <2>9. HeapInv'
    BY <1>2, <2>2, <2>3, <2>6, <2>7, <2>8, HeapExchange
  <2> QED  BY <1>2, <2>2, <2>9
<1>6. CASE UNCHANGED <<block, heapFreeList>>
  BY <1>2, <1>6 DEF HeapInv, AddedCells, UsedCells
<1> QED
  BY <1>3, <1>4, <1>5, <1>6 DEF NutHeapRootRealloc, Expand, size

LEMMA HeapInitial == HeapInit => HeapInv
<1> SUFFICES ASSUME HeapInit PROVE HeapInv
  OBVIOUS
<1>1. FreeList(heapFreeList) /\ ListCells(heapFreeList) = {}
  BY DEF HeapInit, FreeList, Apart, ListCells
<1>2. block = [o \in Owner |-> None] /\ region = {}
  BY DEF HeapInit
<1> QED
  BY <1>1, <1>2, NoneHasNoCells DEF HeapInv, AddedCells, UsedCells

-----------------------------------------------------------------------------
(***************************************************************************)
(* The inductive invariant of threads and heap.  To StacksAccounted it adds *)
(* that no thread is linked twice into the run queue or the list of        *)
(* threads, that once started the idle thread is always ready, so that     *)
(* there is somebody to switch to, and that the running thread is ready.   *)
(***************************************************************************)
ThreadTypes ==
    /\ runningThread \in Thread \cup {NoThread}
    /\ killedThread \in Thread \cup {NoThread}
    /\ runQueue \in Seq(Thread) /\ IsInjective(runQueue)
    /\ nutThreadList \in Seq(Thread) /\ IsInjective(nutThreadList)
    /\ td_priority \in [Thread -> Nat]

Started ==
    IF runningThread = NoThread
      THEN runQueue = <<>> /\ nutThreadList = <<>> /\ killedThread = NoThread
      ELSE {runningThread, idle} \subseteq Range(runQueue)

IInv == HeapInv /\ ThreadTypes /\ Started /\ StacksAccounted

LEMMA Threads == Thread \subseteq Owner /\ idle \in Thread /\ NoThread \notin Thread
  BY ThreadAssumption

\* What a step does to threads and heap without a new or a dead thread: the
\* running thread, if it is not the idle thread, may leave the run queue, and
\* listed threads may join it.
LEMMA Reschedule ==
    ASSUME IInv, NEW q \in Seq(Thread), NutThreadSwitch(q), IsInjective(q),
           runningThread # NoThread, idle \in Range(q), Range(q) \subseteq Live,
           UNCHANGED <<heap, nutThreadList, killedThread>>,
           td_priority' \in [Thread -> Nat]
    PROVE  IInv' /\ block'[runningThread] # None
<1>1. /\ runQueue' = q /\ runningThread' = Head(q) /\ q # <<>>
      /\ Head(q) \in Thread /\ Head(q) \in Range(q)
  <2>1. q # <<>>
    BY EmptyChain
  <2> QED  BY <2>1, HeadInRange DEF NutThreadSwitch
<1>2. HeapInv' /\ Live' = Live
  BY DEF IInv, HeapInv, heap, AddedCells, UsedCells, Live
<1>3. ThreadTypes'
  BY <1>1 DEF IInv, ThreadTypes
<1>4. Started'
  BY <1>1, Threads DEF Started
<1>5. StacksAccounted'
  BY <1>1, <1>2 DEF IInv, StacksAccounted, heap
<1>6. block'[runningThread] # None
  BY DEF IInv, StacksAccounted, ThreadTypes, heap
<1> QED
  BY <1>2, <1>3, <1>4, <1>5, <1>6 DEF IInv

\* A new thread is linked in front of the list of threads.
LEMMA NewInList ==
    ASSUME NEW s \in Seq(Thread), NEW td \in Thread, IsInjective(s), td \notin Range(s)
    PROVE  /\ <<td>> \o s \in Seq(Thread)
           /\ IsInjective(<<td>> \o s)
           /\ Range(<<td>> \o s) = Range(s) \cup {td}
<1> DEFINE r == <<td>> \o s
<1>1. /\ r \in Seq(Thread) /\ Len(r) = Len(s) + 1 /\ Len(s) \in Nat
      /\ \A k \in 1..(Len(s) + 1) : r[k] = IF k = 1 THEN td ELSE s[k - 1]
  OBVIOUS
<1> HIDE DEF r
<1>2. /\ Range(r) = {r[k] : k \in 1..Len(r)}
      /\ Range(s) = {s[k] : k \in 1..Len(s)}
  BY <1>1, RangeOfChain
<1>3. ASSUME NEW k \in 1..Len(r)
      PROVE  (k = 1 /\ r[k] = td) \/ (k > 1 /\ k - 1 \in 1..Len(s) /\ r[k] = s[k - 1])
  BY <1>1
<1>4. ASSUME NEW j \in 1..Len(s)  PROVE j + 1 \in 1..Len(r) /\ r[j + 1] = s[j]
  BY <1>1
<1>5. 1 \in 1..Len(r) /\ r[1] = td
  BY <1>1
<1>6. Range(r) = Range(s) \cup {td}
  <2>1. ASSUME NEW x \in Range(r)  PROVE x \in Range(s) \cup {td}
    BY <1>2, <1>3
  <2>2. ASSUME NEW x \in Range(s) \cup {td}  PROVE x \in Range(r)
    BY <1>2, <1>4, <1>5
  <2> QED  BY <2>1, <2>2
<1>7. /\ \A k \in 1..Len(s) : s[k] # td
      /\ \A j, k \in 1..Len(s) : s[j] = s[k] => j = k
  BY <1>2, LenProperties DEF IsInjective
<1>8. ASSUME NEW j \in 1..Len(r), NEW k \in 1..Len(r), r[j] = r[k]
      PROVE  j = k
  <2>1. /\ (j = 1 /\ r[j] = td) \/ (j > 1 /\ j - 1 \in 1..Len(s) /\ r[j] = s[j - 1])
        /\ (k = 1 /\ r[k] = td) \/ (k > 1 /\ k - 1 \in 1..Len(s) /\ r[k] = s[k - 1])
        /\ j \in Nat /\ k \in Nat
    BY <1>1, <1>3
  <2> QED  BY <1>7, <1>8, <2>1
<1>9. IsInjective(r)
  BY <1>1, <1>8, LenProperties DEF IsInjective
<1> QED
  BY <1>1, <1>6, <1>9 DEF r

\* NutThreadCreate, by the idle thread or an application thread or, for the
\* idle thread, by NutInit.
LEMMA CreatePreserves ==
    ASSUME IInv, NEW td \in Thread, NEW size \in Nat, NutThreadCreate(td, size),
           runningThread = NoThread => td = idle
    PROVE  IInv' /\ (runningThread # NoThread => block'[runningThread] # None)
<1>1. /\ td \in Owner /\ NutHeapRootAlloc(td, size) /\ block[td] = None /\ killedThread' = killedThread
      /\ HeapInv
  BY Threads DEF NutThreadCreate, NutHeapRootAlloc, IInv
<1>2. HeapInv' /\ \A p \in Owner : p # td => block'[p] = block[p]
  BY <1>1, HeapAllocPreserves
<1>3. td \notin Live /\ td # killedThread /\ td # runningThread /\ td \notin Range(runQueue)
  BY <1>1, Threads DEF IInv, StacksAccounted
<1>4. runningThread # NoThread => block'[runningThread] # None
  BY <1>2, <1>3, Threads DEF IInv, StacksAccounted, ThreadTypes
<1>5. CASE block'[td] = None
  <2>1. UNCHANGED <<nutThreadList, td_priority, runQueue, runningThread, killedThread>>
    BY <1>5 DEF NutThreadCreate
  <2>2. {t \in Thread : block'[t] # None} = {t \in Thread : block[t] # None}
    BY <1>1, <1>2, <1>5, Threads
  <2> QED  BY <1>2, <1>4, <2>1, <2>2 DEF IInv, ThreadTypes, Started, StacksAccounted, Live
<1>6. CASE block'[td] # None
  <2> DEFINE prio == [td_priority EXCEPT ![td] = 64]
             q == AddPriQueue(runQueue, td, prio)
  <2>1. /\ nutThreadList' = <<td>> \o nutThreadList /\ td_priority' = prio
        /\ NutThreadSwitch(q)
    BY <1>6 DEF NutThreadCreate, CreateQueue
  <2>2. prio \in [Thread -> Nat] /\ runQueue \in Seq(Thread) /\ IsInjective(runQueue)
    BY DEF IInv, ThreadTypes
  <2> HIDE DEF prio
  <2>3. /\ q \in Seq(Thread) /\ IsInjective(q) /\ Range(q) = Range(runQueue) \cup {td}
    BY <1>3, <2>2, AddPriQueueType, AddPriQueueInjective
  <2> HIDE DEF q
  <2>4. /\ nutThreadList' \in Seq(Thread) /\ IsInjective(nutThreadList')
        /\ Live' = Live \cup {td}
    BY <1>3, <2>1, NewInList DEF IInv, ThreadTypes, Live
  <2>5. /\ runQueue' = q /\ runningThread' = Head(q)
        /\ Head(q) \in Thread /\ Head(q) \in Range(q)
    <3>1. q # <<>>
      BY <2>3, EmptyChain
    <3> QED  BY <2>1, <2>3, <3>1, HeadInRange DEF NutThreadSwitch
  <2>6. idle \in Range(q)
    BY <2>3 DEF IInv, Started
  <2>7. {t \in Thread : block'[t] # None} = {t \in Thread : block[t] # None} \cup {td}
    BY <1>2, <1>6, Threads
  <2>8. ThreadTypes'
    BY <1>1, <2>1, <2>2, <2>3, <2>4, <2>5 DEF IInv, ThreadTypes
  <2>9. Started'
    BY <2>5, <2>6, Threads DEF Started
  <2>10. StacksAccounted'
    BY <1>1, <1>3, <2>3, <2>4, <2>5, <2>7 DEF IInv, StacksAccounted
  <2> QED  BY <1>2, <1>4, <2>8, <2>9, <2>10 DEF IInv
<1> QED
  BY <1>5, <1>6

\* The cleanup of NutThreadDestroy and NutThreadKill releases the memory of the
\* thread killed last and of no other one.
LEMMA FreeKilledPreserves ==
    ASSUME IInv, FreeKilled
    PROVE  /\ HeapInv'
           /\ {t \in Thread : block'[t] # None} = Live
<1>1. CASE killedThread = NoThread
  <2>1. UNCHANGED heap
    BY <1>1 DEF FreeKilled
  <2> QED  BY <1>1, <2>1 DEF heap, IInv, HeapInv, AddedCells, UsedCells, StacksAccounted
<1>2. CASE killedThread # NoThread
  <2>1. killedThread \in Owner /\ NutHeapRootFree(killedThread) /\ HeapInv
    BY <1>2, Threads DEF FreeKilled, IInv, ThreadTypes
  <2>2. /\ HeapInv' /\ block'[killedThread] = None
        /\ \A p \in Owner : p # killedThread => block'[p] = block[p]
    BY <2>1, HeapFreePreserves
  <2>3. {t \in Thread : block'[t] # None} = {t \in Thread : block[t] # None} \ {killedThread}
    BY <2>2, Threads
  <2> QED  BY <2>2, <2>3 DEF IInv, StacksAccounted
<1> QED
  BY <1>1, <1>2

LEMMA DestroyPreserves ==
    ASSUME IInv, NutThreadDestroy, runningThread # NoThread
    PROVE  IInv' /\ block'[runningThread] # None
<1>1. /\ FreeKilled /\ killedThread' = NoThread
      /\ UNCHANGED <<runningThread, runQueue, nutThreadList, td_priority>>
  BY DEF NutThreadDestroy
<1>2. HeapInv' /\ {t \in Thread : block'[t] # None} = Live /\ Live' = Live
  BY <1>1, FreeKilledPreserves DEF Live
<1>3. ThreadTypes' /\ Started'
  BY <1>1 DEF IInv, ThreadTypes, Started
<1>4. StacksAccounted'
  <2>1. NoThread \notin Live
    BY Threads DEF IInv, StacksAccounted, ThreadTypes
  <2> QED  BY <1>1, <1>2, <2>1 DEF IInv, StacksAccounted
<1>5. runningThread \in {t \in Thread : block'[t] # None}
  BY <1>2 DEF IInv, StacksAccounted
<1> QED
  BY <1>2, <1>3, <1>4, <1>5 DEF IInv

\* The run queue without the running thread.
LEMMA OthersReadyProperties ==
    ASSUME IInv
    PROVE  /\ OthersReady \in Seq(Thread) /\ IsInjective(OthersReady)
           /\ Range(OthersReady) = Range(runQueue) \ {runningThread}
  BY RemoveQueueInjective DEF IInv, ThreadTypes, OthersReady

\* The run queue with the running thread back in it.
LEMMA RequeueProperties ==
    ASSUME IInv, runningThread # NoThread, NEW prio \in [Thread -> Nat]
    PROVE  LET q == AddPriQueue(OthersReady, runningThread, prio)
           IN  q \in Seq(Thread) /\ IsInjective(q) /\ Range(q) = Range(runQueue)
<1>1. runningThread \in Thread /\ runningThread \in Range(runQueue)
  BY DEF IInv, ThreadTypes, Started
<1>2. /\ OthersReady \in Seq(Thread) /\ IsInjective(OthersReady)
      /\ Range(OthersReady) = Range(runQueue) \ {runningThread}
  BY OthersReadyProperties
<1> DEFINE o == OthersReady
           q == AddPriQueue(o, runningThread, prio)
<1> HIDE DEF o
<1>3. q \in Seq(Thread) /\ IsInjective(q) /\ Range(q) = Range(OthersReady) \cup {runningThread}
  <2>1. o \in Seq(Thread) /\ IsInjective(o) /\ runningThread \notin Range(o)
    BY <1>2 DEF o
  <2>2. Range(o) = Range(OthersReady)
    BY DEF o
  <2>3. q \in Seq(Thread) /\ Range(q) = Range(o) \cup {runningThread}
    BY <1>1, <2>1, AddPriQueueType
  <2>4. IsInjective(q)
    BY <1>1, <2>1, AddPriQueueInjective
  <2> QED  BY <2>2, <2>3, <2>4
<1> QED
  BY <1>1, <1>2, <1>3 DEF o

LEMMA ReadyThreads ==
    ASSUME IInv, runningThread # NoThread
    PROVE  /\ idle \in Range(runQueue) /\ Range(runQueue) \subseteq Live
           /\ runQueue \in Seq(Thread) /\ IsInjective(runQueue)
           /\ td_priority \in [Thread -> Nat]
  BY DEF IInv, ThreadTypes, Started, StacksAccounted

LEMMA SetPriorityPreserves ==
    ASSUME IInv, runningThread # NoThread, NEW level \in Nat, level < 255,
           NutThreadSetPriority(level)
    PROVE  IInv' /\ block'[runningThread] # None
<1> DEFINE prio == [td_priority EXCEPT ![runningThread] = level]
           q == AddPriQueue(OthersReady, runningThread, prio)
<1>1. prio \in [Thread -> Nat]
  BY ReadyThreads
<1>2. /\ td_priority' = prio /\ NutThreadSwitch(q)
      /\ UNCHANGED <<heap, nutThreadList, killedThread>>
  BY DEF NutThreadSetPriority, Requeue
<1> HIDE DEF prio
<1>3. q \in Seq(Thread) /\ IsInjective(q) /\ Range(q) = Range(runQueue)
  BY <1>1, RequeueProperties
<1> HIDE DEF q
<1> QED
  BY <1>1, <1>2, <1>3, ReadyThreads, Reschedule

\* A thread that ends is listed no more, keeps its memory until the next
\* cleanup and leaves at least the idle thread to switch to.
LEMMA ExitPreserves ==
    ASSUME IInv, runningThread \notin {idle, NoThread}, NutThreadExit
    PROVE  IInv' /\ block'[runningThread] # None
<1>1. /\ td_priority' = [td_priority EXCEPT ![runningThread] = 255]
      /\ runQueue' = OthersReady /\ runningThread' = Head(OthersReady)
      /\ FreeKilled /\ killedThread' = runningThread
      /\ nutThreadList' = RemoveQueue(nutThreadList, runningThread)
  BY DEF NutThreadExit, NutThreadSetPriority, NutThreadSwitch, NutThreadKill, RemoveQueue
<1>2. HeapInv' /\ {t \in Thread : block'[t] # None} = Live
  BY <1>1, FreeKilledPreserves
<1>3. /\ OthersReady \in Seq(Thread) /\ IsInjective(OthersReady)
      /\ Range(OthersReady) = Range(runQueue) \ {runningThread}
      /\ idle \in Range(OthersReady)
  BY OthersReadyProperties, ReadyThreads
<1>4. Head(OthersReady) \in Thread /\ Head(OthersReady) \in Range(OthersReady)
  <2>1. OthersReady # <<>>
    BY <1>3, EmptyChain
  <2> QED  BY <1>3, <2>1, HeadInRange
<1>5. /\ nutThreadList' \in Seq(Thread) /\ IsInjective(nutThreadList')
      /\ Live' = Live \ {runningThread}
  BY <1>1, RemoveQueueInjective DEF IInv, ThreadTypes, Live
<1>6. runningThread \in Thread /\ runningThread \in Live
  BY DEF IInv, ThreadTypes, StacksAccounted
<1>7. ThreadTypes'
  BY <1>1, <1>3, <1>4, <1>5, <1>6 DEF IInv, ThreadTypes
<1>8. Started'
  BY <1>1, <1>3, <1>4, Threads DEF Started
<1>9. StacksAccounted'
  BY <1>1, <1>2, <1>3, <1>4, <1>5, <1>6 DEF IInv, StacksAccounted
<1>10. block'[runningThread] # None
  BY <1>2, <1>6
<1> QED
  BY <1>2, <1>7, <1>8, <1>9, <1>10 DEF IInv

\* NutThreadYield, NutEventWait (not by the idle thread) and the wake-up.
LEMMA SwitchPreserves ==
    ASSUME IInv, runningThread # NoThread,
           \/ NutThreadYield
           \/ NutEventWait /\ runningThread # idle
           \/ \E td \in Thread : NutThreadWake(td)
    PROVE  IInv' /\ block'[runningThread] # None
<1>1. CASE NutThreadYield
  <2> DEFINE q == IF Len(runQueue) = 1 THEN runQueue
                  ELSE AddPriQueue(OthersReady, runningThread, td_priority)
  <2>1. q \in Seq(Thread) /\ IsInjective(q) /\ Range(q) = Range(runQueue)
    BY ReadyThreads, RequeueProperties
  <2>2. NutThreadSwitch(q) /\ UNCHANGED <<heap, nutThreadList, killedThread, td_priority>>
    BY <1>1 DEF NutThreadYield
  <2> HIDE DEF q
  <2> QED  BY <2>1, <2>2, ReadyThreads, Reschedule
<1>2. CASE NutEventWait /\ runningThread # idle
  <2>1. NutThreadSwitch(OthersReady) /\ UNCHANGED <<heap, nutThreadList, killedThread, td_priority>>
    BY <1>2 DEF NutEventWait
  <2>2. /\ OthersReady \in Seq(Thread) /\ IsInjective(OthersReady)
        /\ idle \in Range(OthersReady) /\ Range(OthersReady) \subseteq Live
    BY <1>2, OthersReadyProperties, ReadyThreads
  <2> QED  BY <2>1, <2>2, ReadyThreads, Reschedule
<1>3. ASSUME NEW td \in Thread, NutThreadWake(td)
      PROVE  IInv' /\ block'[runningThread] # None
  <2> DEFINE q == AddPriQueue(runQueue, td, td_priority)
  <2>1. /\ NutThreadSwitch(q) /\ UNCHANGED <<heap, nutThreadList, killedThread, td_priority>>
        /\ td \in Live /\ td \notin Range(runQueue)
    BY <1>3 DEF NutThreadWake, Live
  <2>2. q \in Seq(Thread) /\ IsInjective(q) /\ Range(q) = Range(runQueue) \cup {td}
    BY <2>1, ReadyThreads, AddPriQueueType, AddPriQueueInjective
  <2> HIDE DEF q
  <2> QED  BY <2>1, <2>2, ReadyThreads, Reschedule
<1> QED
  BY <1>1, <1>2, <1>3

\* Heap calls for other memory than that of threads.
LEMMA OtherHeapCalls ==
    ASSUME IInv, UNCHANGED threads, HeapInv', \A t \in Thread : block'[t] = block[t]
    PROVE  IInv' /\ (runningThread # NoThread => block'[runningThread] # None)
<1>1. {t \in Thread : block'[t] # None} = {t \in Thread : block[t] # None}
  OBVIOUS
<1> QED
  BY <1>1 DEF IInv, threads, ThreadTypes, Started, StacksAccounted, Live

LEMMA HeapNextPreserves ==
    ASSUME IInv, HeapNext(Owner \ Thread)
    PROVE  HeapInv' /\ \A t \in Thread : block'[t] = block[t]
<1>1. HeapInv
  BY DEF IInv
<1>2. ASSUME NEW r \in Region, NutHeapRootAdd(r)
      PROVE  HeapInv' /\ \A t \in Thread : block'[t] = block[t]
  BY <1>1, <1>2, HeapAddPreserves DEF NutHeapRootAdd
<1>3. ASSUME NEW o \in Owner \ Thread, NutHeapRootFree(o)
      PROVE  HeapInv' /\ \A t \in Thread : block'[t] = block[t]
  BY <1>1, <1>3, HeapFreePreserves, Threads
<1>4. ASSUME NEW o \in Owner \ Thread, NEW size \in 0..MaxSize, NutHeapRootAlloc(o, size)
      PROVE  HeapInv' /\ \A t \in Thread : block'[t] = block[t]
  <2>1. size \in Nat
    BY HeapAssumption
  <2> QED  BY <1>1, <1>4, <2>1, HeapAllocPreserves, Threads
<1>5. ASSUME NEW o \in Owner \ Thread, NEW size \in 1..MaxSize, NutHeapRootRealloc(o, size)
      PROVE  HeapInv' /\ \A t \in Thread : block'[t] = block[t]
  <2>1. size \in Nat
    BY HeapAssumption
  <2> QED  BY <1>1, <1>5, <2>1, HeapReallocPreserves, Threads
<1> QED
  BY <1>2, <1>3, <1>4, <1>5 DEF HeapNext

LEMMA ThreadStep ==
    ASSUME IInv, [Next]_vars
    PROVE  IInv' /\ (runningThread # NoThread => block'[runningThread] # None)
<1> DEFINE Kept == IInv' /\ (runningThread # NoThread => block'[runningThread] # None)
<1>1. \A size \in StackSize : size \in Nat
  BY ThreadAssumption
<1>2. CASE NutInit
  <2>1. ASSUME NEW r \in Region, NutHeapRootAdd(r), UNCHANGED threads
        PROVE  Kept
    <3>1. HeapInv' /\ block' = block
      BY <2>1, HeapAddPreserves DEF IInv, NutHeapRootAdd
    <3> QED  BY <2>1, <3>1, OtherHeapCalls
  <2>2. ASSUME NEW size \in StackSize, NutThreadCreate(idle, size)
        PROVE  Kept
    BY <1>1, <2>2, CreatePreserves, Threads
  <2> QED  BY <1>2, <2>1, <2>2 DEF NutInit
<1>3. CASE NutIdle
  <2>1. runningThread = idle /\ runningThread # NoThread
    BY <1>3, Threads DEF NutIdle
  <2>2. ASSUME NEW td \in Thread, NEW size \in StackSize, NutThreadCreate(td, size)
        PROVE  Kept
    BY <1>1, <2>1, <2>2, CreatePreserves
  <2>3. NutThreadSetPriority(254) => Kept
    BY <2>1, SetPriorityPreserves
  <2>4. NutThreadYield \/ (\E td \in Thread : NutThreadWake(td)) => Kept
    BY <2>1, SwitchPreserves
  <2>5. NutThreadDestroy => Kept
    BY <2>1, DestroyPreserves
  <2> QED  BY <1>3, <2>2, <2>3, <2>4, <2>5 DEF NutIdle
<1>4. CASE Application
  <2>1. runningThread \notin {idle, NoThread}
    BY <1>4 DEF Application
  <2>2. ASSUME NEW td \in Thread, NEW size \in StackSize, NutThreadCreate(td, size)
        PROVE  Kept
    BY <1>1, <2>1, <2>2, CreatePreserves
  <2>3. ASSUME NEW level \in Level, NutThreadSetPriority(level)
        PROVE  Kept
    <3>1. level \in Nat /\ level < 255
      BY ThreadAssumption
    <3> QED  BY <2>1, <2>3, <3>1, SetPriorityPreserves
  <2>4. NutThreadExit => Kept
    BY <2>1, ExitPreserves
  <2>5. NutThreadYield \/ NutEventWait \/ (\E td \in Thread : NutThreadWake(td)) => Kept
    BY <2>1, SwitchPreserves
  <2>6. NutThreadDestroy => Kept
    BY <2>1, DestroyPreserves
  <2>7. HeapNext(Owner \ Thread) /\ UNCHANGED threads => Kept
    BY HeapNextPreserves, OtherHeapCalls
  <2> QED  BY <1>4, <2>2, <2>3, <2>4, <2>5, <2>6, <2>7 DEF Application
<1>5. CASE UNCHANGED vars
  <2>1. HeapInv' /\ block' = block /\ UNCHANGED threads
    BY <1>5 DEF vars, heap, IInv, HeapInv, AddedCells, UsedCells
  <2> QED  BY <2>1, OtherHeapCalls
<1> QED
  BY <1>2, <1>3, <1>4, <1>5 DEF Next

LEMMA ThreadInit == Init => IInv
<1> SUFFICES ASSUME Init PROVE IInv
  OBVIOUS
<1>1. HeapInv /\ \A o \in Owner : block[o] = None
  BY HeapInitial DEF Init, HeapInit
<1>2. ThreadTypes /\ Started
  BY EmptyChain DEF Init, ThreadTypes, Started
<1>3. StacksAccounted
  BY <1>1, EmptyChain, Threads DEF Init, StacksAccounted, Live
<1> QED
  BY <1>1, <1>2, <1>3 DEF IInv

LEMMA ThreadInvariant == Spec => []IInv
<1>1. IInv /\ [Next]_vars => IInv'
  BY ThreadStep
<1> QED
  BY <1>1, ThreadInit, PTL DEF Spec

\* NutHeapRootFree, NutHeapRootAlloc and NutHeapRootRealloc keep the free list
\* in order of addresses, without adjacent nodes and without nodes too small for
\* their management information, for any memory and any sequence of calls.
THEOREM HeapFreeListSound == Spec => []FreeListSound
<1>1. ASSUME IInv  PROVE FreeListSound
  <2>1. FreeList(heapFreeList)
    BY <1>1 DEF IInv, HeapInv
  <2>2. Len(heapFreeList) \in Nat
    BY <2>1, LenProperties DEF FreeList
  <2> QED  BY <2>1, <2>2 DEF FreeListSound, FreeList, Apart, Sound, End
<1> QED
  BY <1>1, ThreadInvariant, PTL

\* Neither does os/heap.c lose memory nor hand it out twice: every unit of the
\* regions given to NutHeapRootAdd is in one free node or in one block.
THEOREM HeapMemoryPartitioned == Spec => []MemoryPartitioned
<1>1. ASSUME IInv  PROVE MemoryPartitioned
  <2>1. HeapInv /\ heapFreeList \in Seq(Node)
    BY <1>1 DEF IInv, HeapInv, FreeList
  <2>2. FreeNodes = {heapFreeList[i] : i \in 1..Len(heapFreeList)}
    BY <2>1, RangeOfChain DEF FreeNodes
  <2>3. UNION {Cells(n) : n \in FreeNodes} = ListCells(heapFreeList)
    BY <2>2 DEF ListCells
  <2>4. UNION {Cells(n) : n \in UsedNodes} = UsedCells
    BY NoneHasNoCells DEF UsedNodes, UsedCells
  <2>5. UNION {Cells(r) : r \in region} = UNION {Cells(n) : n \in FreeNodes \cup UsedNodes}
    <3>1. UNION {Cells(n) : n \in FreeNodes \cup UsedNodes}
            = (UNION {Cells(n) : n \in FreeNodes}) \cup (UNION {Cells(n) : n \in UsedNodes})
      OBVIOUS
    <3> QED  BY <2>1, <2>3, <2>4, <3>1 DEF HeapInv, AddedCells
  <2>6. \A n \in FreeNodes, m \in UsedNodes : Cells(n) \cap Cells(m) = {}
    <3>1. \A n \in FreeNodes : Cells(n) \subseteq ListCells(heapFreeList)
      BY <2>3
    <3>2. \A m \in UsedNodes : Cells(m) \cap ListCells(heapFreeList) = {}
      BY <2>1 DEF HeapInv, UsedNodes
    <3> QED  BY <3>1, <3>2
  <2> QED  BY <2>1, <2>5, <2>6 DEF MemoryPartitioned, HeapInv
<1> QED
  BY <1>1, ThreadInvariant, PTL

\* Whatever threads end in whatever order, the memory of threads (os/thread.c)
\* is neither used after its release nor lost.
THEOREM ThreadStacksAccounted == Spec => []StacksAccounted
<1>1. IInv => StacksAccounted
  BY DEF IInv
<1> QED
  BY <1>1, ThreadInvariant, PTL

\* No step, NutThreadKill included, releases the memory of the thread that
\* takes it, on whose stack NutThreadSwitch still saves the registers.
THEOREM ThreadOwnStackKept == Spec => OwnStackKept
<1>1. IInv /\ [Next]_vars => [runningThread # NoThread => block'[runningThread] # None]_vars
  BY ThreadStep
<1> QED
  BY <1>1, ThreadInvariant, PTL DEF Spec, OwnStackKept
=============================================================================
