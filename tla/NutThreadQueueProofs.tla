------------------------ MODULE NutThreadQueueProofs ------------------------
(***************************************************************************)
(* What NutThreadAddPriQueue and NutThreadRemoveQueue do to a chain, for   *)
(* chains of any length and any priorities.                                *)
(***************************************************************************)
EXTENDS NutThreadQueue, Integers, SequenceTheorems, FiniteSetTheorems,
        WellFoundedInduction, TLAPS

\* Every non-empty set of naturals has a least member.
LEMMA LeastNatural ==
    ASSUME NEW S \in SUBSET Nat, S # {}
    PROVE  \E n \in S : \A m \in S : n <= m
<1>1. PICK n \in S : \A m \in S : ~(<<m, n>> \in OpToRel(<, Nat))
  BY NatLessThanWellFounded, WFMin
<1>2. \A m \in S : ~(m < n)
  BY <1>1 DEF OpToRel
<1> QED
  BY <1>2

\* The walk of NutThreadAddPriQueue ends: it stops before a less urgent thread
\* or at the end of the queue.
LEMMA WalkEnds ==
    ASSUME NEW T, NEW s \in Seq(T), NEW td \in T, NEW prio \in [T -> Nat]
    PROVE  LET i == WalkPriQueue(s, td, prio)
           IN  /\ i \in 0..Len(s)
               /\ \A j \in 1..i : prio[s[j]] <= prio[td]
               /\ i < Len(s) => prio[s[i + 1]] > prio[td]
<1> DEFINE Stop == {k \in 0..Len(s) : k < Len(s) => prio[s[k + 1]] > prio[td]}
<1>1. Stop \in SUBSET Nat /\ Len(s) \in Stop
  OBVIOUS
<1>2. PICK n \in Stop : \A m \in Stop : n <= m
  <2> HIDE DEF Stop
  <2> QED  BY <1>1, LeastNatural
<1>3. ASSUME NEW j \in 1..n
      PROVE  prio[s[j]] <= prio[td]
  <2>1. j - 1 \in 0..Len(s) /\ j \in 1..Len(s)
    BY <1>3
  <2>2. j - 1 \notin Stop
    <3> HIDE DEF Stop
    <3> QED  BY <1>1, <1>2, <2>1
  <2> QED
    BY <2>1, <2>2
<1>4. \E i \in 0..Len(s) :
        /\ \A j \in 1..i : prio[s[j]] <= prio[td]
        /\ i < Len(s) => prio[s[i + 1]] > prio[td]
  BY <1>2, <1>3
<1> QED
  BY <1>4 DEF WalkPriQueue

\* The threads of a chain.
LEMMA RangeOfChain ==
    ASSUME NEW T, NEW s \in Seq(T)
    PROVE  Range(s) = {s[k] : k \in 1..Len(s)}
  BY LenProperties DEF Range

\* The empty queue.
LEMMA EmptyChain == Range(<<>>) = {} /\ IsInjective(<<>>)
  BY DEF Range, IsInjective

\* Linking a thread into a chain moves the ones behind it back by one.
LEMMA InsertAtProperties ==
    ASSUME NEW T, NEW s \in Seq(T), NEW td \in T, NEW i \in 1..(Len(s) + 1)
    PROVE  LET r == InsertAt(s, i, td)
           IN  /\ r \in Seq(T)
               /\ Len(r) = Len(s) + 1
               /\ \A k \in 1..(Len(s) + 1) :
                    r[k] = IF k < i THEN s[k] ELSE IF k = i THEN td ELSE s[k - 1]
<1> DEFINE a == SubSeq(s, 1, i - 1)
           c == SubSeq(s, i, Len(s))
<1>1. /\ a \in Seq(T) /\ Len(a) = i - 1
      /\ \A k \in 1..(i - 1) : a[k] = s[k]
  BY SubSeqProperties
<1>2. /\ c \in Seq(T) /\ Len(c) = Len(s) - i + 1
      /\ \A k \in 1..(Len(s) - i + 1) : c[k] = s[i + k - 1]
  BY SubSeqProperties
<1>3. /\ (a \o <<td>>) \in Seq(T) /\ Len(a \o <<td>>) = i
      /\ \A k \in 1..i : (a \o <<td>>)[k] = IF k < i THEN s[k] ELSE td
  <2> HIDE DEF a
  <2> QED  BY <1>1
<1>4. /\ ((a \o <<td>>) \o c) \in Seq(T)
      /\ Len((a \o <<td>>) \o c) = Len(s) + 1
      /\ \A k \in 1..(Len(s) + 1) : ((a \o <<td>>) \o c)[k] =
            IF k < i THEN s[k] ELSE IF k = i THEN td ELSE s[k - 1]
  <2> DEFINE b == a \o <<td>>
  <2> HIDE DEF b, c
  <2>1. b \in Seq(T) /\ Len(b) = i /\ \A k \in 1..i : b[k] = IF k < i THEN s[k] ELSE td
    BY <1>3 DEF b
  <2> QED  BY <1>2, <2>1 DEF b
<1> QED
  BY <1>4 DEF InsertAt

\* Unlinking a thread moves the ones behind it forward by one.
LEMMA RemoveAtProperties ==
    ASSUME NEW T, NEW s \in Seq(T), NEW i \in 1..Len(s)
    PROVE  LET r == RemoveAt(s, i)
           IN  /\ r \in Seq(T)
               /\ Len(r) = Len(s) - 1
               /\ \A k \in 1..(Len(s) - 1) : r[k] = IF k < i THEN s[k] ELSE s[k + 1]
<1> DEFINE a == SubSeq(s, 1, i - 1)
           c == SubSeq(s, i + 1, Len(s))
<1>1. /\ a \in Seq(T) /\ Len(a) = i - 1
      /\ \A k \in 1..(i - 1) : a[k] = s[k]
  BY SubSeqProperties
<1>2. /\ c \in Seq(T) /\ Len(c) = Len(s) - i
      /\ \A k \in 1..(Len(s) - i) : c[k] = s[i + k]
  BY SubSeqProperties
<1>3. /\ (a \o c) \in Seq(T)
      /\ Len(a \o c) = Len(s) - 1
      /\ \A k \in 1..(Len(s) - 1) : (a \o c)[k] = IF k < i THEN s[k] ELSE s[k + 1]
  <2> HIDE DEF a, c
  <2>1. /\ (a \o c) \in Seq(T)
        /\ Len(a \o c) = Len(s) - 1
        /\ \A k \in 1..(Len(s) - 1) : (a \o c)[k] = IF k <= i - 1 THEN a[k] ELSE c[k - (i - 1)]
    <3>1. /\ (a \o c) \in Seq(T) /\ Len(a \o c) = Len(a) + Len(c)
          /\ \A k \in 1..(Len(a) + Len(c)) :
                (a \o c)[k] = IF k <= Len(a) THEN a[k] ELSE c[k - Len(a)]
      BY <1>1, <1>2, ConcatProperties
    <3>2. Len(a) = i - 1 /\ Len(a) + Len(c) = Len(s) - 1
      BY <1>1, <1>2
    <3> QED  BY <3>1, <3>2
  <2>2. ASSUME NEW k \in 1..(Len(s) - 1)
        PROVE  (a \o c)[k] = IF k < i THEN s[k] ELSE s[k + 1]
    <3>1. CASE k < i
      BY <1>1, <2>1, <3>1
    <3>2. CASE ~(k < i)
      <4>1. k - (i - 1) \in 1..(Len(s) - i) /\ i + (k - (i - 1)) = k + 1
        BY <3>2
      <4>2. (a \o c)[k] = c[k - (i - 1)]
        BY <2>1, <3>2
      <4>3. c[k - (i - 1)] = s[i + (k - (i - 1))]
        BY <1>2, <4>1
      <4> QED  BY <3>2, <4>1, <4>2, <4>3
    <3> QED  BY <3>1, <3>2
  <2> QED  BY <2>1, <2>2
<1> QED
  BY <1>3 DEF RemoveAt

\* NutThreadRemoveQueue unlinks the first entry for the thread, if there is one.
LEMMA RemoveQueueProperties ==
    ASSUME NEW T, NEW s \in Seq(T), NEW td
    PROVE  \/ /\ \A k \in 1..Len(s) : s[k] # td
              /\ RemoveQueue(s, td) = s
           \/ \E i \in 1..Len(s) :
                /\ s[i] = td
                /\ \A k \in 1..(i - 1) : s[k] # td
                /\ RemoveQueue(s, td) = RemoveAt(s, i)
<1>1. CASE \A k \in 1..Len(s) : s[k] # td
  BY <1>1 DEF RemoveQueue, RemoveFirst
<1>2. CASE \E k \in 1..Len(s) : s[k] = td
  <2> DEFINE I == {k \in 1..Len(s) : s[k] = td}
  <2>1. I \in SUBSET Nat /\ I # {}
    BY <1>2
  <2>2. PICK i \in I : \A k \in I : i <= k
    <3> HIDE DEF I
    <3> QED  BY <2>1, LeastNatural
  <2>3. Min(I) \in I /\ \A k \in I : Min(I) <= k
    BY <2>2 DEF Min
  <2>4. RemoveQueue(s, td) = RemoveAt(s, Min(I))
    BY <1>2, <2>1 DEF RemoveQueue, RemoveFirst, SelectInSeq
  <2>5. \A k \in 1..(Min(I) - 1) : s[k] # td
    BY <2>3
  <2> QED
    BY <2>3, <2>4, <2>5
<1> QED
  BY <1>1, <1>2

\* Taking a thread out of a chain leaves the others in place, once each.
LEMMA RemoveQueueType ==
    ASSUME NEW T, NEW s \in Seq(T), NEW td
    PROVE  /\ RemoveQueue(s, td) \in Seq(T)
           /\ Range(s) \ {td} \subseteq Range(RemoveQueue(s, td))
           /\ Range(RemoveQueue(s, td)) \subseteq Range(s)
<1>1. CASE RemoveQueue(s, td) = s
  BY <1>1 DEF Range
<1>2. ASSUME NEW i \in 1..Len(s), s[i] = td, RemoveQueue(s, td) = RemoveAt(s, i)
      PROVE  /\ RemoveQueue(s, td) \in Seq(T)
             /\ Range(s) \ {td} \subseteq Range(RemoveQueue(s, td))
             /\ Range(RemoveQueue(s, td)) \subseteq Range(s)
  <2> DEFINE r == RemoveAt(s, i)
  <2>1. /\ r \in Seq(T) /\ Len(r) = Len(s) - 1
        /\ \A k \in 1..(Len(s) - 1) : r[k] = IF k < i THEN s[k] ELSE s[k + 1]
    BY RemoveAtProperties
  <2> HIDE DEF r
  <2>2. ASSUME NEW k \in 1..Len(s), s[k] # td
        PROVE  \E j \in 1..Len(r) : r[j] = s[k]
    <3>1. CASE k < i
      BY <2>1, <3>1
    <3>2. CASE k > i
      <4>1. k - 1 \in 1..Len(r) /\ ~(k - 1 < i) /\ (k - 1) + 1 = k
        BY <2>1, <3>2
      <4> QED  BY <2>1, <4>1
    <3> QED  BY <1>2, <2>2, <3>1, <3>2
  <2>3. ASSUME NEW k \in 1..Len(r)
        PROVE  \E j \in 1..Len(s) : s[j] = r[k]
    BY <2>1
  <2>4. /\ Range(r) = {r[k] : k \in 1..Len(r)}
        /\ Range(s) = {s[k] : k \in 1..Len(s)}
    BY <2>1, RangeOfChain
  <2>5. r \in Seq(T) /\ Range(s) \ {td} \subseteq Range(r) /\ Range(r) \subseteq Range(s)
    BY <2>1, <2>2, <2>3, <2>4
  <2> QED
    BY <1>2, <2>5 DEF r
<1> QED
  BY <1>1, <1>2, RemoveQueueProperties

\* NutThreadAddPriQueue adds the thread and nothing else.
LEMMA AddPriQueueType ==
    ASSUME NEW T, NEW s \in Seq(T), NEW td \in T, NEW prio \in [T -> Nat]
    PROVE  /\ AddPriQueue(s, td, prio) \in Seq(T)
           /\ Len(AddPriQueue(s, td, prio)) = Len(s) + 1
           /\ Range(AddPriQueue(s, td, prio)) = Range(s) \cup {td}
<1> DEFINE i == WalkPriQueue(s, td, prio) + 1
           r == InsertAt(s, i, td)
<1>1. i \in 1..(Len(s) + 1)
  BY WalkEnds
<1> HIDE DEF i
<1>2. /\ r \in Seq(T) /\ Len(r) = Len(s) + 1
      /\ \A k \in 1..(Len(s) + 1) :
            r[k] = IF k < i THEN s[k] ELSE IF k = i THEN td ELSE s[k - 1]
  BY <1>1, InsertAtProperties
<1> HIDE DEF r
<1>3. ASSUME NEW k \in 1..Len(s)
      PROVE  \E j \in 1..Len(r) : r[j] = s[k]
  <2>1. CASE k < i
    <3>1. k \in 1..Len(r) /\ r[k] = s[k]
      BY <1>2, <2>1
    <3> QED  BY <3>1
  <2>2. CASE k >= i
    <3>1. k + 1 \in 1..Len(r) /\ ~(k + 1 < i) /\ k + 1 # i /\ (k + 1) - 1 = k
      BY <1>1, <1>2, <2>2
    <3> QED  BY <1>2, <3>1
  <2> QED  BY <1>1, <2>1, <2>2
<1>4. ASSUME NEW k \in 1..Len(r)
      PROVE  r[k] = td \/ \E j \in 1..Len(s) : s[j] = r[k]
  <2>1. CASE k < i
    <3>1. k \in 1..Len(s) /\ r[k] = s[k]
      BY <1>1, <1>2, <2>1
    <3> QED  BY <3>1
  <2>2. CASE k = i
    BY <1>1, <1>2, <2>2
  <2>3. CASE k > i
    <3>1. k - 1 \in 1..Len(s) /\ r[k] = s[k - 1]
      BY <1>1, <1>2, <2>3
    <3> QED  BY <3>1
  <2> QED  BY <1>1, <2>1, <2>2, <2>3
<1>5. \E j \in 1..Len(r) : r[j] = td
  BY <1>1, <1>2
<1>6. /\ Range(r) = {r[k] : k \in 1..Len(r)}
      /\ Range(s) = {s[k] : k \in 1..Len(s)}
  BY <1>2, RangeOfChain
<1>7. Range(r) = Range(s) \cup {td}
  BY <1>3, <1>4, <1>5, <1>6
<1> QED
  BY <1>2, <1>7 DEF AddPriQueue, i, r

\* A thread that is in no chain can be linked into one without being in it twice.
LEMMA AddPriQueueInjective ==
    ASSUME NEW T, NEW s \in Seq(T), NEW td \in T, NEW prio \in [T -> Nat],
           IsInjective(s), td \notin Range(s)
    PROVE  IsInjective(AddPriQueue(s, td, prio))
<1> DEFINE i == WalkPriQueue(s, td, prio) + 1
           r == InsertAt(s, i, td)
<1>1. i \in 1..(Len(s) + 1)
  BY WalkEnds
<1> HIDE DEF i
<1>2. /\ r \in Seq(T) /\ Len(r) = Len(s) + 1
      /\ \A k \in 1..(Len(s) + 1) :
            r[k] = IF k < i THEN s[k] ELSE IF k = i THEN td ELSE s[k - 1]
  BY <1>1, InsertAtProperties
<1> HIDE DEF r
<1>3. /\ \A k \in 1..Len(s) : s[k] # td
      /\ \A j, k \in 1..Len(s) : s[j] = s[k] => j = k
  BY LenProperties, RangeOfChain DEF IsInjective
<1>4. ASSUME NEW k \in 1..Len(r)
      PROVE  \/ k < i /\ k \in 1..Len(s) /\ r[k] = s[k]
             \/ k = i /\ r[k] = td
             \/ k > i /\ k - 1 \in 1..Len(s) /\ r[k] = s[k - 1]
  BY <1>1, <1>2
<1>5. ASSUME NEW j \in 1..Len(r), NEW k \in 1..Len(r), r[j] = r[k]
      PROVE  j = k
  <2>1. /\ \/ j < i /\ j \in 1..Len(s) /\ r[j] = s[j]
           \/ j = i /\ r[j] = td
           \/ j > i /\ j - 1 \in 1..Len(s) /\ r[j] = s[j - 1]
        /\ \/ k < i /\ k \in 1..Len(s) /\ r[k] = s[k]
           \/ k = i /\ r[k] = td
           \/ k > i /\ k - 1 \in 1..Len(s) /\ r[k] = s[k - 1]
    BY <1>4
  <2>2. i \in Nat /\ j \in Nat /\ k \in Nat
    BY <1>1, <1>2
  <2> QED  BY <1>3, <1>5, <2>1, <2>2, SMTT(30)
<1>6. IsInjective(r)
  BY <1>2, <1>5, LenProperties DEF IsInjective
<1> QED
  BY <1>6 DEF AddPriQueue, i, r

\* Unlinking one entry of a chain without repetitions takes the thread out.
LEMMA RemoveAtInjective ==
    ASSUME NEW T, NEW s \in Seq(T), NEW i \in 1..Len(s), IsInjective(s)
    PROVE  /\ IsInjective(RemoveAt(s, i))
           /\ Range(RemoveAt(s, i)) = Range(s) \ {s[i]}
<1> DEFINE r == RemoveAt(s, i)
<1>1. /\ r \in Seq(T) /\ Len(r) = Len(s) - 1
      /\ \A k \in 1..(Len(s) - 1) : r[k] = IF k < i THEN s[k] ELSE s[k + 1]
  BY RemoveAtProperties
<1> HIDE DEF r
<1>2. \A j, k \in 1..Len(s) : s[j] = s[k] => j = k
  BY LenProperties DEF IsInjective
<1>3. ASSUME NEW k \in 1..Len(r)
      PROVE  \/ k < i /\ k \in 1..Len(s) /\ r[k] = s[k]
             \/ k >= i /\ k + 1 \in 1..Len(s) /\ r[k] = s[k + 1]
  BY <1>1
<1>4. ASSUME NEW j \in 1..Len(r), NEW k \in 1..Len(r), r[j] = r[k]
      PROVE  j = k
  <2>1. /\ \/ j < i /\ j \in 1..Len(s) /\ r[j] = s[j]
           \/ j >= i /\ j + 1 \in 1..Len(s) /\ r[j] = s[j + 1]
        /\ \/ k < i /\ k \in 1..Len(s) /\ r[k] = s[k]
           \/ k >= i /\ k + 1 \in 1..Len(s) /\ r[k] = s[k + 1]
    BY <1>3
  <2>2. i \in Nat /\ j \in Nat /\ k \in Nat
    BY <1>1
  <2> QED  BY <1>2, <1>4, <2>1, <2>2
<1>5. IsInjective(r)
  BY <1>1, <1>4, LenProperties DEF IsInjective
<1>6. /\ Range(r) = {r[k] : k \in 1..Len(r)}
      /\ Range(s) = {s[k] : k \in 1..Len(s)}
  BY <1>1, RangeOfChain
<1>7. ASSUME NEW k \in 1..Len(r)
      PROVE  r[k] # s[i] /\ \E j \in 1..Len(s) : s[j] = r[k]
  <2>1. \/ k < i /\ k \in 1..Len(s) /\ r[k] = s[k]
        \/ k >= i /\ k + 1 \in 1..Len(s) /\ r[k] = s[k + 1]
    BY <1>3
  <2>2. i \in Nat /\ k \in Nat
    BY <1>1
  <2> QED  BY <1>2, <2>1, <2>2
<1>8. ASSUME NEW k \in 1..Len(s), s[k] # s[i]
      PROVE  \E j \in 1..Len(r) : r[j] = s[k]
  <2>1. CASE k < i
    <3>1. k \in 1..Len(r) /\ r[k] = s[k]
      BY <1>1, <2>1
    <3> QED  BY <3>1
  <2>2. CASE k > i
    <3>1. k - 1 \in 1..Len(r) /\ ~(k - 1 < i) /\ (k - 1) + 1 = k
      BY <1>1, <2>2
    <3> QED  BY <1>1, <3>1
  <2> QED  BY <1>8, <2>1, <2>2
<1>9. Range(r) = Range(s) \ {s[i]}
  <2>1. ASSUME NEW x \in Range(r)  PROVE x \in Range(s) \ {s[i]}
    BY <1>6, <1>7
  <2>2. ASSUME NEW x \in Range(s) \ {s[i]}  PROVE x \in Range(r)
    BY <1>6, <1>8
  <2> QED  BY <2>1, <2>2
<1> QED
  BY <1>5, <1>9 DEF r

\* The first thread of a chain leaves it.
LEMMA TailInjective ==
    ASSUME NEW T, NEW s \in Seq(T), s # <<>>, IsInjective(s)
    PROVE  /\ Tail(s) \in Seq(T) /\ Head(s) \in T
           /\ IsInjective(Tail(s))
           /\ Range(Tail(s)) = Range(s) \ {Head(s)}
           /\ Head(s) \in Range(s)
<1>1. Len(s) >= 1 /\ Head(s) = s[1] /\ s[1] \in T
  BY LenProperties
<1>2. /\ Tail(s) \in Seq(T) /\ Len(Tail(s)) = Len(s) - 1
      /\ \A k \in 1..(Len(s) - 1) : Tail(s)[k] = s[k + 1]
  BY HeadTailProperties
<1>3. /\ RemoveAt(s, 1) \in Seq(T) /\ Len(RemoveAt(s, 1)) = Len(s) - 1
      /\ \A k \in 1..(Len(s) - 1) : RemoveAt(s, 1)[k] = s[k + 1]
  BY <1>1, RemoveAtProperties
<1>4. Tail(s) = RemoveAt(s, 1)
  BY <1>2, <1>3, SeqEqual
<1>5. /\ IsInjective(RemoveAt(s, 1))
      /\ Range(RemoveAt(s, 1)) = Range(s) \ {s[1]}
  BY <1>1, RemoveAtInjective
<1>6. s[1] \in Range(s)
  BY <1>1, RangeOfChain
<1> QED
  BY <1>1, <1>2, <1>4, <1>5, <1>6

\* A chain whose threads all belong to U is a chain of threads of U.
LEMMA ChainOfRange ==
    ASSUME NEW T, NEW U, NEW s \in Seq(T), Range(s) \subseteq U
    PROVE  s \in Seq(U)
<1>1. Len(s) \in Nat /\ s \in [1..Len(s) -> T]
  BY LenProperties
<1>2. ASSUME NEW k \in 1..Len(s)
      PROVE  s[k] \in U
  BY RangeOfChain
<1>3. s \in [1..Len(s) -> U]
  BY <1>1, <1>2
<1> QED
  BY <1>1, <1>3, SeqDef

\* The first thread of a chain.
LEMMA HeadInRange ==
    ASSUME NEW T, NEW s \in Seq(T), s # <<>>
    PROVE  /\ Len(s) >= 1 /\ Len(s) \in Nat
           /\ Head(s) = s[1] /\ Head(s) \in T /\ Head(s) \in Range(s)
<1>1. Len(s) >= 1 /\ Len(s) \in Nat /\ Head(s) = s[1] /\ s[1] \in T
  BY LenProperties
<1> QED
  BY <1>1, RangeOfChain

\* Threads that leave do not disturb the order of the others.
LEMMA RemoveAtOrdered ==
    ASSUME NEW T, NEW s \in Seq(T), NEW i \in 1..Len(s), NEW prio,
           PriOrdered(s, prio)
    PROVE  PriOrdered(RemoveAt(s, i), prio)
<1> DEFINE r == RemoveAt(s, i)
<1>1. /\ r \in Seq(T) /\ Len(r) = Len(s) - 1
      /\ \A k \in 1..(Len(s) - 1) : r[k] = IF k < i THEN s[k] ELSE s[k + 1]
  BY RemoveAtProperties
<1> HIDE DEF r
<1>2. Len(s) \in Nat
  BY LenProperties
<1>3. ASSUME NEW j \in 1..Len(r), NEW k \in 1..Len(r), j < k
      PROVE  prio[r[j]] <= prio[r[k]]
  <2> DEFINE a == IF j < i THEN j ELSE j + 1
             c == IF k < i THEN k ELSE k + 1
  <2>1. /\ a \in 1..Len(s) /\ c \in 1..Len(s) /\ a < c
    BY <1>1, <1>2, <1>3
  <2>2. r[j] = s[a] /\ r[k] = s[c]
    BY <1>1, <1>2
  <2> QED  BY <2>1, <2>2 DEF PriOrdered
<1> QED
  BY <1>3 DEF PriOrdered, r

\* A thread that leaves the run queue takes nobody with it.
LEMMA RemoveQueueInjective ==
    ASSUME NEW T, NEW s \in Seq(T), NEW td, IsInjective(s)
    PROVE  /\ RemoveQueue(s, td) \in Seq(T)
           /\ IsInjective(RemoveQueue(s, td))
           /\ Range(RemoveQueue(s, td)) = Range(s) \ {td}
<1>1. CASE (\A k \in 1..Len(s) : s[k] # td) /\ RemoveQueue(s, td) = s
  <2>1. td \notin Range(s)
    BY <1>1, RangeOfChain
  <2> QED  BY <1>1, <2>1
<1>2. ASSUME NEW i \in 1..Len(s), s[i] = td, RemoveQueue(s, td) = RemoveAt(s, i)
      PROVE  /\ RemoveQueue(s, td) \in Seq(T)
             /\ IsInjective(RemoveQueue(s, td))
             /\ Range(RemoveQueue(s, td)) = Range(s) \ {td}
  <2>1. RemoveAt(s, i) \in Seq(T)
    BY RemoveAtProperties
  <2>2. /\ IsInjective(RemoveAt(s, i))
        /\ Range(RemoveAt(s, i)) = Range(s) \ {s[i]}
    BY RemoveAtInjective
  <2> QED  BY <1>2, <2>1, <2>2
<1> QED
  BY <1>1, <1>2, RemoveQueueProperties

\* A thread linked in at the front becomes the head of the chain.
LEMMA InsertAtHead ==
    ASSUME NEW T, NEW s \in Seq(T), NEW td \in T, NEW i \in 1..(Len(s) + 1)
    PROVE  Head(InsertAt(s, i, td)) = IF i = 1 THEN td ELSE s[1]
<1> DEFINE r == InsertAt(s, i, td)
<1>1. /\ r \in Seq(T) /\ Len(r) = Len(s) + 1
      /\ \A k \in 1..(Len(s) + 1) :
            r[k] = IF k < i THEN s[k] ELSE IF k = i THEN td ELSE s[k - 1]
  BY InsertAtProperties
<1> HIDE DEF r
<1>2. Len(s) \in Nat
  BY LenProperties
<1>3. r # <<>> /\ 1 \in 1..(Len(s) + 1)
  BY <1>1, <1>2
<1>4. Head(r) = r[1]
  BY <1>1, <1>3
<1>5. r[1] = IF i = 1 THEN td ELSE s[1]
  BY <1>1, <1>2, <1>3
<1> QED
  BY <1>4, <1>5 DEF r

\* A thread linked in between the more and the less urgent ones keeps the order.
LEMMA InsertAtOrdered ==
    ASSUME NEW T, NEW s \in Seq(T), NEW td \in T, NEW prio \in [T -> Nat],
           NEW p \in 1..(Len(s) + 1)
    PROVE  /\ PriOrdered(s, prio)
           /\ \A j \in 1..(p - 1) : prio[s[j]] <= prio[td]
           /\ p <= Len(s) => prio[s[p]] > prio[td]
           => PriOrdered(InsertAt(s, p, td), prio)
<1> DEFINE r == InsertAt(s, p, td)
<1>3. /\ r \in Seq(T) /\ Len(r) = Len(s) + 1
      /\ \A k \in 1..(Len(s) + 1) :
            r[k] = IF k < p THEN s[k] ELSE IF k = p THEN td ELSE s[k - 1]
  BY InsertAtProperties
<1> HIDE DEF r
<1>1. SUFFICES ASSUME PriOrdered(s, prio),
                      \A j \in 1..(p - 1) : prio[s[j]] <= prio[td],
                      p <= Len(s) => prio[s[p]] > prio[td]
               PROVE  PriOrdered(r, prio)
  BY DEF r
<1>2. /\ p \in 1..(Len(s) + 1)
      /\ \A j \in 1..(p - 1) : prio[s[j]] <= prio[td]
      /\ p <= Len(s) => prio[s[p]] > prio[td]
  BY <1>1
<1>4. ASSUME NEW j \in 1..Len(s), j >= p
      PROVE  prio[td] <= prio[s[j]]
  <2>1. prio[s[p]] > prio[td] /\ p \in 1..Len(s)
    BY <1>2, <1>4
  <2>2. prio[s[p]] <= prio[s[j]]
    BY <1>1, <1>4, <2>1 DEF PriOrdered
  <2>3. s[p] \in T /\ s[j] \in T
    BY <2>1
  <2> QED  BY <2>1, <2>2, <2>3
<1> DEFINE Place(j) ==
             \/ j < p /\ j \in 1..Len(s) /\ r[j] = s[j] /\ prio[s[j]] <= prio[td]
             \/ j = p /\ r[j] = td
             \/ /\ j > p /\ j - 1 \in 1..Len(s) /\ r[j] = s[j - 1]
                /\ prio[td] <= prio[s[j - 1]]
<1>5. ASSUME NEW j \in 1..Len(r)
      PROVE  Place(j)
  <2>1. CASE j < p
    BY <1>2, <1>3, <2>1
  <2>2. CASE j = p
    BY <1>3, <2>2
  <2>3. CASE j > p
    <3>1. j - 1 \in 1..Len(s) /\ j - 1 >= p
      BY <1>2, <1>3, <2>3
    <3>2. prio[td] <= prio[s[j - 1]]
      BY <1>4, <3>1
    <3>3. r[j] = s[j - 1]
      BY <1>2, <1>3, <2>3, SMTT(30)
    <3> QED  BY <2>3, <3>1, <3>2, <3>3
  <2> QED  BY <1>2, <2>1, <2>2, <2>3
<1>6. ASSUME NEW j \in 1..Len(r), NEW k \in 1..Len(r), j < k
      PROVE  prio[r[j]] <= prio[r[k]]
  <2>1. /\ \A n \in 1..Len(s) : prio[s[n]] \in Nat
        /\ prio[td] \in Nat /\ p \in Nat /\ j \in Nat /\ k \in Nat
    BY <1>2, <1>3, SMTT(30)
  <2>2. Place(j) /\ Place(k)
    <3> HIDE DEF Place
    <3> QED  BY <1>5
  <2>3. CASE k < p
    BY <1>1, <1>6, <2>1, <2>2, <2>3 DEF PriOrdered
  <2>4. CASE k = p
    BY <1>6, <2>1, <2>2, <2>4
  <2>5. CASE k > p /\ j <= p
    BY <2>1, <2>2, <2>5, SMTT(30)
  <2>6. CASE k > p /\ j > p
    <3>1. /\ j - 1 \in 1..Len(s) /\ r[j] = s[j - 1]
          /\ k - 1 \in 1..Len(s) /\ r[k] = s[k - 1] /\ j - 1 < k - 1
      BY <1>6, <2>1, <2>2, <2>6
    <3> QED  BY <1>1, <3>1 DEF PriOrdered
  <2> QED  BY <2>1, <2>3, <2>4, <2>5, <2>6
<1> QED
  BY <1>6 DEF PriOrdered

\* A chain stays ordered by priority when NutThreadAddPriQueue links in one more
\* thread, which goes behind all threads of its own priority.
THEOREM AddPriQueueOrdered ==
    ASSUME NEW T, NEW s \in Seq(T), NEW td \in T, NEW prio \in [T -> Nat],
           PriOrdered(s, prio)
    PROVE  PriOrdered(AddPriQueue(s, td, prio), prio)
<1> DEFINE w == WalkPriQueue(s, td, prio)
           p == w + 1
<1>1. /\ w \in 0..Len(s)
      /\ \A j \in 1..w : prio[s[j]] <= prio[td]
      /\ w < Len(s) => prio[s[w + 1]] > prio[td]
  BY WalkEnds
<1> HIDE DEF w
<1>2. /\ p \in 1..(Len(s) + 1)
      /\ \A j \in 1..(p - 1) : prio[s[j]] <= prio[td]
      /\ p <= Len(s) => prio[s[p]] > prio[td]
  BY <1>1
<1> HIDE DEF p
<1>3. PriOrdered(InsertAt(s, p, td), prio)
  BY <1>2, InsertAtOrdered
<1> QED
  BY <1>3 DEF AddPriQueue, w, p

-----------------------------------------------------------------------------
(* Counters as sets of units, so that their sum is a cardinality           *)

\* The units of all counters, if n[t] is the counter of t.
Units(T, n) == UNION {{t} \X (1..n[t]) : t \in T}

\* The counter of t is one higher in m than in n.
OneMore(T, n, t, m) ==
    /\ n \in [T -> Nat] /\ m \in [T -> Nat] /\ t \in T
    /\ \A u \in T : m[u] = IF u = t THEN n[u] + 1 ELSE n[u]

UnitMore(T, n, x, m) == Units(T, m) = Units(T, n) \cup {x} /\ x \notin Units(T, n)

\* Incrementing a counter adds one unit.
LEMMA OneUnit ==
    ASSUME NEW T, NEW n, NEW t, NEW m, OneMore(T, n, t, m)
    PROVE  UnitMore(T, n, <<t, n[t] + 1>>, m)
<1>1. /\ t \in T
      /\ \A u \in T : n[u] \in Nat /\ m[u] = IF u = t THEN n[u] + 1 ELSE n[u]
  BY DEF OneMore
<1>2. ASSUME NEW p
      PROVE  /\ p \in Units(T, m) <=> \E u \in T : \E k \in 1..m[u] : p = <<u, k>>
             /\ p \in Units(T, n) <=> \E u \in T : \E k \in 1..n[u] : p = <<u, k>>
  BY DEF Units
<1>3. <<t, n[t] + 1>> \notin Units(T, n)
  <2> SUFFICES ASSUME NEW u \in T, NEW k \in 1..n[u], <<t, n[t] + 1>> = <<u, k>>
               PROVE  FALSE
    BY <1>2
  <2> QED  BY <1>1
<1>4. Units(T, n) \cup {<<t, n[t] + 1>>} \subseteq Units(T, m)
  <2>1. ASSUME NEW u \in T, NEW k \in 1..n[u]
        PROVE  <<u, k>> \in Units(T, m)
    <3>1. k \in 1..m[u]
      BY <1>1
    <3> QED  BY <1>2, <3>1
  <2>2. <<t, n[t] + 1>> \in Units(T, m)
    <3>1. n[t] + 1 \in 1..m[t]
      BY <1>1
    <3> QED  BY <1>1, <1>2, <3>1
  <2>3. ASSUME NEW p \in Units(T, n)
        PROVE  p \in Units(T, m)
    BY <1>2, <2>1
  <2> QED  BY <2>2, <2>3
<1>5. Units(T, m) \subseteq Units(T, n) \cup {<<t, n[t] + 1>>}
  <2>1. ASSUME NEW u \in T, NEW k \in 1..m[u], <<u, k>> # <<t, n[t] + 1>>
        PROVE  <<u, k>> \in Units(T, n)
    <3>1. k \in 1..n[u]
      BY <1>1, <2>1
    <3> QED  BY <1>2, <3>1
  <2> QED  BY <1>2, <2>1
<1> QED
  BY <1>3, <1>4, <1>5 DEF UnitMore

\* ... and one to their number.
LEMMA UnitAdded ==
    ASSUME NEW T, NEW n, NEW t, NEW m, OneMore(T, n, t, m), IsFiniteSet(Units(T, n))
    PROVE  /\ IsFiniteSet(Units(T, m))
           /\ Cardinality(Units(T, m)) = Cardinality(Units(T, n)) + 1
<1>1. PICK S, x : S = Units(T, n) /\ x = <<t, n[t] + 1>>
  OBVIOUS
<1>2. UnitMore(T, n, x, m)
  BY <1>1, OneUnit
<1>3. IsFiniteSet(S) /\ x \notin S /\ Units(T, m) = S \cup {x}
  BY <1>1, <1>2 DEF UnitMore
<1>4. IsFiniteSet(S \cup {x}) /\ Cardinality(S \cup {x}) = Cardinality(S) + 1
  BY <1>3, FS_AddElement
<1> QED
  BY <1>1, <1>3, <1>4

\* Decrementing a counter takes one away.
LEMMA UnitTaken ==
    ASSUME NEW T, NEW n, NEW t, NEW m, OneMore(T, m, t, n), IsFiniteSet(Units(T, n))
    PROVE  /\ IsFiniteSet(Units(T, m))
           /\ Cardinality(Units(T, m)) = Cardinality(Units(T, n)) - 1
<1>1. PICK S, x : S = Units(T, n) /\ x = <<t, m[t] + 1>>
  OBVIOUS
<1>2. UnitMore(T, m, x, n)
  BY <1>1, OneUnit
<1>3. IsFiniteSet(S) /\ x \in S /\ Units(T, m) = S \ {x}
  BY <1>1, <1>2 DEF UnitMore
<1>4. IsFiniteSet(S \ {x}) /\ Cardinality(S \ {x}) = Cardinality(S) - 1
  BY <1>3, FS_RemoveElement
<1> QED
  BY <1>1, <1>3, <1>4

\* Counters that do not grow have no more units.
LEMMA UnitsFewer ==
    ASSUME NEW T, NEW n \in [T -> Nat], NEW m \in [T -> Nat],
           \A u \in T : m[u] <= n[u], IsFiniteSet(Units(T, n))
    PROVE  /\ IsFiniteSet(Units(T, m))
           /\ Cardinality(Units(T, m)) <= Cardinality(Units(T, n))
<1>1. \A u \in T : 1..m[u] \subseteq 1..n[u]
  OBVIOUS
<1>2. Units(T, m) \subseteq Units(T, n)
  BY <1>1 DEF Units
<1>3. PICK S, R : S = Units(T, n) /\ R = Units(T, m)
  OBVIOUS
<1>4. IsFiniteSet(S) /\ R \in SUBSET S
  BY <1>2, <1>3
<1>5. IsFiniteSet(R) /\ Cardinality(R) <= Cardinality(S)
  BY <1>4, FS_Subset
<1> QED
  BY <1>3, <1>5

\* Moving all units of one counter to a counter without any keeps their number.
LEMMA UnitsMoved ==
    ASSUME NEW T, NEW n \in [T -> Nat], NEW m \in [T -> Nat], NEW a \in T, NEW b \in T,
           a # b, n[b] = 0, m[a] = 0, m[b] = n[a],
           \A u \in T \ {a, b} : m[u] = n[u], IsFiniteSet(Units(T, n))
    PROVE  /\ IsFiniteSet(Units(T, m))
           /\ Cardinality(Units(T, m)) <= Cardinality(Units(T, n))
<1> DEFINE move(p) == IF p[1] = a THEN <<b, p[2]>> ELSE p
<1>1. PICK S, R : S = Units(T, n) /\ R = Units(T, m)
  OBVIOUS
<1>2. \A p : /\ p \in S <=> \E u \in T : \E k \in 1..n[u] : p = <<u, k>>
             /\ p \in R <=> \E u \in T : \E k \in 1..m[u] : p = <<u, k>>
  BY <1>1 DEF Units
<1>3. PICK f : f = [p \in S |-> move(p)]
  OBVIOUS
<1>4. ASSUME NEW p \in S  PROVE move(p) \in R
  <2>0. PICK u \in T : \E k \in 1..n[u] : p = <<u, k>>
    BY <1>2
  <2>1. PICK k \in 1..n[u] : p = <<u, k>>
    BY <2>0
  <2>2. u # b
    BY <2>1
  <2>3. CASE u = a
    <3>1. move(p) = <<b, k>> /\ k \in 1..m[b]
      BY <2>1, <2>3
    <3> QED  BY <1>2, <3>1
  <2>4. CASE u # a
    <3>1. move(p) = <<u, k>> /\ k \in 1..m[u]
      BY <2>1, <2>2, <2>4
    <3> QED  BY <1>2, <3>1
  <2> QED  BY <2>3, <2>4
<1>5. ASSUME NEW r \in R  PROVE \E p \in S : move(p) = r
  <2>0. PICK u \in T : \E k \in 1..m[u] : r = <<u, k>>
    BY <1>2
  <2>1. PICK k \in 1..m[u] : r = <<u, k>>
    BY <2>0
  <2>2. u # a
    BY <2>1
  <2>3. CASE u = b
    <3>1. <<a, k>> \in S
      BY <1>2, <2>1, <2>3
    <3>2. move(<<a, k>>) = r
      BY <2>1, <2>3
    <3> QED  BY <3>1, <3>2
  <2>4. CASE u # b
    <3>1. <<u, k>> \in S
      BY <1>2, <2>1, <2>2, <2>4
    <3>2. move(<<u, k>>) = r
      BY <2>1, <2>2
    <3> QED  BY <3>1, <3>2
  <2> QED  BY <2>3, <2>4
<1> HIDE DEF move
<1>6. f \in Surjection(S, R)
  <2>1. f \in [S -> R]
    BY <1>3, <1>4
  <2>2. \A r \in R : \E p \in S : f[p] = r
    BY <1>3, <1>5
  <2> QED  BY <2>1, <2>2 DEF Surjection
<1>7. IsFiniteSet(R) /\ Cardinality(R) <= Cardinality(S)
  BY <1>1, <1>6, FS_Surjection
<1> QED
  BY <1>1, <1>7

\* Without units every counter is zero.
LEMMA NoUnits ==
    ASSUME NEW T, NEW n \in [T -> Nat], IsFiniteSet(Units(T, n)),
           Cardinality(Units(T, n)) <= 0
    PROVE  \A t \in T : n[t] = 0
<1>1. PICK S : S = Units(T, n)
  OBVIOUS
<1>2. Cardinality(S) \in Nat
  BY <1>1, FS_CardinalityType
<1>3. S = {}
  BY <1>1, <1>2, FS_EmptySet
<1>4. ASSUME NEW t \in T, n[t] # 0  PROVE FALSE
  <2>1. 1 \in 1..n[t]
    BY <1>4
  <2>2. <<t, 1>> \in Units(T, n)
    BY <2>1 DEF Units
  <2> QED  BY <1>1, <1>3, <2>2
<1> QED
  BY <1>4
=============================================================================
