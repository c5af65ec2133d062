--------------------------- MODULE NutTimerProofs ---------------------------
(***************************************************************************)
(* The system timers of os/timer.c keep their deadlines, for any number of *)
(* timers, any intervals and any tick counter, as long as no callback      *)
(* restarts the timer it is called for.                                    *)
(***************************************************************************)
EXTENDS NutTimer, NutThreadQueueProofs

-----------------------------------------------------------------------------
(***************************************************************************)
(* The tick counter wraps around.                                          *)
(***************************************************************************)
LEMMA Remainder ==
    ASSUME NEW m \in Nat \ {0}, NEW d \in 0..(m - 1)
    PROVE  d % m = d /\ (d - m) % m = d /\ (d + m) % m = d
<1>1. d % m = d
  OBVIOUS
<1>2. (d - m) % m = d
  OBVIOUS
<1>3. (d + m) % m = d
  OBVIOUS
<1> QED
  BY <1>1, <1>2, <1>3

Clock == nut_ticks \in 0..(TickMod - 1) /\ nut_ticks_resume \in 0..(TickMod - 1)

\* The ticks since the last processing, whether or not the counter has wrapped.
LEMMA LagIs ==
    ASSUME Clock
    PROVE  /\ Lag = IF nut_ticks_resume <= nut_ticks THEN nut_ticks - nut_ticks_resume
                    ELSE nut_ticks - nut_ticks_resume + TickMod
           /\ Lag \in 0..(TickMod - 1)
<1>1. TickMod \in Nat \ {0}
  BY TimerAssumption
<1>2. CASE nut_ticks_resume <= nut_ticks
  <2>1. nut_ticks - nut_ticks_resume \in 0..(TickMod - 1)
    BY <1>1, <1>2 DEF Clock
  <2>2. Lag = nut_ticks - nut_ticks_resume
    BY <1>1, <2>1, Remainder DEF Lag
  <2> QED  BY <1>2, <2>1, <2>2
<1>3. CASE nut_ticks_resume > nut_ticks
  <2> DEFINE d == nut_ticks - nut_ticks_resume + TickMod
  <2>1. d \in 0..(TickMod - 1) /\ nut_ticks - nut_ticks_resume = d - TickMod
    BY <1>1, <1>3 DEF Clock
  <2>2. Lag = (d - TickMod) % TickMod
    BY <2>1 DEF Lag
  <2> HIDE DEF d
  <2>3. Lag = d
    BY <1>1, <2>1, <2>2, Remainder
  <2>4. ~(nut_ticks_resume <= nut_ticks)
    BY <1>1, <1>3 DEF Clock
  <2> QED  BY <2>1, <2>3, <2>4 DEF d
<1> QED
  BY <1>1, <1>2, <1>3 DEF Clock

\* A tick is one more tick since the last processing.
LEMMA TickLag ==
    ASSUME Clock, Lag < MaxLag, nut_ticks' = (nut_ticks + 1) % TickMod,
           nut_ticks_resume' = nut_ticks_resume
    PROVE  Clock' /\ Lag' = Lag + 1
<1>1. TickMod \in Nat \ {0} /\ MaxLag \in 1..(TickMod - 1)
  BY TimerAssumption
<1> DEFINE n == nut_ticks
           r == nut_ticks_resume
           v == IF n = TickMod - 1 THEN 0 ELSE n + 1
<1>2. n \in 0..(TickMod - 1) /\ r \in 0..(TickMod - 1)
  BY DEF Clock
<1>3. nut_ticks' = v /\ v \in 0..(TickMod - 1)
  <2>1. CASE n = TickMod - 1
    <3>1. n + 1 = 0 + TickMod /\ 0 \in 0..(TickMod - 1)
      BY <1>1, <2>1
    <3>2. (0 + TickMod) % TickMod = 0
      BY <1>1, <3>1, Remainder
    <3> QED  BY <1>1, <2>1, <3>1, <3>2
  <2>2. CASE n # TickMod - 1
    <3>1. n + 1 \in 0..(TickMod - 1)
      BY <1>1, <1>2, <2>2
    <3>2. (n + 1) % TickMod = n + 1
      BY <1>1, <3>1, Remainder
    <3> QED  BY <2>2, <3>1, <3>2
  <2> QED  BY <2>1, <2>2
<1>4. Clock'
  BY <1>2, <1>3 DEF Clock
<1>5. Lag = IF r <= n THEN n - r ELSE n - r + TickMod
  BY LagIs
<1>6. Lag' = (v - r) % TickMod
  BY <1>3 DEF Lag
<1> HIDE DEF n, r
<1>7. CASE r <= v
  <2>1. v - r \in 0..(TickMod - 1)
    BY <1>1, <1>2, <1>3, <1>7
  <2>2. Lag' = v - r
    <3> HIDE DEF v
    <3> QED  BY <1>1, <1>6, <2>1, Remainder
  <2>3. v - r = Lag + 1
    BY <1>1, <1>2, <1>5, <1>7
  <2> QED  BY <1>4, <2>2, <2>3
<1>8. CASE r > v
  <2> DEFINE d == v - r + TickMod
  <2>1. d \in 0..(TickMod - 1) /\ v - r = d - TickMod
    BY <1>1, <1>2, <1>3, <1>8
  <2>2. d = Lag + 1
    BY <1>1, <1>2, <1>5, <1>8
  <2> HIDE DEF d, v
  <2>3. Lag' = d
    BY <1>1, <1>6, <2>1, Remainder
  <2> QED  BY <1>4, <2>2, <2>3
<1> QED
  <2>1. r <= v \/ r > v
    BY <1>1, <1>2, <1>3
  <2> QED  BY <1>7, <1>8, <2>1

\* A timer started with n ticks gets those since the last processing on top.
LEMMA FirstTicksIs ==
    ASSUME Clock, Lag <= MaxLag, NEW n \in Interval
    PROVE  /\ FirstTicks(n) = n + Lag /\ FirstTicks(n) \in 0..(TickMod - 1)
           /\ FirstTicks(n) > 0
<1>1. TickMod \in Nat \ {0} /\ MaxLag \in 1..(TickMod - 1)
      /\ n \in Nat \ {0} /\ n + MaxLag < TickMod
  BY TimerAssumption
<1> DEFINE a == nut_ticks
           r == nut_ticks_resume
<1>2. /\ Lag = IF r <= a THEN a - r ELSE a - r + TickMod
      /\ Lag \in 0..(TickMod - 1)
  BY LagIs
<1>3. a \in 0..(TickMod - 1) /\ r \in 0..(TickMod - 1)
  BY DEF Clock
<1>4. FirstTicks(n) = (n + a - r) % TickMod
  BY DEF FirstTicks
<1> HIDE DEF a, r
<1>5. n + Lag \in 0..(TickMod - 1) /\ n + Lag > 0
  BY <1>1, <1>2
<1>6. n + a - r = n + Lag \/ n + a - r = (n + Lag) - TickMod
  BY <1>1, <1>2, <1>3
<1>7. (n + a - r) % TickMod = n + Lag
  <2> DEFINE d == n + Lag
  <2>1. d \in 0..(TickMod - 1) /\ (n + a - r = d \/ n + a - r = d - TickMod)
    BY <1>5, <1>6
  <2> HIDE DEF d
  <2>2. (n + a - r) % TickMod = d
    BY <1>1, <2>1, Remainder
  <2> QED  BY <2>2 DEF d
<1> QED
  BY <1>4, <1>5, <1>7

-----------------------------------------------------------------------------
(***************************************************************************)
(* What the entries of a list add up to.                                   *)
(***************************************************************************)
\* Induction up to n.
LEMMA UpTo ==
    ASSUME NEW n \in Nat, NEW S, 0 \in S, \A k \in 0..(n - 1) : k \in S => k + 1 \in S
    PROVE  \A k \in 0..n : k \in S
<1> DEFINE Bad == {k \in 0..n : k \notin S}
<1> SUFFICES ASSUME Bad # {} PROVE FALSE
  OBVIOUS
<1>1. PICK k \in Bad : \A j \in Bad : k <= j
  <2>1. Bad \in SUBSET Nat
    OBVIOUS
  <2> HIDE DEF Bad
  <2> QED  BY <2>1, LeastNatural
<1>2. k \in 0..n /\ k \notin S /\ k # 0
  BY <1>1
<1>3. k - 1 \in 0..(n - 1) /\ k - 1 \in 0..n /\ (k - 1) + 1 = k
  BY <1>2
<1>4. k - 1 \in S
  BY <1>1, <1>3
<1> QED
  BY <1>2, <1>3, <1>4

\* The sum exists.
LEMMA DueExists ==
    ASSUME NEW T, NEW s \in Seq(T), NEW left \in [T -> Int]
    PROVE  \E f \in [0..Len(s) -> Int] :
              f = [k \in 0..Len(s) |-> IF k = 0 THEN 0 ELSE f[k - 1] + left[s[k]]]
<1> DEFINE Sum(g, n) == g[0] = 0 /\ \A k \in 1..n : g[k] = g[k - 1] + left[s[k]]
           S == {n \in 0..Len(s) : \E g \in [0..n -> Int] : Sum(g, n)}
<1>1. Len(s) \in Nat /\ \A k \in 1..Len(s) : left[s[k]] \in Int
  OBVIOUS
<1>2. 0 \in S
  <2> DEFINE z == [k \in 0..0 |-> 0]
  <2>1. z \in [0..0 -> Int] /\ Sum(z, 0)
    OBVIOUS
  <2>2. 0 \in 0..Len(s)
    BY <1>1
  <2> HIDE DEF z, Sum
  <2> QED  BY <2>1, <2>2
<1>3. ASSUME NEW n \in 0..(Len(s) - 1), n \in S
      PROVE  n + 1 \in S
  <2>1. PICK g \in [0..n -> Int] : Sum(g, n)
    BY <1>3
  <2> DEFINE h == [k \in 0..(n + 1) |-> IF k = n + 1 THEN g[n] + left[s[n + 1]] ELSE g[k]]
  <2>2. n + 1 \in 1..Len(s) /\ n + 1 \in 0..Len(s) /\ n \in 0..n /\ n \in Nat
    BY <1>1
  <2>3. \A k \in 0..(n + 1) : k # n + 1 => k \in 0..n
    BY <2>2
  <2>4. h \in [0..(n + 1) -> Int]
    BY <1>1, <2>1, <2>2, <2>3
  <2>5. h[0] = 0
    BY <2>1, <2>2
  <2>6. ASSUME NEW k \in 1..(n + 1)
        PROVE  h[k] = h[k - 1] + left[s[k]]
    <3>1. k \in 0..(n + 1) /\ k - 1 \in 0..(n + 1) /\ k - 1 # n + 1 /\ k - 1 \in 0..n
      BY <2>2
    <3>2. h[k - 1] = g[k - 1]
      BY <3>1
    <3>3. CASE k = n + 1
      <4>1. k - 1 = n /\ h[k] = g[n] + left[s[k]]
        BY <2>2, <3>1, <3>3
      <4> QED  BY <3>2, <4>1
    <3>4. CASE k # n + 1
      <4>1. k \in 1..n
        BY <2>2, <3>4
      <4>2. h[k] = g[k]
        BY <3>1, <3>4
      <4> QED  BY <2>1, <3>2, <4>1, <4>2
    <3> QED  BY <3>3, <3>4
  <2> QED  BY <2>2, <2>4, <2>5, <2>6
<1>4. Len(s) \in S
  <2> HIDE DEF S
  <2>1. \A k \in 0..Len(s) : k \in S
    BY <1>1, <1>2, <1>3, UpTo
  <2> QED  BY <1>1, <2>1
<1>5. PICK f \in [0..Len(s) -> Int] : Sum(f, Len(s))
  BY <1>4
<1>6. f = [k \in 0..Len(s) |-> IF k = 0 THEN 0 ELSE f[k - 1] + left[s[k]]]
  <2>1. \A k \in 0..Len(s) : f[k] = IF k = 0 THEN 0 ELSE f[k - 1] + left[s[k]]
    <3>1. \A k \in 0..Len(s) : k = 0 \/ k \in 1..Len(s)
      BY <1>1
    <3> QED  BY <1>5, <3>1
  <2> QED  BY <1>5, <2>1
<1> QED
  BY <1>5, <1>6

AddsUp(g, s, left) == g[0] = 0 /\ \A k \in 1..Len(s) : g[k] = g[k - 1] + left[s[k]]

\* Due adds up the ticks of the entries, and nothing else does.
LEMMA DueIs ==
    ASSUME NEW T, NEW s \in Seq(T), NEW left \in [T -> Int]
    PROVE  /\ Due(s, left, 0) = 0
           /\ \A k \in 1..Len(s) : Due(s, left, k) = Due(s, left, k - 1) + left[s[k]]
           /\ \A g : AddsUp(g, s, left) => \A k \in 0..Len(s) : Due(s, left, k) = g[k]
           /\ \A k \in 0..Len(s) : Due(s, left, k) \in Int
<1> DEFINE Is(f) == f = [k \in 0..Len(s) |-> IF k = 0 THEN 0 ELSE f[k - 1] + left[s[k]]]
           d == CHOOSE f : Is(f)
<1>1. \E f \in [0..Len(s) -> Int] : Is(f)
  BY DueExists
<1>2. Is(d)
  <2>1. \E f : Is(f)
    BY <1>1
  <2> HIDE DEF Is
  <2> QED  BY <2>1
<1>3. \A k \in 0..Len(s) : Due(s, left, k) = d[k]
  BY DEF Due
<1>4. Len(s) \in Nat
  OBVIOUS
<1> HIDE DEF d
<1>5. d[0] = 0 /\ \A k \in 1..Len(s) : d[k] = d[k - 1] + left[s[k]]
  <2>1. \A k \in 0..Len(s) : d[k] = IF k = 0 THEN 0 ELSE d[k - 1] + left[s[k]]
    BY <1>2
  <2>2. 0 \in 0..Len(s) /\ \A k \in 1..Len(s) : k \in 0..Len(s) /\ k # 0
    BY <1>4
  <2> QED  BY <2>1, <2>2
<1> HIDE DEF Is
<1>6. ASSUME NEW g, AddsUp(g, s, left)
      PROVE  \A k \in 0..Len(s) : d[k] = g[k]
  <2> DEFINE S == {k \in 0..Len(s) : d[k] = g[k]}
  <2>1. 0 \in S
    BY <1>4, <1>5, <1>6 DEF AddsUp
  <2>2. ASSUME NEW k \in 0..(Len(s) - 1), k \in S
        PROVE  k + 1 \in S
    <3>1. k + 1 \in 1..Len(s) /\ k + 1 \in 0..Len(s) /\ (k + 1) - 1 = k
      BY <1>4
    <3>2. d[k + 1] = d[k] + left[s[k + 1]] /\ g[k + 1] = g[k] + left[s[k + 1]]
      BY <1>5, <1>6, <3>1 DEF AddsUp
    <3> QED  BY <2>2, <3>1, <3>2
  <2>3. \A k \in 0..Len(s) : k \in S
    <3> HIDE DEF S
    <3> QED  BY <1>4, <2>1, <2>2, UpTo
  <2> QED  BY <2>3
<1>7. \A k \in 0..Len(s) : d[k] \in Int
  <2>1. PICK f \in [0..Len(s) -> Int] : Is(f)
    BY <1>1
  <2>2. f[0] = 0 /\ \A k \in 1..Len(s) : f[k] = f[k - 1] + left[s[k]]
    <3>1. \A k \in 0..Len(s) : f[k] = IF k = 0 THEN 0 ELSE f[k - 1] + left[s[k]]
      BY <2>1 DEF Is
    <3>2. 0 \in 0..Len(s) /\ \A k \in 1..Len(s) : k \in 0..Len(s) /\ k # 0
      BY <1>4
    <3> QED  BY <3>1, <3>2
  <2>3. AddsUp(f, s, left)
    BY <2>2 DEF AddsUp
  <2>4. \A k \in 0..Len(s) : d[k] = f[k]
    BY <1>6, <2>3
  <2> QED  BY <2>1, <2>4
<1>8. 0 \in 0..Len(s) /\ \A k \in 1..Len(s) : k \in 0..Len(s) /\ k - 1 \in 0..Len(s)
  BY <1>4
<1>9. Due(s, left, 0) = 0
  BY <1>3, <1>5, <1>8
<1>10. \A k \in 1..Len(s) : Due(s, left, k) = Due(s, left, k - 1) + left[s[k]]
  BY <1>3, <1>5, <1>8
<1>11. \A k \in 0..Len(s) : Due(s, left, k) \in Int
  BY <1>3, <1>7
<1>12. ASSUME NEW g, AddsUp(g, s, left)
       PROVE  \A k \in 0..Len(s) : Due(s, left, k) = g[k]
  BY <1>3, <1>6, <1>12
<1> QED
  BY <1>9, <1>10, <1>11, <1>12

LEMMA DueUnique ==
    ASSUME NEW T, NEW s \in Seq(T), NEW left \in [T -> Int], NEW g, AddsUp(g, s, left)
    PROVE  \A k \in 0..Len(s) : Due(s, left, k) = g[k]
<1>1. \A h : AddsUp(h, s, left) => \A k \in 0..Len(s) : Due(s, left, k) = h[k]
  BY DueIs
<1> QED
  BY <1>1

\* Only the ticks of the entries matter.
LEMMA DueAgrees ==
    ASSUME NEW T, NEW s \in Seq(T), NEW left \in [T -> Int], NEW l \in [T -> Int],
           \A k \in 1..Len(s) : l[s[k]] = left[s[k]]
    PROVE  \A k \in 0..Len(s) : Due(s, l, k) = Due(s, left, k)
<1> DEFINE g == [k \in 0..Len(s) |-> Due(s, left, k)]
<1>1. Len(s) \in Nat
  OBVIOUS
<1>2. 0 \in 0..Len(s) /\ \A k \in 1..Len(s) : k \in 0..Len(s) /\ k - 1 \in 0..Len(s)
  BY <1>1
<1>3. Due(s, left, 0) = 0
      /\ \A k \in 1..Len(s) : Due(s, left, k) = Due(s, left, k - 1) + left[s[k]]
  BY DueIs
<1>4. AddsUp(g, s, l)
  BY <1>2, <1>3 DEF AddsUp
<1>5. \A k \in 0..Len(s) : g[k] = Due(s, left, k)
  OBVIOUS
<1> HIDE DEF g
<1>6. \A k \in 0..Len(s) : Due(s, l, k) = g[k]
  BY <1>4, DueUnique
<1> QED
  BY <1>5, <1>6

\* Entries are distinct.
LEMMA Distinct ==
    ASSUME NEW T, NEW s \in Seq(T), IsInjective(s)
    PROVE  \A j, k \in 1..Len(s) : s[j] = s[k] => j = k
<1>1. DOMAIN s = 1..Len(s)
  OBVIOUS
<1> QED
  BY <1>1 DEF IsInjective

\* Ticks taken from the first entry are taken from all of them.
Taken(s, left, l, c) ==
    l[Head(s)] = left[Head(s)] - c /\ \A y \in DOMAIN left : y # Head(s) => l[y] = left[y]

Sooner(s, left, l, c) == \A k \in 1..Len(s) : Due(s, l, k) = Due(s, left, k) - c

LEMMA DueLess ==
    ASSUME NEW T, NEW s \in Seq(T), s # <<>>, IsInjective(s), NEW left \in [T -> Int],
           NEW c \in Int, NEW l \in [T -> Int], Taken(s, left, l, c)
    PROVE  Sooner(s, left, l, c)
<1> DEFINE g == [k \in 0..Len(s) |-> IF k = 0 THEN 0 ELSE Due(s, left, k) - c]
<1>1. Len(s) \in Nat /\ Len(s) >= 1 /\ Head(s) = s[1] /\ 1 \in 1..Len(s)
      /\ \A k \in 1..Len(s) : s[k] \in T
  BY HeadInRange
<1>2. \A k \in 1..Len(s) : /\ k \in 0..Len(s) /\ k # 0 /\ k - 1 \in 0..Len(s)
                           /\ k - 1 = 0 <=> k = 1
  BY <1>1
<1>3. /\ Due(s, left, 0) = 0
      /\ \A k \in 1..Len(s) : Due(s, left, k) = Due(s, left, k - 1) + left[s[k]]
      /\ \A k \in 0..Len(s) : Due(s, left, k) \in Int
  BY DueIs
<1>4. \A k \in 1..Len(s) : l[s[k]] = IF k = 1 THEN left[s[k]] - c ELSE left[s[k]]
  BY <1>1, Distinct DEF Taken
<1>5. g[0] = 0
  BY <1>1
<1>6. ASSUME NEW k \in 1..Len(s)
      PROVE  g[k] = g[k - 1] + l[s[k]]
  <2>1. g[k] = Due(s, left, k) - c
    BY <1>2
  <2>2. /\ Due(s, left, k) = Due(s, left, k - 1) + left[s[k]] /\ left[s[k]] \in Int
        /\ Due(s, left, k - 1) \in Int
    BY <1>1, <1>2, <1>3
  <2>3. CASE k = 1
    <3>1. g[k - 1] = 0 /\ Due(s, left, k - 1) = 0 /\ l[s[k]] = left[s[k]] - c
      BY <1>2, <1>3, <1>4, <1>5, <2>3
    <3> HIDE DEF g
    <3> QED  BY <2>1, <2>2, <3>1
  <2>4. CASE k # 1
    <3>1. g[k - 1] = Due(s, left, k - 1) - c /\ l[s[k]] = left[s[k]]
      BY <1>2, <1>4, <2>4
    <3> HIDE DEF g
    <3> QED  BY <2>1, <2>2, <3>1
  <2> QED  BY <2>3, <2>4
<1>7. \A k \in 1..Len(s) : g[k] = Due(s, left, k) - c
  BY <1>2
<1> HIDE DEF g
<1>8. AddsUp(g, s, l)
  BY <1>5, <1>6 DEF AddsUp
<1>9. \A k \in 0..Len(s) : Due(s, l, k) = g[k]
  BY <1>8, DueUnique
<1> QED
  BY <1>2, <1>7, <1>9 DEF Sooner

\* The first entry leaves once it has no ticks left.
LEMMA DueTail ==
    ASSUME NEW T, NEW s \in Seq(T), s # <<>>, NEW left \in [T -> Int],
           left[Head(s)] = 0
    PROVE  /\ Tail(s) \in Seq(T) /\ Len(Tail(s)) = Len(s) - 1
           /\ \A k \in 1..Len(Tail(s)) :
                /\ k + 1 \in 1..Len(s) /\ Tail(s)[k] = s[k + 1]
                /\ Due(Tail(s), left, k) = Due(s, left, k + 1)
<1> DEFINE r == Tail(s)
           g == [k \in 0..Len(r) |-> Due(s, left, k + 1)]
<1>1. Len(s) \in Nat /\ Len(s) >= 1 /\ Head(s) = s[1] /\ 1 \in 1..Len(s)
  BY HeadInRange
<1>2. /\ r \in Seq(T) /\ Len(r) = Len(s) - 1 /\ Len(r) \in Nat
      /\ \A k \in 1..Len(r) : r[k] = s[k + 1]
  BY <1>1
<1> HIDE DEF r
<1>3. /\ Due(s, left, 0) = 0
      /\ \A k \in 1..Len(s) : Due(s, left, k) = Due(s, left, k - 1) + left[s[k]]
      /\ \A k \in 0..Len(s) : Due(s, left, k) \in Int
  BY DueIs
<1>4. g[0] = 0
  <2>1. g[0] = Due(s, left, 1)
    BY <1>2
  <2>2. Due(s, left, 1) = Due(s, left, 1 - 1) + left[s[1]]
    BY <1>1, <1>3
  <2>3. 1 - 1 = 0
    OBVIOUS
  <2> QED  BY <1>1, <1>3, <2>1, <2>2, <2>3
<1>5. ASSUME NEW k \in 1..Len(r)
      PROVE  g[k] = g[k - 1] + left[r[k]]
  <2>1. /\ k \in 0..Len(r) /\ k - 1 \in 0..Len(r) /\ (k - 1) + 1 = k /\ (k + 1) - 1 = k
        /\ k + 1 \in 1..Len(s)
    BY <1>1, <1>2
  <2>2. g[k] = Due(s, left, k + 1) /\ g[k - 1] = Due(s, left, k)
    BY <2>1
  <2> HIDE DEF g
  <2> QED  BY <1>2, <1>3, <2>1, <2>2
<1>6. \A k \in 1..Len(r) : k + 1 \in 1..Len(s) /\ k \in 0..Len(r)
                           /\ g[k] = Due(s, left, k + 1)
  BY <1>1, <1>2
<1> HIDE DEF g
<1>7. AddsUp(g, r, left)
  BY <1>4, <1>5 DEF AddsUp
<1>8. \A k \in 0..Len(r) : Due(r, left, k) = g[k]
  BY <1>2, <1>7, DueIs
<1> QED
  BY <1>2, <1>6, <1>8 DEF r

-----------------------------------------------------------------------------
(***************************************************************************)
(* Lists s with the ticks left are turned into lists r with the ticks l.   *)
(***************************************************************************)
\* Every entry of the new list is one of the old list, due at the same time.
Kept(s, left, r, l, k) ==
    \E j \in 1..Len(s) : r[k] = s[j] /\ Due(r, l, k) = Due(s, left, j)

\* NutTimerInsert finds its place.
LEMMA InsertPlace ==
    ASSUME NEW s \in Seq(Timer), NEW left \in [Timer -> Nat], NEW x \in Timer
    PROVE  \E k \in 0..Len(s) :
               /\ \A j \in 1..k : Due(s, left, j) <= left[x]
               /\ k < Len(s) => Due(s, left, k + 1) > left[x]
<1> DEFINE Stop == {k \in 0..Len(s) : k < Len(s) => Due(s, left, k + 1) > left[x]}
<1>1. Stop \in SUBSET Nat /\ Len(s) \in Stop /\ Len(s) \in Nat /\ left[x] \in Int
  OBVIOUS
<1>2. PICK n \in Stop : \A m \in Stop : n <= m
  <2> HIDE DEF Stop
  <2> QED  BY <1>1, LeastNatural
<1>3. \A k \in 0..Len(s) : Due(s, left, k) \in Int
  <2>1. left \in [Timer -> Int]
    OBVIOUS
  <2> QED  BY <2>1, DueIs
<1>4. ASSUME NEW j \in 1..n
      PROVE  Due(s, left, j) <= left[x]
  <2>1. n \in 0..Len(s)
    OBVIOUS
  <2>2. j - 1 \in 0..Len(s) /\ j \in 0..Len(s) /\ ~(n <= j - 1) /\ (j - 1) + 1 = j
    BY <1>1, <2>1
  <2>3. j - 1 \notin Stop
    <3> HIDE DEF Stop
    <3> QED  BY <1>2, <2>2
  <2>4. ~(Due(s, left, j) > left[x])
    BY <2>2, <2>3
  <2>5. Due(s, left, j) \in Int
    BY <1>3, <2>2
  <2> HIDE DEF Stop
  <2> QED  BY <1>1, <2>4, <2>5
<1> QED
  BY <1>2, <1>4

\* NutTimerInsert puts x where it is due and leaves the others due as they were.
Inserted(s, left, x, r, l) ==
    /\ r \in Seq(Timer) /\ IsInjective(r) /\ Range(r) = Range(s) \cup {x}
    /\ l \in [Timer -> Nat]
    /\ \A y \in Timer : y \notin Range(r) => l[y] = left[y]
    /\ \A k \in 1..Len(r) :
         (r[k] = x /\ Due(r, l, k) = left[x]) \/ Kept(s, left, r, l, k)
    /\ s # <<>> /\ left[Head(s)] <= left[x] =>
         r # <<>> /\ Head(r) = Head(s) /\ l[Head(s)] = left[Head(s)]

LEMMA InsertDue ==
    ASSUME NEW s \in Seq(Timer), IsInjective(s), NEW left \in [Timer -> Nat],
           NEW x \in Timer, x \notin Range(s)
    PROVE  Inserted(s, left, x, Insert(s, left, x).s, Insert(s, left, x).left)
<1> DEFINE P(k) == /\ \A j \in 1..k : Due(s, left, j) <= left[x]
                   /\ k < Len(s) => Due(s, left, k + 1) > left[x]
           D(k) == Due(s, left, k)
           N == Len(s)
<1>1. PICK i \in 0..N : P(i) /\ i = CHOOSE k \in 0..N : P(k)
  <2>1. \E k \in 0..N : P(k)
    BY InsertPlace
  <2> HIDE DEF P, N
  <2>2. (CHOOSE k \in 0..N : P(k)) \in 0..N /\ P(CHOOSE k \in 0..N : P(k))
    BY <2>1
  <2> QED  BY <2>2
<1> DEFINE d == left[x] - D(i)
           r == InsertAt(s, i + 1, x)
           l == [y \in Timer |-> IF y = x THEN d
                                 ELSE IF i < N /\ y = s[i + 1] THEN left[y] - d
                                 ELSE left[y]]
<1>2. Insert(s, left, x) = [s |-> r, left |-> l]
  BY <1>1 DEF Insert
<1>3. N \in Nat /\ i \in Nat /\ i + 1 \in 1..(N + 1) /\ left \in [Timer -> Int]
      /\ \A k \in 1..N : s[k] \in Timer
  OBVIOUS
<1>4. /\ r \in Seq(Timer) /\ Len(r) = N + 1
      /\ \A k \in 1..(N + 1) :
           r[k] = IF k < i + 1 THEN s[k] ELSE IF k = i + 1 THEN x ELSE s[k - 1]
  <2> DEFINE p == i + 1
  <2>1. p \in 1..(Len(s) + 1)
    BY <1>3
  <2> HIDE DEF p
  <2>2. /\ InsertAt(s, p, x) \in Seq(Timer) /\ Len(InsertAt(s, p, x)) = Len(s) + 1
        /\ \A k \in 1..(Len(s) + 1) : InsertAt(s, p, x)[k] =
             IF k < p THEN s[k] ELSE IF k = p THEN x ELSE s[k - 1]
    BY <2>1, InsertAtProperties
  <2> QED  BY <2>2 DEF p
<1>5. /\ D(0) = 0 /\ \A k \in 1..N : D(k) = D(k - 1) + left[s[k]]
      /\ \A k \in 0..N : D(k) \in Int
  BY <1>3, DueIs
<1>6. /\ \A j \in 1..i : D(j) <= left[x]
      /\ i < N => D(i + 1) > left[x]
  BY <1>1
<1>7. \A j, k \in 1..N : s[j] = s[k] => j = k
  BY Distinct
<1>8. \A k \in 1..N : s[k] # x
  BY RangeOfChain
<1> HIDE DEF P, N, r
<1>9. d \in Nat /\ left[x] \in Nat
  <2>1. D(i) \in Int /\ D(i) <= left[x] /\ left[x] \in Nat
    <3>1. CASE i = 0
      BY <1>3, <1>5, <3>1
    <3>2. CASE i # 0
      <4>1. i \in 1..i /\ i \in 0..N
        BY <1>1, <1>3, <3>2
      <4> HIDE DEF D
      <4> QED  BY <1>5, <1>6, <4>1
    <3> QED  BY <3>1, <3>2
  <2> HIDE DEF D
  <2> QED  BY <2>1
<1> HIDE DEF D
<1>10. i < N => /\ i + 1 \in 1..N /\ D(i + 1) = D(i) + left[s[i + 1]]
                /\ left[s[i + 1]] - d \in Nat /\ D(i) \in Int
  <2> SUFFICES ASSUME i < N
               PROVE  /\ i + 1 \in 1..N /\ D(i + 1) = D(i) + left[s[i + 1]]
                      /\ left[s[i + 1]] - d \in Nat /\ D(i) \in Int
    OBVIOUS
  <2>1. i + 1 \in 1..N /\ (i + 1) - 1 = i /\ i \in 0..N
    BY <1>1, <1>3
  <2>2. D(i + 1) = D(i) + left[s[i + 1]] /\ D(i) \in Int
    BY <1>5, <2>1
  <2>3. D(i + 1) > left[x] /\ left[s[i + 1]] \in Nat
    BY <1>3, <1>6, <2>1
  <2> QED  BY <1>9, <2>1, <2>2, <2>3
<1>11. l \in [Timer -> Nat]
  <2>1. \A y \in Timer : left[y] \in Nat
    OBVIOUS
  <2> HIDE DEF d
  <2> QED  BY <1>9, <1>10, <2>1
<1> DEFINE g == [k \in 0..(N + 1) |-> IF k < i + 1 THEN D(k)
                                      ELSE IF k = i + 1 THEN left[x] ELSE D(k - 1)]
<1>12. g[0] = 0
  BY <1>3, <1>5
<1>13. ASSUME NEW k \in 1..(N + 1)
       PROVE  g[k] = g[k - 1] + l[r[k]]
  <2>1. k \in 0..(N + 1) /\ k - 1 \in 0..(N + 1)
    BY <1>3
  <2>2. CASE k < i + 1
    <3>1. /\ k - 1 < i + 1 /\ k \in 1..N /\ k # i + 1
          /\ (i < N => i + 1 \in 1..N)
      BY <1>1, <1>3, <2>2
    <3>2. g[k] = D(k) /\ g[k - 1] = D(k - 1) /\ r[k] = s[k]
      BY <1>4, <2>1, <2>2, <3>1
    <3>3. l[s[k]] = left[s[k]]
      BY <1>3, <1>7, <1>8, <3>1
    <3> HIDE DEF g, l
    <3> QED  BY <1>5, <3>1, <3>2, <3>3
  <2>3. CASE k = i + 1
    <3>1. k - 1 = i /\ i < i + 1 /\ ~(k < i + 1) /\ i \in 0..N
      BY <1>1, <1>3, <2>3
    <3>2. g[k] = left[x] /\ g[k - 1] = D(i) /\ r[k] = x
      BY <1>4, <2>1, <2>3, <3>1
    <3>3. l[x] = left[x] - D(i)
      OBVIOUS
    <3>4. D(i) \in Int /\ left[x] \in Int
      BY <1>5, <1>9, <3>1
    <3> HIDE DEF g, l
    <3> QED  BY <3>2, <3>3, <3>4
  <2>4. CASE k = i + 2
    <3>1. i < N /\ k - 1 = i + 1 /\ ~(k < i + 1) /\ k # i + 1 /\ ~(k - 1 < i + 1)
          /\ i + 1 \in 1..N
      BY <1>1, <1>3, <2>4
    <3>2. g[k] = D(i + 1) /\ g[k - 1] = left[x] /\ r[k] = s[i + 1]
      BY <1>4, <2>1, <3>1
    <3>3. l[s[i + 1]] = left[s[i + 1]] - (left[x] - D(i))
      BY <1>3, <1>8, <3>1
    <3>4. D(i + 1) = D(i) + left[s[i + 1]] /\ D(i) \in Int /\ left[x] \in Int
          /\ left[s[i + 1]] \in Int
      BY <1>3, <1>9, <1>10, <3>1
    <3> HIDE DEF g, l
    <3> QED  BY <3>2, <3>3, <3>4
  <2>5. CASE k > i + 2
    <3>1. /\ ~(k < i + 1) /\ k # i + 1 /\ ~(k - 1 < i + 1) /\ k - 1 # i + 1
          /\ k - 1 \in 1..N /\ (i < N => i + 1 \in 1..N)
      BY <1>1, <1>3, <2>5
    <3>2. g[k] = D(k - 1) /\ g[k - 1] = D((k - 1) - 1) /\ r[k] = s[k - 1]
      BY <1>4, <2>1, <3>1
    <3>3. l[s[k - 1]] = left[s[k - 1]]
      BY <1>3, <1>7, <1>8, <3>1
    <3> HIDE DEF g, l
    <3> QED  BY <1>5, <3>1, <3>2, <3>3
  <2> QED  BY <1>3, <2>2, <2>3, <2>4, <2>5
<1>14. \A k \in 0..(N + 1) : Due(r, l, k) = g[k]
  <2>1. l \in [Timer -> Int]
    BY <1>11
  <2> HIDE DEF g, l
  <2>2. AddsUp(g, r, l)
    BY <1>4, <1>12, <1>13 DEF AddsUp
  <2>3. \A k \in 0..Len(r) : Due(r, l, k) = g[k]
    <3>1. r \in Seq(Timer)
      BY <1>4
    <3> QED  BY <2>1, <2>2, <3>1, DueUnique, Zenon
  <2> QED  BY <1>4, <2>3
<1>15. Range(r) = Range(s) \cup {x}
  <2>1. Range(r) = {r[k] : k \in 1..(N + 1)} /\ Range(s) = {s[k] : k \in 1..N}
    BY <1>4, RangeOfChain DEF N
  <2>2. \A k \in 1..(N + 1) : r[k] \in Range(s) \cup {x}
    <3> SUFFICES ASSUME NEW k \in 1..(N + 1)  PROVE r[k] \in Range(s) \cup {x}
      OBVIOUS
    <3>1. CASE k < i + 1
      <4>1. k \in 1..N /\ r[k] = s[k]
        BY <1>1, <1>3, <1>4, <3>1
      <4> QED  BY <2>1, <4>1
    <3>2. CASE k = i + 1
      <4>1. r[k] = x
        BY <1>3, <1>4, <3>2
      <4> QED  BY <4>1
    <3>3. CASE k > i + 1
      <4>1. k - 1 \in 1..N /\ ~(k < i + 1) /\ k # i + 1
        BY <1>1, <1>3, <3>3
      <4>2. r[k] = s[k - 1]
        BY <1>4, <4>1
      <4> QED  BY <2>1, <4>1, <4>2
    <3> QED  BY <1>3, <3>1, <3>2, <3>3
  <2>3. \A k \in 1..N : s[k] \in Range(r)
    <3>1. ASSUME NEW k \in 1..N  PROVE s[k] \in Range(r)
      <4>1. CASE k < i + 1
        <5>1. k \in 1..(N + 1) /\ r[k] = s[k]
          BY <1>3, <1>4, <4>1
        <5> QED  BY <2>1, <5>1
      <4>2. CASE ~(k < i + 1)
        <5>1. k + 1 \in 1..(N + 1) /\ ~(k + 1 < i + 1) /\ k + 1 # i + 1 /\ (k + 1) - 1 = k
          BY <1>3, <4>2
        <5>2. r[k + 1] = s[k]
          BY <1>4, <5>1
        <5> QED  BY <2>1, <5>1, <5>2
      <4> QED  BY <4>1, <4>2
    <3> QED  BY <3>1
  <2>4. x \in Range(r)
    <3>1. i + 1 \in 1..(N + 1) /\ r[i + 1] = x
      BY <1>3, <1>4
    <3> QED  BY <2>1, <3>1
  <2> QED  BY <2>1, <2>2, <2>3, <2>4
<1>16. IsInjective(r)
  <2>1. DOMAIN r = 1..(N + 1)
    BY <1>4
  <2>2. ASSUME NEW a \in 1..(N + 1), NEW b \in 1..(N + 1), r[a] = r[b], a < b
        PROVE  FALSE
    <3>1. \A k \in 1..(N + 1) : \/ k < i + 1 /\ k \in 1..N /\ r[k] = s[k]
                                \/ k = i + 1 /\ r[k] = x
                                \/ k > i + 1 /\ k - 1 \in 1..N /\ r[k] = s[k - 1]
      BY <1>1, <1>3, <1>4
    <3>2. CASE a < i + 1
      <4>1. a \in 1..N /\ r[a] = s[a]
        <5>1. \/ a < i + 1 /\ a \in 1..N /\ r[a] = s[a]
              \/ a = i + 1
              \/ a > i + 1
          BY <3>1
        <5>2. a # i + 1 /\ ~(a > i + 1)
          BY <1>3, <3>2
        <5> QED  BY <5>1, <5>2
      <4>2. (b \in 1..N /\ r[b] = s[b]) \/ r[b] = x
            \/ (b > i + 1 /\ b - 1 \in 1..N /\ r[b] = s[b - 1])
        BY <3>1
      <4>3. ASSUME b \in 1..N, r[b] = s[b] PROVE FALSE
        <5>1. a = b
          BY <1>7, <2>2, <4>1, <4>3
        <5> QED  BY <1>3, <2>2, <5>1
      <4>4. ASSUME r[b] = x PROVE FALSE
        BY <1>8, <2>2, <4>1, <4>4
      <4>5. ASSUME b > i + 1, b - 1 \in 1..N, r[b] = s[b - 1] PROVE FALSE
        <5>1. a = b - 1
          BY <1>7, <2>2, <4>1, <4>5
        <5> QED  BY <1>3, <3>2, <4>5, <5>1
      <4> QED  BY <4>2, <4>3, <4>4, <4>5
    <3>3. CASE ~(a < i + 1)
      <4>1. b > i + 1 /\ b - 1 \in 1..N /\ r[b] = s[b - 1]
        BY <1>3, <2>2, <3>1, <3>3
      <4>2. r[a] = x \/ (a - 1 \in 1..N /\ r[a] = s[a - 1])
        BY <1>3, <3>1, <3>3
      <4> QED  BY <1>3, <1>7, <1>8, <2>2, <4>1, <4>2
    <3> QED  BY <3>2, <3>3
  <2>3. \A a, b \in 1..(N + 1) : a < b \/ b < a \/ a = b
    BY <1>3
  <2> QED  BY <2>1, <2>2, <2>3 DEF IsInjective
<1>17. \A y \in Timer : y \notin Range(r) => l[y] = left[y]
  <2>1. \A k \in 1..N : s[k] \in Range(s)
    BY RangeOfChain DEF N
  <2> QED  BY <1>10, <1>15, <2>1
<1>18. ASSUME NEW k \in 1..(N + 1)
       PROVE  (r[k] = x /\ Due(r, l, k) = left[x]) \/ Kept(s, left, r, l, k)
  <2>1. Due(r, l, k) = g[k] /\ k \in 0..(N + 1)
    BY <1>3, <1>14
  <2>2. g[k] = IF k < i + 1 THEN D(k) ELSE IF k = i + 1 THEN left[x] ELSE D(k - 1)
    BY <2>1
  <2> HIDE DEF g, l
  <2>3. CASE k < i + 1
    <3>1. k \in 1..N /\ r[k] = s[k] /\ Due(r, l, k) = Due(s, left, k)
      BY <1>1, <1>3, <1>4, <2>1, <2>2, <2>3 DEF D
    <3> QED  BY <3>1 DEF Kept, N
  <2>4. CASE k = i + 1
    BY <1>3, <1>4, <2>1, <2>2, <2>4
  <2>5. CASE k > i + 1
    <3>1. k - 1 \in 1..N /\ r[k] = s[k - 1] /\ Due(r, l, k) = Due(s, left, k - 1)
      BY <1>1, <1>3, <1>4, <2>1, <2>2, <2>5 DEF D
    <3> QED  BY <3>1 DEF Kept, N
  <2> QED  BY <1>3, <2>3, <2>4, <2>5
<1>19. ASSUME s # <<>>, left[Head(s)] <= left[x]
       PROVE  r # <<>> /\ Head(r) = Head(s) /\ l[Head(s)] = left[Head(s)]
  <2>1. N >= 1 /\ Head(s) = s[1] /\ 1 \in 1..N
    BY <1>19, HeadInRange DEF N
  <2>2. D(1) = left[s[1]]
    <3>1. D(1) = D(1 - 1) + left[s[1]] /\ 1 - 1 = 0 /\ left[s[1]] \in Int
      BY <1>3, <1>5, <2>1
    <3> QED  BY <1>5, <3>1
  <2>3. i # 0
    <3> SUFFICES ASSUME i = 0 PROVE FALSE
      OBVIOUS
    <3>1. D(1) > left[x] /\ left[s[1]] \in Int /\ left[x] \in Int
      BY <1>3, <1>6, <1>9, <2>1
    <3> QED  BY <1>19, <2>1, <2>2, <3>1
  <2>4. r[1] = s[1] /\ r # <<>>
    BY <1>3, <1>4, <2>1, <2>3
  <2>5. Head(r) = r[1]
    BY <1>4, <2>4, HeadInRange
  <2>6. l[s[1]] = left[s[1]]
    <3>1. i < N => i + 1 \in 1..N /\ i + 1 # 1
      BY <1>3, <2>3
    <3> QED  BY <1>3, <1>7, <1>8, <2>1, <3>1
  <2> HIDE DEF l
  <2> QED  BY <2>1, <2>4, <2>5, <2>6
<1> HIDE DEF l, g
<1>20. Insert(s, left, x).s = r /\ Insert(s, left, x).left = l
  BY <1>2
<1> QED
  BY <1>4, <1>11, <1>15, <1>16, <1>17, <1>18, <1>19, <1>20 DEF Inserted

\* An entry taken out of the list leaves the others due as they were.
LEMMA UnlinkDue ==
    ASSUME NEW s \in Seq(Timer), IsInjective(s), NEW left \in [Timer -> Nat],
           NEW x \in Timer, x \in Range(s)
    PROVE  LET r == Unlink(s, left, x).s
               l == Unlink(s, left, x).left
           IN  /\ r \in Seq(Timer) /\ IsInjective(r) /\ Range(r) = Range(s) \ {x}
               /\ l \in [Timer -> Nat]
               /\ \A y \in Timer : y \notin Range(s) => l[y] = left[y]
               /\ \A k \in 1..Len(r) : Kept(s, left, r, l, k)
               /\ s # <<>> /\ Head(s) # x =>
                    r # <<>> /\ Head(r) = Head(s) /\ l[Head(s)] = left[Head(s)]
<1> DEFINE D(k) == Due(s, left, k)
           N == Len(s)
<1>1. PICK i \in 1..N : s[i] = x /\ i = CHOOSE k \in 1..N : s[k] = x
  <2>1. \E k \in 1..N : s[k] = x
    BY RangeOfChain
  <2> HIDE DEF N
  <2> QED  BY <2>1
<1> DEFINE r == RemoveAt(s, i)
           l == [y \in Timer |-> IF i < N /\ y = s[i + 1] THEN left[y] + left[x]
                                 ELSE left[y]]
<1>2. Unlink(s, left, x) = [s |-> r, left |-> l]
  BY <1>1 DEF Unlink
<1>3. N \in Nat /\ N >= 1 /\ i \in Nat /\ left \in [Timer -> Int]
      /\ \A k \in 1..N : s[k] \in Timer
  OBVIOUS
<1>4. /\ r \in Seq(Timer) /\ Len(r) = N - 1
      /\ \A k \in 1..(N - 1) : r[k] = IF k < i THEN s[k] ELSE s[k + 1]
  BY RemoveAtProperties
<1>5. /\ D(0) = 0 /\ \A k \in 1..N : D(k) = D(k - 1) + left[s[k]]
      /\ \A k \in 0..N : D(k) \in Int
  BY <1>3, DueIs
<1>6. \A j, k \in 1..N : s[j] = s[k] => j = k
  BY Distinct
<1>7. IsInjective(r) /\ Range(r) = Range(s) \ {x}
  BY <1>1, RemoveAtInjective
<1>8. Range(s) = {s[k] : k \in 1..N}
  BY RangeOfChain
<1> HIDE DEF N, r, D
<1>9. l \in [Timer -> Nat]
  OBVIOUS
<1> DEFINE g == [k \in 0..(N - 1) |-> IF k < i THEN D(k) ELSE D(k + 1)]
<1>10. g[0] = 0
  BY <1>1, <1>3, <1>5
<1>11. ASSUME NEW k \in 1..(N - 1)
       PROVE  g[k] = g[k - 1] + l[r[k]]
  <2>1. k \in 0..(N - 1) /\ k - 1 \in 0..(N - 1)
    BY <1>3
  <2>2. CASE k < i
    <3>1. k - 1 < i /\ k \in 1..N /\ k # i + 1 /\ (i < N => i + 1 \in 1..N)
      BY <1>1, <1>3, <2>2
    <3>2. g[k] = D(k) /\ g[k - 1] = D(k - 1) /\ r[k] = s[k]
      BY <1>4, <2>1, <2>2, <3>1
    <3>3. l[s[k]] = left[s[k]]
      BY <1>3, <1>6, <3>1
    <3> HIDE DEF g, l
    <3> QED  BY <1>5, <3>1, <3>2, <3>3
  <2>3. CASE k = i
    <3>1. /\ k - 1 < i /\ ~(k < i) /\ i < N /\ i + 1 \in 1..N /\ (i + 1) - 1 = i
          /\ i - 1 \in 0..N /\ i \in 0..N
      BY <1>1, <1>3, <2>3
    <3>2. g[k] = D(i + 1) /\ g[k - 1] = D(i - 1) /\ r[k] = s[i + 1]
      BY <1>4, <2>1, <2>3, <3>1
    <3>3. l[s[i + 1]] = left[s[i + 1]] + left[x]
      BY <1>3, <3>1
    <3>4. D(i + 1) = D(i) + left[s[i + 1]] /\ D(i) = D(i - 1) + left[x]
          /\ D(i - 1) \in Int /\ left[x] \in Int /\ left[s[i + 1]] \in Int
      BY <1>1, <1>3, <1>5, <3>1
    <3> HIDE DEF g, l
    <3> QED  BY <3>2, <3>3, <3>4
  <2>4. CASE k > i
    <3>1. /\ ~(k < i) /\ ~(k - 1 < i) /\ k + 1 \in 1..N /\ k + 1 # i + 1
          /\ (k - 1) + 1 = k /\ (k + 1) - 1 = k /\ (i < N => i + 1 \in 1..N)
      BY <1>1, <1>3, <2>4
    <3>2. g[k] = D(k + 1) /\ g[k - 1] = D(k) /\ r[k] = s[k + 1]
      BY <1>4, <2>1, <3>1
    <3>3. l[s[k + 1]] = left[s[k + 1]]
      BY <1>3, <1>6, <3>1
    <3> HIDE DEF g, l
    <3> QED  BY <1>5, <3>1, <3>2, <3>3
  <2> QED  BY <1>3, <2>2, <2>3, <2>4
<1>12. \A k \in 0..(N - 1) : Due(r, l, k) = g[k]
  <2>1. l \in [Timer -> Int]
    BY <1>9
  <2> HIDE DEF g, l
  <2>2. AddsUp(g, r, l)
    BY <1>4, <1>10, <1>11 DEF AddsUp
  <2>3. \A k \in 0..Len(r) : Due(r, l, k) = g[k]
    <3>1. r \in Seq(Timer)
      BY <1>4
    <3> QED  BY <2>1, <2>2, <3>1, DueUnique, Zenon
  <2> QED  BY <1>4, <2>3
<1>13. \A y \in Timer : y \notin Range(s) => l[y] = left[y]
  <2>1. i < N => i + 1 \in 1..N
    BY <1>3
  <2> QED  BY <1>8, <2>1
<1>14. ASSUME NEW k \in 1..(N - 1)
       PROVE  Kept(s, left, r, l, k)
  <2>1. Due(r, l, k) = g[k] /\ k \in 0..(N - 1)
    BY <1>3, <1>12
  <2>2. g[k] = IF k < i THEN D(k) ELSE D(k + 1)
    BY <2>1
  <2> HIDE DEF g, l
  <2>3. CASE k < i
    <3>1. k \in 1..N /\ r[k] = s[k] /\ Due(r, l, k) = Due(s, left, k)
      BY <1>1, <1>3, <1>4, <2>1, <2>2, <2>3 DEF D
    <3> QED  BY <3>1 DEF Kept, N
  <2>4. CASE ~(k < i)
    <3>1. k + 1 \in 1..N /\ r[k] = s[k + 1] /\ Due(r, l, k) = Due(s, left, k + 1)
      BY <1>1, <1>3, <1>4, <2>1, <2>2, <2>4 DEF D
    <3> QED  BY <3>1 DEF Kept, N
  <2> QED  BY <2>3, <2>4
<1>15. ASSUME s # <<>>, Head(s) # x
       PROVE  r # <<>> /\ Head(r) = Head(s) /\ l[Head(s)] = left[Head(s)]
  <2>1. N >= 1 /\ Head(s) = s[1] /\ 1 \in 1..N
    BY <1>15, HeadInRange DEF N
  <2>2. i # 1 /\ i > 1 /\ 1 \in 1..(N - 1)
    BY <1>1, <1>3, <1>15, <2>1
  <2>3. r[1] = s[1] /\ r # <<>>
    BY <1>3, <1>4, <2>2
  <2>4. Head(r) = r[1]
    BY <1>4, <2>3, HeadInRange
  <2>5. l[s[1]] = left[s[1]]
    <3>1. i < N => i + 1 \in 1..N /\ i + 1 # 1
      BY <1>3
    <3> QED  BY <1>3, <1>6, <2>1, <3>1
  <2> HIDE DEF l
  <2> QED  BY <2>1, <2>3, <2>4, <2>5
<1> HIDE DEF l, g
<1>16. Unlink(s, left, x).s = r /\ Unlink(s, left, x).left = l
  BY <1>2
<1> QED
  BY <1>4, <1>7, <1>9, <1>13, <1>14, <1>15, <1>16

\* An entry that moves within the list, or comes into it, is due after t ticks;
\* the others stay due as they were, and the first stays first if it has to.
Relinked(s, left, x, t, r, l) ==
    /\ r \in Seq(Timer) /\ IsInjective(r) /\ Range(r) = Range(s) \cup {x}
    /\ l \in [Timer -> Nat]
    /\ \A y \in Timer : y \notin Range(r) => l[y] = left[y]
    /\ \A k \in 1..Len(r) :
         (r[k] = x /\ Due(r, l, k) = t) \/ (r[k] # x /\ Kept(s, left, r, l, k))
    /\ s # <<>> /\ Head(s) # x /\ left[Head(s)] <= t =>
         r # <<>> /\ Head(r) = Head(s) /\ l[Head(s)] = left[Head(s)]

LEMMA InsertNew ==
    ASSUME NEW s \in Seq(Timer), IsInjective(s), NEW left \in [Timer -> Nat],
           NEW x \in Timer, x \notin Range(s), NEW t \in Nat,
           NEW q, q = Insert(s, [left EXCEPT ![x] = t], x)
    PROVE  Relinked(s, left, x, t, q.s, q.left)
<1> DEFINE m == [left EXCEPT ![x] = t]
           r == q.s
           l == q.left
<1>1. /\ m \in [Timer -> Nat] /\ m[x] = t /\ \A y \in Timer : y # x => m[y] = left[y]
      /\ left \in [Timer -> Int] /\ m \in [Timer -> Int]
  OBVIOUS
<1>2. \A k \in 1..Len(s) : s[k] \in Timer /\ s[k] \in Range(s) /\ s[k] # x
  BY RangeOfChain
<1>3. q = Insert(s, m, x)
  OBVIOUS
<1> HIDE DEF m
<1>4. \A k \in 0..Len(s) : Due(s, m, k) = Due(s, left, k)
  <2>1. \A k \in 1..Len(s) : m[s[k]] = left[s[k]]
    BY <1>1, <1>2
  <2> QED  BY <1>1, <2>1, DueAgrees, SMTT(30)
<1>5. /\ r \in Seq(Timer) /\ IsInjective(r) /\ Range(r) = Range(s) \cup {x}
      /\ l \in [Timer -> Nat]
      /\ \A y \in Timer : y \notin Range(r) => l[y] = m[y]
      /\ \A k \in 1..Len(r) :
           (r[k] = x /\ Due(r, l, k) = m[x]) \/ Kept(s, m, r, l, k)
      /\ s # <<>> /\ m[Head(s)] <= m[x] =>
           r # <<>> /\ Head(r) = Head(s) /\ l[Head(s)] = m[Head(s)]
  <2>1. m \in [Timer -> Nat]
    BY <1>1
  <2>2. Inserted(s, m, x, r, l)
    BY <1>3, <2>1, InsertDue
  <2> QED  BY <2>2 DEF Inserted
<1> HIDE DEF r, l
<1>6. ASSUME NEW k \in 1..Len(r)
      PROVE  (r[k] = x /\ Due(r, l, k) = t) \/ (r[k] # x /\ Kept(s, left, r, l, k))
  <2>1. CASE r[k] = x /\ Due(r, l, k) = m[x]
    BY <1>1, <2>1
  <2>2. CASE Kept(s, m, r, l, k)
    <3>1. PICK j \in 1..Len(s) : r[k] = s[j] /\ Due(r, l, k) = Due(s, m, j)
      BY <2>2 DEF Kept
    <3>2. j \in 0..Len(s)
      OBVIOUS
    <3>3. r[k] # x /\ Due(r, l, k) = Due(s, left, j)
      BY <1>2, <1>4, <3>1, <3>2
    <3> QED  BY <3>1, <3>3 DEF Kept
  <2> QED  BY <1>5, <2>1, <2>2
<1>7. ASSUME s # <<>>, Head(s) # x, left[Head(s)] <= t
      PROVE  r # <<>> /\ Head(r) = Head(s) /\ l[Head(s)] = left[Head(s)]
  <2>1. Head(s) \in Timer
    BY <1>7, HeadInRange
  <2>2. m[Head(s)] = left[Head(s)]
    BY <1>1, <1>7, <2>1
  <2> QED  BY <1>1, <1>5, <1>7, <2>2
<1>8. \A y \in Timer : y \notin Range(r) => l[y] = left[y]
  BY <1>1, <1>5
<1> QED
  BY <1>5, <1>6, <1>7, <1>8 DEF Relinked, r, l

LEMMA InsertAgain ==
    ASSUME NEW s \in Seq(Timer), IsInjective(s), NEW left \in [Timer -> Nat],
           NEW x \in Timer, x \in Range(s), NEW t \in Nat,
           NEW u, u = Unlink(s, left, x),
           NEW q, q = Insert(u.s, [u.left EXCEPT ![x] = t], x)
    PROVE  Relinked(s, left, x, t, q.s, q.left)
<1> DEFINE w == u.s
           m == u.left
           r == q.s
           l == q.left
<1>1. /\ w \in Seq(Timer) /\ IsInjective(w) /\ Range(w) = Range(s) \ {x}
      /\ m \in [Timer -> Nat]
      /\ \A y \in Timer : y \notin Range(s) => m[y] = left[y]
      /\ \A k \in 1..Len(w) : Kept(s, left, w, m, k)
      /\ s # <<>> /\ Head(s) # x =>
           w # <<>> /\ Head(w) = Head(s) /\ m[Head(s)] = left[Head(s)]
  BY UnlinkDue
<1>2. q = Insert(w, [m EXCEPT ![x] = t], x)
  OBVIOUS
<1> HIDE DEF w, m
<1>3. Relinked(w, m, x, t, r, l)
  BY <1>1, <1>2, InsertNew
<1> HIDE DEF r, l
<1>4. /\ r \in Seq(Timer) /\ IsInjective(r) /\ Range(r) = Range(s) \cup {x}
      /\ l \in [Timer -> Nat]
  BY <1>1, <1>3 DEF Relinked
<1>5. \A y \in Timer : y \notin Range(r) => l[y] = left[y]
  BY <1>1, <1>3, <1>4 DEF Relinked
<1>6. ASSUME NEW k \in 1..Len(r)
      PROVE  (r[k] = x /\ Due(r, l, k) = t) \/ (r[k] # x /\ Kept(s, left, r, l, k))
  <2>1. CASE r[k] = x /\ Due(r, l, k) = t
    BY <2>1
  <2>2. CASE r[k] # x /\ Kept(w, m, r, l, k)
    <3>1. PICK j \in 1..Len(w) : r[k] = w[j] /\ Due(r, l, k) = Due(w, m, j)
      BY <2>2 DEF Kept
    <3>2. PICK i \in 1..Len(s) : w[j] = s[i] /\ Due(w, m, j) = Due(s, left, i)
      BY <1>1 DEF Kept
    <3> QED  BY <2>2, <3>1, <3>2 DEF Kept
  <2> QED  BY <1>3, <2>1, <2>2 DEF Relinked
<1>7. ASSUME s # <<>>, Head(s) # x, left[Head(s)] <= t
      PROVE  r # <<>> /\ Head(r) = Head(s) /\ l[Head(s)] = left[Head(s)]
  BY <1>1, <1>3, <1>7 DEF Relinked
<1> QED
  BY <1>4, <1>5, <1>6, <1>7 DEF Relinked, r, l

\* No entry has a negative time.
LEMMA DueNat ==
    ASSUME NEW s \in Seq(Timer), NEW left \in [Timer -> Nat]
    PROVE  \A k \in 0..Len(s) : Due(s, left, k) \in Nat
<1> DEFINE S == {k \in 0..Len(s) : Due(s, left, k) \in Nat}
<1>1. Len(s) \in Nat /\ left \in [Timer -> Int] /\ \A k \in 1..Len(s) : left[s[k]] \in Nat
  OBVIOUS
<1>2. /\ Due(s, left, 0) = 0
      /\ \A k \in 1..Len(s) : Due(s, left, k) = Due(s, left, k - 1) + left[s[k]]
  BY <1>1, DueIs
<1>3. 0 \in S
  BY <1>1, <1>2
<1>4. ASSUME NEW k \in 0..(Len(s) - 1), k \in S
      PROVE  k + 1 \in S
  <2>1. k + 1 \in 1..Len(s) /\ k + 1 \in 0..Len(s) /\ (k + 1) - 1 = k
    BY <1>1
  <2>2. Due(s, left, k + 1) = Due(s, left, k) + left[s[k + 1]]
        /\ left[s[k + 1]] \in Nat /\ Due(s, left, k) \in Nat
    BY <1>1, <1>2, <1>4, <2>1
  <2> QED  BY <2>1, <2>2
<1>5. \A k \in 0..Len(s) : k \in S
  <2> HIDE DEF S
  <2> QED  BY <1>1, <1>3, <1>4, UpTo
<1> QED
  BY <1>5

\* The ticks of an entry are not more than the time it is due at.
LEMMA LeftBounded ==
    ASSUME NEW s \in Seq(Timer), NEW left \in [Timer -> Nat], NEW m \in Nat,
           \A k \in 1..Len(s) : Due(s, left, k) \in 0..m,
           \A y \in Timer : y \notin Range(s) => left[y] \in 0..m
    PROVE  left \in [Timer -> 0..m]
<1>1. Len(s) \in Nat /\ left \in [Timer -> Int] /\ \A k \in 1..Len(s) : left[s[k]] \in Nat
  OBVIOUS
<1>2. /\ \A k \in 1..Len(s) : Due(s, left, k) = Due(s, left, k - 1) + left[s[k]]
      /\ \A k \in 0..Len(s) : Due(s, left, k) \in Nat
  BY <1>1, DueIs, DueNat
<1>3. ASSUME NEW k \in 1..Len(s)
      PROVE  left[s[k]] \in 0..m
  <2>1. k - 1 \in 0..Len(s) /\ k \in 0..Len(s)
    BY <1>1
  <2>2. Due(s, left, k) = Due(s, left, k - 1) + left[s[k]] /\ Due(s, left, k) \in 0..m
    BY <1>2
  <2>3. Due(s, left, k - 1) \in Nat /\ left[s[k]] \in Nat
    BY <1>1, <1>2, <2>1
  <2> QED  BY <2>2, <2>3
<1>4. \A y \in Range(s) : left[y] \in 0..m
  BY <1>3, RangeOfChain
<1> QED
  BY <1>4

-----------------------------------------------------------------------------
(***************************************************************************)
(* The inductive invariant.                                                *)
(***************************************************************************)
Types ==
    /\ TypeOK
    /\ interval \in [Timer -> Nat] /\ age \in [Timer -> Int] /\ charged \in [Timer -> Nat]

\* The list has every object once and no released one; a caller's own object
\* is never released.
Objects ==
    /\ IsInjective(nutTimerList)
    /\ Range(nutTimerList) \subseteq allocated
    /\ Own \subseteq allocated

\* A timer that will call back is on the list, and is periodic with the
\* interval it was started with or not at all; a stopped one is not periodic.
RunningListed ==
    \A x \in Timer :
        /\ tn_callback[x] => /\ x \in Range(nutTimerList)
                             /\ interval[x] \in Interval
                             /\ tn_ticks[x] \in {0, interval[x]}
        /\ ~tn_callback[x] => tn_ticks[x] = 0

\* The timer whose callback is running stays first of the list and elapsed,
\* whatever the callback starts and stops.
Processing ==
    /\ Lag + ticks_new <= MaxLag
    /\ pc = "thread" => ticks_new = 0
    /\ pc \in {"callback", "remove"} =>
         nutTimerList # <<>> /\ tn = Head(nutTimerList) /\ tn_ticks_left[tn] = 0

\* A running timer that is due after d more processed ticks has d ticks to go.
Good(y, d) ==
    /\ d \in 0..(TickMod - 1)
    /\ tn_callback[y] => d + age[y] + charged[y] = interval[y] + Lag + ticks_new

Entries ==
    \A k \in 1..Len(nutTimerList) :
        Good(nutTimerList[k], Due(nutTimerList, tn_ticks_left, k))

TimerIInv == Types /\ Objects /\ RunningListed /\ Processing /\ Entries

LEMMA TimerConstants ==
    /\ Own \subseteq Timer /\ Interval \subseteq Nat \ {0} /\ NULL \notin Timer
    /\ TickMod \in Nat \ {0} /\ MaxLag \in 1..(TickMod - 1) /\ MaxLag \in Nat
    /\ TickMod - 1 \in Nat
    /\ \A n \in Interval : n \in Nat /\ n > 0 /\ n + MaxLag < TickMod
                           /\ n \in 0..(TickMod - 1)
<1>1. /\ Own \subseteq Timer /\ Interval \subseteq Nat \ {0} /\ NULL \notin Timer
      /\ TickMod \in Nat /\ MaxLag \in 1..(TickMod - 1)
      /\ \A n \in Interval : n + MaxLag < TickMod
  BY TimerAssumption
<1>2. TickMod \in Nat \ {0} /\ MaxLag \in Nat /\ TickMod - 1 \in Nat
  BY <1>1
<1>3. ASSUME NEW n \in Interval
      PROVE  n \in Nat /\ n > 0 /\ n + MaxLag < TickMod /\ n \in 0..(TickMod - 1)
  <2>1. n \in Nat \ {0} /\ n + MaxLag < TickMod
    BY <1>1
  <2> QED  BY <1>1, <1>2, <2>1
<1> QED
  BY <1>1, <1>2, <1>3

\* What the ticks of the clock are, in every state the invariant allows.
LEMMA LagType ==
    ASSUME TimerIInv
    PROVE  Clock /\ Lag \in Nat /\ ticks_new \in Nat /\ Lag <= MaxLag
           /\ tn_ticks_left \in [Timer -> Nat] /\ nutTimerList \in Seq(Timer)
<1>1. Clock /\ ticks_new \in 0..MaxLag /\ Lag + ticks_new <= MaxLag
      /\ tn_ticks_left \in [Timer -> 0..(TickMod - 1)] /\ nutTimerList \in Seq(Timer)
  BY DEF TimerIInv, Types, TypeOK, Clock, Processing
<1>2. Lag \in 0..(TickMod - 1)
  BY <1>1, LagIs
<1>3. Lag \in Nat /\ ticks_new \in Nat
  BY <1>1, <1>2, TimerConstants
<1>4. \A v \in 0..(TickMod - 1) : v \in Nat
  BY TimerConstants
<1> QED
  BY <1>1, <1>3, <1>4, TimerConstants

LEMMA TimerInitOK ==
    ASSUME Init
    PROVE  TimerIInv
<1>1. Types
  BY TimerConstants DEF Init, Types, TypeOK
<1>2. Objects
  BY EmptyChain DEF Init, Objects
<1>3. RunningListed
  BY DEF Init, RunningListed
<1>4. Processing
  <2>1. Clock
    BY TimerConstants DEF Init, Clock
  <2>2. Lag = 0
    BY <2>1, LagIs DEF Init
  <2> QED  BY <2>2, TimerConstants DEF Init, Processing
<1>5. Entries
  BY DEF Init, Entries
<1> QED
  BY <1>1, <1>2, <1>3, <1>4, <1>5 DEF TimerIInv

\* NutTimerIntr: every running timer ages by the tick that is still to be
\* processed.
LEMMA IntrKeeps ==
    ASSUME TimerIInv, NutTimerIntr
    PROVE  TimerIInv'
<1>1. Clock /\ Lag \in Nat /\ ticks_new \in Nat
  BY LagType
<1>2. Lag + ticks_new < MaxLag
  <2>1. pc = "thread" => ticks_new = 0
    BY DEF TimerIInv, Processing
  <2> QED  BY <1>1, <2>1 DEF NutTimerIntr
<1>3. Clock' /\ Lag' = Lag + 1
  <2>1. Lag < MaxLag
    BY <1>1, <1>2, TimerConstants
  <2> QED  BY <1>1, <2>1, TickLag DEF NutTimerIntr
<1>4. /\ UNCHANGED <<nutTimerList, tn_ticks_left, tn_ticks, tn_callback, allocated,
                     ticks_new, pc, tn, interval, charged>>
      /\ age' = [x \in Timer |-> IF interval[x] > 0 THEN age[x] + 1 ELSE 0]
  BY DEF NutTimerIntr, list, local
<1>5. Types'
  <2>1. Types
    BY DEF TimerIInv
  <2>2. age' \in [Timer -> Int]
    BY <1>4, <2>1 DEF Types
  <2>3. TypeOK'
    BY <1>3, <1>4, <2>1 DEF Types, TypeOK, Clock
  <2> QED  BY <1>4, <2>1, <2>2, <2>3 DEF Types
<1>6. Objects' /\ RunningListed'
  BY <1>4 DEF TimerIInv, Objects, RunningListed
<1>7. Processing'
  <2>1. Lag' + ticks_new' <= MaxLag
    BY <1>1, <1>2, <1>3, <1>4, TimerConstants
  <2> QED  BY <1>4, <2>1 DEF TimerIInv, Processing
<1>8. ASSUME NEW y \in Timer, NEW d, Good(y, d)
      PROVE  Good(y, d)'
  <2>1. CASE tn_callback[y]
    <3>1. interval[y] \in Interval
      BY <2>1 DEF TimerIInv, RunningListed
    <3>2. interval[y] > 0 /\ interval[y] \in Nat
      BY <3>1, TimerConstants
    <3>3. age'[y] = age[y] + 1
      BY <1>4, <3>2
    <3>4. age[y] \in Int /\ charged[y] \in Nat /\ d \in Int
      BY <1>8, TimerConstants DEF TimerIInv, Types, Good
    <3>5. d + age[y] + charged[y] = interval[y] + Lag + ticks_new
      BY <1>8, <2>1 DEF Good
    <3>6. d + (age[y] + 1) + charged[y] = interval[y] + (Lag + 1) + ticks_new
      BY <1>1, <3>2, <3>4, <3>5
    <3> QED  BY <1>3, <1>4, <1>8, <3>3, <3>6 DEF Good
  <2>2. CASE ~tn_callback[y]
    BY <1>4, <1>8, <2>2 DEF Good
  <2> QED  BY <2>1, <2>2
<1>9. Entries'
  <2> SUFFICES ASSUME NEW k \in 1..Len(nutTimerList)
               PROVE  Good(nutTimerList[k], Due(nutTimerList, tn_ticks_left, k))'
    BY <1>4 DEF Entries
  <2>1. Good(nutTimerList[k], Due(nutTimerList, tn_ticks_left, k))
    BY DEF TimerIInv, Entries
  <2>2. nutTimerList[k] \in Timer
    BY LagType
  <2> QED  BY <1>4, <1>8, <2>1, <2>2 DEF Good
<1> QED
  BY <1>5, <1>6, <1>7, <1>9 DEF TimerIInv

\* A timer is put where it will be due; the others keep their deadlines and the
\* one that is being processed its place.
LEMMA RelinkKeeps ==
    ASSUME TimerIInv, NEW x \in Timer, NEW t \in 0..(TickMod - 1),
           Relinked(nutTimerList, tn_ticks_left, x, t, nutTimerList', tn_ticks_left'),
           UNCHANGED <<clock, local>>,
           pc \in {"callback", "remove"} => x # tn,
           \A y \in Timer : y # x => /\ tn_callback'[y] = tn_callback[y]
                                     /\ interval'[y] = interval[y]
                                     /\ age'[y] = age[y] /\ charged'[y] = charged[y],
           tn_callback'[x] => t + age'[x] + charged'[x] = interval'[x] + Lag + ticks_new
    PROVE  /\ nutTimerList' \in Seq(Timer) /\ IsInjective(nutTimerList')
           /\ Range(nutTimerList') = Range(nutTimerList) \cup {x}
           /\ tn_ticks_left' \in [Timer -> 0..(TickMod - 1)]
           /\ Processing' /\ Entries'
<1> DEFINE r == nutTimerList'
           l == tn_ticks_left'
<1>1. /\ r \in Seq(Timer) /\ IsInjective(r) /\ Range(r) = Range(nutTimerList) \cup {x}
      /\ l \in [Timer -> Nat]
      /\ \A y \in Timer : y \notin Range(r) => l[y] = tn_ticks_left[y]
      /\ \A k \in 1..Len(r) :
           \/ r[k] = x /\ Due(r, l, k) = t
           \/ r[k] # x /\ Kept(nutTimerList, tn_ticks_left, r, l, k)
      /\ nutTimerList # <<>> /\ Head(nutTimerList) # x
         /\ tn_ticks_left[Head(nutTimerList)] <= t =>
           r # <<>> /\ Head(r) = Head(nutTimerList)
           /\ l[Head(nutTimerList)] = tn_ticks_left[Head(nutTimerList)]
  BY DEF Relinked
<1>2. Lag' = Lag /\ ticks_new' = ticks_new /\ pc' = pc /\ tn' = tn
  BY DEF Lag, clock, local
<1>3. Good(x, t)'
  BY <1>2 DEF Good
<1>4. ASSUME NEW y \in Timer, NEW d, y # x, Good(y, d)
      PROVE  Good(y, d)'
  BY <1>2, <1>4 DEF Good
<1>5. ASSUME NEW k \in 1..Len(r)
      PROVE  Good(nutTimerList[k], Due(nutTimerList, tn_ticks_left, k))'
  <2>1. PICK y \in Timer : y = r[k]
    BY <1>1
  <2>2. PICK d : d = Due(r, l, k)
    OBVIOUS
  <2>3. CASE y = x /\ d = t
    BY <1>3, <2>1, <2>2, <2>3 DEF Good
  <2>4. CASE y # x /\ Kept(nutTimerList, tn_ticks_left, r, l, k)
    <3>1. PICK j \in 1..Len(nutTimerList) :
             y = nutTimerList[j] /\ d = Due(nutTimerList, tn_ticks_left, j)
      BY <2>1, <2>2, <2>4 DEF Kept
    <3>2. Good(nutTimerList[j], Due(nutTimerList, tn_ticks_left, j))
      BY DEF TimerIInv, Entries
    <3>3. Good(y, d)'
      BY <1>4, <2>4, <3>1, <3>2
    <3> QED  BY <2>1, <2>2, <3>3 DEF Good
  <2> QED  BY <1>1, <2>1, <2>2, <2>3, <2>4
<1>6. Entries'
  BY <1>5 DEF Entries
<1>7. \A k \in 1..Len(r) : Due(r, l, k) \in 0..(TickMod - 1)
  BY <1>5 DEF Good
<1>8. \A y \in Timer : y \notin Range(r) => l[y] \in 0..(TickMod - 1)
  BY <1>1 DEF TimerIInv, Types, TypeOK
<1>9. l \in [Timer -> 0..(TickMod - 1)]
  BY <1>1, <1>7, <1>8, LeftBounded, TimerConstants
<1>10. Processing'
  <2>1. ASSUME pc \in {"callback", "remove"}
        PROVE  r # <<>> /\ tn = Head(r) /\ l[tn] = 0
    <3>1. nutTimerList # <<>> /\ tn = Head(nutTimerList) /\ tn_ticks_left[tn] = 0
          /\ tn # x
      BY <2>1 DEF TimerIInv, Processing
    <3>2. 0 <= t
      BY TimerConstants
    <3> QED  BY <1>1, <3>1, <3>2
  <2> QED  BY <1>2, <2>1 DEF TimerIInv, Processing
<1> QED
  BY <1>1, <1>6, <1>9, <1>10

\* The common part of NutTimerStartTicks and NutTimerHandleStart.
LEMMA StartKeeps ==
    ASSUME TimerIInv, NEW x \in Timer, NEW n \in Interval, NEW oneshot \in BOOLEAN,
           NEW r, Start(x, n, oneshot, r),
           \/ x \notin Range(nutTimerList) /\ r = [s |-> nutTimerList, left |-> tn_ticks_left]
           \/ x \in Range(nutTimerList) /\ r = Unlink(nutTimerList, tn_ticks_left, x),
           pc \in {"callback", "remove"} => x # tn,
           allocated' \in SUBSET Timer, allocated \cup {x} \subseteq allocated'
    PROVE  TimerIInv'
<1> DEFINE t == FirstTicks(n)
<1>1. /\ Clock /\ Lag \in Nat /\ ticks_new \in Nat /\ Lag <= MaxLag
      /\ tn_ticks_left \in [Timer -> Nat] /\ nutTimerList \in Seq(Timer)
      /\ IsInjective(nutTimerList)
  BY LagType DEF TimerIInv, Objects
<1>2. /\ t = n + Lag /\ t \in 0..(TickMod - 1) /\ t \in Nat /\ n \in Nat /\ n > 0
      /\ ticks_new \in 0..MaxLag
  BY <1>1, FirstTicksIs, TimerConstants DEF TimerIInv, Types, TypeOK
<1> HIDE DEF t
<1>3. PICK q : /\ q = Insert(r.s, [r.left EXCEPT ![x] = t], x)
               /\ nutTimerList' = q.s /\ tn_ticks_left' = q.left
  BY DEF Start, SetList, t
<1>4. Relinked(nutTimerList, tn_ticks_left, x, t, q.s, q.left)
  <2>1. CASE x \notin Range(nutTimerList)
             /\ r = [s |-> nutTimerList, left |-> tn_ticks_left]
    <3>1. q = Insert(nutTimerList, [tn_ticks_left EXCEPT ![x] = t], x)
      BY <1>3, <2>1
    <3> QED  BY <1>1, <1>2, <2>1, <3>1, InsertNew
  <2>2. CASE x \in Range(nutTimerList) /\ r = Unlink(nutTimerList, tn_ticks_left, x)
    BY <1>1, <1>2, <1>3, <2>2, InsertAgain
  <2> QED  BY <2>1, <2>2
<1>5. /\ tn_ticks' = [tn_ticks EXCEPT ![x] = IF oneshot THEN 0 ELSE n]
      /\ tn_callback' = [tn_callback EXCEPT ![x] = TRUE]
      /\ interval' = [interval EXCEPT ![x] = n]
      /\ age' = [age EXCEPT ![x] = 0]
      /\ charged' = [charged EXCEPT ![x] = ticks_new]
      /\ UNCHANGED <<clock, local>>
  BY DEF Start
<1>6. Types
  BY DEF TimerIInv
<1>7. /\ tn_callback'[x] /\ interval'[x] = n /\ age'[x] = 0 /\ charged'[x] = ticks_new
      /\ tn_ticks'[x] \in {0, n}
      /\ \A y \in Timer : y # x => /\ tn_callback'[y] = tn_callback[y]
                                   /\ interval'[y] = interval[y]
                                   /\ age'[y] = age[y] /\ charged'[y] = charged[y]
                                   /\ tn_ticks'[y] = tn_ticks[y]
  BY <1>5, <1>6 DEF Types, TypeOK
<1>8. t + age'[x] + charged'[x] = interval'[x] + Lag + ticks_new
  BY <1>1, <1>2, <1>7
<1>9. /\ nutTimerList' \in Seq(Timer) /\ IsInjective(nutTimerList')
      /\ Range(nutTimerList') = Range(nutTimerList) \cup {x}
      /\ tn_ticks_left' \in [Timer -> 0..(TickMod - 1)]
      /\ Processing' /\ Entries'
  BY <1>2, <1>3, <1>4, <1>5, <1>7, <1>8, RelinkKeeps
<1>10. Types'
  <2>1. /\ tn_ticks' \in [Timer -> Interval \cup {0}]
        /\ tn_callback' \in [Timer -> BOOLEAN]
        /\ interval' \in [Timer -> Nat] /\ age' \in [Timer -> Int]
        /\ charged' \in [Timer -> Nat]
    BY <1>1, <1>2, <1>5, <1>6 DEF Types, TypeOK
  <2> QED  BY <1>5, <1>6, <1>9, <2>1 DEF Types, TypeOK, clock, local
<1>11. Objects'
  BY <1>9 DEF TimerIInv, Objects
<1>12. RunningListed'
  <2>1. ASSUME NEW y \in Timer, y # x
        PROVE  /\ tn_callback'[y] => /\ y \in Range(nutTimerList')
                                     /\ interval'[y] \in Interval
                                     /\ tn_ticks'[y] \in {0, interval'[y]}
               /\ ~tn_callback'[y] => tn_ticks'[y] = 0
    BY <1>7, <1>9, <2>1 DEF TimerIInv, RunningListed
  <2> QED  BY <1>7, <1>9, <2>1 DEF RunningListed
<1> QED
  BY <1>9, <1>10, <1>11, <1>12 DEF TimerIInv

\* NutTimerStartTicks: the new object is not on the list.
LEMMA StartTicksKeeps ==
    ASSUME TimerIInv, ~CallbackRestarts, NEW x \in Timer, NEW n \in Interval,
           NEW oneshot \in BOOLEAN, NutTimerStartTicks(x, n, oneshot)
    PROVE  TimerIInv'
<1>1. x \notin Range(nutTimerList)
  BY DEF NutTimerStartTicks, TimerIInv, Objects
<1>2. pc \in {"callback", "remove"} => x # tn
  BY DEF NutTimerStartTicks, MayStart
<1>3. allocated' \in SUBSET Timer /\ allocated \cup {x} \subseteq allocated'
  BY DEF NutTimerStartTicks, TimerIInv, Types, TypeOK
<1> QED
  BY <1>1, <1>2, <1>3, StartKeeps DEF NutTimerStartTicks

\* NutTimerHandleStart: a running timer leaves its old place first.
LEMMA HandleStartKeeps ==
    ASSUME TimerIInv, ~CallbackRestarts, NEW x \in Timer, NEW n \in Interval,
           NEW oneshot \in BOOLEAN, NutTimerHandleStart(x, n, oneshot)
    PROVE  TimerIInv'
<1>1. Contains(nutTimerList, x) <=> x \in Range(nutTimerList)
  BY LagType, RangeOfChain DEF Contains
<1>2. pc \in {"callback", "remove"} => x # tn
  BY DEF NutTimerHandleStart, MayStart
<1>3. allocated' \in SUBSET Timer /\ allocated \cup {x} \subseteq allocated'
  BY DEF NutTimerHandleStart, TimerIInv, Types, TypeOK, Objects
<1>4. CASE x \in Range(nutTimerList)
  <2>1. Start(x, n, oneshot, Unlink(nutTimerList, tn_ticks_left, x))
    BY <1>1, <1>4 DEF NutTimerHandleStart
  <2> QED  BY <1>2, <1>3, <1>4, <2>1, StartKeeps
<1>5. CASE x \notin Range(nutTimerList)
  <2>1. Start(x, n, oneshot, [s |-> nutTimerList, left |-> tn_ticks_left])
    BY <1>1, <1>5 DEF NutTimerHandleStart
  <2> QED  BY <1>2, <1>3, <1>5, <2>1, StartKeeps
<1> QED
  BY <1>4, <1>5

\* NutTimerStop: the entry moves to where it is due at once, or stays there, and
\* will not call back.
LEMMA StopKeeps ==
    ASSUME TimerIInv, NEW x \in Timer, NutTimerStop(x)
    PROVE  TimerIInv'
<1>1. /\ Clock /\ Lag \in Nat /\ ticks_new \in Nat
      /\ tn_ticks_left \in [Timer -> Nat] /\ nutTimerList \in Seq(Timer)
      /\ IsInjective(nutTimerList) /\ Types
  BY LagType DEF TimerIInv, Objects
<1>2. x \in Range(nutTimerList)
  BY DEF NutTimerStop, TimerIInv, RunningListed
<1>3. /\ tn_ticks' = [tn_ticks EXCEPT ![x] = 0]
      /\ tn_callback' = [tn_callback EXCEPT ![x] = FALSE]
      /\ interval' = [interval EXCEPT ![x] = 0]
      /\ age' = [age EXCEPT ![x] = 0]
      /\ charged' = [charged EXCEPT ![x] = 0]
      /\ UNCHANGED <<allocated, clock, local>>
  BY DEF NutTimerStop, Forget
<1>4. /\ ~tn_callback'[x] /\ tn_ticks'[x] = 0
      /\ \A y \in Timer : y # x => /\ tn_callback'[y] = tn_callback[y]
                                   /\ interval'[y] = interval[y]
                                   /\ age'[y] = age[y] /\ charged'[y] = charged[y]
                                   /\ tn_ticks'[y] = tn_ticks[y]
  BY <1>1, <1>3 DEF Types, TypeOK
<1>5. /\ nutTimerList' \in Seq(Timer) /\ IsInjective(nutTimerList')
      /\ Range(nutTimerList') = Range(nutTimerList)
      /\ tn_ticks_left' \in [Timer -> 0..(TickMod - 1)]
      /\ Processing' /\ Entries'
  <2>1. CASE tn_ticks_left[x] > 0
    <3>1. PICK u : u = Unlink(nutTimerList, tn_ticks_left, x)
      OBVIOUS
    <3>2. PICK q : /\ q = Insert(u.s, [u.left EXCEPT ![x] = 0], x)
                   /\ nutTimerList' = q.s /\ tn_ticks_left' = q.left
      BY <2>1, <3>1 DEF NutTimerStop, SetList
    <3>3. Relinked(nutTimerList, tn_ticks_left, x, 0, q.s, q.left)
      BY <1>1, <1>2, <3>1, <3>2, InsertAgain
    <3>4. pc \in {"callback", "remove"} => x # tn
      <4>1. pc \in {"callback", "remove"} => tn_ticks_left[tn] = 0
        BY DEF TimerIInv, Processing
      <4> QED  BY <2>1, <4>1
    <3>5. 0 \in 0..(TickMod - 1)
      BY TimerConstants
    <3>6. /\ nutTimerList' \in Seq(Timer) /\ IsInjective(nutTimerList')
          /\ Range(nutTimerList') = Range(nutTimerList) \cup {x}
          /\ tn_ticks_left' \in [Timer -> 0..(TickMod - 1)]
          /\ Processing' /\ Entries'
      BY <1>3, <1>4, <3>2, <3>3, <3>4, <3>5, RelinkKeeps
    <3> QED  BY <1>2, <3>6
  <2>2. CASE ~(tn_ticks_left[x] > 0)
    <3>1. UNCHANGED <<nutTimerList, tn_ticks_left>>
      BY <2>2 DEF NutTimerStop, list
    <3>2. Lag' = Lag /\ ticks_new' = ticks_new /\ pc' = pc /\ tn' = tn
      BY <1>3 DEF Lag, clock, local
    <3>3. ASSUME NEW y \in Timer, NEW d, Good(y, d)
          PROVE  Good(y, d)'
      BY <1>4, <3>2, <3>3 DEF Good
    <3>4. ASSUME NEW k \in 1..Len(nutTimerList)
          PROVE  Good(nutTimerList[k], Due(nutTimerList, tn_ticks_left, k))'
      <4>1. PICK y \in Timer : y = nutTimerList[k]
        BY <1>1
      <4>2. PICK d : d = Due(nutTimerList, tn_ticks_left, k)
        OBVIOUS
      <4>3. Good(y, d)
        BY <4>1, <4>2 DEF TimerIInv, Entries
      <4> QED  BY <3>1, <3>3, <4>1, <4>2, <4>3 DEF Good
    <3>5. Entries'
      BY <3>1, <3>4 DEF Entries
    <3>6. Processing'
      BY <3>1, <3>2 DEF TimerIInv, Processing
    <3> QED  BY <1>1, <3>1, <3>5, <3>6 DEF Types, TypeOK
  <2> QED  BY <2>1, <2>2
<1>6. Types'
  <2>1. /\ tn_ticks' \in [Timer -> Interval \cup {0}]
        /\ tn_callback' \in [Timer -> BOOLEAN]
        /\ interval' \in [Timer -> Nat] /\ age' \in [Timer -> Int]
        /\ charged' \in [Timer -> Nat]
    BY <1>1, <1>3 DEF Types, TypeOK
  <2> QED  BY <1>1, <1>3, <1>5, <2>1 DEF Types, TypeOK, clock, local
<1>7. Objects'
  BY <1>3, <1>5 DEF TimerIInv, Objects
<1>8. RunningListed'
  BY <1>4, <1>5 DEF TimerIInv, RunningListed
<1> QED
  BY <1>5, <1>6, <1>7, <1>8 DEF TimerIInv

\* NutTimerProcessElapsed takes over the ticks since it ran last.
LEMMA BeginKeeps ==
    ASSUME TimerIInv, ProcessBegin
    PROVE  TimerIInv'
<1>1. Clock /\ Lag \in Nat /\ Lag <= MaxLag /\ nutTimerList \in Seq(Timer)
  BY LagType
<1>2. /\ UNCHANGED <<nutTimerList, tn_ticks_left, tn_ticks, tn_callback, allocated,
                     nut_ticks, tn, interval, age, charged>>
      /\ ticks_new' = Lag /\ pc' = "process" /\ nut_ticks_resume' = nut_ticks
  BY DEF ProcessBegin, list, history
<1>3. Clock' /\ Lag' = 0
  <2>1. Clock'
    BY <1>1, <1>2 DEF Clock
  <2>2. nut_ticks' \in Int /\ nut_ticks_resume' = nut_ticks'
    BY <1>1, <1>2, TimerConstants DEF Clock
  <2>3. Lag' = 0 % TickMod
    BY <2>2 DEF Lag
  <2>4. 0 % TickMod = 0
    <3>1. 0 \in 0..(TickMod - 1)
      BY TimerConstants
    <3> QED  BY <3>1, Remainder, TimerConstants
  <2> QED  BY <2>1, <2>3, <2>4
<1>4. ticks_new = 0
  BY DEF ProcessBegin, TimerIInv, Processing
<1>5. Types'
  <2>1. ticks_new' \in 0..MaxLag
    BY <1>1, <1>2, TimerConstants
  <2> QED  BY <1>2, <1>3, <2>1 DEF TimerIInv, Types, TypeOK, Clock
<1>6. Objects' /\ RunningListed'
  BY <1>2 DEF TimerIInv, Objects, RunningListed
<1>7. Processing'
  BY <1>1, <1>2, <1>3 DEF Processing
<1>8. ASSUME NEW y \in Timer, NEW d, Good(y, d)
      PROVE  Good(y, d)'
  <2>1. interval[y] \in Nat
    BY DEF TimerIInv, Types
  <2>2. interval[y] + Lag + ticks_new = interval[y] + Lag' + ticks_new'
    BY <1>1, <1>2, <1>3, <1>4, <2>1
  <2> QED  BY <1>2, <1>8, <2>2 DEF Good
<1>9. Entries'
  <2> SUFFICES ASSUME NEW k \in 1..Len(nutTimerList)
               PROVE  Good(nutTimerList[k], Due(nutTimerList, tn_ticks_left, k))'
    BY <1>2 DEF Entries
  <2>1. PICK y \in Timer : y = nutTimerList[k]
    BY <1>1
  <2>2. PICK d : d = Due(nutTimerList, tn_ticks_left, k)
    OBVIOUS
  <2>3. Good(y, d)'
    BY <1>8, <2>1, <2>2 DEF TimerIInv, Entries
  <2> QED  BY <1>2, <2>1, <2>2, <2>3 DEF Good
<1> QED
  BY <1>5, <1>6, <1>7, <1>9 DEF TimerIInv

\* NutTimerProcessElapsed returns once all ticks are used up or no timer is
\* left.
LEMMA EndKeeps ==
    ASSUME TimerIInv, ProcessEnd
    PROVE  TimerIInv'
<1>1. Clock /\ Lag \in Nat /\ ticks_new \in Nat /\ nutTimerList \in Seq(Timer)
      /\ Lag + ticks_new <= MaxLag
  BY LagType DEF TimerIInv, Processing
<1>2. /\ UNCHANGED <<nutTimerList, tn_ticks_left, tn_ticks, tn_callback, allocated,
                     nut_ticks, nut_ticks_resume, tn, interval, age, charged>>
      /\ ticks_new' = 0 /\ pc' = "thread" /\ (nutTimerList = <<>> \/ ticks_new = 0)
  BY DEF ProcessEnd, list, clock, history
<1>3. Lag' = Lag
  BY <1>2 DEF Lag
<1>4. Types'
  BY <1>2, TimerConstants, SMTT(30) DEF TimerIInv, Types, TypeOK
<1>5. Objects' /\ RunningListed'
  BY <1>2 DEF TimerIInv, Objects, RunningListed
<1>6. Processing'
  BY <1>1, <1>2, <1>3, TimerConstants DEF Processing
<1>7. Entries'
  <2>1. CASE nutTimerList = <<>>
    BY <1>2, <2>1 DEF Entries
  <2>2. CASE ticks_new = 0
    BY <1>2, <1>3, <2>2 DEF TimerIInv, Entries, Good
  <2> QED  BY <1>2, <2>1, <2>2
<1> QED
  BY <1>4, <1>5, <1>6, <1>7 DEF TimerIInv

\* c ticks are taken from the time until y is due, and c ticks are processed.
LEMMA GoodCharged ==
    ASSUME NEW y \in Timer, NEW d, NEW c \in Nat, Types, Lag \in Nat, ticks_new \in Nat,
           Good(y, d), d - c \in Nat,
           ticks_new' = ticks_new - c, Lag' = Lag,
           UNCHANGED <<tn_callback, interval, age, charged>>
    PROVE  Good(y, d - c)' /\ d - c \in 0..(TickMod - 1)
<1>1. d \in 0..(TickMod - 1) /\ d \in Int /\ d - c \in 0..(TickMod - 1)
  BY TimerConstants DEF Good
<1>2. interval[y] \in Nat /\ age[y] \in Int /\ charged[y] \in Nat
  BY DEF Types
<1>3. CASE tn_callback[y]
  <2>1. d + age[y] + charged[y] = interval[y] + Lag + ticks_new
    BY <1>3 DEF Good
  <2>2. (d - c) + age[y] + charged[y] = interval[y] + Lag + (ticks_new - c)
    BY <1>1, <1>2, <2>1, TimerConstants
  <2> QED  BY <1>1, <2>2 DEF Good
<1>4. CASE ~tn_callback[y]
  BY <1>1, <1>4 DEF Good
<1> QED
  BY <1>1, <1>3, <1>4

\* Ticks taken from the first entry bring all timers nearer to their expiry.
LEMMA ChargeKeeps ==
    ASSUME TimerIInv, nutTimerList # <<>>, NEW c \in Nat,
           c <= ticks_new, c <= tn_ticks_left[Head(nutTimerList)],
           tn_ticks_left' = [tn_ticks_left EXCEPT ![Head(nutTimerList)] = @ - c],
           ticks_new' = ticks_new - c,
           UNCHANGED <<nutTimerList, tn_callback, clock, history>>
    PROVE  /\ Entries' /\ Lag' = Lag
           /\ tn_ticks_left' \in [Timer -> 0..(TickMod - 1)] /\ ticks_new' \in 0..MaxLag
           /\ Lag + ticks_new' <= MaxLag
<1> DEFINE s == nutTimerList
           m == tn_ticks_left
           l == tn_ticks_left'
<1>1. /\ Lag \in Nat /\ ticks_new \in Nat /\ m \in [Timer -> Nat] /\ s \in Seq(Timer)
      /\ IsInjective(s) /\ Lag + ticks_new <= MaxLag
  BY LagType DEF TimerIInv, Objects, Processing
<1>2. Lag' = Lag /\ ticks_new' \in Nat /\ Lag + ticks_new' <= MaxLag
      /\ ticks_new' \in 0..MaxLag
  <2>1. Lag' = Lag
    BY DEF Lag, clock
  <2> QED  BY <1>1, <2>1, TimerConstants
<1>3. Head(s) \in Timer
  BY <1>1, HeadInRange
<1>4. /\ l \in [Timer -> Nat] /\ l[Head(s)] = m[Head(s)] - c
      /\ \A y \in Timer : y # Head(s) => l[y] = m[y]
      /\ m \in [Timer -> Int] /\ l \in [Timer -> Int]
  BY <1>1, <1>3
<1>5. \A k \in 1..Len(s) : Due(s, l, k) = Due(s, m, k) - c
  <2>1. c \in Int /\ s # <<>>
    OBVIOUS
  <2>2. Taken(s, m, l, c)
    BY <1>4 DEF Taken
  <2>3. Sooner(s, m, l, c)
    BY <1>1, <1>4, <2>1, <2>2, DueLess
  <2> QED  BY <2>3 DEF Sooner
<1>6. \A k \in 0..Len(s) : Due(s, l, k) \in Nat
  BY <1>1, <1>4, DueNat
<1>7. UNCHANGED <<tn_callback, interval, age, charged, nutTimerList>>
  BY DEF history
<1>8. ASSUME NEW y \in Timer, NEW d, Good(y, d), d - c \in Nat
      PROVE  Good(y, d - c)' /\ d - c \in 0..(TickMod - 1)
  BY <1>1, <1>2, <1>7, <1>8, GoodCharged DEF TimerIInv
<1>9. ASSUME NEW k \in 1..Len(s)
      PROVE  /\ Good(nutTimerList[k], Due(nutTimerList, tn_ticks_left, k))'
             /\ Due(s, l, k) \in 0..(TickMod - 1)
  <2>1. PICK y \in Timer : y = s[k]
    BY <1>1
  <2>2. PICK d : d = Due(s, m, k)
    OBVIOUS
  <2>3. Good(y, d)
    BY <2>1, <2>2 DEF TimerIInv, Entries
  <2>4. Due(s, l, k) = d - c /\ k \in 0..Len(s)
    <3>1. k \in 0..Len(s) /\ d \in Int
      BY <1>1, <2>3, TimerConstants DEF Good
    <3> QED  BY <1>5, <2>2, <3>1
  <2>5. d - c \in Nat
    BY <1>6, <2>4
  <2>6. Good(y, d - c)' /\ d - c \in 0..(TickMod - 1)
    BY <1>8, <2>3, <2>5
  <2> QED  BY <1>7, <2>1, <2>4, <2>6 DEF Good
<1>10. Entries'
  BY <1>7, <1>9 DEF Entries
<1>11. l \in [Timer -> 0..(TickMod - 1)]
  <2>1. \A y \in Timer : y \notin Range(s) => l[y] \in 0..(TickMod - 1)
    <3>1. Head(s) \in Range(s)
      BY <1>1, HeadInRange
    <3> QED  BY <1>4, <3>1 DEF TimerIInv, Types, TypeOK
  <2> QED  BY <1>1, <1>4, <1>9, <2>1, LeftBounded, TimerConstants
<1> QED
  BY <1>2, <1>10, <1>11

\* One round of the loop of NutTimerProcessElapsed, up to the callback.
LEMMA HeadKeeps ==
    ASSUME TimerIInv, ProcessHead
    PROVE  TimerIInv'
<1> DEFINE x == Head(nutTimerList)
<1>1. /\ pc = "process" /\ nutTimerList # <<>> /\ ticks_new > 0
      /\ UNCHANGED <<nutTimerList, tn_ticks, tn_callback, allocated, clock, history>>
  BY DEF ProcessHead
<1>2. /\ ticks_new \in Nat /\ tn_ticks_left \in [Timer -> Nat]
      /\ nutTimerList \in Seq(Timer) /\ x \in Timer /\ tn_ticks_left[x] \in Nat
  <2>1. ticks_new \in Nat /\ tn_ticks_left \in [Timer -> Nat]
        /\ nutTimerList \in Seq(Timer)
    BY LagType
  <2> QED  BY <1>1, <2>1, HeadInRange
<1>3. PICK c \in Nat :
         /\ c <= ticks_new /\ c <= tn_ticks_left[x]
         /\ tn_ticks_left' = [tn_ticks_left EXCEPT ![x] = @ - c]
         /\ ticks_new' = ticks_new - c
         /\ \/ pc' = pc /\ tn' = tn
            \/ pc' \in {"callback", "remove"} /\ tn' = x /\ c = tn_ticks_left[x]
  <2>1. CASE Remaining(x)
    <3>1. ticks_new < tn_ticks_left[x]
      BY <2>1 DEF Remaining
    <3>2. /\ tn_ticks_left' = [tn_ticks_left EXCEPT ![x] = @ - ticks_new]
          /\ ticks_new' = 0 /\ pc' = pc /\ tn' = tn
      BY <2>1 DEF ProcessHead
    <3>3. ticks_new' = ticks_new - ticks_new /\ ticks_new <= tn_ticks_left[x]
          /\ ticks_new <= ticks_new
      BY <1>2, <3>1, <3>2
    <3> QED  BY <1>2, <3>2, <3>3
  <2>2. CASE ~Remaining(x)
    <3>1. tn_ticks_left[x] <= ticks_new
      BY <1>2, <2>2 DEF Remaining
    <3>2. /\ ticks_new' = ticks_new - tn_ticks_left[x]
          /\ tn_ticks_left' = [tn_ticks_left EXCEPT ![x] = 0]
          /\ pc' \in {"callback", "remove"} /\ tn' = x
      BY <2>2 DEF ProcessHead
    <3>3. tn_ticks_left[x] - tn_ticks_left[x] = 0 /\ tn_ticks_left[x] <= tn_ticks_left[x]
      BY <1>2
    <3>4. tn_ticks_left' = [tn_ticks_left EXCEPT ![x] = @ - tn_ticks_left[x]]
      BY <3>2, <3>3
    <3> QED  BY <1>2, <3>1, <3>2, <3>3, <3>4
  <2> QED  BY <2>1, <2>2
<1>4. /\ Entries' /\ Lag' = Lag
      /\ tn_ticks_left' \in [Timer -> 0..(TickMod - 1)] /\ ticks_new' \in 0..MaxLag
      /\ Lag + ticks_new' <= MaxLag
  BY <1>1, <1>3, ChargeKeeps
<1>5. Types'
  <2>1. pc' \in {"thread", "process", "callback", "remove"} /\ tn' \in Timer \cup {NULL}
    BY <1>2, <1>3 DEF TimerIInv, Types, TypeOK
  <2> QED  BY <1>1, <1>4, <2>1 DEF TimerIInv, Types, TypeOK, clock, history
<1>6. Objects' /\ RunningListed'
  BY <1>1 DEF TimerIInv, Objects, RunningListed, history
<1>7. Processing'
  <2>1. CASE pc' = pc /\ tn' = tn
    BY <1>1, <1>4, <2>1 DEF Processing
  <2>2. CASE pc' \in {"callback", "remove"} /\ tn' = x /\ c = tn_ticks_left[x]
    <3>1. tn_ticks_left'[x] = tn_ticks_left[x] - c
      BY <1>2, <1>3
    <3>2. tn_ticks_left'[x] = 0
      BY <1>2, <2>2, <3>1
    <3> QED  BY <1>1, <1>4, <2>2, <3>2 DEF Processing
  <2> QED  BY <1>3, <2>1, <2>2
<1> QED
  BY <1>4, <1>5, <1>6, <1>7 DEF TimerIInv

\* The elapsed timer leaves the list and is released, or comes back to it for
\* its next period.
LEMMA RemoveKeeps ==
    ASSUME TimerIInv, ProcessRemove
    PROVE  TimerIInv'
<1> DEFINE s == nutTimerList
           m == tn_ticks_left
           w == Tail(s)
<1>1. /\ pc \in {"callback", "remove"} /\ pc' = "process" /\ tn' = NULL
      /\ UNCHANGED <<tn_ticks, clock, ticks_new>>
  BY DEF ProcessRemove
<1>2. /\ Clock /\ Lag \in Nat /\ ticks_new \in Nat /\ m \in [Timer -> Nat]
      /\ s \in Seq(Timer) /\ IsInjective(s) /\ s # <<>> /\ tn = Head(s) /\ m[tn] = 0
      /\ m \in [Timer -> Int] /\ Types /\ Lag + ticks_new <= MaxLag
  <2>1. Clock /\ Lag \in Nat /\ ticks_new \in Nat /\ m \in [Timer -> Nat]
        /\ s \in Seq(Timer)
    BY LagType
  <2> QED  BY <1>1, <2>1 DEF TimerIInv, Objects, Processing
<1>3. PICK x \in Timer :
         /\ x = tn /\ w \in Seq(Timer) /\ IsInjective(w)
         /\ Range(w) = Range(s) \ {x} /\ x \in Range(s) /\ x \notin Range(w)
  <2>1. /\ Tail(s) \in Seq(Timer) /\ tn \in Timer /\ IsInjective(Tail(s))
        /\ Range(Tail(s)) = Range(s) \ {tn} /\ tn \in Range(s)
    BY <1>2, TailInjective
  <2> QED  BY <2>1
<1>4. \A k \in 1..Len(w) : /\ k + 1 \in 1..Len(s) /\ w[k] = s[k + 1]
                           /\ Due(w, m, k) = Due(s, m, k + 1)
  BY <1>2, DueTail
<1>5. Lag' = Lag /\ ticks_new' = ticks_new
  BY <1>1 DEF Lag, clock
<1>6. ASSUME NEW k \in 1..Len(w)
      PROVE  Good(w[k], Due(w, m, k)) /\ w[k] \in Timer /\ w[k] # x
  <2>1. Good(s[k + 1], Due(s, m, k + 1))
    BY <1>4 DEF TimerIInv, Entries
  <2>2. w[k] \in Timer /\ w[k] # x
    <3> HIDE DEF w
    <3> QED  BY <1>3, RangeOfChain
  <2> QED  BY <1>4, <2>1, <2>2
<1>7. Processing'
  BY <1>1, <1>2, <1>5 DEF Processing
<1> HIDE DEF w
<1>8. CASE tn_ticks[x] = 0
  <2>1. /\ nutTimerList' = w /\ tn_ticks_left' = [m EXCEPT ![x] = 0]
        /\ allocated' = allocated \ ({x} \ Own)
        /\ tn_callback' = [tn_callback EXCEPT ![x] = FALSE]
        /\ interval' = [interval EXCEPT ![x] = 0]
        /\ age' = [age EXCEPT ![x] = 0]
        /\ charged' = [charged EXCEPT ![x] = 0]
    BY <1>3, <1>8 DEF ProcessRemove, SetList, Forget, w
  <2>2. tn_ticks_left' = m
    BY <1>2, <1>3, <2>1
  <2>3. Types'
    <3>1. /\ tn_callback' \in [Timer -> BOOLEAN] /\ interval' \in [Timer -> Nat]
          /\ age' \in [Timer -> Int] /\ charged' \in [Timer -> Nat]
      <4>1. /\ tn_callback \in [Timer -> BOOLEAN] /\ interval \in [Timer -> Nat]
            /\ age \in [Timer -> Int] /\ charged \in [Timer -> Nat]
        BY <1>2 DEF Types, TypeOK
      <4>2. tn_callback' \in [Timer -> BOOLEAN]
        BY <2>1, <4>1
      <4> QED  BY <2>1, <4>1, <4>2
    <3>2. allocated' \in SUBSET Timer
      BY <1>2, <2>1 DEF Types, TypeOK
    <3> QED  BY <1>1, <1>2, <1>3, <2>1, <2>2, <3>1, <3>2 DEF Types, TypeOK, clock
  <2>4. Objects'
    BY <1>3, <2>1 DEF TimerIInv, Objects
  <2>5. /\ ~tn_callback'[x]
        /\ \A y \in Timer : y # x => /\ tn_callback'[y] = tn_callback[y]
                                      /\ interval'[y] = interval[y]
                                      /\ age'[y] = age[y] /\ charged'[y] = charged[y]
    BY <1>2, <1>3, <2>1 DEF Types, TypeOK
  <2>6. RunningListed'
    BY <1>1, <1>3, <1>8, <2>1, <2>5 DEF TimerIInv, RunningListed
  <2>7. ASSUME NEW k \in 1..Len(w)
        PROVE  Good(nutTimerList[k], Due(nutTimerList, tn_ticks_left, k))'
    <3>1. PICK y \in Timer : y = w[k]
      BY <1>6
    <3>2. PICK d : d = Due(w, m, k)
      OBVIOUS
    <3>3. Good(y, d) /\ y # x
      BY <1>6, <3>1, <3>2
    <3>4. Good(y, d)'
      BY <1>5, <2>5, <3>3 DEF Good
    <3> QED  BY <2>1, <2>2, <3>1, <3>2, <3>4 DEF Good
  <2>8. Entries'
    BY <2>1, <2>7 DEF Entries
  <2> QED  BY <1>7, <2>3, <2>4, <2>6, <2>8 DEF TimerIInv
<1>9. CASE tn_ticks[x] # 0
  <2>1. /\ age' = [age EXCEPT ![x] = @ - interval[x]]
        /\ UNCHANGED <<allocated, tn_callback, interval, charged>>
    BY <1>3, <1>9 DEF ProcessRemove
  <2>2. PICK t : /\ tn_callback[x] /\ interval[x] \in Interval
                 /\ t = interval[x] /\ t = tn_ticks[x]
    BY <1>3, <1>9 DEF TimerIInv, RunningListed
  <2>3. t \in Nat /\ t \in 0..(TickMod - 1)
    BY <2>2, TimerConstants
  <2>4. PICK q : /\ q = Insert(w, [m EXCEPT ![x] = t], x)
                 /\ nutTimerList' = q.s /\ tn_ticks_left' = q.left
    BY <1>3, <1>9, <2>2 DEF ProcessRemove, SetList, w
  <2>5. Relinked(w, m, x, t, q.s, q.left)
    BY <1>2, <1>3, <2>3, <2>4, InsertNew
  <2> DEFINE r == nutTimerList'
             l == tn_ticks_left'
  <2>6. /\ r \in Seq(Timer) /\ IsInjective(r) /\ Range(r) = Range(w) \cup {x}
        /\ l \in [Timer -> Nat]
        /\ \A y \in Timer : y \notin Range(r) => l[y] = m[y]
        /\ \A k \in 1..Len(r) : (r[k] = x /\ Due(r, l, k) = t)
                                \/ (r[k] # x /\ Kept(w, m, r, l, k))
    BY <2>4, <2>5 DEF Relinked
  <2>7. Range(r) = Range(s)
    BY <1>3, <2>6
  <2>8. /\ age'[x] = age[x] - interval[x]
        /\ \A y \in Timer : y # x => age'[y] = age[y]
        /\ age' \in [Timer -> Int]
    BY <1>2, <1>3, <2>1, SMTT(30) DEF Types
  <2>9. Good(x, t)'
    <3>1. Good(x, Due(s, m, 1))
      <4>1. 1 \in 1..Len(s) /\ s[1] = x
        BY <1>2, <1>3, HeadInRange
      <4> QED  BY <4>1 DEF TimerIInv, Entries
    <3>2. Due(s, m, 1) = 0
      <4>1. Due(s, m, 0) = 0 /\ Due(s, m, 1) = Due(s, m, 1 - 1) + m[s[1]]
            /\ s[1] = x /\ 1 - 1 = 0
        <5>1. 1 \in 1..Len(s) /\ s[1] = x
          BY <1>2, <1>3, HeadInRange
        <5> QED  BY <1>2, <5>1, DueIs
      <4> QED  BY <1>2, <1>3, <4>1
    <3>3. 0 + age[x] + charged[x] = interval[x] + Lag + ticks_new
      BY <2>2, <3>1, <3>2 DEF Good
    <3>4. interval[x] \in Nat /\ age[x] \in Int /\ charged[x] \in Nat
      BY <1>2, <1>3 DEF Types
    <3>5. t + (age[x] - interval[x]) + charged[x] = interval[x] + Lag + ticks_new
      BY <1>2, <2>2, <3>3, <3>4
    <3> QED  BY <1>5, <2>1, <2>3, <2>8, <3>5 DEF Good
  <2>10. ASSUME NEW y \in Timer, NEW d, y # x, Good(y, d)
         PROVE  Good(y, d)'
    BY <1>5, <2>1, <2>8, <2>10 DEF Good
  <2>11. ASSUME NEW k \in 1..Len(r)
         PROVE  Good(nutTimerList[k], Due(nutTimerList, tn_ticks_left, k))'
    <3>1. PICK y \in Timer : y = r[k]
      BY <2>6
    <3>2. PICK d : d = Due(r, l, k)
      OBVIOUS
    <3>3. CASE y = x /\ d = t
      BY <2>9, <3>1, <3>2, <3>3 DEF Good
    <3>4. CASE y # x /\ Kept(w, m, r, l, k)
      <4>1. PICK j \in 1..Len(w) : y = w[j] /\ d = Due(w, m, j)
        BY <3>1, <3>2, <3>4 DEF Kept
      <4>2. Good(y, d)'
        BY <1>6, <2>10, <3>4, <4>1
      <4> QED  BY <3>1, <3>2, <4>2 DEF Good
    <3> QED  BY <2>6, <3>1, <3>2, <3>3, <3>4
  <2>12. Entries'
    BY <2>11 DEF Entries
  <2>13. l \in [Timer -> 0..(TickMod - 1)]
    <3>1. \A k \in 1..Len(r) : Due(r, l, k) \in 0..(TickMod - 1)
      BY <2>11 DEF Good
    <3>2. \A y \in Timer : y \notin Range(r) => l[y] \in 0..(TickMod - 1)
      BY <1>2, <2>6 DEF Types, TypeOK
    <3> QED  BY <2>6, <3>1, <3>2, LeftBounded, TimerConstants
  <2>14. Types'
    BY <1>1, <1>2, <2>1, <2>6, <2>8, <2>13 DEF Types, TypeOK, clock
  <2>15. Objects'
    BY <2>1, <2>6, <2>7 DEF TimerIInv, Objects
  <2>16. RunningListed'
    BY <1>1, <2>1, <2>7 DEF TimerIInv, RunningListed
  <2> QED  BY <1>7, <2>12, <2>14, <2>15, <2>16 DEF TimerIInv
<1> QED
  BY <1>8, <1>9

-----------------------------------------------------------------------------
(***************************************************************************)
(* The theorems, for callbacks that do not restart the timer they are      *)
(* called for.                                                             *)
(***************************************************************************)
LEMMA TimerNextOK ==
    ASSUME ~CallbackRestarts, TimerIInv, [Next]_vars
    PROVE  TimerIInv'
<1>1. CASE NutTimerIntr
  BY <1>1, IntrKeeps
<1>2. ASSUME NEW x \in Timer, NutTimerStop(x)
      PROVE  TimerIInv'
  BY <1>2, StopKeeps
<1>3. ASSUME NEW x \in Timer, NEW n \in Interval, NEW oneshot \in BOOLEAN,
             NutTimerStartTicks(x, n, oneshot)
      PROVE  TimerIInv'
  BY <1>3, StartTicksKeeps
<1>4. ASSUME NEW x \in Timer, NEW n \in Interval, NEW oneshot \in BOOLEAN,
             NutTimerHandleStart(x, n, oneshot)
      PROVE  TimerIInv'
  BY <1>4, HandleStartKeeps
<1>5. CASE ProcessBegin
  BY <1>5, BeginKeeps
<1>6. CASE ProcessHead
  BY <1>6, HeadKeeps
<1>7. CASE ProcessRemove
  BY <1>7, RemoveKeeps
<1>8. CASE ProcessEnd
  BY <1>8, EndKeeps
<1>9. CASE UNCHANGED vars
  <2>1. /\ UNCHANGED <<nutTimerList, tn_ticks_left, tn_ticks, tn_callback, allocated,
                       nut_ticks, nut_ticks_resume, ticks_new, pc, tn, interval, age,
                       charged>>
        /\ Lag' = Lag
    BY <1>9 DEF vars, list, clock, local, history, Lag
  <2>2. Types' /\ Objects' /\ RunningListed'
    BY <2>1 DEF TimerIInv, Types, TypeOK, Objects, RunningListed
  <2>3. Processing' /\ Entries'
    BY <2>1 DEF TimerIInv, Processing, Entries, Good
  <2> QED  BY <2>2, <2>3 DEF TimerIInv
<1> QED
  BY <1>1, <1>2, <1>3, <1>4, <1>5, <1>6, <1>7, <1>8, <1>9 DEF Next

LEMMA TimerInvariant ==
    ASSUME ~CallbackRestarts
    PROVE  Spec => []TimerIInv
<1>1. Init => TimerIInv
  BY TimerInitOK
<1>2. TimerIInv /\ [Next]_vars => TimerIInv'
  BY TimerNextOK
<1> QED
  BY <1>1, <1>2, PTL DEF Spec

\* The variables of os/timer.c keep their types: in particular no entry gets
\* negative ticks, and none more than the counter holds.
THEOREM TimerTypeCorrect ==
    ASSUME ~CallbackRestarts
    PROVE  Spec => []TypeOK
<1>1. TimerIInv => TypeOK
  BY DEF TimerIInv, Types
<1> QED
  BY <1>1, TimerInvariant, PTL

\* The list of NutTimerInsert and NutTimerProcessElapsed holds every object
\* once, no released one and all that are running.
THEOREM TimerListSound ==
    ASSUME ~CallbackRestarts
    PROVE  Spec => []ListSound
<1>1. TimerIInv => ListSound
  BY DEF TimerIInv, Objects, RunningListed, ListSound
<1> QED
  BY <1>1, TimerInvariant, PTL

\* However timers are started, stopped and processed and the counter wraps
\* around, the ticks up to an entry of the list add up to its own deadline.
THEOREM TimerDeadlineKept ==
    ASSUME ~CallbackRestarts
    PROVE  Spec => []DeadlineKept
<1>1. TimerIInv => DeadlineKept
  BY DEF TimerIInv, Entries, Good, DeadlineKept
<1> QED
  BY <1>1, TimerInvariant, PTL

\* A callback comes early by no more than the ticks that were still to be
\* processed when another callback started its timer.
THEOREM TimerEarlyByBacklog ==
    ASSUME ~CallbackRestarts
    PROVE  Spec => []EarlyByBacklog
<1>1. ASSUME TimerIInv, pc = "callback", tn_callback[tn]
      PROVE  age[tn] + charged[tn] >= interval[tn]
  <2>1. /\ nutTimerList # <<>> /\ tn = Head(nutTimerList) /\ tn_ticks_left[tn] = 0
        /\ Lag \in Nat /\ ticks_new \in Nat /\ nutTimerList \in Seq(Timer)
        /\ tn_ticks_left \in [Timer -> Nat]
    BY <1>1, LagType DEF TimerIInv, Processing
  <2>2. 1 \in 1..Len(nutTimerList) /\ nutTimerList[1] = tn /\ tn \in Timer
    BY <2>1, HeadInRange
  <2>3. Due(nutTimerList, tn_ticks_left, 1) = 0
    <3>1. tn_ticks_left \in [Timer -> Int] /\ 1 - 1 = 0
      BY <2>1
    <3>2. /\ Due(nutTimerList, tn_ticks_left, 0) = 0
          /\ Due(nutTimerList, tn_ticks_left, 1)
             = Due(nutTimerList, tn_ticks_left, 1 - 1) + tn_ticks_left[nutTimerList[1]]
      BY <2>1, <2>2, <3>1, DueIs
    <3> QED  BY <2>1, <2>2, <3>1, <3>2
  <2>4. 0 + age[tn] + charged[tn] = interval[tn] + Lag + ticks_new
    BY <1>1, <2>2, <2>3 DEF TimerIInv, Entries, Good
  <2>5. age[tn] \in Int /\ charged[tn] \in Nat /\ interval[tn] \in Nat
    BY <1>1, <2>2 DEF TimerIInv, Types
  <2> QED  BY <2>1, <2>4, <2>5
<1>2. TimerIInv => EarlyByBacklog
  BY <1>1 DEF EarlyByBacklog
<1> QED
  BY <1>2, TimerInvariant, PTL

\* Once NutTimerProcessElapsed has processed all ticks no timer is overdue.
THEOREM TimerNoneOverdue ==
    ASSUME ~CallbackRestarts
    PROVE  Spec => []NoneOverdue
<1>1. ASSUME TimerIInv, pc = "thread", Lag = 0, NEW x \in Timer, tn_callback[x]
      PROVE  age[x] <= interval[x]
  <2>1. x \in Range(nutTimerList) /\ nutTimerList \in Seq(Timer) /\ ticks_new = 0
    BY <1>1, LagType DEF TimerIInv, RunningListed, Processing
  <2>2. PICK k \in 1..Len(nutTimerList) : nutTimerList[k] = x
    BY <2>1, RangeOfChain
  <2>3. PICK d : d = Due(nutTimerList, tn_ticks_left, k)
    OBVIOUS
  <2>4. Good(x, d)
    BY <1>1, <2>2, <2>3 DEF TimerIInv, Entries
  <2>5. age[x] \in Int /\ charged[x] \in Nat /\ interval[x] \in Nat
    BY <1>1 DEF TimerIInv, Types
  <2>6. /\ d + age[x] + charged[x] = interval[x] + Lag + ticks_new
        /\ d \in Nat
    BY <1>1, <2>4, TimerConstants DEF Good
  <2>7. Len(nutTimerList) \in Nat
    BY <2>1
  <2> QED  BY <1>1, <2>1, <2>5, <2>6, <2>7
<1>2. TimerIInv => NoneOverdue
  BY <1>1 DEF NoneOverdue
<1> QED
  BY <1>2, TimerInvariant, PTL
=============================================================================
