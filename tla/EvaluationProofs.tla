-------------------------- MODULE EvaluationProofs --------------------------
(***************************************************************************)
(* Proofs about Evaluation, for every calendar, start, length of window,    *)
(* price and signal: the walk-forward windows cut the time of an evaluation *)
(* into pieces without gap or overlap, so that each trade counts once and   *)
(* the windows' gains add up to the account's.                              *)
(***************************************************************************)
EXTENDS Evaluation, BacktestAccountProofs
-----------------------------------------------------------------------------
(* Recursion over the naturals: a step function defines a function.           *)

Prefix(n, T, first, step, g) ==
  /\ g \in [0..n -> T] /\ g[0] = first
  /\ \A i \in 0..(n - 1) : g[i + 1] = step[i][g[i]]

LEMMA PrefixExists ==
  ASSUME NEW T, NEW first \in T, NEW step \in [Nat -> [T -> T]], NEW n \in Nat
  PROVE  \E g : Prefix(n, T, first, step, g)
  <1> DEFINE bad == {i \in Nat : ~\E g : Prefix(i, T, first, step, g)}
  <1>1. ASSUME bad # {} PROVE FALSE
    <2>1. PICK k \in bad : \A j \in bad : k <= j
      <3>1. bad \subseteq Nat
        OBVIOUS
      <3> HIDE DEF bad
      <3> QED BY <1>1, <3>1, LeastExists
    <2>2. k \in Nat /\ ~\E g : Prefix(k, T, first, step, g)
      BY <2>1
    <2>3. k # 0
      <3>1. Prefix(0, T, first, step, [i \in 0..0 |-> first])
        BY DEF Prefix
      <3> QED BY <2>2, <3>1
    <2>4. k - 1 \in Nat /\ ~(k <= k - 1)
      BY <2>2, <2>3
    <2>5. PICK g : Prefix(k - 1, T, first, step, g)
      BY <2>1, <2>4
    <2> DEFINE h == [i \in 0..k |-> IF i = k THEN step[k - 1][g[k - 1]] ELSE g[i]]
    <2>6. /\ g \in [0..(k - 1) -> T] /\ g[0] = first
          /\ \A i \in 0..(k - 2) : g[i + 1] = step[i][g[i]]
      BY <2>2, <2>3, <2>5 DEF Prefix
    <2>7. h \in [0..k -> T] /\ h[0] = first /\ \A i \in 0..(k - 1) : h[i] = g[i]
      BY <2>2, <2>3, <2>4, <2>6
    <2>8. \A i \in 0..(k - 1) : h[i + 1] = step[i][h[i]]
      <3> SUFFICES ASSUME NEW i \in 0..(k - 1) PROVE h[i + 1] = step[i][h[i]]
        OBVIOUS
      <3>1. CASE i = k - 1
        BY <2>2, <2>4, <2>7, <3>1
      <3>2. CASE i # k - 1
        <4>1. i \in 0..(k - 2) /\ i + 1 \in 0..(k - 1)
          BY <2>2, <2>3, <3>2
        <4> QED BY <2>6, <2>7, <4>1
      <3> QED BY <3>1, <3>2
    <2> HIDE DEF h
    <2>9. Prefix(k, T, first, step, h)
      BY <2>7, <2>8 DEF Prefix
    <2> QED BY <2>2, <2>9
  <1> QED BY <1>1

LEMMA PrefixesAgree ==
  ASSUME NEW T, NEW first, NEW step, NEW n \in Nat, NEW m \in Nat, n <= m,
         NEW g, Prefix(n, T, first, step, g), NEW h, Prefix(m, T, first, step, h)
  PROVE  g[n] = h[n]
  <1> DEFINE bad == {i \in 0..n : g[i] # h[i]}
  <1>1. ASSUME bad # {} PROVE FALSE
    <2>1. PICK k \in bad : \A j \in bad : k <= j
      <3>1. bad \subseteq Nat
        OBVIOUS
      <3> HIDE DEF bad
      <3> QED BY <1>1, <3>1, LeastExists
    <2>2. k \in 0..n /\ g[k] # h[k]
      BY <2>1
    <2>3. k # 0
      BY <2>2 DEF Prefix
    <2>4. k - 1 \in 0..(n - 1) /\ k - 1 \in 0..(m - 1) /\ ~(k <= k - 1) /\ k - 1 \in 0..n
      BY <2>2, <2>3
    <2>5. g[k - 1] = h[k - 1]
      BY <2>1, <2>4
    <2> DEFINE i == k - 1
    <2>6. k = i + 1 /\ i \in 0..(n - 1) /\ i \in 0..(m - 1) /\ g[i] = h[i]
      BY <2>2, <2>4, <2>5
    <2> HIDE DEF i, bad
    <2>7. g[i + 1] = step[i][g[i]] /\ h[i + 1] = step[i][h[i]]
      BY <2>6 DEF Prefix
    <2> QED BY <2>2, <2>6, <2>7
  <1>2. n \in 0..n
    OBVIOUS
  <1> QED BY <1>1, <1>2

Steps(T, first, step) == first \in T /\ step \in [Nat -> [T -> T]]
Follows(T, first, step, f) ==
  f \in [Nat -> T] /\ f[0] = first /\ \A n \in Nat : f[n + 1] = step[n][f[n]]

LEMMA RecursionExists ==
  ASSUME NEW T, NEW first, NEW step, Steps(T, first, step)
  PROVE  \E f : Follows(T, first, step, f)
  <1> DEFINE G(n) == CHOOSE g : Prefix(n, T, first, step, g)
             f == [n \in Nat |-> G(n)[n]]
  <1>1. \A n \in Nat : Prefix(n, T, first, step, G(n))
    BY PrefixExists DEF Steps
  <1> HIDE DEF G
  <1>2. f[0] = first
    BY <1>1 DEF Prefix
  <1>3. \A n \in Nat : f[n] \in T
    BY <1>1 DEF Prefix
  <1>4. ASSUME NEW n \in Nat PROVE f[n + 1] = step[n][f[n]]
    <2> DEFINE g == G(n)
               h == G(n + 1)
    <2>1. Prefix(n, T, first, step, g) /\ Prefix(n + 1, T, first, step, h)
      BY <1>1
    <2>2. n <= n + 1 /\ n + 1 \in Nat /\ n \in 0..((n + 1) - 1)
      OBVIOUS
    <2>3. f[n] = g[n] /\ f[n + 1] = h[n + 1]
      BY <2>2
    <2> HIDE DEF g, h, f
    <2>4. g[n] = h[n]
      BY <2>1, <2>2, PrefixesAgree
    <2>5. h[n + 1] = step[n][h[n]]
      BY <2>1, <2>2 DEF Prefix
    <2> QED BY <2>3, <2>4, <2>5
  <1>5. f \in [Nat -> T]
    BY <1>3
  <1> HIDE DEF f
  <1> QED BY <1>2, <1>4, <1>5 DEF Follows
-----------------------------------------------------------------------------
(* The calendar: months follow each other, and a later month starts later.    *)

LEMMA MonthsHaveDays ==
  ASSUME NEW k \in Nat
  PROVE  MonthLength(k) \in Nat \ {0}
  <1> DEFINE L == Len(MonthLengths)
  <1>1. MonthLengths \in Seq(Nat \ {0}) /\ L \in Nat \ {0}
    BY CalendarAssumption DEF CalendarAssumption
  <1> HIDE DEF L
  <1>2. k % L \in 0..(L - 1)
    BY <1>1
  <1>3. 1 + (k % L) \in 1..L
    BY <1>1, <1>2
  <1>4. PICK i \in 1..L : i = 1 + (k % L)
    BY <1>3
  <1>5. MonthLengths[i] \in Nat \ {0}
    BY <1>1, <1>4 DEF L
  <1> QED BY <1>4, <1>5 DEF MonthLength, L

LEMMA MonthAddsDays ==
  ASSUME NEW k \in Nat
  PROVE  DayLength * MonthLength(k) \in Nat /\ DayLength * MonthLength(k) >= 1
  <1>1. DayLength \in Nat \ {0}
    BY CalendarAssumption DEF CalendarAssumption
  <1>2. PICK days \in Nat \ {0} : days = MonthLength(k)
    BY MonthsHaveDays
  <1>3. DayLength * days \in Nat /\ DayLength * days >= 1
    BY <1>1, <1>2
  <1> QED BY <1>2, <1>3

LEMMA MonthStarts ==
  /\ MonthStart[0] = 0
  /\ \A k \in Nat : /\ MonthStart[k] \in Nat
                    /\ MonthStart[k + 1] = MonthStart[k] + DayLength * MonthLength(k)
  <1> DEFINE Recurrence(u) ==
        u = [k \in Nat |-> IF k = 0 THEN 0 ELSE u[k - 1] + DayLength * MonthLength(k - 1)]
      step == [k \in Nat |-> [v \in Nat |-> v + DayLength * MonthLength(k)]]
  <1>1. step \in [Nat -> [Nat -> Nat]]
    BY MonthAddsDays
  <1>2. PICK f \in [Nat -> Nat] : f[0] = 0 /\ \A n \in Nat : f[n + 1] = step[n][f[n]]
    <2>1. Steps(Nat, 0, step)
      BY <1>1 DEF Steps
    <2> HIDE DEF step
    <2>2. PICK f : Follows(Nat, 0, step, f)
      BY <2>1, RecursionExists
    <2> QED BY <2>2 DEF Follows
  <1>3. \A n \in Nat : f[n + 1] = f[n] + DayLength * MonthLength(n)
    BY <1>2
  <1>4. Recurrence(f)
    <2> DEFINE r == [k \in Nat |-> IF k = 0 THEN 0 ELSE f[k - 1] + DayLength * MonthLength(k - 1)]
    <2>1. ASSUME NEW k \in Nat PROVE f[k] = r[k]
      <3>1. CASE k = 0
        BY <1>2, <3>1
      <3>2. CASE k # 0
        <4>1. PICK n \in Nat : k = n + 1
          <5>1. k - 1 \in Nat /\ k = (k - 1) + 1
            BY <3>2
          <5> QED BY <5>1
        <4>2. k - 1 = n
          BY <4>1
        <4> QED BY <1>3, <3>2, <4>1, <4>2
      <3> QED BY <3>1, <3>2
    <2>2. f = [k \in Nat |-> f[k]]
      BY <1>2
    <2> QED BY <2>1, <2>2
  <1>5. Recurrence(MonthStart)
    <2>1. MonthStart = CHOOSE u : Recurrence(u)
      BY DEF MonthStart
    <2> HIDE DEF Recurrence
    <2> QED BY <1>4, <2>1
  <1>6. /\ MonthStart[0] = 0
        /\ \A n \in Nat : MonthStart[n + 1] = MonthStart[n] + DayLength * MonthLength(n)
    <2>1. ASSUME NEW n \in Nat
          PROVE  MonthStart[n + 1] = MonthStart[n] + DayLength * MonthLength(n)
      <3>1. n + 1 \in Nat /\ n + 1 # 0 /\ (n + 1) - 1 = n
        OBVIOUS
      <3> QED BY <1>5, <3>1
    <2> QED BY <1>5, <2>1
  <1> DEFINE bad == {k \in Nat : MonthStart[k] # f[k]}
  <1>7. ASSUME bad # {} PROVE FALSE
    <2>1. PICK k \in bad : \A j \in bad : k <= j
      <3>1. bad \subseteq Nat
        OBVIOUS
      <3> HIDE DEF bad
      <3> QED BY <1>7, <3>1, LeastExists
    <2>2. k \in Nat /\ k # 0 /\ MonthStart[k] # f[k]
      BY <1>2, <1>6, <2>1
    <2>3. PICK n \in Nat : k = n + 1
      <3>1. k - 1 \in Nat /\ k = (k - 1) + 1
        BY <2>2
      <3> QED BY <3>1
    <2>4. n \notin bad
      BY <2>1, <2>3
    <2> QED BY <1>3, <1>6, <2>2, <2>3, <2>4
  <1>8. \A k \in Nat : MonthStart[k] \in Nat
    BY <1>2, <1>7
  <1> QED BY <1>6, <1>8

LEMMA MonthStartsGrow ==
  ASSUME NEW k \in Nat
  PROVE  MonthStart[k] < MonthStart[k + 1]
  <1>1. MonthStart[k] \in Nat /\ MonthStart[k + 1] = MonthStart[k] + DayLength * MonthLength(k)
    BY MonthStarts
  <1>2. PICK days \in Nat : days = DayLength * MonthLength(k) /\ days >= 1
    BY MonthAddsDays
  <1> QED BY <1>1, <1>2

\* A sequence of numbers that grows at every step is in order.
LEMMA GrowingIsOrdered ==
  ASSUME NEW f, NEW n \in Nat, \A i \in 0..n : f[i] \in Int,
         \A i \in 0..(n - 1) : f[i] < f[i + 1],
         NEW i \in 0..n, NEW j \in 0..n, i < j
  PROVE  f[i] < f[j]
  <1> DEFINE bad == {k \in 0..n : i < k /\ ~(f[i] < f[k])}
  <1>1. ASSUME bad # {} PROVE FALSE
    <2>1. PICK k \in bad : \A l \in bad : k <= l
      <3>1. bad \subseteq Nat
        OBVIOUS
      <3> HIDE DEF bad
      <3> QED BY <1>1, <3>1, LeastExists
    <2>2. k \in 0..n /\ i < k /\ ~(f[i] < f[k])
      BY <2>1
    <2> DEFINE l == k - 1
    <2>3. l \in 0..(n - 1) /\ l \in 0..n /\ k = l + 1 /\ ~(k <= l) /\ (i < l \/ i = l)
      BY <2>2
    <2>4. l \notin bad
      BY <2>1, <2>3
    <2> HIDE DEF l
    <2>5. f[l] < f[k] /\ f[i] \in Int /\ f[l] \in Int /\ f[k] \in Int
      BY <2>2, <2>3
    <2>6. i < l => f[i] < f[l]
      BY <2>3, <2>4
    <2> QED BY <2>2, <2>3, <2>5, <2>6
  <1> QED BY <1>1

LEMMA MonthsInOrder ==
  ASSUME NEW i \in Nat, NEW j \in Nat, i < j
  PROVE  MonthStart[i] < MonthStart[j]
  <1>1. /\ \A k \in 0..j : MonthStart[k] \in Int
        /\ \A k \in 0..(j - 1) : MonthStart[k] < MonthStart[k + 1]
    BY MonthStarts, MonthStartsGrow
  <1>2. i \in 0..j /\ j \in 0..j
    OBVIOUS
  <1> QED BY <1>1, <1>2, GrowingIsOrdered

LEMMA MonthStartsLate ==
  ASSUME NEW k \in Nat
  PROVE  MonthStart[k] >= k
  <1> DEFINE bad == {j \in Nat : ~(MonthStart[j] >= j)}
  <1>1. ASSUME bad # {} PROVE FALSE
    <2>1. PICK m \in bad : \A j \in bad : m <= j
      <3>1. bad \subseteq Nat
        OBVIOUS
      <3> HIDE DEF bad
      <3> QED BY <1>1, <3>1, LeastExists
    <2>2. m \in Nat /\ m # 0 /\ ~(MonthStart[m] >= m)
      BY <2>1, MonthStarts
    <2>3. PICK n \in Nat : m = n + 1
      <3>1. m - 1 \in Nat /\ m = (m - 1) + 1
        BY <2>2
      <3> QED BY <3>1
    <2>4. n \notin bad
      BY <2>1, <2>3
    <2>5. MonthStart[n] < MonthStart[n + 1] /\ MonthStart[n] \in Nat /\ MonthStart[n + 1] \in Nat
      BY MonthStarts, MonthStartsGrow
    <2> QED BY <2>2, <2>3, <2>4, <2>5
  <1> QED BY <1>1

\* Every time is in a month.
LEMMA MonthOfTime ==
  ASSUME NEW t \in Nat
  PROVE  /\ MonthOf(t) \in Nat
         /\ MonthStart[MonthOf(t)] <= t /\ t < MonthStart[MonthOf(t) + 1]
  <1> DEFINE later == {k \in Nat : t < MonthStart[k]}
  <1>1. t + 1 \in later
    <2>1. MonthStart[t + 1] \in Nat /\ MonthStart[t + 1] >= t + 1
      BY MonthStarts, MonthStartsLate
    <2> QED BY <2>1
  <1>2. PICK k \in later : \A j \in later : k <= j
    <2>1. later \subseteq Nat
      OBVIOUS
    <2> HIDE DEF later
    <2> QED BY <1>1, <2>1, LeastExists
  <1>3. k \in Nat /\ t < MonthStart[k] /\ k # 0
    BY <1>2, MonthStarts
  <1>4. PICK n \in Nat : k = n + 1
    <2>1. k - 1 \in Nat /\ k = (k - 1) + 1
      BY <1>3
    <2> QED BY <2>1
  <1>5. n \notin later
    BY <1>2, <1>4
  <1>6. MonthStart[n] \in Nat /\ MonthStart[n] <= t
    BY <1>5, MonthStarts
  <1>7. MonthStart[n] >= n
    BY MonthStartsLate
  <1>8. n \in 0..t
    BY <1>6, <1>7
  <1> DEFINE In(j) == MonthStart[j] <= t /\ t < MonthStart[j + 1]
  <1>9. In(n)
    BY <1>3, <1>4, <1>6
  <1> HIDE DEF In
  <1>10. MonthOf(t) = CHOOSE j \in 0..t : In(j)
    BY DEF MonthOf, In
  <1>11. MonthOf(t) \in 0..t /\ In(MonthOf(t))
    BY <1>8, <1>9, <1>10
  <1> QED BY <1>11 DEF In

(* add_months moves forward, whatever the day it clips.                       *)
LEMMA AddMonthsIsLater ==
  ASSUME NEW t \in Nat, NEW months \in Nat \ {0}
  PROVE  AddMonths(t, months) \in Nat /\ t < AddMonths(t, months)
  <1>1. PICK k \in Nat : k = MonthOf(t) /\ MonthStart[k] <= t /\ t < MonthStart[k + 1]
    BY MonthOfTime
  <1>2. DayLength \in Nat \ {0}
    BY CalendarAssumption DEF CalendarAssumption
  <1>3. PICK to \in Nat : to = MonthStart[k + months] /\ t < to
    <2>1. k + months \in Nat /\ k + 1 \in Nat /\ (k + 1 = k + months \/ k + 1 < k + months)
      OBVIOUS
    <2>2. MonthStart[k + months] \in Nat /\ MonthStart[k + 1] \in Nat
      BY <2>1, MonthStarts
    <2>3. k + 1 < k + months => MonthStart[k + 1] < MonthStart[k + months]
      BY <2>1, MonthsInOrder
    <2> QED BY <1>1, <2>1, <2>2, <2>3
  <1>4. PICK last \in Nat : last = MonthLength(k + months) - 1
    <2>1. PICK days \in Nat \ {0} : days = MonthLength(k + months)
      BY MonthsHaveDays
    <2> QED BY <2>1
  <1>5. PICK day \in Nat : day = (t - MonthStart[k]) \div DayLength
    <2>1. PICK into \in Nat : into = t - MonthStart[k]
      BY <1>1, MonthStarts
    <2>2. into \div DayLength \in Nat
      BY <1>2, <2>1
    <2> QED BY <2>1, <2>2
  <1>6. PICK rest \in Nat : rest = t % DayLength
    BY <1>2
  <1>7. PICK kept \in Nat : kept = IF day < last THEN day ELSE last
    BY <1>4, <1>5
  <1>8. DayLength * kept \in Nat
    BY <1>2, <1>7
  <1>9. AddMonths(t, months) = to + DayLength * kept + rest
    BY <1>1, <1>3, <1>4, <1>5, <1>6, <1>7 DEF AddMonths
  <1> QED BY <1>3, <1>6, <1>8, <1>9
-----------------------------------------------------------------------------
(* The windows: their boundaries grow from the start to the end.              *)

LEMMA Boundaries ==
  ASSUME NEW start \in Nat, NEW end \in Nat, start <= end, NEW months \in Nat \ {0}
  PROVE  LET b == Boundary(start, end, months)
         IN /\ b[0] = start
            /\ \A i \in Nat : /\ b[i] \in start..end
                              /\ b[i] < end => b[i] < b[i + 1]
                              /\ b[i] = end => b[i + 1] = end
  <1> DEFINE cut(t) == IF t > end THEN end ELSE t
             after(t) == AddMonths(t, months)
             Recurrence(u) == u = [i \in Nat |-> IF i = 0 THEN start ELSE cut(after(u[i - 1]))]
             b == Boundary(start, end, months)
             T == start..end
             step == [i \in Nat |-> [t \in T |-> cut(after(t))]]
  <1>1. \A t \in T : t \in Nat /\ after(t) \in Nat /\ t < after(t)
    BY AddMonthsIsLater
  <1> HIDE DEF after
  <1>2. \A t \in T : cut(after(t)) \in T
    BY <1>1
  <1> HIDE DEF cut
  <1>3. PICK f : Follows(T, start, step, f)
    <2>1. Steps(T, start, step)
      BY <1>2 DEF Steps
    <2> HIDE DEF step, T
    <2> QED BY <2>1, RecursionExists
  <1>4. f[0] = start /\ \A i \in Nat : f[i] \in T /\ f[i + 1] = cut(after(f[i]))
    BY <1>3 DEF Follows
  <1> HIDE DEF T
  <1>5. Recurrence(f)
    <2> DEFINE r == [i \in Nat |-> IF i = 0 THEN start ELSE cut(after(f[i - 1]))]
    <2>1. ASSUME NEW i \in Nat PROVE f[i] = r[i]
      <3>1. CASE i = 0
        BY <1>4, <3>1
      <3>2. CASE i # 0
        <4>1. PICK n \in Nat : i = n + 1 /\ i - 1 = n
          <5>1. i - 1 \in Nat /\ i = (i - 1) + 1
            BY <3>2
          <5> QED BY <5>1
        <4> QED BY <1>4, <3>2, <4>1
      <3> QED BY <3>1, <3>2
    <2>2. f = [i \in Nat |-> f[i]]
      BY <1>3 DEF Follows
    <2> HIDE DEF after
    <2> QED BY <2>1, <2>2
  <1>6. Recurrence(b)
    <2>1. b = CHOOSE u : Recurrence(u)
      BY DEF Boundary, cut, after
    <2> HIDE DEF Recurrence, b
    <2> QED BY <1>5, <2>1
  <1> HIDE DEF b
  <1>7. b[0] = start /\ \A n \in Nat : b[n + 1] = cut(after(b[n]))
    <2>1. ASSUME NEW n \in Nat PROVE b[n + 1] = cut(after(b[n]))
      <3>1. n + 1 \in Nat /\ n + 1 # 0 /\ (n + 1) - 1 = n
        OBVIOUS
      <3> QED BY <1>6, <3>1
    <2> QED BY <1>6, <2>1
  <1> DEFINE bad == {k \in Nat : b[k] # f[k]}
  <1>8. ASSUME bad # {} PROVE FALSE
    <2>1. PICK k \in bad : \A j \in bad : k <= j
      <3>1. bad \subseteq Nat
        OBVIOUS
      <3> HIDE DEF bad
      <3> QED BY <1>8, <3>1, LeastExists
    <2>2. k \in Nat /\ k # 0 /\ b[k] # f[k]
      BY <1>4, <1>7, <2>1
    <2>3. PICK n \in Nat : k = n + 1
      <3>1. k - 1 \in Nat /\ k = (k - 1) + 1
        BY <2>2
      <3> QED BY <3>1
    <2>4. n \notin bad
      BY <2>1, <2>3
    <2> QED BY <1>4, <1>7, <2>2, <2>3, <2>4
  <1>9. ASSUME NEW i \in Nat
        PROVE  /\ b[i] \in start..end
               /\ b[i] < end => b[i] < b[i + 1]
               /\ b[i] = end => b[i + 1] = end
    <2>1. b[i] \in T
      BY <1>4, <1>8
    <2>2. PICK t \in T : t = b[i]
      BY <2>1
    <2>3. b[i + 1] = cut(after(t))
      BY <1>7, <2>2
    <2>4. PICK a \in Nat : a = after(t) /\ t < a
      BY <1>1
    <2>5. t \in start..end
      BY DEF T
    <2> QED BY <2>2, <2>3, <2>4, <2>5 DEF cut
  <1> QED BY <1>7, <1>9 DEF b

\* The windows are the m pieces between b[0] and b[m].
Cuts(windows, start, end, m, b) ==
  /\ m \in Nat /\ b[0] = start /\ b[m] = end
  /\ \A i \in 0..m : b[i] \in Int
  /\ \A i \in 0..(m - 1) : b[i] < b[i + 1]
  /\ windows = {<<b[i], b[i + 1]>> : i \in 0..(m - 1)}

LEMMA WindowsCut ==
  ASSUME NEW start \in Nat, NEW end \in Nat, start <= end, NEW months \in Nat \ {0}
  PROVE  \E m, b : Cuts(Windows(start, end, months), start, end, m, b)
  <1> DEFINE b == Boundary(start, end, months)
             most == end - start
             ended == {i \in Nat : b[i] = end}
  <1>1. /\ b[0] = start
        /\ \A i \in Nat : /\ b[i] \in start..end
                          /\ b[i] < end => b[i] < b[i + 1]
                          /\ b[i] = end => b[i + 1] = end
    BY Boundaries
  <1>2. Windows(start, end, months)
          = {<<b[i], b[i + 1]>> : i \in {j \in 0..(end - start) : b[j] < end}}
    BY DEF Windows
  <1> HIDE DEF b
  <1>3. most \in Nat
    OBVIOUS
  \* Each boundary before the end is at least one minute later.
  <1>4. most \in ended
    <2> DEFINE bad == {i \in 0..most : ~(b[i] >= start + i)}
    <2>1. ASSUME bad # {} PROVE most \in ended
      <3>1. PICK k \in bad : \A j \in bad : k <= j
        <4>1. bad \subseteq Nat
          BY <1>3
        <4> HIDE DEF bad
        <4> QED BY <2>1, <4>1, LeastExists
      <3>2. k \in 0..most /\ ~(b[k] >= start + k) /\ k # 0
        BY <1>1, <3>1
      <3>3. PICK n \in 0..most : k = n + 1
        <4>1. k - 1 \in 0..most /\ k = (k - 1) + 1
          BY <1>3, <3>2
        <4> QED BY <4>1
      <3>4. n \in Nat /\ b[n] >= start + n
        BY <1>3, <3>1, <3>3
      <3>5. b[n] \in start..end /\ b[k] \in start..end /\ k \in Nat
        BY <1>1, <1>3, <3>2, <3>4
      <3>6. b[n] = end \/ b[n] < end
        BY <3>5
      <3>7. b[n] = end => b[k] = end
        BY <1>1, <3>3, <3>4
      <3>8. b[n] < end => b[n] < b[k]
        BY <1>1, <3>3, <3>4
      <3> QED BY <1>3, <3>2, <3>3, <3>4, <3>5, <3>6, <3>7, <3>8
    <2>2. ASSUME bad = {} PROVE most \in ended
      <3>1. most \in 0..most
        BY <1>3
      <3>2. b[most] >= start + most /\ b[most] \in start..end
        BY <1>1, <1>3, <2>2, <3>1
      <3> QED BY <1>3, <3>2
    <2> QED BY <2>1, <2>2
  <1>5. PICK m \in ended : \A j \in ended : m <= j
    <2>1. ended \subseteq Nat
      OBVIOUS
    <2> HIDE DEF ended
    <2> QED BY <1>4, <2>1, LeastExists
  <1>6. m \in Nat /\ b[m] = end /\ m <= most
    BY <1>4, <1>5
  <1>7. \A i \in 0..(m - 1) : i \in Nat /\ b[i] < end /\ b[i] < b[i + 1]
    <2> SUFFICES ASSUME NEW i \in 0..(m - 1) PROVE i \in Nat /\ b[i] < end /\ b[i] < b[i + 1]
      OBVIOUS
    <2>1. i \in Nat /\ ~(m <= i)
      BY <1>6
    <2>2. b[i] # end /\ b[i] \in start..end
      BY <1>1, <1>5, <2>1
    <2>3. b[i] < end
      BY <2>2
    <2> QED BY <1>1, <2>1, <2>3
  <1>8. ASSUME NEW i \in 0..most, b[i] < end PROVE i \in 0..(m - 1)
    <2> DEFINE bad == {k \in Nat : m <= k /\ b[k] # end}
    <2>1. ASSUME bad # {} PROVE FALSE
      <3>1. PICK k \in bad : \A j \in bad : k <= j
        <4>1. bad \subseteq Nat
          OBVIOUS
        <4> HIDE DEF bad
        <4> QED BY <2>1, <4>1, LeastExists
      <3>2. k \in Nat /\ m <= k /\ b[k] # end /\ k # m
        BY <1>6, <3>1
      <3>3. PICK n \in Nat : k = n + 1
        <4>1. k - 1 \in Nat /\ k = (k - 1) + 1
          BY <1>6, <3>2
        <4> QED BY <4>1
      <3>4. n \notin bad /\ m <= n
        BY <1>6, <3>1, <3>2, <3>3
      <3> QED BY <1>1, <3>2, <3>3, <3>4
    <2>2. i \in Nat /\ b[i] # end
      BY <1>3, <1>8
    <2>3. ~(m <= i)
      BY <2>1, <2>2
    <2> QED BY <1>6, <2>2, <2>3
  <1>9. {j \in 0..most : b[j] < end} = 0..(m - 1)
    <2>1. \A i \in 0..(m - 1) : i \in 0..most
      BY <1>3, <1>6
    <2> QED BY <1>7, <1>8, <2>1
  <1>10. \A i \in 0..m : b[i] \in Int
    BY <1>1, <1>6
  <1>11. Windows(start, end, months) = {<<b[i], b[i + 1]>> : i \in 0..(m - 1)}
    BY <1>2, <1>9
  <1> HIDE DEF ended
  <1>12. Cuts(Windows(start, end, months), start, end, m, b)
    BY <1>1, <1>6, <1>7, <1>10, <1>11 DEF Cuts
  <1> QED BY <1>12

LEMMA CutsInOrder ==
  ASSUME NEW windows, NEW start, NEW end, NEW m, NEW b, Cuts(windows, start, end, m, b),
         NEW i \in 0..m, NEW j \in 0..m, i < j
  PROVE  b[i] < b[j]
  BY GrowingIsOrdered DEF Cuts

\* A time of the evaluation is in one window.
LEMMA OneWindow ==
  ASSUME NEW windows, NEW start \in Int, NEW end \in Int, NEW m, NEW b,
         Cuts(windows, start, end, m, b), NEW d \in start..(end - 1)
  PROVE  Cardinality({w \in windows : InHalfOpen(d, w)}) = 1
  <1> DEFINE later == {i \in 0..m : d < b[i]}
  <1>1. m \in Nat /\ b[0] = start /\ b[m] = end /\ \A i \in 0..m : b[i] \in Int
    BY DEF Cuts
  <1>2. PICK k \in later : \A j \in later : k <= j
    <2>1. later \subseteq Nat /\ m \in later
      BY <1>1
    <2> HIDE DEF later
    <2> QED BY <2>1, LeastExists
  <1>3. k \in 0..m /\ d < b[k] /\ k # 0
    BY <1>1, <1>2
  <1> DEFINE n == k - 1
  <1>4. n \in 0..(m - 1) /\ n \in 0..m /\ k = n + 1 /\ ~(k <= n)
    BY <1>1, <1>3
  <1>5. n \notin later
    BY <1>2, <1>4
  <1> HIDE DEF n
  <1>6. b[n] <= d /\ d < b[n + 1]
    BY <1>1, <1>3, <1>4, <1>5
  <1>7. ASSUME NEW i \in 0..(m - 1), b[i] <= d, d < b[i + 1] PROVE i = n
    <2>1. i \in 0..m /\ i + 1 \in 0..m /\ n + 1 \in 0..m /\ i \in Int /\ n \in Int
      BY <1>1, <1>4
    <2>2. /\ b[i] \in Int /\ b[n] \in Int /\ b[i + 1] \in Int /\ b[n + 1] \in Int
      BY <1>1, <1>4, <2>1
    <2>3. i < n => b[i + 1] <= b[n]
      <3>1. i < n => i + 1 < n \/ i + 1 = n
        BY <2>1
      <3> QED BY <1>4, <2>1, <2>2, <3>1, CutsInOrder
    <2>4. n < i => b[n + 1] <= b[i]
      <3>1. n < i => n + 1 < i \/ n + 1 = i
        BY <2>1
      <3> QED BY <1>4, <2>1, <2>2, <3>1, CutsInOrder
    <2> QED BY <1>6, <1>7, <2>1, <2>2, <2>3, <2>4
  <1> DEFINE w == <<b[n], b[n + 1]>>
  <1>8. w \in windows /\ InHalfOpen(d, w)
    BY <1>4, <1>6 DEF Cuts, InHalfOpen
  <1>9. ASSUME NEW v \in windows, InHalfOpen(d, v) PROVE v = w
    <2>1. PICK i \in 0..(m - 1) : v = <<b[i], b[i + 1]>>
      BY DEF Cuts
    <2>2. b[i] <= d /\ d < b[i + 1]
      BY <1>9, <2>1 DEF InHalfOpen
    <2> QED BY <1>7, <2>1, <2>2
  <1> HIDE DEF w
  <1>10. {v \in windows : InHalfOpen(d, v)} = {w}
    BY <1>8, <1>9
  <1> QED BY <1>10, FS_Singleton
-----------------------------------------------------------------------------
(* The curve: its points are ordered by rank, a later time has a higher rank, *)
(* and a rank has one point.                                                 *)

\* What the run's trades are: of its minutes, and finitely many.
Timed == IsFiniteSet(trades) /\ \A t \in trades : t \in Closed /\ t.exitTime \in 0..(End - 1)

LEMMA RankOfTrade ==
  ASSUME NEW t \in Closed
  PROVE  \E i \in 0..(N - 1) : Rank(t) = 1 + t.exitTime * N + i
  <1>1. N \in Nat /\ {ByName[i] : i \in 1..N} = Symbols
    BY Indices, EvaluationAssumption DEF EvaluationAssumption
  <1>2. t.symbol \in Symbols
    BY DEF Closed
  <1>3. PICK j \in 1..N : ByName[j] = t.symbol
    BY <1>1, <1>2
  <1> DEFINE Named(i) == ByName[i + 1] = t.symbol
             place == CHOOSE i \in 0..(N - 1) : Named(i)
  <1>4. j - 1 \in 0..(N - 1) /\ (j - 1) + 1 = j
    BY <1>1, <1>3
  <1>5. Named(j - 1)
    BY <1>3, <1>4
  <1>6. Rank(t) = 1 + t.exitTime * N + place
    BY DEF Rank
  <1> HIDE DEF Named
  <1>7. place \in 0..(N - 1)
    BY <1>4, <1>5
  <1> HIDE DEF place
  <1> QED BY <1>6, <1>7

LEMMA RanksInOrder ==
  ASSUME NEW t \in Closed, NEW u \in Closed, t.exitTime \in Nat, u.exitTime \in Nat
  PROVE  /\ Rank(t) \in Nat \ {0}
         /\ t.exitTime < u.exitTime => Rank(t) < Rank(u)
  <1>1. N \in Nat
    BY Indices
  <1>2. PICK i \in 0..(N - 1) : Rank(t) = 1 + t.exitTime * N + i
    BY RankOfTrade
  <1>3. PICK j \in 0..(N - 1) : Rank(u) = 1 + u.exitTime * N + j
    BY RankOfTrade
  <1>4. PICK e \in Nat : e = t.exitTime
    OBVIOUS
  <1>5. e * N \in Nat
    BY <1>1
  <1>6. Rank(t) \in Nat \ {0}
    BY <1>1, <1>2, <1>4, <1>5
  <1>7. ASSUME t.exitTime < u.exitTime PROVE Rank(t) < Rank(u)
    <2>1. PICK d \in Nat : u.exitTime = e + 1 + d
      <3>1. u.exitTime - e - 1 \in Nat /\ u.exitTime = e + 1 + (u.exitTime - e - 1)
        BY <1>4, <1>7
      <3> QED BY <3>1
    <2>2. (e + 1 + d) * N = e * N + N + d * N /\ d * N \in Nat
      BY <1>1
    <2>3. Rank(t) = 1 + e * N + i /\ Rank(u) = 1 + (e * N + N + d * N) + j
      BY <1>2, <1>3, <1>4, <2>1, <2>2
    <2> DEFINE x == e * N
               y == d * N
    <2>4. x \in Nat /\ y \in Nat /\ Rank(t) = 1 + x + i /\ Rank(u) = 1 + (x + N + y) + j
      BY <1>5, <2>2, <2>3
    <2> HIDE DEF x, y
    <2> QED BY <1>1, <1>2, <1>3, <2>4
  <1> QED BY <1>6, <1>7

StartPoint(start) == [rank |-> 0, time |-> start, equity |-> StartingEquity]
TradePoint(start, t) ==
  [rank |-> Rank(t), time |-> start + t.exitTime,
   equity |-> StartingEquity + Net({x \in trades : Rank(x) <= Rank(t)})]

Ordered(curve, start) ==
  /\ StartPoint(start) \in curve
  /\ \A p \in curve : p.rank \in Nat /\ p.time \in Int /\ start <= p.time
  /\ \A p, q \in curve : /\ p.rank = q.rank => p = q
                         /\ p.time < q.time => p.rank < q.rank
  /\ \E most \in Nat : \A p \in curve : p.rank <= most

LEMMA CurvePoints ==
  ASSUME NEW start
  PROVE  Curve(start) = {StartPoint(start)} \union {TradePoint(start, t) : t \in trades}
  BY DEF Curve, StartPoint, TradePoint

LEMMA CurveIsOrdered ==
  ASSUME Timed, NEW start \in Nat
  PROVE  Ordered(Curve(start), start)
  <1> DEFINE c == Curve(start)
  <1>1. c = {StartPoint(start)} \union {TradePoint(start, t) : t \in trades}
    BY CurvePoints
  <1> HIDE DEF c
  <1>2. /\ StartPoint(start).rank = 0 /\ StartPoint(start).time = start
        /\ \A t \in trades : /\ TradePoint(start, t).rank = Rank(t)
                             /\ TradePoint(start, t).time = start + t.exitTime
    BY DEF StartPoint, TradePoint
  <1>3. \A t \in trades : t \in Closed /\ t.exitTime \in Nat
    BY DEF Timed
  <1>4. \A t \in trades : Rank(t) \in Nat \ {0}
    BY <1>3, RanksInOrder
  <1>5. \A t, u \in trades : t.exitTime < u.exitTime => Rank(t) < Rank(u)
    BY <1>3, RanksInOrder
  <1>6. ASSUME NEW t \in trades, NEW u \in trades, Rank(t) = Rank(u)
        PROVE  TradePoint(start, t) = TradePoint(start, u)
    <2>1. ~(t.exitTime < u.exitTime) /\ ~(u.exitTime < t.exitTime)
      BY <1>4, <1>5, <1>6
    <2>2. t.exitTime = u.exitTime
      BY <1>3, <2>1
    <2> QED BY <1>6, <2>2 DEF TradePoint
  <1>7. ASSUME NEW p \in c, NEW q \in c
        PROVE  /\ p.rank = q.rank => p = q
               /\ p.time < q.time => p.rank < q.rank
    <2>1. CASE p = StartPoint(start) /\ q = StartPoint(start)
      BY <1>2, <2>1
    <2>2. CASE p = StartPoint(start) /\ q # StartPoint(start)
      <3>1. PICK u \in trades : q = TradePoint(start, u)
        BY <1>1, <2>2
      <3> QED BY <1>2, <1>4, <2>2, <3>1
    <2>3. CASE p # StartPoint(start) /\ q = StartPoint(start)
      <3>1. PICK t \in trades : p = TradePoint(start, t)
        BY <1>1, <2>3
      <3>2. p.rank \in Nat \ {0} /\ q.rank = 0 /\ p.time = start + t.exitTime /\ q.time = start
        BY <1>2, <1>4, <2>3, <3>1
      <3>3. t.exitTime \in Nat
        BY <1>3
      <3> QED BY <3>2, <3>3
    <2>4. CASE p # StartPoint(start) /\ q # StartPoint(start)
      <3>1. PICK t \in trades : p = TradePoint(start, t)
        BY <1>1, <2>4
      <3>2. PICK u \in trades : q = TradePoint(start, u)
        BY <1>1, <2>4
      <3>3. t.exitTime \in Nat /\ u.exitTime \in Nat
        BY <1>3
      <3>4. p.time = start + t.exitTime /\ q.time = start + u.exitTime
            /\ p.rank = Rank(t) /\ q.rank = Rank(u)
        BY <1>2, <3>1, <3>2
      <3>5. p.time < q.time => t.exitTime < u.exitTime
        BY <3>3, <3>4
      <3> QED BY <1>5, <1>6, <3>1, <3>2, <3>4, <3>5
    <2> QED BY <2>1, <2>2, <2>3, <2>4
  <1>8. ASSUME NEW p \in c PROVE p.rank \in Nat /\ p.time \in Int /\ start <= p.time
    <2>1. CASE p = StartPoint(start)
      BY <1>2, <2>1
    <2>2. CASE p # StartPoint(start)
      <3>1. PICK t \in trades : p = TradePoint(start, t)
        BY <1>1, <2>2
      <3> QED BY <1>2, <1>3, <1>4, <3>1
    <2> QED BY <2>1, <2>2
  <1>9. \E most \in Nat : \A p \in c : p.rank <= most
    <2>1. N \in Nat /\ End \in Nat
      BY Indices, AccountAssumption DEF AccountAssumption
    <2>2. PICK most \in Nat : most = End * N
      BY <2>1
    <2>3. ASSUME NEW t \in trades PROVE Rank(t) <= most
      <3>1. PICK i \in 0..(N - 1) : Rank(t) = 1 + t.exitTime * N + i
        BY <1>3, RankOfTrade
      <3>2. PICK e \in Nat : e = t.exitTime /\ e + 1 <= End
        BY <2>1 DEF Timed
      <3>3. PICK d \in Nat : End = e + 1 + d
        <4>1. End - e - 1 \in Nat /\ End = e + 1 + (End - e - 1)
          BY <2>1, <3>2
        <4> QED BY <4>1
      <3>4. (e + 1 + d) * N = e * N + N + d * N /\ d * N \in Nat /\ e * N \in Nat
        BY <2>1
      <3> DEFINE x == e * N
                 y == d * N
      <3>5. x \in Nat /\ y \in Nat /\ most = x + N + y /\ Rank(t) = 1 + x + i
        BY <2>2, <3>1, <3>2, <3>3, <3>4
      <3> HIDE DEF x, y
      <3> QED BY <2>1, <3>1, <3>5
    <2>4. \A p \in c : p.rank <= most
      BY <1>1, <1>2, <2>3
    <2> QED BY <2>4
  <1>10. StartPoint(start) \in c
    BY <1>1
  <1>11. Ordered(c, start)
    BY <1>7, <1>8, <1>9, <1>10 DEF Ordered
  <1> QED BY <1>11 DEF c
-----------------------------------------------------------------------------
(* What a window earns is what the trades that close in it earn.              *)

LEMMA LastIs ==
  ASSUME NEW curve, NEW start, Ordered(curve, start), NEW points, points \subseteq curve,
         NEW p \in points, \A q \in points : q.rank <= p.rank
  PROVE  Last(points) = p
  <1> DEFINE IsLast(x) == \A q \in points : q.rank <= x.rank
  <1>1. IsLast(p)
    OBVIOUS
  <1>2. Last(points) = CHOOSE x \in points : IsLast(x)
    BY DEF Last
  <1>3. ASSUME NEW x \in points, IsLast(x) PROVE x = p
    <2>1. x.rank <= p.rank /\ p.rank <= x.rank
      BY <1>3
    <2>2. x.rank \in Nat /\ p.rank \in Nat /\ (x.rank = p.rank => x = p)
      BY DEF Ordered
    <2> QED BY <2>1, <2>2
  <1> HIDE DEF IsLast
  <1> QED BY <1>1, <1>2, <1>3

LEMMA FirstIs ==
  ASSUME NEW curve, NEW start, Ordered(curve, start), NEW points, points \subseteq curve,
         NEW p \in points, \A q \in points : p.rank <= q.rank
  PROVE  First(points) = p
  <1> DEFINE IsFirst(x) == \A q \in points : x.rank <= q.rank
  <1>1. IsFirst(p)
    OBVIOUS
  <1>2. First(points) = CHOOSE x \in points : IsFirst(x)
    BY DEF First
  <1>3. ASSUME NEW x \in points, IsFirst(x) PROVE x = p
    <2>1. x.rank <= p.rank /\ p.rank <= x.rank
      BY <1>3
    <2>2. x.rank \in Nat /\ p.rank \in Nat /\ (x.rank = p.rank => x = p)
      BY DEF Ordered
    <2> QED BY <2>1, <2>2
  <1> HIDE DEF IsFirst
  <1> QED BY <1>1, <1>2, <1>3

LEMMA LastExists ==
  ASSUME NEW curve, NEW start, Ordered(curve, start), NEW points, points \subseteq curve,
         points # {}
  PROVE  Last(points) \in points /\ \A q \in points : q.rank <= Last(points).rank
  <1>1. PICK most \in Nat : \A p \in curve : p.rank <= most
    BY DEF Ordered
  <1> DEFINE below == {k \in Nat : \E p \in points : p.rank + k = most}
  <1>2. \A p \in points : p.rank \in Nat /\ p.rank <= most
    BY <1>1 DEF Ordered
  <1>3. below # {}
    <2>1. PICK p \in points : TRUE
      OBVIOUS
    <2>2. most - p.rank \in Nat /\ p.rank + (most - p.rank) = most
      BY <1>2
    <2> QED BY <2>2
  <1>4. PICK k \in below : \A j \in below : k <= j
    <2>1. below \subseteq Nat
      OBVIOUS
    <2> HIDE DEF below
    <2> QED BY <1>3, <2>1, LeastExists
  <1>5. PICK p \in points : p.rank + k = most
    BY <1>4
  <1>6. ASSUME NEW q \in points PROVE q.rank <= p.rank
    <2>1. PICK j \in Nat : q.rank + j = most
      <3>1. most - q.rank \in Nat /\ q.rank + (most - q.rank) = most
        BY <1>2
      <3> QED BY <3>1
    <2>2. k <= j
      BY <1>4, <2>1
    <2> QED BY <1>2, <1>4, <1>5, <2>1, <2>2
  <1>7. Last(points) = p
    BY <1>6, LastIs
  <1> QED BY <1>6, <1>7

PointsBefore(curve, d) == {p \in curve : p.time < d}

LEMMA WindowEnds ==
  ASSUME NEW curve, NEW start \in Int, Ordered(curve, start),
         NEW c \in Int, NEW d \in Int, start <= c, c < d
  PROVE  LET points == WindowPoints(curve, <<c, d>>)
         IN /\ points \subseteq curve
            /\ Last(points) = Last(PointsBefore(curve, d))
            /\ First(points) = IF c = start THEN StartPoint(start) ELSE Last(PointsBefore(curve, c))
  <1> DEFINE inside == {p \in curve : InHalfOpen(p.time, <<c, d>>)}
             was    == PointsBefore(curve, c)
             now    == PointsBefore(curve, d)
             opening == IF was = {} THEN First(curve) ELSE Last(was)
             points == {opening} \union inside
             origin == StartPoint(start)
  <1>1. WindowPoints(curve, <<c, d>>) = points
    BY DEF WindowPoints, PointsBefore
  <1>2. origin \in curve /\ origin.rank = 0 /\ origin.time = start
    BY DEF Ordered, StartPoint
  <1>3. \A p \in curve : p.rank \in Nat /\ p.time \in Int /\ start <= p.time
    BY DEF Ordered
  <1>4. was \subseteq curve /\ now \subseteq curve /\ inside \subseteq curve
        /\ now = was \union inside /\ origin \in now
    BY <1>2, <1>3 DEF PointsBefore, InHalfOpen
  <1>5. \A p \in was : \A q \in inside : p.rank < q.rank
    BY DEF Ordered, PointsBefore, InHalfOpen
  <1>6. was = {} <=> c = start
    BY <1>2, <1>3 DEF PointsBefore
  <1>7. First(curve) = origin
    <2>1. \A q \in curve : origin.rank <= q.rank
      BY <1>2, <1>3
    <2> HIDE DEF origin
    <2> QED BY <1>2, <2>1, FirstIs
  <1>8. was # {} => Last(was) \in was /\ \A q \in was : q.rank <= Last(was).rank
    BY <1>4, LastExists
  <1>9. Last(now) \in now /\ \A q \in now : q.rank <= Last(now).rank
    BY <1>4, LastExists
  <1> HIDE DEF inside, was, now, origin
  <1>10. opening \in now /\ opening \in curve /\ opening = IF c = start THEN origin ELSE Last(was)
    BY <1>2, <1>4, <1>6, <1>7, <1>8
  <1>11. \A q \in inside : opening.rank <= q.rank
    <2>1. CASE was = {}
      BY <1>2, <1>3, <1>4, <1>7, <2>1
    <2>2. CASE was # {}
      <3>1. \A q \in inside : Last(was).rank < q.rank
        BY <1>5, <1>8, <2>2
      <3>2. \A q \in inside : Last(was).rank \in Nat /\ q.rank \in Nat
        BY <1>3, <1>4, <1>8, <2>2
      <3> QED BY <2>2, <3>1, <3>2
    <2> QED BY <2>1, <2>2
  <1>12. Last(now) \in points
    <2>1. CASE Last(now) \in inside
      BY <2>1
    <2>2. CASE Last(now) \notin inside
      <3>1. Last(now) \in was
        BY <1>4, <1>9, <2>2
      <3>2. \A q \in was : q.rank <= Last(now).rank
        BY <1>4, <1>9
      <3>3. Last(was) = Last(now)
        BY <1>4, <3>1, <3>2, LastIs
      <3> QED BY <3>1, <3>3
    <2> QED BY <2>1, <2>2
  <1>13. points \subseteq now /\ points \subseteq curve /\ opening \in points
    BY <1>4, <1>10
  <1>14. opening.rank \in Nat
    BY <1>3, <1>10
  <1>15. \A q \in points : opening.rank <= q.rank
    BY <1>11, <1>14
  <1> HIDE DEF points, opening
  <1>16. Last(points) = Last(now)
    BY <1>9, <1>12, <1>13, LastIs
  <1>17. First(points) = opening
    BY <1>13, <1>15, FirstIs
  <1> QED BY <1>1, <1>10, <1>13, <1>16, <1>17 DEF was, now, origin

\* What the trades that close before d have earned.
Earned(start, d) == Net({t \in trades : start + t.exitTime < d})

LEMMA EarnedIsInteger ==
  ASSUME Timed, NEW start, NEW d
  PROVE  Earned(start, d) \in Int
  <1> DEFINE S == {t \in trades : start + t.exitTime < d}
  <1>1. IsFiniteSet(S)
    BY FS_Subset DEF Timed
  <1>2. \A t \in S : t.net \in Int
    BY DEF Timed, Closed
  <1> HIDE DEF S
  <1>3. Net(S) \in Int
    BY <1>1, <1>2, NetIsInteger
  <1> QED BY <1>3 DEF Earned, S

\* The equity a window begins with, and the one it ends with.
LEMMA LastEquity ==
  ASSUME Timed, NEW start \in Nat, NEW d \in Int, start < d
  PROVE  Last(PointsBefore(Curve(start), d)).equity = StartingEquity + Earned(start, d)
  <1> DEFINE c == Curve(start)
             S == {t \in trades : start + t.exitTime < d}
             now == PointsBefore(c, d)
             last == Last(now)
  <1>1. Ordered(c, start)
    BY CurveIsOrdered
  <1>2. c = {StartPoint(start)} \union {TradePoint(start, t) : t \in trades}
    BY CurvePoints
  <1> HIDE DEF c
  <1>3. now \subseteq c /\ StartPoint(start) \in now
    BY <1>2 DEF PointsBefore, StartPoint
  <1>4. last \in now /\ \A q \in now : q.rank <= last.rank
    <2> HIDE DEF now
    <2> QED BY <1>1, <1>3, LastExists
  <1> HIDE DEF last
  <1>5. \A t \in trades : t \in Closed /\ t.exitTime \in Nat /\ Rank(t) \in Nat \ {0}
    BY RanksInOrder DEF Timed
  <1>6. ASSUME NEW x \in S PROVE Rank(x) <= last.rank
    <2>1. TradePoint(start, x) \in now
      BY <1>2 DEF PointsBefore, TradePoint
    <2>2. TradePoint(start, x).rank <= last.rank
      BY <1>4, <2>1
    <2> QED BY <2>2 DEF TradePoint
  <1>7. CASE last = StartPoint(start)
    <2>1. last.rank = 0 /\ last.equity = StartingEquity
      BY <1>7 DEF StartPoint
    <2>2. S = {}
      <3>1. ASSUME NEW x \in S PROVE FALSE
        BY <1>5, <1>6, <2>1
      <3> QED BY <3>1
    <2>3. Net(S) = 0
      <3> HIDE DEF S
      <3> QED BY <2>2, NetOfNone
    <2>4. StartingEquity \in Int
      BY AccountAssumption DEF AccountAssumption
    <2>5. Earned(start, d) = 0
      BY <2>3 DEF Earned
    <2>6. last.equity = StartingEquity + Earned(start, d)
      BY <2>1, <2>4, <2>5
    <2> QED BY <2>6 DEF last, now, c
  <1>8. CASE last # StartPoint(start)
    <2>1. PICK t \in trades : last = TradePoint(start, t)
      BY <1>2, <1>3, <1>4, <1>8
    <2>2. last.rank = Rank(t) /\ start + t.exitTime < d
          /\ last.equity = StartingEquity + Net({x \in trades : Rank(x) <= Rank(t)})
      BY <1>4, <2>1 DEF TradePoint, PointsBefore
    <2>3. ASSUME NEW x \in trades, Rank(x) <= Rank(t) PROVE start + x.exitTime < d
      <3>1. t.exitTime < x.exitTime => Rank(t) < Rank(x)
        BY <1>5, RanksInOrder
      <3>2. ~(Rank(t) < Rank(x))
        BY <1>5, <2>3
      <3>3. x.exitTime \in Nat /\ t.exitTime \in Nat
        BY <1>5
      <3> QED BY <2>2, <3>1, <3>2, <3>3
    <2>4. {x \in trades : Rank(x) <= Rank(t)} = S
      BY <1>6, <2>2, <2>3
    <2> QED BY <2>2, <2>4 DEF Earned, last, now, c
  <1> QED BY <1>7, <1>8 DEF last, now, c

LEMMA WindowGain ==
  ASSUME Timed, NEW start \in Nat, NEW c \in Int, NEW d \in Int, start <= c, c < d
  PROVE  Gained(WindowPoints(Curve(start), <<c, d>>)) = Earned(start, d) - Earned(start, c)
  <1> DEFINE points == WindowPoints(Curve(start), <<c, d>>)
  <1>1. Ordered(Curve(start), start)
    BY CurveIsOrdered
  <1>2. /\ Last(points) = Last(PointsBefore(Curve(start), d))
        /\ First(points) = IF c = start THEN StartPoint(start) ELSE Last(PointsBefore(Curve(start), c))
    BY <1>1, WindowEnds
  <1>3. Last(points).equity = StartingEquity + Earned(start, d)
    BY <1>2, LastEquity
  <1>4. First(points).equity = StartingEquity + Earned(start, c)
    <2>1. CASE c = start
      <3>1. {t \in trades : start + t.exitTime < c} = {}
        BY <2>1 DEF Timed
      <3>2. Earned(start, c) = 0
        BY <3>1, NetOfNone DEF Earned
      <3>3. StartPoint(start).equity = StartingEquity /\ StartingEquity \in Int
        BY AccountAssumption DEF AccountAssumption, StartPoint
      <3> QED BY <1>2, <2>1, <3>2, <3>3
    <2>2. CASE c # start
      BY <1>2, <2>2, LastEquity
    <2> QED BY <2>1, <2>2
  <1>5. Earned(start, c) \in Int /\ Earned(start, d) \in Int /\ StartingEquity \in Int
    BY EarnedIsInteger, AccountAssumption DEF AccountAssumption
  <1> HIDE DEF points
  <1>6. Gained(points) = (StartingEquity + Earned(start, d)) - (StartingEquity + Earned(start, c))
    BY <1>3, <1>4 DEF Gained
  <1> QED BY <1>5, <1>6 DEF points
-----------------------------------------------------------------------------
(* The windows' gains add up.                                                *)

LEMMA GainIsAdditive ==
  ASSUME NEW start, NEW amount, IsFiniteSet(EvaluationWindows(start)),
         \A w \in EvaluationWindows(start) :
           amount[w] = Gained(WindowPoints(Curve(start), w)),
         NEW g, Additive(EvaluationWindows(start), amount, g)
  PROVE  GainedInWindows(start) = g[EvaluationWindows(start)]
  <1> DEFINE S == EvaluationWindows(start)
             gain(w) == Gained(WindowPoints(Curve(start), w))
             Recurrence(u) ==
               u = [s \in SUBSET S |->
                      IF s = {} THEN 0
                      ELSE gain(CHOOSE x \in s : TRUE) + u[s \ {CHOOSE x \in s : TRUE}]]
             iter == CHOOSE u : Recurrence(u)
  <1>1. GainedInWindows(start) = iter[S]
    BY DEF GainedInWindows, MapThenSumSet, MapThenFoldSet
  <1>2. \A w \in S : amount[w] = gain(w)
    OBVIOUS
  <1>3. IsFiniteSet(S) /\ Additive(S, amount, g)
    OBVIOUS
  <1> HIDE DEF S, gain
  <1>4. Recurrence(g)
    <2> DEFINE r == [s \in SUBSET S |->
                      IF s = {} THEN 0
                      ELSE gain(CHOOSE x \in s : TRUE) + g[s \ {CHOOSE x \in s : TRUE}]]
    <2>1. g = [s \in SUBSET S |-> g[s]]
      BY <1>3 DEF Additive
    <2>2. ASSUME NEW s \in SUBSET S PROVE g[s] = r[s]
      <3>1. s # {} => (CHOOSE x \in s : TRUE) \in s
        OBVIOUS
      <3> QED BY <1>2, <1>3, <3>1 DEF Additive
    <2> QED BY <2>1, <2>2
  <1>5. Recurrence(iter)
    <2> HIDE DEF Recurrence
    <2> QED BY <1>4
  <1> DEFINE next == [s \in SUBSET S |-> CHOOSE x \in s : TRUE]
  <1>6. iter[{}] = 0 /\ \A s \in SUBSET S : s # {} => next[s] \in s
    <2> HIDE DEF iter
    <2> QED BY <1>5
  <1>7. ASSUME NEW s \in SUBSET S, s # {}
        PROVE  iter[s] = amount[next[s]] + iter[s \ {next[s]}]
    <2> HIDE DEF iter
    <2>1. next[s] \in S /\ amount[next[s]] = gain(next[s])
      BY <1>2, <1>6, <1>7
    <2> QED BY <1>5, <1>7, <2>1
  <1> HIDE DEF iter, next
  <1>8. Iterated(S, amount, next, iter)
    BY <1>6, <1>7 DEF Iterated
  <1>9. iter[S] = g[S]
    BY <1>3, <1>8, SolutionIsAdditive
  <1> QED BY <1>1, <1>9 DEF S

\* A sum over pieces of what changes over each is what changes over the whole.
LEMMA CutsTelescope ==
  ASSUME NEW windows, NEW start, NEW end, NEW m, NEW b, Cuts(windows, start, end, m, b),
         NEW value, \A i \in 0..m : value[i] \in Int,
         NEW amount, \A i \in 0..(m - 1) : amount[<<b[i], b[i + 1]>>] = value[i + 1] - value[i],
         NEW g, Additive(windows, amount, g)
  PROVE  g[windows] = value[m] - value[0]
  <1> DEFINE piece(i) == <<b[i], b[i + 1]>>
             part(i) == {piece(j) : j \in 0..(i - 1)}
             good(i) == g[part(i)] = value[i] - value[0]
             bad == {i \in 0..m : ~good(i)}
  <1>1. /\ m \in Nat /\ windows = part(m)
        /\ \A i \in 0..m : b[i] \in Int
    BY DEF Cuts
  <1>2. ASSUME bad # {} PROVE FALSE
    <2>1. PICK k \in bad : \A j \in bad : k <= j
      <3>1. bad \subseteq Nat
        BY <1>1
      <3> HIDE DEF bad
      <3> QED BY <1>2, <3>1, LeastExists
    <2>2. k \in 0..m /\ ~good(k)
      BY <2>1
    <2>3. k # 0
      <3>1. part(0) = {}
        OBVIOUS
      <3>2. g[{}] = 0 /\ value[0] \in Int
        BY <1>1 DEF Additive
      <3>3. good(0)
        <4> HIDE DEF part
        <4> QED BY <3>1, <3>2
      <3> QED BY <2>2, <3>3
    <2>4. PICK n \in 0..(m - 1) : k = n + 1
      <3>1. k - 1 \in 0..(m - 1) /\ k = (k - 1) + 1
        BY <1>1, <2>2, <2>3
      <3> QED BY <3>1
    <2>5. n \in 0..m /\ ~(k <= n) /\ n \in Nat
      BY <1>1, <2>4
    <2>6. good(n)
      <3> HIDE DEF good
      <3> QED BY <2>1, <2>5
    <2>7. piece(n) \in part(k) /\ part(k) \in SUBSET windows
      BY <1>1, <2>2, <2>4, <2>5
    <2>8. part(k) \ {piece(n)} = part(n)
      <3>1. ASSUME NEW j \in 0..(n - 1) PROVE piece(j) # piece(n)
        <4>1. j \in 0..m /\ j < n
          BY <1>1, <2>5
        <4>2. b[j] < b[n] /\ b[j] \in Int /\ b[n] \in Int
          BY <1>1, <2>5, <4>1, CutsInOrder
        <4> QED BY <4>2
      <3>2. 0..(k - 1) = (0..(n - 1)) \union {n}
        BY <2>4, <2>5
      <3> HIDE DEF piece
      <3> QED BY <3>1, <3>2
    <2>9. amount[piece(n)] = value[k] - value[n]
      BY <2>4
    <2> DEFINE w == piece(n)
               T == part(k)
    <2>10. T \in SUBSET windows /\ w \in T /\ T \ {w} = part(n)
      BY <2>7, <2>8
    <2> HIDE DEF w, T
    <2>11. g[T] = amount[w] + g[T \ {w}]
      BY <2>10 DEF Additive
    <2>12. g[T] = (value[k] - value[n]) + (value[n] - value[0])
      <3>1. amount[w] = value[k] - value[n]
        BY <2>9 DEF w
      <3>2. g[T \ {w}] = value[n] - value[0]
        BY <2>6, <2>10
      <3> QED BY <2>11, <3>1, <3>2
    <2>13. value[k] \in Int /\ value[n] \in Int /\ value[0] \in Int
      BY <1>1, <2>2, <2>5
    <2>14. g[T] = value[k] - value[0]
      BY <2>12, <2>13
    <2> QED BY <2>2, <2>14 DEF T
  <1>3. good(m)
    <2>1. m \in 0..m
      BY <1>1
    <2> HIDE DEF good
    <2> QED BY <1>2, <2>1
  <1> HIDE DEF part
  <1> QED BY <1>1, <1>3

LEMMA EvaluationCuts ==
  ASSUME NEW start \in Nat
  PROVE  \E m, b : Cuts(EvaluationWindows(start), start, start + End, m, b)
  <1>1. End \in Nat /\ WindowMonths \in Nat \ {0}
    BY AccountAssumption, EvaluationAssumption DEF AccountAssumption, EvaluationAssumption
  <1> DEFINE end == start + End
  <1>2. end \in Nat /\ start <= end
    BY <1>1
  <1> HIDE DEF end
  <1>3. \E m, b : Cuts(Windows(start, end, WindowMonths), start, end, m, b)
    BY <1>1, <1>2, WindowsCut
  <1> QED BY <1>3 DEF EvaluationWindows, end

LEMMA WindowsGain ==
  ASSUME Timed, NEW start \in Nat
  PROVE  GainedInWindows(start) = Net(trades)
  <1> DEFINE windows == EvaluationWindows(start)
             end == start + End
  <1>1. PICK m, b : Cuts(windows, start, end, m, b)
    BY EvaluationCuts
  <1>2. /\ m \in Nat /\ b[0] = start /\ b[m] = end
        /\ \A i \in 0..m : b[i] \in Int
        /\ \A i \in 0..(m - 1) : b[i] < b[i + 1]
        /\ windows = {<<b[i], b[i + 1]>> : i \in 0..(m - 1)}
    BY <1>1 DEF Cuts
  <1> HIDE DEF windows
  <1> DEFINE value == [i \in 0..m |-> Earned(start, b[i])]
             amount == [w \in windows |-> Gained(WindowPoints(Curve(start), w))]
  <1>3. \A i \in 0..m : value[i] \in Int
    BY EarnedIsInteger
  <1>4. ASSUME NEW i \in 0..(m - 1)
        PROVE  amount[<<b[i], b[i + 1]>>] = value[i + 1] - value[i]
    <2>1. <<b[i], b[i + 1]>> \in windows /\ i \in 0..m /\ i + 1 \in 0..m
      BY <1>2
    <2>2. b[i] \in Int /\ b[i + 1] \in Int /\ b[i] < b[i + 1] /\ start <= b[i]
      <3>1. i = 0 \/ 0 < i
        BY <1>2
      <3>2. 0 \in 0..m
        BY <1>2
      <3>3. 0 < i => b[0] < b[i]
        BY <1>1, <2>1, <3>2, CutsInOrder
      <3> QED BY <1>2, <2>1, <3>1, <3>3
    <2>3. Gained(WindowPoints(Curve(start), <<b[i], b[i + 1]>>))
            = Earned(start, b[i + 1]) - Earned(start, b[i])
      BY <2>2, WindowGain
    <2> QED BY <2>1, <2>3
  <1>5. ASSUME NEW w \in windows PROVE amount[w] \in Int
    <2>1. PICK i \in 0..(m - 1) : w = <<b[i], b[i + 1]>>
      BY <1>2
    <2>2. value[i] \in Int /\ value[i + 1] \in Int
      BY <1>2, <1>3
    <2> HIDE DEF amount, value
    <2> QED BY <1>4, <2>1, <2>2
  <1>6. IsFiniteSet(windows)
    <2> DEFINE top == m - 1
               indices == 0..top
    <2>1. IsFiniteSet(indices)
      BY <1>2, FS_Interval
    <2>2. windows = {<<b[i], b[i + 1]>> : i \in indices}
      BY <1>2
    <2> DEFINE h == [i \in indices |-> <<b[i], b[i + 1]>>]
    <2>3. h \in Surjection(indices, windows)
      BY <2>2 DEF Surjection
    <2> HIDE DEF h, indices
    <2> QED BY <2>1, <2>3, FS_Surjection
  <1>7. \A w \in windows : amount[w] = Gained(WindowPoints(Curve(start), w))
    OBVIOUS
  <1> HIDE DEF amount
  <1>8. PICK g : Additive(windows, amount, g)
    BY <1>5, <1>6, AdditiveExists
  <1>9. GainedInWindows(start) = g[windows]
    BY <1>6, <1>7, <1>8, GainIsAdditive DEF windows
  <1> HIDE DEF value
  <1>10. g[windows] = value[m] - value[0]
    BY <1>1, <1>3, <1>4, <1>8, CutsTelescope
  <1>11. value[m] = Net(trades) /\ value[0] = 0
    <2>1. value[m] = Earned(start, end) /\ value[0] = Earned(start, start)
      BY <1>2 DEF value
    <2>2. /\ {t \in trades : start + t.exitTime < end} = trades
          /\ {t \in trades : start + t.exitTime < start} = {}
      <3>1. \A t \in trades : t.exitTime \in 0..(End - 1)
        BY DEF Timed
      <3>2. End \in Nat
        BY AccountAssumption DEF AccountAssumption
      <3> QED BY <3>1, <3>2
    <2> QED BY <2>1, <2>2, NetOfNone DEF Earned
  <1>12. Net(trades) \in Int
    BY NetIsInteger DEF Timed, Closed
  <1> QED BY <1>9, <1>10, <1>11, <1>12
-----------------------------------------------------------------------------
(* The trades of a run close in its minutes.  A step on a book closes trades  *)
(* at the present minute and forgets none of them.                           *)

Adds(before, after) ==
  /\ \A t \in after : t \in before \/ t.exitTime = Now
  /\ IsFiniteSet(before) => IsFiniteSet(after)

LEMMA AddsTwice ==
  ASSUME NEW a, NEW b, NEW c, Adds(a, b), Adds(b, c)
  PROVE  Adds(a, c)
  BY DEF Adds

LEMMA AddsNone == ASSUME NEW a PROVE Adds(a, a)
  BY DEF Adds

LEMMA ExitsNow ==
  ASSUME NEW s, NEW p, NEW price, NEW reason
  PROVE  Trade(s, p, price, reason).exitTime = Now
  BY DEF Trade

LEMMA CloseAdds ==
  ASSUME NEW book \in Book, NEW s, NEW level, NEW reason
  PROVE  Adds(book.trades, Close(book, s, level, reason).trades)
  <1> DEFINE t == Trade(s, book.acct.positions[s],
                        ExitPrice(book.acct.positions[s], level), reason)
  <1>1. Close(book, s, level, reason).trades = book.trades \union {t}
    BY DEF Close
  <1>2. t.exitTime = Now
    BY ExitsNow
  <1> HIDE DEF t
  <1> QED BY <1>1, <1>2, FS_AddElement DEF Adds

LEMMA SymbolsFinite == IsFiniteSet(Symbols)
  <1>1. N \in Nat /\ \A i \in 1..N : SUPPORTED_SYMBOLS[i] \in Symbols
    BY Indices
  <1> DEFINE indices == 1..N
             h == [i \in indices |-> SUPPORTED_SYMBOLS[i]]
  <1>2. IsFiniteSet(indices)
    BY <1>1, FS_Interval
  <1>3. h \in Surjection(indices, Symbols)
    BY <1>1, Indices DEF Surjection
  <1> HIDE DEF indices, h
  <1> QED BY <1>2, <1>3, FS_Surjection

LEMMA CloseAllAdds ==
  ASSUME NEW book, NEW m, NEW reason
  PROVE  Adds(book.trades, CloseAll(book, m, reason).trades)
  <1> DEFINE p == book.acct.positions
             H == Holding(book.acct)
             h == [s \in H |-> Trade(s, p[s], ExitPrice(p[s], m[s]), reason)]
             T == {h[s] : s \in H}
  <1>1. CloseAll(book, m, reason).trades = book.trades \union T
    BY DEF CloseAll
  <1>2. \A s \in H : h[s].exitTime = Now
    BY ExitsNow
  <1>3. IsFiniteSet(H)
    BY SymbolsFinite, FS_Subset DEF Holding
  <1>4. h \in Surjection(H, T)
    BY DEF Surjection
  <1>5. \A t \in T : t.exitTime = Now
    BY <1>2
  <1> HIDE DEF H, T, h
  <1>6. IsFiniteSet(T)
    BY <1>3, <1>4, FS_Surjection
  <1> QED BY <1>1, <1>5, <1>6, FS_Union DEF Adds

LEMMA EnforceAdds ==
  ASSUME NEW book \in Book, NEW m
  PROVE  Adds(book.trades, EnforceStops(book, m).trades)
  <1> DEFINE equity == Equity(book.acct, m)
             a      == NoteEquity(book.acct, equity)
             noted  == [book EXCEPT !.acct = NoteEquity(@, equity)]
             halt   == [Flatten(noted, m, "mdd_halt") EXCEPT !.acct.halted = TRUE]
             pause  == [Flatten(noted, m, "daily_stop") EXCEPT !.acct.paused = TRUE]
  <1>1. noted = [acct |-> a, trades |-> book.trades]
    BY DEF Book
  <1>2. /\ halt.trades = CloseAll(noted, m, "mdd_halt").trades
        /\ pause.trades = CloseAll(noted, m, "daily_stop").trades
    BY DEF Flatten, CloseAll
  <1>3. EnforceStops(book, m) \in {noted, halt, pause}
    BY DEF EnforceStops
  <1>4. noted.trades = book.trades
    BY <1>1
  <1> HIDE DEF noted, halt, pause
  <1> QED BY <1>2, <1>3, <1>4, AddsNone, CloseAllAdds

LEMMA ExitsAdd ==
  ASSUME NEW book \in Book, NEW s, NEW bar
  PROVE  Adds(book.trades, ManageExits(book, s, bar).trades)
  <1> DEFINE p == book.acct.positions[s]
  <1>1. ManageExits(book, s, bar) \in {book, Close(book, s, p.stop, "stop"),
                                       Close(book, s, p.takeProfit, "take_profit")}
    BY DEF ManageExits
  <1> HIDE DEF p
  <1> QED BY <1>1, AddsNone, CloseAdds

LEMMA FundingAddsNone ==
  ASSUME NEW book \in Book, NEW s, NEW bar, NEW rate
  PROVE  ApplyFunding(book, s, bar, rate).trades = book.trades
  BY DEF ApplyFunding, Book

LEMMA MinuteAdds ==
  ASSUME Inv, NEW bar \in Bars, NEW rate \in FundingRates, NEW seen \in Observed,
         OnMinute(bar, rate, seen)
  PROVE  Adds(trades, trades')
  <1> DEFINE s       == DrivenSymbol
             funded  == Funded(bar, rate)
             entered == Entered(bar, rate, seen)
             opened  == Opened(bar, rate, seen)
             exited  == Exited(bar, rate, seen)
             settled == Settled(bar, rate, seen)
  <1>1. /\ Before \in Book /\ funded \in Book /\ entered \in Book /\ opened \in Book
        /\ exited \in Book /\ Enters(funded, s, entered) /\ trades' = settled.trades
    BY MinuteEffect, MinuteChain
  <1>2. funded.trades = trades
    <2>1. funded.trades = Before.trades
      BY <1>1, FundingAddsNone DEF Funded
    <2> QED BY <2>1 DEF Before
  <1>3. entered.trades = funded.trades
    BY <1>1 DEF Enters
  <1>4. Adds(entered.trades, opened.trades)
    BY <1>1, EnforceAdds DEF Opened
  <1>5. Adds(opened.trades, exited.trades)
    BY <1>1, ExitsAdd DEF Exited
  <1>6. Adds(exited.trades, settled.trades)
    BY <1>1, EnforceAdds DEF Settled
  <1> HIDE DEF funded, entered, opened, exited, settled
  <1> QED BY <1>1, <1>2, <1>3, <1>4, <1>5, <1>6, AddsTwice

\* Minutes are of the data, and so is what closed in them; a run that is over
\* has nothing open.
RunInv ==
  /\ clock <= End /\ (turn # 0 => clock < End)
  /\ End = 0 => acct.positions = Flat
  /\ IsFiniteSet(trades) /\ \A t \in trades : t.exitTime \in 0..(End - 1)
  /\ done => acct.positions = Flat

LEMMA NextRun == Inv /\ LimitInv /\ RunInv /\ [Next]_vars => RunInv'
  <1> SUFFICES ASSUME Inv, LimitInv, RunInv, [Next]_vars PROVE RunInv'
    OBVIOUS
  <1>1. /\ clock \in Nat /\ turn \in 0..(N + 1) /\ acct \in Account /\ End \in Nat /\ N \in Nat
    BY Indices, AccountAssumption DEF Inv, Book, AccountAssumption
  <1>2. CASE BeginTimestamp
    <2>1. turn' = 1 /\ clock' = clock /\ trades' = trades /\ ~done /\ done' = done /\ clock < End
      BY <1>2 DEF BeginTimestamp
    <2>2. acct'.positions = acct.positions
      BY <1>1, <1>2 DEF BeginTimestamp, Account
    <2> QED BY <1>1, <2>1, <2>2 DEF RunInv
  <1>3. ASSUME NEW bar \in Bars, NEW rate \in FundingRates, NEW seen \in Observed,
               OnMinute(bar, rate, seen)
        PROVE  RunInv'
    <2>1. /\ turn \in 1..N /\ clock' = clock
          /\ acct' = Settled(bar, rate, seen).acct
          /\ done' = Settled(bar, rate, seen).acct.halted
      BY <1>3, MinuteEffect
    <2>2. clock < End /\ clock \in 0..(End - 1) /\ Now = clock
      BY <1>1, <2>1 DEF RunInv, Now
    <2>3. Adds(trades, trades')
      BY <1>3, MinuteAdds
    <2>4. IsFiniteSet(trades') /\ \A t \in trades' : t.exitTime \in 0..(End - 1)
      BY <2>2, <2>3 DEF Adds, RunInv
    <2>5. LimitInv'
      BY <1>3, MinuteLimits
    <2>6. done' => acct'.positions = Flat
      BY <2>1, <2>5 DEF LimitInv, Rests
    <2>7. End # 0
      BY <1>1, <2>2
    <2>8. clock' <= End /\ (turn' # 0 => clock' < End)
      BY <1>1, <2>1, <2>2
    <2> QED BY <2>4, <2>6, <2>7, <2>8 DEF RunInv
  <1>4. ASSUME NEW signals \in [Symbols -> Directions \union {None}], EndMinute(signals)
        PROVE  RunInv'
    <2>1. /\ turn = N + 1 /\ turn' = 0 /\ clock' = clock + 1 /\ trades' = trades
          /\ ~done /\ done' = done
      BY <1>4 DEF EndMinute
    <2>2. acct'.positions = acct.positions
      BY <1>1, <1>4 DEF EndMinute, Hour, Account
    <2>3. clock < End
      BY <1>1, <2>1 DEF RunInv
    <2> QED BY <1>1, <2>1, <2>2, <2>3 DEF RunInv
  <1>5. CASE Finish
    <2> DEFINE why   == "end_of_window"
               book  == [acct |-> acct, trades |-> trades]
               final == CloseAll(book, marks, why)
    <2>1. /\ acct' = final.acct /\ trades' = final.trades /\ clock = End
          /\ clock' = clock /\ turn = 0 /\ turn' = turn
      BY <1>5 DEF Finish
    <2>2. acct'.positions = Flat
      <3>1. final.acct = [acct EXCEPT !.positions = Flat,
                            !.balance = @ + Total(OfPositions(acct,
                               [s \in Symbols |-> Proceeds(acct.positions[s], marks[s])]))]
        BY DEF CloseAll
      <3> QED BY <1>1, <2>1, <3>1 DEF Account
    <2>3. Adds(book.trades, final.trades) /\ book.trades = trades
      <3> HIDE DEF book, why
      <3>1. Adds(book.trades, final.trades)
        BY CloseAllAdds
      <3> QED BY <3>1 DEF book
    <2>4. IsFiniteSet(trades')
      BY <2>1, <2>3 DEF Adds, RunInv
    <2>5. ASSUME NEW t \in trades' PROVE t.exitTime \in 0..(End - 1)
      <3>1. CASE End = 0
        <4>1. Holding(acct) = {}
          BY <3>1 DEF RunInv, Holding, Flat
        <4>2. trades' = trades
          BY <2>1, <4>1 DEF CloseAll
        <4> QED BY <4>2 DEF RunInv
      <3>2. CASE End # 0
        <4>1. Now \in 0..(End - 1)
          BY <1>1, <2>1, <3>2 DEF Now
        <4> QED BY <2>1, <2>3, <4>1 DEF Adds, RunInv
      <3> QED BY <3>1, <3>2
    <2> QED BY <1>1, <2>1, <2>2, <2>4, <2>5 DEF RunInv
  <1>6. CASE UNCHANGED vars
    BY <1>6 DEF vars, RunInv
  <1> QED BY <1>2, <1>3, <1>4, <1>5, <1>6 DEF Next
-----------------------------------------------------------------------------
LEMMA WindowsAgree == Inv /\ RunInv /\ BooksBalance => WindowsAgreeWithWhole
  <1> SUFFICES ASSUME Inv, RunInv, BooksBalance, done, NEW start \in Starts
               PROVE  /\ \A t \in trades :
                           Cardinality({w \in EvaluationWindows(start) :
                                          InHalfOpen(start + t.exitTime, w)}) = 1
                      /\ GainedInWindows(start) = acct.balance - StartingEquity
                      /\ AggregateGate(start) => WindowsGate(start) \/ End = 0
    BY DEF WindowsAgreeWithWhole
  <1>1. start \in Nat /\ End \in Nat /\ StartingEquity \in Int
    BY AccountAssumption, EvaluationAssumption DEF AccountAssumption, EvaluationAssumption
  <1>2. Timed
    BY DEF Timed, RunInv, Inv, Book
  <1> DEFINE windows == EvaluationWindows(start)
             end == start + End
  <1>3. PICK m, b : Cuts(windows, start, end, m, b)
    BY <1>1, EvaluationCuts
  <1>4. ASSUME NEW t \in trades
        PROVE  Cardinality({w \in windows : InHalfOpen(start + t.exitTime, w)}) = 1
    <2> DEFINE d == start + t.exitTime
    <2>1. d \in start..(end - 1) /\ end \in Int /\ start \in Int
      BY <1>1, <1>2 DEF Timed
    <2> HIDE DEF d, end, windows
    <2>2. Cardinality({w \in windows : InHalfOpen(d, w)}) = 1
      BY <1>3, <2>1, OneWindow
    <2> QED BY <2>2 DEF d
  <1>5. GainedInWindows(start) = acct.balance - StartingEquity
    <2>1. GainedInWindows(start) = Net(trades) /\ Net(trades) \in Int
      BY <1>1, <1>2, WindowsGain, NetIsInteger DEF Timed, Closed
    <2> DEFINE carried == OfPositions(acct, [s \in Symbols |-> acct.positions[s].funding
                                                                 - acct.positions[s].fee])
    <2>2. carried \in [Symbols -> Int] /\ \A s \in Symbols : carried[s] = 0
      BY DEF RunInv, Flat, OfPositions
    <2>3. acct.balance = StartingEquity + Net(trades) + Total(carried)
      BY DEF BooksBalance
    <2> HIDE DEF carried
    <2>4. Total(carried) = 0
      BY <2>2, TotalOfNothing
    <2> QED BY <1>1, <2>1, <2>3, <2>4
  <1>6. ASSUME AggregateGate(start), End # 0 PROVE WindowsGate(start)
    <2>1. /\ m \in Nat /\ b[0] = start /\ b[m] = end /\ \A i \in 0..m : b[i] \in Int
          /\ \A i \in 0..(m - 1) : b[i] < b[i + 1]
          /\ windows = {<<b[i], b[i + 1]>> : i \in 0..(m - 1)}
      BY <1>3 DEF Cuts
    <2>2. windows # {}
      <3>1. m # 0
        BY <1>1, <1>6, <2>1
      <3>2. 0 \in 0..(m - 1)
        BY <2>1, <3>1
      <3> QED BY <2>1, <3>2
    <2>3. ASSUME NEW w \in windows
          PROVE  WindowPoints(Curve(start), w) \subseteq Curve(start)
      <3>1. PICK i \in 0..(m - 1) : w = <<b[i], b[i + 1]>>
        BY <2>1
      <3>2. /\ i \in 0..m /\ i + 1 \in 0..m /\ 0 \in 0..m /\ (i = 0 \/ 0 < i)
        BY <2>1
      <3>3. 0 < i => b[0] < b[i]
        BY <1>3, <3>2, CutsInOrder
      <3>4. b[i] \in Int /\ b[i + 1] \in Int /\ b[i] < b[i + 1] /\ start <= b[i]
        BY <1>1, <2>1, <3>2, <3>3
      <3> QED BY <1>1, <1>2, <3>1, <3>4, CurveIsOrdered, WindowEnds
    <2>4. \A w \in windows : DrawdownBelow(WindowPoints(Curve(start), w), MaxDrawdown)
      BY <1>6, <2>3 DEF AggregateGate, DrawdownBelow
    <2> QED BY <2>2, <2>4 DEF WindowsGate
  <1> QED BY <1>4, <1>5, <1>6

(* Wherever in the calendar an evaluation starts and whatever its window's    *)
(* months: each of its trades counts in exactly one window, the windows'      *)
(* gains add up to the account's, and a drawdown that fails a window fails    *)
(* the whole (walk_forward_windows, window_equities, evaluate_gates).         *)
THEOREM WindowsAgreeWithTheWhole == Spec => []WindowsAgreeWithWhole
  <1>1. Init => RunInv
    BY FS_EmptySet, AccountAssumption DEF Init, RunInv, NewAccount, AccountAssumption
  <1>2. Init => LimitInv
    BY DEF Init, LimitInv, Rests, WithinLimits, NewAccount
  <1>3. Inv /\ LimitInv /\ [Next]_vars => LimitInv'
    BY NextLimits
  <1>4. Inv /\ LimitInv /\ RunInv /\ [Next]_vars => RunInv'
    BY NextRun
  <1>5. Inv /\ RunInv /\ BooksBalance => WindowsAgreeWithWhole
    BY WindowsAgree
  <1> QED BY <1>1, <1>2, <1>3, <1>4, <1>5, AccountInvariant, BooksAlwaysBalance, PTL DEF Spec
=============================================================================
