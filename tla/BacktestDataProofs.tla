------------------------- MODULE BacktestDataProofs -------------------------
(***************************************************************************)
(* Proofs about BacktestData, for any symbols, lengths of an hour and a day,*)
(* funding interval and warm-up, and for any snapshot of any length: what   *)
(* the list-based checks accept is one run of consecutive minutes, a derived*)
(* bar is a whole one, and the engine is shown completed bars only, enough  *)
(* of them, with the rows it looks up.                                      *)
(***************************************************************************)
EXTENDS BacktestData, FiniteSetTheorems, WellFoundedInduction, TLAPS

-----------------------------------------------------------------------------
(* Numbers *)

LEMMA LeastExists ==
  ASSUME NEW S, S \subseteq Nat, S # {}
  PROVE  \E x \in S : \A y \in S : x <= y
  <1>1. PICK m \in S : \A x \in S : ~(<<x, m>> \in OpToRel(<, Nat))
    BY NatLessThanWellFounded, WFMin
  <1>2. OpToRel(<, Nat) = {ss \in Nat \X Nat : ss[1] < ss[2]}
    BY DEF OpToRel
  <1>3. \A x \in S : ~(x < m)
    BY <1>1, <1>2
  <1> QED BY <1>3

\* Induction along the indices of a sequence.
LEMMA Climb ==
  ASSUME NEW n \in Nat, NEW S, 1 \in S, \A i \in 1..(n - 1) : i \in S => i + 1 \in S
  PROVE  \A i \in 1..n : i \in S
  <1> DEFINE missed == {i \in 1..n : i \notin S}
  <1>1. SUFFICES ASSUME missed # {} PROVE FALSE
    OBVIOUS
  <1>2. missed \subseteq Nat
    OBVIOUS
  <1>3. PICK m \in missed : \A i \in missed : m <= i
    <2> HIDE DEF missed
    <2> QED BY <1>1, <1>2, LeastExists
  <1>4. m \in 1..n /\ m \notin S /\ m # 1
    OBVIOUS
  <1>5. m - 1 \in 1..(n - 1) /\ m - 1 \in 1..n /\ ~(m <= m - 1)
    BY <1>4
  <1>6. m - 1 \in S
    BY <1>3, <1>5
  <1>7. (m - 1) + 1 \in S
    BY <1>5, <1>6
  <1> QED BY <1>4, <1>7

\* The members of Least and Greatest, once there is one.
LEMMA LeastIs ==
  ASSUME NEW S, S \subseteq Nat, NEW m \in S, \A x \in S : m <= x
  PROVE  Least(S) = m
  <1>1. \A x \in S : (\A y \in S : x <= y) => x = m
    <2> SUFFICES ASSUME NEW x \in S, \A y \in S : x <= y PROVE x = m
      OBVIOUS
    <2>1. x <= m /\ m <= x /\ x \in Nat /\ m \in Nat
      OBVIOUS
    <2> QED BY <2>1
  <1> QED BY <1>1 DEF Least

LEMMA GreatestIs ==
  ASSUME NEW S, S \subseteq Nat, NEW m \in S, \A x \in S : x <= m
  PROVE  Greatest(S) = m
  <1>1. \A x \in S : (\A y \in S : y <= x) => x = m
    <2> SUFFICES ASSUME NEW x \in S, \A y \in S : y <= x PROVE x = m
      OBVIOUS
    <2>1. x <= m /\ m <= x /\ x \in Nat /\ m \in Nat
      OBVIOUS
    <2> QED BY <2>1
  <1> QED BY <1>1 DEF Greatest

\* A finite set of numbers has a greatest one.
LEMMA GreatestExists ==
  ASSUME NEW S, S \subseteq Nat, S # {}, IsFiniteSet(S)
  PROVE  Greatest(S) \in S /\ \A x \in S : x <= Greatest(S)
  <1> DEFINE Topless(T) == T # {} /\ ~\E m \in T : \A x \in T : x <= m
             bad == {k \in Nat : \E T \in SUBSET S : Cardinality(T) = k /\ Topless(T)}
  <1>1. ASSUME bad # {} PROVE FALSE
    <2>1. bad \subseteq Nat
      OBVIOUS
    <2>2. PICK k \in bad : \A i \in bad : k <= i
      <3> HIDE DEF bad
      <3> QED BY <1>1, <2>1, LeastExists
    <2>3. PICK T \in SUBSET S : Cardinality(T) = k /\ Topless(T)
      BY <2>2
    <2>4. PICK a \in T : TRUE
      BY <2>3
    <2>5. IsFiniteSet(T)
      BY FS_Subset
    <2> DEFINE U == T \ {a}
    <2>6. IsFiniteSet(U) /\ Cardinality(U) = k - 1
      BY <2>3, <2>4, <2>5, FS_RemoveElement
    <2>7. k - 1 \in Nat
      BY <2>6, FS_CardinalityType
    <2>8. k - 1 \notin bad
      <3> HIDE DEF bad
      <3> QED BY <2>2, <2>1, <2>7
    <2>9. ~Topless(U)
      BY <2>6, <2>7, <2>8
    <2>10. a \in Nat /\ T \subseteq Nat
      OBVIOUS
    <2>11. CASE U = {}
      <3>1. \A x \in T : x <= a
        BY <2>10, <2>11
      <3> QED BY <2>3, <2>4, <3>1
    <2>12. CASE U # {}
      <3>1. PICK m \in U : \A x \in U : x <= m
        BY <2>9, <2>12
      <3>2. m \in Nat /\ m \in T
        BY <2>10
      <3>3. CASE a <= m
        <4>1. \A x \in T : x <= m
          BY <3>1, <3>3
        <4> QED BY <2>3, <3>2, <4>1
      <3>4. CASE ~(a <= m)
        <4>1. \A x \in T : x <= a
          <5> SUFFICES ASSUME NEW x \in T PROVE x <= a
            OBVIOUS
          <5>1. x \in Nat /\ (x = a \/ x <= m)
            BY <3>1, <2>10
          <5> QED BY <5>1, <3>2, <3>4, <2>10
        <4> QED BY <2>3, <2>4, <4>1
      <3> QED BY <3>3, <3>4
    <2> QED BY <2>11, <2>12
  <1>2. Cardinality(S) \in Nat
    BY FS_CardinalityType
  <1>3. \E m \in S : \A x \in S : x <= m
    BY <1>1, <1>2
  <1> QED BY <1>3 DEF Greatest

\* A remainder lies below its divisor, and is its own quotient's rest.
LEMMA Division ==
  ASSUME NEW t \in Nat, NEW size \in Nat \ {0}
  PROVE  \E q \in Nat, r \in 0..(size - 1) : t = q * size + r /\ t % size = r
  <1>1. t \div size \in Int /\ t \div size >= 0
    OBVIOUS
  <1>2. t % size = t - size * (t \div size)
    OBVIOUS
  <1>3. t % size \in 0..(size - 1)
    OBVIOUS
  <1>4. PICK q \in Nat : q = t \div size
    BY <1>1
  <1>5. PICK r \in 0..(size - 1) : r = t % size
    BY <1>3
  <1>6. r = t - size * q
    BY <1>2, <1>4, <1>5
  <1>7. t = q * size + r
    BY <1>6
  <1> QED BY <1>5, <1>7

LEMMA Products ==
  ASSUME NEW p \in Int, NEW q \in Int, NEW size \in Nat \ {0}
  PROVE  /\ p * size \in Int
         /\ (p + 1) * size = p * size + size /\ (p - 1) * size = p * size - size
         /\ (p + q) * size = p * size + q * size
         /\ p <= q => p * size <= q * size
         /\ p * size < q * size + size => p <= q
         /\ p >= 0 => p * size >= 0
  <1>1. p * size \in Int /\ q * size \in Int
    OBVIOUS
  <1>2. (p + 1) * size = p * size + size /\ (p - 1) * size = p * size - size
    OBVIOUS
  <1>3. (p + q) * size = p * size + q * size
    OBVIOUS
  <1>4. p <= q => p * size <= q * size
    OBVIOUS
  <1>5. p * size < q * size + size => p <= q
    <2> SUFFICES ASSUME q + 1 <= p PROVE q * size + size <= p * size
      BY <1>1
    <2>1. (q + 1) * size = q * size + size
      OBVIOUS
    <2>2. (q + 1) * size <= p * size
      OBVIOUS
    <2> QED BY <2>1, <2>2
  <1>6. p >= 0 => p * size >= 0
    OBVIOUS
  <1> QED BY <1>1, <1>2, <1>3, <1>4, <1>5, <1>6

\* A multiple of size is one by its remainder, and the other way round.
LEMMA MultipleIs ==
  ASSUME NEW q \in Nat, NEW size \in Nat \ {0}
  PROVE  q * size \in Nat /\ (q * size) % size = 0
  <1>1. q * size \in Nat
    BY Products
  <1>2. PICK m \in Nat : m = q * size
    BY <1>1
  <1>3. PICK p \in Nat, r \in 0..(size - 1) : m = p * size + r /\ m % size = r
    BY Division
  <1>4. q * size = p * size + r /\ p * size \in Int
    BY <1>2, <1>3, Products
  <1>5. p <= q
    <2>1. p * size < q * size + size
      BY <1>1, <1>4
    <2> QED BY <2>1, Products
  <1>6. q <= p
    <2>1. q * size < p * size + size
      BY <1>1, <1>4
    <2> QED BY <2>1, Products
  <1>7. r = 0
    BY <1>4, <1>5, <1>6
  <1> QED BY <1>2, <1>3, <1>7

\* Floor is the multiple of size at or just below t, and there is only one.
LEMMA FloorIs ==
  ASSUME NEW t \in Nat, NEW size \in Nat \ {0}
  PROVE  /\ Floor(t, size) \in Nat /\ Floor(t, size) % size = 0
         /\ Floor(t, size) <= t /\ t < Floor(t, size) + size
         /\ \E q \in Nat : Floor(t, size) = q * size
  <1>1. PICK q \in Nat, r \in 0..(size - 1) : t = q * size + r /\ t % size = r
    BY Division
  <1>2. q * size \in Nat /\ (q * size) % size = 0
    BY MultipleIs
  <1>3. PICK m \in Nat : m = q * size
    BY <1>2
  <1>4. t = m + r
    BY <1>1, <1>3
  <1>5. Floor(t, size) = m
    <2>1. Floor(t, size) = t - r
      BY <1>1 DEF Floor
    <2> QED BY <1>4, <2>1
  <1>6. m % size = 0
    BY <1>2, <1>3
  <1> QED BY <1>3, <1>4, <1>5, <1>6

LEMMA MultipleOf ==
  ASSUME NEW b \in Nat, NEW size \in Nat \ {0}, b % size = 0
  PROVE  \E q \in Nat : b = q * size
  <1>1. PICK q \in Nat, r \in 0..(size - 1) : b = q * size + r /\ b % size = r
    BY Division
  <1>2. q * size \in Nat
    BY MultipleIs
  <1> QED BY <1>1, <1>2

\* The multiples next to a multiple of size.
LEMMA NextMultiple ==
  ASSUME NEW b \in Nat, NEW size \in Nat \ {0}, b % size = 0
  PROVE  /\ b + size \in Nat /\ (b + size) % size = 0
         /\ b >= size => b - size \in Nat /\ (b - size) % size = 0
  <1>1. PICK q \in Nat : b = q * size
    BY MultipleOf
  <1>2. (q + 1) * size = b + size /\ (q - 1) * size = b - size
    BY <1>1, Products
  <1>3. (b + size) % size = 0
    <2>1. PICK p \in Nat : p = q + 1
      OBVIOUS
    <2>2. (p * size) % size = 0
      BY MultipleIs
    <2> QED BY <1>2, <2>1, <2>2
  <1>4. ASSUME b >= size PROVE (b - size) % size = 0
    <2>1. q # 0
      <3>1. 0 * size = 0
        OBVIOUS
      <3> QED BY <1>1, <1>4, <3>1
    <2>2. PICK p \in Nat : p = q - 1
      BY <2>1
    <2>3. (p * size) % size = 0
      BY MultipleIs
    <2> QED BY <1>2, <2>2, <2>3
  <1> QED BY <1>3, <1>4

\* Two multiples of size that are not size apart are the same.
LEMMA MultiplesApart ==
  ASSUME NEW b \in Nat, NEW c \in Nat, NEW size \in Nat \ {0}, b % size = 0, c % size = 0
  PROVE  /\ b < c + size => b <= c
         /\ b < c => b + size <= c
  <1>1. PICK p \in Nat : b = p * size
    BY MultipleOf
  <1>2. PICK q \in Nat : c = q * size
    BY MultipleOf
  <1>3. b < c + size => b <= c
    <2> SUFFICES ASSUME p * size < q * size + size PROVE p * size <= q * size
      BY <1>1, <1>2
    <2>1. p <= q
      BY Products
    <2> QED BY <2>1, Products
  <1>4. b < c => b + size <= c
    <2> SUFFICES ASSUME ~(p * size + size <= q * size), p * size < q * size PROVE FALSE
      BY <1>1, <1>2
    <2>1. q * size < p * size + size
      BY Products
    <2>2. q <= p
      BY <2>1, Products
    <2>3. q * size <= p * size
      BY <2>2, Products
    <2>4. q * size \in Int /\ p * size \in Int
      BY Products
    <2> QED BY <2>3, <2>4
  <1> QED BY <1>3, <1>4

LEMMA FloorOnly ==
  ASSUME NEW t \in Nat, NEW b \in Nat, NEW size \in Nat \ {0}, b % size = 0
  PROVE  /\ Floor(t, size) = b <=> b <= t /\ t < b + size
         /\ b <= t <=> b <= Floor(t, size)
  <1>1. /\ Floor(t, size) \in Nat /\ Floor(t, size) % size = 0
        /\ Floor(t, size) <= t /\ t < Floor(t, size) + size
    BY FloorIs
  <1> DEFINE f == Floor(t, size)
  <1>2. /\ f < b + size => f <= b
        /\ f < b => f + size <= b
        /\ b < f + size => b <= f
        /\ b < f => b + size <= f
    <2> HIDE DEF f
    <2> QED BY <1>1, MultiplesApart DEF f
  <1> QED BY <1>1, <1>2

-----------------------------------------------------------------------------
(* Series of bars *)

Bars == Seq([time : Nat, valid : BOOLEAN])

\* One run of consecutive minutes in order, each with valid values.
Contiguous(bars) ==
  /\ bars # <<>>
  /\ \A i \in DOMAIN bars : bars[i].valid /\ bars[i].time = bars[1].time + i - 1

LEMMA BarsAre ==
  ASSUME NEW bars \in Bars
  PROVE  /\ Len(bars) \in Nat /\ DOMAIN bars = 1..Len(bars)
         /\ \A i \in 1..Len(bars) : bars[i].time \in Nat /\ bars[i].valid \in BOOLEAN
         /\ TimesOf(bars) \subseteq Nat
         /\ bars # <<>> => Len(bars) >= 1 /\ 1 \in DOMAIN bars
         /\ \A i \in 1..Len(bars) : bars[i].time \in TimesOf(bars)
  <1>1. Len(bars) \in Nat /\ DOMAIN bars = 1..Len(bars)
    BY DEF Bars
  <1>2. \A i \in 1..Len(bars) : bars[i] \in [time : Nat, valid : BOOLEAN]
    <2> DEFINE Bar == [time : Nat, valid : BOOLEAN]
    <2> HIDE DEF Bar
    <2>1. bars \in Seq(Bar)
      BY DEF Bars, Bar
    <2>2. \A i \in 1..Len(bars) : bars[i] \in Bar
      BY <2>1
    <2> QED BY <2>2 DEF Bar
  <1>3. bars # <<>> => Len(bars) >= 1
    BY <1>1 DEF Bars
  <1> QED BY <1>1, <1>2, <1>3 DEF TimesOf

\* What kline_reasons reports, reason by reason.
LEMMA ReasonsAre ==
  ASSUME NEW bars \in Bars
  PROVE  KlineReasons(bars) = {} <=>
           /\ bars # <<>>
           /\ \A i \in DOMAIN bars : bars[i].valid
           /\ \A i \in 1..(Len(bars) - 1) : ~(bars[i + 1].time < bars[i].time)
           /\ ~(Cardinality(TimesOf(bars)) < Len(bars))
           /\ \A t \in TimesOf(bars) : t = Last(bars) \/ t + 1 \in TimesOf(bars)
  <1> DEFINE invalid == \E i \in DOMAIN bars : ~bars[i].valid
             reversed == \E i \in 1..(Len(bars) - 1) : bars[i + 1].time < bars[i].time
             duplicate == Cardinality(TimesOf(bars)) < Len(bars)
             missing == \E t \in TimesOf(bars) : t # Last(bars) /\ t + 1 \notin TimesOf(bars)
             whys == {"invalid OHLC", "reversed", "duplicate", "missing bar"}
             Reason(why) == CASE why = "invalid OHLC" -> invalid
                              [] why = "reversed"     -> reversed
                              [] why = "duplicate"    -> duplicate
                              [] why = "missing bar"  -> missing
  <1>1. CASE bars = <<>>
    BY <1>1 DEF KlineReasons
  <1>2. CASE bars # <<>>
    <2>1. KlineReasons(bars) = {why \in whys : Reason(why)}
      BY <1>2 DEF KlineReasons
    <2>2. KlineReasons(bars) = {} <=> ~invalid /\ ~reversed /\ ~duplicate /\ ~missing
      <3> HIDE DEF invalid, reversed, duplicate, missing
      <3> QED BY <2>1
    <2> QED BY <2>2, <1>2
  <1> QED BY <1>1, <1>2

\* The minutes of a contiguous series are an interval.
LEMMA TimesOfRun ==
  ASSUME NEW bars \in Bars, Contiguous(bars)
  PROVE  /\ First(bars) = bars[1].time /\ First(bars) \in Nat
         /\ Last(bars) = First(bars) + Len(bars) - 1 /\ Last(bars) \in Nat
         /\ First(bars) <= Last(bars)
         /\ TimesOf(bars) = First(bars)..Last(bars)
  <1>1. /\ Len(bars) \in Nat /\ DOMAIN bars = 1..Len(bars) /\ Len(bars) >= 1
        /\ TimesOf(bars) \subseteq Nat /\ bars[1].time \in Nat
        /\ \A i \in 1..Len(bars) : bars[i].time \in TimesOf(bars)
        /\ \A i \in 1..Len(bars) : bars[i].time = bars[1].time + i - 1
    BY BarsAre DEF Contiguous
  <1>2. PICK a \in Nat, n \in Nat : a = bars[1].time /\ n = Len(bars) /\ n >= 1
    BY <1>1
  <1>3. ASSUME NEW t \in a..(a + n - 1) PROVE t \in TimesOf(bars)
    <2>1. t - a + 1 \in 1..n /\ t = a + (t - a + 1) - 1
      BY <1>2, <1>3
    <2> QED BY <1>1, <1>2, <2>1
  <1>4. TimesOf(bars) = a..(a + n - 1)
    <2>1. ASSUME NEW t \in TimesOf(bars) PROVE t \in a..(a + n - 1)
      <3>1. PICK i \in 1..n : t = bars[i].time
        BY <1>1, <1>2 DEF TimesOf
      <3> QED BY <1>1, <1>2, <3>1
    <2> QED BY <1>3, <2>1
  <1>5. First(bars) = a
    <2>1. a \in TimesOf(bars) /\ \A x \in TimesOf(bars) : a <= x
      BY <1>2, <1>4
    <2> QED BY <1>1, <2>1, LeastIs DEF First
  <1>6. Last(bars) = a + n - 1
    <2>1. a + n - 1 \in TimesOf(bars) /\ \A x \in TimesOf(bars) : x <= a + n - 1
      BY <1>2, <1>4
    <2> QED BY <1>1, <2>1, GreatestIs DEF Last
  <1> QED BY <1>2, <1>4, <1>5, <1>6

\* As many minutes as bars: no minute has two.
LEMMA NoneTwice ==
  ASSUME NEW bars \in Bars
  PROVE  /\ IsFiniteSet(TimesOf(bars)) /\ Cardinality(TimesOf(bars)) <= Len(bars)
         /\ ~(Cardinality(TimesOf(bars)) < Len(bars)) <=>
              \A i, j \in DOMAIN bars : bars[i].time = bars[j].time => i = j
  <1> DEFINE f == [i \in 1..Len(bars) |-> bars[i].time]
  <1>1. Len(bars) \in Nat /\ DOMAIN bars = 1..Len(bars)
    BY BarsAre
  <1>2. f \in Surjection(1..Len(bars), TimesOf(bars))
    <2>1. f \in [1..Len(bars) -> TimesOf(bars)]
      BY BarsAre
    <2>2. \A t \in TimesOf(bars) : \E i \in 1..Len(bars) : f[i] = t
      BY <1>1 DEF TimesOf
    <2> HIDE DEF f
    <2> QED BY <2>1, <2>2 DEF Surjection
  <1>3. IsFiniteSet(1..Len(bars)) /\ Cardinality(1..Len(bars)) = Len(bars)
    <2>1. PICK n \in Nat : n = Len(bars)
      BY <1>1
    <2>2. IsFiniteSet(1..n) /\ Cardinality(1..n) = IF 1 > n THEN 0 ELSE n - 1 + 1
      BY FS_Interval
    <2> QED BY <2>1, <2>2
  <1>4. /\ IsFiniteSet(TimesOf(bars)) /\ Cardinality(TimesOf(bars)) <= Len(bars)
        /\ Cardinality(TimesOf(bars)) = Len(bars) <=> f \in Injection(1..Len(bars), TimesOf(bars))
    <2> DEFINE S == 1..Len(bars)
               T == TimesOf(bars)
    <2> HIDE DEF f, S, T
    <2>1. f \in Surjection(S, T) /\ IsFiniteSet(S) /\ Cardinality(S) = Len(bars)
      BY <1>2, <1>3 DEF S, T
    <2>2. /\ IsFiniteSet(T) /\ Cardinality(T) <= Cardinality(S)
          /\ Cardinality(T) = Cardinality(S) <=> f \in Injection(S, T)
      BY <2>1, FS_Surjection
    <2> QED BY <2>1, <2>2 DEF S, T
  <1>5. Cardinality(TimesOf(bars)) \in Nat
    BY <1>4, FS_CardinalityType
  <1>6. f \in Injection(1..Len(bars), TimesOf(bars)) <=>
          \A i, j \in DOMAIN bars : bars[i].time = bars[j].time => i = j
    <2>1. f \in [1..Len(bars) -> TimesOf(bars)]
      BY BarsAre
    <2>2. f \in Injection(1..Len(bars), TimesOf(bars)) <=>
            \A i, j \in 1..Len(bars) : f[i] = f[j] => i = j
      <3> HIDE DEF f
      <3> QED BY <2>1 DEF Injection, IsInjective
    <2> QED BY <1>1, <2>2
  <1> QED BY <1>1, <1>4, <1>5, <1>6

\* Time that never runs back never falls below an earlier bar's.
LEMMA InOrder ==
  ASSUME NEW bars \in Bars,
         \A i \in 1..(Len(bars) - 1) : ~(bars[i + 1].time < bars[i].time)
  PROVE  \A i, j \in DOMAIN bars : i <= j => bars[i].time <= bars[j].time
  <1>1. PICK n \in Nat : n = Len(bars) /\ DOMAIN bars = 1..n
    BY BarsAre
  <1>2. \A i \in 1..n : bars[i].time \in Nat
    BY <1>1, BarsAre
  <1>3. SUFFICES ASSUME NEW i \in 1..n
                 PROVE  \A j \in 1..n : i <= j => bars[i].time <= bars[j].time
    BY <1>1
  <1> DEFINE S == {j \in 1..n : i <= j => bars[i].time <= bars[j].time}
  <1>4. 1 \in S
    <2>1. 1 \in 1..n /\ (i <= 1 => i = 1)
      OBVIOUS
    <2> QED BY <1>2, <2>1
  <1>5. ASSUME NEW j \in 1..(n - 1), j \in S PROVE j + 1 \in S
    <2>1. j + 1 \in 1..n /\ j \in 1..n /\ (i <= j + 1 => i <= j \/ i = j + 1)
      OBVIOUS
    <2>2. ~(bars[j + 1].time < bars[j].time)
      BY <1>1
    <2>3. CASE i <= j
      <3>1. bars[i].time <= bars[j].time
        BY <1>5, <2>3
      <3>2. bars[i].time <= bars[j + 1].time
        BY <1>2, <2>1, <2>2, <3>1
      <3> QED BY <2>1, <3>2
    <2>4. CASE i = j + 1
      BY <1>2, <2>1, <2>4
    <2>5. CASE ~(i <= j + 1)
      BY <2>1, <2>5
    <2> QED BY <2>1, <2>3, <2>4, <2>5
  <1>6. \A j \in 1..n : j \in S
    <2> HIDE DEF S
    <2> QED BY <1>4, <1>5, Climb
  <1> QED BY <1>6

\* With no minute twice, none before its predecessor and none missing, each bar
\* is the minute after the one before it.
LEMMA OneMinuteOn ==
  ASSUME NEW bars \in Bars, KlineReasons(bars) = {}, NEW i \in 1..(Len(bars) - 1)
  PROVE  bars[i + 1].time = bars[i].time + 1
  <1>1. PICK n \in Nat : n = Len(bars) /\ DOMAIN bars = 1..n /\ i \in 1..n /\ i + 1 \in 1..n
    BY BarsAre
  <1>2. /\ \A k \in 1..n : bars[k].time \in Nat /\ bars[k].time \in TimesOf(bars)
        /\ TimesOf(bars) \subseteq Nat
    BY <1>1, BarsAre
  <1>3. \A k, m \in 1..n : k <= m => bars[k].time <= bars[m].time
    BY <1>1, InOrder, ReasonsAre
  <1>4. \A k, m \in 1..n : bars[k].time = bars[m].time => k = m
    BY <1>1, NoneTwice, ReasonsAre
  <1>5. bars[i].time < bars[i + 1].time
    <2>1. bars[i].time <= bars[i + 1].time
      BY <1>1, <1>3
    <2>2. bars[i].time # bars[i + 1].time
      BY <1>1, <1>4
    <2> QED BY <1>1, <1>2, <2>1, <2>2
  <1>6. bars[i].time # Last(bars)
    <2>1. \A x \in TimesOf(bars) : x <= Last(bars)
      <3>1. IsFiniteSet(TimesOf(bars)) /\ TimesOf(bars) # {}
        BY <1>1, <1>2, NoneTwice
      <3> QED BY <1>2, <3>1, GreatestExists DEF Last
    <2>2. bars[i + 1].time <= Last(bars) /\ Last(bars) \in Nat
      <3>1. IsFiniteSet(TimesOf(bars)) /\ TimesOf(bars) # {}
        BY <1>1, <1>2, NoneTwice
      <3> QED BY <1>1, <1>2, <2>1, <3>1, GreatestExists DEF Last
    <2> QED BY <1>1, <1>2, <1>5, <2>2
  <1>7. bars[i].time + 1 \in TimesOf(bars)
    BY <1>1, <1>2, <1>6, ReasonsAre
  <1>8. PICK k \in 1..n : bars[k].time = bars[i].time + 1
    BY <1>1, <1>7 DEF TimesOf
  <1>9. ~(k <= i)
    <2> SUFFICES ASSUME k <= i PROVE FALSE
      OBVIOUS
    <2>1. bars[k].time <= bars[i].time
      BY <1>1, <1>3
    <2> QED BY <1>1, <1>2, <1>8, <2>1
  <1>10. bars[i + 1].time <= bars[k].time
    BY <1>1, <1>3, <1>9
  <1> QED BY <1>1, <1>2, <1>5, <1>8, <1>10

\* kline_reasons accepts exactly the contiguous series.
LEMMA AcceptedIffContiguous ==
  ASSUME NEW bars \in Bars
  PROVE  KlineReasons(bars) = {} <=> Contiguous(bars)
  <1>1. PICK n \in Nat : n = Len(bars) /\ DOMAIN bars = 1..n
    BY BarsAre
  <1>2. \A i \in 1..n : bars[i].time \in Nat
    BY <1>1, BarsAre
  <1>3. ASSUME KlineReasons(bars) = {} PROVE Contiguous(bars)
    <2>1. bars # <<>> /\ \A i \in 1..n : bars[i].valid
      BY <1>1, <1>3, ReasonsAre
    <2>2. n >= 1 /\ 1 \in 1..n
      BY <1>1, <2>1, BarsAre
    <2> DEFINE S == {i \in 1..n : bars[i].time = bars[1].time + i - 1}
    <2>3. 1 \in S
      BY <1>2, <2>2
    <2>4. ASSUME NEW i \in 1..(n - 1), i \in S PROVE i + 1 \in S
      <3>1. bars[i + 1].time = bars[i].time + 1
        BY <1>1, <1>3, OneMinuteOn
      <3>2. bars[i].time = bars[1].time + i - 1 /\ bars[1].time \in Nat /\ i + 1 \in 1..n
        BY <2>4, <1>2, <2>2
      <3> QED BY <3>1, <3>2
    <2>5. \A i \in 1..n : i \in S
      <3> HIDE DEF S
      <3> QED BY <2>3, <2>4, Climb
    <2> QED BY <1>1, <2>1, <2>5 DEF Contiguous
  <1>4. ASSUME Contiguous(bars) PROVE KlineReasons(bars) = {}
    <2>1. /\ bars # <<>> /\ 1 \in 1..n
          /\ \A i \in 1..n : bars[i].valid /\ bars[i].time = bars[1].time + i - 1
      BY <1>1, <1>4, BarsAre DEF Contiguous
    <2>2. \A i \in 1..(n - 1) : ~(bars[i + 1].time < bars[i].time)
      <3> SUFFICES ASSUME NEW i \in 1..(n - 1) PROVE ~(bars[i + 1].time < bars[i].time)
        OBVIOUS
      <3>1. i \in 1..n /\ i + 1 \in 1..n /\ bars[1].time \in Nat
        BY <1>2, <2>1
      <3>2. bars[i].time = bars[1].time + i - 1 /\ bars[i + 1].time = bars[1].time + (i + 1) - 1
        BY <2>1, <3>1
      <3> QED BY <3>1, <3>2
    <2>3. \A i, j \in 1..n : bars[i].time = bars[j].time => i = j
      <3> SUFFICES ASSUME NEW i \in 1..n, NEW j \in 1..n, bars[i].time = bars[j].time
                   PROVE  i = j
        OBVIOUS
      <3>1. bars[1].time + i - 1 = bars[1].time + j - 1 /\ bars[1].time \in Nat
        BY <1>2, <2>1
      <3> QED BY <3>1
    <2>4. ~(Cardinality(TimesOf(bars)) < Len(bars))
      BY <1>1, <2>3, NoneTwice
    <2>5. \A t \in TimesOf(bars) : t = Last(bars) \/ t + 1 \in TimesOf(bars)
      <3>1. PICK a \in Nat, z \in Nat : a = First(bars) /\ z = Last(bars)
        BY <1>4, TimesOfRun
      <3>2. TimesOf(bars) = a..z
        BY <1>4, <3>1, TimesOfRun
      <3> QED BY <3>1, <3>2
    <2> QED BY <1>1, <2>1, <2>2, <2>4, <2>5, ReasonsAre
  <1> QED BY <1>3, <1>4

-----------------------------------------------------------------------------
(* The snapshot under backtest *)

IInv == snapshot \in Snapshots \union {None}

\* Only a snapshot of the given shape is ever under backtest.
THEOREM SnapshotIsGiven == Spec => []IInv
  <1>1. Init => IInv
    BY DEF Init, IInv
  <1>2. IInv /\ [Next]_snapshot => IInv'
    BY DEF IInv, Next, Load
  <1> QED BY <1>1, <1>2, PTL DEF Spec

LEMMA ShapeOfSnapshot ==
  ASSUME IInv, Given, NEW s \in Symbols
  PROVE  /\ snapshot.klines[s] \in Bars /\ snapshot.funding[s] \in Seq(Nat)
         /\ HOUR \in Nat \ {0} /\ DAY \in Nat \ {0}
  BY DataAssumption DEF IInv, Given, Symbols, Bars

\* The validation of klines accepts exactly the series that are one run of
\* consecutive minutes with valid values, whatever their length (kline_reasons).
THEOREM AcceptedSeriesAreRuns == Spec => []KlinesAcceptedIffContiguous
  <1>1. IInv => KlinesAcceptedIffContiguous
    <2> SUFFICES ASSUME IInv, Given, NEW s \in Symbols
                 PROVE  (KlineReasons(snapshot.klines[s]) = {}) <=> Contiguous(snapshot.klines[s])
      BY DEF KlinesAcceptedIffContiguous, Contiguous
    <2> QED BY ShapeOfSnapshot, AcceptedIffContiguous
  <1> QED BY <1>1, SnapshotIsGiven, PTL
-----------------------------------------------------------------------------
(* Derived bars *)

Whole(bars, b, size) == b..(b + size - 1) \subseteq TimesOf(bars)

\* The bars a bucket groups are those of its minutes, one for each.
LEMMA GroupOfRun ==
  ASSUME NEW bars \in Bars, Contiguous(bars), NEW size \in Nat \ {0},
         NEW b \in Nat, b % size = 0, b >= First(bars), b + size - 1 <= Last(bars)
  PROVE  Cardinality({i \in DOMAIN bars : Floor(bars[i].time, size) = b}) = size
  <1>1. PICK a \in Nat, n \in Nat : a = First(bars) /\ n = Len(bars) /\ DOMAIN bars = 1..n
    BY BarsAre, TimesOfRun
  <1>2. Last(bars) = a + n - 1 /\ \A i \in 1..n : bars[i].time = a + i - 1
    BY <1>1, TimesOfRun DEF Contiguous
  <1> DEFINE group == {i \in 1..n : Floor(bars[i].time, size) = b}
  <1>3. ASSUME NEW i \in 1..n
        PROVE  i \in group <=> i \in (b - a + 1)..(b - a + size)
    <2>1. PICK t \in Nat : t = bars[i].time /\ t = a + i - 1
      BY <1>2
    <2>2. Floor(t, size) = b <=> b <= t /\ t < b + size
      BY FloorOnly
    <2>3. b <= t /\ t < b + size <=> i \in (b - a + 1)..(b - a + size)
      BY <2>1
    <2> QED BY <2>1, <2>2, <2>3
  <1>4. (b - a + 1)..(b - a + size) \subseteq 1..n
    BY <1>1, <1>2
  <1>5. group = (b - a + 1)..(b - a + size)
    <2> HIDE DEF group
    <2>1. group \subseteq 1..n
      BY DEF group
    <2> QED BY <1>3, <1>4, <2>1
  <1>6. PICK c \in Int, d \in Int : c = b - a + 1 /\ d = b - a + size
    BY <1>1
  <1>7. Cardinality(c..d) = IF c > d THEN 0 ELSE d - c + 1
    BY FS_Interval
  <1>8. Cardinality(c..d) = size
    BY <1>1, <1>6, <1>7
  <1> QED BY <1>1, <1>5, <1>6, <1>8

\* A bucket is complete exactly when each of its minutes is there.
LEMMA CompleteIffWhole ==
  ASSUME NEW bars \in Bars, Contiguous(bars), NEW size \in Nat \ {0},
         NEW b \in Nat, b % size = 0
  PROVE  Complete(bars, b, size) <=> Whole(bars, b, size)
  <1>1. PICK a \in Nat, z \in Nat : a = First(bars) /\ z = Last(bars) /\ a <= z
    BY TimesOfRun
  <1>2. TimesOf(bars) = a..z
    BY <1>1, TimesOfRun
  <1>3. Whole(bars, b, size) <=> a <= b /\ b + size - 1 <= z
    <2>1. ASSUME Whole(bars, b, size) PROVE a <= b /\ b + size - 1 <= z
      <3>1. b \in b..(b + size - 1) /\ b + size - 1 \in b..(b + size - 1)
        OBVIOUS
      <3>2. b \in a..z /\ b + size - 1 \in a..z
        BY <1>2, <2>1, <3>1 DEF Whole
      <3> QED BY <3>2
    <2>2. ASSUME a <= b, b + size - 1 <= z PROVE Whole(bars, b, size)
      BY <1>2, <2>2 DEF Whole
    <2> QED BY <2>1, <2>2
  <1>4. Complete(bars, b, size) => a <= b /\ b + size - 1 <= z
    <2> SUFFICES ASSUME b \in a..z, b + size - 1 \in a..z PROVE a <= b /\ b + size - 1 <= z
      BY <1>2 DEF Complete
    <2> QED OBVIOUS
  <1>5. ASSUME a <= b, b + size - 1 <= z PROVE Complete(bars, b, size)
    <2>1. b \in a..z /\ b + size - 1 \in a..z
      BY <1>5
    <2>2. Cardinality({i \in DOMAIN bars : Floor(bars[i].time, size) = b}) = size
      BY <1>1, <1>5, GroupOfRun
    <2> QED BY <1>2, <2>1, <2>2 DEF Complete
  <1> QED BY <1>3, <1>4, <1>5

LEMMA BucketsAre ==
  ASSUME NEW bars \in Bars, NEW size \in Nat \ {0}, NEW b \in Buckets(bars, size)
  PROVE  b \in Nat /\ b % size = 0
  <1>1. PICK t \in TimesOf(bars) : b = Floor(t, size)
    BY DEF Buckets
  <1>2. t \in Nat
    BY BarsAre
  <1> QED BY <1>1, <1>2, FloorIs

\* The buckets derived from a contiguous series are the whole ones.
LEMMA DerivedAreWhole ==
  ASSUME NEW bars \in Bars, Contiguous(bars), NEW size \in Nat \ {0}
  PROVE  DeriveBars(bars, size) =
           {b \in Multiples(size, First(bars), Last(bars)) : Whole(bars, b, size)}
  <1>1. PICK a \in Nat, z \in Nat : a = First(bars) /\ z = Last(bars)
    BY TimesOfRun
  <1>2. TimesOf(bars) = a..z
    BY <1>1, TimesOfRun
  <1>3. ASSUME NEW b \in DeriveBars(bars, size)
        PROVE  b \in Multiples(size, a, z) /\ Whole(bars, b, size)
    <2>1. b \in Buckets(bars, size) /\ Complete(bars, b, size)
      BY DEF DeriveBars
    <2>2. b \in Nat /\ b % size = 0
      BY <2>1, BucketsAre
    <2>3. b \in a..z
      BY <1>2, <2>1 DEF Complete
    <2> QED BY <2>1, <2>2, <2>3, CompleteIffWhole DEF Multiples
  <1>4. ASSUME NEW b \in Multiples(size, a, z), Whole(bars, b, size)
        PROVE  b \in DeriveBars(bars, size)
    <2>1. b \in Nat /\ b % size = 0 /\ b \in a..z
      BY DEF Multiples
    <2>2. Floor(b, size) = b
      BY <2>1 DEF Floor
    <2>3. b \in Buckets(bars, size)
      BY <1>2, <2>1, <2>2 DEF Buckets
    <2> QED BY <1>4, <2>1, <2>3, CompleteIffWhole DEF DeriveBars
  <1> QED BY <1>1, <1>3, <1>4

\* Derivation never blocks on a contiguous series.
LEMMA RunsDoNotBlock ==
  ASSUME NEW bars \in Bars, Contiguous(bars), NEW size \in Nat \ {0}
  PROVE  ~DeriveBlocked(bars, size)
  <1>1. PICK a \in Nat, z \in Nat : a = First(bars) /\ z = Last(bars)
    BY TimesOfRun
  <1>2. TimesOf(bars) = a..z
    BY <1>1, TimesOfRun
  <1>3. ASSUME NEW b \in Buckets(bars, size), ~Edge(bars, b, size)
        PROVE  Complete(bars, b, size)
    <2>1. b \in Nat /\ b % size = 0
      BY BucketsAre
    <2>2. ~(b < a) /\ ~(b + size > z + 1)
      BY <1>1, <1>3 DEF Edge
    <2>3. \A t \in b..(b + size - 1) : t \in a..z
      BY <2>1, <2>2
    <2>4. Whole(bars, b, size)
      BY <1>2, <2>3 DEF Whole
    <2> QED BY <2>1, <2>4, CompleteIffWhole
  <1> QED BY <1>3 DEF DeriveBlocked

\* From accepted bars every whole hour and day is derived, nothing else is, and
\* derivation never blocks (_derive_bars).
THEOREM DerivationIsExact == Spec => []DerivedBarsAreWhole
  <1>1. IInv => DerivedBarsAreWhole
    <2> SUFFICES ASSUME IInv, Given, NEW s \in Symbols, NEW size \in {HOUR, DAY},
                        KlineReasons(snapshot.klines[s]) = {}
                 PROVE  /\ ~DeriveBlocked(snapshot.klines[s], size)
                        /\ DeriveBars(snapshot.klines[s], size) =
                             {b \in Multiples(size, First(snapshot.klines[s]),
                                              Last(snapshot.klines[s])) :
                                Whole(snapshot.klines[s], b, size)}
      BY DEF DerivedBarsAreWhole, Whole
    <2>1. PICK bars \in Bars : bars = snapshot.klines[s]
      BY ShapeOfSnapshot
    <2>2. size \in Nat \ {0} /\ Contiguous(bars)
      BY <2>1, ShapeOfSnapshot, AcceptedIffContiguous
    <2> QED BY <2>1, <2>2, RunsDoNotBlock, DerivedAreWhole
  <1> QED BY <1>1, SnapshotIsGiven, PTL
-----------------------------------------------------------------------------
(* What the strategy is shown *)

LEMMA AcceptedRuns ==
  ASSUME IInv, Given, Accepted(snapshot), NEW s \in Symbols
  PROVE  snapshot.klines[s] \in Bars /\ Contiguous(snapshot.klines[s])
  <1>1. KlineReasons(snapshot.klines[s]) = {}
    BY DEF Accepted, ValidSnapshot, Symbols
  <1> QED BY <1>1, ShapeOfSnapshot, AcceptedIffContiguous

\* A day that begins at or after t, on a multiple of DAY.
LEMMA FirstDayIs ==
  ASSUME NEW t \in Nat
  PROVE  /\ FirstCompletedUtcDay(t) \in Nat /\ FirstCompletedUtcDay(t) % DAY = 0
         /\ t <= FirstCompletedUtcDay(t)
  <1>1. DAY \in Nat \ {0}
    BY DataAssumption
  <1>2. CASE t % DAY = 0
    BY <1>2 DEF FirstCompletedUtcDay
  <1>3. CASE t % DAY # 0
    <2>1. PICK f \in Nat : f = Floor(t, DAY) /\ f % DAY = 0 /\ t < f + DAY
      BY <1>1, FloorIs
    <2>2. (f + DAY) % DAY = 0
      BY <1>1, <2>1, NextMultiple
    <2>3. FirstCompletedUtcDay(t) = f + DAY
      BY <1>3, <2>1 DEF FirstCompletedUtcDay
    <2> QED BY <1>1, <2>1, <2>2, <2>3
  <1> QED BY <1>2, <1>3

\* The evaluation starts a warm-up after a day by which every series has begun.
LEMMA StartIs ==
  ASSUME IInv, Given, Accepted(snapshot), Symbols # {}
  PROVE  \E d \in Nat :
           /\ d % DAY = 0 /\ EvaluationStart(snapshot) = d + EMA_200_WARMUP_DAYS * DAY
           /\ \A s \in Symbols : First(snapshot.klines[s]) <= d
  <1> DEFINE first == [s \in Symbols |-> First(snapshot.klines[s])]
             firsts == {First(snapshot.klines[s]) : s \in SUPPORTED_SYMBOLS}
  <1>1. \A s \in Symbols : First(snapshot.klines[s]) \in Nat
    BY AcceptedRuns, TimesOfRun
  <1>2. firsts \subseteq Nat /\ firsts # {}
    BY <1>1 DEF Symbols
  <1>3. IsFiniteSet(firsts)
    <2>1. first \in Surjection(Symbols, firsts)
      <3>1. first \in [Symbols -> firsts]
        BY DEF Symbols
      <3>2. \A x \in firsts : \E s \in Symbols : first[s] = x
        BY DEF Symbols
      <3> HIDE DEF first, firsts
      <3> QED BY <3>1, <3>2 DEF Surjection
    <2>2. IsFiniteSet(Symbols)
      BY DataAssumption DEF Symbols
    <2> HIDE DEF first, firsts
    <2> QED BY <2>1, <2>2, FS_Surjection
  <1>4. PICK g \in Nat : g = Greatest(firsts) /\ \A x \in firsts : x <= g
    <2> HIDE DEF firsts
    <2> QED BY <1>2, <1>3, GreatestExists
  <1>5. PICK d \in Nat : d = FirstCompletedUtcDay(g) /\ d % DAY = 0 /\ g <= d
    BY FirstDayIs
  <1>6. EvaluationStart(snapshot) = d + EMA_200_WARMUP_DAYS * DAY
    BY <1>4, <1>5 DEF EvaluationStart
  <1>7. ASSUME NEW s \in Symbols PROVE First(snapshot.klines[s]) <= d
    <2>1. PICK x \in Nat : x = First(snapshot.klines[s])
      BY <1>1
    <2>2. x <= g
      BY <1>4, <2>1 DEF Symbols
    <2> QED BY <1>5, <2>1, <2>2
  <1> QED BY <1>5, <1>6, <1>7

\* At the end of an hour of a symbol that minute is one of its bars, and the hour
\* began HOUR minutes before the next.
LEMMA HourJustEnded ==
  ASSUME IInv, Given, Accepted(snapshot), NEW s \in Symbols, NEW t \in Stamps(snapshot),
         HourEnds(snapshot, s, t)
  PROVE  /\ t \in Nat /\ t \in TimesOf(snapshot.klines[s])
         /\ Floor(t, HOUR) \in Nat /\ Floor(t, HOUR) + HOUR = t + 1
         /\ Floor(t, HOUR) \in DeriveBars(snapshot.klines[s], HOUR)
  <1>1. PICK bars \in Bars : bars = snapshot.klines[s] /\ Contiguous(bars)
    BY AcceptedRuns
  <1>2. t \in Nat
    <2>1. PICK u \in SUPPORTED_SYMBOLS : t \in TimesOf(snapshot.klines[u])
      BY DEF Stamps
    <2>2. snapshot.klines[u] \in Bars
      BY <2>1, AcceptedRuns DEF Symbols
    <2> QED BY <2>1, <2>2, BarsAre
  <1>3. HOUR \in Nat \ {0}
    BY DataAssumption
  <1>4. PICK f \in Nat : f = Floor(t, HOUR) /\ f % HOUR = 0
    BY <1>2, <1>3, FloorIs
  <1>5. f + HOUR = t + 1
    BY <1>2, <1>3, <1>4 DEF HourEnds, Floor
  <1>6. f \in DeriveBars(bars, HOUR)
    BY <1>1, <1>4 DEF HourEnds
  <1>7. Whole(bars, f, HOUR)
    BY <1>1, <1>3, <1>4, <1>6, CompleteIffWhole DEF DeriveBars
  <1>8. t \in f..(f + HOUR - 1)
    BY <1>2, <1>3, <1>4, <1>5
  <1> QED BY <1>1, <1>2, <1>4, <1>5, <1>6, <1>7, <1>8 DEF Whole

\* A day from the first common one on that has ended is shown; a day shown has ended.
LEMMA DaysShown ==
  ASSUME IInv, Given, Accepted(snapshot), NEW s \in Symbols, NEW t \in Stamps(snapshot),
         HourEnds(snapshot, s, t), NEW d \in Nat, First(snapshot.klines[s]) <= d
  PROVE  /\ \A b \in Nat : b % DAY = 0 /\ d <= b /\ b + DAY <= t + 1
                            => b \in DailyCloses(snapshot, s, t)
         /\ \A b \in DailyCloses(snapshot, s, t) :
              b \in Nat /\ b % DAY = 0 /\ b + DAY <= t + 1
  <1>1. PICK bars \in Bars : bars = snapshot.klines[s] /\ Contiguous(bars)
    BY AcceptedRuns
  <1>2. PICK a \in Nat, z \in Nat : a = First(bars) /\ z = Last(bars) /\ TimesOf(bars) = a..z
    BY <1>1, TimesOfRun
  <1>3. DAY \in Nat \ {0}
    BY DataAssumption
  <1>4. t \in Nat /\ t \in a..z
    BY <1>1, <1>2, HourJustEnded
  <1>5. DeriveBars(bars, DAY) = {b \in Multiples(DAY, a, z) : Whole(bars, b, DAY)}
    BY <1>1, <1>2, <1>3, DerivedAreWhole
  <1>6. ASSUME NEW b \in Nat, b % DAY = 0, d <= b, b + DAY <= t + 1
        PROVE  b \in DailyCloses(snapshot, s, t)
    <2>1. a <= b /\ b <= z
      BY <1>1, <1>2, <1>3, <1>4, <1>6
    <2>2. \A x \in b..(b + DAY - 1) : x \in a..z
      BY <1>3, <1>4, <1>6, <2>1
    <2>3. b \in DeriveBars(bars, DAY)
      BY <1>2, <1>5, <1>6, <2>1, <2>2 DEF Multiples, Whole
    <2> QED BY <1>1, <1>6, <2>3 DEF DailyCloses
  <1>7. ASSUME NEW b \in DailyCloses(snapshot, s, t)
        PROVE  b \in Nat /\ b % DAY = 0 /\ b + DAY <= t + 1
    <2>1. b \in DeriveBars(bars, DAY) /\ b + DAY <= t + 1
      BY <1>1 DEF DailyCloses
    <2> QED BY <1>5, <2>1 DEF Multiples
  <1> QED BY <1>6, <1>7

LEMMA WarmUp == EMA_200_WARMUP_DAYS \in Nat \ {0} /\ DAY \in Nat \ {0} /\ HOUR \in Nat \ {0}
  BY DataAssumption

\* A strategy is asked when an hour ends and sees that hour, no bar that holds a
\* later minute, and the day before as its last daily close (BacktestEngine.run).
THEOREM SignalsSeeNoFuture == Spec => []SignalSeesCompletedBars
  <1>1. ASSUME IInv, Given, Accepted(snapshot), NEW s \in Symbols, NEW t \in Stamps(snapshot),
               HourEnds(snapshot, s, t)
        PROVE  Greatest(HourlyCloses(snapshot, s, t)) + HOUR = t + 1
    <2>1. PICK f \in Nat : f = Floor(t, HOUR) /\ f + HOUR = t + 1
      BY <1>1, HourJustEnded
    <2>2. f \in HourlyCloses(snapshot, s, t)
      BY <1>1, <2>1, HourJustEnded DEF HourlyCloses
    <2>3. HourlyCloses(snapshot, s, t) \subseteq Nat
      <3>1. snapshot.klines[s] \in Bars
        BY <1>1, AcceptedRuns
      <3> QED BY <3>1, WarmUp, BucketsAre DEF HourlyCloses, DeriveBars
    <2>4. \A b \in HourlyCloses(snapshot, s, t) : b <= f
      BY <2>1 DEF HourlyCloses
    <2> QED BY <2>1, <2>2, <2>3, <2>4, GreatestIs
  <1>2. ASSUME IInv, Given, Accepted(snapshot), NEW s \in Symbols, NEW t \in Stamps(snapshot),
               HourEnds(snapshot, s, t)
        PROVE  Greatest(DailyCloses(snapshot, s, t)) + DAY = Floor(t + 1, DAY)
    <2>1. PICK d \in Nat : /\ d % DAY = 0 /\ First(snapshot.klines[s]) <= d
                           /\ EvaluationStart(snapshot) = d + EMA_200_WARMUP_DAYS * DAY
      BY <1>2, StartIs
    <2>2. t \in Nat /\ t >= EvaluationStart(snapshot)
      BY <1>2, HourJustEnded DEF Stamps
    <2>3. PICK w \in Nat : w = EMA_200_WARMUP_DAYS * DAY /\ w >= DAY
      <3>1. EMA_200_WARMUP_DAYS * DAY \in Nat
        BY WarmUp, MultipleIs
      <3>2. 1 * DAY <= EMA_200_WARMUP_DAYS * DAY
        BY WarmUp, Products
      <3> QED BY <3>1, <3>2, WarmUp
    <2>4. PICK n \in Nat : n = t + 1
      BY <2>2
    <2>5. PICK g \in Nat : g = Floor(n, DAY) /\ g % DAY = 0 /\ g <= n
      BY WarmUp, FloorIs
    <2>6. d + DAY <= g
      <3>1. PICK e \in Nat : e = d + DAY /\ e % DAY = 0
        BY <2>1, WarmUp, NextMultiple
      <3>2. e <= n
        BY <2>1, <2>2, <2>3, <2>4, <3>1, WarmUp
      <3>3. e <= Floor(n, DAY)
        BY <3>1, <3>2, WarmUp, FloorOnly
      <3> QED BY <2>5, <3>1, <3>3
    <2>7. PICK b \in Nat : b = g - DAY /\ b % DAY = 0
      <3>1. g >= DAY
        BY <2>6, WarmUp
      <3> QED BY <2>5, <3>1, WarmUp, NextMultiple
    <2>8. d <= b /\ b + DAY <= t + 1
      BY <2>4, <2>5, <2>6, <2>7, WarmUp
    <2>9. b \in DailyCloses(snapshot, s, t)
      BY <1>2, <2>1, <2>7, <2>8, DaysShown
    <2>10. ASSUME NEW c \in DailyCloses(snapshot, s, t) PROVE c \in Nat /\ c <= b
      <3>1. c \in Nat /\ c % DAY = 0 /\ c + DAY <= n
        BY <1>2, <2>1, <2>4, DaysShown
      <3>2. PICK e \in Nat : e = c + DAY /\ e % DAY = 0
        BY <3>1, WarmUp, NextMultiple
      <3>3. e <= Floor(n, DAY)
        BY <3>1, <3>2, WarmUp, FloorOnly
      <3> QED BY <2>5, <2>7, <3>1, <3>2, <3>3, WarmUp
    <2>11. Greatest(DailyCloses(snapshot, s, t)) = b
      BY <2>9, <2>10, GreatestIs
    <2> QED BY <2>4, <2>5, <2>7, <2>11, WarmUp
  <1>3. IInv => SignalSeesCompletedBars
    BY <1>1, <1>2 DEF SignalSeesCompletedBars
  <1> QED BY <1>3, SnapshotIsGiven, PTL

\* The days of the warm-up are days of their own.
LEMMA WarmUpDays ==
  ASSUME NEW d \in Nat, d % DAY = 0, NEW k \in 0..(EMA_200_WARMUP_DAYS - 1)
  PROVE  /\ d + k * DAY \in Nat /\ (d + k * DAY) % DAY = 0 /\ d <= d + k * DAY
         /\ (d + k * DAY) + DAY <= d + EMA_200_WARMUP_DAYS * DAY
         /\ \A i \in 0..(EMA_200_WARMUP_DAYS - 1) : d + i * DAY = d + k * DAY => i = k
  <1>1. PICK j \in Nat : d = j * DAY
    BY WarmUp, MultipleOf
  <1>2. k * DAY \in Nat /\ k \in Nat
    BY WarmUp, MultipleIs
  <1>3. (d + k * DAY) % DAY = 0
    <2>1. PICK p \in Nat : p = j + k
      BY <1>2
    <2>2. p * DAY = j * DAY + k * DAY
      BY <1>2, <2>1, WarmUp, Products
    <2>3. (p * DAY) % DAY = 0
      BY WarmUp, MultipleIs
    <2> QED BY <1>1, <2>2, <2>3
  <1>4. k * DAY + DAY <= EMA_200_WARMUP_DAYS * DAY
    <2>1. (k + 1) * DAY = k * DAY + DAY
      BY <1>2, WarmUp, Products
    <2>2. PICK p \in Nat : p = k + 1 /\ p <= EMA_200_WARMUP_DAYS
      BY <1>2, WarmUp
    <2>3. p * DAY <= EMA_200_WARMUP_DAYS * DAY
      BY <2>2, WarmUp, Products
    <2> QED BY <2>1, <2>2, <2>3
  <1>5. ASSUME NEW i \in 0..(EMA_200_WARMUP_DAYS - 1), d + i * DAY = d + k * DAY
        PROVE  i = k
    <2>1. i \in Nat /\ i * DAY \in Nat
      BY WarmUp, MultipleIs
    <2>2. i * DAY < k * DAY + DAY /\ k * DAY < i * DAY + DAY
      BY <1>2, <1>5, <2>1, WarmUp
    <2>3. i <= k /\ k <= i
      BY <1>2, <2>1, <2>2, WarmUp, Products
    <2> QED BY <1>2, <2>1, <2>3
  <1>6. PICK w \in Int, m \in Nat : w = EMA_200_WARMUP_DAYS * DAY /\ m = k * DAY
    BY <1>2, WarmUp, Products
  <1>7. m + DAY <= w
    BY <1>4, <1>6
  <1>8. (d + m) + DAY <= d + w /\ d <= d + m /\ d + m \in Nat
    BY <1>6, <1>7, WarmUp
  <1> QED BY <1>3, <1>5, <1>6, <1>8

\* Whenever a strategy is asked, every symbol has at least the warm-up's days of
\* daily closes behind it (common_evaluation_start).
THEOREM WarmUpIsThere == Spec => []SignalsAreWarmedUp
  <1>1. ASSUME IInv, Given, Accepted(snapshot), NEW s \in Symbols, NEW t \in Stamps(snapshot),
               HourEnds(snapshot, s, t)
        PROVE  Cardinality(DailyCloses(snapshot, s, t)) >= EMA_200_WARMUP_DAYS
    <2>1. PICK d \in Nat : /\ d % DAY = 0 /\ First(snapshot.klines[s]) <= d
                           /\ EvaluationStart(snapshot) = d + EMA_200_WARMUP_DAYS * DAY
      BY <1>1, StartIs
    <2>2. t \in Nat /\ t >= EvaluationStart(snapshot)
      BY <1>1, HourJustEnded DEF Stamps
    <2> DEFINE W == EMA_200_WARMUP_DAYS
               closes == DailyCloses(snapshot, s, t)
               f == [k \in 0..(W - 1) |-> d + k * DAY]
    <2>3. ASSUME NEW k \in 0..(W - 1) PROVE d + k * DAY \in closes
      <3>1. PICK b \in Nat : b = d + k * DAY
        BY <2>1, WarmUpDays
      <3>2. b % DAY = 0 /\ d <= b /\ b + DAY <= d + EMA_200_WARMUP_DAYS * DAY
        BY <2>1, <3>1, WarmUpDays
      <3>3. PICK w \in Int : w = d + EMA_200_WARMUP_DAYS * DAY
        BY WarmUp, Products
      <3>4. b + DAY <= t + 1
        BY <2>1, <2>2, <3>2, <3>3, WarmUp
      <3>5. b \in closes
        BY <1>1, <2>1, <3>2, <3>4, DaysShown
      <3> QED BY <3>1, <3>5
    <2>4. f \in Injection(0..(W - 1), closes)
      <3>1. f \in [0..(W - 1) -> closes]
        BY <2>3
      <3>2. ASSUME NEW i \in 0..(W - 1), NEW k \in 0..(W - 1), f[i] = f[k] PROVE i = k
        <4>1. d + i * DAY = d + k * DAY
          BY <3>2
        <4> QED BY <2>1, <4>1, WarmUpDays
      <3> HIDE DEF f, closes
      <3> QED BY <3>1, <3>2 DEF Injection, IsInjective
    <2>5. closes \subseteq 0..(t + 1) /\ IsFiniteSet(0..(t + 1))
      <3>1. ASSUME NEW b \in closes PROVE b \in 0..(t + 1)
        <4>1. b \in Nat /\ b + DAY <= t + 1
          BY <1>1, <2>1, DaysShown
        <4> QED BY <2>2, <4>1, WarmUp
      <3>2. PICK n \in Int : n = t + 1
        BY <2>2
      <3>3. IsFiniteSet(0..n)
        BY FS_Interval
      <3> QED BY <3>1, <3>2, <3>3
    <2>6. IsFiniteSet(closes)
      <3> HIDE DEF closes
      <3> QED BY <2>5, FS_Subset
    <2>7. Cardinality(0..(W - 1)) <= Cardinality(closes)
      <3> HIDE DEF f, closes, W
      <3> QED BY <2>4, <2>6, FS_Injection
    <2>8. Cardinality(0..(W - 1)) = W
      <3>1. PICK n \in Nat : n = W - 1
        BY WarmUp
      <3>2. Cardinality(0..n) = IF 0 > n THEN 0 ELSE n - 0 + 1
        BY FS_Interval
      <3> QED BY <3>1, <3>2, WarmUp
    <2>9. Cardinality(closes) \in Nat
      <3> HIDE DEF closes
      <3> QED BY <2>6, FS_CardinalityType
    <2> QED BY <2>7, <2>8, <2>9, WarmUp
  <1>2. IInv => SignalsAreWarmedUp
    BY <1>1 DEF SignalsAreWarmedUp
  <1> QED BY <1>2, SnapshotIsGiven, PTL
-----------------------------------------------------------------------------
(* The rows the engine looks up *)

\* What funding_reasons and metadata_reasons report, reason by reason.
LEMMA FundingAccepted ==
  ASSUME NEW bars, NEW rows, FundingReasons(bars, rows) = {}
  PROVE  ~Repeats(rows) /\ ExpectedFundingTimes(bars) \subseteq Elements(rows)
  <1> DEFINE repeats == Repeats(rows)
             missing == ~(ExpectedFundingTimes(bars) \subseteq Elements(rows))
  <1>1. {why \in {"duplicate funding", "missing funding"} :
           CASE why = "duplicate funding" -> repeats
             [] why = "missing funding"   -> missing} = {}
    BY DEF FundingReasons
  <1>2. ~repeats /\ ~missing
    <2> HIDE DEF repeats, missing
    <2> QED BY <1>1
  <1> QED BY <1>2

LEMMA MetadataAccepted ==
  ASSUME NEW bars, NEW rows, MetadataReasons(bars, rows) = {}
  PROVE  \A t \in TimesOf(bars) : MetadataAt(rows, t) # None /\ MetadataAt(rows, t).knowable
  <1> DEFINE twice == \E i, j \in DOMAIN rows : i # j /\ rows[i].from = rows[j].from
             gap == \E t \in TimesOf(bars) :
                      MetadataAt(rows, t) = None \/ ~MetadataAt(rows, t).knowable
  <1>1. {why \in {"duplicate metadata", "metadata gap"} :
           CASE why = "duplicate metadata" -> twice
             [] why = "metadata gap"       -> gap} = {}
    BY DEF MetadataReasons
  <1>2. ~gap
    <2> HIDE DEF twice, gap
    <2> QED BY <1>1
  <1> QED BY <1>2

\* A sequence without repeats has a member at one index only.
LEMMA OneRow ==
  ASSUME NEW rows \in Seq(Nat), ~Repeats(rows), NEW t \in Elements(rows)
  PROVE  Cardinality({i \in DOMAIN rows : rows[i] = t}) = 1
  <1>1. PICK n \in Nat : n = Len(rows) /\ DOMAIN rows = 1..n
    OBVIOUS
  <1> DEFINE T == Elements(rows)
  <1>2. rows \in Surjection(1..n, T)
    <2>1. rows \in [1..n -> T]
      BY <1>1 DEF Elements
    <2>2. \A x \in T : \E i \in 1..n : rows[i] = x
      BY <1>1 DEF Elements
    <2> HIDE DEF T
    <2> QED BY <2>1, <2>2 DEF Surjection
  <1>3. IsFiniteSet(1..n) /\ Cardinality(1..n) = n
    <2>1. IsFiniteSet(1..n) /\ Cardinality(1..n) = IF 1 > n THEN 0 ELSE n - 1 + 1
      BY FS_Interval
    <2> QED BY <2>1
  <1>4. /\ IsFiniteSet(T) /\ Cardinality(T) <= Cardinality(1..n)
        /\ Cardinality(T) = Cardinality(1..n) <=> rows \in Injection(1..n, T)
    <2> DEFINE S == 1..n
    <2> HIDE DEF S, T
    <2>1. rows \in Surjection(S, T) /\ IsFiniteSet(S)
      BY <1>2, <1>3 DEF S
    <2>2. /\ IsFiniteSet(T) /\ Cardinality(T) <= Cardinality(S)
          /\ Cardinality(T) = Cardinality(S) <=> rows \in Injection(S, T)
      BY <2>1, FS_Surjection
    <2> QED BY <2>2 DEF S
  <1>5. Cardinality(T) \in Nat
    <2> HIDE DEF T
    <2> QED BY <1>4, FS_CardinalityType
  <1>6. rows \in Injection(1..n, T)
    BY <1>1, <1>3, <1>4, <1>5 DEF Repeats
  <1>7. \A i, j \in 1..n : rows[i] = rows[j] => i = j
    BY <1>6 DEF Injection, IsInjective
  <1>8. PICK i \in 1..n : rows[i] = t
    BY <1>1 DEF Elements
  <1>9. {j \in DOMAIN rows : rows[j] = t} = {i}
    BY <1>1, <1>7, <1>8
  <1> QED BY <1>9, FS_Singleton

\* For every bar it drives the engine finds sizes it knows, and at every slot it
\* settles exactly one funding row (funding_reasons, metadata_reasons).
THEOREM RowsAreThere == Spec => []RowsAreFound
  <1>1. ASSUME IInv, Given, Accepted(snapshot), NEW s \in Symbols,
               NEW t \in TimesOf(snapshot.klines[s])
        PROVE  /\ MetadataAt(snapshot.metadata[s], t) # None
               /\ MetadataAt(snapshot.metadata[s], t).knowable
    <2>1. MetadataReasons(snapshot.klines[s], snapshot.metadata[s]) = {}
      BY <1>1 DEF Accepted, ValidSnapshot, Symbols
    <2> QED BY <2>1, MetadataAccepted
  <1>2. ASSUME IInv, Given, Accepted(snapshot), NEW s \in Symbols,
               NEW t \in TimesOf(snapshot.klines[s]), t % FUNDING_INTERVAL = 0
        PROVE  Cardinality({i \in DOMAIN snapshot.funding[s] : snapshot.funding[s][i] = t}) = 1
    <2>1. PICK bars \in Bars : bars = snapshot.klines[s] /\ Contiguous(bars)
      BY <1>2, AcceptedRuns
    <2>2. PICK rows \in Seq(Nat) : rows = snapshot.funding[s]
      BY <1>2, ShapeOfSnapshot
    <2>3. FundingReasons(bars, rows) = {}
      BY <1>2, <2>1, <2>2 DEF Accepted, ValidSnapshot, Symbols
    <2>4. PICK a \in Nat, z \in Nat : a = First(bars) /\ z = Last(bars) /\ TimesOf(bars) = a..z
      BY <2>1, TimesOfRun
    <2>5. FUNDING_INTERVAL \in Nat \ {0}
      BY DataAssumption
    <2>6. PICK f \in Nat : f = Floor(a, FUNDING_INTERVAL) /\ f <= a
      BY <2>5, FloorIs
    <2>7. t \in f..z
      BY <2>1, <2>4, <2>6
    <2>8. t \in ExpectedFundingTimes(bars)
      BY <1>2, <2>4, <2>6, <2>7 DEF ExpectedFundingTimes, Multiples
    <2>9. t \in Elements(rows) /\ ~Repeats(rows)
      BY <2>3, <2>8, FundingAccepted
    <2> QED BY <2>2, <2>9, OneRow
  <1>3. IInv => RowsAreFound
    BY <1>1, <1>2 DEF RowsAreFound
  <1> QED BY <1>3, SnapshotIsGiven, PTL
=============================================================================
