------------------------ MODULE MeanSchedulerProofs ------------------------
(***************************************************************************)
(* Theorems about the placement policy, for any number of servers and of   *)
(* windows: the closed form of the choices is what the loop returns.       *)
(*                                                                         *)
(* Rates are fractions whose denominator may be 0 (NaN and the infinities),*)
(* so RateLess is no order of all rates.  It is one of those below 0.      *)
(***************************************************************************)
EXTENDS MCMeanScheduler, FiniteSetTheorems, WellFoundedInduction, TLAPS

(***************************************************************************)
(* Induction over positions, with a set in the place of a predicate.       *)
(***************************************************************************)
LEMMA LeastPlace ==
  ASSUME NEW T \in SUBSET Nat, T # {}
  PROVE  \E x \in T : \A y \in T : ~ (y < x)
<1>1. PICK x \in T : \A y \in T : ~ (<<y, x>> \in OpToRel(<, Nat))
  BY WFMin, NatLessThanWellFounded
<1> QED
  BY <1>1 DEF OpToRel

LEMMA PositionInduction ==
  ASSUME NEW n \in Nat, NEW G,
         0 \in G,
         \A k \in 1 .. n : k - 1 \in G => k \in G
  PROVE  \A k \in 0 .. n : k \in G
<1> DEFINE bad == {k \in 0 .. n : k \notin G}
<1>1. CASE bad = {}
  BY <1>1
<1>2. CASE bad # {}
  <2>1. bad \in SUBSET Nat
    OBVIOUS
  <2>2. PICK k \in bad : \A j \in bad : ~ (j < k)
    <3> HIDE DEF bad
    <3> QED
      BY <1>2, <2>1, LeastPlace
  <2>3. k \in 1 .. n /\ k - 1 \in 0 .. n /\ k - 1 < k
    BY <2>2
  <2>4. k - 1 \notin bad
    BY <2>2, <2>3
  <2> QED
    BY <2>2, <2>3, <2>4
<1> QED
  BY <1>1, <1>2

\* Where the terms are, and sums of two, is the sum of all.
LEMMA SumOfAllIn ==
  ASSUME NEW A, 0 \in A, \A a, b \in A : a + b \in A,
         NEW seq, Len(seq) \in Nat, \A i \in 1 .. Len(seq) : seq[i] \in A
  PROVE  SumOfAll(seq) \in A
<1> DEFINE n == Len(seq)
           Sums(f, k) == f = [j \in 0 .. k |-> IF j = 0 THEN 0 ELSE f[j - 1] + seq[j]]
           sum == CHOOSE f : Sums(f, n)
<1>1. SumOfAll(seq) = sum[n]
  BY DEF SumOfAll
<1>2. \E f : Sums(f, n)
  <2> DEFINE G == {k \in 0 .. n : \E f : Sums(f, k)}
  <2>1. 0 \in G
    <3>1. Sums([j \in 0 .. 0 |-> 0], 0)
      OBVIOUS
    <3> HIDE DEF Sums
    <3>2. \E f : Sums(f, 0)
      BY <3>1
    <3> QED
      BY <3>2
  <2>2. ASSUME NEW k \in 1 .. n, k - 1 \in G
        PROVE  k \in G
    <3>1. PICK f : Sums(f, k - 1)
      BY <2>2
    <3> DEFINE g == [j \in 0 .. k |-> IF j = k THEN f[k - 1] + seq[k] ELSE f[j]]
    <3>2. \A j \in 0 .. k : g[j] = IF j = 0 THEN 0 ELSE g[j - 1] + seq[j]
      BY <3>1
    <3>3. Sums(g, k)
      BY <3>2
    <3> HIDE DEF Sums
    <3>4. \E h : Sums(h, k)
      BY <3>3
    <3> QED
      BY <3>4
  <2>3. n \in G
    <3>1. n \in 0 .. n
      OBVIOUS
    <3> HIDE DEF G
    <3> QED
      BY <2>1, <2>2, <3>1, PositionInduction
  <2> QED
    BY <2>3
<1>3. Sums(sum, n)
  BY <1>2
<1>4. n \in {k \in 0 .. n : sum[k] \in A}
  <2> DEFINE G == {k \in 0 .. n : sum[k] \in A}
  <2> HIDE DEF sum
  <2>1. 0 \in G
    BY <1>3
  <2>2. ASSUME NEW k \in 1 .. n, k - 1 \in G
        PROVE  k \in G
    <3>1. sum[k] = sum[k - 1] + seq[k]
      BY <1>3
    <3> QED
      BY <2>2, <3>1
  <2>3. n \in 0 .. n
    OBVIOUS
  <2>4. n \in G
    <3> HIDE DEF G
    <3> QED
      BY <2>1, <2>2, <2>3, PositionInduction
  <2> QED
    BY <2>4
<1> HIDE DEF sum
<1> QED
  BY <1>1, <1>4

(***************************************************************************)
(* Rates.                                                                  *)
(***************************************************************************)
Rates == [num : Int, den : Nat]

\* A window as UtilizedRate reads it.
Measured(w) ==
  /\ w.start.nanos \in Int /\ w.end.nanos \in Int /\ w.end.seconds \in Int
  /\ w.cpu \in Int /\ w.gpu \in Int

\* A load in percent of a length, and the length, are integers.
LEMMA TermTypes ==
  ASSUME NEW w, Measured(w), NEW resource \in {"cpu", "gpu"}
  PROVE  /\ WindowNanos(w) \in Int
         /\ MulAsPercent(WindowNanos(w), w[resource]) \in Int
<1>1. WindowNanos(w) \in Int
  BY TimeUnits DEF Measured, WindowNanos, SubtractWindow
<1>2. w[resource] \in Int
  BY DEF Measured
<1>3. WindowNanos(w) * w[resource] \in Int
  BY <1>1, <1>2
<1>4. ASSUME NEW x \in Int PROVE Truncate(x, 100) \in Int
  BY DEF Truncate
<1> QED
  BY <1>1, <1>3, <1>4 DEF MulAsPercent

LEMMA RateType ==
  ASSUME NEW ws, Len(ws) \in Nat, DOMAIN ws = 1 .. Len(ws),
         \A i \in 1 .. Len(ws) : Measured(ws[i]),
         NEW resource \in {"cpu", "gpu"}
  PROVE  UtilizedRate(ws, resource) \in Rates
<1> DEFINE lengths == [i \in DOMAIN ws |-> WindowNanos(ws[i])]
           loads   == [i \in DOMAIN ws |-> MulAsPercent(WindowNanos(ws[i]), ws[i][resource])]
<1>1. /\ Len(lengths) = Len(ws) /\ \A i \in 1 .. Len(ws) : lengths[i] \in Int
      /\ Len(loads) = Len(ws) /\ \A i \in 1 .. Len(ws) : loads[i] \in Int
  BY TermTypes
<1>2. SumOfAll(lengths) \in Int /\ SumOfAll(loads) \in Int
  <2> HIDE DEF lengths, loads
  <2>1. 0 \in Int /\ \A a, b \in Int : a + b \in Int
    OBVIOUS
  <2>2. SumOfAll(lengths) \in Int
    BY <1>1, <2>1, SumOfAllIn
  <2>3. SumOfAll(loads) \in Int
    BY <1>1, <2>1, SumOfAllIn
  <2> QED
    BY <2>2, <2>3
<1>3. UtilizedRate(ws, resource) =
        IF SumOfAll(lengths) < 0
        THEN [num |-> - SumOfAll(loads), den |-> - SumOfAll(lengths)]
        ELSE [num |-> SumOfAll(loads), den |-> SumOfAll(lengths)]
  BY DEF UtilizedRate
<1> HIDE DEF lengths, loads
<1> QED
  BY <1>2, <1>3 DEF Rates

\* A rate is below 0 when its numerator is; NaN is not.
LEMMA BelowZero ==
  ASSUME NEW a \in Rates
  PROVE  RateLess(a, ZeroRate) <=> a.num < 0
BY DEF Rates, RateLess, ZeroRate

\* What is below a rate below 0 is below 0: NaN never is.
LEMMA BelowNegative ==
  ASSUME NEW a \in Rates, NEW b \in Rates, b.num < 0, RateLess(a, b)
  PROVE  a.num < 0
<1>1. a.num \in Int /\ a.den \in Nat /\ b.num \in Int /\ b.den \in Nat
  BY DEF Rates
<1>2. a.num * b.den < b.num * a.den
  BY DEF RateLess
<1>3. b.num * a.den <= 0
  BY <1>1
<1>4. a.num >= 0 => a.num * b.den >= 0
  BY <1>1
<1>5. a.num * b.den \in Int /\ b.num * a.den \in Int
  BY <1>1
<1> QED
  BY <1>1, <1>2, <1>3, <1>4, <1>5

LEMMA RateNotBelowItself ==
  ASSUME NEW a \in Rates
  PROVE  ~ RateLess(a, a)
<1>1. a.num * a.den \in Int
  BY DEF Rates
<1> QED
  BY <1>1 DEF RateLess

LEMMA RateLessOneWay ==
  ASSUME NEW a \in Rates, NEW b \in Rates, RateLess(a, b)
  PROVE  ~ RateLess(b, a)
<1>1. a.num * b.den \in Int /\ b.num * a.den \in Int
  BY DEF Rates
<1> QED
  BY <1>1 DEF RateLess

\* Below 0, "not above" is transitive.
LEMMA NotAbove ==
  ASSUME NEW x \in Nat \ {0}, NEW y \in Nat \ {0}, NEW z \in Nat \ {0},
         NEW d \in Nat, NEW e \in Nat, NEW f \in Nat,
         y * d <= x * e, z * e <= y * f
  PROVE  z * d <= x * f
<1>1. z * (y * d) <= z * (x * e)
  <2> DEFINE p == y * d
             q == x * e
  <2>1. p \in Nat /\ q \in Nat /\ p <= q
    OBVIOUS
  <2> HIDE DEF p, q
  <2>2. z * p <= z * q
    BY <2>1
  <2> QED
    BY <2>2 DEF p, q
<1>2. x * (z * e) <= x * (y * f)
  <2> DEFINE p == z * e
             q == y * f
  <2>1. p \in Nat /\ q \in Nat /\ p <= q
    OBVIOUS
  <2> HIDE DEF p, q
  <2>2. x * p <= x * q
    BY <2>1
  <2> QED
    BY <2>2 DEF p, q
<1>3. z * (y * d) = y * (z * d) /\ x * (y * f) = y * (x * f) /\ z * (x * e) = x * (z * e)
  OBVIOUS
<1>4. y * (z * d) <= y * (x * f)
  <2>1. /\ z * (y * d) \in Int /\ z * (x * e) \in Int /\ x * (z * e) \in Int
        /\ x * (y * f) \in Int
    OBVIOUS
  <2> QED
    BY <1>1, <1>2, <1>3, <2>1
<1> DEFINE p == z * d
           q == x * f
<1>5. p \in Nat /\ q \in Nat /\ y * p <= y * q
  BY <1>4
<1> HIDE DEF p, q
<1>6. p <= q
  BY <1>5
<1> QED
  BY <1>6 DEF p, q

LEMMA RatesOrdered ==
  ASSUME NEW a \in Rates, NEW b \in Rates, NEW c \in Rates,
         a.num < 0, b.num < 0, c.num < 0,
         ~ RateLess(b, a), ~ RateLess(c, b)
  PROVE  ~ RateLess(c, a)
<1> DEFINE x == - a.num
           y == - b.num
           z == - c.num
<1>1. /\ x \in Nat \ {0} /\ y \in Nat \ {0} /\ z \in Nat \ {0}
      /\ a.den \in Nat /\ b.den \in Nat /\ c.den \in Nat
  BY DEF Rates
<1>2. a.num = - x /\ b.num = - y /\ c.num = - z
  BY DEF Rates
<1> HIDE DEF x, y, z
<1>3. y * a.den <= x * b.den /\ z * b.den <= y * c.den
  BY <1>1, <1>2 DEF RateLess
<1>4. z * a.den <= x * c.den
  BY <1>1, <1>3, NotAbove
<1> QED
  BY <1>1, <1>2, <1>4 DEF RateLess

(***************************************************************************)
(* The loop.  Rate is what each server of the map is rated at.             *)
(***************************************************************************)
Rate(m, resource) == [s \in DOMAIN m |-> UtilizedRate(m[s], resource)]

\* The servers below 0, and those of them that none is below.
Below(R) == {s \in DOMAIN R : R[s].num < 0}

Lowest(R) == {s \in Below(R) : \A q \in Below(R) : ~ RateLess(R[q], R[s])}

\* Every server of R, at some position.
Covers(order, R) ==
  /\ Len(order) \in Nat \ {0}
  /\ \A i \in 1 .. Len(order) : order[i] \in DOMAIN R
  /\ \A s \in DOMAIN R : \E i \in 1 .. Len(order) : order[i] = s

Starting(order) == [server |-> order[1], rate |-> ZeroRate]

Rating(order, R, i) == [server |-> order[i], rate |-> R[order[i]]]

Best(f, order, R, k) ==
  f = [i \in 0 .. k |->
         IF i = 0 THEN Starting(order)
         ELSE IF RateLess(R[order[i]], f[i - 1].rate) THEN Rating(order, R, i)
         ELSE f[i - 1]]

LEMMA BestExists ==
  ASSUME NEW order, NEW R, NEW n \in Nat
  PROVE  \E f : Best(f, order, R, n)
<1> DEFINE G == {k \in 0 .. n : \E f : Best(f, order, R, k)}
<1>1. 0 \in G
  <2>1. Best([i \in 0 .. 0 |-> Starting(order)], order, R, 0)
    BY DEF Best
  <2>2. \E f : Best(f, order, R, 0)
    BY <2>1
  <2> QED
    BY <2>2
<1>2. ASSUME NEW k \in 1 .. n, k - 1 \in G
      PROVE  k \in G
  <2>1. PICK f : Best(f, order, R, k - 1)
    BY <1>2
  <2> DEFINE last == IF RateLess(R[order[k]], f[k - 1].rate) THEN Rating(order, R, k)
                     ELSE f[k - 1]
             g    == [i \in 0 .. k |-> IF i = k THEN last ELSE f[i]]
  <2>2. ASSUME NEW i \in 0 .. k
        PROVE  g[i] = IF i = 0 THEN Starting(order)
                      ELSE IF RateLess(R[order[i]], g[i - 1].rate) THEN Rating(order, R, i)
                      ELSE g[i - 1]
    <3> HIDE DEF last
    <3>1. CASE i = k
      <4>1. i # 0 /\ i - 1 \in 0 .. k /\ i - 1 # k /\ g[i - 1] = f[i - 1] /\ g[i] = last
        BY <3>1
      <4> QED
        BY <3>1, <4>1 DEF last
    <3>2. CASE i # k
      <4>1. i \in 0 .. k - 1
        BY <3>2
      <4>2. g[i] = f[i] /\ (i # 0 => g[i - 1] = f[i - 1])
        BY <4>1
      <4> QED
        BY <2>1, <4>1, <4>2, <3>2 DEF Best
    <3> QED
      BY <3>1, <3>2
  <2>3. Best(g, order, R, k)
    <3> HIDE DEF last
    <3> QED
      BY <2>2 DEF Best
  <2>4. \E h : Best(h, order, R, k)
    BY <2>3
  <2> QED
    BY <2>4
<1>3. n \in 0 .. n
  OBVIOUS
<1>4. n \in G
  <2> HIDE DEF G
  <2> QED
    BY <1>1, <1>2, <1>3, PositionInduction
<1> QED
  BY <1>4

\* One turn of the loop.
LEMMA BestStep ==
  ASSUME NEW order, NEW R, NEW n \in Nat, NEW f, Best(f, order, R, n)
  PROVE  /\ f[0] = Starting(order)
         /\ \A i \in 1 .. n :
              f[i] = IF RateLess(R[order[i]], f[i - 1].rate) THEN Rating(order, R, i)
                     ELSE f[i - 1]
BY DEF Best

LEMMA LoopIsBest ==
  ASSUME NEW m, NEW resource, NEW order, Len(order) \in Nat
  PROVE  \E f : /\ Best(f, order, Rate(m, resource), Len(order))
                /\ ScheduleLoop(m, resource, order) = f[Len(order)].server
<1> DEFINE R == Rate(m, resource)
           best == CHOOSE f : Best(f, order, R, Len(order))
<1>1. ScheduleLoop(m, resource, order) = best[Len(order)].server
  BY DEF ScheduleLoop, Rate, Best, Starting, Rating
<1>2. Best(best, order, R, Len(order))
  BY BestExists
<1> QED
  BY <1>1, <1>2

\* As long as no server below 0 was met, the first one is kept at rate 0; from
\* then on the best is below 0, and none that was met is below it.
LEMMA BestSoFar ==
  ASSUME NEW order, NEW R, \A s \in DOMAIN R : R[s] \in Rates, Covers(order, R),
         NEW f, Best(f, order, R, Len(order))
  PROVE  \A k \in 0 .. Len(order) :
           \/ /\ f[k] = Starting(order)
              /\ \A j \in 1 .. k : order[j] \notin Below(R)
           \/ \E h \in 1 .. k :
                /\ f[k] = Rating(order, R, h)
                /\ order[h] \in Below(R)
                /\ \A j \in 1 .. k :
                     order[j] \in Below(R) => ~ RateLess(R[order[j]], R[order[h]])
<1> DEFINE n == Len(order)
           None(k) == /\ f[k] = Starting(order)
                      /\ \A j \in 1 .. k : order[j] \notin Below(R)
           Some(k, h) == /\ f[k] = Rating(order, R, h)
                         /\ order[h] \in Below(R)
                         /\ \A j \in 1 .. k :
                              order[j] \in Below(R) => ~ RateLess(R[order[j]], R[order[h]])
           G == {k \in 0 .. n : None(k) \/ \E h \in 1 .. k : Some(k, h)}
<1>1. n \in Nat /\ \A j \in 1 .. n : order[j] \in DOMAIN R /\ R[order[j]] \in Rates
  BY DEF Covers
<1>2. 0 \in G
  <2>1. None(0)
    BY <1>1, BestStep
  <2> HIDE DEF None, Some
  <2> QED
    BY <1>1, <2>1
<1>3. ASSUME NEW k \in 1 .. n, k - 1 \in G
      PROVE  k \in G
  <2> DEFINE r == R[order[k]]
  <2>1. /\ r \in Rates /\ order[k] \in DOMAIN R
        /\ order[k] \in Below(R) <=> r.num < 0
    BY <1>1 DEF Below
  <2>2. f[k] = IF RateLess(r, f[k - 1].rate) THEN Rating(order, R, k) ELSE f[k - 1]
    BY <1>1, BestStep, ZenonT(60)
  <2>3. CASE None(k - 1)
    <3>1. f[k - 1].rate = ZeroRate
      BY <2>3 DEF Starting
    <3>2. CASE r.num < 0
      <4>1. f[k] = Rating(order, R, k)
        BY <2>1, <2>2, <3>1, <3>2, BelowZero
      <4>2. \A j \in 1 .. k : order[j] \in Below(R) => j = k
        BY <2>3
      <4>3. Some(k, k)
        BY <2>1, <3>2, <4>1, <4>2, RateNotBelowItself
      <4>4. k \in 1 .. k /\ k \in 0 .. n
        BY <1>1
      <4> HIDE DEF None, Some
      <4> QED
        BY <4>3, <4>4
    <3>3. CASE ~ (r.num < 0)
      <4>1. f[k] = Starting(order)
        BY <2>1, <2>2, <2>3, <3>1, <3>3, BelowZero
      <4>2. \A j \in 1 .. k : order[j] \notin Below(R)
        <5>1. \A j \in 1 .. k : j = k \/ j \in 1 .. k - 1
          BY <1>1
        <5> QED
          BY <2>1, <2>3, <3>3, <5>1
      <4>3. None(k) /\ k \in 0 .. n
        BY <1>1, <4>1, <4>2
      <4> HIDE DEF None, Some
      <4> QED
        BY <4>3
    <3> QED
      BY <3>2, <3>3
  <2>4. ASSUME NEW h \in 1 .. k - 1, Some(k - 1, h)
        PROVE  k \in G
    <3>1. f[k - 1].rate = R[order[h]] /\ R[order[h]] \in Rates /\ R[order[h]].num < 0
      BY <1>1, <2>4 DEF Rating, Below
    <3>2. \A j \in 1 .. k : j = k \/ j \in 1 .. k - 1
      BY <1>1
    <3>3. CASE RateLess(r, R[order[h]])
      <4>1. f[k] = Rating(order, R, k) /\ order[k] \in Below(R) /\ r.num < 0
        BY <2>1, <2>2, <3>1, <3>3, BelowNegative
      <4>2. ASSUME NEW j \in 1 .. k, order[j] \in Below(R)
            PROVE  ~ RateLess(R[order[j]], r)
        <5>1. CASE j = k
          BY <2>1, <5>1, RateNotBelowItself
        <5>2. CASE j \in 1 .. k - 1
          <6>1. R[order[j]] \in Rates /\ R[order[j]].num < 0
            BY <1>1, <4>2 DEF Below
          <6>2. ~ RateLess(R[order[j]], R[order[h]])
            BY <2>4, <4>2, <5>2
          <6>3. ~ RateLess(R[order[h]], r)
            BY <2>1, <3>1, <3>3, RateLessOneWay
          <6> QED
            BY <2>1, <3>1, <4>1, <6>1, <6>2, <6>3, RatesOrdered
        <5> QED
          BY <3>2, <5>1, <5>2
      <4>3. Some(k, k)
        BY <4>1, <4>2
      <4>4. k \in 1 .. k /\ k \in 0 .. n
        BY <1>1
      <4> HIDE DEF None, Some
      <4> QED
        BY <4>3, <4>4
    <3>4. CASE ~ RateLess(r, R[order[h]])
      <4>1. f[k] = Rating(order, R, h)
        BY <2>2, <2>4, <3>1, <3>4
      <4>2. Some(k, h)
        BY <2>4, <3>2, <3>4, <4>1
      <4>3. h \in 1 .. k /\ k \in 0 .. n
        BY <1>1
      <4> HIDE DEF None, Some
      <4> QED
        BY <4>2, <4>3
    <3> QED
      BY <3>3, <3>4
  <2> HIDE DEF None, Some
  <2> QED
    BY <1>3, <2>3, <2>4
<1>4. \A k \in 0 .. n : k \in G
  <2> HIDE DEF G
  <2> QED
    BY <1>1, <1>2, <1>3, PositionInduction
<1> QED
  BY <1>4

\* What the loop ends with, for one order.
LEMMA LoopResult ==
  ASSUME NEW m, NEW resource, NEW order,
         \A s \in DOMAIN m : Rate(m, resource)[s] \in Rates,
         Covers(order, Rate(m, resource))
  PROVE  IF Below(Rate(m, resource)) = {}
         THEN ScheduleLoop(m, resource, order) = order[1]
         ELSE ScheduleLoop(m, resource, order) \in Lowest(Rate(m, resource))
<1> DEFINE R == Rate(m, resource)
           n == Len(order)
<1>1. DOMAIN R = DOMAIN m /\ n \in Nat \ {0} /\ n \in 0 .. n
  BY DEF Covers, Rate
<1>2. PICK f : Best(f, order, R, n) /\ ScheduleLoop(m, resource, order) = f[n].server
  BY <1>1, LoopIsBest
<1> HIDE DEF R
<1>3. \/ /\ f[n] = Starting(order)
         /\ \A j \in 1 .. n : order[j] \notin Below(R)
      \/ \E h \in 1 .. n :
           /\ f[n] = Rating(order, R, h)
           /\ order[h] \in Below(R)
           /\ \A j \in 1 .. n :
                order[j] \in Below(R) => ~ RateLess(R[order[j]], R[order[h]])
  <2>1. (\A s \in DOMAIN R : R[s] \in Rates) /\ Covers(order, R)
    BY DEF R, Rate
  <2> QED
    BY <1>1, <1>2, <2>1, BestSoFar
<1>4. \A s \in DOMAIN R : \E j \in 1 .. n : order[j] = s
  BY DEF Covers, R
<1>5. CASE Below(R) = {}
  BY <1>1, <1>2, <1>3, <1>5 DEF Starting, R
<1>6. CASE Below(R) # {}
  <2>1. PICK h \in 1 .. n :
          /\ f[n] = Rating(order, R, h)
          /\ order[h] \in Below(R)
          /\ \A j \in 1 .. n :
               order[j] \in Below(R) => ~ RateLess(R[order[j]], R[order[h]])
    BY <1>3, <1>4, <1>6 DEF Below
  <2>2. \A q \in Below(R) : ~ RateLess(R[q], R[order[h]])
    BY <1>4, <2>1 DEF Below
  <2>3. order[h] \in Lowest(R) /\ f[n].server = order[h]
    BY <2>1, <2>2 DEF Lowest, Rating
  <2> QED
    BY <1>2, <1>6, <2>3 DEF R
<1> QED
  BY <1>5, <1>6 DEF R

\* A lowest server that comes first is kept.
LEMMA LowestStays ==
  ASSUME NEW m, NEW resource, NEW order,
         \A s \in DOMAIN m : Rate(m, resource)[s] \in Rates,
         Covers(order, Rate(m, resource)),
         order[1] \in Lowest(Rate(m, resource))
  PROVE  ScheduleLoop(m, resource, order) = order[1]
<1> DEFINE R == Rate(m, resource)
           n == Len(order)
<1>1. /\ n \in Nat \ {0} /\ DOMAIN R = DOMAIN m
      /\ \A i \in 1 .. n : order[i] \in DOMAIN R /\ R[order[i]] \in Rates
  BY DEF Covers, Rate
<1>2. PICK f : Best(f, order, R, n) /\ ScheduleLoop(m, resource, order) = f[n].server
  BY <1>1, LoopIsBest
<1>3. order[1] \in Below(R) /\ \A q \in Below(R) : ~ RateLess(R[q], R[order[1]])
  BY DEF Lowest
<1> HIDE DEF R
<1>4. /\ f[0] = Starting(order)
      /\ \A i \in 1 .. n :
           f[i] = IF RateLess(R[order[i]], f[i - 1].rate) THEN Rating(order, R, i)
                  ELSE f[i - 1]
  <2> HIDE DEF n
  <2>1. n \in Nat
    BY <1>1
  <2> QED
    BY <1>2, <2>1, BestStep, SMTT(30)
<1> DEFINE G == {k \in 0 .. n : k = 0 \/ f[k] = Rating(order, R, 1)}
<1>5. 0 \in G
  BY <1>1
<1>6. ASSUME NEW k \in 1 .. n, k - 1 \in G
      PROVE  k \in G
  <2>1. f[k] = IF RateLess(R[order[k]], f[k - 1].rate) THEN Rating(order, R, k)
               ELSE f[k - 1]
    BY <1>4
  <2>2. CASE k = 1
    <3>1. f[k - 1].rate = ZeroRate
      BY <1>4, <2>2 DEF Starting
    <3>2. RateLess(R[order[1]], ZeroRate)
      BY <1>1, <1>3, BelowZero DEF Below
    <3> QED
      BY <2>1, <2>2, <3>1, <3>2
  <2>3. CASE k # 1
    <3>1. f[k - 1] = Rating(order, R, 1) /\ f[k - 1].rate = R[order[1]]
      BY <1>6, <2>3 DEF Rating
    <3>2. R[order[1]] \in Rates /\ R[order[1]].num < 0
      BY <1>1, <1>3 DEF Below
    <3>3. ~ RateLess(R[order[k]], R[order[1]])
      BY <1>1, <1>3, <3>2, BelowNegative DEF Below
    <3> QED
      BY <2>1, <3>1, <3>3
  <2> QED
    BY <2>2, <2>3
<1>7. n \in G
  <2>1. n \in 0 .. n
    BY <1>1
  <2> HIDE DEF G
  <2> QED
    BY <1>1, <1>5, <1>6, <2>1, PositionInduction
<1> QED
  BY <1>1, <1>2, <1>7 DEF Rating

\* The closed form.
LEMMA ChoicesAre ==
  ASSUME NEW m, NEW resource,
         \A s \in DOMAIN m : Rate(m, resource)[s] \in Rates
  PROVE  ScheduleChoices(m, resource) =
           IF Below(Rate(m, resource)) = {} THEN DOMAIN m ELSE Lowest(Rate(m, resource))
<1> DEFINE R        == Rate(m, resource)
           rated    == {<<s, UtilizedRate(m[s], resource)>> : s \in DOMAIN m}
           negative == {p \in rated : RateLess(p[2], ZeroRate)}
           lowest   == {p \in negative : \A q \in negative : ~ RateLess(q[2], p[2])}
<1>1. ScheduleChoices(m, resource) =
        IF negative = {} THEN DOMAIN m ELSE {p[1] : p \in lowest}
  BY DEF ScheduleChoices
<1>2. DOMAIN R = DOMAIN m /\ \A s \in DOMAIN m : R[s] = UtilizedRate(m[s], resource)
  BY DEF Rate
<1>3. \A p : p \in negative <=> \E s \in Below(R) : p = <<s, R[s]>>
  BY <1>2, BelowZero DEF Below
<1> HIDE DEF R, negative
<1>4. negative = {} <=> Below(R) = {}
  BY <1>3
<1>5. {p[1] : p \in lowest} = Lowest(R)
  <2>1. ASSUME NEW p \in lowest
        PROVE  p[1] \in Lowest(R)
    <3>1. PICK s \in Below(R) : p = <<s, R[s]>>
      BY <1>3, <2>1
    <3>2. \A q \in Below(R) : ~ RateLess(R[q], R[s])
      <4>1. ASSUME NEW q \in Below(R) PROVE <<q, R[q]>> \in negative
        BY <1>3
      <4> QED
        BY <2>1, <3>1, <4>1
    <3> QED
      BY <3>1, <3>2 DEF Lowest
  <2>2. ASSUME NEW s \in Lowest(R)
        PROVE  \E p \in lowest : p[1] = s
    <3>1. <<s, R[s]>> \in lowest
      BY <1>3, <2>2 DEF Lowest
    <3> QED
      BY <3>1
  <2> QED
    BY <2>1, <2>2
<1> QED
  BY <1>1, <1>4, <1>5 DEF R

\* The orders of a map: its iteration meets each server once.
LEMMA OrderCovers ==
  ASSUME NEW S, IsFiniteSet(S), S # {}, NEW order \in SetToSeqs(S)
  PROVE  /\ Len(order) \in Nat \ {0}
         /\ \A i \in 1 .. Len(order) : order[i] \in S
         /\ \A s \in S : \E i \in 1 .. Len(order) : order[i] = s
<1> DEFINE n == Cardinality(S)
<1>1. n \in Nat \ {0}
  BY FS_CardinalityType, FS_EmptySet
<1>2. order \in [1 .. n -> S] /\ \A i, j \in 1 .. n : i # j => order[i] # order[j]
  BY DEF SetToSeqs
<1>3. Len(order) = n
  BY <1>1, <1>2
<1>4. order \in Injection(1 .. n, S)
  BY <1>2 DEF Injection, IsInjective
<1>5. IsFiniteSet(1 .. n) /\ Cardinality(1 .. n) = n
  BY <1>1, FS_Interval
<1>6. order \in Surjection(1 .. n, S)
  BY <1>4, <1>5, FS_Injection
<1> QED
  BY <1>1, <1>2, <1>3, <1>6 DEF Surjection

\* Any server can be the first.
LEMMA OrderFrom ==
  ASSUME NEW S, IsFiniteSet(S), NEW s \in S
  PROVE  \E order \in SetToSeqs(S) : order[1] = s
<1> DEFINE n == Cardinality(S)
           T == S \ {s}
<1>1. n \in Nat \ {0}
  BY FS_CardinalityType, FS_EmptySet
<1>2. IsFiniteSet(T) /\ Cardinality(T) = n - 1
  BY FS_RemoveElement
<1>3. ExistsBijection(1 .. n - 1, T)
  BY <1>2, FS_CardinalityType
<1>4. PICK f \in [1 .. n - 1 -> T] : \A i, j \in 1 .. n - 1 : f[i] = f[j] => i = j
  BY <1>3 DEF ExistsBijection, Bijection, Injection, IsInjective
<1> DEFINE order == [i \in 1 .. n |-> IF i = 1 THEN s ELSE f[i - 1]]
<1>5. ASSUME NEW i \in 1 .. n
      PROVE  /\ order[i] \in S
             /\ i # 1 => i - 1 \in 1 .. n - 1 /\ order[i] = f[i - 1] /\ order[i] # s
  BY <1>1, <1>4
<1>6. \A i, j \in 1 .. n : i # j => order[i] # order[j]
  <2> SUFFICES ASSUME NEW i \in 1 .. n, NEW j \in 1 .. n, i # j, order[i] = order[j]
               PROVE  FALSE
    OBVIOUS
  <2>1. i # 1 /\ j # 1
    BY <1>5
  <2>2. f[i - 1] = f[j - 1] /\ i - 1 \in 1 .. n - 1 /\ j - 1 \in 1 .. n - 1
    BY <1>5, <2>1
  <2>3. i - 1 = j - 1
    BY <1>4, <2>2
  <2> QED
    BY <2>3
<1>7. order \in SetToSeqs(S) /\ order[1] = s
  BY <1>1, <1>5, <1>6 DEF SetToSeqs
<1> QED
  BY <1>7

\* Somebody is chosen, unless nobody has reported.
LEMMA ChoicesExist ==
  ASSUME NEW m, NEW resource, IsFiniteSet(DOMAIN m), DOMAIN m # {},
         \A s \in DOMAIN m : Rate(m, resource)[s] \in Rates
  PROVE  ScheduleChoices(m, resource) # {}
<1> DEFINE R == Rate(m, resource)
           S == DOMAIN m
<1>1. PICK order \in SetToSeqs(S) : TRUE
  BY OrderFrom
<1>2. DOMAIN R = S
  BY DEF Rate
<1>3. Covers(order, R)
  BY <1>2, OrderCovers DEF Covers
<1>4. Below(R) # {} => Lowest(R) # {}
  BY <1>3, LoopResult
<1> HIDE DEF R
<1> QED
  BY <1>4, ChoicesAre DEF R

(***************************************************************************)
(* What the policy makes of the maps that reports build.                   *)
(***************************************************************************)
StatsMap ==
  /\ stats = [s \in DOMAIN stats |-> stats[s]]
  /\ IsFiniteSet(DOMAIN stats)
  /\ \A s \in DOMAIN stats : stats[s] \in Seq(Windows)

LEMMA ProstNanos ==
  ASSUME NEW t \in Int
  PROVE  DatetimeToProst(t).nanos \in Int /\ DatetimeToProst(t).seconds \in Int
<1>1. NanosPerSecond \in Nat \ {0}
  BY TimeUnits
<1>2. t \div NanosPerSecond \in Int /\ t % NanosPerSecond \in Int
  BY <1>1
<1>3. (t \div NanosPerSecond) % 60 \in Int
  BY <1>2
<1> QED
  BY <1>2, <1>3 DEF DatetimeToProst

LEMMA RadeonMeasured ==
  ASSUME NEW t \in Int, NEW gpu \in Int
  PROVE  Measured(RadeonWindow(t, gpu))
<1>1. t + NanosPerSecond \in Int
  BY TimeUnits
<1> QED
  BY <1>1, ProstNanos DEF Measured, RadeonWindow

LEMMA AppleMeasured ==
  ASSUME NEW t \in Int, NEW elapsed \in Int, NEW gpu \in Int
  PROVE  Measured(AppleWindow(t, elapsed, gpu))
<1>1. t - elapsed \in Int
  OBVIOUS
<1> QED
  BY <1>1, ProstNanos DEF Measured, AppleWindow

LEMMA WindowsMeasured ==
  ASSUME NEW w \in Windows
  PROVE  Measured(w)
<1>1. 60 * NanosPerSecond - 1 \in Int /\ NanosPerSecond - 1 \in Int /\ NanosPerSecond + 1 \in Int
  BY TimeUnits
<1>2. CASE w \in RadeonWindows
  BY <1>1, <1>2, RadeonMeasured DEF RadeonWindows
<1>3. CASE w \in AppleWindows
  BY <1>1, <1>3, AppleMeasured DEF AppleWindows
<1>4. CASE w \in CpuWindows
  <2> DEFINE v == AppleWindow(NanosPerSecond - 1, 2, 50)
  <2>1. Measured(v)
    BY <1>1, AppleMeasured
  <2>2. w = [v EXCEPT !.cpu = 90]
    BY <1>4 DEF CpuWindows
  <2>3. w.start = v.start /\ w.end = v.end /\ w.cpu = 90 /\ w.gpu = v.gpu
    BY <2>2 DEF AppleWindow
  <2> QED
    BY <2>1, <2>3 DEF Measured
<1> QED
  BY <1>2, <1>3, <1>4 DEF Windows

LEMMA StatsAreMaps == Spec => []StatsMap
<1>1. Init => StatsMap
  BY FS_EmptySet DEF Init, StatsMap, EmptyMap
<1>2. ASSUME StatsMap, [Next]_stats
      PROVE  StatsMap'
  <2>1. CASE Forget
    BY <2>1, FS_EmptySet DEF Forget, StatsMap, EmptyMap
  <2>2. ASSUME NEW s \in Servers, NEW w \in Windows, Report(s, w)
        PROVE  StatsMap'
    <3> DEFINE before == IF s \in DOMAIN stats THEN stats[s] ELSE <<>>
    <3>1. before \in Seq(Windows)
      BY <1>2 DEF StatsMap
    <3>2. Append(before, w) \in Seq(Windows)
      BY <3>1
    <3> DEFINE after == Append(before, w)
    <3>3. stats' = [x \in DOMAIN stats \cup {s} |-> IF x = s THEN after ELSE stats[x]]
      BY <2>2 DEF Report, Put
    <3> HIDE DEF after
    <3>4. DOMAIN stats' = DOMAIN stats \cup {s}
      BY <3>3
    <3>5. IsFiniteSet(DOMAIN stats')
      BY <1>2, <3>4, FS_AddElement DEF StatsMap
    <3>6. \A x \in DOMAIN stats' : stats'[x] \in Seq(Windows)
      BY <1>2, <3>2, <3>3 DEF StatsMap, after
    <3> QED
      BY <3>3, <3>4, <3>5, <3>6 DEF StatsMap
  <2>3. CASE UNCHANGED stats
    BY <1>2, <2>3 DEF StatsMap
  <2> QED
    BY <1>2, <2>1, <2>2, <2>3 DEF Next
<1> QED
  BY <1>1, <1>2, PTL DEF Spec

LEMMA StatsRated ==
  ASSUME StatsMap, NEW resource \in {"cpu", "gpu"}
  PROVE  \A s \in DOMAIN stats : Rate(stats, resource)[s] \in Rates
<1> SUFFICES ASSUME NEW s \in DOMAIN stats
             PROVE  UtilizedRate(stats[s], resource) \in Rates
  BY DEF Rate
<1>1. stats[s] \in Seq(Windows)
  BY DEF StatsMap
<1>2. /\ Len(stats[s]) \in Nat /\ DOMAIN stats[s] = 1 .. Len(stats[s])
      /\ \A i \in 1 .. Len(stats[s]) : stats[s][i] \in Windows
  BY <1>1
<1> QED
  BY <1>2, WindowsMeasured, RateType

\* The closed form is exactly what the loop returns, over all orders in which
\* a map can be iterated, for any number of servers and windows.
THEOREM LoopMatchesChoicesAlways == Spec => []LoopMatchesChoices
<1>1. ASSUME StatsMap
      PROVE  LoopMatchesChoices
  <2> SUFFICES ASSUME NEW resource \in {"cpu", "gpu"}
               PROVE  ScheduleChoices(stats, resource) =
                        {ScheduleLoop(stats, resource, order) :
                           order \in IF DOMAIN stats = {} THEN {} ELSE SetToSeqs(DOMAIN stats)}
    BY DEF LoopMatchesChoices
  <2> DEFINE R == Rate(stats, resource)
             S == DOMAIN stats
  <2>1. DOMAIN R = S /\ \A s \in S : R[s] \in Rates
    BY <1>1, StatsRated DEF Rate
  <2>2. ScheduleChoices(stats, resource) = IF Below(R) = {} THEN S ELSE Lowest(R)
    BY <2>1, ChoicesAre
  <2>3. Below(R) \subseteq S /\ Lowest(R) \subseteq S
    BY <2>1 DEF Below, Lowest
  <2>4. CASE S = {}
    <3> HIDE DEF R
    <3> QED
      BY <2>2, <2>3, <2>4
  <2>5. CASE S # {}
    <3>1. ASSUME NEW order \in SetToSeqs(S)
          PROVE  Covers(order, R) /\ order[1] \in S
      <4>1. IsFiniteSet(S)
        BY <1>1 DEF StatsMap
      <4>2. /\ Len(order) \in Nat \ {0}
            /\ \A i \in 1 .. Len(order) : order[i] \in S
            /\ \A s \in S : \E i \in 1 .. Len(order) : order[i] = s
        BY <2>5, <4>1, OrderCovers
      <4>3. Covers(order, R)
        BY <2>1, <4>2 DEF Covers
      <4>4. order[1] \in S
        BY <4>2
      <4> QED
        BY <4>3, <4>4
    <3>2. ASSUME NEW order \in SetToSeqs(S)
          PROVE  ScheduleLoop(stats, resource, order) \in ScheduleChoices(stats, resource)
      <4>1. IF Below(R) = {}
            THEN ScheduleLoop(stats, resource, order) = order[1]
            ELSE ScheduleLoop(stats, resource, order) \in Lowest(R)
        BY <2>1, <3>1, LoopResult
      <4> HIDE DEF R
      <4> QED
        BY <2>2, <3>1, <4>1
    <3>3. ASSUME NEW s \in ScheduleChoices(stats, resource)
          PROVE  \E order \in SetToSeqs(S) : ScheduleLoop(stats, resource, order) = s
      <4>1. s \in S /\ IsFiniteSet(S)
        BY <1>1, <2>2, <2>3, <3>3 DEF StatsMap
      <4>2. PICK order \in SetToSeqs(S) : order[1] = s
        BY <4>1, OrderFrom
      <4>3. CASE Below(R) = {}
        BY <2>1, <3>1, <4>2, <4>3, LoopResult
      <4>4. CASE Below(R) # {}
        <5>1. order[1] \in Lowest(R)
          BY <2>2, <3>3, <4>2, <4>4
        <5> QED
          BY <2>1, <3>1, <4>2, <5>1, LowestStays
      <4> QED
        BY <4>3, <4>4
    <3> HIDE DEF R
    <3> QED
      BY <2>5, <3>2, <3>3
  <2> QED
    BY <2>4, <2>5
<1> QED
  BY <1>1, StatsAreMaps, PTL
=============================================================================
