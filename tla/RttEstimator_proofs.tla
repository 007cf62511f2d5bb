------------------------ MODULE RttEstimator_proofs ------------------------
(***************************************************************************)
(* Proofs about RttEstimator, for every set of configurations and samples. *)
(***************************************************************************)
EXTENDS RttEstimator, TLAPS

(***************************************************************************)
(* What rounding does                                                      *)
(***************************************************************************)

\* Integer division rounds down.
LEMMA DivBounds ==
    ASSUME NEW a \in Int, NEW b \in Nat, b > 0
    PROVE  /\ a \div b \in Int
           /\ b * (a \div b) <= a
           /\ a < b * (a \div b) + b
<1>1. a \div b \in Int
  BY SMT
<1>2. b * (a \div b) <= a
  BY SMT
<1>3. a < b * (a \div b) + b
  BY SMT
<1> QED
  BY <1>1, <1>2, <1>3

\* The product of a difference and a gain, rounded down, is an integer at most
\* one below the product.
LEMMA FloorBounds ==
    ASSUME NEW g, IsGain(g), NEW x \in Int
    PROVE  /\ Floor(x, g) \in Int
           /\ g.den * Floor(x, g) <= x * g.num
           /\ x * g.num < g.den * Floor(x, g) + g.den
<1>1. g.num \in Nat /\ g.den \in Nat /\ g.den > 0
  BY DEF IsGain
<1>2. x * g.num \in Int
  BY <1>1
<1> QED
  BY <1>1, <1>2, DivBounds DEF Floor

\* A gain takes a non-negative difference to a part of it.
LEMMA FloorPositive ==
    ASSUME NEW g, IsGain(g), NEW x \in Nat
    PROVE  Floor(x, g) \in 0..x
<1> DEFINE q == Floor(x, g)
<1>1. g.num \in Nat /\ g.den \in Nat /\ g.den > 0 /\ g.num <= g.den
  BY DEF IsGain
<1>2. q \in Int /\ g.den * q <= x * g.num /\ x * g.num < g.den * q + g.den
  BY FloorBounds
<1> HIDE DEF q
<1>3. 0 <= x * g.num /\ x * g.num <= x * g.den
  BY <1>1
<1>4. q >= 0
  <2> SUFFICES ASSUME q <= -1 PROVE FALSE
    BY <1>2
  <2>1. g.den * q <= g.den * (-1)
    BY <1>1, <1>2
  <2> QED
    BY <1>1, <1>2, <1>3, <2>1
<1>5. q <= x
  <2> SUFFICES ASSUME q >= x + 1 PROVE FALSE
    BY <1>2
  <2>1. g.den * (x + 1) <= g.den * q
    BY <1>1, <1>2
  <2> QED
    BY <1>1, <1>2, <1>3, <2>1
<1> QED
  BY <1>2, <1>4, <1>5 DEF q

\* A gain takes a negative difference to a part of it.
LEMMA FloorNegative ==
    ASSUME NEW g, IsGain(g), NEW x \in Int, x <= 0
    PROVE  Floor(x, g) \in x..0
<1> DEFINE q == Floor(x, g)
<1>1. g.num \in Nat /\ g.den \in Nat /\ g.den > 0 /\ g.num <= g.den
  BY DEF IsGain
<1>2. q \in Int /\ g.den * q <= x * g.num /\ x * g.num < g.den * q + g.den
  BY FloorBounds
<1> HIDE DEF q
<1>3. x * g.num <= 0 /\ x * g.den <= x * g.num
  BY <1>1
<1>4. q <= 0
  <2> SUFFICES ASSUME q >= 1 PROVE FALSE
    BY <1>2
  <2>1. g.den * 1 <= g.den * q
    BY <1>1, <1>2
  <2> QED
    BY <1>1, <1>2, <1>3, <2>1
<1>5. q >= x
  <2> SUFFICES ASSUME q <= x - 1 PROVE FALSE
    BY <1>2
  <2>1. g.den * q <= g.den * (x - 1)
    BY <1>1, <1>2
  <2> QED
    BY <1>1, <1>2, <1>3, <2>1
<1> QED
  BY <1>2, <1>4, <1>5 DEF q

\* Rounding up and rounding down both stay between zero and the difference.
LEMMA Rounded ==
    ASSUME NEW g, IsGain(g), NEW x \in Int, NEW r \in {Floor(x, g), Ceiling(x, g)}
    PROVE  /\ r \in Int
           /\ x >= 0 => r \in 0..x
           /\ x <= 0 => r \in x..0
<1>1. CASE r = Floor(x, g)
  BY <1>1, FloorPositive, FloorNegative, FloorBounds
<1>2. CASE r = Ceiling(x, g)
  <2>1. - x \in Int
    OBVIOUS
  <2>2. Floor(- x, g) \in Int
    BY <2>1, FloorBounds
  <2>3. x >= 0 => Floor(- x, g) \in - x .. 0
    BY <2>1, FloorNegative
  <2>4. x <= 0 => Floor(- x, g) \in 0 .. - x
    BY <2>1, FloorPositive
  <2> QED
    BY <1>2, <2>2, <2>3, <2>4 DEF Ceiling
<1> QED
  BY <1>1, <1>2

\* A gain of at least a quarter, taken four times, leaves at most three ticks of
\* a difference away.
LEMMA QuarterBounds ==
    ASSUME NEW g, IsGain(g), g.den <= 4 * g.num,
           NEW x \in Nat, NEW r \in {Floor(x, g), Ceiling(x, g)}
    PROVE  4 * r >= x - 3
<1>1. g.num \in Nat /\ g.den \in Nat /\ g.den > 0
  BY DEF IsGain
<1>2. r \in Int /\ x \in Int
  BY Rounded
<1>3. x * g.den <= 4 * (x * g.num)
  <2>1. PICK k \in Nat : 4 * g.num = g.den + k
    <3>1. 4 * g.num - g.den \in Nat
      BY <1>1
    <3> QED
      BY <1>1, <3>1
  <2>2. x * (4 * g.num) = x * g.den + x * k
    BY <1>1, <2>1
  <2>3. x * k \in Nat /\ x * g.den \in Nat /\ x * (4 * g.num) = 4 * (x * g.num)
    BY <1>1
  <2> QED
    BY <2>2, <2>3
<1>4. x * g.num < g.den * r + g.den
  <2>1. CASE r = Floor(x, g)
    BY <1>2, <2>1, FloorBounds
  <2>2. CASE r = Ceiling(x, g)
    <3>1. - x \in Int
      OBVIOUS
    <3>2. Floor(- x, g) \in Int /\ g.den * Floor(- x, g) <= (- x) * g.num
      BY <3>1, FloorBounds
    <3>3. g.den * Floor(- x, g) = - (g.den * r) /\ (- x) * g.num = - (x * g.num)
      BY <1>1, <2>2, <3>2 DEF Ceiling
    <3> QED
      BY <1>1, <1>2, <3>2, <3>3
  <2> QED
    BY <2>1, <2>2
<1> SUFFICES ASSUME 4 * r + 4 <= x PROVE FALSE
  BY <1>2
<1>5. g.den * (4 * r + 4) <= g.den * x
  <2>1. PICK k \in Nat : x = (4 * r + 4) + k
    BY <1>2
  <2>2. g.den * x = g.den * (4 * r + 4) + g.den * k
    BY <1>1, <1>2, <2>1
  <2>3. g.den * k \in Nat /\ g.den * (4 * r + 4) \in Int
    BY <1>1, <1>2
  <2> QED
    BY <2>2, <2>3
<1>6. g.den * (4 * r + 4) = 4 * (g.den * r + g.den) /\ g.den * x = x * g.den
  BY <1>1, <1>2
<1>7. g.den * r \in Int /\ x * g.num \in Int
  BY <1>1, <1>2
<1> QED
  BY <1>1, <1>3, <1>4, <1>5, <1>6, <1>7

\* Above the clock granularity, the estimate gains at least three ticks.
LEMMA ThreeTicks ==
    ASSUME NEW g, IsGain(g), NEW G \in Nat, 3 * g.den <= G * g.num,
           NEW x \in Nat, x >= G, NEW r \in {Floor(x, g), Ceiling(x, g)}
    PROVE  r >= 3
<1>1. g.num \in Nat /\ g.den \in Nat /\ g.den > 0
  BY DEF IsGain
<1>2. r \in Int /\ x \in Int
  BY Rounded
<1>3. 3 * g.den <= x * g.num
  <2>1. PICK k \in Nat : x = G + k
    <3>1. x - G \in Nat
      OBVIOUS
    <3> QED
      BY <3>1
  <2>2. x * g.num = G * g.num + k * g.num
    BY <1>1, <2>1
  <2>3. k * g.num \in Nat /\ G * g.num \in Nat
    BY <1>1
  <2> QED
    BY <1>1, <2>2, <2>3
<1>4. x * g.num < g.den * r + g.den
  <2>1. CASE r = Floor(x, g)
    BY <1>2, <2>1, FloorBounds
  <2>2. CASE r = Ceiling(x, g)
    <3>1. - x \in Int
      OBVIOUS
    <3>2. Floor(- x, g) \in Int /\ g.den * Floor(- x, g) <= (- x) * g.num
      BY <3>1, FloorBounds
    <3>3. g.den * Floor(- x, g) = - (g.den * r) /\ (- x) * g.num = - (x * g.num)
      BY <1>1, <2>2, <3>2 DEF Ceiling
    <3> QED
      BY <1>1, <1>2, <3>2, <3>3
  <2> QED
    BY <2>1, <2>2
<1> SUFFICES ASSUME r <= 2 PROVE FALSE
  BY <1>2
<1>5. g.den * r <= g.den * 2
  <2>1. PICK k \in Nat : 2 = r + k
    BY <1>2
  <2>2. g.den * 2 = g.den * r + g.den * k
    BY <1>1, <1>2, <2>1
  <2>3. g.den * k \in Nat /\ g.den * r \in Int
    BY <1>1, <1>2
  <2> QED
    BY <2>2, <2>3
<1>6. x * g.num \in Int /\ g.den * r \in Int
  BY <1>1, <1>2
<1> QED
  BY <1>1, <1>3, <1>4, <1>5, <1>6

(***************************************************************************)
(* The inductive invariant                                                 *)
(***************************************************************************)

\* What is remembered of the samples is consistent with itself.
UsedConsistent ==
    IF used.count = 0 THEN used = NoSamples
    ELSE used.last \in used.least .. used.greatest

\* RttMeanDeviation counts its samples and the weighted median none of them,
\* which leaves it with its last sample.
SamplesByClass ==
    IF estimator.class = "RttMeanDeviation" THEN nSamples = used.count
    ELSE /\ nSamples = 0
         /\ used.count > 0 => /\ estimatedRtt = used.last
                              /\ estimatedVariation = used.last \div 2

IInv ==
    /\ TypeOK
    /\ UsedConsistent
    /\ SamplesByClass
    /\ EstimateWithinSamples
    /\ VariationBounded
    /\ RtoCoversLastSample

\* The history of a measurement m.
UsedAfter(m) ==
    [count |-> used.count + 1,
     least |-> IF used.count = 0 THEN m ELSE Lesser(used.least, m),
     greatest |-> Bigger(used.greatest, m),
     last |-> m]

\* The timeout covers both the estimate with its variation and the estimate
\* with the clock granularity.
LEMMA RtoBounds ==
    ASSUME TypeOK', ~ estimator'.weightedRto
    PROVE  /\ Rto' \in Nat
           /\ Rto' >= estimatedRtt' + ClockGranularity
           /\ Rto' >= estimatedRtt' + 4 * estimatedVariation'
<1>1. ClockGranularity \in Nat /\ MinRto \in Nat
  BY RttAssumption
<1>2. estimatedRtt' \in Nat /\ estimatedVariation' \in Nat
  BY DEF TypeOK
<1>3. Rto' = Bigger(Rfc6298Rto', MinRto)
  BY DEF Rto
<1>4. Rfc6298Rto' = estimatedRtt' + Bigger(ClockGranularity, estimatedVariation' * 4)
  BY DEF Rfc6298Rto
<1>5. ASSUME NEW a \in Nat, NEW v \in Nat, NEW g \in Nat, NEW low \in Nat
      PROVE  LET rto == Bigger(a + Bigger(g, v * 4), low)
             IN  rto \in Nat /\ rto >= a + g /\ rto >= a + 4 * v
  BY DEF Bigger
<1> QED
  BY <1>1, <1>2, <1>3, <1>4, <1>5, Zenon

LEMMA InitEstablishes == Init => IInv
<1> SUFFICES ASSUME Init PROVE IInv
  OBVIOUS
<1>1. TypeOK
  BY RttAssumption DEF Init, TypeOK, NoSamples
<1> QED
  BY <1>1 DEF Init, IInv, UsedConsistent, SamplesByClass, NoSamples,
     EstimateWithinSamples, VariationBounded, RtoCoversLastSample

\* After the first sample, the estimator knows nothing but that sample.
LEMMA FirstSamplePreserves ==
    ASSUME IInv, NEW m \in Samples, FirstSample(m), UNCHANGED estimator,
           used' = UsedAfter(m), nSamples = 0,
           nSamples' = IF estimator.class = "RttMeanDeviation" THEN 1 ELSE 0
    PROVE  IInv'
<1>1. m \in Nat /\ m > 0
  BY RttAssumption
<1>2. /\ estimator \in Estimators /\ estimatedRtt \in Nat /\ estimatedVariation \in Nat
      /\ used \in [count : Nat, least : Nat, greatest : Nat, last : Nat]
  BY DEF IInv, TypeOK
<1>3. /\ used.count \in Nat /\ used.least \in Nat
      /\ used.greatest \in Nat /\ used.last \in Nat
  BY <1>2
<1>4. m \div 2 \in Nat /\ m \div 2 <= m
  BY <1>1
<1>5. /\ used'.count = used.count + 1 /\ used'.last = m
      /\ used'.least = IF used.count = 0 THEN m ELSE Lesser(used.least, m)
      /\ used'.greatest = Bigger(used.greatest, m)
  BY DEF UsedAfter
<1>6. estimatedRtt' = m /\ estimatedVariation' = m \div 2
  BY DEF FirstSample
<1>7. /\ used'.least \in Nat /\ used'.least <= m
      /\ used'.greatest \in Nat /\ used'.greatest >= m
  BY <1>1, <1>3, <1>5 DEF Lesser, Bigger
<1>8. used' \in [count : Nat, least : Nat, greatest : Nat, last : Nat]
  BY <1>1, <1>3, <1>5, <1>7 DEF UsedAfter
<1>9. TypeOK'
  BY <1>1, <1>2, <1>4, <1>6, <1>8 DEF TypeOK
<1>10. UsedConsistent' /\ EstimateWithinSamples'
  BY <1>1, <1>3, <1>5, <1>6, <1>7 DEF UsedConsistent, EstimateWithinSamples
<1>11. SamplesByClass'
  <2>1. CASE estimator.class = "RttMeanDeviation"
    <3>1. used.count = 0
      BY <2>1 DEF IInv, SamplesByClass
    <3> QED
      BY <2>1, <3>1, <1>5 DEF SamplesByClass
  <2>2. CASE estimator.class # "RttMeanDeviation"
    BY <2>2, <1>5, <1>6 DEF SamplesByClass
  <2> QED
    BY <2>1, <2>2
<1>12. VariationBounded'
  <2>1. m \div 2 <= used'.greatest \div 2
    BY <1>1, <1>7
  <2>2. used'.greatest \div 2 \in Nat
    BY <1>7
  <2> QED
    BY <1>4, <1>6, <1>7, <2>1, <2>2 DEF VariationBounded, Bigger
<1>13. RtoCoversLastSample'
  <2> SUFFICES ASSUME Covers(estimator)' PROVE Rto' >= used'.last
    BY DEF RtoCoversLastSample
  <2>1. ~ estimator'.weightedRto
    BY DEF Covers
  <2>2. Rto' \in Nat /\ Rto' >= estimatedRtt' + ClockGranularity
    BY <1>9, <2>1, RtoBounds
  <2> QED
    BY <1>1, <1>5, <1>6, <2>2, RttAssumption
<1> QED
  BY <1>9, <1>10, <1>11, <1>12, <1>13 DEF IInv

\* Both ways of updating add a rounded part of each difference.
LEMMA UpdateParts ==
    ASSUME TypeOK, NEW m \in Samples, IntegerUpdate(m) \/ FloatingPointUpdate(m)
    PROVE  \E r \in {Floor(m - estimatedRtt, estimator.alpha),
                     Ceiling(m - estimatedRtt, estimator.alpha)},
              s \in {Floor(Distance(m, estimatedRtt) - estimatedVariation, estimator.beta),
                     Ceiling(Distance(m, estimatedRtt) - estimatedVariation, estimator.beta)} :
              /\ estimatedRtt' = estimatedRtt + r
              /\ estimatedVariation' = estimatedVariation + s
<1>1. CASE IntegerUpdate(m)
  BY <1>1, Zenon DEF IntegerUpdate
<1>2. CASE FloatingPointUpdate(m)
  BY <1>2 DEF FloatingPointUpdate
<1> QED
  BY <1>1, <1>2

\* An update moves the estimate towards the sample, and the variation towards
\* the sample's distance from the estimate, and neither past it.
LEMMA UpdateBetween ==
    ASSUME TypeOK, NEW m \in Samples, IntegerUpdate(m) \/ FloatingPointUpdate(m)
    PROVE  /\ estimatedRtt' \in Lesser(estimatedRtt, m) .. Bigger(estimatedRtt, m)
           /\ estimatedVariation' \in
                Lesser(estimatedVariation, Distance(m, estimatedRtt)) ..
                Bigger(estimatedVariation, Distance(m, estimatedRtt))
<1> DEFINE d == m - estimatedRtt
           D == Distance(m, estimatedRtt) - estimatedVariation
<1>1. m \in Nat /\ estimatedRtt \in Nat /\ estimatedVariation \in Nat
  BY RttAssumption DEF TypeOK
<1>2. IsGain(estimator.alpha) /\ IsGain(estimator.beta)
  BY RttAssumption DEF TypeOK
<1>3. d \in Int /\ D \in Int /\ Distance(m, estimatedRtt) \in Nat
  BY <1>1 DEF Distance
<1>4. PICK r \in {Floor(d, estimator.alpha), Ceiling(d, estimator.alpha)},
           s \in {Floor(D, estimator.beta), Ceiling(D, estimator.beta)} :
           /\ estimatedRtt' = estimatedRtt + r
           /\ estimatedVariation' = estimatedVariation + s
  BY UpdateParts
<1> HIDE DEF D
<1>5. s \in Int /\ (D >= 0 => s \in 0..D) /\ (D <= 0 => s \in D..0)
  BY <1>2, <1>3, <1>4, Rounded
<1> HIDE DEF d
<1>6. r \in Int /\ (d >= 0 => r \in 0..d) /\ (d <= 0 => r \in d..0)
  BY <1>2, <1>3, <1>4, Rounded
<1>7. estimatedRtt' \in Lesser(estimatedRtt, m) .. Bigger(estimatedRtt, m)
  BY <1>1, <1>3, <1>4, <1>6 DEF d, Lesser, Bigger
<1>8. estimatedVariation' \in
                Lesser(estimatedVariation, Distance(m, estimatedRtt)) ..
                Bigger(estimatedVariation, Distance(m, estimatedRtt))
  BY <1>1, <1>3, <1>4, <1>5 DEF D, Lesser, Bigger
<1> QED
  BY <1>7, <1>8

\* What an update leaves is enough for the timeout to reach the sample.
LEMMA UpdateCovers ==
    ASSUME TypeOK, NEW m \in Samples, IntegerUpdate(m) \/ FloatingPointUpdate(m),
           TypeOK', UNCHANGED estimator, Covers(estimator)
    PROVE  Rto' >= m
<1> DEFINE d == m - estimatedRtt
           D == Distance(m, estimatedRtt) - estimatedVariation
<1>1. /\ m \in Nat /\ estimatedRtt \in Nat /\ estimatedVariation \in Nat
      /\ estimatedRtt' \in Nat /\ estimatedVariation' \in Nat /\ ClockGranularity \in Nat
  BY RttAssumption DEF TypeOK
<1>2. /\ IsGain(estimator.alpha) /\ IsGain(estimator.beta)
      /\ ~ estimator.weightedRto
      /\ estimator.beta.den <= 4 * estimator.beta.num
      /\ 3 * estimator.alpha.den <= ClockGranularity * estimator.alpha.num
  BY RttAssumption DEF TypeOK, Covers
<1>3. /\ Rto' \in Nat
      /\ Rto' >= estimatedRtt' + ClockGranularity
      /\ Rto' >= estimatedRtt' + 4 * estimatedVariation'
  <2>1. ~ estimator'.weightedRto
    BY <1>2
  <2> QED
    BY <2>1, RtoBounds
<1>4. estimatedRtt' \in Lesser(estimatedRtt, m) .. Bigger(estimatedRtt, m)
  BY UpdateBetween
<1>5. CASE m <= estimatedRtt + ClockGranularity
  <2>1. \A e, rto \in Nat :
            /\ e \in Lesser(estimatedRtt, m) .. Bigger(estimatedRtt, m)
            /\ rto >= e + ClockGranularity
            => rto >= m
    BY <1>1, <1>5 DEF Lesser, Bigger
  <2> QED
    BY <1>1, <1>3, <1>4, <2>1, Zenon
<1>6. CASE m > estimatedRtt + ClockGranularity
  <2>1. d \in Nat /\ d >= ClockGranularity /\ D \in Int /\ D = d - estimatedVariation
    BY <1>1, <1>6 DEF Distance
  <2>2. PICK r \in {Floor(d, estimator.alpha), Ceiling(d, estimator.alpha)},
             s \in {Floor(D, estimator.beta), Ceiling(D, estimator.beta)} :
             /\ estimatedRtt' = estimatedRtt + r
             /\ estimatedVariation' = estimatedVariation + s
    BY UpdateParts
  <2> HIDE DEF d, D
  <2>3. r >= 3 /\ r \in Int
    <3>1. r \in Int
      BY <1>2, <2>1, <2>2, Rounded
    <3>2. r >= 3
      BY <1>1, <1>2, <2>1, <2>2, ThreeTicks
    <3> QED
      BY <3>1, <3>2
  <2>4. s \in Int /\ (D <= 0 => s >= D)
    BY <1>2, <2>1, <2>2, Rounded
  <2>5. 4 * s >= D - 3 \/ D <= 0
    <3>1. CASE D \in Nat
      BY <1>2, <2>2, <3>1, QuarterBounds
    <3> QED
      BY <2>1, <3>1
  <2>6. 4 * estimatedVariation' >= d - 3
    BY <1>1, <2>1, <2>2, <2>4, <2>5
  <2> QED
    BY <1>1, <1>3, <2>1, <2>2, <2>3, <2>6 DEF d
<1> QED
  BY <1>1, <1>5, <1>6

\* An update, which only RttMeanDeviation makes, preserves the invariant.
LEMMA UpdatePreserves ==
    ASSUME IInv, NEW m \in Samples, IntegerUpdate(m) \/ FloatingPointUpdate(m),
           UNCHANGED estimator, used' = UsedAfter(m), nSamples' = nSamples + 1,
           estimator.class = "RttMeanDeviation", nSamples # 0
    PROVE  IInv'
<1> DEFINE l == used.least
           g == used.greatest
<1>1. /\ m \in Nat /\ estimatedRtt \in Nat /\ estimatedVariation \in Nat
      /\ nSamples \in Nat /\ estimator \in Estimators
      /\ used \in [count : Nat, least : Nat, greatest : Nat, last : Nat]
  BY RttAssumption DEF IInv, TypeOK
<1>2. used.count \in Nat /\ l \in Nat /\ g \in Nat
  BY <1>1
<1>3. used.count = nSamples /\ used.count > 0
  BY <1>1 DEF IInv, SamplesByClass
<1>4. /\ estimatedRtt \in l .. g
      /\ estimatedVariation <= Bigger(g - l, g \div 2)
  BY <1>3 DEF IInv, EstimateWithinSamples, VariationBounded
<1>5. /\ used'.count = used.count + 1 /\ used'.last = m
      /\ used'.least = Lesser(l, m) /\ used'.greatest = Bigger(g, m)
  BY <1>2, <1>3 DEF UsedAfter
<1>6. /\ estimatedRtt' \in Lesser(estimatedRtt, m) .. Bigger(estimatedRtt, m)
      /\ estimatedVariation' \in
            Lesser(estimatedVariation, Distance(m, estimatedRtt)) ..
            Bigger(estimatedVariation, Distance(m, estimatedRtt))
  BY UpdateBetween DEF IInv
<1> HIDE DEF l, g
<1>7. estimatedRtt' \in Nat /\ estimatedVariation' \in Nat
  BY <1>1, <1>6 DEF Lesser, Bigger, Distance
<1>8. TypeOK'
  <2>1. used' \in [count : Nat, least : Nat, greatest : Nat, last : Nat]
    BY <1>1, <1>2, <1>3, <1>5 DEF UsedAfter, Lesser, Bigger, l, g
  <2> QED
    BY <1>1, <1>7, <2>1 DEF TypeOK
<1>9. UsedConsistent'
  <2>1. used'.count # 0
    BY <1>2, <1>5
  <2>2. m \in Lesser(l, m) .. Bigger(g, m)
    BY <1>1, <1>2 DEF Lesser, Bigger
  <2> QED
    BY <1>5, <2>1, <2>2 DEF UsedConsistent
<1>10. SamplesByClass'
  BY <1>3, <1>5 DEF SamplesByClass
<1>11. EstimateWithinSamples'
  <2>1. \A e \in Lesser(estimatedRtt, m) .. Bigger(estimatedRtt, m) :
            e \in Lesser(l, m) .. Bigger(g, m)
    BY <1>1, <1>2, <1>4 DEF Lesser, Bigger
  <2> QED
    BY <1>5, <1>6, <2>1 DEF EstimateWithinSamples
<1>12. VariationBounded'
  <2> DEFINE L == Lesser(l, m)
             H == Bigger(g, m)
  <2>1. L \in Nat /\ H \in Nat /\ L <= l /\ g <= H /\ L <= m /\ m <= H
    BY <1>1, <1>2 DEF Lesser, Bigger
  <2>2. g \div 2 \in Nat /\ H \div 2 \in Nat /\ g \div 2 <= H \div 2
    BY <1>2, <2>1
  <2> HIDE DEF L, H
  <2>3. estimatedVariation <= Bigger(H - L, H \div 2)
    BY <1>1, <1>2, <1>4, <2>1, <2>2 DEF Bigger
  <2>4. Distance(m, estimatedRtt) \in Nat /\ Distance(m, estimatedRtt) <= H - L
    BY <1>1, <1>2, <1>4, <2>1 DEF Distance
  <2>5. \A v \in Lesser(estimatedVariation, Distance(m, estimatedRtt)) ..
                Bigger(estimatedVariation, Distance(m, estimatedRtt)) :
            v <= Bigger(H - L, H \div 2)
    BY <1>1, <2>1, <2>2, <2>3, <2>4 DEF Lesser, Bigger
  <2>6. estimatedVariation' <= Bigger(H - L, H \div 2)
    BY <1>6, <2>5
  <2> QED
    BY <1>5, <2>6 DEF VariationBounded, L, H
<1>13. RtoCoversLastSample'
  <2> SUFFICES ASSUME Covers(estimator)' PROVE Rto' >= used'.last
    BY DEF RtoCoversLastSample
  <2>1. Covers(estimator)
    BY DEF Covers
  <2>2. TypeOK
    BY DEF IInv
  <2> QED
    BY <1>5, <1>8, <2>1, <2>2, UpdateCovers
<1> QED
  BY <1>8, <1>9, <1>10, <1>11, <1>12, <1>13 DEF IInv

LEMMA MeasurementPreserves ==
    ASSUME IInv, NEW m \in Samples, Measurement(m)
    PROVE  IInv'
<1>1. used' = UsedAfter(m) /\ UNCHANGED estimator
  BY DEF Measurement, UsedAfter
<1>2. nSamples \in Nat
  BY DEF IInv, TypeOK
<1>3. CASE estimator.class = "RttMeanDeviation" /\ nSamples = 0
  <2>1. FirstSample(m) /\ nSamples' = 1
    BY <1>3 DEF Measurement, MeanDeviationUpdate
  <2> QED
    BY <1>1, <1>3, <2>1, FirstSamplePreserves
<1>4. CASE estimator.class = "RttMeanDeviation" /\ nSamples # 0
  <2>1. (IntegerUpdate(m) \/ FloatingPointUpdate(m)) /\ nSamples' = nSamples + 1
    BY <1>4 DEF Measurement, MeanDeviationUpdate
  <2> QED
    BY <1>1, <1>4, <2>1, UpdatePreserves
<1>5. CASE estimator.class # "RttMeanDeviation"
  <2>1. nSamples = 0
    BY <1>5 DEF IInv, SamplesByClass
  <2>2. FirstSample(m) /\ nSamples' = 0
    BY <1>5, <2>1 DEF Measurement
  <2> QED
    BY <1>1, <1>5, <2>1, <2>2, FirstSamplePreserves
<1> QED
  BY <1>3, <1>4, <1>5

LEMMA ResetPreserves == ASSUME IInv, Reset PROVE IInv'
<1>1. used' = NoSamples /\ used'.count = 0 /\ UNCHANGED estimator
  BY DEF Reset, NoSamples
<1>2. TypeOK'
  <2>1. used' \in [count : Nat, least : Nat, greatest : Nat, last : Nat]
    BY <1>1 DEF NoSamples
  <2>2. estimatedRtt' \in Nat /\ estimatedVariation' \in Nat /\ nSamples' \in Nat
    BY RttAssumption DEF Reset, IInv, TypeOK
  <2>3. estimator' \in Estimators
    BY <1>1 DEF IInv, TypeOK
  <2> QED
    BY <2>1, <2>2, <2>3 DEF TypeOK
<1>3. SamplesByClass'
  BY <1>1 DEF Reset, IInv, SamplesByClass
<1> QED
  BY <1>1, <1>2, <1>3 DEF IInv, UsedConsistent, EstimateWithinSamples,
     VariationBounded, RtoCoversLastSample

LEMMA NextPreserves == IInv /\ [Next]_vars => IInv'
<1> SUFFICES ASSUME IInv, [Next]_vars PROVE IInv'
  OBVIOUS
<1>1. CASE Reset
  BY <1>1, ResetPreserves
<1>2. CASE \E m \in Samples : Measurement(m)
  BY <1>2, MeasurementPreserves
<1>3. CASE UNCHANGED vars
  BY <1>3, Zenon DEF vars, IInv, TypeOK, UsedConsistent, SamplesByClass,
     EstimateWithinSamples, VariationBounded, RtoCoversLastSample, Rto,
     PaperRto, Rfc6298Rto
<1> QED
  BY <1>1, <1>2, <1>3 DEF Next

(***************************************************************************)
(* Theorems                                                                *)
(***************************************************************************)

LEMMA Invariance == Spec => []IInv
  BY InitEstablishes, NextPreserves, PTL DEF Spec

\* The estimate and the variation are never negative, although each is the sum
\* of signed differences rounded down.
THEOREM TypeCorrect == Spec => []TypeOK
<1>1. IInv => TypeOK
  BY DEF IInv
<1> QED
  BY <1>1, Invariance, PTL

\* The estimate stays among the samples it is made of, whatever the gains and
\* in whichever direction the updates round.
THEOREM EstimateAmongSamples == Spec => []EstimateWithinSamples
<1>1. IInv => EstimateWithinSamples
  BY DEF IInv
<1> QED
  BY <1>1, Invariance, PTL

\* The variation stays below the spread of the samples, or half the first.
THEOREM VariationWithinSpread == Spec => []VariationBounded
<1>1. IInv => VariationBounded
  BY DEF IInv
<1> QED
  BY <1>1, Invariance, PTL

\* A timeout computed from RFC 6298 is no shorter than the round trip just
\* measured, for every alpha and clock granularity whose product is at least
\* three ticks and every beta of at least a quarter.
THEOREM TimeoutCoversSample == Spec => []RtoCoversLastSample
<1>1. IInv => RtoCoversLastSample
  BY DEF IInv
<1> QED
  BY <1>1, Invariance, PTL

\* A measurement moves the estimate of RttMeanDeviation towards the sample and
\* never past it.
THEOREM NoOvershoot == Spec => MovesTowardsSample
<1>1. IInv /\ [Next]_vars =>
        [used'.count > used.count /\ nSamples > 0 =>
            estimatedRtt' \in Lesser(estimatedRtt, used'.last) ..
                              Bigger(estimatedRtt, used'.last)]_vars
  <2> SUFFICES ASSUME IInv, Next, used'.count > used.count, nSamples > 0
               PROVE  estimatedRtt' \in Lesser(estimatedRtt, used'.last) ..
                                        Bigger(estimatedRtt, used'.last)
    OBVIOUS
  <2>1. CASE Reset
    <3>1. used'.count = 0 /\ used.count \in Nat
      BY <2>1 DEF Reset, NoSamples, IInv, TypeOK
    <3> QED
      BY <3>1
  <2>2. ASSUME NEW m \in Samples, Measurement(m)
        PROVE  estimatedRtt' \in Lesser(estimatedRtt, used'.last) ..
                                 Bigger(estimatedRtt, used'.last)
    <3>1. estimator.class = "RttMeanDeviation"
      BY DEF IInv, SamplesByClass
    <3>2. IntegerUpdate(m) \/ FloatingPointUpdate(m)
      BY <2>2, <3>1 DEF Measurement, MeanDeviationUpdate
    <3>3. used'.last = m
      BY <2>2 DEF Measurement
    <3> QED
      BY <3>2, <3>3, UpdateBetween DEF IInv
  <2> QED
    BY <2>1, <2>2 DEF Next
<1> QED
  BY <1>1, Invariance, PTL DEF Spec, MovesTowardsSample
=============================================================================
