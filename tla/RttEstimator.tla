---------------------------- MODULE RttEstimator ----------------------------
(***************************************************************************)
(* The round-trip time estimators of rtt-estimator.cc and the              *)
(* retransmission timeout tcp-socket-base.cc derives from them:            *)
(* RttMeanDeviation with its integer and floating point updates, and this  *)
(* repository's RttMyWeightedMedian with the timeout of rto-estimator1.h.  *)
(*                                                                         *)
(* Time is counted in ticks.  A product of a time and a gain is computed   *)
(* exactly and rounded down by the shifts of IntegerUpdate, either way by  *)
(* the conversions of FloatingPointUpdate.                                 *)
(***************************************************************************)
EXTENDS Integers, Sequences, SequencesExt

CONSTANTS
    Estimators,         \* configurations of a socket and its estimator
    InitialEstimation,  \* attribute InitialEstimation
    ClockGranularity,   \* attribute ClockGranularity of the socket
    MinRto,             \* attribute MinRto of the socket
    TicksPerMs,         \* ticks in a millisecond
    Samples,            \* the round-trip times measured
    MaxSamples          \* bound: measurements an estimator sees

\* A gain is a fraction between 0 and 1.
IsGain(g) == g.num \in Nat /\ g.den \in Nat \ {0} /\ g.num <= g.den

\* weightedRto: attribute CheckIfRttWeightedMedian of the socket is 5.
ASSUME RttAssumption ==
    /\ \A e \in Estimators :
        /\ e.class \in {"RttMeanDeviation", "RttMyWeightedMedian"}
        /\ IsGain(e.alpha) /\ IsGain(e.beta)
        /\ e.weightedRto \in BOOLEAN
    /\ InitialEstimation \in Nat /\ ClockGranularity \in Nat /\ MinRto \in Nat
    /\ TicksPerMs \in Nat \ {0}
    /\ Samples \subseteq Nat \ {0}
    /\ MaxSamples \in Nat

VARIABLES
    estimator,          \* the configuration, chosen once
    estimatedRtt,       \* m_estimatedRtt
    estimatedVariation, \* m_estimatedVariation
    nSamples,           \* m_nSamples
    actual,             \* m_actual_rtt_vector of the base class and the
                        \* member of that name RttMyWeightedMedian adds
    used                \* history: measurements since creation or Reset

vars == <<estimator, estimatedRtt, estimatedVariation, nSamples, actual, used>>

NoSamples == [count |-> 0, least |-> 0, greatest |-> 0, last |-> 0]

Init ==
    /\ estimator \in Estimators
    /\ estimatedRtt = InitialEstimation
    /\ estimatedVariation = 0
    /\ nSamples = 0
    /\ actual = [base |-> <<>>, own |-> <<>>]
    /\ used = NoSamples

Bigger(x, y) == IF x >= y THEN x ELSE y
Lesser(x, y) == IF x <= y THEN x ELSE y
Distance(x, y) == IF x >= y THEN x - y ELSE y - x
Millis(t) == t \div TicksPerMs

(***************************************************************************)
(* Updates                                                                 *)
(***************************************************************************)

\* CheckForReciprocalPowerOfTwo
IsReciprocalPowerOfTwo(g) == \E d \in {2, 4, 8, 16, 32} : g.den = g.num * d

Floor(x, g) == (x * g.num) \div g.den
Ceiling(x, g) == - Floor(- x, g)

\* Mutant: the error is taken as the estimate minus the sample.
IntegerUpdateReversed(m) ==
    /\ estimatedRtt' = estimatedRtt + Floor(estimatedRtt - m, estimator.alpha)
    /\ estimatedVariation' = estimatedVariation +
        Floor(Distance(m, estimatedRtt) - estimatedVariation, estimator.beta)

IntegerUpdate(m) ==
    /\ estimatedRtt' = estimatedRtt + Floor(m - estimatedRtt, estimator.alpha)
    /\ estimatedVariation' = estimatedVariation +
        Floor(Distance(m, estimatedRtt) - estimatedVariation, estimator.beta)

FloatingPointUpdate(m) ==
    LET err == m - estimatedRtt
        difference == Distance(m, estimatedRtt) - estimatedVariation
    IN  /\ estimatedRtt' \in {estimatedRtt + Floor(err, estimator.alpha),
                              estimatedRtt + Ceiling(err, estimator.alpha)}
        /\ estimatedVariation' \in
                {estimatedVariation + Floor(difference, estimator.beta),
                 estimatedVariation + Ceiling(difference, estimator.beta)}

FirstSample(m) ==
    /\ estimatedRtt' = m
    /\ estimatedVariation' = m \div 2

\* The median takes in the element after the last one of the vector, so that any
\* estimate may come out of it.
MedianUpdate(m) ==
    /\ estimatedRtt' \in 0..Bigger(m, estimatedRtt)
    /\ estimatedVariation' = (estimatedVariation + Distance(m, estimatedRtt)) \div 2

\* Mutant: the first sample is averaged with the initial estimate.
MeanDeviationUpdateFromStart(m) == IntegerUpdate(m)

MeanDeviationUpdate(m) ==
    IF nSamples = 0 THEN FirstSample(m)
    ELSE IF IsReciprocalPowerOfTwo(estimator.alpha) /\ IsReciprocalPowerOfTwo(estimator.beta)
    THEN IntegerUpdate(m)
    ELSE FloatingPointUpdate(m)

\* Each class logs what it measures in a vector of its own, and only
\* RttMeanDeviation counts its samples.
Measurement(m) ==
    /\ Len(actual.base) + Len(actual.own) < MaxSamples
    /\ IF estimator.class = "RttMeanDeviation"
       THEN /\ MeanDeviationUpdate(m)
            /\ nSamples' = nSamples + 1
            /\ actual' = [actual EXCEPT !.base = Append(@, Millis(m))]
       ELSE /\ IF nSamples = 0 THEN FirstSample(m) ELSE MedianUpdate(m)
            /\ UNCHANGED nSamples
            /\ actual' = [actual EXCEPT !.own = Append(@, Millis(m))]
    /\ used' = [count |-> used.count + 1,
                least |-> IF used.count = 0 THEN m ELSE Lesser(used.least, m),
                greatest |-> Bigger(used.greatest, m),
                last |-> m]
    /\ UNCHANGED estimator

\* RttMyWeightedMedian::Reset does nothing; the vectors are never cleared.
Reset ==
    /\ IF estimator.class = "RttMeanDeviation"
       THEN /\ estimatedRtt' = InitialEstimation
            /\ estimatedVariation' = 0
            /\ nSamples' = 0
       ELSE UNCHANGED <<estimatedRtt, estimatedVariation, nSamples>>
    /\ used' = NoSamples
    /\ UNCHANGED <<estimator, actual>>

Next == Reset \/ \E m \in Samples : Measurement(m)

Spec == Init /\ [][Next]_vars

(***************************************************************************)
(* The retransmission timeout                                              *)
(***************************************************************************)

\* calculateZeta, times n * n: the mean distance of n values from their mean.
Zeta(v) ==
    LET n == Len(v)
        sum == FoldLeft(LAMBDA a, x : a + x, 0, v)
    IN  FoldLeft(LAMBDA a, x : a + Distance(n * x, sum), 0, v)

\* lambda_paper = 1.0 + 4.5 * zeta times the estimate; GetVectorRttActual
\* returns the vector of the base class.
PaperRto ==
    LET n == Len(actual.base)
    IN  IF n = 0 THEN estimatedRtt
        ELSE estimatedRtt + (9 * Zeta(actual.base) * estimatedRtt) \div (2 * n * n)

\* RFC 6298, clause 2.4
Rfc6298Rto == estimatedRtt + Bigger(ClockGranularity, estimatedVariation * 4)

\* Mutant: half the allowance for the variation.
RtoTwice == Bigger(estimatedRtt + Bigger(ClockGranularity, estimatedVariation * 2), MinRto)

Rto == Bigger(IF estimator.weightedRto THEN PaperRto ELSE Rfc6298Rto, MinRto)

(***************************************************************************)
(* Properties                                                              *)
(***************************************************************************)

TypeOK ==
    /\ estimator \in Estimators
    /\ estimatedRtt \in Nat
    /\ estimatedVariation \in Nat
    /\ nSamples \in Nat
    /\ used \in [count : Nat, least : Nat, greatest : Nat, last : Nat]

\* The estimate never leaves the range of the samples it is made of: neither
\* InitialEstimation nor the rounding of IntegerUpdate, which shifts negative
\* numbers, leaves a trace in it.
EstimateWithinSamples ==
    used.count > 0 => estimatedRtt \in used.least .. used.greatest

\* The variation stays below the spread of the samples, or half the first one.
VariationBounded ==
    used.count > 0 =>
        estimatedVariation <= Bigger(used.greatest - used.least, used.greatest \div 2)

\* A timeout computed from RFC 6298 is no shorter than the round trip just
\* measured, although estimate and variation are both rounded down and each
\* takes only a fraction of the sample: the variation's share, four times
\* beta, is at least one, and what rounding takes away the estimate or the
\* clock granularity makes up for.
Covers(e) ==
    /\ e.class = "RttMeanDeviation" /\ ~ e.weightedRto
    /\ e.beta.den <= 4 * e.beta.num
    /\ 3 * e.alpha.den <= ClockGranularity * e.alpha.num
RtoCoversLastSample ==
    Covers(estimator) /\ used.count > 0 => Rto >= used.last

\* A measurement moves the estimate of RttMeanDeviation towards the sample and
\* never past it.
MovesTowardsSample ==
    [][used'.count > used.count /\ nSamples > 0 =>
        estimatedRtt' \in Lesser(estimatedRtt, used'.last) ..
                          Bigger(estimatedRtt, used'.last)]_vars

(***************************************************************************)
(* What a comment of the source says and the estimator does not do         *)
(***************************************************************************)

\* GetNSamples: "gets the number of samples used in the estimates".
SamplesAreCounted == nSamples = used.count
=============================================================================
