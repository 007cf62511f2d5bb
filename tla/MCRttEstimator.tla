--------------------------- MODULE MCRttEstimator ---------------------------
(***************************************************************************)
(* Instance of RttEstimator for TLC.                                       *)
(***************************************************************************)
EXTENDS RttEstimator

Gain(n, d) == [num |-> n, den |-> d]

\* The defaults of RttMeanDeviation, gains that need floating point, and the
\* weighted median with its timeout.
MCEstimators ==
    {[class |-> "RttMeanDeviation", alpha |-> Gain(1, 8), beta |-> Gain(1, 4),
      weightedRto |-> FALSE],
     [class |-> "RttMeanDeviation", alpha |-> Gain(3, 10), beta |-> Gain(1, 3),
      weightedRto |-> FALSE],
     [class |-> "RttMyWeightedMedian", alpha |-> Gain(7, 8), beta |-> Gain(1, 2),
      weightedRto |-> TRUE]}
=============================================================================
