--------------------------- MODULE AnomalyDetector ---------------------------
(***************************************************************************)
(* The EWMA model of one metric of one device (nimon-edge,                 *)
(* prediction/models.rs): a mean and a variance in which a reading counts  *)
(* the less the older it is, and the readings that stand out from those    *)
(* before them.  The probability and the confidence of a prediction, and   *)
(* readings that are no number, which are ignored, are left out.           *)
(*                                                                         *)
(* Values are integers, and mean and variance are kept as numerators: with *)
(* n updates after the warm-up the mean is meanN / (MinSamples *           *)
(* Smoothing^n), see Unit.                                                 *)
(***************************************************************************)
EXTENDS Integers, Sequences, SequencesExt

CONSTANTS
  Readings,    \* values a reading may have
  Smoothing,   \* 1 / alpha
  MinSamples,  \* min_samples
  ZThreshold,  \* threshold of the z-score
  MinStd,      \* min_std
  MaxReadings  \* bound: readings since the model was made

ASSUME DetectorAssumption ==
  /\ Readings \subseteq Nat /\ Smoothing \in Nat \ {0} /\ MinSamples \in Nat \ {0, 1}
  /\ ZThreshold \in Nat /\ MinStd \in Nat \ {0} /\ MaxReadings \in Nat

VARIABLES
  warmUp,     \* EwmaAnomalyDetector::values
  updates,    \* samples_seen - min_samples
  meanN, varN,  \* numerators of mean and variance
  flagged,    \* the last reading was a NewPrediction
  readings    \* history: every reading

detectorVars == <<warmUp, updates, meanN, varN, flagged, readings>>

initialized == Len(warmUp) = MinSamples

\* Denominators: of the mean, and of the variance.
Unit(n) == MinSamples * Smoothing ^ n
SquareUnit(n) == (MinSamples - 1) * Unit(n) * Unit(n)

DetectorInit ==
  /\ warmUp = <<>> /\ updates = 0 /\ meanN = 0 /\ varN = 0
  /\ flagged = FALSE /\ readings = <<>>

Total(f(_), n) == FoldLeft(LAMBDA acc, i : acc + f(i), 0, [i \in 1 .. n |-> i])

\* A reading of the warm-up; the last one initializes mean and variance.
WarmsUp(v) ==
  /\ ~initialized
  /\ warmUp' = Append(warmUp, v)
  /\ LET sum == Total(LAMBDA i : warmUp'[i], Len(warmUp'))
         Dev(i) == MinSamples * warmUp'[i] - sum
     IN IF Len(warmUp') < MinSamples THEN UNCHANGED <<meanN, varN>>
        ELSE meanN' = sum /\ varN' = Total(LAMBDA i : Dev(i) * Dev(i), MinSamples)
  /\ flagged' = FALSE
  /\ UNCHANGED updates

\* The variance, no less than that of min_std.
Floored ==
  LET least == MinStd * MinStd * SquareUnit(updates) IN IF varN > least THEN varN ELSE least

\* Mutant: a drop counts as well.
StandsOutEither(diff) ==
  (MinSamples - 1) * diff * diff > ZThreshold * ZThreshold * Floored

\* z-score of a deviation: only rises count.
StandsOut(diff) ==
  /\ diff > 0
  /\ (MinSamples - 1) * diff * diff > ZThreshold * ZThreshold * Floored

\* Mutant: the mean of after the update is used.
JudgesLate(v) ==
  /\ initialized
  /\ LET diff == v * Unit(updates) - meanN
         late == Smoothing * v * Unit(updates) - ((Smoothing - 1) * meanN + v * Unit(updates))
     IN /\ flagged' = StandsOut(late \div Smoothing)
        /\ meanN' = (Smoothing - 1) * meanN + v * Unit(updates)
        /\ varN' = (Smoothing - 1) * (Smoothing * varN + (MinSamples - 1) * diff * diff)
  /\ updates' = updates + 1
  /\ UNCHANGED warmUp

\* A reading is judged by what was before it, and then counted (West's
\* incremental form).
Judges(v) ==
  /\ initialized
  /\ LET diff == v * Unit(updates) - meanN
     IN /\ flagged' = StandsOut(diff)
        /\ meanN' = (Smoothing - 1) * meanN + v * Unit(updates)
        /\ varN' = (Smoothing - 1) * (Smoothing * varN + (MinSamples - 1) * diff * diff)
  /\ updates' = updates + 1
  /\ UNCHANGED warmUp

Detects(v) ==
  /\ Len(readings) < MaxReadings
  /\ readings' = Append(readings, v)
  /\ WarmsUp(v) \/ Judges(v)

\* DeviceRemoved: the model goes, and is made anew when the device comes back.
DetectorRemoved ==
  /\ readings # <<>>
  /\ warmUp' = <<>> /\ updates' = 0 /\ meanN' = 0 /\ varN' = 0
  /\ flagged' = FALSE /\ readings' = <<>>

DetectorNext == (\E v \in Readings : Detects(v)) \/ DetectorRemoved

DetectorSpec == DetectorInit /\ [][DetectorNext]_detectorVars

-----------------------------------------------------------------------------
(* Property                                                                *)

\* Reference: the moments of the first n + MinSamples readings when the warm-up
\* weighs (1 - alpha)^n together and the k-th reading after it
\* alpha (1 - alpha)^(n - k), all multiplied by Smoothing^n.
Weight(n, k) == (Smoothing - 1) ^ (n - k) * Smoothing ^ (k - 1)
WarmWeight(n) == (Smoothing - 1) ^ n
After(k) == readings[MinSamples + k]
WarmSum == Total(LAMBDA i : readings[i], MinSamples)

MeanOf(n) ==
  WarmWeight(n) * WarmSum + MinSamples * Total(LAMBDA k : Weight(n, k) * After(k), n)

\* The spread of the warm-up about its own mean is its sample variance.
VarianceOf(n) ==
  LET Off(v) == v * Unit(n) - MeanOf(n)
      warmOff == WarmSum * Smoothing ^ n - MeanOf(n)
      Dev(i) == MinSamples * readings[i] - WarmSum
      spread == Total(LAMBDA i : Dev(i) * Dev(i), MinSamples)
  IN WarmWeight(n) * (spread * Smoothing ^ (2 * n) + (MinSamples - 1) * warmOff * warmOff)
       + (MinSamples - 1) * Total(LAMBDA k : Weight(n, k) * Off(After(k)) * Off(After(k)), n)

\* The detector's mean and variance are those of all readings, weighted by age
\* (VarianceOf has a factor Smoothing^n more), and the last reading was reported if
\* and only if it exceeds the mean of those before it by more than ZThreshold
\* standard deviations: never because it is low, or since a level signal moved by
\* less than min_std allows (EwmaAnomalyDetector::update).
AnomalyIsRise ==
  initialized =>
    /\ meanN = MeanOf(updates)
    /\ Smoothing ^ updates * varN = VarianceOf(updates)
    /\ updates > 0 =>
         LET n == updates - 1
             rise == After(updates) * Unit(n) - MeanOf(n)
             Exceeds(scaledVariance) ==
               Smoothing ^ n * (MinSamples - 1) * rise * rise > ZThreshold * ZThreshold * scaledVariance
         IN flagged <=> /\ rise > 0
                        /\ Exceeds(VarianceOf(n))
                        /\ Exceeds(Smoothing ^ n * MinStd * MinStd * SquareUnit(n))
=============================================================================
