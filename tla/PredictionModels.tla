--------------------------- MODULE PredictionModels ---------------------------
(***************************************************************************)
(* The trend and the threshold model of one metric of one device, and the  *)
(* prediction actor that feeds them (nimon-edge, prediction/models.rs and  *)
(* actor/prediction_actor.rs).  The EWMA detector, which shares nothing    *)
(* with them, is in AnomalyDetector.                                       *)
(*                                                                         *)
(* Values are integers, times whole minutes.  Times are kept relative to   *)
(* the latest reading, so that nothing grows: a sample is its age and its  *)
(* value, and the age of the last prediction is capped where it makes no   *)
(* difference any more.                                                    *)
(***************************************************************************)
EXTENDS Integers, Sequences, SequencesExt, FiniteSetsExt

CONSTANTS
  Values,         \* values a reading may have
  Steps,          \* minutes between two readings; negative: the clock was set back
  MaxBack,        \* bound: minutes a prediction may lie in the future
  ThresholdPairs, \* pairs (warning, critical), warning < critical
  Window,         \* trend_window_minutes
  WindowSize,     \* trend_window_size
  Rate,           \* trend_threshold_rate, per minute
  ReemitAfter     \* trend_reemit_minutes

ASSUME ModelsAssumption ==
  /\ Values \subseteq Nat /\ Steps \subseteq Int
  /\ ThresholdPairs \subseteq Nat \X Nat /\ \A p \in ThresholdPairs : p[1] < p[2]
  /\ Window \in Nat \ {0} /\ WindowSize \in Nat /\ WindowSize >= 3
  /\ Rate \in Nat /\ ReemitAfter \in Nat \ {0} /\ MaxBack \in Nat

VARIABLES
  thresholds, \* (warning, critical) of every model
  samples,    \* TrendPredictor::samples, oldest first: [age, value]
  active,     \* TrendPredictor::active: [age, eta] of the last emission, or NoEpisode
  lastBand, lastValue,  \* ThresholdPredictor, or NoValue
  rising,     \* history: the verdict of the last reading that had enough history
  emitted,    \* history: the last trend prediction of this rise, or NoEpisode; its
              \* age is what has really passed
  clockBack,  \* history: the clock was set back since the rise began
  told,       \* history: the highest band announced that the value has not left since
  quiet       \* history: the band rose by a change of the thresholds

trend == <<samples, active>>
band == <<lastBand, lastValue>>
history == <<rising, emitted, clockBack, told, quiet>>
vars == <<thresholds, trend, band, history>>

Normal == 0
Warning == 1
Critical == 2
NoValue == -1
NoEta == -1
NoEpisode == [age |-> 0, eta |-> -2]

Init ==
  /\ thresholds \in ThresholdPairs
  /\ samples = << >> /\ active = NoEpisode
  /\ lastBand = Normal /\ lastValue = NoValue
  /\ rising = FALSE /\ emitted = NoEpisode /\ clockBack = FALSE
  /\ told = Normal /\ quiet = FALSE

-----------------------------------------------------------------------------
(* TrendPredictor *)

Abs(x) == IF x < 0 THEN -x ELSE x

\* Mutant: the samples of before the clock was set back stay.
PushedAlways(v, step) ==
  LET aged == [i \in DOMAIN samples |-> [samples[i] EXCEPT !.age = @ + step]]
      inWindow == SelectSeq(Append(aged, [age |-> 0, value |-> v]), LAMBDA s : s.age <= Window)
  IN IF Len(inWindow) > WindowSize
       THEN SubSeq(inWindow, Len(inWindow) - WindowSize + 1, Len(inWindow)) ELSE inWindow

\* The samples after a reading: cleared if the clock went back, what is older than
\* the window dropped, then what exceeds the cap.
Pushed(v, step) ==
  LET kept == IF step < 0 THEN << >> ELSE samples
      aged == [i \in DOMAIN kept |-> [kept[i] EXCEPT !.age = @ + step]]
      inWindow == SelectSeq(Append(aged, [age |-> 0, value |-> v]), LAMBDA s : s.age <= Window)
  IN IF Len(inWindow) > WindowSize
       THEN SubSeq(inWindow, Len(inWindow) - WindowSize + 1, Len(inWindow)) ELSE inWindow

Span(ss) == ss[1].age

\* The sum of f(1) .. f(Len(ss))
SumOver(ss, f(_)) == FoldLeft(LAMBDA acc, i : acc + f(i), 0, [i \in DOMAIN ss |-> i])

\* calculate_trend: the slope as a fraction, <<0, 0>> for None
CalculateTrend(ss) ==
  LET n == Len(ss)
      X(i) == Span(ss) - ss[i].age
      sumX == SumOver(ss, X)
      sumY == SumOver(ss, LAMBDA i : ss[i].value)
      sumXY == SumOver(ss, LAMBDA i : X(i) * ss[i].value)
      sumX2 == SumOver(ss, LAMBDA i : X(i) * X(i))
      denominator == n * sumX2 - sumX * sumX
  IN CASE n < 3 \/ sumX = 0 -> <<0, 0>>
       [] denominator = 0   -> <<0, 1>>
       [] OTHER             -> <<n * sumXY - sumX * sumY, denominator>>

\* Minutes until the critical value at this slope
Eta(v, slope) ==
  LET minutes == ((thresholds[2] - v) * slope[2]) \div slope[1]
  IN IF v >= thresholds[2] THEN 0
     ELSE CASE minutes >= 24 * 60 -> NoEta
            [] minutes = 0        -> 1
            [] OTHER              -> minutes

EtaChanged(old, new) ==
  IF old = NoEta \/ new = NoEta THEN old # new
  ELSE 5 * Abs(old - new) > (IF old > 1 THEN old ELSE 1)

Aged(e, step) ==
  IF e = NoEpisode THEN e ELSE [e EXCEPT !.age = IF @ + step > ReemitAfter THEN ReemitAfter ELSE @ + step]

\* What the model finds in its samples: too little history, no rise, or a rise.
Verdict(ss) ==
  LET slope == CalculateTrend(ss)
  IN IF 2 * Span(ss) < Window \/ slope[2] = 0 THEN "unknown"
     ELSE IF slope[1] <= Rate * slope[2] THEN "flat" ELSE "rising"

\* Mutant: an episode that is over is not forgotten.
TrendEpisodeKept(v, step) ==
  LET ss == Pushed(v, step)
      eta == Eta(v, CalculateTrend(ss))
      last == Aged(active, step)
  IN CASE Verdict(ss) = "rising" /\ (last = NoEpisode \/ last.age >= ReemitAfter \/ EtaChanged(last.eta, eta))
            -> [age |-> 0, eta |-> eta]
       [] OTHER -> last

\* The episode after a reading; a prediction is emitted when one begins, and again
\* when its ETA moves or after a while.
TrendEpisode(v, step) ==
  LET ss == Pushed(v, step)
      eta == Eta(v, CalculateTrend(ss))
      last == Aged(active, step)
  IN CASE Verdict(ss) = "unknown" -> last
       [] Verdict(ss) = "flat"    -> NoEpisode
       [] OTHER -> IF last = NoEpisode \/ last.age >= ReemitAfter \/ EtaChanged(last.eta, eta)
                     THEN [age |-> 0, eta |-> eta] ELSE last

-----------------------------------------------------------------------------
(* ThresholdPredictor *)

Band(v, pair) == IF v >= pair[2] THEN Critical ELSE IF v >= pair[1] THEN Warning ELSE Normal

\* A transition into a band of risk is news, one from critical to warning is not.
Announces(previous, next) == next > previous

-----------------------------------------------------------------------------
(* PredictionActor *)

LowerOf(x, y) == IF x < y THEN x ELSE y

\* process_update, both models after each other
Reading(v, step) ==
  LET ss == Pushed(v, step)
      next == Band(v, thresholds)
      begins == Verdict(ss) = "rising" /\ ~rising
  IN
  /\ active.age + step >= -MaxBack
  /\ samples' = ss
  /\ active' = TrendEpisode(v, step)
  /\ lastBand' = next /\ lastValue' = v
  /\ rising' = CASE Verdict(ss) = "unknown" -> rising [] OTHER -> Verdict(ss) = "rising"
  /\ emitted' = IF active' # NoEpisode /\ active'.age = 0 /\ active' # Aged(active, step) THEN active'
                ELSE IF begins \/ ~rising' THEN NoEpisode
                ELSE Aged(emitted, IF step < 0 THEN 0 ELSE step)
  /\ clockBack' = (rising' /\ ~begins /\ (clockBack \/ step < 0))
  /\ told' = IF Announces(lastBand, next) THEN next ELSE LowerOf(told, next)
  /\ quiet' = (quiet /\ next # Normal /\ ~Announces(lastBand, next))
  /\ UNCHANGED thresholds

\* Mutant: the band of the last value is not judged anew.
SetThresholdsOnly(pair) ==
  /\ thresholds' = pair /\ pair # thresholds
  /\ told' = IF lastValue = NoValue THEN told ELSE LowerOf(told, Band(lastValue, pair))
  /\ quiet' = (lastValue # NoValue /\ Band(lastValue, pair) # Normal
                 /\ (quiet \/ Band(lastValue, pair) > Band(lastValue, thresholds)))
  /\ UNCHANGED <<trend, band, rising, emitted, clockBack>>

\* set_thresholds, on every model in place
SetThresholds(pair) ==
  /\ thresholds' = pair /\ pair # thresholds
  /\ lastBand' = IF lastValue = NoValue THEN lastBand ELSE Band(lastValue, pair)
  /\ told' = IF lastValue = NoValue THEN told ELSE LowerOf(told, Band(lastValue, pair))
  /\ quiet' = (lastValue # NoValue /\ Band(lastValue, pair) # Normal
                 /\ (quiet \/ Band(lastValue, pair) > Band(lastValue, thresholds)))
  /\ UNCHANGED <<trend, lastValue, rising, emitted, clockBack>>

\* DeviceRemoved: the models go, and are built anew when the device comes back.
RemoveDevice ==
  /\ lastValue # NoValue
  /\ samples' = << >> /\ active' = NoEpisode
  /\ lastBand' = Normal /\ lastValue' = NoValue
  /\ rising' = FALSE /\ emitted' = NoEpisode /\ clockBack' = FALSE
  /\ told' = Normal /\ quiet' = FALSE
  /\ UNCHANGED thresholds

Next ==
  \/ \E v \in Values, step \in Steps : Reading(v, step)
  \/ \E pair \in ThresholdPairs : SetThresholds(pair)
  \/ RemoveDevice

Spec == Init /\ [][Next]_vars

-----------------------------------------------------------------------------
(* Properties *)

\* Reference: the least-squares slope over all pairs of samples.
PairwiseSlope(ss) ==
  LET pairs == {p \in (DOMAIN ss) \X (DOMAIN ss) : p[1] < p[2]}
      Dt(p) == ss[p[1]].age - ss[p[2]].age
      Dv(p) == ss[p[2]].value - ss[p[1]].value
  IN <<MapThenSumSet(LAMBDA p : Dt(p) * Dv(p), pairs), MapThenSumSet(LAMBDA p : Dt(p) * Dt(p), pairs)>>

\* The trend is judged on readings of one clock, in the order of time, and a rise
\* is a rise of the least-squares line through them (models.rs update,
\* calculate_trend).
TrendIsRegression ==
  samples # << >> =>
    /\ \A i \in DOMAIN samples : samples[i].age \in 0 .. Window
    /\ \A i, j \in DOMAIN samples : i < j => samples[i].age >= samples[j].age
    /\ 2 * Span(samples) >= Window /\ Len(samples) >= 3 =>
         LET slope == PairwiseSlope(samples)
         IN (Verdict(samples) = "rising") <=> slope[1] > Rate * slope[2]

\* A rise is announced when it begins, also after a flat spell, and again while it
\* lasts, so that its last prediction is younger than the re-emission interval
\* (models.rs TrendPredictor::update), unless the clock was set back meanwhile.
\* While the value is in a band of risk, that band or a higher one was announced
\* since the value last entered it, unless it is there because the thresholds were
\* lowered (models.rs ThresholdPredictor::update, set_thresholds).
TroubleIsAnnounced ==
  /\ rising /\ ~clockBack /\ Verdict(samples) = "rising" =>
       /\ emitted # NoEpisode
       /\ emitted.age < ReemitAfter
  /\ lastValue # NoValue /\ ~quiet => told >= Band(lastValue, thresholds)
=============================================================================
