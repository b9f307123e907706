----------------------------- MODULE Detectors ------------------------------
(***************************************************************************)
(* The detectors strategies are built from.  A bar is abstracted to what   *)
(* each detector compares: the sign of a slope, a separation or a ratio    *)
(* against its threshold, a move in units of the average range.  Each      *)
(* detector keeps the tests, their order and the memory of the code; the   *)
(* set of verdicts it can give is what the strategies choose from.         *)
(*                                                                         *)
(* Source: src/acme/strategies/go_no_go.py, exhaustion.py, pulse_gates.py, *)
(* pulse_features.py, src/acme/ryan_spec/v4_regime.py.                     *)
(***************************************************************************)
EXTENDS Integers

Up == 1
Down == -1
Wait == 0
-----------------------------------------------------------------------------
(* GO/NO-GO.  Memory: the volume ratio of the previous warm bar, -1 before *)
(* the first.  Ratios are 0 (low), 1 (at the threshold) and 2 (above).     *)
NoRatio == -1
VolumeRatios == 0..2
VrThreshold == 1
GoNoGoBars ==
  [warm : BOOLEAN, separated : BOOLEAN, slopes : {Up, Down, Wait},
   ratio : VolumeRatios]

GoNoGoRemembers(vr, bar) == IF bar.warm THEN bar.ratio ELSE vr

VolumeRising(vr, bar) == vr = NoRatio \/ bar.ratio > vr

GoNoGoSignal(vr, bar) ==
  IF bar.separated /\ bar.ratio >= VrThreshold /\ VolumeRising(vr, bar)
  THEN bar.slopes ELSE Wait

(* Once the averages are warm they stay warm; a bar before is one bar. *)
GoNoGoBarsAfter(vr) ==
  {bar \in GoNoGoBars :
     IF bar.warm THEN bar.separated \/ bar.slopes = Wait
     ELSE vr = NoRatio /\ ~bar.separated /\ bar.slopes = Wait /\ bar.ratio = 0}
-----------------------------------------------------------------------------
(* A doji on low volume at a local extreme that closes back inside. *)
Extremes == SUBSET {"top", "bottom"}
ExhaustionBars ==
  [warm : BOOLEAN, range : 0..1, smallBody : BOOLEAN, lowVolume : BOOLEAN,
   extremes : Extremes, close : {"lower", "middle", "upper"}]

Exhaustion(bar) ==
  IF ~(bar.warm /\ bar.range > 0 /\ bar.smallBody /\ bar.lowVolume)
  THEN "none"
  ELSE IF "top" \in bar.extremes /\ bar.close = "lower" THEN "top"
  ELSE IF "bottom" \in bar.extremes /\ bar.close = "upper" THEN "bottom"
  ELSE "none"

ExhaustionVerdicts == {Exhaustion(bar) : bar \in ExhaustionBars}
-----------------------------------------------------------------------------
(* Trend classifiers: a move in units of the average range of the bars.    *)
(* Thresholds are in halves of a range.                                    *)
Trends == {"trend_up", "trend_down", "chop"}
Windows == [bars : 0..2, range : 0..1, move : -2..2, fast : 0..3]

Directed(move, range, halves) ==
  IF range <= 0 THEN "chop"
  ELSE IF 2 * move > halves * range THEN "trend_up"
  ELSE IF 2 * move < -(halves * range) THEN "trend_down"
  ELSE "chop"

\* The slope of the moving average over the lookback.
ClassifyTrendEma(w) ==
  IF w.bars < 1 THEN "chop" ELSE Directed(w.move, w.range, 1)

\* The move from the first to the last bar of the buffer.
ClassifyOvernightBias(w) ==
  IF w.bars < 1 THEN "chop" ELSE Directed(w.move, w.range, 2)

\* Only whole groups of bars make a bar of the higher timeframe.
Resampled(w, factor) == [w EXCEPT !.bars = @ \div factor]
ClassifyHigherTfAlignment(w, factor) == ClassifyTrendEma(Resampled(w, factor))

\* Fast ranges at least 1.3 times the baseline, and a move to confirm.
ClassifyVolRegime(w) ==
  IF w.bars < 2 \/ w.range <= 0 \/ 10 * w.fast < 13 * w.range
  THEN "chop" ELSE Directed(w.move, w.fast, 1)

TrendVerdicts == {ClassifyTrendEma(w) : w \in Windows}
BiasVerdicts == {ClassifyOvernightBias(w) : w \in Windows}

\* What each classifier of the v4 and v5 variants may say.
ClassifierVerdicts ==
  [trend_ema |-> TrendVerdicts, overnight_bias |-> BiasVerdicts,
   vol_regime |-> {ClassifyVolRegime(w) : w \in Windows},
   higher_tf_alignment |-> {ClassifyHigherTfAlignment(w, 2) : w \in Windows}]
-----------------------------------------------------------------------------
(* Expansion of the true range: a ratio to its average, in tenths, and the *)
(* floor below which no expansion is believed.                             *)
RangeBars == [warm : BOOLEAN, average : 0..1, tenths : {5, 10, 25}, floor : BOOLEAN]

VolRegime(bar) ==
  IF ~bar.warm \/ bar.average <= 0 THEN "none"
  ELSE IF bar.tenths > 20 /\ bar.floor THEN "high"
  ELSE IF bar.tenths < 8 THEN "low" ELSE "normal"

VolVerdicts == {VolRegime(bar) : bar \in RangeBars}
-----------------------------------------------------------------------------
(* PULSE: the first separation only starts the slopes, and features exist  *)
(* once four slopes are known.  The score is four signs of slope, newest   *)
(* heaviest, their magnitude and the volume; an edge is a score far enough *)
(* from nothing, and its sign is the side.                                 *)
SeparationsNeeded == 5
PulseBars == [warm : BOOLEAN, score : -2..2]

PulseRemembers(separations, bar) ==
  IF bar.warm /\ separations < SeparationsNeeded THEN separations + 1
  ELSE separations

PulseReady(separations, bar) ==
  bar.warm /\ PulseRemembers(separations, bar) = SeparationsNeeded

EdgeThreshold == 1
PulseSignal(bar) ==
  IF bar.score > EdgeThreshold THEN Up
  ELSE IF bar.score < -EdgeThreshold THEN Down ELSE Wait
-----------------------------------------------------------------------------
(* A trend that a price carries until it crosses to the other side: the    *)
(* first known trend is not a flip, and a bar that crosses nothing keeps   *)
(* the trend there was.                                                    *)
Trend == {Wait, Up, Down}
Carried(trend, cross) == IF cross = Wait THEN trend ELSE cross
Flip(trend, cross) ==
  IF trend # Wait /\ Carried(trend, cross) # trend THEN cross ELSE Wait
=============================================================================
