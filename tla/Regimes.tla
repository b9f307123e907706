------------------------------ MODULE Regimes -------------------------------
(***************************************************************************)
(* The market regime read off the indicators of a bar, and the strategies  *)
(* whose habitat it is.  Indicators are in hundredths (the ADX in points), *)
(* the confidence in ten-thousandths.                                      *)
(*                                                                         *)
(* Source: src/acme/regime/classifier.py, src/acme/regime/habitat.py,      *)
(* src/acme/conductor/conductor.py.                                        *)
(***************************************************************************)
EXTENDS Integers

CONSTANTS
  Readings   \* what the indicators may show: [adx, move, atr, width, hurst,
             \* volume, momentum, blackout], Missing while they warm up

Missing == -1
RegimeNames == {"none", "ambiguous", "chaotic", "compressing", "trending", "ranging"}
NoRegime == [regime |-> "none", direction |-> "neutral", confidence |-> 0]
Says(regime, direction, confidence) ==
  [regime |-> regime, direction |-> direction, confidence |-> confidence]

Within(n, low, high) == IF n < low THEN low ELSE IF n > high THEN high ELSE n
Scaled(n, low, high) == (10000 * (Within(n, low, high) - low)) \div (high - low)
Warm(r) == Missing \notin {r.adx, r.atr, r.hurst, r.width}

Chaotic(r) == r.blackout \/ r.atr > 180
Compressing(r) == r.width < 20 /\ r.atr < 85
Trending(r) == r.adx > 25 /\ r.atr > 90 /\ r.hurst > 50
Ranging(r) == r.adx < 22 /\ r.hurst < 52 /\ r.atr < 130

Direction(r) ==
  CASE r.momentum = Missing -> "neutral"
    [] r.momentum > 55 -> "long_bias"
    [] r.momentum # Missing /\ r.momentum < 45 -> "short_bias"
    [] OTHER -> "neutral"

TrendConfidence(r) ==
  LET base == 5000 + Scaled(r.adx, 25, 40) \div 2
      weighted == Within((base * (100 + 2 * (r.hurst - 50))) \div 100, 0, 10000)
      moved == IF r.move = "rising" THEN Within(weighted + 1000, 0, 10000) ELSE weighted
  IN  CASE r.volume > 130 -> Within(moved + 500, 0, 10000)
        [] r.volume # Missing /\ r.volume < 70 -> Within(moved - 1000, 0, 10000)
        [] OTHER -> moved

RangeConfidence(r) ==
  LET base == 9000 - (2 * Scaled(r.adx, 15, 22)) \div 5
  IN  IF r.move = "falling" THEN Within(base + 1000, 0, 10000) ELSE base

ClassifyRegime(r) ==
  CASE ~Warm(r) -> Says("ambiguous", "neutral", 2000)
    [] Warm(r) /\ Chaotic(r) -> Says("chaotic", "neutral", 10000)
    [] Warm(r) /\ ~Chaotic(r) /\ Compressing(r) ->
         Says("compressing", "neutral", 10000 - 100 * r.width)
    [] Warm(r) /\ ~Chaotic(r) /\ ~Compressing(r) /\ Trending(r) ->
         Says("trending", Direction(r), TrendConfidence(r))
    [] Warm(r) /\ ~Chaotic(r) /\ ~Compressing(r) /\ Ranging(r) ->
         Says("ranging", "neutral", RangeConfidence(r))
    [] OTHER -> Says("ambiguous", "neutral", 3000)

Snapshots == {ClassifyRegime(r) : r \in Readings}
-----------------------------------------------------------------------------
(* The conductor's gate: no snapshot, no gate. *)
RegimeBlocks(snapshot) ==
  /\ snapshot # NoRegime
  /\ \/ snapshot.regime \in {"chaotic", "compressing", "ambiguous"}
     \/ snapshot.confidence < 4000

HabitatMatch(fit, regime) == regime \in {"trending", "ranging"} /\ fit[regime] >= 70

EligibleStrategies_Whole(active, fits, snapshot) == active
EligibleStrategies(active, fits, snapshot) ==
  IF snapshot = NoRegime THEN active
  ELSE {s \in active : /\ snapshot.confidence >= 4000
                       /\ HabitatMatch(fits[s], snapshot.regime)}
=============================================================================
