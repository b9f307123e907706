---------------------------- MODULE Arbitration -----------------------------
(***************************************************************************)
(* Which of the strategies that fire on a bar is the one to execute.  The  *)
(* composite score is in ten-thousandths.                                  *)
(*                                                                         *)
(* Source: src/acme/conductor/arbitrator.py.                               *)
(***************************************************************************)
EXTENDS Integers

CONSTANTS
  Strategies,
  NameOrder,    \* the position of a strategy's name in the alphabet
  Tier,         \* the tier column of its row
  Fits,         \* its regime_fit, in hundredths
  Buckets       \* its time buckets: sets of [from, to, readable]

ASSUME ArbitrationAssumption ==
  /\ NameOrder \in [Strategies -> Int] /\ Tier \in [Strategies -> Int]
  /\ \A s, t \in Strategies : NameOrder[s] = NameOrder[t] => s = t
  /\ Fits \in [Strategies -> [{"trending", "ranging", "quiet"} -> 0..100]]
  /\ \A s \in Strategies : \A b \in Buckets[s] :
       b.from \in Nat /\ b.to \in Nat /\ b.readable \in BOOLEAN

TierWeight(tier) == CASE tier = 1 -> 10000 [] tier = 2 -> 6600 [] OTHER -> 3300

\* "08:30-13:00 CT" is not of the form the parser reads and never fits.
TimeBucketFit(s, now) ==
  IF \E b \in Buckets[s] : b.readable /\ b.from <= now /\ now <= b.to
  THEN 10000 ELSE 5000

\* The conductor passes no regime, which counts as quiet.
RegimeFit(s) == 100 * Fits[s].quiet

HabitatShare(s, now) == 2 * RegimeFit(s) + (3 * TimeBucketFit(s, now)) \div 2
TrackRecordShare_Swapped(s, confidence) == TierWeight(Tier[s]) + 3 * confidence
TrackRecordShare(s, confidence) == 3 * TierWeight(Tier[s]) + confidence
CompositeScore(s, now, confidence) ==
  TrackRecordShare(s, confidence) + HabitatShare(s, now)

(* The candidate with the highest score wins, the first by name of those   *)
(* that tie; the others are suppressed.                                    *)
Arbitrate(candidates, now, confidences) ==
  LET Score(s) == CompositeScore(s, now, confidences[s])
      Before(s, t) ==
        Score(s) > Score(t) \/ (Score(s) = Score(t) /\ NameOrder[s] < NameOrder[t])
  IN  CHOOSE s \in candidates : \A t \in candidates \ {s} : Before(s, t)
=============================================================================
