------------------------------ MODULE MCV3Day ------------------------------
(* Instance of V3Day: the last bars before 08:30, the ones around 14:50,   *)
(* the evening, and the next day's open.                                   *)
EXTENDS V3Day

MCMoments == {508, 509, 510, 888, 890, 1022, 1440 + 508, 1440 + 510}
MCQuotes == {Quote(p) : p \in {0, 2, 4}}
MCRun == {Quote(p) : p \in {0, 1, 4, 5}}     \* room for twice the ATR
MCTrades == {[price |-> 0, size |-> 2, side |-> "sell"],
             [price |-> 2, size |-> 1, side |-> "unknown"],
             [price |-> 4, size |-> 1, side |-> "buy"]}

Trailing == [Canon EXCEPT !.trailing = TRUE, !.sessionEnd = FALSE, !.timeStop = FALSE]
Armored == [Canon EXCEPT !.minBars = 2, !.armored = TRUE, !.armor = 1]
Percentile == [Canon EXCEPT !.pctile = TRUE, !.low = 5, !.high = 45]
Refined == [Canon EXCEPT !.trailing = TRUE, !.capped = TRUE, !.ceiling = 2,
                         !.blacklist = {14}, !.fastFail = TRUE]
Shadow == [Canon EXCEPT !.sessionEnd = FALSE, !.timeStop = FALSE,
                        !.gate = "gate", !.classifier = "vol_regime"]
TurnedRound == [Canon EXCEPT !.gate = "flip", !.classifier = "higher_tf_alignment"]

MCSetups ==
  {[variant |-> v, ticks |-> MCQuotes, atrs |-> {2}] :
     v \in {Armored, Percentile, Shadow, TurnedRound}}
  \cup {[variant |-> Trailing, ticks |-> MCRun, atrs |-> {2}],
        [variant |-> Refined, ticks |-> MCQuotes, atrs |-> {2, 4}],
        [variant |-> Canon, ticks |-> MCTrades, atrs |-> {2}]}
=============================================================================
