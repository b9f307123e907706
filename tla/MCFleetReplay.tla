---------------------------- MODULE MCFleetReplay ----------------------------
(* Two calendar days, the second with an early close, in which the minutes *)
(* bars arrive at straddle every hour and window the strategies test.      *)
EXTENDS FleetReplay

MCDrives == [replay |-> (AllStrategies \ NewFleet) \cup {"gap_fill"}, script |-> NewFleet]
MCSlots == {509, 510, 525, 530, 540, 630, 700, 780, 958, 1020}
MCNone == {}
MCEarly == {2}
=============================================================================
