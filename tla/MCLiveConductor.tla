-------------------------- MODULE MCLiveConductor --------------------------
(* Small instances of LiveConductor: one strategy that reverses, on the    *)
(* deployed fleet's 2m bars, and one that holds, on 1m bars, so that an    *)
(* exception in the first bar of a quote drops the other strategy's.       *)
EXTENDS LiveConductor

MCTfOf == [s \in Strategies |-> IF s = "gng" THEN 2 ELSE 1]
=============================================================================
