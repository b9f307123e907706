-------------------------------- MODULE Fleet --------------------------------
(***************************************************************************)
(* Every strategy behind one interface, as its callers see it: its bars'   *)
(* length, the hours it asks to be called in, the memory a new instance    *)
(* has, the bars that tell its answers apart, on_bar, the optional hooks.  *)
(*                                                                         *)
(* Source: src/acme/strategies/, src/acme/backtest/run.py,                 *)
(* scripts/backtest_new_fleet.py, src/acme/fleet_runner.py.                *)
(***************************************************************************)
EXTENDS TrendStrategies, BreakoutStrategies, KeeperStrategies

SeedFleet ==
  {"ema_cross", "anti", "orb", "donchian", "bb_mr", "turtle_soup", "supertrend",
   "turtles_system2"}
TestVariants == {"go_no_go", "go_no_go_levels_variant", "ignition_pulse"}
NewFleet == {"ignition", "session", "regime", "boundary", "overnight_drift", "gap_fill"}
Keepers == {"boundary", "overnight_drift", "gap_fill", "go_no_go_levels"}
AllStrategies == SeedFleet \cup TestVariants \cup NewFleet \cup Keepers

\* They may answer against the position they hold.
Reversers ==
  {"go_no_go", "go_no_go_levels_variant", "go_no_go_levels", "ignition",
   "ignition_pulse", "session", "regime"}

Timeframe(name) ==
  CASE name = "ema_cross" -> 1
    [] name \in SeedFleet \ {"ema_cross"} -> 5
    [] OTHER -> 2

(* Hours in the form the replay can read; the others carry the name of the *)
(* time zone, and no bar is ever inside them.                              *)
TimeBuckets(name) ==
  CASE name = "anti" -> Clock(9, 0)..Clock(14, 0)
    [] name = "bb_mr" -> Clock(10, 30)..Clock(14, 0)
    [] name \in {"donchian", "turtles_system2", "turtle_soup"} ->
         Clock(9, 0)..Clock(13, 0)
    [] name = "orb" -> Clock(8, 45)..Clock(10, 30)
    [] name \in {"supertrend", "ema_cross"} -> Clock(8, 30)..Clock(14, 45)
    [] name \in {"boundary", "go_no_go", "ignition_pulse", "regime"} -> Minutes
    [] OTHER -> {}

Fresh(name) ==
  CASE name = "go_no_go" -> GoNoGoFresh
    [] name = "go_no_go_levels_variant" -> LevelsFresh
    [] name = "go_no_go_levels" -> KeeperLevelsFresh
    [] name = "ignition" -> IgnitionFresh
    [] name = "ignition_pulse" -> PulseFresh
    [] name = "session" -> SessionFresh
    [] name = "regime" -> RegimeFresh
    [] name = "anti" -> AntiFresh
    [] name = "orb" -> OrbFresh
    [] name = "donchian" -> DonchianFresh
    [] name = "turtles_system2" -> TurtlesFresh
    [] name = "turtle_soup" -> TurtleSoupFresh
    [] name = "bb_mr" -> BbMrFresh
    [] name = "ema_cross" -> EmaCrossFresh
    [] name = "supertrend" -> SupertrendFresh
    [] name = "boundary" -> BoundaryFresh
    [] name = "gap_fill" -> GapFresh
    [] name = "overnight_drift" -> DriftFresh

Inputs(name, memory) ==
  CASE name = "go_no_go" -> GoNoGoInputs(memory)
    [] name \in {"go_no_go_levels", "go_no_go_levels_variant"} -> LevelBars(memory)
    [] name = "ignition" -> GoNoGoInputs(memory)
    [] name = "ignition_pulse" -> PulseInputs(memory)
    [] name = "session" -> SessionInputs(memory)
    [] name = "regime" -> RegimeInputs(memory)
    [] name = "anti" -> AntiInputs(memory)
    [] name = "orb" -> OrbInputs(memory)
    [] name \in {"donchian", "turtles_system2", "turtle_soup"} -> DonchianInputs(memory)
    [] name = "bb_mr" -> BbMrInputs(memory)
    [] name = "ema_cross" -> EmaCrossInputs(memory)
    [] name = "supertrend" -> SupertrendInputs(memory)
    [] name = "boundary" -> BoundaryInputs(memory)
    [] name = "gap_fill" -> GapInputs(memory)
    [] name = "overnight_drift" -> DriftInputs(memory)

OnBar(name, m, bar, at, pos, draw, acct) ==
  CASE name = "go_no_go" -> GoNoGoOnBar(m, bar, at, pos, draw, acct)
    [] name = "go_no_go_levels_variant" ->
         GoNoGoLevelsVariantOnBar(m, bar, at, pos, draw, acct)
    [] name = "go_no_go_levels" -> GoNoGoLevelsOnBar(m, bar, at, pos, draw, acct)
    [] name = "ignition" -> IgnitionOnBar(m, bar, at, pos, draw, acct)
    [] name = "ignition_pulse" -> IgnitionPulseOnBar(m, bar, at, pos, draw, acct)
    [] name = "session" -> SessionOnBar(m, bar, at, pos, draw, acct)
    [] name = "regime" -> RegimeOnBar(m, bar, at, pos, draw, acct)
    [] name = "anti" -> AntiOnBar(m, bar, at, pos, draw, acct)
    [] name = "orb" -> OrbOnBar(m, bar, at, pos, draw, acct)
    [] name = "donchian" -> DonchianOnBar(m, bar, at, pos, draw, acct)
    [] name = "turtles_system2" -> TurtlesOnBar(m, bar, at, pos, draw, acct)
    [] name = "turtle_soup" -> TurtleSoupOnBar(m, bar, at, pos, draw, acct)
    [] name = "bb_mr" -> BbMrOnBar(m, bar, at, pos, draw, acct)
    [] name = "ema_cross" -> EmaCrossOnBar(m, bar, at, pos, draw, acct)
    [] name = "supertrend" -> SupertrendOnBar(m, bar, at, pos, draw, acct)
    [] name = "boundary" -> BoundaryOnBar(m, bar, at, pos, draw, acct)
    [] name = "gap_fill" -> GapOnBar(m, bar, at, pos, draw, acct)
    [] name = "overnight_drift" -> DriftOnBar(m, bar, at, pos, draw, acct)

WantsForceFlat(name, at) ==
  CASE name = "boundary" -> BoundaryWantsForceFlat(at)
    [] name = "gap_fill" -> GapWantsForceFlat(at)
    [] name = "overnight_drift" -> DriftWantsForceFlat(at)
    [] OTHER -> FALSE

TakesLevels(name) == name \in {"boundary", "go_no_go_levels", "go_no_go_levels_variant"}
=============================================================================
