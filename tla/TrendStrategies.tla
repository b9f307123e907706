--------------------------- MODULE TrendStrategies ---------------------------
(***************************************************************************)
(* The strategies that follow GO/NO-GO, PULSE or a trend.  Each is what    *)
(* its configuration allows, the memory it is built with, and on_bar: from *)
(* the memory, the bar, the minute of the day, the strategy's position,    *)
(* the bracket and size this bar leads to and the account, the memory it   *)
(* keeps and the answer it gives.                                          *)
(*                                                                         *)
(* Source: src/acme/strategies/go_no_go_strategy.py, go_no_go_levels.py,   *)
(* go_no_go_levels_strategy.py, ignition.py, ignition_pulse_test.py,       *)
(* session.py, regime.py.                                                  *)
(***************************************************************************)
EXTENDS Signals, Detectors

LOCAL Hours(first, last) == (60 * first)..(60 * last - 1)
LOCAL Inside(windows, minute) == windows = {} \/ minute \in UNION windows

Directions(longs, shorts) ==
  {side \in {Long, Short} : IF side = Long THEN longs ELSE shorts}

(* Bars a position has been held, to the two an opposite exit asks for;    *)
(* zero exactly when the strategy was flat on the bar before.              *)
MinBarsHeld == 2
BarsHeld(held, position) ==
  IF position = 0 THEN 0 ELSE SmallerOf(held + 1, MinBarsHeld)
-----------------------------------------------------------------------------
(* go_no_go *)
GoNoGoWindows == {}
GoNoGoDirections == Directions(TRUE, TRUE)
GoNoGoFresh == [vr |-> NoRatio]
GoNoGoInputs(memory) == GoNoGoBarsAfter(memory.vr)

GoNoGoOnBar(memory, bar, at, position, draw, account) ==
  LET raw == GoNoGoSignal(memory.vr, bar)
      goes == IF position # 0 THEN Opposes(raw, position)
              ELSE /\ Inside(GoNoGoWindows, at.minute)
                   /\ raw \in GoNoGoDirections
  IN  Returns([vr |-> GoNoGoRemembers(memory.vr, bar)],
              IF goes THEN BuildSignal(raw, draw, account, position) ELSE Nothing)
-----------------------------------------------------------------------------
(* go_no_go_levels, the research variant: bars carry how far the nearest   *)
(* level on the side of the signal is, once levels are set.                *)
Distances == {"near", "far", "missing"}
LevelBars(memory) ==
  {[gng |-> bar, level |-> d] :
     bar \in GoNoGoBarsAfter(memory.vr),
     d \in IF memory.levels THEN Distances ELSE {"missing"}}

LevelsWindows == {Hours(8, 12)}
LevelsDirections == Directions(TRUE, TRUE)
LevelsFresh == [vr |-> NoRatio, levels |-> FALSE]
SetLevels(memory) == [memory EXCEPT !.levels = TRUE]
LevelProximityOk(bar) == bar.level = "near"

GoNoGoLevelsVariantOnBar(memory, bar, at, position, draw, account) ==
  LET raw == GoNoGoSignal(memory.vr, bar.gng)
      goes == /\ IF position # 0 THEN Opposes(raw, position)
                 ELSE raw \in LevelsDirections
              /\ Inside(LevelsWindows, at.minute)
              /\ LevelProximityOk(bar)
  IN  Returns([memory EXCEPT !.vr = GoNoGoRemembers(@, bar.gng)],
              IF goes THEN BuildSignal(raw, draw, account, position) ELSE Nothing)

(* go_no_go_levels, as deployed: the same gates, every refusal named.  A   *)
(* gate of the strategy's own fails as PASS, an outside one as NEAR.       *)
KeeperLevelsWindows == {Hours(8, 12)}
KeeperLevelsDirections == Directions(TRUE, TRUE)
KeeperLevelsFresh == [vr |-> NoRatio, levels |-> FALSE]
NearestLevelForSide(bar) == bar.level

HeldLevels(raw, bar, at, position, draw, account) ==
  IF /\ Opposes(raw, position)
     /\ NearestLevelForSide(bar) = "near"
     /\ Inside(KeeperLevelsWindows, at.minute)
  THEN BuildSignal(raw, draw, account, position) ELSE Say("hold")

FlatLevels(raw, bar, at, draw, account) ==
  IF raw = Wait \/ NearestLevelForSide(bar) # "near" THEN Say("pass")
  ELSE IF \/ ~Inside(KeeperLevelsWindows, at.minute)
          \/ raw \notin KeeperLevelsDirections
       THEN Near(raw) ELSE BuildSignal(raw, draw, account, Flat)

GoNoGoLevelsOnBar(memory, bar, at, position, draw, account) ==
  LET raw == GoNoGoSignal(memory.vr, bar.gng)
  IN  Returns([memory EXCEPT !.vr = GoNoGoRemembers(@, bar.gng)],
              IF ~bar.gng.warm THEN Nothing
              ELSE IF position # 0
                   THEN HeldLevels(raw, bar, at, position, draw, account)
                   ELSE FlatLevels(raw, bar, at, draw, account))
-----------------------------------------------------------------------------
(* ignition: GO/NO-GO, long only, and an opposite signal closes a position *)
(* only from its second bar on.                                            *)
IgnitionWindows == {}
IgnitionDirections == Directions(TRUE, FALSE)
IgnitionFresh == [vr |-> NoRatio, held |-> 0]
IgnitionHeld(memory, position) == BarsHeld(memory.held, position)

IgnitionOnBar(memory, bar, at, position, draw, account) ==
  LET raw == GoNoGoSignal(memory.vr, bar)
      held == IgnitionHeld(memory, position)
      goes == IF position # 0 THEN Opposes(raw, position) /\ held >= MinBarsHeld
              ELSE /\ Inside(IgnitionWindows, at.minute)
                   /\ raw \in IgnitionDirections
  IN  Returns([vr |-> GoNoGoRemembers(memory.vr, bar), held |-> held],
              IF goes THEN BuildSignal(raw, draw, account, position) ELSE Nothing)

(* ignition_pulse: the same exits behind PULSE's edge. *)
PulseWindows == {}
PulseDirections == Directions(TRUE, FALSE)
PulseFresh == [separations |-> 0, held |-> 0]
PulseInputs(memory) == {bar \in PulseBars : bar.warm \/ memory.separations = 0}
PulseHeld(memory, position) == BarsHeld(memory.held, position)

IgnitionPulseOnBar(memory, bar, at, position, draw, account) ==
  LET raw == IF PulseReady(memory.separations, bar) THEN PulseSignal(bar) ELSE Wait
      held == PulseHeld(memory, position)
      goes == IF position # 0 THEN Opposes(raw, position) /\ held >= MinBarsHeld
              ELSE /\ Inside(PulseWindows, at.minute)
                   /\ raw \in PulseDirections
  IN  Returns([separations |-> PulseRemembers(memory.separations, bar),
               held |-> held],
              IF goes THEN BuildSignal(raw, draw, account, position) ELSE Nothing)
-----------------------------------------------------------------------------
(* session: the bias of the last twelve hours, unless the last bars moved  *)
(* against it; the position is closed on leaving the window.               *)
SessionWindows == {}
SessionDirections == Directions(TRUE, FALSE)
SessionFresh == [warm |-> FALSE, inside |-> FALSE]
SessionInputs(memory) ==
  {bar \in [warm : BOOLEAN, bias : BiasVerdicts, against : BOOLEAN] :
     /\ memory.warm => bar.warm
     /\ bar.warm \/ bar.bias = "chop"
     /\ bar.against => bar.bias # "chop"}

TrendSide(trend) ==
  CASE trend = "trend_up" -> Long [] trend = "trend_down" -> Short [] OTHER -> Flat

RecentMoveOpposesBias(bar) == bar.against

SessionOnBar(memory, bar, at, position, draw, account) ==
  LET inside == Inside(SessionWindows, at.minute)
      side == TrendSide(bar.bias)
  IN  Returns([warm |-> bar.warm, inside |-> inside],
        IF ~bar.warm THEN Nothing
        ELSE IF position # 0
             THEN IF memory.inside /\ ~inside
                  THEN BuildSignal(IF position > 0 THEN Short ELSE Long,
                                   draw, account, position)
                  ELSE Nothing
        ELSE IF inside /\ ~RecentMoveOpposesBias(bar) /\ side \in SessionDirections
             THEN BuildSignal(side, draw, account, position) ELSE Nothing)
-----------------------------------------------------------------------------
(* regime: a trend while ranges expand; out when they no longer do, or     *)
(* when the trend turns, from the second bar on.                           *)
RegimeDirections == Directions(TRUE, FALSE)
RegimeFresh == [warm |-> FALSE, held |-> 0]
RegimeInputs(memory) ==
  {bar \in [vol : VolVerdicts, trend : TrendVerdicts] :
     /\ memory.warm => bar.vol # "none"
     /\ bar.vol = "none" => bar.trend = "chop"}
RegimeHeld(memory, position) == BarsHeld(memory.held, position)

RegimeLeaves(bar, held, position) ==
  /\ held >= MinBarsHeld
  /\ bar.vol # "high" \/ Opposes(TrendSide(bar.trend), position)

RegimeOnBar(memory, bar, at, position, draw, account) ==
  LET held == RegimeHeld(memory, position)
      side == TrendSide(bar.trend)
      out == IF position > 0 THEN Short ELSE Long
  IN  Returns([warm |-> bar.vol # "none", held |-> held],
        IF bar.vol = "none" THEN Nothing
        ELSE IF position # 0
             THEN IF RegimeLeaves(bar, held, position)
                  THEN BuildSignal(out, draw, account, position) ELSE Nothing
        ELSE IF bar.vol = "high" /\ side \in RegimeDirections
             THEN BuildSignal(side, draw, account, position) ELSE Nothing)
=============================================================================
