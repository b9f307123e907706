-------------------------- MODULE KeeperStrategies --------------------------
(***************************************************************************)
(* The strategies of the deployed fleet that keep a day's state and may    *)
(* ask to be flattened: boundary, gap_fill and overnight_drift.            *)
(*                                                                         *)
(* Source: src/acme/strategies/boundary.py, gap_fill.py,                   *)
(* overnight_drift.py, src/acme/levels.py.                                 *)
(***************************************************************************)
EXTENDS TradingClock, Signals, Detectors

NoDay == 0
KeeperTimeframe == 2
-----------------------------------------------------------------------------
(* boundary: an exhausted bar at a level of the night or of the opening    *)
(* range is faded.  Levels are of two classes; each is missing, far from   *)
(* the bar or near it.                                                     *)
LevelClasses == {"on", "or"}
SuppressedHours == [class \in LevelClasses |->
                      IF class = "or" THEN {0, 15, 18, 19, 23} ELSE {}]
BlacklistedHours == 9..13
ClearedAt == {Clock(8, 29), Clock(16, 59)}

BoundaryFresh == [warm |-> FALSE, levels |-> FALSE]
BoundaryInputs(memory) ==
  [exhausted : ExhaustionVerdicts,
   level : [LevelClasses ->
              IF memory.levels THEN {"missing", "far", "near"} ELSE {"missing"}]]

Hour(at) == at.minute \div 60
ClassesAllowedAt(hour) == {c \in LevelClasses : hour \notin SuppressedHours[c]}
NearestAmong(bar, classes) ==
  LET found == {bar.level[c] : c \in classes}
  IN  CASE "near" \in found -> "near"
        [] "far" \in found /\ "near" \notin found -> "far"
        [] OTHER -> "missing"

\* The bar that contains one of the two minutes.
BoundaryWantsForceFlat(at) ==
  \E close \in ClearedAt : close \in at.minute..(at.minute + KeeperTimeframe - 1)

BoundaryFlat(bar, at, draw, account) ==
  LET side == IF bar.exhausted = "top" THEN Short ELSE Long
  IN  IF NearestAmong(bar, ClassesAllowedAt(Hour(at))) # "near" THEN Say("pass")
      ELSE IF Hour(at) \in BlacklistedHours THEN Near(side)
      ELSE BuildSignal(side, draw, account, Flat)

BoundaryOnBar(memory, bar, at, position, draw, account) ==
  Returns(memory,
    IF bar.exhausted = "none" \/ ~memory.levels THEN Nothing
    ELSE IF position # 0 THEN Say("hold")
    ELSE BoundaryFlat(bar, at, draw, account))
-----------------------------------------------------------------------------
(* gap_fill: the close of 15:58 is remembered by date; the bar of 08:30    *)
(* fades a large enough gap to it, once.                                   *)
CloseBar == Clock(15, 58)
EntryBar == Clock(8, 30)
HardClose == Clock(13, 0)
GapDirections == {Long, Short}
DaysBack == 1..7

GapFresh == [closes |-> {}, entered |-> NoDay]
GapInputs(memory) ==
  {bar \in [gap : {Up, Down, Wait}, through : BOOLEAN] : bar.through => bar.gap # Wait}

RecordedCloses(memory, at) ==
  IF at.minute = CloseBar THEN memory.closes \cup {at.day} ELSE memory.closes
PriorCloseKnown(memory, day) == \E back \in DaysBack : day - back \in memory.closes

GapWantsForceFlat(at) == at.minute >= HardClose

GapEntered(memory, at, answer) ==
  IF answer.outcome = "signal" THEN at.day ELSE memory.entered

GapOnEntryBar(memory, bar, at, draw, account) ==
  LET side == -bar.gap
  IN  IF memory.entered = at.day THEN Near(Flat)
      ELSE IF ~PriorCloseKnown(memory, at.day) \/ bar.gap = Wait THEN Say("pass")
      ELSE IF side \notin GapDirections THEN Near(side)
      ELSE IF bar.through \/ ~Sizeable(draw) THEN Say("pass")
      ELSE BuildSignal(side, draw, account, Flat)

GapOnBar(memory, bar, at, position, draw, account) ==
  LET closed == [memory EXCEPT !.closes = RecordedCloses(memory, at)]
      answer == IF position # 0 THEN Say("hold")
                ELSE IF at.minute # EntryBar THEN Say("pass")
                ELSE GapOnEntryBar(closed, bar, at, draw, account)
  IN  Returns([closed EXCEPT !.entered = GapEntered(memory, at, answer)], answer)
-----------------------------------------------------------------------------
(* overnight_drift: the half hour before the close builds a bias bar; any  *)
(* bar from 17:00 of that date may buy a body inside the band, once.       *)
BiasBars == Clock(15, 30)..(Clock(16, 0) - 1)
DriftEntry == Clock(17, 0)
DriftClose == Clock(8, 0)

DriftFresh == [bias |-> NoDay, inBand |-> FALSE, entered |-> FALSE]
DriftInputs(memory) == [inBand : BOOLEAN]

DriftWantsForceFlat(at) == at.minute \in DriftClose..(DriftEntry - 1)

DriftBuilds(memory, bar, at) ==
  [bias |-> at.day, inBand |-> bar.inBand,
   entered |-> memory.entered /\ memory.bias = at.day]

DriftOnEntry(memory, at, draw, account) ==
  IF memory.bias # at.day THEN Say("pass")
  ELSE IF memory.entered THEN Near(Long)
  ELSE IF ~memory.inBand \/ ~Sizeable(draw) THEN Say("pass")
  ELSE BuildSignal(Long, draw, account, Flat)

DriftOnBar(memory, bar, at, position, draw, account) ==
  LET answer == IF position # 0 THEN Say("hold")
                ELSE IF at.minute < DriftEntry THEN Say("pass")
                ELSE DriftOnEntry(memory, at, draw, account)
  IN  IF position = 0 /\ at.minute \in BiasBars
      THEN Returns(DriftBuilds(memory, bar, at), answer)
      ELSE Returns([memory EXCEPT !.entered = @ \/ answer.outcome = "signal"], answer)
=============================================================================
