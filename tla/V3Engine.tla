----------------------------- MODULE V3Engine ------------------------------
(***************************************************************************)
(* The Ryan-Spec v3 engine and the v4 wrapper that gates its entries by    *)
(* regime, as functions from an engine and a closed bar to a decision and  *)
(* the engine after it.  A variant is a record of the constructor's flags. *)
(* Bollinger bands and the ATR enter as "warm after BbPeriod bars" and a   *)
(* number the bar carries; ATR multiples are of one.                       *)
(*                                                                         *)
(* Source: src/acme/ryan_spec/v3_engine.py, v4_engine.py.                  *)
(***************************************************************************)
EXTENDS Integers, Sequences, TLC

CONSTANTS
  BbPeriod,       \* BB_PERIOD: bars before the indicators are warm
  TimeStopBars,   \* TIME_STOP_BARS
  FilterThresh,   \* FILTER_THRESH
  Window,         \* filter_pctile_window_bars
  MinSamples      \* MIN_PCTILE_SAMPLES

ASSUME EngineAssumption ==
  /\ BbPeriod \in Nat \ {0} /\ TimeStopBars \in Nat \ {0}
  /\ Window \in Nat \ {0} /\ MinSamples \in Nat

SessionEnd == 60 * 14 + 50
StopDistance(atr) == (3 * atr) \div 2              \* STOP_ATR_MULT = 1.5

Long == 1
Short == -1
Flat == [dir |-> 0]

\* The constructor's defaults: the canonical engine.
Canon == [trailing |-> FALSE, minBars |-> 0, armored |-> FALSE, armor |-> 0,
          pctile |-> FALSE, low |-> 0, high |-> 0,
          sessionEnd |-> TRUE, timeStop |-> TRUE,
          capped |-> FALSE, ceiling |-> 0, blacklist |-> {}, fastFail |-> FALSE,
          gate |-> "none", classifier |-> "trend_ema"]

\* `bars' counts the history up to the length an entry needs.
NewEngine == [bars |-> 0, prior |-> [o |-> 0, c |-> 0], flows |-> <<>>, pos |-> Flat]

InPosition(e) == e.pos # Flat
-----------------------------------------------------------------------------
(* Entries and exits share the two-bar reversal.                           *)

Reversal(prior, bar) ==
  CASE prior.c <= prior.o /\ bar.c > bar.o /\ bar.c > prior.c -> Long
    [] prior.c >= prior.o /\ bar.c < bar.o /\ bar.c < prior.c -> Short
    [] OTHER -> 0

\* Python's round() of a ratio: ties go to the even neighbour.
Rounded(num, den) ==
  LET down == num \div den
      twice == 2 * (num % den)
  IN  IF twice > den \/ (twice = den /\ down % 2 = 1) THEN down + 1 ELSE down

PctileThreshold(flows, v, dir) ==
  LET last == Len(flows) - 1
      percent == IF dir = Long THEN v.low ELSE 100 - v.high
  IN  SortSeq(flows, <)[Rounded(percent * last, 100) + 1]

\* Buy after heavy selling, sell after heavy buying.
FilterBlocks(flows, v, dir, cum) ==
  IF v.pctile /\ Len(flows) >= MinSamples
  THEN cum * dir >= PctileThreshold(flows, v, dir) * dir
  ELSE cum * dir >= FilterThresh

HourOf(t) == (t % 1440) \div 60

None == [action |-> "none"]
Exit(reason) == [action |-> "exit", reason |-> reason]
Enter(dir, bar, stop) == [action |-> "enter", dir |-> dir, price |-> bar.c,
                          stop |-> stop, atr |-> bar.atr]

EvaluateEntry(e, v, bar, cum) ==
  LET dir == Reversal(e.prior, bar)
  IN  IF \/ e.bars < BbPeriod + 1
         \/ dir = 0
         \/ FilterBlocks(e.flows, v, dir, cum)
         \/ v.capped /\ bar.atr > v.ceiling
         \/ HourOf(bar.t) \in v.blacklist
      THEN None
      ELSE Enter(dir, bar, bar.c - dir * StopDistance(bar.atr))
-----------------------------------------------------------------------------
(* A position ages with every bar: excursions, then the bar-1 fast-fail,   *)
(* then the ratchet, then the four exits in the simulator's order.         *)

Larger(a, b) == IF a > b THEN a ELSE b
Tighter(dir, a, b) == IF dir * a > dir * b THEN a ELSE b

Favorable(pos, bar) == IF pos.dir = Long THEN bar.h - pos.entry ELSE pos.entry - bar.l
Adverse(pos, bar) == IF pos.dir = Long THEN pos.entry - bar.l ELSE bar.h - pos.entry

Aged(pos, bar) == [pos EXCEPT !.held = @ + 1,
                              !.mfe = Larger(@, Favorable(pos, bar)),
                              !.mae = Larger(@, Adverse(pos, bar))]

FastFails(pos, v) == v.fastFail /\ pos.held = 1 /\ 2 * pos.mae > 3 * pos.mfe

HighWater(pos) == pos.entry + pos.dir * pos.mfe

Ratchet(pos, v, bar) ==
  LET locked == IF pos.mfe >= pos.atr THEN Tighter(pos.dir, pos.stop, pos.entry) ELSE pos.stop
      trailed == HighWater(pos) - pos.dir * pos.atr
  IN  IF v.trailing /\ pos.atr > 0
      THEN [pos EXCEPT !.stop = IF pos.mfe >= 2 * pos.atr
                                THEN Tighter(pos.dir, locked, trailed) ELSE locked]
      ELSE pos

StopHit(pos, bar) == IF pos.dir = Long THEN bar.l <= pos.stop ELSE bar.h >= pos.stop

Held(pos, v) == \/ pos.held < v.minBars
                \/ v.armored /\ pos.atr > 0 /\ pos.mfe >= v.armor * pos.atr

ExitOf_ArmorFirst(e, pos, v, bar) ==
  CASE StopHit(pos, bar) -> Exit("stop")
    [] ~StopHit(pos, bar) /\ Held(pos, v) -> None
    [] OTHER -> IF v.sessionEnd /\ bar.t % 1440 >= SessionEnd THEN Exit("session_end")
                ELSE IF v.timeStop /\ pos.held >= TimeStopBars THEN Exit("time_stop") ELSE None
ExitOf(e, pos, v, bar) ==
  IF StopHit(pos, bar) THEN Exit("stop")
  ELSE IF v.sessionEnd /\ bar.t % 1440 >= SessionEnd THEN Exit("session_end")
  ELSE IF Reversal(e.prior, bar) = -pos.dir /\ ~Held(pos, v) THEN Exit("opposite_signal")
  ELSE IF v.timeStop /\ pos.held >= TimeStopBars THEN Exit("time_stop")
  ELSE None

\* The position after the bar and the decision about it.
Managed(e, v, bar) ==
  LET aged == Aged(e.pos, bar)
      ratcheted == Ratchet(aged, v, bar)
  IN  IF FastFails(aged, v) THEN [pos |-> aged, decision |-> Exit("bar1_fast_fail")]
      ELSE [pos |-> ratcheted, decision |-> ExitOf(e, ratcheted, v, bar)]
-----------------------------------------------------------------------------
(* RyanSpecV3Engine.on_bar: the history is kept before the bar is judged.  *)

KeptFlows(e, cum) ==
  LET kept == Append(e.flows, cum)
  IN  IF Len(kept) > Window THEN Tail(kept) ELSE kept

OnBar(e, v, bar, cum) ==
  LET seen == [e EXCEPT !.bars = IF @ > BbPeriod THEN @ ELSE @ + 1,
                        !.flows = IF v.pctile THEN KeptFlows(e, cum) ELSE <<>>]
      after == [seen EXCEPT !.prior = [o |-> bar.o, c |-> bar.c]]
  IN  IF seen.bars < BbPeriod THEN [engine |-> after, decision |-> None]
      ELSE IF InPosition(e)
           THEN LET m == Managed(seen, v, bar)
                IN  [engine |-> [after EXCEPT !.pos = m.pos], decision |-> m.decision]
           ELSE [engine |-> after, decision |-> EvaluateEntry(seen, v, bar, cum)]

OpenPosition(e, decision) ==
  [e EXCEPT !.pos = [dir |-> decision.dir, entry |-> decision.price,
                     stop |-> decision.price - decision.dir * StopDistance(decision.atr),
                     held |-> 0, mfe |-> 0, mae |-> 0, atr |-> decision.atr]]
ClosePosition(e) == [e EXCEPT !.pos = Flat]
-----------------------------------------------------------------------------
(* V4GatedEngine: a counter-regime entry is dropped, or turned round with  *)
(* its stop pivoted about the entry price.                                 *)

Counter(regime, dir) == \/ regime = "trend_up" /\ dir = Short
                        \/ regime = "trend_down" /\ dir = Long

Flipped_StopKept(d) == [d EXCEPT !.dir = -@]
Flipped(d) == [d EXCEPT !.dir = -@, !.stop = 2 * d.price - @]

Gated(v, regime, d) ==
  CASE v.gate = "none" \/ d.action # "enter" \/ regime = "chop" -> d
    [] OTHER -> IF ~Counter(regime, d.dir) THEN d
                ELSE IF v.gate = "gate" THEN None ELSE Flipped(d)
=============================================================================
