---------------------------- MODULE Performance -----------------------------
(***************************************************************************)
(* The rolling record of a strategy's closed trades and the confidence     *)
(* computed from it.  Money is in dollars, time in days; the terms of the  *)
(* confidence are in hundredths, the confidence in ten-thousandths.        *)
(*                                                                         *)
(* Source: src/acme/perf/tracker.py, src/acme/perf/scoring.py.             *)
(***************************************************************************)
EXTENDS Integers, Sequences, FiniteSets, SequencesExt

CONSTANTS
  MaxTrades,           \* PerfTracker.max_trades
  WindowTrades,        \* PerfTracker.window_n_trades
  WindowDays,          \* PerfTracker.window_n_days
  MaxAllowedDrawdown   \* DEFAULT_MAX_ALLOWED_DD

ASSUME PerformanceAssumption ==
  /\ MaxTrades \in Nat \ {0} /\ WindowTrades \in 1..MaxTrades
  /\ WindowDays \in Nat /\ MaxAllowedDrawdown \in Nat \ {0}

LastOf(n, seq) == SubSeq(seq, IF Len(seq) > n THEN Len(seq) - n + 1 ELSE 1, Len(seq))
-----------------------------------------------------------------------------
(* A trade is [pnl, day]; a tracker keeps the last MaxTrades of them. *)
Record_Unbounded(trades, trade) == Append(trades, trade)
Record(trades, trade) == LastOf(MaxTrades, Append(trades, trade))

(* The last WindowTrades trades or those of the last WindowDays days, *)
(* whichever are more.                                                *)
Since(trades, first) ==
  FoldLeft(LAMBDA late, t : IF t.day >= first THEN Append(late, t) ELSE late, <<>>, trades)

Window(trades, today) ==
  LET byTime == Since(trades, today - WindowDays)
      byCount == LastOf(WindowTrades, trades)
  IN  IF Len(byTime) >= Len(byCount) THEN byTime ELSE byCount

Total(amounts) == FoldLeft(LAMBDA sum, a : sum + a, 0, amounts)
SumOver(Value(_), trades) == Total([i \in DOMAIN trades |-> Value(trades[i])])
NetPnl(trades) == SumOver(LAMBDA t : t.pnl, trades)
GrossWins(trades) == SumOver(LAMBDA t : IF t.pnl > 0 THEN t.pnl ELSE 0, trades)
GrossLosses(trades) == SumOver(LAMBDA t : IF t.pnl < 0 THEN -t.pnl ELSE 0, trades)

Above(a, b) == IF a > b THEN a ELSE b
Grown(curve, t) ==
  LET equity == curve.equity + t.pnl
      peak == Above(curve.peak, equity)
  IN  [equity |-> equity, peak |-> peak, worst |-> Above(curve.worst, peak - equity)]
MaxDrawdown(trades) ==
  FoldLeft(Grown, [equity |-> 0, peak |-> 0, worst |-> 0], trades).worst
-----------------------------------------------------------------------------
Clipped_NoFloor(percent) == IF percent > 100 THEN 100 ELSE percent
Clipped(percent) == IF percent < 0 THEN 0 ELSE IF percent > 100 THEN 100 ELSE percent

(* Half the Sharpe ratio: sum / deviation * sqrt(252) / 2, without roots.  *)
(* It is 0 when the trades do not vary, whatever they earned.              *)
Spread(trades) ==
  Len(trades) * SumOver(LAMBDA t : t.pnl * t.pnl, trades) - NetPnl(trades) * NetPnl(trades)
RatiosReached(trades) ==
  LET n == Len(trades)
      sum == NetPnl(trades)
      spread == Spread(trades)
  IN  {k \in 1..100 : k * k * n * spread <= 10000 * 63 * (n - 1) * sum * sum}
SharpeTerm(trades) ==
  IF Len(trades) <= 1 \/ Spread(trades) <= 0 \/ NetPnl(trades) <= 0 THEN 0
  ELSE Cardinality(RatiosReached(trades))

ProfitTerm(trades) ==
  LET losses == GrossLosses(trades)
  IN  IF losses = 0 THEN 50 ELSE Clipped(((GrossWins(trades) - losses) * 100) \div losses)

SampleTerm(trades) == Clipped(2 * Len(trades))
DrawdownTerm(trades) == Clipped(100 - (100 * MaxDrawdown(trades)) \div MaxAllowedDrawdown)

LifecycleFloor(state) ==
  CASE state = "REPLAY" -> 10 [] state = "SHADOW" -> 30
    [] state = "PILOT" -> 50 [] state = "LIVE" -> 70 [] OTHER -> 0

Weighed(sharpe, profit, sample, drawdown, floor) ==
  40 * sharpe + 25 * profit + 15 * sample + 10 * drawdown + 10 * floor

Confidence(trades, today, state) ==
  LET window == Window(trades, today)
  IN  IF window = <<>> THEN Weighed(0, 50, 0, 100, LifecycleFloor(state))
      ELSE Weighed(SharpeTerm(window), ProfitTerm(window), SampleTerm(window),
                   DrawdownTerm(window), LifecycleFloor(state))
-----------------------------------------------------------------------------
(* A tracker replayed from the rows of a table, oldest first: the table's  *)
(* answer holds at most limit rows.                                        *)
Trade(row) == [pnl |-> row.pnl, day |-> row.day]
ReplayedFrom(rows, strategy) ==
  FoldLeft(LAMBDA trades, r : IF r.strategy = strategy THEN Record(trades, Trade(r)) ELSE trades,
           <<>>, rows)
Replayed(rows, limit, strategy) ==
  ReplayedFrom(SubSeq(rows, 1, IF Len(rows) < limit THEN Len(rows) ELSE limit), strategy)

(* All the trades of a strategy that the table knows of. *)
TradesOf(rows, strategy) ==
  FoldLeft(LAMBDA trades, r : IF r.strategy = strategy THEN Append(trades, Trade(r)) ELSE trades,
           <<>>, rows)
=============================================================================
