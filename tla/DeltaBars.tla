----------------------------- MODULE DeltaBars -----------------------------
(***************************************************************************)
(* Two-minute bars with signed flow, as the v3 engines see them: the live  *)
(* builder, fed one tick at a time, and the replay's session counter, fed  *)
(* whole bars.  A moment is a minute counted from midnight of day 0,       *)
(* Central Time; prices are whole numbers.                                 *)
(*                                                                         *)
(* Source: src/acme/ryan_spec/v3_tick_delta.py and                         *)
(* src/acme/backtest/v3_replay.py.                                         *)
(***************************************************************************)
EXTENDS Integers

DayLength == 1440
SessionOpen == 60 * 8 + 30
Evening == 60 * 17              \* topstep_trading_date rolls here

MinuteOfDay(t) == t % DayLength
BucketFloor(t) == 2 * (t \div 2)

SessionAnchor_Midnight(t) == t - MinuteOfDay(t)
\* The last session open that is not after t.
SessionAnchor(t) == LET today == t - MinuteOfDay(t) + SessionOpen
                    IN  IF t >= today THEN today ELSE today - DayLength
-----------------------------------------------------------------------------
(* LiveBarDeltaBuilder.  Between two ticks the close of the bar in         *)
(* progress is the last price seen.                                        *)

NoBucket == -1
NoPrice == -1
NoAnchor == -DayLength

NewBuilder == [bucket |-> NoBucket, open |-> 0, high |-> 0, low |-> 0, delta |-> 0,
               last |-> NoPrice, heading |-> 0, anchor |-> NoAnchor, cum |-> 0]

Heading(b, price) ==
  CASE b.last = NoPrice -> 0
    [] b.last # NoPrice /\ price > b.last -> 1
    [] b.last # NoPrice /\ price < b.last -> -1
    [] OTHER -> b.heading                     \* a tie carries the sign forward

\* add_quote_tick: every quote weighs one.
Quote(price) == [price |-> price, size |-> 1, side |-> "unknown"]
\* add_trade: the aggressor's side, when the feed tells it, decides the sign
\* and leaves the carried direction alone.
Signed(b, tick) == CASE tick.side = "buy" -> tick.size
                     [] tick.side = "sell" -> -tick.size
                     [] OTHER -> tick.size * Heading(b, tick.price)
HeadingAfter(b, tick) == IF tick.side = "unknown" THEN Heading(b, tick.price)
                                                  ELSE b.heading

OpenBar(b, t, price) ==
  [b EXCEPT !.bucket = BucketFloor(t), !.open = price, !.high = price,
            !.low = price, !.delta = 0]

Accumulate(b, tick) ==
  [b EXCEPT !.high = IF tick.price > @ THEN tick.price ELSE @,
            !.low = IF tick.price < @ THEN tick.price ELSE @,
            !.delta = @ + Signed(b, tick),
            !.last = tick.price,
            !.heading = HeadingAfter(b, tick)]

ClosesBar(b, t) == b.bucket \notin {NoBucket, BucketFloor(t)}

MaybeResetSession(b) == LET anchor == SessionAnchor(b.bucket) IN
  [b EXCEPT !.anchor = anchor, !.cum = IF b.anchor = anchor THEN @ ELSE 0]
CloseBar(b) == LET reset == MaybeResetSession(b)
               IN  [reset EXCEPT !.cum = @ + b.delta]
ClosedBar(b) == [t |-> b.bucket, o |-> b.open, h |-> b.high, l |-> b.low,
                 c |-> b.last, delta |-> b.delta]

Ingest(b, t, tick) ==
  LET closed == IF ClosesBar(b, t) THEN CloseBar(b) ELSE b
      ready == IF b.bucket = BucketFloor(t) THEN b ELSE OpenBar(closed, t, tick.price)
  IN  Accumulate(ready, tick)

\* The partial bar drained at shutdown.
ForceCloseCurrent(b) == [CloseBar(b) EXCEPT !.bucket = NoBucket]
-----------------------------------------------------------------------------
(* The replay's _CumDeltaSession.                                          *)

NewSession == [cum |-> 0, date |-> -1]

TradingDate(t) == t \div DayLength + IF MinuteOfDay(t) < Evening THEN 0 ELSE 1

SessionUpdate(s, bar) ==
  LET crossed == TradingDate(bar.t) # s.date /\ MinuteOfDay(bar.t) >= SessionOpen
  IN  [cum |-> (IF crossed THEN 0 ELSE s.cum) + bar.delta,
       date |-> IF crossed THEN TradingDate(bar.t) ELSE s.date]
=============================================================================
