-------------------------- MODULE BreakoutStrategies --------------------------
(***************************************************************************)
(* The strategies that wait for a price to break, pull back or stretch.    *)
(* A bar is the verdict of the indicators each one reads; the dates that   *)
(* reset a day's count, the marks that a chance was used and the order of  *)
(* the tests are the code's.                                               *)
(*                                                                         *)
(* Source: src/acme/strategies/anti.py, orb.py, donchian.py,               *)
(* turtles_system2.py, turtle_soup.py, bb_mr.py, ema_cross.py,             *)
(* supertrend.py.                                                          *)
(***************************************************************************)
EXTENDS Signals, Detectors, TradingClock

NoDate == 0
LOCAL Sides == {Long, Short, Flat}
-----------------------------------------------------------------------------
(* anti: the slow stochastic leaves an extreme, then the fast one hooks    *)
(* back in the direction of the trend.  Levels are 0 (oversold), 1, 2      *)
(* (overbought); the fast one is above or below its average.               *)
Unknown == -9
AntiFresh == [slow |-> Unknown, fast |-> Unknown, fromTop |-> FALSE, fromBottom |-> FALSE]
AntiInputs(memory) ==
  [ready : IF memory.slow = Unknown THEN BOOLEAN ELSE {TRUE},
   slow : 0..2, fast : Sides, trend : {Up, Down, Wait}]

TrendDirection(bar) == bar.trend

AntiOnBar(memory, bar, at, position, draw, account) ==
  LET fromTop == memory.fromTop \/ (memory.slow = 2 /\ bar.slow < 2)
      fromBottom == memory.fromBottom \/ (memory.slow = 0 /\ bar.slow > 0)
      longs == /\ TrendDirection(bar) = Up /\ fromTop
               /\ memory.fast = Short /\ bar.fast = Long
      shorts == /\ TrendDirection(bar) = Down /\ fromBottom
                /\ memory.fast = Long /\ bar.fast = Short
      takes == position = 0 /\ (longs \/ shorts)
  IN  IF ~bar.ready THEN Returns(memory, Nothing)
      ELSE Returns([slow |-> bar.slow, fast |-> bar.fast,
                    fromTop |-> fromTop /\ ~(takes /\ longs),
                    fromBottom |-> fromBottom /\ ~(takes /\ shorts)],
                   IF takes
                   THEN BuildSignal(IF longs THEN Long ELSE Short, draw, account, position)
                   ELSE Nothing)
-----------------------------------------------------------------------------
(* orb: the range of the first three bars of the session, and one breakout *)
(* of each side, counted before it is sized or allowed.                    *)
OpeningBars == 3
OrbFresh == [date |-> NoDate, bars |-> 0, longTaken |-> FALSE, shortTaken |-> FALSE]
OrbInputs(memory) == [breaks : {Up, Down, Wait}]
OrbDay(memory, date) ==
  IF memory.date \in {NoDate, date} THEN [memory EXCEPT !.date = date]
  ELSE [OrbFresh EXCEPT !.date = date]

OrbOnBar(memory, bar, at, position, draw, account) ==
  LET today == OrbDay(memory, at.day)
      longs == bar.breaks = Up /\ ~today.longTaken
      shorts == bar.breaks = Down /\ ~today.shortTaken
  IN  IF at.minute < Clock(8, 30) THEN Returns(today, Nothing)
      ELSE IF today.bars < OpeningBars
           THEN Returns([today EXCEPT !.bars = @ + 1], Nothing)
      ELSE IF position = 0 /\ (longs \/ shorts)
           THEN Returns([today EXCEPT !.longTaken = @ \/ longs,
                                      !.shortTaken = @ \/ shorts],
                        BuildSignal(IF longs THEN Long ELSE Short, draw, account, position))
      ELSE Returns(today, Nothing)
-----------------------------------------------------------------------------
(* donchian: a close beyond the channel of the bars before, once a day.    *)
DonchianFresh == [warm |-> FALSE, date |-> NoDate, fired |-> FALSE]
DonchianInputs(memory) ==
  {bar \in [warm : BOOLEAN, breaks : {Up, Down, Wait}] :
     (memory.warm => bar.warm) /\ (bar.warm \/ bar.breaks = Wait)}

FiredToday_AnyDay(memory, date) == memory.fired /\ memory.date # date
FiredToday(memory, date) == memory.fired /\ memory.date = date

DonchianOnBar(memory, bar, at, position, draw, account) ==
  LET fired == FiredToday(memory, at.day)
      answer == IF bar.warm /\ ~fired /\ position = 0 /\ bar.breaks # Wait
                THEN BuildSignal(bar.breaks, draw, account, position) ELSE Nothing
  IN  Returns([warm |-> bar.warm, date |-> at.day,
               fired |-> fired \/ answer.outcome = "signal"], answer)

(* turtles_system2: the same breakout of a longer channel.                 *)
TurtlesFresh == DonchianFresh
TurtlesOnBar(memory, bar, at, position, draw, account) ==
  DonchianOnBar(memory, bar, at, position, draw, account)

(* turtle_soup: a new extreme that the close gives back is faded.          *)
TurtleSoupFresh == DonchianFresh
TurtleSoupOnBar(memory, bar, at, position, draw, account) ==
  DonchianOnBar(memory, [bar EXCEPT !.breaks = -@], at, position, draw, account)
-----------------------------------------------------------------------------
(* bb_mr: outside a band with an extreme oscillator while nothing trends,  *)
(* around midday, twice a day; no target left of the middle, no trade.     *)
BbMrCap == 2
BbMrHours == Clock(10, 30)..Clock(14, 0)
BbMrFresh == [warm |-> FALSE, date |-> NoDate, trades |-> 0]
BbMrInputs(memory) ==
  {bar \in [warm : BOOLEAN, ranging : BOOLEAN, stretched : {Up, Down, Wait}] :
     /\ memory.warm => bar.warm
     /\ bar.warm \/ (~bar.ranging /\ bar.stretched = Wait)}

BbMrTrades(memory, date) == IF memory.date = date THEN memory.trades ELSE 0

BbMrOnBar(memory, bar, at, position, draw, account) ==
  LET trades == BbMrTrades(memory, at.day)
      answer == IF /\ bar.warm /\ position = 0 /\ trades < BbMrCap
                   /\ at.minute \in BbMrHours
                   /\ bar.ranging /\ bar.stretched # Wait
                THEN BuildSignal(-bar.stretched, draw, account, position) ELSE Nothing
  IN  Returns([warm |-> bar.warm, date |-> at.day,
               trades |-> IF answer.outcome = "signal" THEN trades + 1 ELSE trades],
              answer)
-----------------------------------------------------------------------------
(* ema_cross and supertrend: a trend that turns, while flat.  The trend is *)
(* followed while a position is open too.                                  *)
EmaCrossFresh == [trend |-> Wait]
EmaCrossInputs(memory) ==
  [cross : IF memory.trend = Wait THEN {Up, Down, Wait} ELSE {Up, Down}]

EmaCrossOnBar(memory, bar, at, position, draw, account) ==
  LET turn == Flip(memory.trend, bar.cross)
  IN  Returns([trend |-> Carried(memory.trend, bar.cross)],
              IF turn # Wait /\ position = 0
              THEN BuildSignal(turn, draw, account, position) ELSE Nothing)

SupertrendFresh == [trend |-> Wait]
SupertrendInputs(memory) == [cross : {Up, Down, Wait}]

SupertrendOnBar(memory, bar, at, position, draw, account) ==
  LET turn == Flip(memory.trend, bar.cross)
  IN  Returns([trend |-> Carried(memory.trend, bar.cross)],
              IF turn # Wait /\ position = 0
              THEN BuildSignal(turn, draw, account, position) ELSE Nothing)
=============================================================================
