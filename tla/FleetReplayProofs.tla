------------------------- MODULE FleetReplayProofs -------------------------
(***************************************************************************)
(* What the offline drivers can rely on, for every calendar, every stream  *)
(* of bars and every account: a strategy's marks count its trades, and the *)
(* loss limits are overshot by one trade at most.  And the calendar gate   *)
(* itself, against the closing times.                                      *)
(***************************************************************************)
EXTENDS FleetReplay, FiniteSetTheorems, TLAPS

\* Minutes from a moment to the enforced close of its trading day.
MinutesToClose(day, minute) ==
  1440 * (TradingDate(day, minute) - day)
    + EnforcedClose(TradingDate(day, minute)) - minute

\* No day closes before 08:00, and no day that trades has no close.
LEMMA CloseTimes ==
  ASSUME NEW day \in Nat
  PROVE  /\ EnforcedClose(day) \in {480, 705, 910, 1440}
         /\ ~Closed(day) => EnforcedClose(day) \in {480, 705, 910}
BY DEF EnforcedClose, Clock, NormalClose, NoClose

\* The gate never lets an entry through in the last fifteen minutes before the
\* enforced close of the trading day it belongs to, nor after it: evenings,
\* early closes, weekends and holidays in any combination
\* (can_trade_now, calendar.py 151-184, with schedule_for, 95-120).
THEOREM EntriesStopInTime ==
  ASSUME NEW day \in Nat, NEW minute \in Minutes, CanTradeNow(day, minute)
  PROVE  /\ ~Closed(TradingDate(day, minute))
         /\ MinutesToClose(day, minute) > CloseBuffer
<1> DEFINE date == TradingDate(day, minute)
<1>1. /\ minute \in 0..1439
      /\ date \in {day, day + 1}
      /\ date = day + 1 <=> minute >= 1020
  BY DEF TradingDate, NormalResume, Clock, Minutes
<1>2. ~Closed(date) /\ (date = day => minute < FlattenAt(date))
  BY DEF CanTradeNow
<1>3. EnforcedClose(date) \in {480, 705, 910}
  BY <1>1, <1>2, CloseTimes
<1>4. MinutesToClose(day, minute) = 1440 * (date - day) + EnforcedClose(date) - minute
  BY DEF MinutesToClose
<1>5. MinutesToClose(day, minute) > CloseBuffer
  <2> DEFINE close == EnforcedClose(date)
  <2> HIDE DEF close, date
  <2>1. MinutesToClose(day, minute) = 1440 * (date - day) + close - minute
    BY <1>4 DEF close
  <2>2. close \in {480, 705, 910} /\ (date = day => minute < close - 15)
    BY <1>2, <1>3 DEF close, FlattenAt, CloseBuffer
  <2>3. QED
    BY <1>1, <2>1, <2>2 DEF CloseBuffer
<1>6. QED
  BY <1>2, <1>5
-----------------------------------------------------------------------------
(* The stream of bars, and what never changes.                             *)
\* A longer bar is of a day the stream reached, after those handed over.
Building ==
  /\ built.day \in 0..now.day /\ (built # Before => built.day # 0)
  /\ driver = "replay" /\ Timeframe(name) # 1 => openedOn <= built.day

Clocked ==
  /\ driver \in {"replay", "script"} /\ name \in AllStrategies
  /\ now \in Moments \cup {Before}
  /\ openedOn \in Nat /\ openedOn <= now.day /\ Building

\* The next bar is of the same day, or of a later one.
LEMMA BarsMoveOn ==
  ASSUME Clocked, NEW at \in Following[now]
  PROVE  at \in Moments /\ at.day \in Nat \ {0} /\ now.day \in Nat /\ now.day <= at.day
<1>1. at \in Moments /\ Later(now, at)
  BY DEF Clocked, Following, Earliest
<1>2. at.day \in 1..Days /\ now.day \in 0..Days
  BY <1>1, ReplayAssumption DEF Clocked, Moments, Before
<1>3. QED
  BY <1>1, <1>2, ReplayAssumption DEF Later

\* Between the bars of the stream, a strategy is asked about the bar that came
\* or about the one its timeframe completes, of its day or an earlier one.
AskedAbout(bar, at) ==
  bar.day \in Nat \ {0} /\ openedOn <= bar.day /\ bar.day <= at.day

\* Only a strategy that takes levels may be given some between two bars.
MayKeep(kept) == TakesLevels(name) \/ kept = memory

\* The bar being built, after the next minute.
LEMMA BuiltMoves ==
  ASSUME Clocked, NEW at \in Following[now]
  PROVE  /\ Built.day \in Nat /\ built.day <= Built.day /\ Built.day <= at.day
         /\ Built # Before => Built.day # 0
<1>1. at.day \in Nat \ {0} /\ now.day \in Nat /\ now.day <= at.day
  BY BarsMoveOn
<1>2. CASE Built = built
  BY <1>1, <1>2 DEF Clocked, Building
<1>3. CASE now # Before /\ Built = Label(now)
  <2>1. now \in Moments
    BY <1>3 DEF Clocked
  <2>2. Built.day = now.day /\ now.day # 0
    BY <1>3, <2>1, ReplayAssumption DEF Label, Moments
  <2>3. QED
    BY <1>1, <2>2 DEF Clocked, Building
<1>4. QED
  BY <1>2, <1>3 DEF Built

\* A step asks the strategy about the next bar or about the one just built,
\* shows it none, or leaves everything alone.
LEMMA Steps ==
  ASSUME Clocked, [Next]_vars
  PROVE  \/ UNCHANGED vars
         \/ /\ UNCHANGED <<driver, name>>
            /\ \E at \in Following[now] :
                 /\ now' = at
                 /\ built' = IF driver = "replay" THEN Built ELSE built
                 /\ \/ UNCHANGED <<memory, opened, openedOn>>
                    \/ \E bar, open, state, kept :
                         /\ AskedAbout(bar, at) /\ MayKeep(kept)
                         /\ driver = "replay" /\ Timeframe(name) # 1 => bar = built
                         /\ Ask(bar, open, state, kept)
<1>1. CASE ReplayBar
  <2>1. PICK at \in Following[now], touch \in Touches :
          /\ now' = at /\ built' = Built
          /\ \/ DoesNotAsk(StillOpen(touch), memory)
             \/ \E bar \in Closes(at) : \E state : Ask(bar, StillOpen(touch), state, memory)
    BY <1>1 DEF ReplayBar
  <2>2. UNCHANGED <<driver, name>> /\ driver = "replay" /\ MayKeep(memory)
    BY <1>1 DEF ReplayBar, MayKeep
  <2>3. CASE DoesNotAsk(StillOpen(touch), memory)
    BY <2>1, <2>2, <2>3 DEF DoesNotAsk
  <2>4. ASSUME NEW bar \in Closes(at), NEW state, Ask(bar, StillOpen(touch), state, memory)
        PROVE  AskedAbout(bar, at) /\ (Timeframe(name) # 1 => bar = built)
    <3>1. at \in Moments /\ at.day \in Nat \ {0} /\ now.day \in Nat /\ now.day <= at.day
      BY BarsMoveOn
    <3>2. CASE Timeframe(name) = 1
      <4>1. bar = at
        BY <2>4, <3>2 DEF Closes
      <4>2. QED
        BY <3>1, <3>2, <4>1 DEF AskedAbout, Clocked
    <3>3. CASE Timeframe(name) # 1
      <4>1. bar = built /\ built # Before
        BY <2>4, <3>3 DEF Closes
      <4>2. built.day \in 0..now.day /\ built.day # 0 /\ openedOn <= built.day
        BY <2>2, <3>3, <4>1 DEF Clocked, Building
      <4>3. QED
        BY <3>1, <4>1, <4>2 DEF AskedAbout
    <3>4. QED
      BY <3>2, <3>3
  <2>5. QED
    BY <2>1, <2>2, <2>3, <2>4
<1>2. CASE ScriptBar
  <2>1. PICK at \in Following[now] :
          now' = at /\ \E open, state, kept : MayKeep(kept) /\ Ask(at, open, state, kept)
    BY <1>2 DEF ScriptBar, MayKeep
  <2>2. AskedAbout(at, at)
    BY BarsMoveOn DEF AskedAbout, Clocked
  <2>3. UNCHANGED <<driver, name, built>> /\ driver = "script"
    BY <1>2 DEF ScriptBar
  <2>4. QED
    BY <2>1, <2>2, <2>3
<1>3. QED
  BY <1>1, <1>2 DEF Next

\* The clock's invariant holds at the start.
LEMMA ClockedInit == Init => Clocked
BY ReplayAssumption DEF Init, Clocked, Building, Before, NoDate

\* Every bar moves the clock on and keeps its invariant.
LEMMA ClockedStep == ASSUME Clocked, [Next]_vars PROVE Clocked'
<1>1. CASE UNCHANGED vars
  BY <1>1 DEF Clocked, Building, vars
<1>2. ASSUME UNCHANGED <<driver, name>>, NEW at \in Following[now], now' = at,
             built' = IF driver = "replay" THEN Built ELSE built,
             \/ UNCHANGED openedOn
             \/ \E bar : /\ AskedAbout(bar, at) /\ openedOn' = bar.day
                         /\ driver = "replay" /\ Timeframe(name) # 1 => bar = built
      PROVE  Clocked'
  <2>1. at \in Moments /\ at.day \in Nat \ {0} /\ now.day \in Nat /\ now.day <= at.day
    BY BarsMoveOn
  <2>2. openedOn' \in Nat /\ openedOn' <= at.day
    BY <1>2, <2>1 DEF AskedAbout, Clocked
  <2>3. driver = "replay" /\ Timeframe(name) # 1 => openedOn' <= built.day
    BY <1>2 DEF Clocked, Building
  <2>4. Building'
    <3>1. built.day \in Nat /\ built.day <= now.day /\ (built # Before => built.day # 0)
      BY <2>1 DEF Clocked, Building
    <3>2. /\ Built.day \in Nat /\ built.day <= Built.day /\ Built.day <= at.day
          /\ Built # Before => Built.day # 0
      BY BuiltMoves
    <3>3. CASE driver = "replay"
      BY <1>2, <2>2, <2>3, <3>1, <3>2, <3>3 DEF Building
    <3>4. CASE driver # "replay"
      BY <1>2, <2>1, <3>1, <3>4 DEF Building
    <3>5. QED
      BY <3>3, <3>4
  <2>5. QED
    BY <1>2, <2>1, <2>2, <2>4 DEF Clocked
<1>3. QED
  BY <1>1, <1>2, Steps DEF Ask
-----------------------------------------------------------------------------
(* A strategy's account of its day's trades, and the driver's count.       *)
Bit(mark) == IF mark THEN 1 ELSE 0
Marked(strategy, m, day, count) ==
  /\ strategy \in {"donchian", "turtles_system2", "turtle_soup"} =>
       m.date = day /\ m.fired \in BOOLEAN /\ count = Bit(m.fired)
  /\ strategy = "bb_mr" => m.date = day /\ m.trades \in 0..2 /\ count = m.trades
  /\ strategy = "gap_fill" =>
       /\ m = [closes |-> m.closes, entered |-> m.entered]
       /\ m.entered \in 0..day /\ count = Bit(m.entered = day /\ day # 0)
  /\ strategy = "overnight_drift" =>
       /\ m = [bias |-> m.bias, inBand |-> m.inBand, entered |-> m.entered]
       /\ m.bias \in 0..day /\ m.entered \in BOOLEAN
       /\ count = Bit(m.entered /\ m.bias = day)
  /\ strategy = "orb" =>
       /\ m = [date |-> m.date, bars |-> m.bars,
               longTaken |-> m.longTaken, shortTaken |-> m.shortTaken]
       /\ m.date = day /\ m.longTaken \in BOOLEAN /\ m.shortTaken \in BOOLEAN
       /\ count \in 0..(Bit(m.longTaken) + Bit(m.shortTaken))
ShotInv == Marked(name, memory, openedOn, opened)

(* What the driver counts when it asks about a bar of that day.            *)
Counted(day, on, count, said) ==
  (IF day = on THEN count ELSE 0) + (IF said.answer.outcome = "signal" THEN 1 ELSE 0)

\* A donchian breakout marks its day, and a marked day breaks out no more.
LEMMA DonchianMarks ==
  ASSUME NEW m, NEW bar, NEW at, NEW pos, NEW draw, NEW acct,
         NEW on, NEW count, on = m.date, m.fired \in BOOLEAN, count = Bit(m.fired)
  PROVE  LET said == DonchianOnBar(m, bar, at, pos, draw, acct)
         IN  /\ said.memory.date = at.day /\ said.memory.fired \in BOOLEAN
             /\ Counted(at.day, on, count, said) = Bit(said.memory.fired)
<1> DEFINE fired == FiredToday(m, at.day)
           answer == IF bar.warm /\ ~fired /\ pos = 0 /\ bar.breaks # Wait
                     THEN BuildSignal(bar.breaks, draw, acct, pos) ELSE Nothing
           said == DonchianOnBar(m, bar, at, pos, draw, acct)
<1>1. fired \in BOOLEAN /\ (fired <=> m.fired /\ m.date = at.day)
  BY DEF FiredToday
<1>2. fired => answer.outcome # "signal"
  BY DEF Nothing, Say
<1>3. /\ said.memory.date = at.day
      /\ said.memory.fired = (fired \/ answer.outcome = "signal")
      /\ said.answer = answer
  BY DEF DonchianOnBar, Returns
<1> HIDE DEF fired, answer, said
<1>4. Counted(at.day, on, count, said) = Bit(said.memory.fired)
  <2>1. CASE answer.outcome = "signal"
    <3>1. ~fired /\ said.memory.fired = TRUE
      BY <1>2, <1>3, <2>1
    <3>2. at.day = on => count = 0
      BY <1>1, <3>1 DEF Bit
    <3>3. QED
      BY <1>3, <2>1, <3>1, <3>2 DEF Counted, Bit
  <2>2. CASE answer.outcome # "signal"
    <3>1. said.memory.fired = fired
      BY <1>1, <1>3, <2>2
    <3>2. CASE fired
      BY <1>1, <1>3, <2>2, <3>1, <3>2 DEF Counted, Bit
    <3>3. CASE ~fired
      <4>1. at.day = on => count = 0
        BY <1>1, <3>3 DEF Bit
      <4>2. QED
        BY <1>3, <2>2, <3>1, <3>3, <4>1 DEF Counted, Bit
    <3>4. QED
      BY <3>2, <3>3
  <2>3. QED
    BY <2>1, <2>2
<1>5. QED
  BY <1>1, <1>3, <1>4 DEF said

\* bb_mr counts to two.
LEMMA BbMrMarks ==
  ASSUME NEW m, NEW bar, NEW at, NEW pos, NEW draw, NEW acct,
         NEW on, NEW count, on = m.date, m.trades \in 0..2, count = m.trades
  PROVE  LET said == BbMrOnBar(m, bar, at, pos, draw, acct)
         IN  /\ said.memory.date = at.day /\ said.memory.trades \in 0..2
             /\ Counted(at.day, on, count, said) = said.memory.trades
<1> DEFINE taken == BbMrTrades(m, at.day)
           answer == IF /\ bar.warm /\ pos = 0 /\ taken < BbMrCap
                        /\ at.minute \in BbMrHours
                        /\ bar.ranging /\ bar.stretched # Wait
                     THEN BuildSignal(-bar.stretched, draw, acct, pos) ELSE Nothing
           said == BbMrOnBar(m, bar, at, pos, draw, acct)
<1>1. taken \in 0..2 /\ taken = (IF at.day = on THEN count ELSE 0)
  BY DEF BbMrTrades
<1>2. ~(taken < 2) => answer.outcome # "signal"
  BY DEF Nothing, Say, BbMrCap
<1>3. /\ said.memory.date = at.day
      /\ said.memory.trades = (IF answer.outcome = "signal" THEN taken + 1 ELSE taken)
      /\ said.answer = answer
  BY DEF BbMrOnBar, Returns
<1> HIDE DEF taken, answer, said
<1>4. said.memory.trades \in 0..2
  BY <1>1, <1>2, <1>3
<1>5. Counted(at.day, on, count, said) = said.memory.trades
  BY <1>1, <1>3 DEF Counted
<1>6. QED
  BY <1>3, <1>4, <1>5 DEF said

\* gap_fill stamps the date it enters on.
LEMMA GapMarks ==
  ASSUME NEW m, NEW bar, NEW at, NEW pos, NEW draw, NEW acct,
         NEW on \in Nat, NEW count,
         m = [closes |-> m.closes, entered |-> m.entered], m.entered \in 0..on,
         count = Bit(m.entered = on /\ on # 0),
         at.day \in Nat \ {0}, on <= at.day
  PROVE  LET said == GapOnBar(m, bar, at, pos, draw, acct)
         IN  /\ said.memory = [closes |-> said.memory.closes, entered |-> said.memory.entered]
             /\ said.memory.entered \in 0..at.day
             /\ Counted(at.day, on, count, said) = Bit(said.memory.entered = at.day)
<1> DEFINE closed == [m EXCEPT !.closes = RecordedCloses(m, at)]
           answer == IF pos # 0 THEN Say("hold")
                     ELSE IF at.minute # EntryBar THEN Say("pass")
                     ELSE GapOnEntryBar(closed, bar, at, draw, acct)
           said == GapOnBar(m, bar, at, pos, draw, acct)
<1>1. closed = [closes |-> RecordedCloses(m, at), entered |-> m.entered]
  OBVIOUS
<1>2. answer.outcome = "signal" => m.entered # at.day
  <2>1. closed.entered = m.entered
    BY <1>1
  <2> HIDE DEF closed
  <2>2. m.entered = at.day => answer \in {Say("hold"), Say("pass"), Near(Flat)}
    BY <2>1 DEF GapOnEntryBar
  <2>3. QED
    BY <2>2 DEF Say, Near
<1>3. /\ said.memory = [closes |-> RecordedCloses(m, at), entered |-> GapEntered(m, at, answer)]
      /\ said.answer = answer
  BY <1>1 DEF GapOnBar, Returns
<1> HIDE DEF closed, answer, said
<1>4. /\ said.memory = [closes |-> said.memory.closes, entered |-> said.memory.entered]
      /\ said.memory.entered = IF answer.outcome = "signal" THEN at.day ELSE m.entered
  BY <1>3 DEF GapEntered
<1>5. said.memory.entered \in 0..at.day
  BY <1>4
<1>6. Counted(at.day, on, count, said) = Bit(said.memory.entered = at.day)
  <2>1. CASE answer.outcome = "signal"
    BY <1>2, <1>3, <1>4, <2>1 DEF Counted, Bit
  <2>2. CASE answer.outcome # "signal"
    BY <1>3, <1>4, <2>2 DEF Counted, Bit
  <2>3. QED
    BY <2>1, <2>2
<1>7. QED
  BY <1>4, <1>5, <1>6 DEF said

\* overnight_drift marks the bias it entered on.
LEMMA DriftMarks ==
  ASSUME NEW m, NEW bar, NEW at, NEW pos, NEW draw, NEW acct,
         NEW on \in Nat, NEW count,
         m = [bias |-> m.bias, inBand |-> m.inBand, entered |-> m.entered],
         m.bias \in 0..on, m.entered \in BOOLEAN, count = Bit(m.entered /\ m.bias = on),
         at.day \in Nat \ {0}, on <= at.day
  PROVE  LET said == DriftOnBar(m, bar, at, pos, draw, acct)
         IN  /\ said.memory = [bias |-> said.memory.bias, inBand |-> said.memory.inBand,
                               entered |-> said.memory.entered]
             /\ said.memory.bias \in 0..at.day /\ said.memory.entered \in BOOLEAN
             /\ Counted(at.day, on, count, said)
                  = Bit(said.memory.entered /\ said.memory.bias = at.day)
<1> DEFINE answer == IF pos # 0 THEN Say("hold")
                     ELSE IF at.minute < DriftEntry THEN Say("pass")
                     ELSE DriftOnEntry(m, at, draw, acct)
           builds == pos = 0 /\ at.minute \in BiasBars
           said == DriftOnBar(m, bar, at, pos, draw, acct)
<1>0. count \in {0, 1}
  BY DEF Bit
<1>1. answer.outcome = "signal" => m.bias = at.day /\ m.entered = FALSE /\ on = at.day
  <2>1. ~(m.bias = at.day /\ ~m.entered) => answer \in {Say("hold"), Say("pass"), Near(Long)}
    BY DEF DriftOnEntry
  <2>2. answer.outcome = "signal" => m.bias = at.day /\ ~m.entered
    BY <2>1 DEF Say, Near
  <2>3. QED
    BY <2>2
<1>2. builds => answer.outcome # "signal"
  <2>1. builds => answer = Say("pass")
    BY DEF BiasBars, DriftEntry, Clock
  <2>2. QED
    BY <2>1 DEF Say
<1>3. said.answer = answer
  BY DEF DriftOnBar, Returns
<1>4. CASE builds
  <2>1. said.memory = [bias |-> at.day, inBand |-> bar.inBand,
                       entered |-> m.entered /\ m.bias = at.day]
    BY <1>4 DEF DriftOnBar, DriftBuilds, Returns
  <2> HIDE DEF answer, builds, said
  <2>2. answer.outcome # "signal"
    BY <1>2, <1>4
  <2>3. Counted(at.day, on, count, said) = IF at.day = on THEN count ELSE 0
    BY <1>0, <1>3, <2>2 DEF Counted
  <2>4. m.entered /\ m.bias = at.day => at.day = on
    OBVIOUS
  <2>5. Counted(at.day, on, count, said) = Bit(m.entered /\ m.bias = at.day)
    BY <2>3, <2>4 DEF Bit
  <2>6. (m.entered /\ m.bias = at.day) \in BOOLEAN
    OBVIOUS
  <2>7. /\ said.memory = [bias |-> said.memory.bias, inBand |-> said.memory.inBand,
                           entered |-> said.memory.entered]
        /\ said.memory.bias = at.day /\ said.memory.entered = (m.entered /\ m.bias = at.day)
    BY <2>1
  <2>8. Counted(at.day, on, count, said)
          = Bit(said.memory.entered /\ said.memory.bias = at.day)
    BY <2>5, <2>6, <2>7 DEF Bit
  <2>9. said.memory.entered \in BOOLEAN /\ said.memory.bias \in 0..at.day
    BY <2>6, <2>7
  <2> HIDE DEF Counted, Bit
  <2>10. QED
    BY <2>7, <2>8, <2>9 DEF said
<1>5. CASE ~builds
  <2>1. said.memory = [m EXCEPT !.entered = @ \/ answer.outcome = "signal"]
    BY <1>5 DEF DriftOnBar, Returns
  <2> HIDE DEF answer, said
  <2>2. said.memory = [bias |-> m.bias, inBand |-> m.inBand,
                       entered |-> m.entered \/ answer.outcome = "signal"]
    BY <2>1
  <2>3. CASE answer.outcome = "signal"
    <3>1. said.memory = [bias |-> at.day, inBand |-> m.inBand, entered |-> TRUE]
      BY <1>1, <2>2, <2>3
    <3>2. count = 0 /\ at.day = on
      BY <1>1, <2>3 DEF Bit
    <3>3. Counted(at.day, on, count, said) = 1
      BY <1>3, <2>3, <3>2 DEF Counted
    <3>4. QED
      BY <3>1, <3>3 DEF Bit, said
  <2>4. CASE answer.outcome # "signal"
    <3>1. said.memory = m
      BY <2>2, <2>4
    <3>2. Counted(at.day, on, count, said) = IF at.day = on THEN count ELSE 0
      BY <1>0, <1>3, <2>4 DEF Counted
    <3>3. m.entered /\ m.bias = at.day => at.day = on
      OBVIOUS
    <3>4. Counted(at.day, on, count, said) = Bit(m.entered /\ m.bias = at.day)
      BY <3>2, <3>3 DEF Bit
    <3>5. m.bias \in 0..at.day
      OBVIOUS
    <3>6. QED
      BY <3>1, <3>4, <3>5 DEF said
  <2>5. QED
    BY <2>3, <2>4
<1>6. QED
  BY <1>4, <1>5

\* An opening range marks the side before it sizes the order.
LEMMA OrbMarks ==
  ASSUME NEW m, NEW bar, NEW at, NEW pos, NEW draw, NEW acct, NEW on, NEW count,
         m = [date |-> m.date, bars |-> m.bars,
              longTaken |-> m.longTaken, shortTaken |-> m.shortTaken],
         m.date = on, m.longTaken \in BOOLEAN, m.shortTaken \in BOOLEAN,
         count \in 0..(Bit(m.longTaken) + Bit(m.shortTaken)),
         at.day # NoDate
  PROVE  LET said == OrbOnBar(m, bar, at, pos, draw, acct)
         IN  /\ said.memory = [date |-> said.memory.date, bars |-> said.memory.bars,
                               longTaken |-> said.memory.longTaken,
                               shortTaken |-> said.memory.shortTaken]
             /\ said.memory.date = at.day
             /\ said.memory.longTaken \in BOOLEAN /\ said.memory.shortTaken \in BOOLEAN
             /\ Counted(at.day, on, count, said)
                  \in 0..(Bit(said.memory.longTaken) + Bit(said.memory.shortTaken))
<1> DEFINE today == OrbDay(m, at.day)
           longs == bar.breaks = Up /\ ~today.longTaken
           shorts == bar.breaks = Down /\ ~today.shortTaken
           said == OrbOnBar(m, bar, at, pos, draw, acct)
           carried == IF at.day = on THEN count ELSE 0
<1>1. /\ today = [date |-> today.date, bars |-> today.bars,
                  longTaken |-> today.longTaken, shortTaken |-> today.shortTaken]
      /\ today.date = at.day /\ today.longTaken \in BOOLEAN /\ today.shortTaken \in BOOLEAN
      /\ carried \in 0..(Bit(today.longTaken) + Bit(today.shortTaken))
  <2>1. CASE m.date \in {NoDate, at.day}
    <3>1. today = [date |-> at.day, bars |-> m.bars,
                   longTaken |-> m.longTaken, shortTaken |-> m.shortTaken]
      BY <2>1 DEF OrbDay
    <3>2. QED
      BY <3>1 DEF Bit
  <2>2. CASE m.date \notin {NoDate, at.day}
    <3>1. today = [date |-> at.day, bars |-> 0, longTaken |-> FALSE, shortTaken |-> FALSE]
      BY <2>2 DEF OrbDay, OrbFresh
    <3>2. carried = 0
      BY <2>2
    <3>3. QED
      BY <3>1, <3>2 DEF Bit
  <2>3. QED
    BY <2>1, <2>2
<1>2. \/ said.memory = today /\ said.answer = Nothing
      \/ \E bars : /\ said.memory = [today EXCEPT !.bars = bars] /\ said.answer = Nothing
      \/ /\ longs \/ shorts
         /\ said.memory = [today EXCEPT !.longTaken = @ \/ longs, !.shortTaken = @ \/ shorts]
  BY DEF OrbOnBar, Returns
<1>3. Counted(at.day, on, count, said)
        = carried + (IF said.answer.outcome = "signal" THEN 1 ELSE 0)
  BY DEF Counted
<1>4. Nothing.outcome # "signal"
  BY DEF Nothing, Say
<1> HIDE DEF today, said, carried
<1>5. CASE said.memory = today /\ said.answer = Nothing
  BY <1>1, <1>3, <1>4, <1>5 DEF said, Bit
<1>6. ASSUME NEW bars, said.memory = [today EXCEPT !.bars = bars], said.answer = Nothing
      PROVE  /\ said.memory = [date |-> said.memory.date, bars |-> said.memory.bars,
                               longTaken |-> said.memory.longTaken,
                               shortTaken |-> said.memory.shortTaken]
             /\ said.memory.date = at.day
             /\ said.memory.longTaken \in BOOLEAN /\ said.memory.shortTaken \in BOOLEAN
             /\ Counted(at.day, on, count, said)
                  \in 0..(Bit(said.memory.longTaken) + Bit(said.memory.shortTaken))
  <2>1. said.memory = [date |-> at.day, bars |-> bars,
                       longTaken |-> today.longTaken, shortTaken |-> today.shortTaken]
    BY <1>1, <1>6
  <2>2. QED
    BY <1>1, <1>3, <1>4, <1>6, <2>1 DEF Bit
<1>7. CASE /\ longs \/ shorts
           /\ said.memory = [today EXCEPT !.longTaken = @ \/ longs, !.shortTaken = @ \/ shorts]
  <2>1. CASE longs
    <3>1. ~shorts
      BY <2>1 DEF Up, Down
    <3>2. said.memory = [date |-> at.day, bars |-> today.bars,
                         longTaken |-> TRUE, shortTaken |-> today.shortTaken]
      BY <1>1, <1>7, <2>1, <3>1
    <3>3. Bit(today.longTaken) = 0
      BY <2>1 DEF Bit
    <3>4. Counted(at.day, on, count, said)
            \in 0..(Bit(said.memory.longTaken) + Bit(said.memory.shortTaken))
      BY <1>1, <1>3, <3>2, <3>3 DEF Bit
    <3>5. said.memory.longTaken \in BOOLEAN /\ said.memory.shortTaken \in BOOLEAN
      BY <1>1, <3>2
    <3>6. said.memory.date = at.day
      BY <3>2
    <3>7. said.memory = [date |-> said.memory.date, bars |-> said.memory.bars,
                         longTaken |-> said.memory.longTaken,
                         shortTaken |-> said.memory.shortTaken]
      BY <3>2
    <3>8. QED
      BY <3>4, <3>5, <3>6, <3>7 DEF said
  <2>2. CASE shorts
    <3>1. ~longs
      BY <2>2 DEF Up, Down
    <3>2. said.memory = [date |-> at.day, bars |-> today.bars,
                         longTaken |-> today.longTaken, shortTaken |-> TRUE]
      BY <1>1, <1>7, <2>2, <3>1
    <3>3. Bit(today.shortTaken) = 0
      BY <2>2 DEF Bit
    <3>4. Counted(at.day, on, count, said)
            \in 0..(Bit(said.memory.longTaken) + Bit(said.memory.shortTaken))
      BY <1>1, <1>3, <3>2, <3>3 DEF Bit
    <3>5. said.memory.longTaken \in BOOLEAN /\ said.memory.shortTaken \in BOOLEAN
      BY <1>1, <3>2
    <3>6. said.memory.date = at.day
      BY <3>2
    <3>7. said.memory = [date |-> said.memory.date, bars |-> said.memory.bars,
                         longTaken |-> said.memory.longTaken,
                         shortTaken |-> said.memory.shortTaken]
      BY <3>2
    <3>8. QED
      BY <3>4, <3>5, <3>6, <3>7 DEF said
  <2>3. QED
    BY <1>7, <2>1, <2>2
<1>8. QED
  BY <1>2, <1>5, <1>6, <1>7 DEF said

\* The driver's count and the strategy's marks move together.
LEMMA AskMarks ==
  ASSUME Clocked, ShotInv, NEW at, NEW bar, NEW open, NEW state, NEW kept,
         AskedAbout(bar, at), MayKeep(kept), Ask(bar, open, state, kept),
         UNCHANGED name
  PROVE  ShotInv'
<1>1. PICK said \in Replies(bar, open, state, kept) :
        /\ memory' = said.memory /\ openedOn' = bar.day
        /\ opened' = Counted(bar.day, openedOn, opened, said)
  BY DEF Ask, Counted
<1>2. PICK input, draw :
        said = OnBar(name, kept, input, bar, Position(open), draw, state)
  BY <1>1 DEF Replies
<1>3. /\ bar.day \in Nat \ {0} /\ openedOn \in Nat /\ openedOn <= bar.day
  BY DEF AskedAbout, Clocked
<1>4. ShotInv' = Marked(name, said.memory, bar.day, Counted(bar.day, openedOn, opened, said))
  BY <1>1 DEF ShotInv
<1>5. name \in {"donchian", "turtles_system2", "turtle_soup", "bb_mr", "gap_fill",
                "overnight_drift", "orb"} => kept = memory
  BY DEF MayKeep, TakesLevels
<1> DEFINE pos == Position(open)
<1> HIDE DEF pos
<1>6. CASE name \in {"donchian", "turtles_system2", "turtle_soup"}
  <2>1. memory.fired \in BOOLEAN /\ openedOn = memory.date /\ opened = Bit(memory.fired)
    BY <1>6 DEF ShotInv, Marked
  <2>2. \E breaks : said = DonchianOnBar(memory, breaks, bar, pos, draw, state)
    <3>1. CASE name = "donchian"
      BY <1>2, <1>5, <3>1 DEF OnBar, pos
    <3>2. CASE name = "turtles_system2"
      BY <1>2, <1>5, <3>2 DEF OnBar, TurtlesOnBar, pos
    <3>3. CASE name = "turtle_soup"
      BY <1>2, <1>5, <3>3 DEF OnBar, TurtleSoupOnBar, pos
    <3>4. QED
      BY <1>6, <3>1, <3>2, <3>3
  <2>3. /\ said.memory.date = bar.day /\ said.memory.fired \in BOOLEAN
        /\ Counted(bar.day, openedOn, opened, said) = Bit(said.memory.fired)
    BY <2>1, <2>2, DonchianMarks
  <2>4. QED
    BY <1>4, <1>6, <2>3 DEF Marked
<1>7. CASE name = "bb_mr"
  <2>1. memory.trades \in 0..2 /\ openedOn = memory.date /\ opened = memory.trades
    BY <1>7 DEF ShotInv, Marked
  <2>2. said = BbMrOnBar(memory, input, bar, pos, draw, state)
    BY <1>2, <1>5, <1>7 DEF OnBar, pos
  <2>3. /\ said.memory.date = bar.day /\ said.memory.trades \in 0..2
        /\ Counted(bar.day, openedOn, opened, said) = said.memory.trades
    BY <2>1, <2>2, BbMrMarks
  <2>4. QED
    BY <1>4, <1>7, <2>3 DEF Marked
<1>8. CASE name = "gap_fill"
  <2>1. /\ memory = [closes |-> memory.closes, entered |-> memory.entered]
        /\ memory.entered \in 0..openedOn
        /\ opened = Bit(memory.entered = openedOn /\ openedOn # 0)
    BY <1>8 DEF ShotInv, Marked
  <2>2. said = GapOnBar(memory, input, bar, pos, draw, state)
    BY <1>2, <1>5, <1>8 DEF OnBar, pos
  <2>3. /\ said.memory = [closes |-> said.memory.closes, entered |-> said.memory.entered]
        /\ said.memory.entered \in 0..bar.day
        /\ Counted(bar.day, openedOn, opened, said) = Bit(said.memory.entered = bar.day)
    BY <1>3, <2>1, <2>2, GapMarks
  <2>4. Bit(said.memory.entered = bar.day) = Bit(said.memory.entered = bar.day /\ bar.day # 0)
    BY <1>3 DEF Bit
  <2>5. QED
    BY <1>4, <1>8, <2>3, <2>4 DEF Marked
<1>9. CASE name = "overnight_drift"
  <2>1. /\ memory = [bias |-> memory.bias, inBand |-> memory.inBand, entered |-> memory.entered]
        /\ memory.bias \in 0..openedOn /\ memory.entered \in BOOLEAN
        /\ opened = Bit(memory.entered /\ memory.bias = openedOn)
    BY <1>9 DEF ShotInv, Marked
  <2>2. said = DriftOnBar(memory, input, bar, pos, draw, state)
    BY <1>2, <1>5, <1>9 DEF OnBar, pos
  <2>3. /\ said.memory = [bias |-> said.memory.bias, inBand |-> said.memory.inBand,
                          entered |-> said.memory.entered]
        /\ said.memory.bias \in 0..bar.day /\ said.memory.entered \in BOOLEAN
        /\ Counted(bar.day, openedOn, opened, said)
             = Bit(said.memory.entered /\ said.memory.bias = bar.day)
    BY <1>3, <2>1, <2>2, DriftMarks
  <2>4. QED
    BY <1>4, <1>9, <2>3 DEF Marked
<1>10. CASE name = "orb"
  <2>1. /\ memory = [date |-> memory.date, bars |-> memory.bars,
                     longTaken |-> memory.longTaken, shortTaken |-> memory.shortTaken]
        /\ memory.date = openedOn
        /\ memory.longTaken \in BOOLEAN /\ memory.shortTaken \in BOOLEAN
        /\ opened \in 0..(Bit(memory.longTaken) + Bit(memory.shortTaken))
    BY <1>10 DEF ShotInv, Marked
  <2>2. said = OrbOnBar(memory, input, bar, pos, draw, state)
    BY <1>2, <1>5, <1>10 DEF OnBar, pos
  <2>3. bar.day # NoDate
    BY <1>3 DEF NoDate
  <2>4. /\ said.memory = [date |-> said.memory.date, bars |-> said.memory.bars,
                          longTaken |-> said.memory.longTaken,
                          shortTaken |-> said.memory.shortTaken]
        /\ said.memory.date = bar.day
        /\ said.memory.longTaken \in BOOLEAN /\ said.memory.shortTaken \in BOOLEAN
        /\ Counted(bar.day, openedOn, opened, said)
             \in 0..(Bit(said.memory.longTaken) + Bit(said.memory.shortTaken))
    BY <2>1, <2>2, <2>3, OrbMarks
  <2>5. QED
    BY <1>4, <1>10, <2>4 DEF Marked
<1>11. CASE name \notin {"donchian", "turtles_system2", "turtle_soup", "bb_mr", "gap_fill",
                         "overnight_drift", "orb"}
  BY <1>4, <1>11 DEF Marked
<1>12. QED
  BY <1>6, <1>7, <1>8, <1>9, <1>10, <1>11

\* Every step of the drivers keeps the two in step.
LEMMA ShotStep == ASSUME Clocked, ShotInv, [Next]_vars PROVE ShotInv'
<1>1. CASE UNCHANGED <<memory, opened, openedOn, name>>
  BY <1>1 DEF ShotInv
<1>2. QED
  BY <1>1, Steps, AskMarks DEF vars

\* A new strategy has no marks.
LEMMA ShotInit == ASSUME Init PROVE ShotInv
<1>1. /\ opened = 0 /\ openedOn = 0 /\ memory = Fresh(name)
  BY DEF Init, NoDate
<1>2. CASE name \in {"donchian", "turtles_system2", "turtle_soup"}
  <2>1. memory = [warm |-> FALSE, date |-> 0, fired |-> FALSE]
    BY <1>1, <1>2 DEF Fresh, DonchianFresh, TurtlesFresh, TurtleSoupFresh, NoDate
  <2>2. QED
    BY <1>1, <1>2, <2>1 DEF ShotInv, Marked, Bit
<1>3. CASE name = "bb_mr"
  <2>1. memory = [warm |-> FALSE, date |-> 0, trades |-> 0]
    BY <1>1, <1>3 DEF Fresh, BbMrFresh, NoDate
  <2>2. QED
    BY <1>1, <1>3, <2>1 DEF ShotInv, Marked
<1>4. CASE name = "gap_fill"
  <2>1. memory = [closes |-> {}, entered |-> 0]
    BY <1>1, <1>4 DEF Fresh, GapFresh, NoDay
  <2>2. QED
    BY <1>1, <1>4, <2>1 DEF ShotInv, Marked, Bit
<1>5. CASE name = "overnight_drift"
  <2>1. memory = [bias |-> 0, inBand |-> FALSE, entered |-> FALSE]
    BY <1>1, <1>5 DEF Fresh, DriftFresh, NoDay
  <2>2. memory = [bias |-> memory.bias, inBand |-> memory.inBand, entered |-> memory.entered]
    BY <2>1
  <2>3. memory.bias = 0 /\ memory.entered = FALSE /\ opened = Bit(FALSE)
    BY <1>1, <2>1 DEF Bit
  <2>4. opened = Bit(memory.entered /\ memory.bias = openedOn)
    BY <2>3 DEF Bit
  <2>5. memory.bias \in 0..openedOn
    BY <1>1, <2>3
  <2>6. memory.entered \in BOOLEAN
    BY <2>3
  <2>7. QED
    BY <1>5, <2>2, <2>4, <2>5, <2>6 DEF ShotInv, Marked
<1>6. CASE name = "orb"
  <2>1. memory = [date |-> 0, bars |-> 0, longTaken |-> FALSE, shortTaken |-> FALSE]
    BY <1>1, <1>6 DEF Fresh, OrbFresh, NoDate
  <2>2. memory = [date |-> memory.date, bars |-> memory.bars,
                  longTaken |-> memory.longTaken, shortTaken |-> memory.shortTaken]
    BY <2>1
  <2>3. memory.date = 0 /\ memory.longTaken = FALSE /\ memory.shortTaken = FALSE
    BY <2>1
  <2>4. opened \in 0..(Bit(memory.longTaken) + Bit(memory.shortTaken))
    BY <1>1, <2>3 DEF Bit
  <2>5. QED
    BY <1>1, <1>6, <2>2, <2>3, <2>4 DEF ShotInv, Marked
<1>7. CASE name \notin {"donchian", "turtles_system2", "turtle_soup", "bb_mr", "gap_fill",
                        "overnight_drift", "orb"}
  BY <1>7 DEF ShotInv, Marked
<1>8. QED
  BY <1>2, <1>3, <1>4, <1>5, <1>6, <1>7

\* The two sides of an opening range, counted.
LEMMA SidesTaken ==
  ASSUME NEW longs \in BOOLEAN, NEW shorts \in BOOLEAN
  PROVE  Cardinality({side \in {Long, Short} : IF side = Long THEN longs ELSE shorts})
           = Bit(longs) + Bit(shorts)
<1> DEFINE S == {side \in {Long, Short} : IF side = Long THEN longs ELSE shorts}
<1>1. Long = 1 /\ Short = -1
  BY DEF Long, Short
<1>2. /\ Cardinality({}) = 0 /\ Cardinality({1}) = 1 /\ Cardinality({-1}) = 1
      /\ IsFiniteSet({1})
  BY FS_EmptySet, FS_Singleton
<1>3. Cardinality({1} \cup {-1}) = Cardinality({1}) + 1
  BY <1>2, FS_AddElement
<1>4. CASE longs /\ shorts
  <2>1. S = {1} \cup {-1}
    BY <1>1, <1>4
  <2>2. QED
    BY <1>2, <1>3, <1>4, <2>1 DEF Bit
<1>5. CASE longs /\ ~shorts
  <2>1. S = {1}
    BY <1>1, <1>5
  <2>2. QED
    BY <1>2, <1>5, <2>1 DEF Bit
<1>6. CASE ~longs /\ shorts
  <2>1. S = {-1}
    BY <1>1, <1>6
  <2>2. QED
    BY <1>2, <1>6, <2>1 DEF Bit
<1>7. CASE ~longs /\ ~shorts
  <2>1. S = {}
    BY <1>1, <1>7
  <2>2. QED
    BY <1>2, <1>7, <2>1 DEF Bit
<1>8. QED
  BY <1>4, <1>5, <1>6, <1>7

\* A strategy with a daily allowance opens what its memory says it did, never
\* more than the allowance, on any stream of bars and with any account
\* (the date and mark checks in on_bar, and the drivers' calls of it).
THEOREM ShotsCounted == Spec => []ShotsMatchTrades
<1>1. Init => Clocked /\ ShotInv
  BY ClockedInit, ShotInit
<1>2. Clocked /\ ShotInv /\ [Next]_vars => (Clocked /\ ShotInv)'
  BY ClockedStep, ShotStep
<1>3. ASSUME Clocked, ShotInv PROVE ShotsMatchTrades
  <2>1. ASSUME KeepsCount PROVE opened = ShotsUsed /\ opened <= ShotCap
    <3>1. CASE name \in {"donchian", "turtles_system2", "turtle_soup"}
      BY <1>3, <3>1 DEF ShotInv, Marked, ShotsUsed, MarkedToday, ShotCap, Bit
    <3>2. CASE name = "bb_mr"
      BY <1>3, <3>2 DEF ShotInv, Marked, ShotsUsed, ShotCap
    <3>3. CASE name = "gap_fill"
      BY <1>3, <3>3 DEF ShotInv, Marked, ShotsUsed, ShotCap, Bit, NoDay
    <3>4. CASE name = "overnight_drift"
      BY <1>3, <3>4 DEF ShotInv, Marked, ShotsUsed, ShotCap, Bit
    <3>5. QED
      BY <2>1, <3>1, <3>2, <3>3, <3>4 DEF KeepsCount
  <2>2. ASSUME name = "orb"
        PROVE  opened <= Cardinality({side \in {Long, Short} :
                 IF side = Long THEN memory.longTaken ELSE memory.shortTaken})
    <3>1. /\ memory.longTaken \in BOOLEAN /\ memory.shortTaken \in BOOLEAN
          /\ opened \in 0..(Bit(memory.longTaken) + Bit(memory.shortTaken))
      BY <1>3, <2>2 DEF ShotInv, Marked
    <3>2. Bit(memory.longTaken) \in Int /\ Bit(memory.shortTaken) \in Int
      BY DEF Bit
    <3>3. opened <= Bit(memory.longTaken) + Bit(memory.shortTaken)
      BY <3>1, <3>2
    <3>4. QED
      BY <3>1, <3>3, SidesTaken
  <2>3. QED
    BY <2>1, <2>2 DEF ShotsMatchTrades
<1>4. QED
  BY <1>1, <1>2, <1>3, PTL DEF Spec
-----------------------------------------------------------------------------
(* A strategy that does not reverse asks only while it holds nothing.      *)
Proposes(answer, draw, acct, pos) ==
  answer.outcome = "signal" =>
    /\ pos = 0
    /\ \E side \in {Long, Short} : answer = BuildSignal(side, draw, acct, 0)

\* None of the answers that refuse or hold is a signal.
LEMMA Refusals ==
  /\ \A o \in Outcomes \ {"signal"} : Say(o).outcome # "signal"
  /\ Nothing.outcome # "signal"
  /\ \A side : Near(side).outcome # "signal"
BY DEF Say, Nothing, Near

\* Whatever its memory and the bar.
LEMMA HoldersPropose ==
  ASSUME NEW strategy \in AllStrategies \ Reversers, NEW m, NEW bar \in Inputs(strategy, m),
         NEW at, NEW pos, NEW draw, NEW acct
  PROVE  Proposes(OnBar(strategy, m, bar, at, pos, draw, acct).answer, draw, acct, pos)
<1> USE Refusals DEF Up, Down, Wait, Long, Short, Flat
<1>1. strategy \in {"ema_cross", "anti", "orb", "donchian", "bb_mr", "turtle_soup",
                    "supertrend", "turtles_system2", "boundary", "overnight_drift", "gap_fill"}
  BY DEF AllStrategies, Reversers, SeedFleet, TestVariants, NewFleet, Keepers
<1>2. CASE strategy \in {"donchian", "turtles_system2"}
  <2>1. bar.breaks \in {1, -1, 0}
    BY <1>2 DEF Inputs, DonchianInputs
  <2>2. OnBar(strategy, m, bar, at, pos, draw, acct)
          = DonchianOnBar(m, bar, at, pos, draw, acct)
    BY <1>2 DEF OnBar, TurtlesOnBar
  <2>3. QED
    BY <2>1, <2>2 DEF DonchianOnBar, Returns, Proposes
<1>3. CASE strategy = "turtle_soup"
  <2>1. bar.breaks \in {1, -1, 0}
    BY <1>3 DEF Inputs, DonchianInputs
  <2> DEFINE turned == [bar EXCEPT !.breaks = -@]
  <2>2. OnBar(strategy, m, bar, at, pos, draw, acct)
          = DonchianOnBar(m, turned, at, pos, draw, acct)
    BY <1>3 DEF OnBar, TurtleSoupOnBar
  <2>3. turned.breaks \in {1, -1, 0}
    BY <1>3, <2>1 DEF Inputs, DonchianInputs
  <2> HIDE DEF turned
  <2>4. QED
    BY <2>2, <2>3 DEF DonchianOnBar, Returns, Proposes
<1>4. CASE strategy = "bb_mr"
  <2>1. bar.stretched \in {1, -1, 0}
    BY <1>4 DEF Inputs, BbMrInputs
  <2>2. OnBar(strategy, m, bar, at, pos, draw, acct)
          = BbMrOnBar(m, bar, at, pos, draw, acct)
    BY <1>4 DEF OnBar
  <2>3. bar.stretched # 0 => -bar.stretched \in {1, -1}
    BY <2>1
  <2>4. QED
    BY <2>2, <2>3 DEF BbMrOnBar, Returns, Proposes
<1>5. CASE strategy = "ema_cross"
  <2>1. bar.cross \in {1, -1, 0}
    BY <1>5 DEF Inputs, EmaCrossInputs
  <2>2. OnBar(strategy, m, bar, at, pos, draw, acct)
          = EmaCrossOnBar(m, bar, at, pos, draw, acct)
    BY <1>5 DEF OnBar
  <2>3. Flip(m.trend, bar.cross) \in {1, -1, 0}
    BY <2>1 DEF Flip
  <2>4. QED
    BY <2>2, <2>3 DEF EmaCrossOnBar, Returns, Proposes
<1>6. CASE strategy = "supertrend"
  <2>1. bar.cross \in {1, -1, 0}
    BY <1>6 DEF Inputs, SupertrendInputs
  <2>2. OnBar(strategy, m, bar, at, pos, draw, acct)
          = SupertrendOnBar(m, bar, at, pos, draw, acct)
    BY <1>6 DEF OnBar
  <2>3. Flip(m.trend, bar.cross) \in {1, -1, 0}
    BY <2>1 DEF Flip
  <2>4. QED
    BY <2>2, <2>3 DEF SupertrendOnBar, Returns, Proposes
<1>7. CASE strategy = "anti"
  <2>1. OnBar(strategy, m, bar, at, pos, draw, acct)
          = AntiOnBar(m, bar, at, pos, draw, acct)
    BY <1>7 DEF OnBar
  <2>2. QED
    BY <2>1 DEF AntiOnBar, Returns, Proposes
<1>8. CASE strategy = "orb"
  <2>1. OnBar(strategy, m, bar, at, pos, draw, acct)
          = OrbOnBar(m, bar, at, pos, draw, acct)
    BY <1>8 DEF OnBar
  <2>2. QED
    BY <2>1 DEF OrbOnBar, Returns, Proposes
<1>9. CASE strategy = "boundary"
  <2>1. OnBar(strategy, m, bar, at, pos, draw, acct)
          = BoundaryOnBar(m, bar, at, pos, draw, acct)
    BY <1>9 DEF OnBar
  <2>2. ASSUME BoundaryFlat(bar, at, draw, acct).outcome = "signal"
        PROVE  \E side \in {1, -1} :
                 BoundaryFlat(bar, at, draw, acct) = BuildSignal(side, draw, acct, 0)
    BY <2>2 DEF BoundaryFlat, Outcomes
  <2>3. QED
    BY <2>1, <2>2 DEF BoundaryOnBar, Returns, Proposes, Outcomes
<1>10. CASE strategy = "gap_fill"
  <2>1. OnBar(strategy, m, bar, at, pos, draw, acct)
          = GapOnBar(m, bar, at, pos, draw, acct)
    BY <1>10 DEF OnBar
  <2>2. ASSUME NEW n, GapOnEntryBar(n, bar, at, draw, acct).outcome = "signal"
        PROVE  \E side \in {1, -1} :
                 GapOnEntryBar(n, bar, at, draw, acct) = BuildSignal(side, draw, acct, 0)
    BY <2>2 DEF GapOnEntryBar, GapDirections, Outcomes
  <2>3. QED
    BY <2>1, <2>2 DEF GapOnBar, Returns, Proposes, Outcomes
<1>11. CASE strategy = "overnight_drift"
  <2>1. OnBar(strategy, m, bar, at, pos, draw, acct)
          = DriftOnBar(m, bar, at, pos, draw, acct)
    BY <1>11 DEF OnBar
  <2>2. ASSUME DriftOnEntry(m, at, draw, acct).outcome = "signal"
        PROVE  DriftOnEntry(m, at, draw, acct) = BuildSignal(1, draw, acct, 0)
    BY <2>2 DEF DriftOnEntry, Outcomes
  <2>3. QED
    BY <2>1, <2>2 DEF DriftOnBar, Returns, Proposes, Outcomes
<1>12. QED
  BY <1>1, <1>2, <1>3, <1>4, <1>5, <1>6, <1>7, <1>8, <1>9, <1>10, <1>11

(* The sums the drivers take over the open trades, for at most one trade.  *)
IsSizes(g, set) ==
  g = [s \in SUBSET set |-> IF s = {} THEN 0
         ELSE Size(CHOOSE x \in s : TRUE) + g[s \ {CHOOSE x \in s : TRUE}]]
IsSigned(g, set) ==
  g = [s \in SUBSET set |-> IF s = {} THEN 0
         ELSE SignedSize(CHOOSE x \in s : TRUE) + g[s \ {CHOOSE x \in s : TRUE}]]

\* The sums of sizes are the function their fold chooses.
LEMMA SizesUnfold ==
  ASSUME NEW set
  PROVE  /\ MapThenSumSet(Size, set) = (CHOOSE g : IsSizes(g, set))[set]
         /\ MapThenSumSet(SignedSize, set) = (CHOOSE g : IsSigned(g, set))[set]
BY DEF MapThenSumSet, MapThenFoldSet, IsSizes, IsSigned

\* Of none and of one.
LEMMA SizesOfFew ==
  /\ MapThenSumSet(Size, {}) = 0
  /\ \A t : t.size \in Int => MapThenSumSet(Size, {t}) = t.size
<1>1. MapThenSumSet(Size, {}) = 0
  <2> DEFINE f == [s \in SUBSET {} |-> 0]
  <2>1. IsSizes(f, {})
    BY DEF IsSizes
  <2>2. PICK g : IsSizes(g, {}) /\ MapThenSumSet(Size, {}) = g[{}]
    BY <2>1, SizesUnfold
  <2>3. QED
    BY <2>2 DEF IsSizes
<1>2. ASSUME NEW t, t.size \in Int PROVE MapThenSumSet(Size, {t}) = t.size
  <2> DEFINE f == [s \in SUBSET {t} |-> IF s = {} THEN 0 ELSE t.size]
  <2>1. \A s \in SUBSET {t} : s = {} \/ s = {t}
    OBVIOUS
  <2>2. (CHOOSE x \in {t} : TRUE) = t /\ {t} \ {t} = {}
    OBVIOUS
  <2>3. IsSizes(f, {t})
    <3>1. \A s \in SUBSET {t} :
            f[s] = IF s = {} THEN 0
                   ELSE Size(CHOOSE x \in s : TRUE) + f[s \ {CHOOSE x \in s : TRUE}]
      BY <1>2, <2>1, <2>2 DEF Size
    <3>2. QED
      BY <3>1 DEF IsSizes
  <2>4. PICK g : IsSizes(g, {t}) /\ MapThenSumSet(Size, {t}) = g[{t}]
    BY <2>3, SizesUnfold
  <2>5. g[{t}] = Size(t) + g[{}] /\ g[{}] = 0
    BY <2>2, <2>4, SMTT(30) DEF IsSizes
  <2>6. QED
    BY <1>2, <2>4, <2>5 DEF Size
<1>3. QED
  BY <1>1, <1>2

\* A position of one trade is not flat.
LEMMA PositionOfOne ==
  ASSUME NEW t, t.side \in {1, -1}, t.size \in 1..MaxSize
  PROVE  Position({t}) # 0
<1>1. SignedSize(t) \in Int /\ SignedSize(t) # 0
  BY RiskAssumption DEF SignedSize
<1> DEFINE f == [s \in SUBSET {t} |-> IF s = {} THEN 0 ELSE SignedSize(t)]
<1>2. \A s \in SUBSET {t} : s = {} \/ s = {t}
  OBVIOUS
<1>3. (CHOOSE x \in {t} : TRUE) = t /\ {t} \ {t} = {}
  OBVIOUS
<1>4. IsSigned(f, {t})
  <2>1. \A s \in SUBSET {t} :
          f[s] = IF s = {} THEN 0
                 ELSE SignedSize(CHOOSE x \in s : TRUE) + f[s \ {CHOOSE x \in s : TRUE}]
    BY <1>1, <1>2, <1>3
  <2>2. QED
    BY <2>1 DEF IsSigned
<1>5. PICK g : IsSigned(g, {t}) /\ Position({t}) = g[{t}]
  BY <1>4, SizesUnfold DEF Position
<1> HIDE DEF f
<1>6. g[{}] = 0
  BY <1>5 DEF IsSigned
<1>7. g[{t}] = SignedSize(t) + g[{}]
  <2>1. {t} \in SUBSET {t} /\ {t} # {}
    OBVIOUS
  <2>2. g[{t}] = SignedSize(CHOOSE x \in {t} : TRUE) + g[{t} \ {CHOOSE x \in {t} : TRUE}]
    BY <1>5, <2>1 DEF IsSigned
  <2>3. QED
    BY <1>3, <2>2
<1>8. QED
  BY <1>1, <1>5, <1>6, <1>7
-----------------------------------------------------------------------------
(* How far an account is from its limits, and the book it carries: nothing *)
(* open, or one trade that was allowed while no limit was reached.         *)
Accounts == [start : Int, peak : Int, realized : Int, balance : Int]
Margin(acct, overshoot) ==
  /\ acct.balance - acct.start > -(DailyLoss + overshoot)
  /\ acct.balance > TrailingMaxLossLimit(acct.peak) - overshoot
OneTrade(t) == t.side \in {1, -1} /\ t.size \in 1..MaxSize
Book(open, acct) ==
  /\ acct \in Accounts
  /\ \/ open = {} /\ Margin(acct, MaxSize)
     \/ \E t : open = {t} /\ OneTrade(t) /\ Margin(acct, 0)
HolderInv == name \notin Reversers => Book(trades, account)

\* A new day keeps the distance, or restores it.
LEMMA DayTurns ==
  ASSUME NEW acct, NEW open, Book(open, acct)
  PROVE  Book(open, RolledAccount(acct)) /\ Book(open, FreshAccount)
<1> DEFINE rolled == RolledAccount(acct)
           peak == LargerOf(acct.peak, acct.balance)
<1>1. acct \in Accounts /\ acct.balance \in Int /\ acct.peak \in Int /\ peak \in Int
  BY DEF Book, Accounts, LargerOf
<1>2. rolled = [[[acct EXCEPT !.start = acct.balance] EXCEPT !.peak = peak] EXCEPT !.realized = 0]
  BY DEF RolledAccount
<1> HIDE DEF rolled, peak
<1>3. /\ rolled \in Accounts /\ rolled.balance = acct.balance
      /\ rolled.start = acct.balance /\ rolled.peak = peak
  <2> DEFINE one == [acct EXCEPT !.start = acct.balance]
             two == [one EXCEPT !.peak = peak]
  <2>1. one \in Accounts /\ one.balance = acct.balance /\ one.start = acct.balance
    BY <1>1 DEF Accounts
  <2> HIDE DEF one
  <2>2. /\ two \in Accounts /\ two.balance = acct.balance /\ two.start = acct.balance
        /\ two.peak = peak
    BY <1>1, <2>1 DEF Accounts
  <2>3. rolled = [two EXCEPT !.realized = 0]
    BY <1>2 DEF one
  <2> HIDE DEF two
  <2>4. QED
    BY <2>2, <2>3 DEF Accounts
<1>4. ASSUME NEW k \in Nat, Margin(acct, k) PROVE Margin(rolled, k)
  <2>1. acct.balance - acct.balance > -(DailyLoss + k)
    BY <1>1, RiskAssumption
  <2>2. acct.balance > TrailingMaxLossLimit(peak) - k
    BY <1>1, <1>4, RiskAssumption DEF peak, LargerOf, TrailingMaxLossLimit, SmallerOf, Margin
  <2>3. QED
    BY <1>3, <2>1, <2>2 DEF Margin
<1>5. FreshAccount \in Accounts
  BY RiskAssumption DEF FreshAccount, Accounts
<1>6. ASSUME NEW k \in Nat PROVE Margin(FreshAccount, k)
  <2>1. /\ FreshAccount.balance = AccountSize /\ FreshAccount.start = AccountSize
        /\ FreshAccount.peak = AccountSize
    BY DEF FreshAccount
  <2>2. QED
    BY <2>1, RiskAssumption DEF Margin, TrailingMaxLossLimit, SmallerOf
<1>7. MaxSize \in Nat /\ 0 \in Nat
  BY RiskAssumption
<1>8. QED
  BY <1>3, <1>4, <1>5, <1>6, <1>7 DEF Book, rolled

\* A loss of at most one trade is an overshoot of at most one trade.
LEMMA LossOvershoots ==
  ASSUME NEW acct \in Accounts, NEW change \in Int, change >= -MaxSize, Margin(acct, 0)
  PROVE  Margin([acct EXCEPT !.balance = @ + change], MaxSize)
<1> DEFINE after == [acct EXCEPT !.balance = @ + change]
<1>1. /\ after.balance = acct.balance + change
      /\ after.start = acct.start /\ after.peak = acct.peak
  BY DEF Accounts
<1>2. /\ acct.balance \in Int /\ acct.start \in Int /\ acct.peak \in Int
      /\ TrailingMaxLossLimit(acct.peak) \in Int
  BY RiskAssumption DEF Accounts, TrailingMaxLossLimit, SmallerOf
<1> HIDE DEF after
<1>3. Margin(after, MaxSize)
  BY <1>1, <1>2, RiskAssumption DEF Margin
<1>4. QED
  BY <1>3 DEF after

\* A bar that touches the trade closes it, and costs its size at most.
LEMMA BarTouches ==
  ASSUME NEW day, Book(trades, day), NEW touch \in Touches
  PROVE  /\ Profit(touch) \in Int
         /\ Book(StillOpen(touch), [day EXCEPT !.balance = @ + Profit(touch)])
<1> DEFINE after == [day EXCEPT !.balance = @ + Profit(touch)]
<1>0. day \in Accounts
  BY DEF Book
<1>1. ASSUME Profit(touch) = 0 PROVE after = day
  BY <1>0, <1>1 DEF Accounts
<1>2. ASSUME Profit(touch) \in Int PROVE after \in Accounts
  BY <1>0, <1>2 DEF Accounts
<1>3. CASE trades = {} /\ Margin(day, MaxSize)
  <2>1. StillOpen(touch) = {} /\ Reached(touch) = {} /\ Stopped(touch) = {}
    BY <1>3 DEF StillOpen, Reached, Stopped
  <2>2. Profit(touch) = 0
    BY <2>1, SizesOfFew DEF Profit
  <2>3. QED
    BY <1>0, <1>1, <1>3, <2>1, <2>2 DEF Book
<1>4. ASSUME NEW t, trades = {t}, OneTrade(t), Margin(day, 0)
      PROVE  Profit(touch) \in Int /\ Book(StillOpen(touch), after)
  <2>1. touch[t] \in {"open", "stop", "target"} /\ t.size \in Int /\ t.size \in 1..MaxSize
    BY <1>4, RiskAssumption DEF Touches, OneTrade
  <2>2. CASE touch[t] = "open"
    <3>1. StillOpen(touch) = {t} /\ Reached(touch) = {} /\ Stopped(touch) = {}
      BY <1>4, <2>2 DEF StillOpen, Reached, Stopped
    <3>2. Profit(touch) = 0
      BY <3>1, SizesOfFew DEF Profit
    <3>3. QED
      BY <1>0, <1>1, <1>4, <3>1, <3>2 DEF Book
  <2>3. CASE touch[t] # "open"
    <3>1. /\ StillOpen(touch) = {}
          /\ \/ Reached(touch) = {t} /\ Stopped(touch) = {}
             \/ Reached(touch) = {} /\ Stopped(touch) = {t}
      BY <1>4, <2>1, <2>3 DEF StillOpen, Reached, Stopped
    <3>2. Profit(touch) \in {t.size, -t.size}
      <4>1. MapThenSumSet(Size, {}) = 0 /\ MapThenSumSet(Size, {t}) = t.size
        BY <2>1, SizesOfFew
      <4>2. CASE Reached(touch) = {t} /\ Stopped(touch) = {}
        BY <2>1, <4>1, <4>2 DEF Profit
      <4>3. CASE Reached(touch) = {} /\ Stopped(touch) = {t}
        BY <2>1, <4>1, <4>3 DEF Profit
      <4>4. QED
        BY <3>1, <4>2, <4>3
    <3>3. Profit(touch) \in Int /\ Profit(touch) >= -MaxSize
      BY <2>1, <3>2, RiskAssumption
    <3>4. Margin(after, MaxSize)
      BY <1>0, <1>4, <3>3, LossOvershoots
    <3>5. QED
      BY <1>2, <3>1, <3>3, <3>4 DEF Book
  <2>4. QED
    BY <2>2, <2>3
<1>5. QED
  BY <1>3, <1>4 DEF Book

\* A trade is opened flat, and only while no limit was reached.
LEMMA AskOpens ==
  ASSUME Clocked, name \notin Reversers, NEW bar, NEW open, NEW state, NEW kept,
         Ask(bar, open, state, kept), Book(open, state)
  PROVE  Book(trades', state)
<1>1. PICK said \in Replies(bar, open, state, kept) :
        trades' = IF said.answer.outcome = "signal"
                  THEN open \cup {NewTrade(open, said.answer)} ELSE open
  BY DEF Ask
<1>2. CASE said.answer.outcome # "signal"
  BY <1>1, <1>2
<1>3. CASE said.answer.outcome = "signal"
  <2>1. PICK input \in Inputs(name, kept), draw \in FewDraws :
          said = OnBar(name, kept, input, bar, Position(open), draw, state)
    BY <1>1 DEF Replies
  <2>2. Proposes(said.answer, draw, state, Position(open))
    BY <2>1, HoldersPropose DEF Clocked
  <2>3. PICK side \in {1, -1} :
          Position(open) = 0 /\ said.answer = BuildSignal(side, draw, state, 0)
    BY <1>3, <2>2 DEF Proposes, Long, Short
  <2>4. open = {}
    BY <2>3, PositionOfOne DEF Book, OneTrade
  <2>5. /\ said.answer = [outcome |-> "signal", side |-> side, size |-> draw.size]
        /\ CanOpenNewPosition(state, 0, draw.size)
    BY <1>3, <2>3 DEF BuildSignal, Nothing, Say, Blocked, Signal
  <2>6. draw.size \in 1..MaxSize
    BY RiskAssumption DEF FewDraws, Draw
  <2> DEFINE t == NewTrade(open, said.answer)
  <2>7. t.side = side /\ t.size = draw.size
    BY <2>5 DEF NewTrade
  <2> HIDE DEF t
  <2>8. trades' = {t} /\ OneTrade(t)
    BY <1>1, <1>3, <2>4, <2>6, <2>7 DEF OneTrade, t
  <2>9. Margin(state, 0)
    <3>1. state.balance > TrailingMaxLossLimit(state.peak)
          /\ state.balance - state.start > -DailyLoss
      BY <2>5 DEF CanOpenNewPosition
    <3>2. state.balance \in Int /\ state.start \in Int
          /\ TrailingMaxLossLimit(state.peak) \in Int
      BY RiskAssumption DEF Book, Accounts, TrailingMaxLossLimit, SmallerOf
    <3>3. QED
      BY <3>1, <3>2, RiskAssumption DEF Margin
  <2>10. QED
    BY <2>8, <2>9 DEF Book
<1>4. QED
  BY <1>2, <1>3

\* Every step keeps who holds what, and by how much the limits are overshot.
LEMMA HolderStep == ASSUME Clocked, HolderInv, [Next]_vars PROVE HolderInv'
<1>1. CASE UNCHANGED vars
  BY <1>1 DEF HolderInv, vars, Book, Margin
<1>2. SUFFICES ASSUME name \notin Reversers, Next PROVE Book(trades', account')
  BY <1>1, Steps DEF HolderInv
<1>3. CASE ReplayBar
  <2>1. PICK at \in Following[now], touch \in Touches :
          LET day == IF NewTradingDay(at) THEN RolledAccount(account) ELSE account
              state == [day EXCEPT !.balance = @ + Profit(touch)]
              asked == {bar \in Closes(at) : Called(bar)}
          IN  /\ account' = state
              /\ IF asked = {} THEN DoesNotAsk(StillOpen(touch), memory)
                 ELSE \E bar \in asked : Ask(bar, StillOpen(touch), state, memory)
    BY <1>3 DEF ReplayBar
  <2> DEFINE day == IF NewTradingDay(at) THEN RolledAccount(account) ELSE account
             state == [day EXCEPT !.balance = @ + Profit(touch)]
  <2>2. Book(trades, day)
    BY <1>2, DayTurns DEF HolderInv
  <2> HIDE DEF day
  <2>3. Book(StillOpen(touch), state)
    BY <2>2, BarTouches
  <2>4. /\ account' = state
        /\ \/ trades' = StillOpen(touch)
           \/ \E bar : Ask(bar, StillOpen(touch), state, memory)
    BY <2>1 DEF DoesNotAsk, day
  <2> HIDE DEF state
  <2>5. QED
    BY <1>2, <2>3, <2>4, AskOpens
<1>4. CASE ScriptBar
  <2>1. PICK at \in Following[now], touch \in Touches, out \in -1..1 :
          LET day == IF NewTradingDay(at) THEN FreshAccount ELSE account
              open == StillOpen(touch)
              flat == WantsForceFlat(name, at)
              state == [day EXCEPT !.balance =
                          @ + Profit(touch)
                            + (IF flat THEN out * MapThenSumSet(Size, open) ELSE 0)]
          IN  /\ account' = state
              /\ \E kept : Ask(at, IF flat THEN {} ELSE open, state, kept)
    BY <1>4, ZenonT(40) DEF ScriptBar
  <2> DEFINE day == IF NewTradingDay(at) THEN FreshAccount ELSE account
             open == StillOpen(touch)
             flat == WantsForceFlat(name, at)
             touched == [day EXCEPT !.balance = @ + Profit(touch)]
             left == IF flat THEN out * MapThenSumSet(Size, open) ELSE 0
             state == [day EXCEPT !.balance = @ + Profit(touch) + left]
  <2>2. Book(trades, day)
    BY <1>2, DayTurns DEF HolderInv
  <2>3. account' = state /\ \E kept : Ask(at, IF flat THEN {} ELSE open, state, kept)
    BY <2>1
  <2> HIDE DEF day, flat
  <2>4. Book(open, touched) /\ Profit(touch) \in Int
    BY <2>2, BarTouches
  <2>5. state = [touched EXCEPT !.balance = @ + left]
    <3> HIDE DEF left
    <3>1. QED
      BY <2>2 DEF Book, Accounts
  <2> HIDE DEF open, touched, state
  <2>6. touched \in Accounts
    BY <2>4 DEF Book
  <2>7. ASSUME left = 0 PROVE state = touched
    <3>1. touched.balance + left = touched.balance
      BY <2>6, <2>7 DEF Accounts
    <3> HIDE DEF left
    <3>2. QED
      BY <2>5, <2>6, <3>1 DEF Accounts
  <2>8. Book(IF flat THEN {} ELSE open, state)
    <3>1. CASE ~flat
      BY <2>4, <2>7, <3>1
    <3>2. CASE flat /\ open = {}
      <4>1. left = 0
        BY <3>2, SizesOfFew
      <4>2. QED
        BY <2>4, <2>7, <3>2, <4>1
    <3>3. ASSUME flat, NEW t, open = {t}, OneTrade(t), Margin(touched, 0)
          PROVE  Book({}, state)
      <4>1. t.size \in Int /\ t.size \in 1..MaxSize /\ MaxSize \in Nat
        BY <3>3, RiskAssumption DEF OneTrade
      <4>2. MapThenSumSet(Size, open) = t.size
        BY <3>3, <4>1, SizesOfFew
      <4>3. left \in {-t.size, 0, t.size}
        BY <3>3, <4>1, <4>2
      <4>4. left \in Int /\ left >= -MaxSize
        BY <4>1, <4>3
      <4> HIDE DEF left
      <4>5. Margin(state, MaxSize)
        BY <2>5, <2>6, <3>3, <4>4, LossOvershoots
      <4>6. state \in Accounts
        BY <2>5, <2>6, <4>4 DEF Accounts
      <4>7. QED
        BY <4>5, <4>6 DEF Book
    <3>4. QED
      BY <2>4, <3>1, <3>2, <3>3 DEF Book
  <2> HIDE DEF left
  <2>9. QED
    BY <1>2, <2>3, <2>8, AskOpens
<1>5. QED
  BY <1>2, <1>3, <1>4 DEF Next

\* A strategy that never answers against its position loses no more than one
\* trade beyond the daily and the trailing limit: over any number of days, with
\* either driver, wherever its stops are hit and whenever it is flattened
\* (can_open_new_position as called from _build_signal).
THEOREM LimitsHold == Spec => []LimitsOvershotByOneTrade
<1>1. Init => Clocked /\ HolderInv
  <2>1. ASSUME Init PROVE Book(trades, account)
    <3>1. MaxSize \in Nat
      BY RiskAssumption
    <3>2. /\ FreshAccount \in Accounts
          /\ FreshAccount.balance = AccountSize /\ FreshAccount.start = AccountSize
          /\ FreshAccount.peak = AccountSize
      BY RiskAssumption DEF FreshAccount, Accounts
    <3>3. Margin(FreshAccount, MaxSize)
      BY <3>2, RiskAssumption DEF Margin, TrailingMaxLossLimit, SmallerOf
    <3>4. QED
      BY <2>1, <3>2, <3>3 DEF Book, Init
  <2>2. QED
    BY <2>1, ClockedInit DEF HolderInv
<1>2. Clocked /\ HolderInv /\ [Next]_vars => (Clocked /\ HolderInv)'
  BY ClockedStep, HolderStep
<1>3. ASSUME Clocked, HolderInv PROVE LimitsOvershotByOneTrade
  <2>1. ASSUME Book(trades, account)
        PROVE  /\ account.balance - account.start > -(DailyLoss + MaxSize)
               /\ account.balance > TrailingMaxLossLimit(account.peak) - MaxSize
    <3>1. /\ account.balance \in Int /\ account.start \in Int
          /\ TrailingMaxLossLimit(account.peak) \in Int
      BY <2>1, RiskAssumption DEF Book, Accounts, TrailingMaxLossLimit, SmallerOf
    <3>2. Margin(account, MaxSize) \/ Margin(account, 0)
      BY <2>1 DEF Book
    <3>3. QED
      BY <3>1, <3>2, RiskAssumption DEF Margin
  <2>2. QED
    BY <1>3, <2>1 DEF LimitsOvershotByOneTrade, HolderInv
<1>4. QED
  BY <1>1, <1>2, <1>3, PTL DEF Spec
=============================================================================
