----------------------------- MODULE FleetReplay -----------------------------
(***************************************************************************)
(* The two offline drivers of a strategy.  run_backtest feeds it the bars  *)
(* of its timeframe built from the closes of one-minute bars, in its       *)
(* hours, on an account that carries over from day to day;                 *)
(* backtest_strategy feeds it two-minute bars, flattens it when it asks to *)
(* be, and gives it a fresh account every trading day.  Both track its     *)
(* trades by their brackets, the stop first.                               *)
(*                                                                         *)
(* Source: src/acme/backtest/bar_replay.py,                                *)
(* scripts/backtest_new_fleet.py.                                          *)
(***************************************************************************)
EXTENDS Fleet, Sequences, FiniteSetsExt

CONSTANTS
  Drives,      \* the strategies each driver is run with
  Slots,       \* the minutes of a day at which a one-minute bar may arrive
  Days,        \* bound: the calendar days of the stream, from 1
  MaxOpen,     \* bound: trades open at once
  MaxGain      \* bound: what the account may be ahead of its size

ASSUME ReplayAssumption ==
  /\ DOMAIN Drives = {"replay", "script"}
  /\ \A d \in DOMAIN Drives : Drives[d] \subseteq AllStrategies
  /\ Slots \subseteq Minutes /\ Days \in Nat \ {0}
  /\ MaxOpen \in Nat \ {0} /\ MaxGain \in Nat

VARIABLES
  driver,      \* "replay" or "script"
  name,        \* the strategy driven
  enforce,     \* enforce_time_buckets
  now,         \* day and minute of the last one-minute bar
  built,       \* the label of the longer bar the last but one minute is part of
  memory,      \* the strategy's
  trades,      \* open trades
  account,     \* DailyState and the balance
  opened,      \* how many trades were opened on bars of the date openedOn
  openedOn,
  crashed      \* the driver raised

vars ==
  <<driver, name, enforce, now, built, memory, trades, account, opened, openedOn, crashed>>

Trades == [id : 1..MaxOpen, side : {Long, Short}, size : 1..MaxSize]
Moments == [day : 1..Days, minute : Slots]
Before == [day |-> 0, minute |-> 0]
FreshAccount ==
  [start |-> AccountSize, peak |-> AccountSize, realized |-> 0, balance |-> AccountSize]

Init ==
  /\ driver \in DOMAIN Drives /\ name \in Drives[driver]
  /\ enforce \in (IF driver = "replay" THEN BOOLEAN ELSE {FALSE})
  /\ now = Before /\ built = Before /\ memory = Fresh(name)
  /\ trades = {} /\ account = FreshAccount
  /\ opened = 0 /\ openedOn = NoDate /\ crashed = FALSE
-----------------------------------------------------------------------------
Later(a, b) == a.day < b.day \/ (a.day = b.day /\ a.minute < b.minute)

\* Bars may be missing: a minute of the day, or two.
Earliest(moments) == {m \in moments : \A n \in moments : n = m \/ Later(m, n)}
Following ==
  [at \in Moments \cup {Before} |->
     LET rest == {m \in Moments : Later(at, m)}
     IN  Earliest(rest) \cup Earliest(rest \ Earliest(rest))]

SignedSize(t) == t.side * t.size
Position(open) == MapThenSumSet(SignedSize, open)

(* What the bar does to every open trade. *)
Touches == [trades -> {"open", "stop", "target"}]
Stopped(touch) == {t \in trades : touch[t] = "stop"}
Reached(touch) == {t \in trades : touch[t] = "target"}
Size(t) == t.size
Profit(touch) ==
  MapThenSumSet(Size, Reached(touch)) - MapThenSumSet(Size, Stopped(touch))
StillOpen(touch) == {t \in trades : touch[t] = "open"}

(* DailyState at the first bar of a trading day. *)
RolledAccount(state) ==
  [state EXCEPT !.start = state.balance,
                !.peak = LargerOf(@, state.balance), !.realized = 0]

NewTradingDay(at) ==
  now = Before \/ TradingDate(now.day, now.minute) # TradingDate(at.day, at.minute)

\* The label of the bar of the strategy's timeframe a minute falls into.
Label(at) == [at EXCEPT !.minute = @ - (@ % Timeframe(name))]

(* The aggregator completes a minute when the next one comes, and only     *)
(* then rolls it into the longer bar, which it completes when the rolled   *)
(* minute falls into another one.                                          *)
Built == IF Timeframe(name) = 1 \/ now = Before THEN built ELSE Label(now)
Closes(at) ==
  IF Timeframe(name) = 1 THEN {at}
  ELSE IF built # Before /\ built # Built THEN {built} ELSE {}

Called(bar) == ~enforce \/ bar.minute \in TimeBuckets(name)

NewTrade(open, answer) ==
  [id |-> CHOOSE id \in 1..MaxOpen : \A t \in open : t.id # id,
   side |-> answer.side, size |-> answer.size]

\* Everything the strategy may keep and answer, for some bar and bracket.
Replies(at, open, state, kept) ==
  {OnBar(name, kept, bar, at, Position(open), draw, state) :
     bar \in Inputs(name, kept), draw \in FewDraws}

Ask(at, open, state, kept) ==
  \E said \in Replies(at, open, state, kept) :
    LET opens == said.answer.outcome = "signal"
    IN  /\ memory' = said.memory
        /\ opens => Cardinality(open) < MaxOpen
        /\ trades' = IF opens THEN open \cup {NewTrade(open, said.answer)} ELSE open
        /\ openedOn' = at.day
        /\ opened' = (IF openedOn = at.day THEN opened ELSE 0) + (IF opens THEN 1 ELSE 0)
        \* Only None and Signal have a size.
        /\ crashed' = (said.answer.outcome \in {"pass", "near", "hold"})

DoesNotAsk(open, kept) ==
  /\ memory' = kept /\ trades' = open
  /\ UNCHANGED <<opened, openedOn, crashed>>

ReplayBar ==
  /\ driver = "replay" /\ ~crashed
  /\ \E at \in Following[now], touch \in Touches :
       LET day == IF NewTradingDay(at) THEN RolledAccount(account) ELSE account
           state == [day EXCEPT !.balance = @ + Profit(touch)]
           asked == {bar \in Closes(at) : Called(bar)}
       IN  /\ state.balance <= AccountSize + MaxGain
           /\ now' = at /\ built' = Built /\ account' = state
           /\ IF asked = {} THEN DoesNotAsk(StillOpen(touch), memory)
              ELSE \E bar \in asked : Ask(bar, StillOpen(touch), state, memory)
  /\ UNCHANGED <<driver, name, enforce>>

(* Flattened trades leave at the open of the bar, at any price between.    *)
(* The date may have no levels: those of the day before stay then.         *)
ScriptBar ==
  /\ driver = "script" /\ ~crashed
  /\ \E at \in Following[now], touch \in Touches, out \in -1..1 :
       LET day == IF NewTradingDay(at) THEN FreshAccount ELSE account
           open == StillOpen(touch)
           flat == WantsForceFlat(name, at)
           state == [day EXCEPT !.balance =
                       @ + Profit(touch)
                         + (IF flat THEN out * MapThenSumSet(Size, open) ELSE 0)]
           given == IF NewTradingDay(at) /\ TakesLevels(name)
                    THEN {memory, SetLevels(memory)} ELSE {memory}
       IN  /\ at.minute % Timeframe(name) = 0
           /\ out # 0 => flat /\ open # {}
           /\ state.balance <= AccountSize + MaxGain
           /\ now' = at /\ account' = state
           /\ \E kept \in given : Ask(at, IF flat THEN {} ELSE open, state, kept)
  /\ UNCHANGED <<driver, name, enforce, built>>

Next == ReplayBar \/ ScriptBar
Spec == Init /\ [][Next]_vars
-----------------------------------------------------------------------------
\* The trades of a date, by the strategy's own account of what it used up.
MarkedToday == memory.fired /\ memory.date = openedOn
ShotsUsed ==
  CASE name \in {"donchian", "turtles_system2", "turtle_soup"} ->
         IF MarkedToday THEN 1 ELSE 0
    [] name = "bb_mr" -> IF memory.date = openedOn THEN memory.trades ELSE 0
    [] name = "gap_fill" -> IF memory.entered = openedOn /\ openedOn # NoDay THEN 1 ELSE 0
    [] name = "overnight_drift" ->
         IF memory.entered /\ memory.bias = openedOn THEN 1 ELSE 0
ShotCap == IF name = "bb_mr" THEN 2 ELSE 1
KeepsCount ==
  name \in {"donchian", "turtles_system2", "turtle_soup", "bb_mr", "gap_fill",
            "overnight_drift"}

(* A strategy that trades a limited number of times a day has opened as    *)
(* many trades on a date as its memory says, and never more than its cap,  *)
(* whatever bars are missing, however trades end, and whether or not the   *)
(* driver calls it in all hours; an opening range opens at most a trade of *)
(* each side, for a side it marked as taken.                               *)
(* gap_fill and overnight_drift end their run with the first EvalResult    *)
(* they return, which both drivers take for a signal: no claim after it.   *)
(* Code: the date and mark checks in on_bar of each strategy.              *)
ShotsMatchTrades ==
  /\ KeepsCount => opened = ShotsUsed /\ opened <= ShotCap
  /\ name = "orb" =>
       opened <= Cardinality({side \in {Long, Short} :
         IF side = Long THEN memory.longTaken ELSE memory.shortTaken})

(* A strategy that does not answer against its position never loses more   *)
(* than one trade beyond the daily limit, nor beyond the trailing limit:   *)
(* the gate sees every realized loss before the next trade is sized.       *)
(* Code: can_open_new_position as called from _build_signal, with the      *)
(* balance the driver moved before on_bar.                                 *)
LimitsOvershotByOneTrade ==
  name \notin Reversers =>
    /\ account.balance - account.start > -(DailyLoss + MaxSize)
    /\ account.balance > TrailingMaxLossLimit(account.peak) - MaxSize
=============================================================================
