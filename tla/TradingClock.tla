---------------------------- MODULE TradingClock ----------------------------
(***************************************************************************)
(* The exchange's day as acme.calendar sees it.  A moment is a calendar    *)
(* day and a minute of it, Central Time; the trading day that carries a    *)
(* day's label begins at 17:00 of the day before.                          *)
(*                                                                         *)
(* Source: src/acme/calendar.py.                                           *)
(***************************************************************************)
EXTENDS Integers

CONSTANTS
  Weekend,          \* days, as natural numbers, that are Saturdays or Sundays
  FullyClosed,      \* FULLY_CLOSED_2026
  EarlyClose1145,   \* EARLY_CLOSE_1145_2026
  EarlyClose0800,   \* EARLY_CLOSE_0800_2026
  FomcDates,        \* FOMC_STATEMENT_DATES_2026
  FirstFridays      \* days on which the NFP report is published

ASSUME CalendarAssumption ==
  /\ Weekend \subseteq Nat /\ FullyClosed \subseteq Nat
  /\ EarlyClose1145 \subseteq Nat /\ EarlyClose0800 \subseteq Nat
  /\ FomcDates \subseteq Nat /\ FirstFridays \subseteq Nat
-----------------------------------------------------------------------------
Minutes == 0..1439
Clock(hour, minute) == 60 * hour + minute

NormalClose == Clock(15, 10)
NormalResume == Clock(17, 0)
CloseBuffer == 15
NoClose == 1440

TradingDate(day, minute) == IF minute < NormalResume THEN day ELSE day + 1

Closed(day) == day \in Weekend \cup FullyClosed

EnforcedClose(day) ==
  CASE Closed(day) -> NoClose
    [] day \in EarlyClose0800 -> Clock(8, 0)
    [] day \in EarlyClose1145 /\ day \notin EarlyClose0800 -> Clock(11, 45)
    [] OTHER -> NormalClose

FlattenAt(day) == EnforcedClose(day) - CloseBuffer

InEconBlackout(day, minute) ==
  \/ day \in FirstFridays /\ minute \in Clock(7, 25)..(Clock(8, 0) - 1)
  \/ day \in FomcDates /\ minute \in Clock(12, 55)..(Clock(13, 30) - 1)

\* The evening before belongs to the next day's session, whose flatten is
\* still hours away.
CanTradeNow(day, minute) ==
  LET date == TradingDate(day, minute)
  IN  /\ minute \notin NormalClose..(NormalResume - 1)
      /\ ~Closed(date)
      /\ date = day => minute < FlattenAt(date)
      /\ ~InEconBlackout(day, minute)
=============================================================================
