---------------------------- MODULE PhantomBook ----------------------------
(***************************************************************************)
(* The dry-run (paper) mode of the conductor: quotes become 1-minute bars, *)
(* 1-minute closes become longer bars, and every strategy keeps a book of  *)
(* phantom positions that later bars close.  Nothing in this mode awaits a *)
(* broker call; a bar is handled in phases, in the order of the code, and  *)
(* may be abandoned in the middle by an exception.                         *)
(*                                                                         *)
(* Source: src/acme/conductor/conductor.py, dry_run.py, bar_aggregator.py. *)
(* Prices are counted in ticks and time in minutes.                        *)
(***************************************************************************)
EXTENDS Integers, FiniteSets, FiniteSetsExt

CONSTANTS
  Strategies,    \* strategies with an attached instance
  Reversers,     \* those that emit an opposite signal while in a position
  TfOf,          \* timeframe (minutes) of each strategy
  MaxSize,       \* largest signal size
  StopTicks,     \* bracket of every signal
  TargetTicks,
  MaxPrice,      \* bound: prices are 1..MaxPrice
  MaxMinute,     \* bound: the last minute that starts
  MaxGap,        \* bound: minutes between two quotes
  MaxOpen,       \* bound: open phantoms per strategy
  Faults         \* subset of {"strategyRaises", "kill", "restart"}

ASSUME ConstantsAssumption ==
  /\ Reversers \subseteq Strategies
  /\ TfOf \in [Strategies -> Nat \ {0}]
  /\ MaxSize \in Nat \ {0}
  /\ StopTicks \in Nat /\ TargetTicks \in Nat
  /\ MaxPrice \in Nat \ {0}
  /\ MaxMinute \in Nat /\ MaxGap \in Nat /\ MaxOpen \in Nat

\* Buckets are counted within the hour; as every strategy declares a divisor
\* of 60 (1, 2 or 5), that is the same as counting them from minute 0.
ASSUME HourAssumption == \A s \in Strategies : 60 % TfOf[s] = 0

VARIABLES
  clock,       \* minute of the 1-minute bar being built
  agg,         \* MultiTimeframeAggregator._bar_aggs, one bar per longer timeframe
  due,         \* the bars this quote completed and the loop has not finished
  phase,       \* where in the handling of the current bar the process is
  toAsk,       \* strategies of this bar not yet consulted in this phase
  open,        \* self.dry_run_open: phantom positions of each strategy
  net,         \* self.dry_run_position_per_strategy
  active,      \* self._kill_switch_active
  \* observation only
  unclosed,    \* dry_run_signal rows minus dry_run_close rows, since a kill or a
               \* restart last emptied the books, which it does without a row
  candidates,  \* signals emitted on this bar, to be arbitrated at its end
  unanswered,  \* strategies with an unanswered signal_emitted row of this quote
  abandoned,   \* an exception or a restart has cut this quote short
  last         \* the last completed 1-minute bar

vars == <<clock, agg, due, phase, toAsk, open, net, active, unclosed,
          candidates, unanswered, abandoned, last>>
-----------------------------------------------------------------------------
Sides == {1, -1}
Prices == 1..MaxPrice
Timeframes == {1} \cup {TfOf[s] : s \in Strategies}
LongTfs == Timeframes \ {1}
Phases == {"idle", "exits", "poll", "coord", "signals"}

Bars == [t : Nat, h : Int, l : Int, c : Int]
Builders == [start : Nat \cup {-1}, h : Int, l : Int, c : Int]
Position == [side : Sides, size : 1..MaxSize, stop : Int, target : Int,
             from : Nat, seen : Nat]

CurrentTf == CHOOSE tf \in DOMAIN due : \A other \in DOMAIN due : tf <= other
Bar == due[CurrentTf]

TypeOK ==
  /\ clock \in Nat
  /\ agg \in [LongTfs -> Builders]
  /\ \E tfs \in SUBSET Timeframes : due \in [tfs -> Bars]
  /\ phase \in Phases
  /\ toAsk \subseteq Strategies
  /\ open \in [Strategies -> SUBSET Position]
  /\ net \in [Strategies -> Int]
  /\ active \in BOOLEAN
  /\ unclosed \in [Strategies -> Int]
  /\ candidates \subseteq Strategies /\ unanswered \subseteq Strategies
  /\ abandoned \in BOOLEAN
  /\ last \in Bars

NoBars == [tf \in {} |-> {}]
Empty == [start |-> -1, h |-> 0, l |-> 0, c |-> 0]

Init ==
  /\ clock = 0 /\ agg = [tf \in LongTfs |-> Empty]
  /\ due = NoBars /\ phase = "idle" /\ toAsk = {}
  /\ open = [s \in Strategies |-> {}] /\ net = [s \in Strategies |-> 0]
  /\ active = FALSE
  /\ unclosed = [s \in Strategies |-> 0]
  /\ candidates = {} /\ unanswered = {} /\ abandoned = FALSE
  /\ last = [t |-> 0, h |-> 1, l |-> 1, c |-> 1]
-----------------------------------------------------------------------------
(* Bars.  A longer bar is built from the closes of 1-minute bars, and is   *)
(* complete when a 1-minute bar of a later bucket is: one minute late.     *)

BucketFloor_LabelsEnd(minute, tf) == tf * (minute \div tf) + tf
BucketFloor(minute, tf) == tf * (minute \div tf)

Reset(bucket, price) ==
  [start |-> bucket, h |-> price, l |-> price, c |-> price]

Extend(a, price) ==
  [a EXCEPT !.h = IF price > @ THEN price ELSE @,
            !.l = IF price < @ THEN price ELSE @,
            !.c = price]

Completes(tf, minute) ==
  agg[tf].start # -1 /\ agg[tf].start # BucketFloor(minute, tf)

AddTick(tf, minute, price) ==
  IF agg[tf].start = BucketFloor(minute, tf)
  THEN Extend(agg[tf], price)
  ELSE Reset(BucketFloor(minute, tf), price)

BarOf(a) == [t |-> a.start, h |-> a.h, l |-> a.l, c |-> a.c]

\* The first quote of a later minute completes the 1-minute bar.
Quote(minute, bar) ==
  /\ phase = "idle"
  /\ clock < minute /\ minute <= clock + MaxGap /\ minute <= MaxMinute
  /\ bar.t = clock /\ bar.l <= bar.c /\ bar.c <= bar.h
  /\ clock' = minute
  /\ agg' = [tf \in LongTfs |-> AddTick(tf, bar.t, bar.c)]
  /\ due' = [tf \in {1} \cup {u \in LongTfs : Completes(u, bar.t)} |->
               IF tf = 1 THEN bar ELSE BarOf(agg[tf])]
  /\ phase' = "exits"
  /\ last' = bar
  /\ unanswered' = {} /\ abandoned' = FALSE
  /\ UNCHANGED <<toAsk, open, net, active, unclosed, candidates>>

FinishBar ==
  /\ due' = [tf \in DOMAIN due \ {CurrentTf} |-> due[tf]]
  /\ phase' = IF DOMAIN due = {CurrentTf} THEN "idle" ELSE "exits"
  /\ toAsk' = {}

DropQuote == due' = NoBars /\ phase' = "idle" /\ toAsk' = {}
-----------------------------------------------------------------------------
(* Phase 1: check_dry_run_exits, over every bucket whatever its timeframe. *)
Signed(p) == p.side * p.size

StopHit_Wick(p, bar) == IF p.side = 1 THEN bar.c <= p.stop ELSE bar.c >= p.stop
StopHit(p, bar) == IF p.side = 1 THEN bar.l <= p.stop ELSE bar.h >= p.stop
TargetHit(p, bar) == IF p.side = 1 THEN bar.h >= p.target ELSE bar.l <= p.target
Hit(p, bar) == StopHit(p, bar) \/ TargetHit(p, bar)

SizeChange_AlwaysSell(p) == -p.size
SizeChange(p) == IF p.side = 1 THEN -p.size ELSE p.size

Remaining_All(book, p) == book
Remaining(book, p) == book \ {p}

Exit(s, p) ==
  /\ phase = "exits"
  /\ p \in open[s] /\ Hit(p, Bar)
  /\ open' = [open EXCEPT ![s] = Remaining(@, p)]
  /\ net' = [net EXCEPT ![s] = @ + SizeChange(p)]
  /\ unclosed' = [unclosed EXCEPT ![s] = @ - 1]
  /\ UNCHANGED <<clock, agg, due, phase, toAsk, active, candidates, unanswered,
                 abandoned, last>>

ExitsDone ==
  /\ phase = "exits"
  /\ \A s \in Strategies : \A p \in open[s] : ~Hit(p, Bar)
  /\ phase' = "poll"
  /\ UNCHANGED <<clock, agg, due, toAsk, open, net, active, unclosed,
                 candidates, unanswered, abandoned, last>>
-----------------------------------------------------------------------------
(* Phase 2: the kill switch.  `flattens': the new rows activate it from    *)
(* inactive at least once, and every phantom disappears; `after': the flag *)
(* when all rows are handled.                                              *)
SwitchBlocks_Never(after) == FALSE
SwitchBlocks(after) == after

Poll(flattens, after) ==
  /\ phase = "poll"
  /\ flattens \/ after => "kill" \in Faults
  /\ after /\ ~active => flattens
  /\ active' = after
  /\ IF flattens
     THEN /\ open' = [s \in Strategies |-> {}]
          /\ net' = [s \in Strategies |-> 0]
          /\ unclosed' = [s \in Strategies |-> 0]
     ELSE UNCHANGED <<open, net, unclosed>>
  /\ IF SwitchBlocks(after)
     THEN FinishBar
     ELSE /\ phase' = "coord"
          /\ toAsk' = {s \in Strategies : TfOf[s] = CurrentTf}
          /\ due' = due
  /\ UNCHANGED <<clock, agg, candidates, unanswered, abandoned, last>>
-----------------------------------------------------------------------------
(* Phase 3: wants_force_flat.  A strategy closes its own book at the       *)
(* bar's close.                                                            *)
ForceFlat(s) ==
  /\ phase = "coord" /\ s \in toAsk
  /\ open[s] # {}
  /\ toAsk' = toAsk \ {s}
  /\ unclosed' = [unclosed EXCEPT ![s] = @ - Cardinality(open[s])]
  /\ open' = [open EXCEPT ![s] = {}]
  /\ net' = [net EXCEPT ![s] = 0]
  /\ UNCHANGED <<clock, agg, due, phase, active, candidates, unanswered,
                 abandoned, last>>

CoordDone ==
  /\ phase = "coord"
  /\ phase' = "signals"
  /\ toAsk' = {s \in Strategies : TfOf[s] = CurrentTf}
  /\ candidates' = {}
  /\ UNCHANGED <<clock, agg, due, open, net, active, unclosed, unanswered,
                 abandoned, last>>
-----------------------------------------------------------------------------
(* Phase 4: signals.  Each strategy is told its own phantom net.           *)
SeenPosition_Flat(s) == 0
SeenPosition(s) == net[s]

MayEmit(s, side) ==
  \/ SeenPosition(s) = 0
  \/ s \in Reversers /\ side = (IF SeenPosition(s) > 0 THEN -1 ELSE 1)

NoSignal(s) ==
  /\ phase = "signals" /\ s \in toAsk
  /\ toAsk' = toAsk \ {s}
  /\ UNCHANGED <<clock, agg, due, phase, open, net, active, unclosed,
                 candidates, unanswered, abandoned, last>>

\* A signal is logged and becomes a candidate; whether it opens a phantom is
\* decided afterwards, by its size and the calendar.
\* (Every strategy with an instance has its metadata in the registry.)
IsCandidate_IfOpened(opened) == opened
IsCandidate(opened) == TRUE

Emitted(s, opened) ==
  /\ phase = "signals" /\ s \in toAsk
  /\ toAsk' = toAsk \ {s}
  /\ candidates' = IF IsCandidate(opened) THEN candidates \cup {s}
                                          ELSE candidates
  /\ unanswered' = unanswered \cup {s}
  /\ UNCHANGED <<clock, agg, due, phase, active, abandoned, last>>

\* size 0 (a risk gate of the strategy) or a closed calendar.
BlockedSignal(s) ==
  /\ Emitted(s, FALSE)
  /\ \E side \in Sides : MayEmit(s, side)
  /\ UNCHANGED <<open, net, unclosed>>

\* `from': the minute its entry bar ended; `seen' (observation only): the last
\* 1-minute bar that had been completed when it was opened.
PhantomOf(s, side, size) ==
  [side |-> side, size |-> size, stop |-> Bar.c - side * StopTicks,
   target |-> Bar.c + side * TargetTicks, from |-> Bar.t + CurrentTf,
   seen |-> last.t]

OpenPhantom(s, side, size) ==
  /\ Emitted(s, TRUE)
  /\ MayEmit(s, side)
  /\ Cardinality(open[s]) < MaxOpen
  /\ open' = [open EXCEPT ![s] = @ \cup {PhantomOf(s, side, size)}]
  /\ net' = [net EXCEPT ![s] = @ + side * size]
  /\ unclosed' = [unclosed EXCEPT ![s] = @ + 1]

\* on_bar of some strategy raises: the whole quote is abandoned.
StrategyRaises ==
  /\ "strategyRaises" \in Faults
  /\ phase = "signals" /\ toAsk # {}
  /\ DropQuote
  /\ abandoned' = TRUE
  /\ UNCHANGED <<clock, agg, open, net, active, unclosed, candidates,
                 unanswered, last>>

\* Every candidate gets a signal_arbitrated or a signal_suppressed row.
Arbitrate ==
  /\ phase = "signals" /\ toAsk = {}
  /\ unanswered' = unanswered \ candidates
  /\ candidates' = {}
  /\ FinishBar
  /\ UNCHANGED <<clock, agg, open, net, active, unclosed, abandoned, last>>
-----------------------------------------------------------------------------
\* A new process: the books were in memory only.
Restart ==
  /\ "restart" \in Faults
  /\ agg' = [tf \in LongTfs |-> Empty]
  /\ due' = NoBars /\ phase' = "idle" /\ toAsk' = {}
  /\ open' = [s \in Strategies |-> {}] /\ net' = [s \in Strategies |-> 0]
  /\ unclosed' = [s \in Strategies |-> 0]
  /\ active' = FALSE /\ candidates' = {} /\ abandoned' = TRUE
  /\ UNCHANGED <<clock, unanswered, last>>

MinuteBars ==
  {[t |-> clock, h |-> h, l |-> l, c |-> c] :
     h \in Prices, l \in Prices, c \in Prices}

Next ==
  \/ \E minute \in clock + 1 .. clock + MaxGap, bar \in MinuteBars :
        Quote(minute, bar)
  \/ \E s \in Strategies : \E p \in open[s] : Exit(s, p)
  \/ ExitsDone
  \/ \E flattens, after \in BOOLEAN : Poll(flattens, after)
  \/ \E s \in Strategies : ForceFlat(s)
  \/ CoordDone
  \/ \E s \in Strategies : NoSignal(s) \/ BlockedSignal(s)
  \/ \E s \in Strategies, side \in Sides, size \in 1..MaxSize :
        OpenPhantom(s, side, size)
  \/ StrategyRaises
  \/ Arbitrate
  \/ Restart

Spec == Init /\ [][Next]_vars
-----------------------------------------------------------------------------
(* Properties.                                                             *)

\* The signed net a strategy is told is the sum of its open phantoms, through
\* exits, forced closes, kills and abandoned bars (conductor.py 235-237,
\* 638-642, 741-742, 818-819 update the two dictionaries separately).
BookBalanced ==
  \A s \in Strategies : net[s] = MapThenSumSet(Signed, open[s])

\* While the switch is active no strategy holds a phantom: nothing opens one
\* between the activation and the clearing row (conductor.py 332-337).
DryFlatWhileKilled == active => \A s \in Strategies : open[s] = {} /\ net[s] = 0

\* Every dry_run_signal row is matched by a dry_run_close row or by a phantom
\* that is still open, apart from the phantoms that a kill or a restart took
\* without a row (conductor.py 12, 614-657, 816-819; dry_run.py 96-117).
EveryPhantomAccounted ==
  \A s \in Strategies : unclosed[s] = Cardinality(open[s])

\* A strategy that holds in a position opens one phantom from flat and closes
\* it whole: it never adds to it and never flips.
Book(s) == INSTANCE SingleTrade WITH net <- net[s]
HoldersKeepSingleTrades ==
  [][\A s \in Strategies \ Reversers : Book(s)!Next \/ net'[s] = net[s]]_net

\* A phantom is closed only by bars that start after its entry bar ended
\* (dry_run.py 4, 28-29: "subsequent bars").
NoLookback ==
  phase = "exits" =>
    \A s \in Strategies : \A p \in open[s] :
      Hit(p, Bar) => Bar.t >= p.from

\* The last 1-minute bar left the phantom's bracket at no price it traded.
InsideBracket(p) ==
  \A price \in last.l .. last.h :
    /\ p.side * (price - p.stop) > 0
    /\ p.side * (p.target - price) > 0

\* Between quotes no phantom is open whose bracket was left by a 1-minute bar
\* that completed after the phantom was opened, on whatever timeframes and
\* although longer bars are abandoned, skipped or arrive late (dry_run.py
\* 57-139 is called for every completed bar, conductor.py 222-268).
StopsChecked ==
  phase = "idle" =>
    \A s \in Strategies : \A p \in open[s] :
      last.t > p.seen => InsideBracket(p)

\* The same for every 1-minute bar that came after the entry bar ended
\* (dry_run.py 28-29: "closed when a subsequent bar's high/low touches the
\* bracket levels").
StopsHonoured ==
  phase = "idle" =>
    \A s \in Strategies : \A p \in open[s] :
      last.t >= p.from => InsideBracket(p)

\* Between quotes every signal_emitted row has been answered by a
\* signal_arbitrated or a signal_suppressed row, the rows of one bar not being
\* lost on the next, unless an exception or a restart cut the quote short
\* (tests/test_conductor.py 5-6; conductor.py 408-565).
EverySignalAnswered == phase = "idle" /\ ~abandoned => unanswered = {}
=============================================================================
