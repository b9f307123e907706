------------------------------- MODULE V3Day -------------------------------
(***************************************************************************)
(* One v3 or v4 variant in dry run through two trading days: ticks build   *)
(* bars, a closed bar goes to the engine, and the decision is a phantom    *)
(* trade at the bar's close.  The counter the replay keeps for the same    *)
(* bars runs beside it.                                                    *)
(*                                                                         *)
(* Source: src/acme/ryan_spec/v3_runtime.py (dry_run), over DeltaBars and  *)
(* V3Engine.                                                               *)
(***************************************************************************)
EXTENDS DeltaBars, V3Engine, FiniteSets

CONSTANTS
  Setups,      \* variants, with the ticks of its feed and the values of the ATR
  Moments,     \* minutes at which ticks arrive
  TicksPerBar  \* bound: ticks in a bar

ASSUME DayAssumption ==
  /\ Moments \subseteq Nat
  /\ \A s \in Setups :
       /\ s.atrs \subseteq Nat \ {0}
       /\ s.ticks \subseteq [price : Int, size : Nat, side : {"buy", "sell", "unknown"}]
  /\ TicksPerBar \in Nat \ {0}

D == INSTANCE Detectors

VARIABLES
  setup,     \* [variant, ticks, atrs]
  up,        \* the runtime's loop is running
  now,       \* minute of the last tick
  ticks,     \* ticks in the bar in progress
  builder,   \* self.builder
  engine,    \* self.engine
  trade,     \* the open row's stop and the bars closed since it was opened
  session,   \* the replay's _CumDeltaSession
  \* observation only
  flow,      \* signed flow of all ticks since the last session open
  seen       \* the last closed bar: start, counter handed on, flow then

vars == <<setup, up, now, ticks, builder, engine, trade, session, flow, seen>>

NoTrade == [stop |-> 0, bars |-> -1]
variant == setup.variant
Regimes == IF variant.gate = "none" THEN {"chop"}
           ELSE D!ClassifierVerdicts[variant.classifier]

Position == [dir : {Long, Short}, entry : Int, stop : Int, held : Nat,
             mfe : Int, mae : Int, atr : Nat]

TypeOK ==
  /\ setup \in Setups /\ up \in BOOLEAN /\ now \in Nat
  /\ builder \in [bucket : Nat \cup {NoBucket}, open : Int, high : Int, low : Int,
                  delta : Int, last : Int, heading : {-1, 0, 1}, anchor : Int, cum : Int]
  /\ engine \in [bars : Nat, prior : [o : Int, c : Int], flows : Seq(Int),
                 pos : Position \cup {Flat}]
  /\ trade \in [stop : Int, bars : Int] /\ session \in [cum : Int, date : Int]
  /\ flow \in [session : Int, sum : Int] /\ seen \in [t : Nat, cum : Int, flow : Int]

Init ==
  /\ setup \in Setups /\ up = TRUE /\ now = 0 /\ ticks = 0
  /\ builder = NewBuilder /\ engine = NewEngine /\ trade = NoTrade
  /\ session = NewSession
  /\ flow = [session |-> -2, sum |-> 0]
  /\ seen = [t |-> 0, cum |-> 0, flow |-> 0]
-----------------------------------------------------------------------------
\* Sessions are numbered by the opens passed since day 0's.
SessionNumber(t) == (t - SessionOpen) \div DayLength

FlowAfter(t, signed) ==
  [session |-> SessionNumber(t),
   sum |-> signed + IF flow.session = SessionNumber(t) THEN flow.sum ELSE 0]

(* _on_closed_bar and the task it starts.  An entry is not taken when the  *)
(* operator paused entries or the row could not be inserted.               *)
OnClosedBar(atr, regime, taken) ==
  LET raw == ClosedBar(builder)
      bar == [t |-> raw.t, o |-> raw.o, h |-> raw.h, l |-> raw.l, c |-> raw.c, atr |-> atr]
      cum == CloseBar(builder).cum
      result == OnBar(engine, variant, bar, cum)
      decision == Gated(variant, regime, result.decision)
  IN  /\ session' = SessionUpdate(session, raw)
      /\ seen' = [t |-> raw.t, cum |-> cum, flow |-> flow.sum]
      /\ CASE decision.action = "enter" /\ taken ->
                /\ engine' = OpenPosition(result.engine, decision)
                /\ trade' = [stop |-> decision.stop, bars |-> 0]
           [] decision.action = "exit" ->
                engine' = ClosePosition(result.engine) /\ trade' = NoTrade
           [] OTHER ->
                /\ engine' = result.engine
                /\ trade' = IF trade = NoTrade THEN trade
                                               ELSE [trade EXCEPT !.bars = @ + 1]

Tick(t, tick) ==
  /\ up /\ t >= now
  /\ now' = t /\ builder' = Ingest(builder, t, tick)
  /\ flow' = FlowAfter(t, Signed(builder, tick))
  /\ UNCHANGED <<setup, up>>

TickInBar(t, tick) ==
  /\ ~ClosesBar(builder, t) /\ ticks < TicksPerBar
  /\ Tick(t, tick) /\ ticks' = ticks + 1
  /\ UNCHANGED <<engine, trade, session, seen>>

TickClosesBar(t, tick) ==
  /\ ClosesBar(builder, t)
  /\ Tick(t, tick) /\ ticks' = 1
  /\ \E atr \in setup.atrs, regime \in Regimes, taken \in BOOLEAN : OnClosedBar(atr, regime, taken)

\* Shutdown drains the partial bar; a task it starts may or may not run.
Drain ==
  /\ up /\ builder.bucket # NoBucket
  /\ up' = FALSE /\ ticks' = 0 /\ builder' = ForceCloseCurrent(builder)
  /\ \E atr \in setup.atrs, regime \in Regimes, taken \in BOOLEAN : OnClosedBar(atr, regime, taken)
  /\ UNCHANGED <<setup, now, flow>>

Next ==
  \/ \E t \in Moments, tick \in setup.ticks : TickInBar(t, tick) \/ TickClosesBar(t, tick)
  \/ Drain

Spec == Init /\ [][Next]_vars
-----------------------------------------------------------------------------
(* SessionFlow: the counter a closed bar carries into the entry filter is  *)
(* the signed flow of every tick since the last 08:30, whatever gaps and   *)
(* midnights lie between; and the replay counts as the live builder does   *)
(* until the first bar of the evening session (v3_tick_delta.py 131-183,   *)
(* v3_replay.py 160-192).                                                  *)
SessionFlow ==
  /\ seen.cum = seen.flow
  /\ seen.t < Evening => session.cum = seen.cum

(* StopsOnlyTighten: a trade starts at the stop its row and its bracket    *)
(* were given, turned round or not, and no bar ever moves the engine's     *)
(* stop away from the price (v3_engine.py 285-307, 357-375; v4_engine.py   *)
(* 142-165).                                                               *)
StopsOnlyTighten ==
  [][InPosition(engine') =>
       IF InPosition(engine)
       THEN engine.pos.dir * (engine'.pos.stop - engine.pos.stop) >= 0
       ELSE engine'.pos.stop = trade'.stop]_vars

(* TradesEnd: no armour, ratchet or gate keeps a trade past its time stop, *)
(* nor past the first bar at or after 14:50 that follows the bar that      *)
(* opened it (v3_engine.py 377-411).                                       *)
TradesEnd ==
  InPosition(engine) =>
    /\ variant.timeStop => trade.bars < TimeStopBars
    /\ variant.sessionEnd /\ trade.bars > 0 => MinuteOfDay(seen.t) < SessionEnd
=============================================================================
