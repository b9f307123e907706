----------------------------- MODULE V3DayProofs -----------------------------
(***************************************************************************)
(* The three properties of V3Day for every variant, feed, ATR and length   *)
(* of the windows: the flow a bar carries, the stop of a trade and its     *)
(* end.                                                                    *)
(***************************************************************************)
EXTENDS V3Day, TLAPS

Ticks == [price : Int, size : Nat, side : {"buy", "sell", "unknown"}]
Builders == [bucket : Nat \cup {NoBucket}, open : Int, high : Int, low : Int,
             delta : Int, last : Int, heading : {-1, 0, 1}, anchor : Int, cum : Int]
Engines == [bars : Nat, prior : [o : Int, c : Int], flows : Seq(Int),
            pos : Position \cup {Flat}]
Bars == [t : Nat, o : Int, h : Int, l : Int, c : Int, atr : Nat]
-----------------------------------------------------------------------------
(* The clock. *)

\* A bar lies in one session, and a session's anchor is its open.
LEMMA Sessions ==
  ASSUME NEW t \in Nat
  PROVE  /\ BucketFloor(t) \in Nat /\ BucketFloor(t) <= t
         /\ SessionNumber(t) \in Int /\ SessionNumber(t) > -2
         /\ SessionNumber(BucketFloor(t)) = SessionNumber(t)
         /\ SessionAnchor(t) = DayLength * SessionNumber(t) + SessionOpen
BY DEF BucketFloor, SessionNumber, SessionAnchor, MinuteOfDay, DayLength, SessionOpen

\* Two bars have the same anchor when they are of the same session.
LEMMA AnchorsTellSessions ==
  ASSUME NEW t \in Nat, NEW u \in Nat
  PROVE  /\ SessionAnchor(t) \in Int /\ SessionAnchor(t) # NoAnchor
         /\ SessionAnchor(t) = SessionAnchor(u) <=> SessionNumber(t) = SessionNumber(u)
BY Sessions DEF NoAnchor, DayLength, SessionOpen

\* The first day up to the evening.
LEMMA FirstDay ==
  ASSUME NEW t \in Nat, t < Evening
  PROVE  /\ TradingDate(t) = 0 /\ MinuteOfDay(t) = t
         /\ SessionAnchor(t) = IF t < SessionOpen THEN SessionOpen - DayLength ELSE SessionOpen
BY DEF TradingDate, SessionAnchor, MinuteOfDay, DayLength, SessionOpen, Evening
-----------------------------------------------------------------------------
(* The builder. *)

\* The flow of a tick is a number and its heading a sign.
LEMMA SignedType ==
  ASSUME NEW b \in Builders, NEW tick \in Ticks
  PROVE  /\ Signed(b, tick) \in Int
         /\ HeadingAfter(b, tick) \in {-1, 0, 1}
<1>1. Heading(b, tick.price) \in {-1, 0, 1}
  BY DEF Builders, Heading, Ticks
<1>2. tick.size \in Int
  BY DEF Ticks
<1> QED BY <1>1, <1>2 DEF Signed, HeadingAfter, Builders

\* A bar that closes takes the session of its bucket.
LEMMA CloseBarType ==
  ASSUME NEW b \in Builders, b.bucket # NoBucket
  PROVE  /\ CloseBar(b) \in Builders
         /\ CloseBar(b).bucket = b.bucket /\ CloseBar(b).last = b.last
         /\ CloseBar(b).heading = b.heading
         /\ CloseBar(b).anchor = SessionAnchor(b.bucket)
         /\ CloseBar(b).cum =
              b.delta + IF b.anchor = SessionAnchor(b.bucket) THEN b.cum ELSE 0
<1>1. b.bucket \in Nat
  BY DEF Builders, NoBucket
<1>2. SessionAnchor(b.bucket) \in Int
  BY <1>1, AnchorsTellSessions
<1> DEFINE a == SessionAnchor(b.bucket)
           kept == IF b.anchor = a THEN b.cum ELSE 0
<1>3. CloseBar(b) = [b EXCEPT !.anchor = a, !.cum = kept + b.delta]
  BY DEF CloseBar, MaybeResetSession, Builders
<1>4. kept \in Int /\ b.delta \in Int
  BY DEF Builders
<1> HIDE DEF a, kept
<1>5. /\ kept + b.delta \in Int /\ a \in Int
      /\ kept + b.delta = b.delta + kept
  BY <1>2, <1>4 DEF a
<1>6. [b EXCEPT !.anchor = a, !.cum = kept + b.delta] \in Builders
  BY <1>5 DEF Builders
<1>7. /\ CloseBar(b).bucket = b.bucket /\ CloseBar(b).last = b.last
      /\ CloseBar(b).heading = b.heading
      /\ CloseBar(b).anchor = a /\ CloseBar(b).cum = kept + b.delta
  BY <1>3 DEF Builders
<1> QED BY <1>3, <1>5, <1>6, <1>7 DEF a, kept

\* What a tick does to a builder, bar boundary included.
LEMMA IngestType ==
  ASSUME NEW b \in Builders, NEW t \in Nat, NEW tick \in Ticks
  PROVE  LET c == IF ClosesBar(b, t) THEN CloseBar(b) ELSE b
             n == Ingest(b, t, tick)
         IN  /\ n \in Builders /\ n.bucket = BucketFloor(t)
             /\ n.anchor = c.anchor /\ n.cum = c.cum
             /\ n.delta = Signed(b, tick) + IF b.bucket = BucketFloor(t) THEN b.delta ELSE 0
<1> DEFINE c == IF ClosesBar(b, t) THEN CloseBar(b) ELSE b
           r == IF b.bucket = BucketFloor(t) THEN b ELSE OpenBar(c, t, tick.price)
<1>1. BucketFloor(t) \in Nat /\ tick.price \in Int
  BY Sessions DEF Ticks
<1>2. c \in Builders /\ c.last = b.last /\ c.heading = b.heading
  BY CloseBarType DEF ClosesBar
<1>3. /\ r \in Builders /\ r.last = b.last /\ r.heading = b.heading
      /\ r.bucket = BucketFloor(t) /\ r.anchor = c.anchor /\ r.cum = c.cum
      /\ r.delta = IF b.bucket = BucketFloor(t) THEN b.delta ELSE 0
  <2>1. CASE b.bucket = BucketFloor(t)
    BY <1>1, <1>2, <2>1 DEF ClosesBar
  <2>2. CASE b.bucket # BucketFloor(t)
    <3> HIDE DEF c
    <3>1. r = [c EXCEPT !.bucket = BucketFloor(t), !.open = tick.price, !.high = tick.price,
                        !.low = tick.price, !.delta = 0]
      BY <2>2 DEF OpenBar
    <3>2. 0 \in Int
      OBVIOUS
    <3>3. r \in Builders
      BY <1>1, <1>2, <3>1, <3>2 DEF Builders
    <3>4. /\ r.last = c.last /\ r.heading = c.heading /\ r.bucket = BucketFloor(t)
          /\ r.anchor = c.anchor /\ r.cum = c.cum /\ r.delta = 0
      BY <1>2, <3>1 DEF Builders
    <3> QED BY <1>2, <2>2, <3>3, <3>4
  <2> QED BY <2>1, <2>2
<1>4. Signed(r, tick) = Signed(b, tick)
  BY <1>3 DEF Signed, Heading
<1>5. Signed(b, tick) \in Int /\ HeadingAfter(r, tick) \in {-1, 0, 1}
  BY <1>3, SignedType
<1>6. Ingest(b, t, tick) = Accumulate(r, tick)
  BY DEF Ingest
<1> HIDE DEF c, r
<1>7. r.delta \in Int /\ r.high \in Int /\ r.low \in Int
  BY <1>3 DEF Builders
<1> DEFINE high == IF tick.price > r.high THEN tick.price ELSE r.high
           low == IF tick.price < r.low THEN tick.price ELSE r.low
           delta == r.delta + Signed(r, tick)
           heading == HeadingAfter(r, tick)
           n == [r EXCEPT !.high = high, !.low = low, !.delta = delta,
                          !.last = tick.price, !.heading = heading]
<1>8. Accumulate(r, tick) = n
  BY <1>3 DEF Accumulate, Builders
<1>9. high \in Int /\ low \in Int /\ delta \in Int /\ heading \in {-1, 0, 1}
  BY <1>1, <1>4, <1>5, <1>7
<1> HIDE DEF high, low, delta, heading
<1>10. n \in Builders
  BY <1>1, <1>3, <1>9 DEF Builders
<1>11. /\ n.bucket = r.bucket /\ n.anchor = r.anchor /\ n.cum = r.cum /\ n.delta = delta
  BY <1>3 DEF Builders
<1>12. delta = Signed(b, tick) + r.delta
  BY <1>4, <1>5, <1>7 DEF delta
<1> HIDE DEF n
<1> QED BY <1>3, <1>6, <1>8, <1>10, <1>11, <1>12 DEF c
-----------------------------------------------------------------------------
(* The engine. *)

\* Being flat is no position.
LEMMA FlatIsNoPosition == Flat \notin Position
BY DEF Flat, Position, Long, Short

\* Ageing a position counts a bar and moves nothing else.
LEMMA AgedType ==
  ASSUME NEW pos \in Position, NEW bar \in Bars
  PROVE  LET aged == Aged(pos, bar)
         IN  /\ aged \in Position /\ aged.dir = pos.dir /\ aged.stop = pos.stop
             /\ aged.held = pos.held + 1
<1> DEFINE held == pos.held + 1
           mfe == Larger(pos.mfe, Favorable(pos, bar))
           mae == Larger(pos.mae, Adverse(pos, bar))
           aged == [pos EXCEPT !.held = held, !.mfe = mfe, !.mae = mae]
<1>1. Aged(pos, bar) = aged
  BY DEF Aged, Position
<1>2. /\ pos.held \in Nat /\ pos.mfe \in Int /\ pos.mae \in Int /\ pos.entry \in Int
      /\ bar.h \in Int /\ bar.l \in Int
  BY DEF Position, Bars
<1>3. held \in Nat /\ mfe \in Int /\ mae \in Int
  BY <1>2 DEF Larger, Favorable, Adverse
<1> HIDE DEF held, mfe, mae
<1>4. aged \in Position
  BY <1>3 DEF Position
<1>5. aged.dir = pos.dir /\ aged.stop = pos.stop /\ aged.held = held
  BY DEF Position
<1> QED BY <1>1, <1>4, <1>5 DEF held

\* The ratchet never moves a stop away from the price.
LEMMA RatchetTightens ==
  ASSUME NEW pos \in Position, NEW v, NEW bar
  PROVE  LET new == Ratchet(pos, v, bar)
         IN  /\ new \in Position /\ new.dir = pos.dir /\ new.held = pos.held
             /\ pos.dir * (new.stop - pos.stop) >= 0
<1>1. /\ pos.dir \in {1, -1} /\ pos.stop \in Int /\ pos.entry \in Int
      /\ pos.mfe \in Int /\ pos.atr \in Int
  BY DEF Position, Long, Short
<1> DEFINE locked == IF pos.mfe >= pos.atr THEN Tighter(pos.dir, pos.stop, pos.entry)
                                           ELSE pos.stop
           trailed == HighWater(pos) - pos.dir * pos.atr
           stop == IF pos.mfe >= 2 * pos.atr THEN Tighter(pos.dir, locked, trailed)
                                             ELSE locked
           new == [pos EXCEPT !.stop = stop]
<1>2. locked \in Int /\ pos.dir * (locked - pos.stop) >= 0
  <2>1. CASE pos.dir = 1
    BY <1>1, <2>1 DEF Tighter
  <2>2. CASE pos.dir = -1
    BY <1>1, <2>2 DEF Tighter
  <2> QED BY <1>1, <2>1, <2>2
<1>3. trailed \in Int
  BY <1>1 DEF HighWater
<1> HIDE DEF locked, trailed
<1>4. stop \in Int /\ pos.dir * (stop - pos.stop) >= 0
  <2>1. CASE pos.dir = 1
    BY <1>1, <1>2, <1>3, <2>1 DEF Tighter
  <2>2. CASE pos.dir = -1
    BY <1>1, <1>2, <1>3, <2>2 DEF Tighter
  <2> QED BY <1>1, <2>1, <2>2
<1>5. Ratchet(pos, v, bar) = pos \/ Ratchet(pos, v, bar) = new
  BY DEF Ratchet, locked, trailed
<1> HIDE DEF stop
<1>6. new \in Position
  BY <1>4 DEF Position
<1>7. new.dir = pos.dir /\ new.held = pos.held /\ new.stop = stop
  BY DEF Position
<1>8. pos.dir * (pos.stop - pos.stop) >= 0
  BY <1>1
<1> HIDE DEF new
<1> QED BY <1>4, <1>5, <1>6, <1>7, <1>8

\* A position that survives a bar has met neither its time stop nor the end
\* of the session.
LEMMA ManagedSurvives ==
  ASSUME NEW e \in Engines, e.pos \in Position, NEW v, NEW bar \in Bars
  PROVE  LET m == Managed(e, v, bar)
         IN  /\ m.pos \in Position /\ m.pos.held = e.pos.held + 1
             /\ e.pos.dir * (m.pos.stop - e.pos.stop) >= 0
             /\ m.decision.action \in {"none", "exit"}
             /\ m.decision.action = "none" =>
                  /\ v.timeStop => m.pos.held < TimeStopBars
                  /\ v.sessionEnd => MinuteOfDay(bar.t) < SessionEnd
<1> DEFINE aged == Aged(e.pos, bar)
           moved == Ratchet(aged, v, bar)
           m == Managed(e, v, bar)
<1>1. /\ aged \in Position /\ aged.dir = e.pos.dir /\ aged.stop = e.pos.stop
      /\ aged.held = e.pos.held + 1
  BY AgedType
<1> HIDE DEF aged
<1>2. /\ moved \in Position /\ moved.dir = aged.dir /\ moved.held = aged.held
      /\ aged.dir * (moved.stop - aged.stop) >= 0
  BY <1>1, RatchetTightens
<1> HIDE DEF moved
<1>3. e.pos.dir * (e.pos.stop - e.pos.stop) >= 0
  BY DEF Position, Long, Short
<1>4. CASE FastFails(aged, v)
  <2>1. m.pos = aged /\ m.decision.action = "exit"
    BY <1>4 DEF Managed, Exit, aged
  <2> HIDE DEF m
  <2>2. m.pos \in Position /\ m.pos.held = e.pos.held + 1
    BY <1>1, <2>1
  <2>3. e.pos.dir * (m.pos.stop - e.pos.stop) >= 0
    BY <1>1, <1>3, <2>1
  <2> QED BY <2>1, <2>2, <2>3 DEF m
<1>5. CASE ~FastFails(aged, v)
  <2>1. m.pos = moved /\ m.decision = ExitOf(e, moved, v, bar)
    BY <1>5 DEF Managed, aged, moved
  <2> HIDE DEF m
  <2>2. m.decision.action \in {"none", "exit"}
    BY <2>1 DEF ExitOf, Exit, None
  <2>3. ASSUME m.decision.action = "none"
        PROVE  /\ v.timeStop => ~(moved.held >= TimeStopBars)
               /\ v.sessionEnd => ~(bar.t % 1440 >= SessionEnd)
    BY <2>1, <2>3 DEF ExitOf, Exit, None
  <2>4. moved.held \in Int /\ bar.t % 1440 \in Int /\ TimeStopBars \in Int
    BY <1>2, EngineAssumption DEF Position, Bars
  <2>5. SessionEnd \in Int /\ MinuteOfDay(bar.t) = bar.t % 1440
    BY DEF SessionEnd, MinuteOfDay, DayLength
  <2>6. m.decision.action = "none" =>
          /\ v.timeStop => m.pos.held < TimeStopBars
          /\ v.sessionEnd => MinuteOfDay(bar.t) < SessionEnd
    BY <2>1, <2>3, <2>4, <2>5
  <2>7. m.pos \in Position /\ m.pos.held = e.pos.held + 1
    BY <1>1, <1>2, <2>1
  <2>8. e.pos.dir * (m.pos.stop - e.pos.stop) >= 0
    BY <1>1, <1>2, <2>1
  <2> QED BY <2>2, <2>6, <2>7, <2>8 DEF m
<1> QED BY <1>4, <1>5

\* An entry: its stop lies one stop distance from its price, on the side its
\* direction asks for.
Entries == [action : {"enter"}, dir : {Long, Short}, price : Int, stop : Int, atr : Nat]
IsEntry(d, bar) ==
  /\ d \in Entries /\ d.price = bar.c /\ d.atr = bar.atr
  /\ d.stop = d.price - d.dir * StopDistance(d.atr)

\* The distance of a stop is a number.
LEMMA DistanceType ==
  ASSUME NEW atr \in Nat
  PROVE  StopDistance(atr) \in Int
BY DEF StopDistance

\* Every entry the engine decides carries its stop.
LEMMA EntriesCarryStops ==
  ASSUME NEW e, NEW v, NEW bar \in Bars, NEW cum
  PROVE  LET d == EvaluateEntry(e, v, bar, cum) IN d = None \/ IsEntry(d, bar)
<1> DEFINE dir == Reversal(e.prior, bar)
           stop == bar.c - dir * StopDistance(bar.atr)
<1>1. dir \in {Long, Short, 0}
  BY DEF Reversal
<1>2. /\ bar.c \in Int /\ bar.atr \in Nat
  BY DEF Bars
<1>3. dir \in Int /\ StopDistance(bar.atr) \in Int
  BY <1>1, <1>2, DistanceType DEF Long, Short
<1>4. stop \in Int
  BY <1>2, <1>3
<1>5. ASSUME dir # 0
      PROVE  IsEntry(Enter(dir, bar, stop), bar)
  <2>1. Enter(dir, bar, stop) \in Entries
    BY <1>1, <1>2, <1>4, <1>5 DEF Enter, Entries
  <2> QED BY <2>1 DEF Enter, IsEntry
<1>6. EvaluateEntry(e, v, bar, cum) = None
        \/ (dir # 0 /\ EvaluateEntry(e, v, bar, cum) = Enter(dir, bar, stop))
  BY Zenon DEF EvaluateEntry
<1> QED BY <1>5, <1>6

\* Only an engine whose indicators are warm enters.
LEMMA EntriesAreWarm ==
  ASSUME NEW e \in Engines, NEW v, NEW bar, NEW cum,
         EvaluateEntry(e, v, bar, cum) # None
  PROVE  e.bars >= BbPeriod
BY EngineAssumption DEF EvaluateEntry, Engines

\* The regime gate lets an entry through as it was, or flipped with its stop.
LEMMA GatedEntries ==
  ASSUME NEW v, NEW regime, NEW d, NEW bar \in Bars, d = None \/ IsEntry(d, bar)
  PROVE  LET g == Gated(v, regime, d) IN g = None \/ IsEntry(g, bar)
<1>1. CASE d = None
  BY <1>1 DEF Gated, None
<1>2. CASE IsEntry(d, bar)
  <2> DEFINE stop == 2 * d.price - d.stop
             flipped == [d EXCEPT !.dir = -d.dir, !.stop = stop]
  <2>1. /\ d \in Entries /\ d.dir \in {1, -1} /\ d.price \in Int /\ d.stop \in Int
        /\ d.atr \in Nat /\ -d.dir \in {Long, Short}
    BY <1>2 DEF IsEntry, Entries, Long, Short
  <2>2. StopDistance(d.atr) \in Int
    BY <2>1, DistanceType
  <2>3. stop \in Int
    BY <2>1
  <2>4. stop = d.price - (-d.dir) * StopDistance(d.atr)
    BY <1>2, <2>1, <2>2 DEF IsEntry
  <2>5. Flipped(d) = flipped
    BY <2>1 DEF Flipped, Entries
  <2> HIDE DEF stop
  <2>6. flipped \in Entries
    BY <2>1, <2>3 DEF Entries
  <2>7. /\ flipped.price = d.price /\ flipped.atr = d.atr /\ flipped.dir = -d.dir
        /\ flipped.stop = stop
    BY <2>1 DEF Entries
  <2> HIDE DEF flipped
  <2>8. IsEntry(Flipped(d), bar)
    BY <1>2, <2>4, <2>5, <2>6, <2>7 DEF IsEntry
  <2>9. \/ Gated(v, regime, d) = d \/ Gated(v, regime, d) = None
        \/ Gated(v, regime, d) = Flipped(d)
    BY Zenon DEF Gated
  <2> QED BY <1>2, <2>8, <2>9
<1> QED BY <1>1, <1>2

\* The flows an engine keeps are numbers.
LEMMA KeptFlowsType ==
  ASSUME NEW e \in Engines, NEW cum \in Int
  PROVE  KeptFlows(e, cum) \in Seq(Int)
<1>1. e.flows \in Seq(Int)
  BY DEF Engines
<1>2. Append(e.flows, cum) \in Seq(Int) /\ Append(e.flows, cum) # <<>>
  BY <1>1
<1>3. Tail(Append(e.flows, cum)) \in Seq(Int)
  BY <1>2
<1> QED BY <1>2, <1>3 DEF KeptFlows

\* A bar: an engine without a position stays without one and may enter, one
\* that holds a position ages it, tightens its stop, and may leave it.
LEMMA OnBarStep ==
  ASSUME NEW e \in Engines, NEW v, NEW bar \in Bars, NEW cum \in Int
  PROVE  LET r == OnBar(e, v, bar, cum)
         IN  /\ r.engine \in Engines
             /\ e.pos = Flat =>
                  /\ r.engine.pos = Flat
                  /\ \/ r.decision = None
                     \/ IsEntry(r.decision, bar) /\ r.engine.bars >= BbPeriod
             /\ e.pos \in Position /\ e.bars >= BbPeriod =>
                  /\ r.engine.pos \in Position /\ r.engine.bars >= BbPeriod
                  /\ r.engine.pos.held = e.pos.held + 1
                  /\ e.pos.dir * (r.engine.pos.stop - e.pos.stop) >= 0
                  /\ r.decision.action \in {"none", "exit"}
                  /\ r.decision.action = "none" =>
                       /\ v.timeStop => r.engine.pos.held < TimeStopBars
                       /\ v.sessionEnd => MinuteOfDay(bar.t) < SessionEnd
<1> DEFINE bars == IF e.bars > BbPeriod THEN e.bars ELSE e.bars + 1
           flows == IF v.pctile THEN KeptFlows(e, cum) ELSE <<>>
           seen_ == [e EXCEPT !.bars = bars, !.flows = flows]
           prior == [o |-> bar.o, c |-> bar.c]
           after == [seen_ EXCEPT !.prior = prior]
           r == OnBar(e, v, bar, cum)
<1>1. bars \in Nat /\ bars >= e.bars
  BY EngineAssumption DEF Engines
<1>2. flows \in Seq(Int) /\ prior \in [o : Int, c : Int]
  BY KeptFlowsType DEF Bars
<1>3. r = IF seen_.bars < BbPeriod THEN [engine |-> after, decision |-> None]
          ELSE IF InPosition(e)
          THEN [engine |-> [after EXCEPT !.pos = Managed(seen_, v, bar).pos],
                decision |-> Managed(seen_, v, bar).decision]
          ELSE [engine |-> after, decision |-> EvaluateEntry(seen_, v, bar, cum)]
  BY DEF OnBar, Engines
<1> HIDE DEF bars, flows, prior, r
<1>4. seen_ \in Engines
  BY <1>1, <1>2 DEF Engines
<1>5. seen_.bars = bars /\ seen_.pos = e.pos
  BY DEF Engines
<1> HIDE DEF seen_
<1>6. after \in Engines
  BY <1>2, <1>4 DEF Engines
<1>7. after.pos = e.pos /\ after.bars = bars
  BY <1>4, <1>5 DEF Engines
<1> HIDE DEF after
<1>8. BbPeriod \in Nat /\ e.bars \in Nat
  BY EngineAssumption DEF Engines
<1>9. CASE e.pos = Flat
  <2>1. ~InPosition(e) /\ e.pos \notin Position
    BY <1>9, FlatIsNoPosition DEF InPosition
  <2>2. r.engine = after /\ (r.decision = None \/ r.decision = EvaluateEntry(seen_, v, bar, cum))
    BY <1>3, <2>1
  <2>3. r.decision = None \/ IsEntry(r.decision, bar)
    BY <2>2, EntriesCarryStops
  <2>4. r.decision # None => after.bars >= BbPeriod
    BY <1>4, <1>5, <1>7, <2>2, EntriesAreWarm
  <2> QED BY <1>6, <1>7, <1>9, <2>1, <2>2, <2>3, <2>4 DEF r
<1>10. CASE e.pos \in Position
  <2>1. InPosition(e) /\ e.pos # Flat
    BY <1>10, FlatIsNoPosition DEF InPosition
  <2> DEFINE m == Managed(seen_, v, bar)
             held == [after EXCEPT !.pos = m.pos]
  <2>2. /\ m.pos \in Position /\ m.pos.held = e.pos.held + 1
        /\ e.pos.dir * (m.pos.stop - e.pos.stop) >= 0
        /\ m.decision.action \in {"none", "exit"}
        /\ m.decision.action = "none" =>
             /\ v.timeStop => m.pos.held < TimeStopBars
             /\ v.sessionEnd => MinuteOfDay(bar.t) < SessionEnd
    BY <1>4, <1>5, <1>10, ManagedSurvives
  <2> HIDE DEF m
  <2>3. held \in Engines
    BY <1>6, <2>2 DEF Engines
  <2>4. held.pos = m.pos /\ held.bars = bars
    BY <1>6, <1>7 DEF Engines
  <2> HIDE DEF held
  <2>5. CASE bars < BbPeriod
    <3>1. r.engine = after
      BY <1>3, <1>5, <2>5
    <3>2. ~(e.bars >= BbPeriod)
      BY <1>1, <1>8, <2>5
    <3> QED BY <1>6, <2>1, <3>1, <3>2 DEF r
  <2>6. CASE ~(bars < BbPeriod)
    <3>1. r.engine = held /\ r.decision = m.decision
      BY <1>3, <1>5, <2>1, <2>6 DEF m, held
    <3>2. bars >= BbPeriod
      BY <1>1, <1>8, <2>6
    <3> QED BY <2>1, <2>2, <2>3, <2>4, <3>1, <3>2 DEF r
  <2> QED BY <2>5, <2>6
<1> QED BY <1>9, <1>10 DEF Engines

\* A position opens with the stop of its entry.
LEMMA OpenedPosition ==
  ASSUME NEW e \in Engines, NEW bar \in Bars, NEW d, IsEntry(d, bar)
  PROVE  LET o == OpenPosition(e, d)
         IN  /\ o \in Engines /\ o.bars = e.bars
             /\ o.pos \in Position /\ o.pos.stop = d.stop /\ o.pos.held = 0
<1> DEFINE stop == d.price - d.dir * StopDistance(d.atr)
           pos == [dir |-> d.dir, entry |-> d.price, stop |-> stop,
                   held |-> 0, mfe |-> 0, mae |-> 0, atr |-> d.atr]
           o == [e EXCEPT !.pos = pos]
<1>1. /\ d.dir \in {Long, Short} /\ d.price \in Int /\ d.atr \in Nat
      /\ stop \in Int /\ stop = d.stop
  BY DEF IsEntry, Entries
<1> HIDE DEF stop
<1>2. 0 \in Int /\ 0 \in Nat
  OBVIOUS
<1>3. pos \in Position
  BY <1>1, <1>2 DEF Position
<1>4. pos.stop = stop /\ pos.held = 0
  OBVIOUS
<1> HIDE DEF pos
<1>5. o \in Engines
  BY <1>3 DEF Engines
<1>6. o.pos = pos /\ o.bars = e.bars
  BY DEF Engines
<1>7. OpenPosition(e, d) = o
  BY DEF OpenPosition, o, pos, stop
<1> QED BY <1>1, <1>3, <1>4, <1>5, <1>6, <1>7

\* A closed position leaves a flat engine.
LEMMA ClosedPosition ==
  ASSUME NEW e \in Engines
  PROVE  ClosePosition(e) \in Engines /\ ClosePosition(e).pos = Flat
<1>1. [e EXCEPT !.pos = Flat] \in Engines
  BY DEF Engines
<1>2. [e EXCEPT !.pos = Flat].pos = Flat
  BY DEF Engines
<1> QED BY <1>1, <1>2 DEF ClosePosition
-----------------------------------------------------------------------------
(* A closed bar. *)

\* The engine and the open row agree: the strengthening of TradesEnd.
TradeInv ==
  /\ engine.pos = Flat => trade = NoTrade
  /\ engine.pos # Flat => engine.bars >= BbPeriod /\ trade.bars = engine.pos.held

\* A closed bar carries the builder's bucket and flow.
LEMMA ClosedBarType ==
  ASSUME NEW b \in Builders, NEW atr \in Nat, b.bucket # NoBucket
  PROVE  LET raw == ClosedBar(b)
             bar == [t |-> raw.t, o |-> raw.o, h |-> raw.h, l |-> raw.l, c |-> raw.c,
                     atr |-> atr]
         IN  bar \in Bars /\ bar.t = b.bucket /\ raw.t = b.bucket /\ raw.delta = b.delta
<1>1. /\ b.bucket \in Nat /\ b.open \in Int /\ b.high \in Int /\ b.low \in Int
      /\ b.last \in Int
  BY DEF Builders
<1> QED BY <1>1 DEF ClosedBar, Bars

\* What a closed bar does to the engine, the trade and its stop.
LEMMA ClosedBarStep ==
  ASSUME TypeOK, TradeInv, builder.bucket # NoBucket, setup' = setup,
         NEW atr \in setup.atrs, NEW regime, NEW taken \in BOOLEAN,
         OnClosedBar(atr, regime, taken)
  PROVE  /\ engine' \in Engines /\ trade' \in [stop : Int, bars : Int]
         /\ TradeInv' /\ TradesEnd'
         /\ InPosition(engine') =>
              IF InPosition(engine)
              THEN engine.pos.dir * (engine'.pos.stop - engine.pos.stop) >= 0
              ELSE engine'.pos.stop = trade'.stop
<1> DEFINE raw == ClosedBar(builder)
           bar == [t |-> raw.t, o |-> raw.o, h |-> raw.h, l |-> raw.l, c |-> raw.c,
                   atr |-> atr]
           cum == CloseBar(builder).cum
           r == OnBar(engine, variant, bar, cum)
           d == Gated(variant, regime, r.decision)
<1>1. /\ builder \in Builders /\ engine \in Engines /\ atr \in Nat
      /\ trade \in [stop : Int, bars : Int]
  BY DayAssumption DEF TypeOK, Builders, Engines
<1>2. bar \in Bars /\ bar.t = builder.bucket
  BY <1>1, ClosedBarType
<1>3. cum \in Int
  BY <1>1, CloseBarType DEF Builders
<1>4. /\ seen'.t = builder.bucket
      /\ CASE d.action = "enter" /\ taken ->
                /\ engine' = OpenPosition(r.engine, d)
                /\ trade' = [stop |-> d.stop, bars |-> 0]
           [] d.action = "exit" ->
                engine' = ClosePosition(r.engine) /\ trade' = NoTrade
           [] OTHER ->
                /\ engine' = r.engine
                /\ trade' = IF trade = NoTrade THEN trade
                                               ELSE [trade EXCEPT !.bars = @ + 1]
  BY DEF OnClosedBar, ClosedBar
<1> HIDE DEF bar, cum
<1>5. /\ r.engine \in Engines
      /\ engine.pos = Flat =>
           /\ r.engine.pos = Flat
           /\ r.decision = None \/ (IsEntry(r.decision, bar) /\ r.engine.bars >= BbPeriod)
      /\ engine.pos \in Position /\ engine.bars >= BbPeriod =>
           /\ r.engine.pos \in Position /\ r.engine.bars >= BbPeriod
           /\ r.engine.pos.held = engine.pos.held + 1
           /\ engine.pos.dir * (r.engine.pos.stop - engine.pos.stop) >= 0
           /\ r.decision.action \in {"none", "exit"}
           /\ r.decision.action = "none" =>
                /\ variant.timeStop => r.engine.pos.held < TimeStopBars
                /\ variant.sessionEnd => MinuteOfDay(bar.t) < SessionEnd
  BY <1>1, <1>2, <1>3, OnBarStep
<1>6. variant' = variant
  BY DEF variant
<1>7. /\ NoTrade \in [stop : Int, bars : Int] /\ NoTrade.bars = -1
      /\ None.action = "none" /\ TimeStopBars \in Nat \ {0}
  BY EngineAssumption DEF NoTrade, None
<1> HIDE DEF r
<1>8. CASE engine.pos = Flat
  <2>1. trade = NoTrade /\ ~InPosition(engine) /\ r.engine.pos = Flat
    BY <1>5, <1>8 DEF TradeInv, InPosition
  <2>2. d = None \/ (IsEntry(d, bar) /\ r.engine.bars >= BbPeriod)
    <3>1. CASE r.decision = None
      BY <3>1 DEF Gated, None
    <3>2. CASE IsEntry(r.decision, bar) /\ r.engine.bars >= BbPeriod
      BY <1>2, <3>2, GatedEntries
    <3> QED BY <1>5, <1>8, <3>1, <3>2
  <2> HIDE DEF d
  <2>3. CASE IsEntry(d, bar) /\ r.engine.bars >= BbPeriod /\ taken
    <3>1. d.action = "enter" /\ d.stop \in Int
      BY <2>3 DEF IsEntry, Entries
    <3>2. /\ engine' = OpenPosition(r.engine, d)
          /\ trade' = [stop |-> d.stop, bars |-> 0]
      BY <1>4, <2>3, <3>1
    <3>3. /\ engine' \in Engines /\ engine'.bars >= BbPeriod
          /\ engine'.pos \in Position /\ engine'.pos.stop = d.stop /\ engine'.pos.held = 0
      BY <1>2, <1>5, <2>3, <3>2, OpenedPosition
    <3>4. /\ trade' \in [stop : Int, bars : Int] /\ trade'.stop = d.stop /\ trade'.bars = 0
      BY <3>1, <3>2
    <3>5. TradeInv' /\ TradesEnd'
      BY <1>7, <3>3, <3>4, FlatIsNoPosition DEF TradeInv, TradesEnd
    <3> QED BY <2>1, <3>3, <3>4, <3>5
  <2>4. CASE d = None \/ (IsEntry(d, bar) /\ ~taken)
    <3>1. d.action # "exit" /\ ~(d.action = "enter" /\ taken)
      BY <2>4 DEF None, IsEntry, Entries
    <3>2. engine' = r.engine /\ trade' = NoTrade
      BY <1>4, <2>1, <3>1
    <3>3. engine'.pos = Flat /\ ~InPosition(engine')
      BY <2>1, <3>2 DEF InPosition
    <3> QED BY <1>5, <1>7, <3>2, <3>3 DEF TradeInv, TradesEnd, InPosition
  <2> QED BY <2>2, <2>3, <2>4
<1>9. CASE engine.pos # Flat
  <2>1. /\ engine.pos \in Position /\ engine.bars >= BbPeriod /\ InPosition(engine)
        /\ trade.bars = engine.pos.held
    BY <1>1, <1>9 DEF TradeInv, Engines, InPosition
  <2>2. d = r.decision
    BY <1>5, <2>1 DEF Gated
  <2>3. CASE d.action = "exit"
    <3>1. engine' = ClosePosition(r.engine) /\ trade' = NoTrade
      BY <1>4, <2>3
    <3>2. engine' \in Engines /\ engine'.pos = Flat
      BY <1>5, <3>1, ClosedPosition
    <3> QED BY <1>7, <3>1, <3>2 DEF TradeInv, TradesEnd, InPosition
  <2>4. CASE d.action = "none"
    <3>1. trade.bars \in Nat /\ trade # NoTrade
      BY <1>7, <2>1 DEF Position
    <3>2. engine' = r.engine /\ trade' = [trade EXCEPT !.bars = @ + 1]
      BY <1>4, <2>4, <3>1
    <3>3. /\ trade' \in [stop : Int, bars : Int] /\ trade'.bars = trade.bars + 1
      BY <1>1, <3>1, <3>2
    <3>4. /\ engine'.pos \in Position /\ engine'.pos # Flat /\ engine'.bars >= BbPeriod
          /\ engine'.pos.held = trade'.bars
      BY <1>5, <2>1, <3>2, <3>3, FlatIsNoPosition
    <3>5. TradeInv'
      BY <3>4 DEF TradeInv
    <3>6. TradesEnd'
      BY <1>2, <1>4, <1>5, <1>6, <2>1, <2>2, <2>4, <3>2, <3>4 DEF TradesEnd
    <3> QED BY <1>5, <2>1, <3>2, <3>3, <3>5, <3>6
  <2> QED BY <1>5, <2>1, <2>2, <2>3, <2>4
<1> QED BY <1>8, <1>9
-----------------------------------------------------------------------------
(* The flow of a session. *)

\* What the bar in progress and its session's counter add up to.
Carried(b) == b.delta + IF b.anchor = SessionAnchor(b.bucket) THEN b.cum ELSE 0

\* The strengthening of SessionFlow: the flow of all ticks is split between the
\* bar in progress and the counter of its session; the replay's counter and
\* its date follow the live anchor up to the first evening.
FlowInv ==
  /\ seen.cum = seen.flow /\ builder.cum = seen.cum
  /\ up => IF builder.bucket = NoBucket
           THEN flow.session = -2 /\ builder.anchor = NoAnchor /\ seen.t = 0 /\ builder.delta = 0
           ELSE /\ builder.bucket = BucketFloor(now) /\ seen.t <= builder.bucket
                /\ flow.session = SessionNumber(builder.bucket)
                /\ flow.sum = Carried(builder)
  /\ seen.t < Evening =>
       /\ session.cum = seen.cum
       /\ session.date = IF seen.t < SessionOpen THEN -1 ELSE 0
       /\ IF seen.t < SessionOpen
          THEN \/ builder.anchor = SessionOpen - DayLength
               \/ builder.anchor = NoAnchor /\ builder.cum = 0
          ELSE builder.anchor = SessionOpen

\* What a closed bar leaves to the counters.
LEMMA ClosedBarFlow ==
  ASSUME TypeOK, FlowInv, up, builder.bucket # NoBucket,
         session' = SessionUpdate(session, ClosedBar(builder)),
         seen' = [t |-> builder.bucket, cum |-> CloseBar(builder).cum, flow |-> flow.sum],
         NEW anchor, NEW cum,
         anchor = CloseBar(builder).anchor, cum = CloseBar(builder).cum
  PROVE  /\ session' \in [cum : Int, date : Int] /\ seen' \in [t : Nat, cum : Int, flow : Int]
         /\ seen'.t = builder.bucket /\ seen'.cum = seen'.flow /\ cum = seen'.cum
         /\ anchor = SessionAnchor(builder.bucket) /\ cum = flow.sum /\ cum \in Int
         /\ seen'.t < Evening =>
              /\ session'.cum = seen'.cum
              /\ session'.date = IF seen'.t < SessionOpen THEN -1 ELSE 0
              /\ IF seen'.t < SessionOpen THEN anchor = SessionOpen - DayLength
                                          ELSE anchor = SessionOpen
<1> DEFINE t == builder.bucket
<1>1. /\ builder \in Builders /\ t \in Nat /\ builder.delta \in Int /\ builder.cum \in Int
      /\ session.cum \in Int /\ session.date \in Int /\ seen.t \in Nat /\ seen.cum \in Int
      /\ flow.sum \in Int
  BY DEF TypeOK, Builders
<1>2. /\ anchor = SessionAnchor(t) /\ cum = Carried(builder)
  BY <1>1, CloseBarType DEF Carried
<1>3. seen.t <= t /\ flow.sum = Carried(builder) /\ builder.cum = seen.cum
  BY DEF FlowInv
<1>4. seen'.t = t /\ seen'.cum = cum /\ seen'.flow = flow.sum /\ cum = flow.sum
  BY <1>2, <1>3
<1>5. seen' \in [t : Nat, cum : Int, flow : Int]
  BY <1>1, <1>4
<1>6. ClosedBar(builder).t = t /\ ClosedBar(builder).delta = builder.delta
  BY DEF ClosedBar
<1>7. TradingDate(t) \in Int
  BY <1>1 DEF TradingDate, MinuteOfDay, DayLength, Evening
<1> DEFINE crossed == TradingDate(t) # session.date /\ MinuteOfDay(t) >= SessionOpen
<1>8. /\ session'.cum = (IF crossed THEN 0 ELSE session.cum) + builder.delta
      /\ session'.date = IF crossed THEN TradingDate(t) ELSE session.date
      /\ session' \in [cum : Int, date : Int]
  BY <1>1, <1>6, <1>7 DEF SessionUpdate
<1>9. ASSUME t < Evening
      PROVE  /\ session'.cum = cum
             /\ session'.date = IF t < SessionOpen THEN -1 ELSE 0
             /\ IF t < SessionOpen THEN anchor = SessionOpen - DayLength
                                   ELSE anchor = SessionOpen
  <2>1. /\ TradingDate(t) = 0 /\ MinuteOfDay(t) = t
        /\ anchor = IF t < SessionOpen THEN SessionOpen - DayLength ELSE SessionOpen
    BY <1>1, <1>2, <1>9, FirstDay
  <2>2. /\ SessionOpen \in Int /\ Evening \in Int /\ SessionOpen - DayLength # SessionOpen
        /\ NoAnchor # SessionOpen - DayLength /\ NoAnchor # SessionOpen
    BY DEF SessionOpen, Evening, DayLength, NoAnchor
  <2>3. seen.t < Evening
    BY <1>1, <1>3, <1>9, <2>2
  <2>4. /\ session.cum = seen.cum
        /\ session.date = IF seen.t < SessionOpen THEN -1 ELSE 0
        /\ IF seen.t < SessionOpen
           THEN \/ builder.anchor = SessionOpen - DayLength
                \/ builder.anchor = NoAnchor /\ builder.cum = 0
           ELSE builder.anchor = SessionOpen
    BY <2>3 DEF FlowInv
  <2>5. cum = builder.delta + IF builder.anchor = anchor THEN builder.cum ELSE 0
    BY <1>2 DEF Carried
  <2>6. crossed <=> (session.date # 0 /\ t >= SessionOpen)
    BY <2>1
  <2> HIDE DEF t, crossed
  <2>7. CASE t < SessionOpen
    <3>1. seen.t < SessionOpen /\ ~crossed
      BY <1>1, <1>3, <2>2, <2>6, <2>7
    <3> QED BY <1>1, <1>3, <1>8, <2>1, <2>2, <2>4, <2>5, <2>7, <3>1
  <2>8. CASE ~(t < SessionOpen)
    <3>1. CASE seen.t < SessionOpen
      BY <1>1, <1>3, <1>8, <2>1, <2>2, <2>4, <2>5, <2>6, <2>8, <3>1
    <3>2. CASE ~(seen.t < SessionOpen)
      BY <1>1, <1>3, <1>8, <2>1, <2>2, <2>4, <2>5, <2>6, <2>8, <3>2
    <3> QED BY <3>1, <3>2
  <2> QED BY <2>7, <2>8
<1> QED BY <1>1, <1>2, <1>4, <1>5, <1>8, <1>9
-----------------------------------------------------------------------------
(* The invariant and the theorems. *)

Inv == TypeOK /\ TradeInv /\ TradesEnd /\ FlowInv

\* What a step may do to a stop.
StopStep ==
  InPosition(engine') =>
    IF InPosition(engine)
    THEN engine.pos.dir * (engine'.pos.stop - engine.pos.stop) >= 0
    ELSE engine'.pos.stop = trade'.stop

\* The invariant holds at the start.
LEMMA InitInv == Init => Inv
<1> SUFFICES ASSUME Init PROVE Inv
  OBVIOUS
<1>1. TypeOK
  <2>1. builder \in Builders
    BY DEF Init, Builders, NewBuilder, NoBucket, NoPrice, NoAnchor, DayLength
  <2>2. /\ engine \in Engines
    BY DEF Init, Engines, NewEngine
  <2>3. /\ trade \in [stop : Int, bars : Int] /\ session \in [cum : Int, date : Int]
        /\ flow \in [session : Int, sum : Int] /\ seen \in [t : Nat, cum : Int, flow : Int]
    BY DEF Init, NoTrade, NewSession
  <2> QED BY <2>1, <2>2, <2>3 DEF Init, TypeOK, Builders, Engines
<1>2. TradeInv /\ TradesEnd
  BY DEF Init, NewEngine, TradeInv, TradesEnd, InPosition
<1>3. FlowInv
  BY DEF Init, FlowInv, NewBuilder, NewSession, NoAnchor, NoBucket, Evening, SessionOpen,
         DayLength
<1> QED BY <1>1, <1>2, <1>3 DEF Inv

\* A tick in the bar in progress, or the first one of all.
LEMMA TickInBarStep ==
  ASSUME Inv, NEW t \in Moments, NEW tick \in setup.ticks, TickInBar(t, tick)
  PROVE  Inv' /\ StopStep
<1>1. /\ builder \in Builders /\ tick \in Ticks /\ t \in Nat /\ up
      /\ builder.bucket = NoBucket \/ builder.bucket = BucketFloor(t)
  BY DayAssumption DEF Inv, TypeOK, Builders, Ticks, TickInBar, Tick, ClosesBar
<1>2. /\ setup' = setup /\ up' = up /\ now' = t
      /\ builder' = Ingest(builder, t, tick)
      /\ flow' = FlowAfter(t, Signed(builder, tick))
      /\ UNCHANGED <<engine, trade, session, seen>>
  BY DEF TickInBar, Tick
<1>3. /\ builder' \in Builders /\ builder'.bucket = BucketFloor(t)
      /\ builder'.anchor = builder.anchor /\ builder'.cum = builder.cum
      /\ builder'.delta = Signed(builder, tick)
                            + IF builder.bucket = BucketFloor(t) THEN builder.delta ELSE 0
  BY <1>1, <1>2, IngestType DEF TickInBar
<1>4. /\ BucketFloor(t) \in Nat /\ SessionNumber(t) \in Int /\ SessionNumber(t) > -2
      /\ SessionNumber(BucketFloor(t)) = SessionNumber(t)
      /\ Signed(builder, tick) \in Int /\ flow.sum \in Int /\ flow.session \in Int
      /\ builder.delta \in Int /\ builder.cum \in Int
      /\ SessionAnchor(BucketFloor(t)) # NoAnchor
  BY <1>1, Sessions, AnchorsTellSessions, SignedType DEF Inv, TypeOK, Builders
<1>5. /\ flow'.session = SessionNumber(t)
      /\ flow'.sum = Signed(builder, tick)
                       + IF flow.session = SessionNumber(t) THEN flow.sum ELSE 0
      /\ flow' \in [session : Int, sum : Int]
  BY <1>2, <1>4 DEF FlowAfter
<1>6. TypeOK'
  BY <1>1, <1>2, <1>3, <1>5 DEF Inv, TypeOK, Builders
<1>7. TradeInv' /\ TradesEnd'
  BY <1>2 DEF Inv, TradeInv, TradesEnd, InPosition, variant
<1>8. FlowInv'
  <2>1. flow'.sum = Carried(builder')
    <3>1. CASE builder.bucket = NoBucket
      BY <1>1, <1>3, <1>4, <1>5, <3>1 DEF Inv, FlowInv, Carried, NoBucket
    <3>2. CASE builder.bucket # NoBucket
      <4>1. flow.session = SessionNumber(t) /\ flow.sum = Carried(builder)
        BY <1>1, <1>4, <3>2 DEF Inv, FlowInv
      <4>2. builder'.delta = Signed(builder, tick) + builder.delta
        BY <1>1, <1>3, <3>2
      <4> QED BY <1>1, <1>3, <1>4, <1>5, <3>2, <4>1, <4>2 DEF Carried
    <3> QED BY <3>1, <3>2
  <2>2. builder'.bucket # NoBucket /\ seen.t <= builder'.bucket
    BY <1>1, <1>3, <1>4 DEF Inv, FlowInv, NoBucket
  <2> QED BY <1>2, <1>3, <1>4, <1>5, <2>1, <2>2 DEF Inv, FlowInv
<1>9. StopStep
  <2>1. CASE engine.pos = Flat
    BY <1>2, <2>1 DEF StopStep, InPosition
  <2>2. CASE engine.pos # Flat
    <3>1. engine.pos.dir \in {1, -1} /\ engine.pos.stop \in Int
      BY <2>2 DEF Inv, TypeOK, Position, Long, Short
    <3> QED BY <1>2, <2>2, <3>1 DEF StopStep, InPosition
  <2> QED BY <2>1, <2>2
<1> QED BY <1>6, <1>7, <1>8, <1>9 DEF Inv

\* A tick of a later bar.
LEMMA TickClosesBarStep ==
  ASSUME Inv, NEW t \in Moments, NEW tick \in setup.ticks, TickClosesBar(t, tick)
  PROVE  Inv' /\ StopStep
<1>1. /\ builder \in Builders /\ tick \in Ticks /\ t \in Nat /\ up /\ now <= t /\ now \in Nat
      /\ builder.bucket # NoBucket /\ builder.bucket # BucketFloor(t)
      /\ builder.bucket \in Nat
  BY DayAssumption DEF Inv, TypeOK, Builders, Ticks, TickClosesBar, Tick, ClosesBar
<1>2. PICK atr \in setup.atrs, regime \in Regimes, taken \in BOOLEAN :
        OnClosedBar(atr, regime, taken)
  BY DEF TickClosesBar
<1>3. /\ setup' = setup /\ up' = up /\ now' = t
      /\ builder' = Ingest(builder, t, tick)
      /\ flow' = FlowAfter(t, Signed(builder, tick))
  BY DEF TickClosesBar, Tick
<1>4. /\ builder' \in Builders /\ builder'.bucket = BucketFloor(t)
      /\ builder'.anchor = CloseBar(builder).anchor /\ builder'.cum = CloseBar(builder).cum
      /\ builder'.delta = Signed(builder, tick)
  <2>1. Signed(builder, tick) \in Int
    BY <1>1, SignedType
  <2> QED BY <1>1, <1>3, <2>1, IngestType DEF TickClosesBar
<1>5. /\ session' = SessionUpdate(session, ClosedBar(builder))
      /\ seen' = [t |-> builder.bucket, cum |-> CloseBar(builder).cum, flow |-> flow.sum]
  BY <1>2 DEF OnClosedBar, ClosedBar
<1>6. /\ session' \in [cum : Int, date : Int] /\ seen' \in [t : Nat, cum : Int, flow : Int]
      /\ seen'.t = builder.bucket /\ seen'.cum = seen'.flow /\ builder'.cum = seen'.cum
      /\ builder'.anchor = SessionAnchor(builder.bucket) /\ builder'.cum = flow.sum
      /\ seen'.t < Evening =>
           /\ session'.cum = seen'.cum
           /\ session'.date = IF seen'.t < SessionOpen THEN -1 ELSE 0
           /\ IF seen'.t < SessionOpen THEN builder'.anchor = SessionOpen - DayLength
                                       ELSE builder'.anchor = SessionOpen
  BY <1>1, <1>4, <1>5, ClosedBarFlow DEF Inv
<1>7. /\ engine' \in Engines /\ trade' \in [stop : Int, bars : Int]
      /\ TradeInv' /\ TradesEnd' /\ StopStep
  BY <1>1, <1>2, <1>3, ClosedBarStep DEF Inv, StopStep
<1>8. /\ BucketFloor(t) \in Nat /\ SessionNumber(t) \in Int
      /\ SessionNumber(BucketFloor(t)) = SessionNumber(t)
      /\ SessionNumber(BucketFloor(t)) \in Int /\ SessionNumber(builder.bucket) \in Int
      /\ Signed(builder, tick) \in Int /\ flow.sum \in Int
  BY <1>1, Sessions, SignedType DEF Inv, TypeOK
<1>9. /\ flow'.session = SessionNumber(t)
      /\ flow'.sum = Signed(builder, tick)
                       + IF flow.session = SessionNumber(t) THEN flow.sum ELSE 0
      /\ flow' \in [session : Int, sum : Int]
  BY <1>3, <1>8 DEF FlowAfter
<1>10. TypeOK'
  BY <1>1, <1>3, <1>4, <1>6, <1>7, <1>9 DEF Inv, TypeOK, Builders, Engines
<1>11. FlowInv'
  <2>1. flow.session = SessionNumber(builder.bucket) /\ builder.bucket = BucketFloor(now)
    BY <1>1 DEF Inv, FlowInv
  <2>2. SessionAnchor(builder.bucket) = SessionAnchor(BucketFloor(t))
          <=> SessionNumber(builder.bucket) = SessionNumber(t)
    BY <1>1, <1>8, AnchorsTellSessions
  <2>3. flow'.sum = Carried(builder')
    BY <1>4, <1>6, <1>8, <1>9, <2>1, <2>2 DEF Carried
  <2>4. builder.bucket <= BucketFloor(t) /\ BucketFloor(t) # NoBucket
    BY <1>1, <1>8, <2>1 DEF BucketFloor, NoBucket
  <2> QED BY <1>3, <1>4, <1>6, <1>8, <1>9, <2>3, <2>4 DEF FlowInv
<1> QED BY <1>7, <1>10, <1>11 DEF Inv

\* Draining the partial bar at the end keeps the invariant.
LEMMA DrainStep ==
  ASSUME Inv, Drain
  PROVE  Inv' /\ StopStep
<1>1. builder \in Builders /\ up /\ builder.bucket # NoBucket
  BY DEF Inv, TypeOK, Builders, Drain
<1>2. PICK atr \in setup.atrs, regime \in Regimes, taken \in BOOLEAN :
        OnClosedBar(atr, regime, taken)
  BY DEF Drain
<1>3. /\ setup' = setup /\ up' = FALSE /\ now' = now /\ flow' = flow
      /\ builder' = [CloseBar(builder) EXCEPT !.bucket = NoBucket]
  BY DEF Drain, ForceCloseCurrent
<1>4. CloseBar(builder) \in Builders
  BY <1>1, CloseBarType
<1>5. builder' \in Builders
  BY <1>3, <1>4 DEF Builders
<1>6. builder'.anchor = CloseBar(builder).anchor /\ builder'.cum = CloseBar(builder).cum
  BY <1>3, <1>4 DEF Builders
<1>7. /\ session' = SessionUpdate(session, ClosedBar(builder))
      /\ seen' = [t |-> builder.bucket, cum |-> CloseBar(builder).cum, flow |-> flow.sum]
  BY <1>2 DEF OnClosedBar, ClosedBar
<1>8. /\ session' \in [cum : Int, date : Int] /\ seen' \in [t : Nat, cum : Int, flow : Int]
      /\ seen'.t = builder.bucket /\ seen'.cum = seen'.flow /\ builder'.cum = seen'.cum
      /\ seen'.t < Evening =>
           /\ session'.cum = seen'.cum
           /\ session'.date = IF seen'.t < SessionOpen THEN -1 ELSE 0
           /\ IF seen'.t < SessionOpen THEN builder'.anchor = SessionOpen - DayLength
                                       ELSE builder'.anchor = SessionOpen
  BY <1>1, <1>6, <1>7, ClosedBarFlow DEF Inv
<1>9. /\ engine' \in Engines /\ trade' \in [stop : Int, bars : Int]
      /\ TradeInv' /\ TradesEnd' /\ StopStep
  BY <1>1, <1>2, <1>3, ClosedBarStep DEF Inv, StopStep
<1>10. TypeOK'
  BY <1>3, <1>5, <1>8, <1>9 DEF Inv, TypeOK, Builders, Engines
<1>11. FlowInv'
  BY <1>3, <1>8 DEF FlowInv
<1> QED BY <1>9, <1>10, <1>11 DEF Inv

\* Every step keeps the invariant and loosens no stop.
LEMMA NextInv == Inv /\ [Next]_vars => Inv' /\ [StopStep]_vars
<1>1. ASSUME Inv, Next PROVE Inv' /\ StopStep
  BY <1>1, TickInBarStep, TickClosesBarStep, DrainStep DEF Next
<1>2. ASSUME Inv, UNCHANGED vars PROVE Inv'
  BY <1>2 DEF vars, Inv, TypeOK, TradeInv, TradesEnd, FlowInv, InPosition, variant
<1> QED BY <1>1, <1>2

\* The invariant holds in every state.
LEMMA InvSafe == Spec => []Inv
BY InitInv, NextInv, PTL DEF Spec

\* Every variable keeps its type: bars, positions, counters of any feed.
THEOREM TypeCorrect == Spec => []TypeOK
BY InvSafe, PTL DEF Inv

\* The counter a closed bar hands to the entry filter is the flow since the last
\* 08:30, for every feed and every gap in it, and the replay's is the same
\* until the first evening (v3_tick_delta.py 131-183, v3_replay.py 160-192).
THEOREM SessionFlowSafe == Spec => []SessionFlow
<1>1. Inv => SessionFlow
  BY DEF Inv, FlowInv, SessionFlow
<1> QED BY <1>1, InvSafe, PTL

\* No combination of flags, armour and ratchet keeps a trade past its time stop
\* or the end of the session (v3_engine.py 377-411).
THEOREM TradesEndSafe == Spec => []TradesEnd
BY InvSafe, PTL DEF Inv

\* A stop starts where the row says and is never loosened, for every variant,
\* flipped or not (v3_engine.py 285-307, 357-375; v4_engine.py 142-165).
THEOREM StopsSafe == Spec => StopsOnlyTighten
<1>1. Inv /\ [Next]_vars => [StopStep]_vars
  BY NextInv
<1> QED BY <1>1, InvSafe, PTL DEF Spec, StopsOnlyTighten, StopStep
=============================================================================
