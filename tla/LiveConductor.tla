--------------------------- MODULE LiveConductor ---------------------------
(***************************************************************************)
(* The live (not dry-run) trading loop: one asyncio task that turns quotes *)
(* into bars and, for every completed bar, polls the operator's kill       *)
(* switch, honours the strategies' force-flat requests, picks a signal and *)
(* sends at most one order.  Every await of a broker call is a point where *)
(* the account can change under the conductor: the call is a record        *)
(* `call', and the broker's actions interleave with the loop while         *)
(* pc = "call".                                                            *)
(*                                                                         *)
(* Source: src/acme/conductor/conductor.py, flat_first.py; the broker      *)
(* calls are those of src/acme/broker/projectx.py.                         *)
(***************************************************************************)
EXTENDS Integers, Sequences, FiniteSets

CONSTANTS
  Strategies,   \* strategies with an attached instance
  Reversers,    \* those that emit an opposite signal while in a position
  TfOf,         \* timeframe (minutes) of each strategy
  MaxSize,      \* largest signal size
  PollLimit,    \* rows fetched by one kill-switch poll (20 in the code)
  MaxSends,     \* requests that one order may cost (_post: four attempts)
  Faults,       \* what may go wrong outside the conductor
  MaxEvents,    \* bound: operator events written
  MaxUnread,    \* bound: rows written ahead of the running process
  MaxRestarts,  \* bound: process restarts
  MaxNet        \* bound: an entry is sent only while Abs(net) < MaxNet

FaultKinds == {"reject",       \* an order is refused, the call raises
               "lostReply",    \* an order is executed, the call raises
               "resubmit",     \* an order is executed again by the HTTP retry
               "readRaises",   \* get_positions raises
               "pollFails",    \* the operator_events query raises
               "strategyRaises",
               "bracket",      \* the broker fills a resting stop or target
               "restart"}      \* the process dies and is started again

ASSUME ConstantsAssumption ==
  /\ Reversers \subseteq Strategies
  /\ TfOf \in [Strategies -> Nat \ {0}]
  /\ Strategies # {}
  /\ MaxSize \in Nat \ {0}
  /\ PollLimit \in Nat \ {0} /\ MaxSends \in Nat
  /\ Faults \subseteq FaultKinds
  /\ MaxEvents \in Nat /\ MaxRestarts \in Nat /\ MaxNet \in Nat
  /\ MaxUnread \in Nat

VARIABLES
  \* Conductor.__init__: the memory of one process
  position,     \* self.position, the cached signed position
  fsm,          \* self.flat_first._state
  active,       \* self._kill_switch_active
  lastId,       \* self._kill_switch_last_id
  \* control state of the coroutine
  pc, due, toAsk, pollTo, call,
  \* the registry, loaded from the strategies table at start
  executable,   \* names whose lifecycle state is PILOT or LIVE
  \* outside the process
  net,          \* the account's signed net position at the broker
  events,       \* the kill-switch rows of operator_events; the id is the index
  restarts,
  \* observation only
  late,         \* entries sent since the newest activation row was written,
                \* in bars whose poll was answered
  drift,        \* what came between the cache and the account, see Drifts
  unread        \* the reads that failed when they were last tried, see Reads

procVars == <<position, fsm, active, lastId, pc, due, toAsk, pollTo,
              call, executable>>
vars == <<position, fsm, active, lastId, pc, due, toAsk, pollTo, call,
          executable, net, events, restarts, late, drift, unread>>
-----------------------------------------------------------------------------
Abs(n) == IF n < 0 THEN -n ELSE n
SignOf(n) == IF n > 0 THEN 1 ELSE IF n < 0 THEN -1 ELSE 0
Lower(a, b) == IF a < b THEN a ELSE b

Sides == {1, -1}                              \* buy, sell
FsmStates == {"IDLE", "CLOSING", "COOLDOWN", "RE_EVAL"}

\* The aggregator always builds 1-minute bars, and longer ones out of them.
Timeframes == {1} \cup {TfOf[s] : s \in Strategies}

\* Kinds of broker call, and who asked for a flatten.
Ops == {"none", "entry", "read", "close"}
Callers == {"none", "signal", "kill", "coord", "reversal"}
NoCall == [op |-> "none", why |-> "none", qty |-> 0, execs |-> 0]
Call(op, why, qty) == [op |-> op, why |-> why, qty |-> qty, execs |-> 0]

\* Nothing; a resting order closed the trade the cache still shows; or an
\* order (or a restart) of which the cache knows nothing.
Drifts == {"none", "filled", "lost"}

\* The bar's poll, and the positions in the flatten of an activation or of a
\* reversal.
Reads == {"poll", "kill", "reversal"}

CurrentTf == CHOOSE t \in due : \A u \in due : t <= u

LastEvent == IF events = <<>> THEN "none" ELSE events[Len(events)]

TypeOK ==
  /\ position \in Int
  /\ fsm \in FsmStates
  /\ active \in BOOLEAN
  /\ lastId \in Nat
  /\ pc \in {"idle", "bar", "rows", "coord", "call"}
  /\ due \subseteq Timeframes
  /\ toAsk \subseteq Strategies
  /\ pollTo \in Nat
  /\ call \in [op : Ops, why : Callers, qty : Int, execs : Nat]
  /\ executable \subseteq Strategies
  /\ net \in Int
  /\ events \in Seq({"activated", "cleared"})
  /\ restarts \in Nat
  /\ late \in 0..2
  /\ drift \in Drifts
  /\ unread \subseteq Reads
-----------------------------------------------------------------------------
(* A fresh Conductor: nothing is read back from the broker.                *)
FreshProcess ==
  /\ position = 0 /\ fsm = "IDLE"
  /\ active = FALSE /\ lastId = 0
  /\ pc = "idle" /\ due = {} /\ toAsk = {} /\ pollTo = 0
  /\ call = NoCall

Init ==
  /\ FreshProcess
  /\ executable \in SUBSET Strategies
  /\ net = 0 /\ events = <<>> /\ restarts = 0 /\ late = 0
  /\ drift = "none" /\ unread = {}
-----------------------------------------------------------------------------
(* Flow of one quote.  A quote that completes a 1-minute bar may complete  *)
(* longer ones; the bars are handled in timeframe order, and an exception  *)
(* in one of them drops the rest (the try is around the whole quote).      *)

FinishBar ==
  /\ due' = due \ {CurrentTf}
  /\ pc' = IF due' = {} THEN "idle" ELSE "bar"
  /\ toAsk' = {}

DropQuote ==
  /\ due' = {} /\ pc' = "idle" /\ toAsk' = {}

Quote ==
  /\ pc = "idle"
  /\ due' \in {bars \in SUBSET Timeframes : 1 \in bars}
  /\ pc' = "bar"
  /\ UNCHANGED <<position, fsm, active, lastId, toAsk, pollTo, call,
                 executable, net, events, restarts, late, drift, unread>>

\* FlatFirstFSM.tick: RE_EVAL once the cooldown has elapsed.
Tick(elapsed) ==
  fsm' = IF fsm = "COOLDOWN" /\ elapsed THEN "RE_EVAL" ELSE fsm

\* Highest id of the rows one poll returns: ascending, at most n rows.
PollUpTo_OffByOne(n) == Lower(lastId + n, Len(events) - 1)
PollUpTo(n) == Lower(lastId + n, Len(events))

\* The bar starts: tick the FSM, then query the new operator events.
BeginBar(ok) ==
  /\ pc = "bar"
  /\ ok \/ "pollFails" \in Faults
  /\ \E elapsed \in BOOLEAN : Tick(elapsed)
  /\ pollTo' = IF ok THEN PollUpTo(PollLimit) ELSE lastId
  /\ pc' = "rows"
  /\ unread' = IF ok THEN unread \ {"poll"} ELSE unread \cup {"poll"}
  /\ UNCHANGED <<position, active, lastId, due, toAsk, call,
                 executable, net, events, restarts, late, drift>>

\* flatten_all begins by reading the open positions.
StartFlatten(why) == /\ call' = Call("read", why, 0)
                     /\ pc' = "call"

\* The cursor moves row by row, before the row is acted upon.
NextSeenId_Batch == pollTo
NextSeenId == lastId + 1

ReadRow ==
  /\ pc = "rows" /\ lastId < pollTo
  /\ lastId' = NextSeenId
  /\ LET kind == events[lastId + 1] IN
       \/ /\ kind = "activated" /\ ~active
          /\ active' = TRUE
          /\ StartFlatten("kill")
       \/ /\ kind = "cleared" /\ active
          /\ active' = FALSE
          /\ UNCHANGED <<pc, call>>
       \/ /\ (kind = "activated") = active
          /\ UNCHANGED <<active, pc, call>>
  /\ UNCHANGED <<position, fsm, due, toAsk, pollTo, executable, net,
                 events, restarts, late, drift, unread>>

SwitchBlocks_Never == FALSE
SwitchBlocks == active

\* All rows handled.  While the switch is active the bar ends here.
RowsRead ==
  /\ pc = "rows" /\ lastId >= pollTo
  /\ IF SwitchBlocks
     THEN FinishBar
     ELSE /\ pc' = "coord"
          /\ toAsk' = {s \in Strategies : TfOf[s] = CurrentTf}
          /\ due' = due
  /\ UNCHANGED <<position, fsm, active, lastId, pollTo, call,
                 executable, net, events, restarts, late, drift, unread>>

\* _honor_fleet_coordination: a strategy of this timeframe wants to be flat.
\* The strategies that do not, or that find the account flat, change nothing.
ForceFlat(s) ==
  /\ pc = "coord" /\ s \in toAsk
  /\ position # 0
  /\ toAsk' = toAsk \ {s}
  /\ StartFlatten("coord")
  /\ UNCHANGED <<position, fsm, active, lastId, due, pollTo,
                 executable, net, events, restarts, late, drift, unread>>
-----------------------------------------------------------------------------
(* Signals.  An executable strategy is told the cached position, a shadow  *)
(* one is told 0; in a position the fleet's strategies hold, except those  *)
(* that emit the opposite side.                                            *)
SeenPosition_Flat(s) == 0
SeenPosition(s) == IF s \in executable THEN position ELSE 0

MayEmit(s, side) ==
  \/ SeenPosition(s) = 0
  \/ s \in Reversers /\ side = -SignOf(SeenPosition(s))

IsBlocking == fsm \in {"CLOSING", "COOLDOWN"}

Opposite_Never(side) == FALSE
Opposite(side) == position # 0 /\ side # SignOf(position)

\* No candidate, a size 0 winner, a shadow winner, or a closed calendar.
NoOrder ==
  /\ pc = "coord"
  /\ FinishBar
  /\ UNCHANGED <<position, fsm, active, lastId, pollTo, call,
                 executable, net, events, restarts, late, drift, unread>>

\* on_bar of some strategy raises: the quote is abandoned.
StrategyRaises ==
  /\ "strategyRaises" \in Faults
  /\ pc = "coord"
  /\ DropQuote
  /\ UNCHANGED <<position, fsm, active, lastId, pollTo, call,
                 executable, net, events, restarts, late, drift, unread>>

\* s wins the arbitration with an order that passes every gate.
Wins(s, side) ==
  /\ pc = "coord"
  /\ s \in executable /\ TfOf[s] = CurrentTf
  /\ MayEmit(s, side)

\* The cached position is opposite: FlatFirstFSM.request_reversal, then
\* flatten instead of trading.  Nothing happens while the FSM is blocking.
\* The direction it keeps is logged and never read, so it is not a variable.
RequestReversal(s, side) ==
  /\ Wins(s, side)
  /\ Opposite(side)
  /\ ~IsBlocking
  /\ fsm' = "CLOSING"
  /\ StartFlatten("reversal")
  /\ toAsk' = {}
  /\ UNCHANGED <<position, active, lastId, due, pollTo, executable, net,
                 events, restarts, late, drift, unread>>

\* _execute_signal: the order request is sent and its answer awaited.
ExecuteSignal(s, side, size) ==
  /\ Wins(s, side)
  /\ ~Opposite(side)
  /\ Abs(net) < MaxNet
  /\ call' = Call("entry", "signal", side * size)
  /\ pc' = "call" /\ toAsk' = {}
  /\ late' = IF LastEvent = "activated" /\ "poll" \notin unread
             THEN Lower(late + 1, 2) ELSE late
  /\ UNCHANGED <<position, fsm, active, lastId, due, pollTo,
                 executable, net, events, restarts, drift, unread>>
-----------------------------------------------------------------------------
(* Answers to the awaited call.                                            *)

\* FlatFirstFSM.on_position_closed: ignored unless the machine is closing.
OnPositionClosed_Idle == IF fsm = "IDLE" THEN "COOLDOWN" ELSE fsm
OnPositionClosed == IF fsm = "CLOSING" THEN "COOLDOWN" ELSE fsm

ClosedPosition_Kept == position
ClosedPosition == 0

\* What each caller does once flatten_all has returned normally.
AfterFlatten(why) ==
  /\ position' = ClosedPosition
  /\ CASE why = "kill" -> pc' = "rows" /\ UNCHANGED <<fsm, due, toAsk>>
       [] why = "coord" -> pc' = "coord" /\ UNCHANGED <<fsm, due, toAsk>>
       [] OTHER -> fsm' = OnPositionClosed /\ FinishBar

\* ... and once flatten_all has raised: the fleet coordination goes on, the
\* two other callers let the exception drop the quote.
FlattenRaises(why) ==
  IF why = "coord" THEN pc' = "coord" /\ UNCHANGED <<due, toAsk>> ELSE DropQuote

\* get_positions answers: nothing to close, or send the opposite order.  What
\* is closed is what the account holds, whatever the cache shows.
PositionsRead ==
  /\ pc = "call" /\ call.op = "read"
  /\ IF net = 0
     THEN AfterFlatten(call.why) /\ call' = NoCall
     ELSE /\ call' = Call("close", call.why, -net)
          /\ UNCHANGED <<position, pc, fsm, due, toAsk>>
  /\ drift' = "none" /\ unread' = unread \ {call.why}
  /\ UNCHANGED <<active, lastId, pollTo, executable, net, events,
                 restarts, late>>

PositionsRaise ==
  /\ "readRaises" \in Faults
  /\ pc = "call" /\ call.op = "read"
  /\ FlattenRaises(call.why)
  /\ call' = NoCall
  /\ unread' = unread \cup ({call.why} \cap Reads)
  /\ UNCHANGED <<position, fsm, active, lastId, pollTo, executable,
                 net, events, restarts, late, drift>>

\* The order call fails: refused, or executed with the answer lost.
OrderFails == \/ "reject" \in Faults /\ call.execs = 0
              \/ "lostReply" \in Faults /\ call.execs > 0

\* The closing order is answered; flatten_all swallows a failed one.
CloseAnswered ==
  /\ pc = "call" /\ call.op = "close"
  /\ call.execs > 0 \/ OrderFails
  /\ AfterFlatten(call.why)
  /\ call' = NoCall
  /\ drift' = IF call.execs = 0 THEN "lost" ELSE drift
  /\ UNCHANGED <<active, lastId, pollTo, executable, net, events,
                 restarts, late, unread>>

EntryAccepted ==
  /\ pc = "call" /\ call.op = "entry" /\ call.execs > 0
  /\ position' = position + call.qty
  /\ FinishBar
  /\ call' = NoCall
  /\ UNCHANGED <<fsm, active, lastId, pollTo, executable, net, events,
                 restarts, late, drift, unread>>

EntryRaises ==
  /\ pc = "call" /\ call.op = "entry"
  /\ OrderFails
  /\ DropQuote
  /\ call' = NoCall
  /\ drift' = IF call.execs > 0 THEN "lost" ELSE drift
  /\ UNCHANGED <<position, fsm, active, lastId, pollTo, executable,
                 net, events, restarts, late, unread>>
-----------------------------------------------------------------------------
(* The world outside the process.                                          *)

\* The broker executes the request in flight; _post may send it again.
OrderExecuted ==
  /\ pc = "call" /\ call.op \in {"entry", "close"}
  /\ call.execs = 0 \/ ("resubmit" \in Faults /\ call.execs < MaxSends)
  /\ net' = net + call.qty
  /\ call' = [call EXCEPT !.execs = @ + 1]
  /\ drift' = IF call.execs > 0 THEN "lost" ELSE drift
  /\ UNCHANGED <<position, fsm, active, lastId, pc, due, toAsk,
                 pollTo, executable, events, restarts, late, unread>>

\* A resting stop or target of the open position is filled at the broker.
\* If a closing order is on its way it will open the opposite position.
BracketFills ==
  /\ "bracket" \in Faults
  /\ net # 0
  /\ net' = 0
  /\ drift' = IF drift = "lost" \/ (call.op = "close" /\ call.execs = 0)
              THEN "lost" ELSE "filled"
  /\ UNCHANGED procVars /\ UNCHANGED <<events, restarts, late, unread>>

\* GET /kill-switch?action=activate|clear inserts a row.
Operator(kind) ==
  /\ Len(events) < MaxEvents /\ Len(events) < lastId + MaxUnread
  /\ events' = Append(events, kind)
  /\ late' = 0
  /\ UNCHANGED procVars /\ UNCHANGED <<net, restarts, drift, unread>>

\* The process dies at any point (stream closed, watchdog) and fleet_runner
\* builds a new Conductor on a registry reloaded from the database.
Restart ==
  /\ "restart" \in Faults /\ restarts < MaxRestarts
  /\ restarts' = restarts + 1
  /\ position' = 0 /\ fsm' = "IDLE"
  /\ active' = FALSE /\ lastId' = 0
  /\ pc' = "idle" /\ due' = {} /\ toAsk' = {} /\ pollTo' = 0
  /\ call' = NoCall
  /\ executable' \in SUBSET Strategies
  /\ drift' = (IF net = 0 THEN "none" ELSE "lost") /\ unread' = {}
  /\ UNCHANGED <<net, events, late>>
-----------------------------------------------------------------------------
\* Steps of the coroutine itself, all of them always progressing.
Step ==
  \/ \E ok \in BOOLEAN : BeginBar(ok)
  \/ ReadRow
  \/ RowsRead
  \/ \E s \in Strategies : ForceFlat(s)
  \/ NoOrder
  \/ StrategyRaises
  \/ \E s \in Strategies, side \in Sides : RequestReversal(s, side)
  \/ \E s \in Strategies, side \in Sides, size \in 1..MaxSize :
        ExecuteSignal(s, side, size)
  \/ PositionsRead
  \/ PositionsRaise
  \/ CloseAnswered
  \/ EntryAccepted
  \/ EntryRaises

World ==
  \/ OrderExecuted
  \/ BracketFills
  \/ \E kind \in {"activated", "cleared"} : Operator(kind)
  \/ Restart

Next == Quote \/ Step \/ World

Spec == Init /\ [][Next]_vars

(* Quotes keep arriving while the market is open, the loop never stops     *)
(* between two awaits, and every HTTP call answers (20 s timeout, at most  *)
(* four attempts), an order being executed or refused before its answer.   *)
(* A poll that can succeed is not failed by the database for ever, and a   *)
(* cool-down of 60 s has elapsed at one of the bars that keep completing.  *)
CooldownElapses == \E ok \in BOOLEAN : BeginBar(ok) /\ fsm' # "COOLDOWN"

Fairness ==
  /\ WF_vars(Quote)
  /\ WF_vars(Step)
  /\ WF_vars(OrderExecuted)
  /\ SF_vars(BeginBar(TRUE))
  /\ SF_vars(CooldownElapses)

FairSpec == Spec /\ Fairness
-----------------------------------------------------------------------------
(* Properties.                                                             *)

\* Between two broker calls the account is what the cached position shows, or
\* flat if a resting order has closed the trade; only an order the cache does
\* not know of (refused close, lost answer, second execution, a fill under a
\* closing order, a restart in a trade) breaks this, and the next flatten that
\* reads the positions restores it (conductor.py 77, 603-604, 821-822).
CacheTracksBroker ==
  pc # "call" /\ drift # "lost" =>
    net = IF drift = "filled" THEN 0 ELSE position

\* While the switch is active and its own flatten is over, the account holds
\* nothing (conductor.py 332-337: "any open positions were force-flattened on
\* activation").
FlattenedWhileActive ==
  active /\ ~(pc = "call" /\ call.why = "kill") => net = 0

\* The same with resting orders filled at any moment, unless that flatten could
\* not read the positions or an order of it went astray: no caller re-opens or
\* leaves a position.
FlatWhileKilled ==
  drift # "lost" /\ "kill" \notin unread => FlattenedWhileActive

\* The flag is the latest event seen, through batches, exceptions in the
\* middle of a batch and restarts (conductor.py 97-104, 798-813).
SwitchReflectsLastSeen ==
  /\ lastId <= Len(events)
  /\ active <=> (lastId > 0 /\ events[lastId] = "activated")

\* Once an activation row is written, only the bar already past its poll may
\* still send an entry, apart from bars whose poll fails and which trade on the
\* flag as it was (web/app.py 793-795; conductor.py 326-337, before the signals
\* of every bar of every timeframe).
AtMostOneLateEntry == late <= 1

Cache == INSTANCE SingleTrade WITH net <- position
Account == INSTANCE SingleTrade

\* Whatever fails, the cached position opens from 0 with a bounded size and
\* returns to 0 before it changes again: no pyramiding, no flip, although the
\* conductor itself never checks the size of what it already holds.
CacheIsSingleTrade == Cache!Spec

\* The account itself is opened and closed that way, by the conductor and by
\* resting orders, until an order is lost as above and again once a flatten
\* has read the positions (conductor.py 560-604, 815-822).
AccountIsSingleTrade ==
  Account!Init /\ [][drift' # "lost" => Account!Next]_net

\* An activation that is not cleared is eventually seen, although polls fail,
\* flattens raise and the process restarts (conductor.py 772-813).
SwitchObeyed ==
  LastEvent = "activated" ~> (active \/ LastEvent # "activated")

\* A reversal does not block for ever: from closing and from cooling down the
\* machine reaches a state in which signals are traded again (flat_first.py
\* 63-65, 88-110; conductor.py 571-583), unless the reversal's flatten could
\* not read the positions.
ReversalUnblocks == IsBlocking ~> (~IsBlocking \/ "reversal" \in unread)

\* The same without exception, the machine being described as one cycle
\* (flat_first.py 14: "IDLE, CLOSING, COOLDOWN, RE_EVAL, IDLE").
BlockingEnds == IsBlocking ~> ~IsBlocking
=============================================================================
