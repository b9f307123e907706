# Verification of acme-futures

This directory holds TLA+ models of the trading engine of acme-futures, the TLC
configurations that check them on small instances, and proofs, checked by
TLAPS, of the properties that should hold for every instance. Everything is
translated from the Python sources; paths below are relative to the root of the
repository copy (`src/src/acme` is the `acme` package).

Run it inside this directory: `tlc -config <run>.cfg <module>` for a run listed
below, `tlapm <Module>Proofs.tla` for the proofs.

## 1. The system

One process (`fleet_runner`) runs an asyncio event loop. A *conductor* turns the
quotes of one contract into bars, asks every strategy for a signal, lets one
win, and sends at most one order per bar to a ProjectX account, or, in dry-run
mode, keeps phantom positions. Around it: a table of operator events that holds
the kill switch, a registry of strategy lifecycles with scripts that change it,
records and scores of closed trades, heartbeats, a warden that turns stale
heartbeats into alerts, and a shell watchdog that restarts the process. A
second, older runtime (`ryan_spec/v3_runtime.py`, marked archived in `db.py`)
runs one strategy variant by itself. Two offline drivers replay bars to the same
strategy objects.

| Component | State | Operations | Interacts with | What is hard | What makes it correct |
|---|---|---|---|---|---|
| Conductor, live (`conductor/conductor.py`) | cached position, kill flag and cursor, flat-first machine | quote, bar, poll, coordinate, signal, execute, flatten | broker (awaits), `operator_events`, strategies, registry | the account changes during every await; exceptions leave a bar half done; restarts forget everything | cache agrees with the account, flat while killed, switch follows the rows, one trade at a time |
| Flat-first (`conductor/flat_first.py`) | state, pending direction | request, closed, tick | conductor | protocol only consulted on one path | no order while blocking, never stranded |
| Dry-run book (`conductor/dry_run.py`, conductor) | phantoms and a net per strategy | open, exit, force-flat, kill | bars, strategies, tracker | two dictionaries, several timeframes per quote | net is the sum of phantoms, every phantom accounted for, brackets honoured, no look-back |
| Bars (`conductor/bar_aggregator.py`) | one builder per timeframe | add_tick | conductor | longer bars are one minute late | a bar is labelled with its own bucket |
| ProjectX orders (`broker/projectx.py` 1-330) | token | submit, positions, flatten_all, retry | conductor, v3 runtime | retries of orders, swallowed failures | an order is executed once; flat when flatten returns |
| SignalR muxes (`broker/projectx.py` 371-) | consumer lists, subscribed set, lock | subscribe, fan-out, leave | tasks and the client's thread | two threads; shared contracts | a private FIFO channel per task, one connection, exact subscriptions |
| Fleet runner, registry, scripts (`fleet_runner.py`, `registry.py`, `scripts/promote_fleet.py`, `register_new_fleet.py`) | the `strategies` table, a copy of it per process | load, upsert, transition, set_score, register, promote | operator, conductor | several programs write one table from copies of different ages; any write may fail | an order is for a strategy the table entitled |
| Performance, arbitrator, regimes (`perf/`, `conductor/arbitrator.py`, `regime/`) | windows of closed trades | record, backfill, score, arbitrate, classify | registry, close rows | records are rebuilt from rows at a restart; four weights on different scales | record equals rows, score equals record, tier before record |
| Strategies (`strategies/`, `levels.py`) | a memory per strategy: marks, counts, dates, levels | on_bar, wants_force_flat, set_levels | conductor, both replays | what was used up is marked elsewhere than the trade it counts; missing bars, early closes | one mark per trade, caps hold |
| Risk, calendar (`risk.py`, `calendar.py`) | an account's day | gate, sizing, session, blackout | strategies, conductor | boundaries, midnight, early closes | a limit is overshot by one trade at most; no entry near a close |
| Backtests (`backtest/bar_replay.py`, `scripts/backtest_new_fleet.py`, `backtest/v3_replay.py`) | open trades, account, session counter | one bar at a time | strategies | they mirror the live path with code of their own | same memory, same counter |
| v3 runtime (`ryan_spec/v3_runtime.py`) | open trade, pending fills, breaker, pause cache | decide, open, close, fill event, self-halt | broker, user hub, two tables | a task per decision, late fills, cached pause | the breaker holds, rows are settled, fills reach their trade |
| v3 and v4 engines, delta bars (`ryan_spec/v3_engine.py`, `v4_*`, `v3_tick_delta.py`) | bar in progress, session counter, history, position | tick, on_bar, open, close | v3 runtime, replay | reset at a bar's close; ratchet, armour, four exits and a flip in one bar | the counter is the session's flow, stops only tighten, trades end |
| Watchdog and probe (`scripts/*.sh`, `check_runner_heartbeat.py`) | process, log, stale count, grace | look, kill, spawn | heartbeat rows | rows of the runner before, a log of the runner before | a dead runner is replaced, a healthy one left alone |
| Warden (`src/warden`) | open alerts | pass | heartbeats, alert rows | several alerts of one outage, failing writes | offline is alerted, recovery clears |
| Web (`src/web`) | none | kill switch, views | `operator_events`, heartbeats | - | an activation is obeyed |
| Telemetry, scheduler, paper broker, audits, TUI | various | - | conductor | - | not modelled (section 5) |

The hazards of this code, each at its line and with the properties that are about it,
are listed in `PROJECT.json`.

## 2. Modules

| Module | Models | Role |
|---|---|---|
| `SingleTrade` | the promise about one account | abstract specification |
| `LiveConductor` | the live loop, flat-first, order calls, kill switch | refines `SingleTrade` twice |
| `PhantomBook` | bars and dry-run books | each holding strategy refines `SingleTrade` |
| `V3Runtime` | the v3 runtime with a broker | detailed |
| `QuoteFeed` | the promise of `stream_quotes` | abstract specification |
| `MarketMux` | the shared hub connection | refines `QuoteFeed` |
| `DeltaBars` | the v3 builder and the replay's session counter | operators |
| `V3Engine` | the v3 engine with every flag and the v4 gate | operators |
| `V3Day` | ticks, bars, engine and dry-run trades of one variant | composes `DeltaBars`, `V3Engine`, `Detectors` |
| `Performance`, `Arbitration`, `Regimes` | records and confidence, composite score, regime of a bar | operators |
| `Governance` | table, operator's scripts, runner, records, scores | composes the three above |
| `TradingClock` | trading dates, early closes, blackouts, the gate | operators |
| `Signals` | answers, sizing, risk gate | operators |
| `Detectors` | GO/NO-GO, exhaustion, PULSE, regime classifiers | operators |
| `TrendStrategies`, `BreakoutStrategies`, `KeeperStrategies` | memory and `on_bar` of every strategy class | operators |
| `Fleet` | all strategies behind one interface | operators |
| `FleetReplay` | the bar replay and the fleet's backtest script | composes `Fleet`, `TradingClock` |
| `Supervision` | runner, watchdog, heartbeat rows, warden | detailed |
| `MC...` | - | constants of the runs |
| `...Proofs` | - | theorems about the module of that name |

Operators named `Name_Variant` are plausible mistakes in `Name`. They are used
by no specification; putting one in the place of `Name` must break the property
that `PROJECT.json` pairs with it.

### LiveConductor

The coroutine is a program counter: `idle` (waiting for a quote), `bar` (start of
`_process_bar`), `rows` (inside `_poll_kill_switch`), `coord`
(`_honor_fleet_coordination` and the signals after it) and `call` (awaiting the
broker). Code between two awaits is one action or a chain of actions nothing
else depends on; what can interleave with an await interleaves with
`pc = "call"`: the broker executing the order (`OrderExecuted`, up to `MaxSends`
times if the HTTP retry resends it), a bracket fill, an operator's row, the death of the
process. `call` records the order, who asked for it and how often it was
executed.

| Variable | Code |
|---|---|
| `position`, `active`, `lastId` | `self.position`, `_kill_switch_active`, `_kill_switch_last_id` |
| `fsm` | `FlatFirstFSM._state` (`_pending_direction` is written and never used) |
| `due`, `toAsk`, `pollTo`, `call` | locals of the coroutine |
| `executable` | strategies in PILOT or LIVE in the loaded registry |
| `net`, `events` | the account; the kill-switch rows of `operator_events` |
| `restarts` | bound |
| `late` | observation: entries sent since the newest activation was written, in bars whose poll was answered |
| `drift` | observation: what came between the cache and the account: nothing, a resting order that closed the trade (`filled`), or an order or a restart the cache knows nothing of (`lost`) |
| `unread` | observation: the reads that failed when they were last tried (the bar's poll, the positions of an activation's flatten, those of a reversal's) |

`BeginBar` = FSM tick and query; `ReadRow`, `RowsRead` = the loop over the rows
and the return while the switch is active; `ForceFlat`; `RequestReversal`,
`ExecuteSignal`, `NoOrder` = the outcomes of the signal phase; `PositionsRead`,
`CloseAnswered`, `EntryAccepted` and the `...Raises` actions = answers, with what
each caller does when the call returns or raises.

What strategies do is reduced to what they may emit given the position they are
told (`SeenPosition`, `MayEmit`): the deployed ones hold in a position, and
`go_no_go_levels` may also emit the opposite side. Prices, sizing rules and the
winner among candidates are abstracted: any executable strategy may win with any
size in `1..MaxSize`.

### PhantomBook

One quote completes a 1-minute bar and perhaps longer ones (`Quote`); each is
handled in the phases of the code: `exits` (`check_dry_run_exits`), `poll`, `coord`,
`signals`, the last ending in `Arbitrate`. Prices are integers (ticks), times are
minutes, and the longer bars are built from 1-minute closes exactly as
`MultiTimeframeAggregator` does, delay included. `open` and `net` are the two
dictionaries. `unclosed` (signal rows minus close rows; a kill or a restart, which empties the books without
rows, starts it again), `candidates`, `unanswered`, `abandoned` (an exception or a restart cut the last quote
short), `last` and the `seen` of a phantom (the last 1-minute bar when it was opened) observe. `Poll` abstracts
a batch of rows to whether it flattens and what the flag is afterwards.

### V3Runtime

`ClosedBar` asks the engine and creates a task (`todo`), one per decision as the code does, so
that `MaxTasks` orders may be under way at once; `OpenTrade`, `CloseTrade`,
`Skipped`, `InsertFails` are a task up to its order; `Opened`, `OpenFails`, `Closed`,
`CloseFails` what follows the await; `UserEvent` the fill consumer with its three
outcomes. Prices are reduced to where they come from: the decision (`model`) or a
fill (`real`). The engine is any sequence of decisions its position allows. `streak`, `halted`,
`dropped` (rows whose place in `_open_trade_id` another answer took) and `overlapped` (two orders
were under way at once) observe. What the account holds is not part of this model.

### MarketMux

Tasks on the loop run undisturbed between awaits; the client's thread calls
`_on_quote`, takes a snapshot of queues (`rest`) and hands them over one at a time
(`HandOver`, in any order, which includes the list's); the loop runs the queued
`put_nowait` calls in order (`RunHandle`). `Leave` drops what is still on its way to
a queue nobody reads any more; a task that subscribes again gets a new queue,
and the model would notice an old quote in it. A start of the connection that raises does so
before the first await, with the lock released and the task's lists as before: no step of the model. `hub` is what the broker sends,
`subscribed` what the mux believes, `lost` the contracts where the code cannot
know they differ. Trades have dictionaries and functions of their own with the same
bodies.

The refinement mapping of `MuxIsFeed` reads a task's channel as: its queue, then the calls
for it waiting in the loop, then the quote the thread still holds for it.

### V3Day

A tick either enters the bar in progress (`TickInBar`) or closes it and opens the next
(`TickClosesBar`); `Drain` is the shutdown. `OnClosedBar` is `_on_closed_bar` with the task it
starts: engine, gate, phantom entry or exit. Moments are minutes from midnight of day 0,
so that 08:30, 14:50, 17:00 and the next day's 08:30 are numbers the code's comparisons
distinguish. `setup` holds a variant (a record of the constructor's flags), the ticks of
its feed and the ATRs a bar may have; Bollinger bands are only a warm-up length,
since the engine reads nothing else of them. `session` runs the replay's counter over the same bars;
`flow` and `seen` observe.

### Fleet and FleetReplay

A strategy is a memory, the inputs that tell its answers apart, and `OnBar` from both, the time,
its position, the bracket and size the bar leads to (`draw`) and the account to a new memory
and an answer. Prices, averages and ratios enter as verdicts: a slope is up, down or none,
a level is missing, far or near. What stays is the order of the tests, the dates and marks, the
hours and the place where each is written. `ReplayBar` is one iteration of `run_backtest`, `ScriptBar`
one of `backtest_strategy` (the levels of a date are set if the date has any): touched brackets with the stop first, roll of the day, force-flat,
call, new trade. A strategy that answers with an `EvalResult` where the driver expects a `Signal`
ends the run (`crashed`). `built` is the longer bar the aggregator has in hand: it is handed over one
1-minute bar, and one look at the brackets, after the bucket's last minute was completed.

### Governance

`StartScript`, `PromoteNext`, `RegisterNext` are the operator's scripts, a row at a time, on a copy
read at their start; `LoadRegistry`, `UpsertMissing`, `Backfill` the start of the runner;
`BracketExit`, `ForceFlat` the two ways a phantom closes, with the close row, the record and the
snapshot that follows the first only; `PhantomSignals`, `LiveSignals` a bar's eligible candidates in
either mode, from the regime to `Arbitrate`. `entitled`, `order`, `published`, `unpublished` and `lossy`
observe. Confidence is computed in ten-thousandths from the same terms; the Sharpe term is its
root-free equivalent (`SharpeTerm`).

### Supervision

Time passes by minutes; within one, the runner's bar, the watchdog's look and the warden's pass happen
in any order. `age` is the age of each heartbeat row, `dropped` and `activity` the tail of the
log the watchdog greps. `events` are the alerts the warden can still fetch, those of the last 24
hours; `AgeOut` takes the oldest out of that window, at any minute. `calm`, `drops`, `wronged` and `missed` (probes without an answer in a row) observe. Faults: crash, hang, a connection lost for good, a silent market, a
failed heartbeat or alert write, a probe that cannot answer. The watchdog's expression and the
warden name services that are no longer deployed (`Services`), the runner writes rows for
those that are (`Active`).

## 3. Runs

One run per module that has behaviour of its own, with every property of that module.

| Run | Asks |
|---|---|
| `conductor` | every fault there is, fair scheduling: `CacheTracksBroker`, `FlatWhileKilled`, `SwitchReflectsLastSeen`, `AtMostOneLateEntry`, `AccountIsSingleTrade`, `CacheIsSingleTrade`, `SwitchObeyed`, `ReversalUnblocks` |
| `phantom` | the deployed 2-minute fleet with kills, raising strategies and restarts: `BookBalanced`, `DryFlatWhileKilled`, `NoLookback`, `StopsChecked`, `EveryPhantomAccounted`, `EverySignalAnswered`, `HoldersKeepSingleTrades` |
| `v3_runtime` | two decisions at once, refusals, lost answers, failed inserts, a restart: `FailuresBounded`, `TradesSettled`, `BasisIsRecordedEntry`, `HaltHolds`, `ExitCompletes` |
| `v3_day` | seven variants over two days of ticks: `SessionFlow`, `TradesEnd`, `StopsOnlyTighten` |
| `market_mux` | joins and leaves during fan-outs, suppressed request failures, unnamed quotes, reconnects: `MuxIsFeed`, `HubServesConsumers`, `OneConnection`, `EveryQuoteTaken`, `EveryTaskServed` |
| `fleet_replay` | every strategy under its drivers, in and out of its hours: `ShotsMatchTrades`, `LimitsOvershotByOneTrade` |
| `governance` | scripts, restarts, lost rows and failed scores beside a trading runner: `TypeOK` (a score is between 0 and 1, and only on a row that exists), `OrdersAreEntitled`, `RestartKeepsRecord`, `ScoresFollowRecords`, `TierOutweighsRecord` |
| `supervision` | crashes, hangs, lost connections and writes, silences and blind probes, with the warden: `OneWrongKillPerDrop`, `RunnerRecovers`, `OfflineIsAlerted`, `AlertsAreCleared` |

Where the code does not keep the simple form of a property, the property says what it does keep, under
the same faults, and an observation variable names the exception:

- A resting order that fills is noticed by the next flatten, an order that went astray (refused close,
  lost answer, second execution, a fill under a closing order, a restart in a trade) by none.
  `CacheTracksBroker`, `FlatWhileKilled` and `AccountIsSingleTrade` speak of any state while `drift` is
  not `lost`; it returns to `none` only when a flatten has read the positions or a process starts on a flat account.
- `FlatWhileKilled` and `ReversalUnblocks` except the flatten that could not read the positions (`unread`).
  What happens then is what `v_kill_not_flat` and `v_reversal_stranded` show.
- `AtMostOneLateEntry` does not count the bars whose poll fails: they trade on the flag as it was.
- `StopsChecked` speaks of the 1-minute bars completed after the phantom was opened. The docstring's
  wider promise, every bar after the entry bar, is what `v_stop_skipped` refutes on the same fleet.
- `TradesSettled` excepts the row whose place a second order under way took (`dropped`), and
  `FailuresBounded` allows `MaxTasks - 1` more failures only once two orders have overlapped.
- `OneWrongKillPerDrop`: after a lost connection the log's tail convicts one healthy runner
  (`StartLines` is one line short), and no more than one.
- `AlertsAreCleared` is about the alerts that the warden can still fetch.

The other runs are expected to fail. Each checks a statement that a comment, a docstring or a test makes
and the code breaks; `PROJECT.json` quotes it under `findings`. Further divergences, of the same kind
but not kept as runs, are in section 6.

| Run | Shows |
|---|---|
| `v_kill_not_flat` | `FlattenedWhileActive`: reading the positions raises in the activation's flatten; flag and cursor are already set, the row is never retried, and every later bar returns with the position open |
| `v_reversal_stranded` | `BlockingEnds`: reading the positions raises in a reversal's flatten, `on_position_closed` is not reached, and `CLOSING` is never left |
| `v_stop_skipped` | `StopsHonoured`: on 2-minute bars the minute after the entry bar was tested before the phantom existed |
| `v_v3_orphan` | `OrphanMeansFlat`: two entries under way at once; the first trade's row stays open beside the one the heartbeat reports |

### Bounds, and why they are enough

- Conductor: two strategies, one that reverses on 2-minute bars and one that holds on 1-minute
  bars, so that one quote completes two bars and an exception in the first drops the other
  strategy's. Two operator events and a `PollLimit` of two reach activate-clear in one batch and a row behind
  a flatten that raises. An order may execute twice (`MaxSends`; `_post` tries four times, and a third
  execution leaves the cache as ignorant as a second). `MaxNet` keeps the account finite when orders are
  doubled. One restart is enough to forget everything; a second forgets nothing more.
- `PollLimit` is the bound with meaning: a restarted process sets its cursor
  to 0 and reads the whole history 20 rows per bar. `AtMostOneLateEntry` holds while the
  backlog fits one poll, as it does in the run, and fails beyond it: with more rows an entry is sent
  in every bar until the poll has caught up (section 6).
- Phantom book: prices 1..3 with brackets of one tick make every bar able
  to hit the stop, the target, both or neither; eight minutes hold four 2-minute bars, and a gap of two
  skips a minute. `MaxOpen = 2` lets a reverser stack two phantoms, and with two strategies on the same
  bars one can raise behind another's signal.
- v3: two rows and two tasks reach halt, unpause, a late fill of one trade while the next is open, a double
  entry and a restart in each of them. With a threshold of one every failure counts; that a success or an
  unpause between two failures starts the count again is left to the proof, which is for any threshold.
- Mux: two tasks on one contract and one on another make "not the last consumer" and
  "another contract" both happen; two quotes suffice for a lost, doubled or
  swapped one.

- v3 day: the moments are the last bars before 08:30, the bars around 14:50, one in the evening and
  the next day's open; at most two ticks per bar; prices that give a bar both signs of flow
  and room for twice the ATR, which the second step of the ratchet needs. Warm-up of one bar,
  a time stop of two bars, a window of three flows with two needed. Each variant turns on the
  flags that interact: ratchet without the timed exits, armour with minimum bars, percentile filter,
  gate and flip, the v3.1 caps; the canonical one on a feed that tells the aggressor.
- Fleet replay: two calendar days, the second with an early close, and the minutes that straddle
  every hour and window a strategy tests; any one minute may be missing. Two trades may be open
  at once. The account is ten trades' risk, its limits two and three, so that every gate closes.
- Governance: two keepers of different tiers, one missing from the table at first; three close rows
  and faults together, a window of one trade and a tracker of two, so that both the tracker's and the window's
  end are passed; two starts, one script, one day's turn. `RowLimit = 3` is never exceeded: see section 6.
- Supervision: one deployed service and one that is named but not deployed. Two faults put a lost
  write or an unanswered probe behind a crash or a drop, or a second fault into the recovery from the first;
  two alerts of a service in the window, a stale one in front of an offline one. A first bar takes at most three minutes, as
  the comment of the watchdog's grace says.

Runs that set `CHECK_DEADLOCK FALSE` may stop because a bound is reached (minutes,
rows, quotes, days) or because the program stops (`v3_day` after its drain); the conductor's
and the supervision's never stop and check it.

### Fairness

- `LiveConductor`: quotes keep arriving while the market is open; the coroutine
  continues after an await; a broker call answers, because httpx gives up after
  20 s and the retry after four attempts; strong fairness on a *successful* poll (a
  database that fails every poll for ever would hide any row) and on the cool-down of 60 s
  having elapsed at a bar.
- `V3Runtime`: the loop starts its tasks, and each task's call is executed or refused, then
  answered, for the same reason. Nothing is assumed about bars or fill events.
- `MarketMux`: the loop runs what it was handed, the client's thread finishes a
  fan-out, the handshake's sleep ends, and a task waiting for the lock or for a
  quote is resumed. asyncio's lock is first come first served, so weak fairness
  per task is less than it provides. Nothing forces a task to subscribe or leave.
- `Supervision`: minutes pass, the shell's loop and the warden's loop go on, a runner with quotes
  closes bars, and a silent market opens again. No fault is ever forced. The warden's
  passes are fair per service, which its loop over all of them provides.

## 4. Proofs

All theorems hold for every value of the constants that satisfies the module's assumption; extra
assumptions are named in the theorem and listed here. Every safety property of a run, and every
refinement, is the statement of a theorem. Type correctness is a theorem of `LiveConductor`,
`PhantomBook`, `V3Runtime`, `V3Day`, `MarketMux` and `Governance`; only the governance run repeats
it.

**LiveConductor** (`LiveConductorProofs`). `SwitchSafe`: the flag is the kind of the last row
seen, because the cursor moves by one row and the flag with it, and a poll never promises rows
that do not exist (`pollTo <= Len(events)`, the strengthening). `CacheRefinesSingleTrade`: under
every fault the cached position opens from 0 within `MaxSize` and returns to 0. The conductor
never checks what it holds, so the argument goes through the strategies: an entry that is not
routed through flat-first was emitted by a strategy told 0, and `CacheInv` carries "position is 0
and the size is bounded" across the await. The account is proved under every fault as well:
`AccountInv` relates it to the cache at each kind of call (in flight, executed or not, a resting
order filled before or meanwhile) as long as no order is astray, and gives `CacheTracks` and
`AccountRefines`: the account itself implements `SingleTrade` on every step that leaves none astray.
`FlatWhileKilledSafe` needs no assumption; `SwitchGuard` says that while the switch is active the
process awaits nothing but the activation's flatten, never gets to the coordination, and has
either completed that flatten or failed to read the positions in it (`unread`).
`LateEntriesBounded` assumes `OnePollSuffices`: the rows a process has not seen fit one answer, either
because the whole table does or because the operator never runs further ahead and nothing restarts.
`LateInv` says where the process can be once one entry was late: past
the poll of that bar, or at a poll that will see the newest row (`PollSeesAll`, from
`BacklogInv`), or in the flatten that row asked for.

**PhantomBook** (`PhantomBookProofs`). `HoldersSafe`: for a strategy that holds, the book is empty
with net 0 or one phantom that is its whole net (`HolderInv`), hence every change of net is an
`OpenTrade` or a `CloseTrade`. `KilledSafe`: while the switch is active the books are empty and
the bar has not passed its poll (`KilledInv`; without the second half a signal could follow the
flatten). `TypeInv` adds to the types that books are finite and that the bar being handled is a
due one. The others:

- `BookBalancedSafe` needs no assumption. `MapThenSumSet` adds a book up by choosing an element at
  a time; that it does not matter which one is chosen (`SumStep` and the lemmas before it) is
  shown for finite books by cardinality.
- `NoLookbackSafe` assumes `OneTimeframe`, of any length: with two, the 1-minute bar handled first
  closes phantoms of the longer one (section 6). `BarsInv` orders the bars that are due by their
  minutes and by the bucket being built; `EntryInv` says that a phantom was entered no later than
  any bar it will still be tested with.
- `StopsCheckedSafe` needs no assumption: any fleet, mix of timeframes and fault. The 1-minute bar is
  handled first (`CurrentTf`), so every phantom then open is tested with it before anything else
  happens (`BracketInv`). The stronger statement of the docstring is the one `v_stop_skipped` refutes.
- `PhantomsAccountedSafe` and `SignalsAnsweredSafe` need no assumption either. A signal is unanswered only
  while it is a candidate (`AnswerInv`), and a quote that was cut short, the only way to lose one, is
  idle until the next one arrives.

**V3Runtime** (`V3RuntimeProofs`). `BasisSafe` needs no assumption: a real fill reaches only the
row it names, and the open trade's basis only while that row is open (`BasisInv`). `SettledSafe` needs
none either: as long as no two orders are under way at once there is one, for the open trade or for
a new one while none is open (`SoloInv`), and whatever an answer does, it settles its own row and
displaces at most the open one (`RowsSettled`). `HaltSafe` and `FailuresSafe`
assume `HealthyConfig` (reads and writes of `runtime_config` succeed); without it a self-halt is
forgotten (section 6). `HaltInv` says a halt is in the table and in a fresh cache;
`BreakerInv` bounds the failures and the entries in flight by the counter, for any number of tasks:
what the breaker cannot stop are the entries other tasks already await, at most `MaxTasks - 1`.
`SoloBreaker` is the exact bound, the threshold, for as long as no two orders have overlapped.

**MarketMux** (`MarketMuxProofs`). `HubSafe` and `OneConnectionSafe` from `MuxInv`: the mux's set
is exactly the contracts with a consumer, the hub follows it outside `lost`, and one task at a
time connects, only while there is no connection. `MuxImplementsFeed`: every step of the mux is a
step of `QuoteFeed` on the mapped channels, or none. A channel is what the calls in the loop will
make of the queue, then the quote the thread still holds, and both the calls' effect (`Run`) and
the calls a leaving task drops (`Kept`) are folds over the calls. So the step lemmas need: a call
added at the end adds at the end of one channel (`RunAppend`), the first call may be run at once
(`RunFirst`), taking from the queue commutes with what is on its way (`RunTake`), and dropping a
task's calls leaves the other channels alone (`RunKept`). `Delivering`, the strengthening, adds to
the types that a quote being handed over has a number.

**V3Day** (`V3DayProofs`). The three properties of the run hold for every variant, feed, ATR and
window. `TradesEndSafe` and `StopsSafe` go bar by bar through `OnBarStep`: a bar ages a position,
the ratchet moves its stop towards the price (`RatchetTightens`, by cases on the direction), and a
position that survives has met no timed exit (`ManagedSurvives`); an entry carries its stop at the
distance its own direction asks for, also after a flip (`GatedEntries`). `TradeInv`, the
strengthening, says that the open row has aged with the engine's position. `SessionFlowSafe` rests
on `FlowInv`: all the flow of a session is split between the bar in progress and the counter, if
the counter's anchor is that of the bar's session (`Carried`); a bar never straddles a session
because 08:30 is an even minute (`Sessions`), and anchors are equal exactly when sessions are
(`AnchorsTellSessions`). Up to the first evening the replay's date is set exactly when the live
anchor is the day's.

**FleetReplay** (`FleetReplayProofs`). `ShotsCounted` goes through every strategy: `Marked` says,
for each class, how the marks in its memory relate to the trades the driver counted on that day,
and one lemma per class shows that its `OnBar` keeps the relation whatever its detectors say and
however many bars are missing. `Clocked` says that the bars go forward, and `Building` the same of the longer
bar in the aggregator, which is what lets a mark of an earlier day expire. `LimitsHold`: a strategy that opens was let through by the risk gate
with no limit reached and nothing open, and one trade loses at most `MaxSize` units (`Book`); a
new day keeps the distance to the limits or restores it (`DayTurns`). Strategies in `Reversers`
may hold two trades and are not claimed. `EntriesStopInTime` is about the calendar alone: on any
calendar the gate lets no entry through in the last fifteen minutes before the enforced close of
the trading day.

**Governance** (`GovernanceProofs`), for any strategies, first tables, scripts, trades and
windows. `OrdersEntitled`: a runner's copy is executable only where the table it loaded was
(`EntitledInv`), the arbitration chooses among the candidates it is given (`WinnerIsCandidate`),
and those fit the regime. `ScoresFollow`: the runner writes a score only in the step that changes
the record or right after, scripts write other columns of the row, and what is not written is in
`unpublished`. `RestartsKeep` assumes `RowsFit`, one answer of the database holds every row (with
fewer TLC shows the newest trades forgotten, section 6): the replay keeps the last trades of a
strategy in order (`ReplayKeepsLast`), which is what `record_close` kept of them
(`ClosedKeepsRecord`). `TiersOutweigh`: the confidence in any record is at most 0.97
(`ConfidenceBounded`, from the four weights and the clipping of each term), so a record never
makes up for a tier. `TypeCorrect`: scores stay within 0..1, and `RowsExist` shows that a strategy
without a row has no record, phantom or score to write.

**Supervision** (`SupervisionProofs`). `WrongKillsBounded` assumes `Deployed`, how the deployment is
set up: a start logs two lines, the first bar closes within the grace period, and a row is fresh
again before a second probe can find it stale. It needs no bound on the faults: crashes, hangs, lost
writes and silences come as often as they like. It claims `OneWrongKillPerDrop` as long as no five
probes in a row went unanswered (`missed < BlindProbes`): an unanswered probe
neither clears nor raises the stale count, so five in a row carry a stale verdict past a fresh row
to the next old one. `WatchInv` has three parts: a log full of closed connections stands for a
lost connection nobody was killed for yet (`ZombieInv`), the rows of a calm runner are at most
three bars old (`RowsInv`), and a stale count of a calm runner is one, with its next bar due or
with nothing but unanswered probes since its last row (`StaleInv`).

Induction over data. `Run`, `Kept`, `Replayed`, `TradesOf`, `Total` and the sum of a book are
folds. The library's induction theorems cannot be instantiated here, so the proofs take the least
natural number of a set instead (`LeastNatural`, from the library's well-founded order; `UpTo` is
induction up to a number stated for a set). `FoldExists` shows that the recursive function inside
`MapThenFoldSet` exists, `FoldPrefixes` that its values on 1..0, 1..1, ... are the steps of the
fold; each operator then gets a lemma of its own (`RunPrefixes`, `KeptPrefixes`,
`TradesOfPrefixes`, `ReplayPrefixes`), and the rest follows from those. `MarketMuxProofs` and
`GovernanceProofs` each carry these lemmas, so that either can be read alone.

Only model-checked: liveness under fairness, which the prover does not handle (`SwitchObeyed`,
`ReversalUnblocks`, `ExitCompletes`, `EveryQuoteTaken`, `EveryTaskServed`, `RunnerRecovers`,
`OfflineIsAlerted`, `AlertsAreCleared`).

## 5. Not modelled, and why

- `snapshot_loop` (nothing starts it), log events other than the ones counted, rendering, the
  TUI, the audits (`scripts/v3_audit`), the views of `src/web`: no state anything decides on.
- The scheduler and the automatic bench (`scoring.py` 85-122): nothing calls them.
- The paper broker, and `runner.py` and `archive/`, which drive the retired fleet (the variants and
  classifiers they name are modelled).
- Indicators: averages, bands, ranges and volumes enter the models as verdicts or readings; the
  formulas themselves have reference tests in the repository and no state a step could leave wrong.
- The per-regime breakdowns of the tracker, the promotion gate's report.
- `MarketMux`: `stop()` (called at shutdown) and a task cancelled in the handshake's
  second, which would leave a connection behind; the trade dictionaries, twins of the quote ones. For a quote
  that names no contract the walk over the consumer lists (`projectx.py` 452-453) is one snapshot
  (`Recipients`); in the code a task may join or leave a list that is reached later.
- `V3Runtime`: the broker's account (its bracket, a double entry's second contract), heartbeat rows, and updates
  of trade rows that fail silently (`db.py` 314-337; `FilledRow`, `ErrorRow`, `BookedRow` always succeed): the
  row then stays as it was, and nothing reads it again.
- Ticks out of timestamp order (`bar_aggregator.py` 40, `v3_tick_delta.py` 145): the queue keeps
  the order, and nothing says the hub does not.
- `Supervision`: orphans of a killed wrapper and the status "unknown" of a service that never wrote a row.
- `Performance.Trade`: a live trade carries the time of its bar and the replayed one that of its row, seconds
  later, and the replayed P&L is rounded to cents; both are the same trade here.
- `PhantomBook`: a record without metadata (every strategy with an instance has it), and
  timeframes that do not divide the hour (`HourAssumption`), whose buckets start anew each hour.
- Registration of bar history at a start (`fleet_runner.py` 60-110 only where the registry and the
  tracker are concerned).

## 6. What the models show beyond the runs

Most follow from the models by changing a constant, the others from the excluded parts;
they are not kept as runs because no line of the repository promises the opposite, or because
a passing property already names them as its exception. Where a line does promise the opposite it is given.

Orders and the account:

- A bracket filled at the broker leaves the cached position standing (`drift = "filled"`); the next
  opposite signal then "reverses" a position that is gone.
- A stop that fills between the read of the positions and the closing order of a flatten (`projectx.py` 274-275)
  leaves the opposite position; the comment of the kill switch says the positions were flattened
  (`conductor.py` 334-335).
- The flat-first machine is asked only for signals against a held position: any entry passes in the cool-down
  (`conductor.py` 569-576; `flat_first.py` 64 says new orders are blocked).
- `on_re_eval_done` (`flat_first.py` 107-109) has no caller: from the second reversal on the machine starts
  from `RE_EVAL`, not from `IDLE` as its diagram says (14).
- The HTTP retry resends an order that was executed but not answered.
- After a restart a long history of operator rows delays a new activation by a
  bar per 20 rows, with entries in between; the restarted process starts with the switch off.
- The pending direction of a reversal is never used.
- Live, a strategy's force-flat flattens the account whoever opened the position.

Dry-run:

- Opposite phantoms of a reverser coexist, here and in the replay.
- In a fleet of several timeframes a longer bar that ended before a phantom's entry closes it, though brackets
  are tested "against subsequent bars" (`dry_run.py` 3-5); the deployed fleet has one timeframe, which `NoLookbackSafe` assumes.
- The kill switch and a restart empty the books without close rows (`conductor.py` 816-819), whose header
  says it logs the closes of the phantoms it maintains (12).
- A raising strategy leaves the signals before it in that bar unanswered, though
  `tests/test_conductor.py` 5-6 calls one row of answer for each an invariant.

v3:

- A failed read of `runtime_config` answers with defaults (`db.py` 387-412) instead of raising, so the refresh
  replaces a cached halt that its comment means to keep (`v3_runtime.py` 412-417).
- The bracket's stop and the engine's own stop exit both fire (`v3_runtime.py` 522); a refused exit books the trade closed; a
  lost answer leaves a position behind a `broker_error` row; a restart orphans open rows
  and positions (297). The bracket at the broker never follows the ratchet.
- The replay's session counter is reset at the first bar after 17:00 whose minute is past 08:30, that is in
  the evening, although its docstring says 08:30 each day as the live runner does (`v3_replay.py` 160-191):
  `SessionFlow` ends its comparison there.
- Entries are not refused after 14:50: such a trade is closed on the next bar. In dry run a "stop" is booked at
  the bar's close, in the replay at the stop.
- The percentile window spans sessions, and `reset()` would leave its history in place.

Governance:

- A SHADOW or BENCH strategy that wins the arbitration is not executed and leaves the executable
  one that came second without an order (`conductor.py` 543-550 accepts this).
- Registering again demotes PILOT, LIVE and even RETIRED rows to SHADOW; a promotion made on a
  stale copy can be a move `ValidTransitions` forbids, and a row written back whole overwrites what a
  script wrote since the load. `registry.py` 65 calls the conductor the only writer. `OrdersAreEntitled`
  judges by the row at the load and sees none of this.
- With more close rows than one answer of the database holds, a restart forgets the newest
  trades (`tracker.py` 250; its docstring speaks of the deque's 200 only).
- A close that a strategy asked for writes no snapshot; the score waits for the next bracket exit.
- Live closes never reach the tracker: records and scores are those of dry runs.
- Until its indicators are warm the regime engine says "ambiguous", which blocks every
  strategy; the confidence gate of 0.4 is never reached by a trending or ranging verdict.
- Hours written "... CT" never parse, so they never fit (`arbitrator.py`) and never pass (replay).
- The risk gates see constant balances in live and paper mode (`conductor.py` 130-136).

Strategies:

- The answers of the level and PULSE strategies that are neither None nor a Signal end both offline drivers.
- In a replay with hours enforced the opening range of `orb` is built from the bars it is called with.
- `overnight_drift` and `gap_fill` use up the day's chance also when the calendar or the arbitration holds
  the order back; live, nothing calls `set_levels`.
- The replay script hands `boundary` levels of the whole day at its start.

Supervision:

- The open alert that decides is the oldest, so a stale strategy that goes offline is alerted
  again on every pass, against `warden/monitors/__init__.py` 14-17.
- With the market silent heartbeats age and the watchdog restarts a healthy runner, again and again.
- After a lost connection the log's tail still convicts the next runner: one healthy runner
  is killed, because a start in dry-run mode logs two lines of activity and the watchdog asks for three.
- The watchdog's expression names strategies that are no longer deployed.
- An alert older than a day when its service comes back is outside the window the warden fetches
  (`warden/monitors/heartbeat.py` 60) and is never resolved, against its docstring (9-11).

SignalR: nothing subscribes again after the client's automatic reconnect, and a failed
request is recorded as sent; both are healed only by the next first subscriber or by the watchdog.

## 7. Plan

Done: the core (`LiveConductor`, `PhantomBook`, `V3Runtime`, `MarketMux` with their abstract
specifications and proofs), then the supervision, the governance, the strategies with both offline
drivers, and the v3 day with its proofs; then the proofs about the other modules.

The proofs cover every safety property and refinement of the runs. Next, proving: the weakest
assumptions under which the conditional ones hold (`AtMostOneLateEntry` as a bound of one entry
per poll of the backlog, `NoLookback` for the strategies of the longest timeframe of a mixed fleet),
and the steps of the liveness arguments that are invariants (a count that decreases until an exit
completes or a channel is empty).

Next, if more is modelled: failing row updates and the broker's account in `V3Runtime`, its
composition with `V3Engine` in place of `MayDecide`, the walk over the consumer lists and the trade
feed of the mux, the time of a record in `Performance`, orphaned processes in `Supervision`.
