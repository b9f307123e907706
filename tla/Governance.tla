----------------------------- MODULE Governance -----------------------------
(***************************************************************************)
(* Who may trade: the table of strategies, the operator's scripts that     *)
(* write it, and the fleet runner that reads it when it starts, feeds      *)
(* every active strategy with bars, lets one of those that fire execute,   *)
(* keeps their records and publishes their scores.  The account's position *)
(* is LiveConductor's, the phantoms' brackets are PhantomBook's.           *)
(*                                                                         *)
(* Source: src/acme/registry.py, src/acme/fleet_runner.py,                 *)
(* scripts/promote_fleet.py, scripts/register_new_fleet.py,                *)
(* src/acme/perf/, src/acme/conductor/conductor.py.                        *)
(***************************************************************************)
EXTENDS Performance, Arbitration, Regimes

CONSTANTS
  Keepers,       \* the sequence of strategies the runner builds
  Registered,    \* the sequence of those register_new_fleet.py writes
  FirstTables,   \* the tables the operator starts from: [Strategies -> States or "none"]
  Requests,      \* what the operator may ask of promote_fleet.py: [to, todo]
  RegimeEngine,  \* TRUE if the conductor is given a regime engine
  Pnls,          \* what a closed trade may earn
  Minutes,       \* the minutes of the day at which strategies fire
  RowLimit,      \* external: the rows the database returns to one query
  MaxRows,       \* bound: close rows and faults
  MaxDays,       \* bound: days
  MaxScripts,    \* bound: scripts the operator runs
  MaxStarts,     \* bound: starts of the runner
  MaxFaults      \* bound: failed writes and queries of the runner

States == {"BACKTEST", "REPLAY", "SHADOW", "PILOT", "LIVE", "BENCH", "RETIRED"}
TargetStates == {"PILOT", "LIVE", "BENCH", "SHADOW", "RETIRED"}

ASSUME GovernanceAssumption ==
  /\ \A r \in Requests : r.to \in TargetStates /\ r.todo \in Seq(Strategies) \ {<<>>}
  /\ Keepers \in Seq(Strategies) /\ Registered \in Seq(Strategies) \ {<<>>}
  /\ FirstTables \subseteq [Strategies -> States \cup {"none"}]
  /\ RegimeEngine \in BOOLEAN /\ Pnls \subseteq Int /\ Minutes \subseteq Nat
  /\ RowLimit \in Nat /\ MaxRows \in Nat /\ MaxDays \in Nat
  /\ MaxScripts \in Nat /\ MaxStarts \in Nat /\ MaxFaults \in Nat

ValidTransitions ==
  [BACKTEST |-> {"REPLAY", "RETIRED"},
   REPLAY   |-> {"SHADOW", "BACKTEST", "RETIRED"},
   SHADOW   |-> {"PILOT", "BENCH", "RETIRED"},
   PILOT    |-> {"LIVE", "BENCH", "SHADOW", "RETIRED"},
   LIVE     |-> {"BENCH", "PILOT", "RETIRED"},
   BENCH    |-> {"PILOT", "LIVE", "RETIRED"},
   RETIRED  |-> {}]

NoRow == [state |-> "none", score |-> 0]
NoRows == [s \in Strategies |-> "none"]
DefaultLifecycle == "SHADOW"

VARIABLES
  table,        \* the rows of the strategies table
  closes,       \* the dry_run_close rows, in the order of their ids
  today,
  script,       \* the operator's script: [kind, copy, todo, to]; copy: states it read
  runner,       \* "down", "loading" or "running"
  dryRun,       \* the mode this runner was started in
  registry,     \* the states in its copy of the table
  perf,         \* its trackers
  open,         \* the strategies that hold a phantom
  scripts, starts, faults,   \* how many so far
  entitled,     \* those the table let execute when this runner loaded it
  order,        \* the last order of this runner, if any: [strategy, regime]
  published,    \* the day of the last scores
  unpublished,  \* the strategies whose score was not written since a close
  lossy         \* a close row or the replay of the rows failed

vars == <<table, closes, today, script, runner, dryRun, registry, perf, open,
          scripts, starts, faults, entitled, order, published, unpublished, lossy>>
dbVars == <<table, closes>>
processVars == <<runner, dryRun, registry>>
bookVars == <<perf, open>>
bounds == <<scripts, starts>>
scoreVars == <<published, unpublished>>

Idle == [kind |-> "none", copy |-> NoRows, todo |-> <<>>, to |-> "none"]
NoOrder == [strategy |-> "none", regime |-> "none"]
MaxScore == 10000
Rows == [state : States, score : 0..MaxScore] \cup {NoRow}
Executable(state) == state \in {"PILOT", "LIVE"}
StatesOf(rows) == [s \in Strategies |-> rows[s].state]

TypeOK ==
  /\ table \in [Strategies -> Rows]
  /\ registry \in [Strategies -> States \cup {"none"}]
  /\ closes \in Seq([strategy : Strategies, pnl : Pnls, day : 0..MaxDays])
  /\ perf \in [Strategies -> Seq([pnl : Pnls, day : 0..MaxDays])]
  /\ today \in 0..MaxDays /\ published \in 0..MaxDays
  /\ script \in [kind : {"none", "promote", "register"},
                copy : [Strategies -> States \cup {"none"}], todo : Seq(Strategies),
                to : States \cup {"none"}]
  /\ runner \in {"down", "loading", "running"}
  /\ dryRun \in BOOLEAN /\ lossy \in BOOLEAN
  /\ open \subseteq Strategies /\ entitled \subseteq Strategies
  /\ unpublished \subseteq Strategies
  /\ order \in [strategy : Strategies, regime : RegimeNames] \cup {NoOrder}
  /\ scripts \in Nat /\ starts \in Nat /\ faults \in Nat

Init ==
  /\ \E first \in FirstTables : table = [s \in Strategies |-> [state |-> first[s], score |-> 0]]
  /\ closes = <<>> /\ today = 0 /\ script = Idle /\ runner = "down" /\ dryRun = TRUE
  /\ registry = NoRows /\ perf = [s \in Strategies |-> <<>>]
  /\ open = {} /\ scripts = 0 /\ starts = 0 /\ faults = 0
  /\ entitled = {} /\ order = NoOrder /\ published = 0 /\ unpublished = {} /\ lossy = FALSE

Fails(happens) ==
  /\ happens => faults < MaxFaults
  /\ faults' = IF happens THEN faults + 1 ELSE faults
-----------------------------------------------------------------------------
(* The registry. *)
IsExecutable(state) == state \in {"PILOT", "LIVE"}
IsActive(state) == state \notin {"RETIRED", "none"}

\* A row written over another one keeps the score: no column of the upsert.
Upserted_NewScore(row) == [state |-> DefaultLifecycle, score |-> 0]
Upserted(row) == [state |-> DefaultLifecycle, score |-> row.score]

ListActive == {s \in ToSet(Keepers) : IsActive(registry[s])}

SetScore(row, score) == [row EXCEPT !.score = score]

(* The scores of every strategy that has a record; what fails is skipped.  *)
Scored(regs, trackers, failing) ==
  [s \in Strategies |->
     IF trackers[s] # <<>> /\ s \notin failing
     THEN SetScore(table[s], Confidence(trackers[s], today, regs[s]))
     ELSE table[s]]

WriteSnapshot(trackers, mayFail) ==
  \E failing \in SUBSET {s \in Strategies : mayFail /\ trackers[s] # <<>>} :
    /\ Fails(failing # {} \/ ~mayFail)
    /\ table' = Scored(registry, trackers, failing)
    /\ published' = today
    /\ unpublished' = failing

NotSnapshot(stale) ==
  unpublished' = unpublished \cup stale /\ UNCHANGED <<table, published>>
-----------------------------------------------------------------------------
(* The operator, who runs one script after another. *)
StartScript ==
  /\ script = Idle /\ scripts < MaxScripts /\ scripts' = scripts + 1
  /\ \/ \E r \in Requests :
          script' = [kind |-> "promote", copy |-> StatesOf(table), todo |-> r.todo, to |-> r.to]
     \/ script' = [kind |-> "register", copy |-> NoRows, todo |-> Registered,
                   to |-> DefaultLifecycle]
  /\ UNCHANGED <<dbVars, today, processVars, bookVars, starts, faults,
                 entitled, order, scoreVars, lossy>>

Advance(next) == script' = IF next.todo = <<>> THEN Idle ELSE next
Moves(s) == script.copy[s] # "none" /\ script.to \in ValidTransitions[script.copy[s]]

\* A strategy that is missing, already there or may not move is skipped;
\* a write that raises ends the script.
PromoteNext ==
  /\ script.kind = "promote"
  /\ LET s == Head(script.todo)
         rest == [script EXCEPT !.todo = Tail(@), !.copy[s] = script.to]
     IN  \/ /\ ~Moves(s) /\ Advance([script EXCEPT !.todo = Tail(@)])
            /\ UNCHANGED table
         \/ /\ Moves(s) /\ Advance(rest)
            /\ table' = [table EXCEPT ![s].state = script.to]
         \/ Moves(s) /\ script' = Idle /\ UNCHANGED table
  /\ UNCHANGED <<closes, today, processVars, bookVars, bounds, faults,
                 entitled, order, scoreVars, lossy>>

RegisterNext ==
  /\ script.kind = "register"
  /\ LET s == Head(script.todo)
     IN  \/ /\ table' = [table EXCEPT ![s] = Upserted(@)]
            /\ Advance([script EXCEPT !.todo = Tail(@)])
         \/ script' = Idle /\ UNCHANGED table
  /\ UNCHANGED <<closes, today, processVars, bookVars, bounds, faults,
                 entitled, order, scoreVars, lossy>>
-----------------------------------------------------------------------------
(* The runner's start: load the table, insert the rows that are missing,   *)
(* attach the strategies, replay the close rows.                           *)
LoadRegistry ==
  /\ runner = "down" /\ starts < MaxStarts /\ starts' = starts + 1
  /\ runner' = "loading" /\ registry' = StatesOf(table) /\ dryRun' \in BOOLEAN
  /\ entitled' = {s \in Strategies : Executable(table[s].state)}
  /\ UNCHANGED <<dbVars, today, script, bookVars, scripts, faults, order, scoreVars, lossy>>

\* The first strategy without a row, 0 if there is none.
Absent == SelectInSeq(Keepers, LAMBDA s : registry[s] = "none")

UpsertMissing ==
  /\ runner = "loading" /\ Absent # 0
  /\ LET s == Keepers[Absent]
     IN  /\ registry' = [registry EXCEPT ![s] = DefaultLifecycle]
         /\ table' = [table EXCEPT ![s] = Upserted(@)]
  /\ UNCHANGED <<closes, today, script, runner, dryRun, bookVars, bounds, faults,
                 entitled, order, scoreVars, lossy>>

Backfill ==
  /\ runner = "loading" /\ Absent = 0 /\ runner' = "running"
  /\ \E failed \in BOOLEAN :
       /\ lossy' = (lossy \/ failed)
       /\ perf' = [s \in Strategies |->
                     IF failed THEN <<>> ELSE Replayed(closes, RowLimit, s)]
       /\ \/ (failed \/ closes = <<>>) /\ Fails(failed) /\ NotSnapshot({})
          \/ ~failed /\ closes # <<>> /\ WriteSnapshot(perf', TRUE)
  /\ UNCHANGED <<closes, today, script, dryRun, registry, open, bounds,
                 entitled, order>>

\* The process dies, or its stream ends and it tries again: its memory is gone.
Stop ==
  /\ runner # "down" /\ runner' = "down" /\ registry' = NoRows /\ dryRun' = TRUE
  /\ perf' = [s \in Strategies |-> <<>>] /\ open' = {}
  /\ entitled' = {} /\ order' = NoOrder /\ unpublished' = {}
  /\ lossy' = FALSE
  /\ UNCHANGED <<dbVars, today, script, bounds, faults, published>>
-----------------------------------------------------------------------------
(* A phantom of s is closed: the row, whose insert may fail, and the record. *)
Closed(s, pnl, lost) ==
  /\ open' = open \ {s}
  /\ closes' = IF lost THEN closes
               ELSE Append(closes, [strategy |-> s, pnl |-> pnl, day |-> today])
  /\ perf' = [perf EXCEPT ![s] = Record(@, [pnl |-> pnl, day |-> today])]
  /\ lossy' = (lossy \/ lost)

BracketExit ==
  /\ runner = "running" /\ dryRun /\ Len(closes) + faults < MaxRows
  /\ \E s \in open, pnl \in Pnls, lost \in BOOLEAN :
       Closed(s, pnl, lost) /\ WriteSnapshot(perf', ~lost)
  /\ UNCHANGED <<today, script, processVars, bounds, entitled, order>>

\* A strategy asks to be flat.  No snapshot is written.
ForceFlat ==
  /\ runner = "running" /\ dryRun /\ Len(closes) + faults < MaxRows
  /\ \E s \in open, pnl \in Pnls, lost \in BOOLEAN :
       Fails(lost) /\ Closed(s, pnl, lost) /\ NotSnapshot({s})
  /\ UNCHANGED <<today, script, processVars, bounds, entitled, order>>

(* The regime of the latest bar of the engine's timeframe, any that its    *)
(* readings may give; none before the first one or without an engine.      *)
InForce == IF RegimeEngine THEN Snapshots \cup {NoRegime} ELSE {NoRegime}
Eligible(snapshot) ==
  IF RegimeBlocks(snapshot) THEN {} ELSE EligibleStrategies(ListActive, Fits, snapshot)
Confidences == [s \in Strategies |-> Confidence(perf[s], today, registry[s])]

\* In dry-run mode everyone who fires opens a phantom, while the calendar
\* allows it.
PhantomSignals ==
  /\ runner = "running" /\ dryRun
  /\ \E snapshot \in InForce : \E fired \in (SUBSET Eligible(snapshot)) \ {{}} :
       open' = open \cup fired
  /\ UNCHANGED <<dbVars, today, script, processVars, perf, bounds, faults,
                 entitled, order, scoreVars, lossy>>

(* Live, the winner alone is looked at: one that may not execute leaves    *)
(* the others without an order too.  A refused size, the calendar and the  *)
(* flat-first machine may hold the order back: then nothing happens here.  *)
LiveSignals ==
  /\ runner = "running" /\ ~dryRun
  /\ \E snapshot \in InForce, now \in Minutes :
       \E fired \in (SUBSET Eligible(snapshot)) \ {{}} :
         LET winner == Arbitrate(fired, now, Confidences)
         IN  /\ IsExecutable(registry[winner])
             /\ order' = [strategy |-> winner, regime |-> snapshot.regime]
  /\ UNCHANGED <<dbVars, today, script, processVars, bookVars, bounds, faults,
                 entitled, scoreVars, lossy>>

NewDay ==
  /\ script = Idle /\ today < MaxDays /\ today' = today + 1
  /\ UNCHANGED <<dbVars, script, processVars, bookVars, bounds, faults,
                 entitled, order, scoreVars, lossy>>
-----------------------------------------------------------------------------
Next ==
  \/ StartScript \/ PromoteNext \/ RegisterNext
  \/ LoadRegistry \/ UpsertMissing \/ Backfill \/ Stop
  \/ BracketExit \/ ForceFlat \/ PhantomSignals \/ LiveSignals \/ NewDay

Spec == Init /\ [][Next]_vars
-----------------------------------------------------------------------------
(* An order is for a strategy that the table let execute when the process  *)
(* loaded it, whatever rows were missing, registered, promoted or demoted  *)
(* meanwhile, and was sent in a regime that is the strategy's habitat.     *)
(* Code: _build_registry, _process_bar, eligible_strategies.               *)
OrdersAreEntitled ==
  order # NoOrder =>
    /\ order.strategy \in entitled
    /\ order.regime # "none" => Fits[order.strategy][order.regime] >= 70

(* The trades a runner has on record are the last ones in the table of     *)
(* events, so that a restart between any two closes, forced or not,        *)
(* changes no strategy's record, unless a row or the replay was lost.      *)
(* Code: record_close next to log_event, backfill_from_db.                 *)
RestartKeepsRecord ==
  runner = "running" /\ ~lossy =>
    \A s \in Strategies : perf[s] = LastOf(MaxTrades, TradesOf(closes, s))

(* The score in the table is the confidence of the runner's record in the  *)
(* runner's lifecycle state, whatever scripts wrote the row since; only a  *)
(* close that a strategy asked for, or a failed write, leaves it behind    *)
(* until the next bracket exit of any strategy.                            *)
(* Code: write_snapshot, set_score, upsert.                                *)
ScoresFollowRecords ==
  runner = "running" =>
    \A s \in Strategies \ unpublished :
      perf[s] # <<>> =>
        table[s].score = Confidence(perf[s], published, registry[s])

(* However well a strategy of a lower tier did and however badly one of a  *)
(* higher tier, the higher tier wins where habitat and hours fit alike.    *)
(* Code: the weights of _composite_score and compute_confidence.           *)
TierOutweighsRecord ==
  \A s, t \in ListActive :
    TierWeight(Tier[s]) > TierWeight(Tier[t]) =>
      TrackRecordShare(s, Confidences[s]) > TrackRecordShare(t, Confidences[t])
=============================================================================
