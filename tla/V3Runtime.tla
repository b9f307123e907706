----------------------------- MODULE V3Runtime -----------------------------
(***************************************************************************)
(* The stand-alone runtime of one Ryan-Spec v3 variant with a real broker  *)
(* (not dry_run).  A closed bar asks the engine synchronously and hands    *)
(* its decision to a task of its own; the task opens or closes the trade   *)
(* and awaits the broker in the middle.  Meanwhile bars may close, fill    *)
(* events arrive in another task, the operator edits runtime_config, and   *)
(* the broker executes, refuses, or forgets to answer.                     *)
(*                                                                         *)
(* Source: src/acme/ryan_spec/v3_runtime.py, v3_engine.py; the table       *)
(* wrappers of src/acme/db.py never raise.  Long and short trades take the *)
(* same path, and prices are only told apart as the decision's and the     *)
(* broker's.                                                               *)
(***************************************************************************)
EXTENDS Integers, Sequences, FiniteSets

CONSTANTS
  Threshold,    \* max_consecutive_errors
  MaxTasks,     \* decisions dispatched and not finished at the same time
  Faults,       \* what may go wrong outside the runtime
  MaxRows,      \* bound: rows of ryan_spec_v3_trades
  MaxRestarts   \* bound: process restarts

FaultKinds == {"reject",            \* an order is refused, the call raises
               "lostReply",         \* an order is executed, the call raises
               "insertFails",       \* no row id is returned
               "pauseWriteFails",   \* set_runtime_paused swallows an error
               "configReadFails",   \* read_runtime_config returns defaults
               "restart"}

ASSUME ConstantsAssumption ==
  /\ Threshold \in Nat \ {0}
  /\ MaxTasks \in Nat \ {0}
  /\ Faults \subseteq FaultKinds
  /\ MaxRows \in Nat \ {0} /\ MaxRestarts \in Nat

VARIABLES
  engine,      \* engine._position is not None
  openId,      \* self._open_trade_id, 0 for None
  todo,        \* decisions handed to create_task and not started
  calls,       \* tasks that await submit_market_order
  pendingIn,   \* self._pending_entry_fills: rows whose entry fill is awaited
  pendingOut,  \* self._pending_exit_fills: rows and the entry they captured
  errors,      \* self._consecutive_errors
  paused,      \* self._config_cache["paused"]
  fresh,       \* the cache is younger than CONFIG_CACHE_TTL_SECONDS
  \* outside the process
  dbPaused,    \* runtime_config.paused
  rows,        \* ryan_spec_v3_trades; the id is the index
  fills,       \* fill events on their way
  restarts,
  \* observation only
  boot,        \* rows inserted by earlier processes
  halted,      \* the runtime halted itself and nobody unpaused it since
  streak,      \* failed entries since a success, an unpause or a start
  dropped,     \* rows the runtime stopped tracking while they were open
  overlapped   \* this process sent an order while it awaited another

trade == <<engine, openId, pendingIn, pendingOut, rows>>
breaker == <<errors, paused, fresh, dbPaused, halted, streak>>
process == <<restarts, boot>>
history == <<dropped, overlapped>>
vars == <<trade, todo, calls, breaker, fills, process, history>>
-----------------------------------------------------------------------------
Tasks == 1..MaxTasks
Legs == {"in", "out"}
Entries == {"model", "real"}       \* the decision's price, the broker's fill

\* `meta' is the entry price of self._open_position_meta while the row is open.
Trade == [entry : Entries, meta : Entries,
          exit : {"none", "error", "bar", "fill"},
          pnl : Entries \cup {"none"}]
NewTrade == [entry |-> "model", meta |-> "model", exit |-> "none", pnl |-> "none"]

\* Awaited orders, captured entries and fill events of the first n rows.
CallsTo(n) == [task : Tasks, leg : Legs, row : 1..n, done : BOOLEAN]
ExitsTo(n) == [row : 1..n, entry : Entries]
FillsTo(n) == [leg : Legs, row : 1..n]

Decisions == {"enter", "exit"}

TradeTypes ==
  /\ rows \in Seq(Trade) /\ Len(rows) <= MaxRows
  /\ openId \in 0..Len(rows)
  /\ todo \in Seq(Decisions)
  /\ calls \subseteq CallsTo(Len(rows))
  /\ pendingIn \subseteq 1..Len(rows)
  /\ pendingOut \subseteq ExitsTo(Len(rows))
  /\ fills \in Seq(FillsTo(Len(rows)))
  /\ dropped \subseteq 1..Len(rows)

Counters ==
  /\ errors \in Nat /\ streak \in Nat
  /\ restarts \in Nat /\ boot \in 0..Len(rows)

Flags ==
  /\ paused \in BOOLEAN /\ fresh \in BOOLEAN /\ dbPaused \in BOOLEAN
  /\ engine \in BOOLEAN /\ halted \in BOOLEAN /\ overlapped \in BOOLEAN

TypeOK == TradeTypes /\ Counters /\ Flags

Init ==
  /\ engine = FALSE /\ openId = 0 /\ todo = <<>> /\ calls = {}
  /\ pendingIn = {} /\ pendingOut = {} /\ rows = <<>>
  /\ errors = 0 /\ paused = FALSE /\ fresh = TRUE /\ dbPaused = FALSE
  /\ fills = <<>>
  /\ restarts = 0 /\ boot = 0
  /\ halted = FALSE /\ streak = 0
  /\ dropped = {} /\ overlapped = FALSE
-----------------------------------------------------------------------------
(* A bar closes: the engine decides from its own position, and a decision  *)
(* other than "none" is handed to a new task.                              *)

MayDecide(decision) == (decision = "exit") <=> engine

ClosedBar(decision) ==
  /\ Len(todo) + Cardinality(calls) < MaxTasks
  /\ MayDecide(decision)
  /\ todo' = Append(todo, decision)
  /\ UNCHANGED <<trade, calls, breaker, fills, process, history>>
-----------------------------------------------------------------------------
(* _dispatch_decision, up to its first await.                              *)

\* What _refresh_config may leave in the cache.  read_runtime_config answers
\* a failed query with its defaults, as if it had succeeded.
ConfigRead == {dbPaused} \cup (IF "configReadFails" \in Faults THEN {FALSE} ELSE {})
Refreshed == IF fresh THEN {paused} ELSE ConfigRead

\* An entry starts from no open trade, an exit from an open one.
Starts(d) == (d = "enter") <=> (openId = 0)

PauseChecked_Always(d) == TRUE
PauseChecked(d) == d = "enter"

\* The decision comes too late for the open trade, or entries are paused.
Skipped ==
  /\ todo # <<>> /\ todo' = Tail(todo)
  /\ \/ ~Starts(Head(todo)) /\ UNCHANGED <<paused, fresh>>
     \/ /\ Starts(Head(todo)) /\ PauseChecked(Head(todo))
        /\ paused' \in Refreshed /\ paused' /\ fresh' = TRUE
  /\ UNCHANGED <<trade, calls, errors, dbPaused, halted, streak, fills,
                 process, history>>

Submit(leg, row) ==
  \E t \in Tasks :
    /\ \A c \in calls : c.task # t
    /\ calls' = calls \cup {[task |-> t, leg |-> leg, row |-> row, done |-> FALSE]}
    /\ overlapped' = (overlapped \/ calls # {})

\* _open: insert the row, then send the entry with its bracket.
OpenTrade ==
  /\ todo # <<>> /\ Head(todo) = "enter" /\ Starts(Head(todo))
  /\ todo' = Tail(todo)
  /\ paused' \in Refreshed /\ ~paused' /\ fresh' = TRUE
  /\ Len(rows) < MaxRows
  /\ rows' = Append(rows, NewTrade)
  /\ Submit("in", Len(rows) + 1)
  /\ UNCHANGED <<engine, openId, pendingIn, pendingOut, errors, dbPaused, halted,
                 streak, fills, process, dropped>>

\* ... or give up: without a row no order is sent.
InsertFails ==
  /\ "insertFails" \in Faults
  /\ todo # <<>> /\ Head(todo) = "enter" /\ Starts(Head(todo))
  /\ todo' = Tail(todo)
  /\ paused' \in Refreshed /\ ~paused' /\ fresh' = TRUE
  /\ UNCHANGED <<trade, calls, errors, dbPaused, halted, streak, fills,
                 process, history>>

\* _close: send the opposite order, whatever the pause says.
CloseTrade ==
  /\ todo # <<>> /\ Head(todo) = "exit" /\ Starts(Head(todo))
  /\ ~(PauseChecked(Head(todo)) /\ paused)
  /\ todo' = Tail(todo)
  /\ Submit("out", openId)
  /\ UNCHANGED <<trade, breaker, fills, process, dropped>>
-----------------------------------------------------------------------------
(* Answers to submit_market_order and what follows the await.              *)

\* Open trades that lose their place when another row's order is answered.
Displaced(row) == {openId} \ {0, row}

\* The order is refused, or its answer is lost.
Raises(c) == \/ "reject" \in Faults /\ ~c.done
             \/ "lostReply" \in Faults /\ c.done

Opened(c) ==
  /\ c.leg = "in" /\ c.done
  /\ calls' = calls \ {c}
  /\ errors' = 0 /\ streak' = 0
  /\ pendingIn' = pendingIn \cup {c.row}
  /\ openId' = c.row /\ engine' = TRUE
  /\ dropped' = dropped \cup Displaced(c.row)
  /\ UNCHANGED <<todo, pendingOut, rows, paused, fresh, dbPaused, halted, fills,
                 process, overlapped>>

\* _maybe_self_halt: pause in the table, best effort, and in the cache.
Crossed_OneLate(n) == n > Threshold
Crossed(n) == n >= Threshold

WrittenPause_CacheOnly == {dbPaused}
WrittenPause == {TRUE} \cup (IF "pauseWriteFails" \in Faults THEN {dbPaused} ELSE {})

MaybeSelfHalt ==
  IF Crossed(errors')
  THEN /\ dbPaused' \in WrittenPause
       /\ paused' = TRUE /\ fresh' = TRUE /\ halted' = TRUE
  ELSE UNCHANGED <<dbPaused, paused, fresh, halted>>

ErrorRow_Kept(r) == rows
ErrorRow(r) == [rows EXCEPT ![r].exit = "error"]

OpenFails(c) ==
  /\ c.leg = "in" /\ Raises(c)
  /\ calls' = calls \ {c}
  /\ rows' = ErrorRow(c.row)
  /\ errors' = errors + 1 /\ streak' = streak + 1
  /\ MaybeSelfHalt
  /\ UNCHANGED <<todo, engine, openId, pendingIn, pendingOut, fills, process,
                 history>>

BookedRow(t, exit, basis) == [t EXCEPT !.exit = exit, !.pnl = basis]

\* The trade is booked at the bar's close and forgotten, even if the order
\* failed; an accepted order's fill is awaited with the entry known now.
Booked(c) ==
  /\ c.leg = "out"
  /\ calls' = calls \ {c}
  /\ rows' = [rows EXCEPT ![c.row] = BookedRow(@, "bar", @.meta)]
  /\ engine' = FALSE /\ openId' = 0
  /\ dropped' = dropped \cup Displaced(c.row)
  /\ UNCHANGED <<todo, pendingIn, breaker, fills, process, overlapped>>

Closed(c) ==
  /\ c.done
  /\ Booked(c)
  /\ pendingOut' = pendingOut \cup {[row |-> c.row, entry |-> rows[c.row].meta]}

CloseFails(c) ==
  /\ Raises(c)
  /\ Booked(c)
  /\ UNCHANGED pendingOut
-----------------------------------------------------------------------------
(* _process_user_event: a fill is attributed to a pending order of its     *)
(* row and leg; without one the event is dropped.                          *)

PatchesMeta_AnyOpen(row, filled) == row = openId
PatchesMeta(row, filled) == row = filled /\ row = openId

FilledRow(r, filled) ==
  [rows[r] EXCEPT !.entry = IF r = filled THEN "real" ELSE @,
                  !.meta = IF PatchesMeta(r, filled) THEN "real" ELSE @]

EntryFill(f) ==
  /\ f.leg = "in" /\ f.row \in pendingIn
  /\ pendingIn' = pendingIn \ {f.row}
  /\ rows' = [r \in DOMAIN rows |-> FilledRow(r, f.row)]
  /\ UNCHANGED pendingOut

ExitFill(f) ==
  /\ f.leg = "out"
  /\ \E p \in pendingOut :
       /\ p.row = f.row
       /\ pendingOut' = pendingOut \ {p}
       /\ rows' = [rows EXCEPT ![f.row] = BookedRow(@, "fill", p.entry)]
  /\ UNCHANGED pendingIn

Unknown(f) ==
  /\ f.leg = "in" => f.row \notin pendingIn
  /\ f.leg = "out" => \A p \in pendingOut : p.row # f.row
  /\ UNCHANGED <<rows, pendingIn, pendingOut>>

UserEvent ==
  /\ fills # <<>> /\ fills' = Tail(fills)
  /\ EntryFill(Head(fills)) \/ ExitFill(Head(fills)) \/ Unknown(Head(fills))
  /\ UNCHANGED <<engine, openId, todo, calls, breaker, process, history>>
-----------------------------------------------------------------------------
(* The world outside the process.                                          *)

\* The broker fills the market order and announces it.
Executed(c) ==
  /\ ~c.done
  /\ calls' = (calls \ {c}) \cup {[c EXCEPT !.done = TRUE]}
  /\ fills' = Append(fills, [leg |-> c.leg, row |-> c.row])
  /\ UNCHANGED <<trade, todo, breaker, process, history>>

\* Thirty seconds pass since the last refresh.
CacheExpires ==
  /\ fresh /\ fresh' = FALSE
  /\ UNCHANGED <<trade, todo, calls, errors, paused, dbPaused, halted, streak,
                 fills, process, history>>

Operator(pause) ==
  /\ dbPaused' = pause
  /\ halted' = (halted /\ pause)
  /\ streak' = IF pause THEN streak ELSE 0
  /\ UNCHANGED <<trade, todo, calls, errors, paused, fresh, fills, process,
                 history>>

\* The process dies and run() starts again: it forces a refresh of the cache
\* and takes nothing over from the broker or from the open rows.
Restart ==
  /\ "restart" \in Faults /\ restarts < MaxRestarts
  /\ restarts' = restarts + 1 /\ boot' = Len(rows)
  /\ engine' = FALSE /\ openId' = 0 /\ todo' = <<>> /\ calls' = {}
  /\ pendingIn' = {} /\ pendingOut' = {} /\ fills' = <<>>
  /\ errors' = 0 /\ streak' = 0
  /\ paused' \in ConfigRead /\ fresh' = TRUE
  /\ dropped' = {} /\ overlapped' = FALSE
  /\ UNCHANGED <<rows, dbPaused, halted>>
-----------------------------------------------------------------------------
Dispatch == Skipped \/ OpenTrade \/ InsertFails \/ CloseTrade
Answer(t) == \E c \in calls :
  c.task = t /\ (Opened(c) \/ OpenFails(c) \/ Closed(c) \/ CloseFails(c))
Executes(t) == \E c \in calls : c.task = t /\ Executed(c)

Next ==
  \/ \E decision \in Decisions : ClosedBar(decision)
  \/ Dispatch
  \/ \E t \in Tasks : Answer(t)
  \/ UserEvent
  \/ \E t \in Tasks : Executes(t)
  \/ CacheExpires
  \/ \E pause \in BOOLEAN : Operator(pause)
  \/ Restart

Spec == Init /\ [][Next]_vars

(* The event loop runs every task it holds, and each order is executed or  *)
(* refused and its call answered: the HTTP client times out.               *)
Fairness == /\ WF_vars(Dispatch)
            /\ \A t \in Tasks : WF_vars(Executes(t)) /\ WF_vars(Answer(t))
FairSpec == Spec /\ Fairness
-----------------------------------------------------------------------------
(* Properties.                                                             *)

\* Once the runtime has halted itself, no entry is sent until the operator
\* unpauses, across cache refreshes and restarts (v3_runtime.py 419-442).
HaltHolds ==
  [][halted => \A c \in calls' \ calls : c.leg = "in" => c.done]_vars

\* The circuit breaker opens in time: at most max_consecutive_errors entries
\* fail in a row, and, in a process that has had several orders under way at
\* once, those that other tasks already awaited when it opened
\* (v3_runtime.py 424-430, 538-544).
FailuresBounded ==
  streak <= Threshold + (IF overlapped THEN MaxTasks - 1 ELSE 0)

\* Every row this process inserted is the open trade, is being opened, has an
\* exit reason, or lost its place to another order's answer; and that takes
\* two orders under way at once.  No row is left open by a refused, lost or
\* late order alone (v3_runtime.py 466, 537-543, 580, 755-782).
TradesSettled ==
  /\ \A r \in boot + 1 .. Len(rows) :
       rows[r].exit = "none" => \/ r = openId \/ r \in dropped
                                \/ \E c \in calls : c.row = r /\ c.leg = "in"
  /\ dropped # {} => overlapped

\* What the operators' scripts say of the rows: while a variant reports a
\* position, each of its open rows is that position; an open row is an orphan
\* only when the variant reports flat
\* (scripts/cleanup_orphan_v3_trades_general.py 70, force_flatten_v3.py 8-10).
OrphanMeansFlat ==
  openId # 0 => \A r \in boot + 1 .. Len(rows) :
                  rows[r].exit = "none" => \/ r = openId
                                           \/ \E c \in calls : c.row = r

\* While a trade is open its P&L basis is the entry its row shows, and no
\* booked P&L uses a fill its row does not show: a late fill of one trade
\* never becomes the basis of another (v3_runtime.py 660-681).
BasisIsRecordedEntry ==
  /\ openId # 0 => rows[openId].meta = rows[openId].entry
  /\ \A r \in DOMAIN rows : rows[r].pnl = "real" => rows[r].entry = "real"

\* An exit decision closes the trade although entries are paused, orders fail
\* and answers are lost (v3_runtime.py 467-476; 755-782).
ExitCompletes ==
  (\E i \in DOMAIN todo : todo[i] = "exit") ~> openId = 0
=============================================================================
