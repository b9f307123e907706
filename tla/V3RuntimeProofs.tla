-------------------------- MODULE V3RuntimeProofs --------------------------
(***************************************************************************)
(* Theorems about V3Runtime and their proofs.  Nothing bounds the number   *)
(* of rows, restarts, errors or decisions under way at the same time.      *)
(***************************************************************************)
EXTENDS V3Runtime, FiniteSetTheorems, TLAPS

\* Members of the typed sets, so that no proof below opens them.
LEMMA Members ==
  ASSUME TypeOK
  PROVE  /\ Len(rows) \in Nat /\ DOMAIN rows = 1..Len(rows)
         /\ \A r \in 1..Len(rows) :
              /\ rows[r] \in Trade
              /\ rows[r].meta \in Entries /\ rows[r].entry \in Entries
         /\ \A c \in calls : c.row \in 1..Len(rows) /\ c.leg \in Legs
                              /\ c.task \in Tasks /\ c.done \in BOOLEAN
         /\ \A p \in pendingOut : p.row \in 1..Len(rows) /\ p.entry \in Entries
<1>1. rows \in Seq(Trade) /\ calls \subseteq CallsTo(Len(rows))
      /\ pendingOut \subseteq ExitsTo(Len(rows))
  BY DEF TypeOK, TradeTypes
<1>2. \A t \in Trade : t.meta \in Entries /\ t.entry \in Entries
  BY DEF Trade
<1>3. \A c \in CallsTo(Len(rows)) : c.row \in 1..Len(rows) /\ c.leg \in Legs
                                   /\ c.task \in Tasks /\ c.done \in BOOLEAN
  BY DEF CallsTo
<1>4. \A p \in ExitsTo(Len(rows)) : p.row \in 1..Len(rows) /\ p.entry \in Entries
  BY DEF ExitsTo
<1>5. Len(rows) \in Nat /\ DOMAIN rows = 1..Len(rows)
      /\ \A r \in 1..Len(rows) : rows[r] \in Trade
  BY <1>1
<1> QED BY <1>1, <1>2, <1>3, <1>4, <1>5

\* More rows, larger types.
LEMMA Grows ==
  ASSUME NEW n \in Nat, NEW k \in Nat, n <= k
  PROVE  /\ CallsTo(n) \subseteq CallsTo(k)
         /\ ExitsTo(n) \subseteq ExitsTo(k)
         /\ FillsTo(n) \subseteq FillsTo(k)
BY DEF CallsTo, ExitsTo, FillsTo

\* A new trade is one more row.
LEMMA AppendRow ==
  ASSUME TypeOK, rows' = Append(rows, NewTrade)
  PROVE  /\ rows' \in Seq(Trade)
         /\ Len(rows') = Len(rows) + 1
         /\ \A r \in 1..Len(rows) : rows'[r] = rows[r]
         /\ rows'[Len(rows) + 1] = NewTrade
<1>1. NewTrade \in Trade
  BY DEF NewTrade, Trade, Entries
<1>2. rows \in Seq(Trade)
  BY DEF TypeOK, TradeTypes
<1> QED BY <1>1, <1>2

\* Every way a row is patched keeps it a row.
LEMMA PatchedRow ==
  ASSUME NEW t \in Trade, NEW p \in Entries
  PROVE  /\ [t EXCEPT !.exit = "error"] \in Trade
         /\ BookedRow(t, "bar", p) \in Trade
         /\ BookedRow(t, "fill", p) \in Trade
BY DEF Trade, Entries, BookedRow

\* A fill changes the entry of its own row, and its basis if it is open.
LEMMA FilledRows ==
  ASSUME TypeOK, NEW filled, rows' = [r \in DOMAIN rows |-> FilledRow(r, filled)]
  PROVE  /\ rows' \in Seq(Trade) /\ Len(rows') = Len(rows)
         /\ \A r \in 1..Len(rows) :
              /\ rows'[r].exit = rows[r].exit
              /\ rows'[r].pnl = rows[r].pnl
              /\ rows'[r].entry = IF r = filled THEN "real" ELSE rows[r].entry
              /\ rows'[r].meta = IF r = filled /\ r = openId THEN "real"
                                ELSE rows[r].meta
<1>1. \A r \in 1..Len(rows) :
        /\ FilledRow(r, filled) \in Trade
        /\ FilledRow(r, filled).exit = rows[r].exit
        /\ FilledRow(r, filled).pnl = rows[r].pnl
        /\ FilledRow(r, filled).entry = IF r = filled THEN "real" ELSE rows[r].entry
        /\ FilledRow(r, filled).meta = IF r = filled /\ r = openId THEN "real"
                                      ELSE rows[r].meta
  BY Members DEF FilledRow, PatchesMeta, Trade, Entries
<1>2. rows' \in [1..Len(rows) -> Trade]
  BY <1>1, Members
<1>3. rows' \in Seq(Trade) /\ Len(rows') = Len(rows)
  BY <1>2, Members
<1> QED BY <1>1, <1>2, <1>3, Members

\* A patched row changes no other.
LEMMA PatchRows ==
  ASSUME TypeOK, NEW r \in 1..Len(rows), NEW t \in Trade,
         rows' = [rows EXCEPT ![r] = t]
  PROVE  /\ rows' \in Seq(Trade) /\ Len(rows') = Len(rows)
         /\ rows'[r] = t
         /\ \A x \in 1..Len(rows) \ {r} : rows'[x] = rows[x]
<1>1. rows \in Seq(Trade)
  BY DEF TypeOK, TradeTypes
<1> QED BY <1>1

\* A submitted order is awaited by a task of its own.
LEMMA Submitted ==
  ASSUME NEW leg, NEW row, Submit(leg, row)
  PROVE  \E t \in Tasks :
           /\ \A c \in calls : c.task # t
           /\ calls' = calls \cup {[task |-> t, leg |-> leg, row |-> row,
                                   done |-> FALSE]}
           /\ overlapped' = (overlapped \/ calls # {})
BY DEF Submit

\* The order e is sent, by a task of its own.
Sends(e, leg, row) ==
  /\ e.leg = leg /\ e.row = row
  /\ \A c \in calls : c.task # e.task
  /\ calls' = calls \cup {e}
  /\ overlapped' = (overlapped \/ calls # {})

\* An entry is sent for the new row, an exit for the open one.
LEMMA Sent ==
  ASSUME NEW leg, NEW row, Submit(leg, row)
  PROVE  \E e : Sends(e, leg, row)
<1>1. PICK t \in Tasks :
        /\ \A c \in calls : c.task # t
        /\ calls' = calls \cup {[task |-> t, leg |-> leg, row |-> row,
                                done |-> FALSE]}
        /\ overlapped' = (overlapped \/ calls # {})
  BY Submitted
<1> DEFINE e == [task |-> t, leg |-> leg, row |-> row, done |-> FALSE]
<1>2. e.leg = leg /\ e.row = row /\ e.task = t
  OBVIOUS
<1>3. calls' = calls \cup {e}
  BY <1>1
<1> HIDE DEF e
<1>4. Sends(e, leg, row)
  BY <1>1, <1>2, <1>3 DEF Sends
<1> QED BY <1>4

LEMMA EntrySent ==
  ASSUME OpenTrade
  PROVE  \E e : Sends(e, "in", Len(rows) + 1)
<1>1. Submit("in", Len(rows) + 1)
  BY DEF OpenTrade
<1> QED BY <1>1, Sent

LEMMA ExitSent ==
  ASSUME CloseTrade
  PROVE  \E e : Sends(e, "out", openId)
<1>1. Submit("out", openId)
  BY DEF CloseTrade
<1> QED BY <1>1, Sent

\* The flags stay Boolean whatever happens.
LEMMA FlagsStay ==
  ASSUME TypeOK, [Next]_vars
  PROVE  Flags'
<1> USE DEF TypeOK, Flags
<1>1. ASSUME NEW decision \in Decisions, ClosedBar(decision)
      PROVE  Flags'
  BY <1>1 DEF ClosedBar, breaker, trade, history
<1>2. CASE Skipped \/ InsertFails
  BY <1>2 DEF Skipped, InsertFails, Refreshed, ConfigRead, trade, history
<1>3. CASE OpenTrade
  <2>1. overlapped' = (overlapped \/ calls # {})
    BY <1>3, Submitted DEF OpenTrade
  <2> QED BY <1>3, <2>1 DEF OpenTrade, Refreshed, ConfigRead
<1>4. CASE CloseTrade
  <2>1. overlapped' = (overlapped \/ calls # {})
    BY <1>4, Submitted DEF CloseTrade
  <2> QED BY <1>4, <2>1 DEF CloseTrade, breaker, trade
<1>5. ASSUME NEW c \in calls, Opened(c) PROVE Flags'
  BY <1>5 DEF Opened
<1>6. ASSUME NEW c \in calls, OpenFails(c) PROVE Flags'
  BY <1>6 DEF OpenFails, MaybeSelfHalt, WrittenPause, history
<1>7. ASSUME NEW c \in calls, Closed(c) \/ CloseFails(c) PROVE Flags'
  BY <1>7 DEF Closed, CloseFails, Booked, breaker
<1>8. CASE UserEvent
  BY <1>8 DEF UserEvent, breaker, history
<1>9. ASSUME NEW c \in calls, Executed(c) PROVE Flags'
  BY <1>9 DEF Executed, breaker, trade, history
<1>10. CASE CacheExpires
  BY <1>10 DEF CacheExpires, trade, history
<1>11. ASSUME NEW pause \in BOOLEAN, Operator(pause) PROVE Flags'
  BY <1>11 DEF Operator, trade, history
<1>12. CASE Restart
  BY <1>12 DEF Restart, ConfigRead
<1>13. CASE UNCHANGED vars
  BY <1>13 DEF vars, breaker, trade, history
<1> QED BY <1>1, <1>2, <1>3, <1>4, <1>5, <1>6, <1>7, <1>8, <1>9, <1>10, <1>11,
           <1>12, <1>13
        DEF Next, Dispatch, Answer, Executes

\* Every reachable state is well typed, under every fault and any number of
\* tasks in flight.
THEOREM TypeCorrect == Spec => []TypeOK
<1>1. Init => TypeOK
  <2> SUFFICES ASSUME Init PROVE TypeOK
    OBVIOUS
  <2>1. TradeTypes
    BY ConstantsAssumption DEF Init, TradeTypes
  <2>2. Counters
    BY DEF Init, Counters
  <2>3. Flags
    BY DEF Init, Flags
  <2> QED BY <2>1, <2>2, <2>3 DEF TypeOK
<1>2. TypeOK /\ [Next]_vars => TypeOK'
  <2> SUFFICES ASSUME TypeOK, [Next]_vars PROVE TypeOK'
    OBVIOUS
  <2> DEFINE Types == TradeTypes /\ Counters
  <2> USE DEF TypeOK, TradeTypes, Counters
  <2>1. ASSUME NEW decision \in Decisions, ClosedBar(decision)
        PROVE  Types'
    BY <2>1 DEF ClosedBar, trade, breaker, process, history
  <2>2. ASSUME Skipped \/ InsertFails PROVE Types'
    <3>1. todo # <<>> /\ todo' = Tail(todo) /\ todo \in Seq(Decisions)
      BY <2>2 DEF Skipped, InsertFails
    <3>2. UNCHANGED <<trade, calls, errors, streak, fills, process, history>>
      BY <2>2 DEF Skipped, InsertFails
    <3>3. todo' \in Seq(Decisions)
      BY <3>1
    <3> QED BY <3>2, <3>3 DEF trade, process, history
  <2>3. ASSUME OpenTrade PROVE Types'
    <3>1. todo' \in Seq(Decisions)
      BY <2>3 DEF OpenTrade
    <3>2. /\ rows' \in Seq(Trade) /\ Len(rows') = Len(rows) + 1
          /\ Len(rows) < MaxRows /\ Len(rows) \in Nat
      BY <2>3, AppendRow, Members DEF OpenTrade
    <3>3. /\ CallsTo(Len(rows)) \subseteq CallsTo(Len(rows'))
          /\ ExitsTo(Len(rows)) \subseteq ExitsTo(Len(rows'))
          /\ FillsTo(Len(rows)) \subseteq FillsTo(Len(rows'))
      BY <3>2, Grows
    <3>4. calls' \subseteq CallsTo(Len(rows'))
      <4>1. PICK t \in Tasks :
              calls' = calls \cup {[task |-> t, leg |-> "in",
                                    row |-> Len(rows) + 1, done |-> FALSE]}
        BY <2>3, Submitted DEF OpenTrade
      <4>2. [task |-> t, leg |-> "in", row |-> Len(rows) + 1, done |-> FALSE]
              \in CallsTo(Len(rows'))
        BY <3>2 DEF CallsTo, Legs
      <4> QED BY <4>1, <4>2, <3>3
    <3>5. fills' \in Seq(FillsTo(Len(rows')))
      BY <2>3, <3>3 DEF OpenTrade
    <3> QED BY <2>3, <3>1, <3>2, <3>3, <3>4, <3>5, ConstantsAssumption
            DEF OpenTrade, process
  <2>4. ASSUME CloseTrade PROVE Types'
    <3>1. todo' \in Seq(Decisions)
      BY <2>4 DEF CloseTrade
    <3>2. openId \in 1..Len(rows)
      BY <2>4, Members DEF CloseTrade, Starts
    <3>3. PICK t \in Tasks :
            calls' = calls \cup {[task |-> t, leg |-> "out", row |-> openId,
                                  done |-> FALSE]}
      BY <2>4, Submitted DEF CloseTrade
    <3>4. [task |-> t, leg |-> "out", row |-> openId, done |-> FALSE]
            \in CallsTo(Len(rows))
      BY <3>2 DEF CallsTo, Legs
    <3> QED BY <2>4, <3>1, <3>3, <3>4 DEF CloseTrade, trade, breaker, process
  <2>5. ASSUME NEW row PROVE Displaced(row) \subseteq 1..Len(rows)
    BY Members DEF Displaced
  <2>6. ASSUME NEW c \in calls, Opened(c)
        PROVE  Types'
    <3>1. c.row \in 1..Len(rows) /\ Len(rows) \in Nat
      BY Members
    <3>2. openId' \in 0..Len(rows)
      BY <2>6, <3>1 DEF Opened
    <3>4. pendingIn' \subseteq 1..Len(rows)
      BY <2>6, <3>1 DEF Opened
    <3>3. dropped' \subseteq 1..Len(rows)
      BY <2>5, <2>6 DEF Opened
    <3> QED BY <2>6, <3>2, <3>3, <3>4 DEF Opened, process
  <2>7. ASSUME NEW c \in calls, OpenFails(c)
        PROVE  Types'
    <3>1. c.row \in 1..Len(rows) /\ [rows[c.row] EXCEPT !.exit = "error"] \in Trade
      BY Members, PatchedRow
    <3>2. rows' \in Seq(Trade) /\ Len(rows') = Len(rows)
      BY <2>7, <3>1, PatchRows DEF OpenFails, ErrorRow
    <3>3. errors' \in Nat /\ streak' \in Nat
      BY <2>7 DEF OpenFails
    <3> QED BY <2>7, <3>2, <3>3 DEF OpenFails, process, history
  <2>8. ASSUME NEW c \in calls, Booked(c), pendingOut' \subseteq pendingOut
                 \cup {[row |-> c.row, entry |-> rows[c.row].meta]}
        PROVE  Types'
    <3>1. c.row \in 1..Len(rows) /\ rows[c.row].meta \in Entries /\ Len(rows) \in Nat
      BY Members
    <3>2. BookedRow(rows[c.row], "bar", rows[c.row].meta) \in Trade
      BY <3>1, Members, PatchedRow
    <3>3. rows' \in Seq(Trade) /\ Len(rows') = Len(rows)
      BY <2>8, <3>1, <3>2, PatchRows DEF Booked
    <3>4. [row |-> c.row, entry |-> rows[c.row].meta] \in ExitsTo(Len(rows))
      BY <3>1 DEF ExitsTo
    <3>5. dropped' \subseteq 1..Len(rows)
      BY <2>5, <2>8 DEF Booked
    <3> QED BY <2>8, <3>1, <3>3, <3>4, <3>5 DEF Booked, breaker, process
  <2>9. ASSUME NEW c \in calls, Closed(c) \/ CloseFails(c)
        PROVE  Types'
    BY <2>8, <2>9 DEF Closed, CloseFails
  <2>10. ASSUME UserEvent PROVE Types'
    <3> DEFINE f == Head(fills)
    <3>1. f \in FillsTo(Len(rows)) /\ fills' \in Seq(FillsTo(Len(rows)))
      BY <2>10 DEF UserEvent
    <3>2. f.row \in 1..Len(rows)
      BY <3>1 DEF FillsTo
    <3> HIDE DEF f
    <3>3. /\ rows' \in Seq(Trade) /\ Len(rows') = Len(rows)
          /\ pendingIn' \subseteq 1..Len(rows)
          /\ pendingOut' \subseteq ExitsTo(Len(rows))
      <4>1. CASE EntryFill(f)
        BY <4>1, FilledRows DEF EntryFill
      <4>2. CASE ExitFill(f)
        <5>1. PICK p \in pendingOut :
                /\ p.row = f.row
                /\ pendingOut' = pendingOut \ {p}
                /\ rows' = [rows EXCEPT ![f.row] = BookedRow(@, "fill", p.entry)]
          BY <4>2 DEF ExitFill
        <5>2. BookedRow(rows[f.row], "fill", p.entry) \in Trade
          BY <3>2, Members, PatchedRow
        <5>3. rows' \in Seq(Trade) /\ Len(rows') = Len(rows)
          BY <5>1, <5>2, <3>2, PatchRows
        <5> QED BY <4>2, <5>1, <5>3 DEF ExitFill
      <4>3. CASE Unknown(f)
        BY <4>3 DEF Unknown
      <4> QED BY <2>10, <4>1, <4>2, <4>3 DEF UserEvent, f
    <3> QED BY <2>10, <3>1, <3>3 DEF UserEvent, breaker, process, history
  <2>11. ASSUME NEW c \in calls, Executed(c)
         PROVE  Types'
    <3>1. c.row \in 1..Len(rows) /\ c.leg \in Legs
      BY Members
    <3>2. [c EXCEPT !.done = TRUE] \in CallsTo(Len(rows))
      BY DEF CallsTo
    <3>3. fills' \in Seq(FillsTo(Len(rows)))
      <4>1. [leg |-> c.leg, row |-> c.row] \in FillsTo(Len(rows))
        BY <3>1 DEF FillsTo
      <4> QED BY <2>11, <4>1 DEF Executed
    <3> QED BY <2>11, <3>2, <3>3 DEF Executed, trade, breaker, process, history
  <2>12. ASSUME CacheExpires PROVE Types'
    BY <2>12 DEF CacheExpires, trade, process, history
  <2>13. ASSUME NEW pause \in BOOLEAN, Operator(pause)
         PROVE  Types'
    BY <2>13 DEF Operator, trade, process, history
  <2>14. ASSUME Restart PROVE Types'
    BY <2>14, Members DEF Restart
  <2>15. ASSUME UNCHANGED vars PROVE Types'
    BY <2>15 DEF vars, trade, breaker, process, history
  <2>16. Types'
    BY <2>1, <2>2, <2>3, <2>4, <2>6, <2>7, <2>9, <2>10, <2>11, <2>12, <2>13,
       <2>14, <2>15
       DEF Next, Dispatch, Answer, Executes
  <2> QED BY <2>16, FlagsStay DEF TypeOK
<1> QED BY <1>1, <1>2, PTL DEF Spec
-----------------------------------------------------------------------------
(* What the rows show of the orders.                                       *)

\* Fills patch rows: no trade reopens.
LEMMA UserEventRows ==
  ASSUME TypeOK, UserEvent
  PROVE  /\ Len(rows') = Len(rows)
         /\ \A r \in 1..Len(rows) :
              rows'[r].exit = rows[r].exit \/ rows'[r].exit = "fill"
<1> DEFINE f == Head(fills)
<1>1. f \in FillsTo(Len(rows))
  BY DEF UserEvent, TypeOK, TradeTypes
<1>2. f.row \in 1..Len(rows)
  BY <1>1 DEF FillsTo
<1> HIDE DEF f
<1>3. CASE EntryFill(f)
  BY <1>3, FilledRows DEF EntryFill
<1>4. CASE ExitFill(f)
  <2>1. PICK p \in pendingOut :
          rows' = [rows EXCEPT ![f.row] = BookedRow(@, "fill", p.entry)]
    BY <1>4 DEF ExitFill
  <2>2. BookedRow(rows[f.row], "fill", p.entry) \in Trade
    BY <1>2, Members, PatchedRow
  <2>3. BookedRow(rows[f.row], "fill", p.entry).exit = "fill"
    BY <1>2, Members DEF BookedRow, Trade
  <2> QED BY <2>1, <2>2, <2>3, <1>2, PatchRows
<1>5. CASE Unknown(f)
  BY <1>5 DEF Unknown
<1> QED BY <1>3, <1>4, <1>5 DEF UserEvent, f

\* A booked row takes its own basis; the other rows are untouched.
LEMMA BookedRows ==
  ASSUME TypeOK, NEW c \in calls, Booked(c)
  PROVE  /\ Len(rows') = Len(rows)
         /\ rows'[c.row].exit = "bar" /\ rows'[c.row].pnl = rows[c.row].meta
         /\ rows'[c.row].entry = rows[c.row].entry
         /\ rows'[c.row].meta = rows[c.row].meta
         /\ \A r \in 1..Len(rows) \ {c.row} : rows'[r] = rows[r]
<1>1. c.row \in 1..Len(rows) /\ rows[c.row] \in Trade /\ rows[c.row].meta \in Entries
  BY Members
<1> DEFINE t == BookedRow(rows[c.row], "bar", rows[c.row].meta)
<1>2. t \in Trade
  BY <1>1, PatchedRow
<1>3. /\ t.exit = "bar" /\ t.pnl = rows[c.row].meta
      /\ t.entry = rows[c.row].entry /\ t.meta = rows[c.row].meta
  BY <1>1 DEF BookedRow, Trade
<1>4. rows' = [rows EXCEPT ![c.row] = t]
  BY DEF Booked
<1> HIDE DEF t
<1> QED BY <1>1, <1>2, <1>3, <1>4, PatchRows

\* An entry that fails marks its own row and no other.
LEMMA ErrorRows ==
  ASSUME TypeOK, NEW c \in calls, OpenFails(c)
  PROVE  /\ Len(rows') = Len(rows)
         /\ rows'[c.row].exit = "error" /\ rows'[c.row].pnl = rows[c.row].pnl
         /\ rows'[c.row].entry = rows[c.row].entry
         /\ rows'[c.row].meta = rows[c.row].meta
         /\ \A r \in 1..Len(rows) \ {c.row} : rows'[r] = rows[r]
<1>1. c.row \in 1..Len(rows) /\ rows[c.row] \in Trade
  BY Members
<1> DEFINE t == [rows[c.row] EXCEPT !.exit = "error"]
<1>2. /\ t \in Trade
      /\ t.exit = "error" /\ t.pnl = rows[c.row].pnl
      /\ t.entry = rows[c.row].entry /\ t.meta = rows[c.row].meta
  BY <1>1 DEF Trade
<1>3. rows' = [rows EXCEPT ![c.row] = t]
  BY DEF OpenFails, ErrorRow
<1> HIDE DEF t
<1> QED BY <1>1, <1>2, <1>3, PatchRows

\* Until two orders are under way at once there is one, for the open trade or
\* for a new one while none is open.
SoloInv ==
  ~overlapped => /\ \A c, d \in calls : c = d
                 /\ \A c \in calls : IF c.leg = "in" THEN openId = 0
                                                      ELSE openId = c.row
                 /\ dropped = {}

\* Every step keeps the single order until a second one is sent beside it.
LEMMA SoloStep ==
  ASSUME TypeOK, SoloInv, [Next]_vars
  PROVE  SoloInv'
<1> USE DEF SoloInv
<1>0. ASSUME UNCHANGED <<calls, openId, history>>
      PROVE  SoloInv'
  BY <1>0 DEF history
<1>1. ASSUME NEW decision \in Decisions, ClosedBar(decision)
      PROVE  SoloInv'
  BY <1>0, <1>1 DEF ClosedBar, trade
<1>2. CASE Skipped \/ InsertFails \/ CacheExpires
  BY <1>0, <1>2 DEF Skipped, InsertFails, CacheExpires, trade
<1>3. CASE OpenTrade
  <2>1. openId = 0 /\ UNCHANGED <<openId, dropped>>
    BY <1>3 DEF OpenTrade, Starts
  <2>2. PICK e : Sends(e, "in", Len(rows) + 1)
    BY <1>3, EntrySent
  <2> QED BY <2>1, <2>2 DEF Sends
<1>4. CASE CloseTrade
  <2>1. UNCHANGED <<openId, dropped>>
    BY <1>4 DEF CloseTrade, trade
  <2>2. PICK e : Sends(e, "out", openId)
    BY <1>4, ExitSent
  <2> QED BY <2>1, <2>2 DEF Sends
<1>5. ASSUME NEW c \in calls, Opened(c)
      PROVE  SoloInv'
  <2>1. ~overlapped => openId = 0 /\ calls' = {}
    BY <1>5 DEF Opened
  <2>2. ~overlapped => dropped' = {}
    BY <1>5, <2>1 DEF Opened, Displaced
  <2>3. overlapped' = overlapped
    BY <1>5 DEF Opened
  <2> QED BY <2>1, <2>2, <2>3
<1>6. ASSUME NEW c \in calls, OpenFails(c)
      PROVE  SoloInv'
  BY <1>6 DEF OpenFails, history
<1>7. ASSUME NEW c \in calls, Booked(c)
      PROVE  SoloInv'
  <2>1. ~overlapped => openId = c.row /\ calls' = {}
    BY <1>7 DEF Booked
  <2>2. ~overlapped => dropped' = {}
    BY <1>7, <2>1 DEF Booked, Displaced
  <2>3. overlapped' = overlapped
    BY <1>7 DEF Booked
  <2> QED BY <2>1, <2>2, <2>3
<1>8. CASE UserEvent
  BY <1>0, <1>8 DEF UserEvent
<1>9. ASSUME NEW c \in calls, Executed(c)
      PROVE  SoloInv'
  <2> DEFINE d == [c EXCEPT !.done = TRUE]
  <2>1. c \in CallsTo(Len(rows))
    BY DEF TypeOK, TradeTypes
  <2>2. d.leg = c.leg /\ d.row = c.row
    BY <2>1 DEF CallsTo
  <2>3. calls' = (calls \ {c}) \cup {d} /\ UNCHANGED <<openId, overlapped, dropped>>
    BY <1>9 DEF Executed, trade, history
  <2> HIDE DEF d
  <2> QED BY <2>2, <2>3
<1>10. ASSUME NEW pause \in BOOLEAN, Operator(pause)
       PROVE  SoloInv'
  BY <1>0, <1>10 DEF Operator, trade
<1>11. CASE Restart
  BY <1>11 DEF Restart
<1>12. CASE UNCHANGED vars
  BY <1>0, <1>12 DEF vars, trade
<1> QED BY <1>1, <1>2, <1>3, <1>4, <1>5, <1>6, <1>7, <1>8, <1>9, <1>10, <1>11,
           <1>12
        DEF Next, Dispatch, Answer, Executes, Closed, CloseFails

RowsSettled ==
  \A r \in boot + 1 .. Len(rows) :
    rows[r].exit = "none" => \/ r = openId \/ r \in dropped
                             \/ \E c \in calls : c.row = r /\ c.leg = "in"

\* Every step keeps the rows settled: an answered order settles its own row
\* and displaces at most the open one.
LEMMA SettledStep ==
  ASSUME TypeOK, RowsSettled, [Next]_vars
  PROVE  RowsSettled'
<1> USE DEF RowsSettled
<1>t. Len(rows) \in Nat /\ boot \in 0..Len(rows)
  BY Members DEF TypeOK, Counters
<1>0. ASSUME UNCHANGED <<calls, openId, rows, boot, dropped>>
      PROVE  RowsSettled'
  BY <1>0
<1>1. ASSUME NEW decision \in Decisions, ClosedBar(decision)
      PROVE  RowsSettled'
  BY <1>0, <1>1 DEF ClosedBar, trade, process, history
<1>2. CASE Skipped \/ InsertFails \/ CacheExpires
  BY <1>0, <1>2 DEF Skipped, InsertFails, CacheExpires, trade, process, history
<1>3. CASE OpenTrade
  <2>1. UNCHANGED <<openId, boot, dropped>>
    BY <1>3 DEF OpenTrade, process
  <2>2. PICK e : Sends(e, "in", Len(rows) + 1)
    BY <1>3, EntrySent
  <2>3. /\ Len(rows') = Len(rows) + 1
        /\ \A r \in 1..Len(rows) : rows'[r] = rows[r]
    BY <1>3, AppendRow DEF OpenTrade
  <2>4. \A r \in boot + 1 .. Len(rows') :
          r = Len(rows) + 1 \/ (r \in boot + 1 .. Len(rows) /\ rows'[r] = rows[r])
    BY <1>t, <2>3
  <2> QED BY <2>1, <2>2, <2>4 DEF Sends
<1>4. CASE CloseTrade
  <2>1. UNCHANGED <<openId, rows, boot, dropped>>
    BY <1>4 DEF CloseTrade, trade, process
  <2>2. calls \subseteq calls'
    BY <1>4, Submitted DEF CloseTrade
  <2> QED BY <2>1, <2>2
<1>5. ASSUME NEW c \in calls, Opened(c)
      PROVE  RowsSettled'
  <2>1. /\ calls' = calls \ {c} /\ openId' = c.row /\ UNCHANGED <<rows, boot>>
        /\ dropped' = dropped \cup Displaced(c.row)
    BY <1>5 DEF Opened, process
  <2>2. \A r \in boot + 1 .. Len(rows) : r = openId => r = c.row \/ r \in dropped'
    BY <1>t, <2>1 DEF Displaced
  <2> QED BY <2>1, <2>2
<1>6. ASSUME NEW c \in calls, OpenFails(c)
      PROVE  RowsSettled'
  <2>1. calls' = calls \ {c} /\ UNCHANGED <<openId, boot, dropped>>
    BY <1>6 DEF OpenFails, process, history
  <2>2. /\ Len(rows') = Len(rows) /\ rows'[c.row].exit = "error"
        /\ \A r \in 1..Len(rows) \ {c.row} : rows'[r] = rows[r]
    BY <1>6, ErrorRows
  <2>3. \A r \in boot + 1 .. Len(rows) : r \in 1..Len(rows)
    BY <1>t
  <2> QED BY <2>1, <2>2, <2>3
<1>7. ASSUME NEW c \in calls, Booked(c)
      PROVE  RowsSettled'
  <2>1. /\ calls' = calls \ {c} /\ boot' = boot /\ c.leg = "out"
        /\ dropped' = dropped \cup Displaced(c.row)
    BY <1>7 DEF Booked, process
  <2>2. /\ Len(rows') = Len(rows) /\ rows'[c.row].exit = "bar"
        /\ \A r \in 1..Len(rows) \ {c.row} : rows'[r] = rows[r]
    BY <1>7, BookedRows
  <2>3. \A r \in boot + 1 .. Len(rows) :
          r \in 1..Len(rows) /\ (r = openId => r = c.row \/ r \in dropped')
    BY <1>t, <2>1 DEF Displaced
  <2> QED BY <2>1, <2>2, <2>3
<1>8. CASE UserEvent
  <2>1. UNCHANGED <<calls, openId, boot, dropped>>
    BY <1>8 DEF UserEvent, process, history
  <2>2. Len(rows') = Len(rows)
        /\ \A r \in 1..Len(rows) : rows'[r].exit = rows[r].exit \/ rows'[r].exit = "fill"
    BY <1>8, UserEventRows
  <2>3. \A r \in boot + 1 .. Len(rows) : r \in 1..Len(rows)
    BY <1>t
  <2> QED BY <2>1, <2>2, <2>3
<1>9. ASSUME NEW c \in calls, Executed(c)
      PROVE  RowsSettled'
  <2>1. UNCHANGED <<openId, rows, boot, dropped>>
    BY <1>9 DEF Executed, trade, process, history
  <2>2. c \in CallsTo(Len(rows))
    BY DEF TypeOK, TradeTypes
  <2>3. \A d \in calls : \E e \in calls' : e.row = d.row /\ e.leg = d.leg
    <3>1. /\ [c EXCEPT !.done = TRUE].row = c.row
          /\ [c EXCEPT !.done = TRUE].leg = c.leg
      BY <2>2 DEF CallsTo
    <3> QED BY <1>9, <3>1 DEF Executed
  <2> QED BY <2>1, <2>3
<1>10. ASSUME NEW pause \in BOOLEAN, Operator(pause)
       PROVE  RowsSettled'
  BY <1>0, <1>10 DEF Operator, trade, process, history
<1>11. CASE Restart
  BY <1>11, <1>t DEF Restart
<1>12. CASE UNCHANGED vars
  BY <1>0, <1>12 DEF vars, trade, process, history
<1> QED BY <1>1, <1>2, <1>3, <1>4, <1>5, <1>6, <1>7, <1>8, <1>9, <1>10, <1>11,
           <1>12
        DEF Next, Dispatch, Answer, Executes, Closed, CloseFails

\* No row is left open by a refused, lost or late order, for any number of
\* decisions under way: it is the open trade, being opened, has an exit
\* reason, or lost its place to another order, which takes two at once.
THEOREM SettledSafe == Spec => []TradesSettled
<1>1. Init => SoloInv /\ RowsSettled
  BY DEF Init, SoloInv, RowsSettled
<1>2. TypeOK /\ SoloInv /\ [Next]_vars => SoloInv'
  BY SoloStep
<1>3. TypeOK /\ RowsSettled /\ [Next]_vars => RowsSettled'
  BY SettledStep
<1>4. SoloInv /\ RowsSettled => TradesSettled
  BY DEF SoloInv, RowsSettled, TradesSettled
<1> QED BY <1>1, <1>2, <1>3, <1>4, TypeCorrect, PTL DEF Spec
-----------------------------------------------------------------------------
(* The self-halt, with a database whose reads and writes of runtime_config *)
(* succeed and any number of concurrent decisions.                         *)

HealthyConfig == {"configReadFails", "pauseWriteFails"} \cap Faults = {}

HaltInv == halted => dbPaused /\ (fresh => paused)

\* With a healthy configuration, no step sends an entry after the halt.
LEMMA HaltStep ==
  ASSUME HealthyConfig, TypeOK, HaltInv, [Next]_vars
  PROVE  HaltInv'
<1> USE DEF HaltInv
<1>1. ConfigRead = {dbPaused} /\ WrittenPause = {TRUE}
  BY DEF HealthyConfig, ConfigRead, WrittenPause
<1>2. halted => \A p \in Refreshed : p = TRUE
  BY <1>1 DEF Refreshed, TypeOK, Flags
<1>3. ASSUME UNCHANGED <<halted, dbPaused, paused, fresh>>
      PROVE  HaltInv'
  BY <1>3
<1>4. CASE Skipped \/ OpenTrade \/ InsertFails
  BY <1>2, <1>4 DEF Skipped, OpenTrade, InsertFails
<1>5. ASSUME NEW c \in calls, OpenFails(c)
      PROVE  HaltInv'
  BY <1>1, <1>5 DEF OpenFails, MaybeSelfHalt
<1>6. ASSUME NEW c \in calls, Opened(c) \/ Closed(c) \/ CloseFails(c) \/ Executed(c)
      PROVE  HaltInv'
  BY <1>3, <1>6 DEF Opened, Closed, CloseFails, Booked, Executed, breaker
<1>7. CASE CloseTrade \/ UserEvent \/ UNCHANGED vars
  BY <1>3, <1>7 DEF CloseTrade, UserEvent, vars, breaker
<1>8. ASSUME NEW decision \in Decisions, ClosedBar(decision)
      PROVE  HaltInv'
  BY <1>3, <1>8 DEF ClosedBar, breaker
<1>9. ASSUME NEW pause \in BOOLEAN, Operator(pause)
      PROVE  HaltInv'
  BY <1>9 DEF Operator
<1>10. CASE CacheExpires
  BY <1>10 DEF CacheExpires
<1>11. CASE Restart
  BY <1>1, <1>11 DEF Restart
<1> QED BY <1>4, <1>5, <1>6, <1>7, <1>8, <1>9, <1>10, <1>11
        DEF Next, Dispatch, Answer, Executes

\* Every order a step adds while the runtime is halted is an exit, or one
\* that was already sent.
LEMMA HaltBlocks ==
  ASSUME HealthyConfig, TypeOK, HaltInv, [Next]_vars, halted,
         NEW c \in calls' \ calls, c.leg = "in"
  PROVE  c.done
<1>1. ~OpenTrade
  BY DEF HealthyConfig, HaltInv, OpenTrade, Refreshed, ConfigRead, TypeOK, Flags
<1>2. CASE CloseTrade
  BY <1>2, Submitted DEF CloseTrade
<1>3. ASSUME NEW d \in calls, Executed(d)
      PROVE  c.done
  <2>1. d \in CallsTo(Len(rows))
    BY DEF TypeOK, TradeTypes
  <2> QED BY <1>3, <2>1 DEF Executed, CallsTo
<1>4. CASE calls' \subseteq calls
  BY <1>4
<1>5. CASE Skipped \/ InsertFails \/ UserEvent \/ CacheExpires \/ Restart
           \/ UNCHANGED vars
  BY <1>4, <1>5 DEF Skipped, InsertFails, UserEvent, CacheExpires, Restart, vars
<1>6. ASSUME NEW t \in Tasks, Answer(t)
      PROVE  c.done
  BY <1>4, <1>6 DEF Answer, Opened, OpenFails, Closed, CloseFails, Booked
<1>7. ASSUME NEW decision \in Decisions, ClosedBar(decision)
      PROVE  c.done
  BY <1>4, <1>7 DEF ClosedBar
<1>8. ASSUME NEW pause \in BOOLEAN, Operator(pause)
      PROVE  c.done
  BY <1>4, <1>8 DEF Operator
<1> QED BY <1>1, <1>2, <1>3, <1>5, <1>6, <1>7, <1>8 DEF Next, Dispatch, Executes

\* The self-halt survives cache refreshes and restarts while runtime_config
\* can be read and written.
THEOREM HaltSafe ==
  ASSUME HealthyConfig
  PROVE  Spec => HaltHolds
<1>1. Init => HaltInv
  BY DEF Init, HaltInv
<1>2. TypeOK /\ HaltInv /\ [Next]_vars => HaltInv'
  BY HaltStep
<1>3. TypeOK /\ HaltInv /\ [Next]_vars
        => [halted => \A c \in calls' \ calls : c.leg = "in" => c.done]_vars
  BY HaltBlocks
<1> QED BY <1>1, <1>2, <1>3, TypeCorrect, PTL DEF Spec, HaltHolds
-----------------------------------------------------------------------------
(* The circuit breaker, with a healthy runtime_config: while halted no     *)
(* entry is sent, so only those other tasks already await can still fail.  *)

\* The tasks that await an entry.
Entering == {c.task : c \in {d \in calls : d.leg = "in"}}

FewEntering ==
  /\ IsFiniteSet(Entering) /\ Cardinality(Entering) \in Nat
  /\ Cardinality(Entering) <= MaxTasks

\* The tasks that await an entry are tasks: at most MaxTasks of them.
LEMMA EnteringBound ==
  ASSUME TypeOK
  PROVE  FewEntering
<1>1. Entering \subseteq 1..MaxTasks
  BY Members DEF Entering, Tasks
<1>2. IsFiniteSet(1..MaxTasks) /\ Cardinality(1..MaxTasks) = MaxTasks
  BY ConstantsAssumption, FS_Interval
<1> QED BY <1>1, <1>2, FS_Subset, FS_CardinalityType DEF FewEntering

OwnTasks == \A c, d \in calls : c.task = d.task => c = d

BreakerInv ==
  /\ OwnTasks
  /\ streak <= errors
  /\ ~halted => streak < Threshold
  /\ halted => streak + Cardinality(Entering) <= Threshold + (MaxTasks - 1)

\* An answered entry leaves the tasks that await one.
LEMMA EnteringAnswered ==
  ASSUME TypeOK, OwnTasks, NEW c \in calls, c.leg = "in", calls' = calls \ {c}
  PROVE  /\ Cardinality(Entering') = Cardinality(Entering) - 1
         /\ OwnTasks'
<1>1. c.task \in Entering
  BY DEF Entering
<1>2. Entering' = Entering \ {c.task}
  BY DEF Entering, OwnTasks
<1>3. Cardinality(Entering') = Cardinality(Entering) - 1
  BY <1>1, <1>2, EnteringBound, FS_RemoveElement DEF FewEntering
<1> QED BY <1>3 DEF OwnTasks

\* With a healthy configuration, every step keeps the count of failures.
LEMMA BreakerStep ==
  ASSUME HealthyConfig, TypeOK, FewEntering', HaltInv, BreakerInv, [Next]_vars
  PROVE  BreakerInv'
<1> USE DEF BreakerInv
<1>t. /\ Threshold \in Nat /\ Threshold > 0 /\ MaxTasks \in Nat /\ MaxTasks > 0
      /\ streak \in Nat /\ errors \in Nat
  BY ConstantsAssumption DEF TypeOK, Counters
<1>c. /\ Cardinality(Entering) \in Nat /\ Cardinality(Entering) <= MaxTasks
      /\ Cardinality(Entering') \in Nat /\ Cardinality(Entering') <= MaxTasks
  BY EnteringBound DEF FewEntering
<1>0. ASSUME UNCHANGED <<streak, errors, halted, calls>>
      PROVE  BreakerInv'
  BY <1>0 DEF OwnTasks, Entering
<1>1. ASSUME NEW decision \in Decisions, ClosedBar(decision)
      PROVE  BreakerInv'
  BY <1>0, <1>1 DEF ClosedBar, breaker
<1>2. CASE Skipped \/ InsertFails \/ CacheExpires \/ UserEvent \/ UNCHANGED vars
  BY <1>0, <1>2 DEF Skipped, InsertFails, CacheExpires, UserEvent, breaker, vars
<1>3. CASE OpenTrade
  <2>1. ~halted
    BY <1>3 DEF HealthyConfig, HaltInv, OpenTrade, Refreshed, ConfigRead, TypeOK,
               Flags
  <2>2. OwnTasks'
    <3>1. PICK e : Sends(e, "in", Len(rows) + 1)
      BY <1>3, EntrySent
    <3> QED BY <3>1 DEF OwnTasks, Sends
  <2> QED BY <1>3, <2>1, <2>2 DEF OpenTrade
<1>4. CASE CloseTrade
  <2>1. PICK e : Sends(e, "out", openId)
    BY <1>4, ExitSent
  <2>2. Entering' = Entering /\ OwnTasks'
    BY <2>1 DEF Entering, OwnTasks, Sends
  <2> QED BY <1>4, <2>2 DEF CloseTrade, breaker
<1>5. ASSUME NEW c \in calls, Opened(c)
      PROVE  BreakerInv'
  <2>1. /\ c.leg = "in" /\ calls' = calls \ {c}
        /\ streak' = 0 /\ errors' = 0 /\ halted' = halted
    BY <1>5 DEF Opened
  <2>2. Cardinality(Entering') <= MaxTasks - 1 /\ OwnTasks'
    BY <2>1, <1>c, <1>t, EnteringAnswered
  <2> QED BY <2>1, <2>2, <1>c, <1>t
<1>6. ASSUME NEW c \in calls, OpenFails(c)
      PROVE  BreakerInv'
  <2>1. c.leg = "in" /\ calls' = calls \ {c}
    BY <1>6 DEF OpenFails
  <2>2. Cardinality(Entering') = Cardinality(Entering) - 1 /\ OwnTasks'
    BY <2>1, EnteringAnswered
  <2>3. streak' = streak + 1 /\ errors' = errors + 1
    BY <1>6 DEF OpenFails
  <2>4. IF errors + 1 >= Threshold THEN halted' ELSE halted' = halted
    BY <1>6, <2>3 DEF OpenFails, MaybeSelfHalt, Crossed
  <2>5. CASE halted
    <3>1. halted'
      BY <2>4, <2>5
    <3> QED BY <2>2, <2>3, <2>5, <3>1, <1>c, <1>t
  <2>6. CASE ~halted
    BY <2>2, <2>3, <2>4, <2>6, <1>c, <1>t
  <2> QED BY <2>5, <2>6
<1>7. ASSUME NEW c \in calls, Booked(c)
      PROVE  BreakerInv'
  <2>1. c.leg = "out" /\ calls' = calls \ {c} /\ UNCHANGED <<streak, errors, halted>>
    BY <1>7 DEF Booked, breaker
  <2>2. Entering' = Entering /\ OwnTasks'
    BY <2>1 DEF Entering, OwnTasks
  <2> QED BY <2>1, <2>2
<1>8. ASSUME NEW c \in calls, Executed(c)
      PROVE  BreakerInv'
  <2> DEFINE d == [c EXCEPT !.done = TRUE]
  <2>1. c \in CallsTo(Len(rows))
    BY DEF TypeOK, TradeTypes
  <2>2. d.leg = c.leg /\ d.task = c.task
    BY <2>1 DEF CallsTo
  <2>3. calls' = (calls \ {c}) \cup {d} /\ UNCHANGED <<streak, errors, halted>>
    BY <1>8 DEF Executed, breaker
  <2> HIDE DEF d
  <2>4. Entering' = Entering /\ OwnTasks'
    BY <2>2, <2>3 DEF Entering, OwnTasks
  <2> QED BY <2>3, <2>4
<1>9. ASSUME NEW pause \in BOOLEAN, Operator(pause)
      PROVE  BreakerInv'
  <2>1. UNCHANGED <<calls, errors>>
    BY <1>9 DEF Operator
  <2>2. Entering' = Entering /\ OwnTasks'
    BY <2>1 DEF Entering, OwnTasks
  <2>3. CASE pause = TRUE
    <3>1. streak' = streak /\ (halted' <=> halted)
      BY <1>9, <2>3 DEF Operator
    <3> QED BY <2>1, <2>2, <3>1
  <2>4. CASE pause = FALSE
    <3>1. streak' = 0 /\ ~halted'
      BY <1>9, <2>4 DEF Operator
    <3> QED BY <2>1, <2>2, <3>1, <1>t
  <2> QED BY <2>3, <2>4
<1>10. CASE Restart
  <2>1. calls' = {} /\ streak' = 0 /\ errors' = 0 /\ halted' = halted
    BY <1>10 DEF Restart
  <2>2. Entering' = {}
    BY <2>1 DEF Entering
  <2>3. Cardinality(Entering') = 0
    BY <2>2, FS_EmptySet
  <2> QED BY <2>1, <2>3, <1>t DEF OwnTasks
<1> QED BY <1>1, <1>2, <1>3, <1>4, <1>5, <1>6, <1>7, <1>8, <1>9, <1>10
        DEF Next, Dispatch, Answer, Executes, Closed, CloseFails

\* As long as one order is under way at a time, an entry that is awaited is not
\* the one that the breaker should have stopped.
SoloBreaker ==
  ~overlapped => /\ streak <= Threshold
                 /\ \A c \in calls : c.leg = "in" => streak < Threshold

\* Every step keeps the single order's failures within the threshold.
LEMMA SoloBreakerStep ==
  ASSUME HealthyConfig, TypeOK, HaltInv, BreakerInv, SoloInv, SoloBreaker,
         [Next]_vars
  PROVE  SoloBreaker'
<1> USE DEF SoloBreaker
<1>t. Threshold \in Nat /\ Threshold > 0 /\ streak \in Nat
  BY ConstantsAssumption DEF TypeOK, Counters
<1>0. ASSUME UNCHANGED <<streak, overlapped>>, calls' \subseteq calls
      PROVE  SoloBreaker'
  BY <1>0
<1>1. ASSUME NEW decision \in Decisions, ClosedBar(decision)
      PROVE  SoloBreaker'
  BY <1>0, <1>1 DEF ClosedBar, breaker, history
<1>2. CASE Skipped \/ InsertFails \/ CacheExpires \/ UserEvent \/ UNCHANGED vars
  BY <1>0, <1>2 DEF Skipped, InsertFails, CacheExpires, UserEvent, breaker,
                    history, vars
<1>3. CASE OpenTrade
  <2>1. ~halted
    BY <1>3 DEF HealthyConfig, HaltInv, OpenTrade, Refreshed, ConfigRead, TypeOK,
               Flags
  <2>2. streak' = streak /\ streak < Threshold
    BY <1>3, <2>1 DEF OpenTrade, BreakerInv
  <2> QED BY <2>2, <1>t
<1>4. CASE CloseTrade
  <2>1. PICK e : Sends(e, "out", openId)
    BY <1>4, ExitSent
  <2>2. streak' = streak
    BY <1>4 DEF CloseTrade, breaker
  <2> QED BY <2>1, <2>2 DEF Sends
<1>5. ASSUME NEW c \in calls, Opened(c)
      PROVE  SoloBreaker'
  BY <1>5, <1>t DEF Opened
<1>6. ASSUME NEW c \in calls, OpenFails(c)
      PROVE  SoloBreaker'
  <2>1. /\ c.leg = "in" /\ calls' = calls \ {c}
        /\ streak' = streak + 1 /\ overlapped' = overlapped
    BY <1>6 DEF OpenFails, history
  <2>2. ~overlapped => calls' = {} /\ streak < Threshold
    BY <2>1 DEF SoloInv
  <2> QED BY <2>1, <2>2, <1>t
<1>7. ASSUME NEW c \in calls, Booked(c)
      PROVE  SoloBreaker'
  BY <1>0, <1>7 DEF Booked, breaker
<1>8. ASSUME NEW c \in calls, Executed(c)
      PROVE  SoloBreaker'
  <2> DEFINE d == [c EXCEPT !.done = TRUE]
  <2>1. c \in CallsTo(Len(rows))
    BY DEF TypeOK, TradeTypes
  <2>2. d.leg = c.leg
    BY <2>1 DEF CallsTo
  <2>3. calls' = (calls \ {c}) \cup {d} /\ UNCHANGED <<streak, overlapped>>
    BY <1>8 DEF Executed, breaker, history
  <2> HIDE DEF d
  <2> QED BY <2>2, <2>3
<1>9. ASSUME NEW pause \in BOOLEAN, Operator(pause)
      PROVE  SoloBreaker'
  <2>1. UNCHANGED <<calls, overlapped>> /\ streak' \in {streak, 0}
    BY <1>9 DEF Operator, history
  <2> QED BY <2>1, <1>t
<1>10. CASE Restart
  BY <1>10, <1>t DEF Restart
<1> QED BY <1>1, <1>2, <1>3, <1>4, <1>5, <1>6, <1>7, <1>8, <1>9, <1>10
        DEF Next, Dispatch, Answer, Executes, Closed, CloseFails

\* At most max_consecutive_errors entries fail in a row, and, once the process
\* has had two orders under way at once, those that other tasks awaited when the
\* breaker opened.
THEOREM FailuresSafe ==
  ASSUME HealthyConfig
  PROVE  Spec => []FailuresBounded
<1>1. Init => HaltInv /\ BreakerInv /\ SoloInv /\ SoloBreaker
  BY ConstantsAssumption
     DEF Init, HaltInv, BreakerInv, OwnTasks, SoloInv, SoloBreaker
<1>2. TypeOK /\ HaltInv /\ [Next]_vars => HaltInv'
  BY HaltStep
<1>3. TypeOK /\ FewEntering' /\ HaltInv /\ BreakerInv /\ [Next]_vars => BreakerInv'
  BY BreakerStep
<1>4. TypeOK /\ BreakerInv /\ SoloBreaker => FailuresBounded
  <2>1. TypeOK => /\ Threshold \in Nat /\ MaxTasks \in Nat /\ MaxTasks > 0
                  /\ streak \in Nat /\ Cardinality(Entering) \in Nat
    BY ConstantsAssumption, EnteringBound DEF FewEntering, TypeOK, Counters
  <2> QED BY <2>1 DEF BreakerInv, SoloBreaker, FailuresBounded
<1>5. TypeOK => FewEntering
  BY EnteringBound
<1>6. TypeOK /\ HaltInv /\ BreakerInv /\ SoloInv /\ SoloBreaker /\ [Next]_vars
        => SoloInv' /\ SoloBreaker'
  BY SoloStep, SoloBreakerStep
<1> QED BY <1>1, <1>2, <1>3, <1>4, <1>5, <1>6, TypeCorrect, PTL DEF Spec
-----------------------------------------------------------------------------
(* The P&L basis, for every number of concurrent decisions and every fault *)
(* (the part of the state that makes the property inductive is that the    *)
(* row of an entry still awaited is nobody else's).                        *)

RealIsRecorded ==
  /\ \A r \in DOMAIN rows : "real" \in {rows[r].meta, rows[r].pnl}
                             => rows[r].entry = "real"
  /\ \A p \in pendingOut : p.entry = "real" => rows[p.row].entry = "real"

AwaitedEntries ==
  \A c \in calls : c.leg = "in" =>
    /\ c.row # openId /\ c.row \notin pendingIn
    /\ rows[c.row].entry = "model" /\ rows[c.row].meta = "model"
    /\ \A d \in calls : d.leg = "in" /\ d.row = c.row => d = c

OpenBasis == openId # 0 => rows[openId].meta = rows[openId].entry

BasisInv == RealIsRecorded /\ AwaitedEntries /\ OpenBasis

\* Rows, orders and the open trade stay; orders may only go.
LEMMA BasisStays ==
  ASSUME BasisInv, UNCHANGED <<rows, openId, pendingIn, pendingOut>>,
         calls' \subseteq calls
  PROVE  BasisInv'
BY DEF BasisInv, RealIsRecorded, AwaitedEntries, OpenBasis

\* Opening a trade opens its own basis.
LEMMA BasisOpenTrade ==
  ASSUME TypeOK, BasisInv, OpenTrade
  PROVE  BasisInv'
<1>1. Len(rows) \in Nat /\ openId \in 0..Len(rows) /\ pendingIn \subseteq 1..Len(rows)
      /\ DOMAIN rows = 1..Len(rows)
  BY Members DEF TypeOK, TradeTypes
<1> DEFINE n == Len(rows) + 1
<1>3. /\ rows' \in Seq(Trade) /\ Len(rows') = n
      /\ \A r \in 1..Len(rows) : rows'[r] = rows[r]
      /\ rows'[n] = NewTrade
  BY AppendRow DEF OpenTrade
<1>4. NewTrade.entry = "model" /\ NewTrade.meta = "model"
      /\ NewTrade.pnl = "none"
  BY DEF NewTrade
<1>5. UNCHANGED <<openId, pendingIn, pendingOut>>
  BY DEF OpenTrade
<1>6. PICK t \in Tasks :
        calls' = calls \cup {[task |-> t, leg |-> "in", row |-> n, done |-> FALSE]}
  BY Submitted DEF OpenTrade
<1>7. DOMAIN rows' = 1..n
  BY <1>3
<1>8. RealIsRecorded'
  <2>1. \A r \in 1..n : r \in 1..Len(rows) \/ r = n
    BY <1>1
  <2>2. \A r \in 1..n : "real" \in {rows'[r].meta, rows'[r].pnl}
                         => rows'[r].entry = "real"
    BY <1>1, <1>3, <1>4, <2>1 DEF BasisInv, RealIsRecorded
  <2>3. \A p \in pendingOut : p.row \in 1..Len(rows)
    BY Members
  <2> QED BY <1>3, <1>5, <1>7, <2>2, <2>3 DEF BasisInv, RealIsRecorded
<1>9. AwaitedEntries'
  <2>1. \A c \in calls : c.row \in 1..Len(rows) /\ c.row # n
    BY Members, <1>1
  <2>2. n # openId /\ n \notin pendingIn
    BY <1>1
  <2> DEFINE e == [task |-> t, leg |-> "in", row |-> n, done |-> FALSE]
  <2>3. e.row = n /\ calls' = calls \cup {e}
    BY <1>6
  <2>4. rows'[n].entry = "model" /\ rows'[n].meta = "model"
    BY <1>3, <1>4
  <2>5. \A c \in calls : rows'[c.row] = rows[c.row]
    BY <1>3, <2>1
  <2> HIDE DEF n, e
  <2> SUFFICES ASSUME NEW c \in calls', c.leg = "in"
               PROVE  /\ c.row # openId /\ c.row \notin pendingIn
                      /\ rows'[c.row].entry = "model" /\ rows'[c.row].meta = "model"
                      /\ \A d \in calls' : d.leg = "in" /\ d.row = c.row => d = c
    BY <1>5 DEF AwaitedEntries
  <2>6. CASE c \in calls
    BY <2>1, <2>3, <2>5, <2>6 DEF BasisInv, AwaitedEntries
  <2>7. CASE c = e
    BY <2>1, <2>2, <2>3, <2>4, <2>7
  <2> QED BY <2>3, <2>6, <2>7
<1>10. OpenBasis'
  <2>1. openId # 0 => openId \in 1..Len(rows)
    BY <1>1
  <2> QED BY <1>3, <1>5, <2>1 DEF BasisInv, OpenBasis
<1> QED BY <1>8, <1>9, <1>10 DEF BasisInv

\* Booking a fill takes the basis of its own trade.
LEMMA BasisBooked ==
  ASSUME TypeOK, BasisInv, NEW c \in calls, Booked(c),
         pendingOut' \subseteq pendingOut
                                \cup {[row |-> c.row, entry |-> rows[c.row].meta]}
  PROVE  BasisInv'
<1>1. \A r \in 1..Len(rows) :
        /\ rows'[r].entry = rows[r].entry /\ rows'[r].meta = rows[r].meta
        /\ rows'[r].pnl \in {rows[r].pnl, rows[r].meta}
  BY BookedRows
<1>2. DOMAIN rows' = DOMAIN rows /\ DOMAIN rows = 1..Len(rows)
  BY Members DEF Booked
<1>3. /\ openId' = 0 /\ calls' = calls \ {c} /\ pendingIn' = pendingIn
      /\ c.row \in 1..Len(rows)
  BY Members DEF Booked
<1>4. \A p \in pendingOut : p.row \in 1..Len(rows)
  BY Members
<1>5. \A d \in calls : d.row \in 1..Len(rows) /\ d.row # 0
  BY Members
<1>6. RealIsRecorded'
  <2>1. \A r \in DOMAIN rows' : "real" \in {rows'[r].meta, rows'[r].pnl}
                                => rows'[r].entry = "real"
    BY <1>1, <1>2 DEF BasisInv, RealIsRecorded
  <2>2. \A p \in pendingOut' : p.entry = "real" => rows'[p.row].entry = "real"
    <3> TAKE p \in pendingOut'
    <3>1. CASE p \in pendingOut
      BY <1>1, <1>4, <3>1 DEF BasisInv, RealIsRecorded
    <3>2. CASE p = [row |-> c.row, entry |-> rows[c.row].meta]
      BY <1>1, <1>2, <1>3, <3>2 DEF BasisInv, RealIsRecorded
    <3> QED BY <3>1, <3>2
  <2> QED BY <2>1, <2>2 DEF RealIsRecorded
<1>7. AwaitedEntries'
  BY <1>1, <1>3, <1>5 DEF BasisInv, AwaitedEntries
<1> QED BY <1>3, <1>6, <1>7 DEF BasisInv, OpenBasis

\* An event of the user hub reaches the trade it is about.
LEMMA BasisUserEvent ==
  ASSUME TypeOK, BasisInv, UserEvent
  PROVE  BasisInv'
<1> DEFINE f == Head(fills)
<1>1. f.row \in 1..Len(rows)
  <2>1. f \in FillsTo(Len(rows))
    BY DEF UserEvent, TypeOK, TradeTypes
  <2> QED BY <2>1 DEF FillsTo
<1>2. UNCHANGED <<openId, calls>>
  BY DEF UserEvent
<1>3. Len(rows) \in Nat /\ DOMAIN rows = 1..Len(rows) /\ openId \in 0..Len(rows)
  BY Members DEF TypeOK, TradeTypes
<1>4. \A p \in pendingOut : p.row \in 1..Len(rows)
  BY Members
<1>5. \A d \in calls : d.row \in 1..Len(rows)
  BY Members
<1> HIDE DEF f
<1>6. CASE EntryFill(f)
  <2>1. DOMAIN rows' = DOMAIN rows
        /\ \A r \in 1..Len(rows) :
              /\ rows'[r].pnl = rows[r].pnl
              /\ rows'[r].entry = IF r = f.row THEN "real" ELSE rows[r].entry
              /\ rows'[r].meta = IF r = f.row /\ r = openId THEN "real"
                                ELSE rows[r].meta
    BY <1>6, <1>3, FilledRows DEF EntryFill
  <2>2. f.row \in pendingIn /\ pendingIn' \subseteq pendingIn /\ pendingOut' = pendingOut
    BY <1>6 DEF EntryFill
  <2>3. RealIsRecorded'
    BY <1>3, <1>4, <2>1, <2>2 DEF BasisInv, RealIsRecorded
  <2>4. AwaitedEntries'
    BY <1>2, <1>5, <2>1, <2>2 DEF BasisInv, AwaitedEntries
  <2>5. OpenBasis'
    BY <1>2, <1>3, <2>1 DEF BasisInv, OpenBasis
  <2> QED BY <2>3, <2>4, <2>5 DEF BasisInv
<1>7. CASE ExitFill(f)
  <2>1. PICK p \in pendingOut :
          /\ p.row = f.row /\ pendingOut' = pendingOut \ {p}
          /\ rows' = [rows EXCEPT ![f.row] = BookedRow(@, "fill", p.entry)]
    BY <1>7 DEF ExitFill
  <2>2. rows[f.row] \in Trade /\ p.entry \in Entries
    BY <1>1, Members
  <2> DEFINE t == BookedRow(rows[f.row], "fill", p.entry)
  <2>3. t.pnl = p.entry /\ t.entry = rows[f.row].entry /\ t.meta = rows[f.row].meta
    BY <2>2 DEF BookedRow, Trade
  <2>4. t \in Trade
    BY <2>2, PatchedRow
  <2> HIDE DEF t
  <2>5. DOMAIN rows' = DOMAIN rows /\ rows'[f.row] = t
        /\ \A r \in 1..Len(rows) \ {f.row} : rows'[r] = rows[r]
    BY <1>1, <1>3, <2>1, <2>4, PatchRows DEF t
  <2>6. pendingIn' = pendingIn
    BY <1>7 DEF ExitFill
  <2>7. RealIsRecorded'
    BY <1>1, <1>3, <1>4, <2>1, <2>3, <2>5 DEF BasisInv, RealIsRecorded
  <2>8. AwaitedEntries'
    BY <1>2, <1>5, <2>3, <2>5, <2>6 DEF BasisInv, AwaitedEntries
  <2>9. OpenBasis'
    BY <1>2, <1>3, <2>3, <2>5 DEF BasisInv, OpenBasis
  <2> QED BY <2>7, <2>8, <2>9 DEF BasisInv
<1>8. CASE Unknown(f)
  BY <1>2, <1>8, BasisStays DEF Unknown
<1> QED BY <1>6, <1>7, <1>8 DEF UserEvent, f

\* An executed order leaves every basis to its trade.
LEMMA BasisExecuted ==
  ASSUME TypeOK, BasisInv, NEW c \in calls, Executed(c)
  PROVE  BasisInv'
<1> DEFINE d == [c EXCEPT !.done = TRUE]
<1>1. c \in CallsTo(Len(rows))
  BY DEF TypeOK, TradeTypes
<1>2. d.leg = c.leg /\ d.row = c.row
  BY <1>1 DEF CallsTo
<1>3. calls' = (calls \ {c}) \cup {d}
  BY DEF Executed
<1>4. UNCHANGED <<rows, openId, pendingIn, pendingOut>>
  BY DEF Executed, trade
<1> HIDE DEF d
<1>5. AwaitedEntries'
  BY <1>2, <1>3, <1>4 DEF BasisInv, AwaitedEntries
<1> QED BY <1>4, <1>5 DEF BasisInv, RealIsRecorded, OpenBasis

\* Every step keeps fills and bases apart.
LEMMA BasisStep ==
  ASSUME TypeOK, BasisInv, [Next]_vars
  PROVE  BasisInv'
<1>1. ASSUME NEW decision \in Decisions, ClosedBar(decision)
      PROVE  BasisInv'
  BY <1>1, BasisStays DEF ClosedBar, trade
<1>2. CASE Skipped \/ InsertFails \/ CacheExpires \/ UNCHANGED vars
  BY <1>2, BasisStays
     DEF Skipped, InsertFails, CacheExpires, vars, trade
<1>3. CASE CloseTrade
  <2>1. PICK t \in Tasks :
          calls' = calls \cup {[task |-> t, leg |-> "out", row |-> openId,
                                done |-> FALSE]}
    BY <1>3, Submitted DEF CloseTrade
  <2>2. UNCHANGED <<rows, openId, pendingIn, pendingOut>>
    BY <1>3 DEF CloseTrade, trade
  <2> QED BY <2>1, <2>2 DEF BasisInv, RealIsRecorded, AwaitedEntries, OpenBasis
<1>4. ASSUME NEW c \in calls, Opened(c)
      PROVE  BasisInv'
  <2>1. /\ c.leg = "in" /\ calls' = calls \ {c} /\ openId' = c.row
        /\ pendingIn' = pendingIn \cup {c.row} /\ UNCHANGED <<rows, pendingOut>>
    BY <1>4 DEF Opened
  <2> QED BY <2>1 DEF BasisInv, RealIsRecorded, AwaitedEntries, OpenBasis
<1>5. ASSUME NEW c \in calls, OpenFails(c)
      PROVE  BasisInv'
  <2>1. calls' = calls \ {c} /\ UNCHANGED <<openId, pendingIn, pendingOut>>
    BY <1>5 DEF OpenFails
  <2>2. DOMAIN rows' = DOMAIN rows /\ DOMAIN rows = 1..Len(rows)
        /\ openId \in 0..Len(rows) /\ Len(rows) \in Nat
    BY <1>5, Members DEF OpenFails, ErrorRow, TypeOK, TradeTypes
  <2>3. \A r \in 1..Len(rows) : /\ rows'[r].entry = rows[r].entry
                                /\ rows'[r].meta = rows[r].meta
                                /\ rows'[r].pnl = rows[r].pnl
    BY <1>5, ErrorRows
  <2>4. \A p \in pendingOut \cup calls : p.row \in 1..Len(rows)
    BY Members
  <2>5. RealIsRecorded'
    BY <2>1, <2>2, <2>3, <2>4 DEF BasisInv, RealIsRecorded
  <2>6. AwaitedEntries'
    BY <2>1, <2>3, <2>4 DEF BasisInv, AwaitedEntries
  <2>7. OpenBasis'
    BY <2>1, <2>2, <2>3 DEF BasisInv, OpenBasis
  <2> QED BY <2>5, <2>6, <2>7 DEF BasisInv
<1>6. ASSUME NEW c \in calls, Closed(c) \/ CloseFails(c)
      PROVE  BasisInv'
  BY <1>6, BasisBooked DEF Closed, CloseFails
<1>7. ASSUME NEW c \in calls, Executed(c)
      PROVE  BasisInv'
  BY <1>7, BasisExecuted
<1>8. ASSUME NEW pause \in BOOLEAN, Operator(pause)
      PROVE  BasisInv'
  BY <1>8, BasisStays DEF Operator, trade
<1>9. CASE Restart
  BY <1>9 DEF Restart, BasisInv, RealIsRecorded, AwaitedEntries, OpenBasis
<1> QED BY <1>1, <1>2, <1>3, <1>4, <1>5, <1>6, <1>7, <1>8, <1>9, BasisOpenTrade,
           BasisUserEvent
        DEF Next, Dispatch, Answer, Executes

\* Late, crossing and lost fills never make one trade's price the basis of
\* another, whatever bars close, orders fail or processes restart meanwhile.
THEOREM BasisSafe == Spec => []BasisIsRecordedEntry
<1>1. Init => BasisInv
  BY DEF Init, BasisInv, RealIsRecorded, AwaitedEntries, OpenBasis
<1>2. TypeOK /\ BasisInv /\ [Next]_vars => BasisInv'
  BY BasisStep
<1>3. BasisInv => BasisIsRecordedEntry
  BY DEF BasisInv, RealIsRecorded, OpenBasis, BasisIsRecordedEntry
<1> QED BY <1>1, <1>2, <1>3, TypeCorrect, PTL DEF Spec
=============================================================================
