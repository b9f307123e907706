------------------------ MODULE LiveConductorProofs ------------------------
(***************************************************************************)
(* Proofs about LiveConductor for every set of strategies, size limit,     *)
(* poll limit, fault set and bound.                                        *)
(***************************************************************************)
EXTENDS LiveConductor, TLAPS

\* The memory of the process and the awaited call are always well typed,
\* whatever fails: no exception path leaves a half-made state behind.
THEOREM TypeCorrect == Spec => []TypeOK
<1>1. Init => TypeOK
  <2> SUFFICES ASSUME Init PROVE TypeOK
    OBVIOUS
  <2>1. events \in Seq({"activated", "cleared"})
    BY DEF Init
  <2>2. call \in [op : Ops, why : Callers, qty : Int, execs : Nat]
    BY DEF Init, FreshProcess, NoCall, Ops, Callers
  <2>3. /\ executable \subseteq Strategies
        /\ due \subseteq Timeframes /\ toAsk \subseteq Strategies
    BY DEF Init, FreshProcess
  <2>4. active \in BOOLEAN
    BY DEF Init, FreshProcess
  <2>5. /\ position \in Int /\ fsm \in FsmStates
        /\ lastId \in Nat /\ pc \in {"idle", "bar", "rows", "coord", "call"}
        /\ pollTo \in Nat /\ net \in Int /\ restarts \in Nat /\ late \in 0..2
        /\ drift \in Drifts /\ unread \subseteq Reads
    BY DEF Init, FreshProcess, FsmStates, Drifts
  <2>6. QED
    BY <2>1, <2>2, <2>3, <2>4, <2>5 DEF TypeOK
<1>2. TypeOK /\ [Next]_vars => TypeOK'
  <2> SUFFICES ASSUME TypeOK, [Next]_vars PROVE TypeOK'
    OBVIOUS
  <2> USE DEF TypeOK, Drifts
  <2>1. CASE Quote
    BY <2>1 DEF Quote
  <2>2. ASSUME NEW ok \in BOOLEAN, BeginBar(ok) PROVE TypeOK'
    <3>1. pollTo' \in Nat
      BY <2>2, ConstantsAssumption DEF BeginBar, PollUpTo, Lower
    <3>2. QED
      BY <2>2, <3>1 DEF BeginBar, Tick, FsmStates, Reads
  <2>3. CASE ReadRow
    <3>1. lastId' \in Nat
      BY <2>3 DEF ReadRow, NextSeenId
    <3>2. active' \in BOOLEAN
      BY <2>3 DEF ReadRow
    <3>3. /\ call' \in [op : Ops, why : Callers, qty : Int, execs : Nat]
          /\ pc' \in {"idle", "bar", "rows", "coord", "call"}
      BY <2>3 DEF ReadRow, StartFlatten, Call, Ops, Callers
    <3>4. QED
      BY <2>3, <3>1, <3>2, <3>3 DEF ReadRow
  <2>4. CASE RowsRead
    BY <2>4 DEF RowsRead, FinishBar
  <2>5. ASSUME NEW s \in Strategies, ForceFlat(s) PROVE TypeOK'
    BY <2>5 DEF ForceFlat, StartFlatten, Call, Ops, Callers
  <2>6. CASE NoOrder
    BY <2>6 DEF NoOrder, FinishBar
  <2>7. CASE StrategyRaises
    BY <2>7 DEF StrategyRaises, DropQuote
  <2>8. ASSUME NEW s \in Strategies, NEW side \in Sides,
               RequestReversal(s, side)
        PROVE  TypeOK'
    BY <2>8 DEF RequestReversal, StartFlatten, Call, Ops, Callers, FsmStates,
                Sides
  <2>9. ASSUME NEW s \in Strategies, NEW side \in Sides,
               NEW size \in 1..MaxSize, ExecuteSignal(s, side, size)
        PROVE  TypeOK'
    <3>1. side * size \in Int
      BY ConstantsAssumption DEF Sides
    <3>2. late' \in 0..2
      BY <2>9 DEF ExecuteSignal, Lower
    <3>3. QED
      BY <2>9, <3>1, <3>2 DEF ExecuteSignal, Call, Ops, Callers
  <2>10. CASE PositionsRead
    <3>1. CASE net = 0
      BY <2>10, <3>1 DEF PositionsRead, AfterFlatten, ClosedPosition,
                         OnPositionClosed, FinishBar, NoCall, Ops, Callers,
                         FsmStates
    <3>2. CASE net # 0
      BY <2>10, <3>2 DEF PositionsRead, Call, Ops, Callers
    <3>3. QED
      BY <3>1, <3>2
  <2>11. CASE PositionsRaise
    <3>1. unread' \subseteq Reads
      BY <2>11 DEF PositionsRaise
    <3>2. QED
      BY <2>11, <3>1 DEF PositionsRaise, FlattenRaises, DropQuote, NoCall, Ops,
                         Callers
  <2>12. CASE CloseAnswered
    BY <2>12 DEF CloseAnswered, AfterFlatten, ClosedPosition, OnPositionClosed,
                 FinishBar, NoCall, Ops, Callers, FsmStates
  <2>13. CASE EntryAccepted
    BY <2>13 DEF EntryAccepted, FinishBar, NoCall, Ops, Callers
  <2>14. CASE EntryRaises
    BY <2>14 DEF EntryRaises, DropQuote, NoCall, Ops, Callers
  <2>15. CASE OrderExecuted
    <3>1. call' \in [op : Ops, why : Callers, qty : Int, execs : Nat]
      BY <2>15, SMTT(30) DEF OrderExecuted
    <3>2. net' \in Int
      BY <2>15 DEF OrderExecuted
    <3>3. QED
      BY <2>15, <3>1, <3>2 DEF OrderExecuted
  <2>16. CASE BracketFills
    BY <2>16 DEF BracketFills, procVars
  <2>17. ASSUME NEW kind \in {"activated", "cleared"}, Operator(kind)
         PROVE  TypeOK'
    BY <2>17 DEF Operator, procVars
  <2>18. CASE Restart
    <3>1. call' \in [op : Ops, why : Callers, qty : Int, execs : Nat]
      BY <2>18 DEF Restart, NoCall, Ops, Callers
    <3>2. /\ executable' \subseteq Strategies
          /\ due' \subseteq Timeframes /\ toAsk' \subseteq Strategies
      BY <2>18 DEF Restart
    <3>3. active' \in BOOLEAN
      BY <2>18 DEF Restart
    <3>4. /\ position' \in Int /\ fsm' \in FsmStates
          /\ lastId' \in Nat /\ pollTo' \in Nat
          /\ pc' \in {"idle", "bar", "rows", "coord", "call"}
          /\ restarts' \in Nat
      BY <2>18 DEF Restart, FsmStates
    <3>5. QED
      BY <2>18, <3>1, <3>2, <3>3, <3>4 DEF Restart
  <2>19. CASE UNCHANGED vars
    BY <2>19 DEF vars
  <2>20. QED
    BY <2>1, <2>2, <2>3, <2>4, <2>5, <2>6, <2>7, <2>8, <2>9, <2>10, <2>11,
       <2>12, <2>13, <2>14, <2>15, <2>16, <2>17, <2>18, <2>19
       DEF Next, Step, World
<1>3. QED
  BY <1>1, <1>2, PTL DEF Spec
-----------------------------------------------------------------------------
(* The kill-switch cursor.  That the flag is the kind of the row under the *)
(* cursor is inductive once a poll is known never to run past the table.   *)
SwitchInv == SwitchReflectsLastSeen /\ pollTo <= Len(events)

\* What a step that touches neither the cursor nor the table leaves alone.
LEMMA SwitchFrame ==
  ASSUME SwitchInv, UNCHANGED <<active, lastId, pollTo, events>>
  PROVE  SwitchInv'
BY DEF SwitchInv, SwitchReflectsLastSeen

\* Whatever a step does, the flag stays the latest event seen.
LEMMA SwitchInit == Init => SwitchInv
BY DEF Init, FreshProcess, SwitchInv, SwitchReflectsLastSeen

\* Every step keeps the flag the kind of the last row seen.
LEMMA SwitchStep ==
  ASSUME TypeOK, SwitchInv, [Next]_vars PROVE SwitchInv'
<1>1. CASE Quote
  BY <1>1, SwitchFrame DEF Quote
<1>2. ASSUME NEW ok \in BOOLEAN, BeginBar(ok) PROVE SwitchInv'
  <2>1. pollTo' <= Len(events) /\ UNCHANGED <<active, lastId, events>>
    BY <1>2, ConstantsAssumption
       DEF BeginBar, PollUpTo, Lower, TypeOK, SwitchInv,
           SwitchReflectsLastSeen
  <2>2. QED
    BY <2>1 DEF SwitchInv, SwitchReflectsLastSeen
<1>3. CASE ReadRow
  <2>1. /\ lastId' = lastId + 1 /\ lastId' <= Len(events)
        /\ lastId' > 0 /\ UNCHANGED <<events, pollTo>>
    BY <1>3 DEF ReadRow, NextSeenId, TypeOK, SwitchInv
  <2>2. events[lastId'] \in {"activated", "cleared"}
    BY <2>1 DEF TypeOK
  <2>3. active' <=> events[lastId'] = "activated"
    BY <1>3, <2>1, <2>2 DEF ReadRow, TypeOK
  <2>4. QED
    BY <2>1, <2>3 DEF SwitchInv, SwitchReflectsLastSeen
<1>4. CASE RowsRead
  BY <1>4, SwitchFrame DEF RowsRead
<1>5. ASSUME NEW s \in Strategies, ForceFlat(s) PROVE SwitchInv'
  BY <1>5, SwitchFrame DEF ForceFlat
<1>6. CASE NoOrder \/ StrategyRaises
  BY <1>6, SwitchFrame DEF NoOrder, StrategyRaises
<1>7. ASSUME NEW s \in Strategies, NEW side \in Sides,
             RequestReversal(s, side)
      PROVE  SwitchInv'
  BY <1>7, SwitchFrame DEF RequestReversal
<1>8. ASSUME NEW s \in Strategies, NEW side \in Sides,
             NEW size \in 1..MaxSize, ExecuteSignal(s, side, size)
      PROVE  SwitchInv'
  BY <1>8, SwitchFrame DEF ExecuteSignal
<1>9. CASE \/ PositionsRead \/ PositionsRaise \/ CloseAnswered
           \/ EntryAccepted \/ EntryRaises \/ OrderExecuted
  BY <1>9, SwitchFrame DEF PositionsRead, PositionsRaise, CloseAnswered,
                           EntryAccepted, EntryRaises, OrderExecuted
<1>10. CASE BracketFills
  BY <1>10, SwitchFrame DEF BracketFills, procVars
<1>11. ASSUME NEW kind \in {"activated", "cleared"}, Operator(kind)
       PROVE  SwitchInv'
  <2>1. /\ Len(events') = Len(events) + 1
        /\ \A i \in 1..Len(events) : events'[i] = events[i]
        /\ UNCHANGED <<active, lastId, pollTo>>
    BY <1>11 DEF Operator, TypeOK, procVars
  <2>2. QED
    BY <2>1 DEF SwitchInv, SwitchReflectsLastSeen, TypeOK
<1>12. CASE Restart
  BY <1>12 DEF Restart, SwitchInv, SwitchReflectsLastSeen, TypeOK
<1>13. CASE UNCHANGED vars
  BY <1>13, SwitchFrame DEF vars
<1>14. QED
  BY <1>1, <1>2, <1>3, <1>4, <1>5, <1>6, <1>7, <1>8, <1>9, <1>10, <1>11,
     <1>12, <1>13 DEF Next, Step, World

\* The flag is the latest event seen, and no poll runs past the table.
LEMMA SwitchInvariant == Spec => [](TypeOK /\ SwitchInv)
<1>1. TypeOK /\ SwitchInv /\ [Next]_vars => SwitchInv'
  BY SwitchStep
<1>2. QED
  BY <1>1, SwitchInit, TypeCorrect, PTL DEF Spec

\* Whatever fails or restarts, the switch flag is the latest event seen.
THEOREM SwitchSafe == Spec => []SwitchReflectsLastSeen
<1>1. SwitchInv => SwitchReflectsLastSeen
  BY DEF SwitchInv
<1>2. QED
  BY <1>1, SwitchInvariant, PTL
-----------------------------------------------------------------------------
(* No pyramiding and no flip of the cached position, whatever fails.  The  *)
(* conductor has no such guard: it follows from what an executable         *)
(* strategy is told and from flat-first, hence the first lemma.            *)
CacheInv ==
  call.op = "entry" =>
    /\ position = 0
    /\ call.qty # 0 /\ -MaxSize <= call.qty /\ call.qty <= MaxSize

\* A winner that is not routed through flat-first finds the cache flat.
LEMMA EntryOnlyFromFlat ==
  ASSUME TypeOK, NEW s \in Strategies, NEW side \in Sides,
         Wins(s, side), ~Opposite(side)
  PROVE  position = 0
<1>1. \/ position = 0
      \/ side = -SignOf(position) /\ side = SignOf(position)
  BY DEF Wins, MayEmit, SeenPosition, Opposite
<1>2. SignOf(position) \in {-1, 0, 1} /\ side \in {1, -1}
  BY DEF SignOf, Sides
<1>3. QED
  BY <1>1, <1>2

\* The signed quantity of an order is bounded by the size limit and never 0.
LEMMA OrderQuantity ==
  ASSUME NEW side \in Sides, NEW size \in 1..MaxSize
  PROVE  /\ side * size \in Int /\ side * size # 0
         /\ -MaxSize <= side * size /\ side * size <= MaxSize
<1>1. MaxSize \in Nat
  BY ConstantsAssumption
<1>2. CASE side = 1
  BY <1>1, <1>2
<1>3. CASE side = -1
  BY <1>1, <1>3
<1>4. QED
  BY <1>2, <1>3 DEF Sides

\* An entry in flight was sent from a flat cache, and the cache stays flat
\* until it is answered.
LEMMA CacheInvStep == TypeOK /\ CacheInv /\ [Next]_vars => CacheInv'
<1> SUFFICES ASSUME TypeOK, CacheInv, [Next]_vars PROVE CacheInv'
  OBVIOUS
<1> USE DEF CacheInv
<1>1. CASE Quote
  BY <1>1 DEF Quote
<1>2. ASSUME NEW ok \in BOOLEAN, BeginBar(ok) PROVE CacheInv'
  BY <1>2 DEF BeginBar
<1>3. CASE ReadRow
  BY <1>3 DEF ReadRow, StartFlatten, Call
<1>4. CASE RowsRead \/ NoOrder \/ StrategyRaises
  BY <1>4 DEF RowsRead, NoOrder, StrategyRaises
<1>5. ASSUME NEW s \in Strategies, ForceFlat(s) PROVE CacheInv'
  BY <1>5 DEF ForceFlat, StartFlatten, Call
<1>6. ASSUME NEW s \in Strategies, NEW side \in Sides,
             RequestReversal(s, side)
      PROVE  CacheInv'
  BY <1>6 DEF RequestReversal, StartFlatten, Call
<1>7. ASSUME NEW s \in Strategies, NEW side \in Sides,
             NEW size \in 1..MaxSize, ExecuteSignal(s, side, size)
      PROVE  CacheInv'
  <2>1. position = 0
    BY <1>7, EntryOnlyFromFlat DEF ExecuteSignal
  <2>2. call'.qty = side * size /\ position' = position
    BY <1>7 DEF ExecuteSignal, Call
  <2>3. QED
    BY <2>1, <2>2, OrderQuantity
<1>8. CASE \/ PositionsRead \/ PositionsRaise \/ CloseAnswered
           \/ EntryAccepted \/ EntryRaises
  BY <1>8 DEF PositionsRead, PositionsRaise, CloseAnswered, EntryAccepted,
              EntryRaises, NoCall, Call
<1>9. CASE OrderExecuted
  BY <1>9 DEF OrderExecuted, TypeOK
<1>10. CASE BracketFills
  BY <1>10 DEF BracketFills, procVars
<1>11. ASSUME NEW kind \in {"activated", "cleared"}, Operator(kind)
       PROVE  CacheInv'
  BY <1>11 DEF Operator, procVars
<1>12. CASE Restart
  BY <1>12 DEF Restart, NoCall
<1>13. CASE UNCHANGED vars
  BY <1>13 DEF vars
<1>14. QED
  BY <1>1, <1>2, <1>3, <1>4, <1>5, <1>6, <1>7, <1>8, <1>9, <1>10, <1>11,
     <1>12, <1>13 DEF Next, Step, World

\* Every step of the conductor opens a trade in the cache, closes it, or
\* leaves it alone.
LEMMA CacheStep == TypeOK /\ CacheInv /\ [Next]_vars => [Cache!Next]_position
<1> SUFFICES ASSUME TypeOK, CacheInv, [Next]_vars
             PROVE  Cache!Next \/ position' = position
  OBVIOUS
<1> USE DEF Cache!Next, Cache!OpenTrade, Cache!CloseTrade, Cache!Sizes
<1>1. CASE position' = 0
  <2>1. position # 0 => Cache!CloseTrade
    BY <1>1
  <2>2. QED
    BY <1>1, <2>1
<1>2. CASE EntryAccepted
  <2>1. /\ position = 0 /\ position' = call.qty
        /\ call.qty \in Int /\ call.qty # 0
        /\ -MaxSize <= call.qty /\ call.qty <= MaxSize
    BY <1>2 DEF EntryAccepted, CacheInv, TypeOK
  <2> DEFINE n == IF call.qty > 0 THEN call.qty ELSE -call.qty
  <2>2. n \in 1..MaxSize /\ position' \in {n, -n}
    BY <2>1, ConstantsAssumption
  <2>3. QED
    BY <2>1, <2>2
<1>3. CASE PositionsRead \/ CloseAnswered \/ Restart
  BY <1>1, <1>3 DEF PositionsRead, CloseAnswered, Restart, AfterFlatten,
                    ClosedPosition
<1>4. CASE UNCHANGED position
  BY <1>4
<1>5. ASSUME NEW ok \in BOOLEAN, BeginBar(ok) PROVE UNCHANGED position
  BY <1>5 DEF BeginBar
<1>6. ASSUME NEW s \in Strategies, NEW side \in Sides,
             \/ ForceFlat(s) \/ RequestReversal(s, side)
             \/ \E size \in 1..MaxSize : ExecuteSignal(s, side, size)
      PROVE  UNCHANGED position
  BY <1>6 DEF ForceFlat, RequestReversal, ExecuteSignal
<1>7. ASSUME NEW s \in Strategies, ForceFlat(s) PROVE UNCHANGED position
  BY <1>7 DEF ForceFlat
<1>8. ASSUME \/ Quote \/ ReadRow \/ RowsRead \/ NoOrder \/ StrategyRaises
             \/ PositionsRaise \/ EntryRaises \/ OrderExecuted
             \/ BracketFills \/ UNCHANGED vars
             \/ \E kind \in {"activated", "cleared"} : Operator(kind)
      PROVE  UNCHANGED position
  BY <1>8 DEF Quote, ReadRow, RowsRead, NoOrder, StrategyRaises,
              PositionsRaise, EntryRaises, OrderExecuted, BracketFills,
              Operator, procVars, vars
<1>9. QED
  BY <1>2, <1>3, <1>4, <1>5, <1>6, <1>7, <1>8 DEF Next, Step, World

\* The cached position obeys the single-trade discipline under every fault.
THEOREM CacheRefinesSingleTrade == Spec => CacheIsSingleTrade
<1>1. Init => CacheInv /\ Cache!Init
  BY DEF Init, FreshProcess, NoCall, CacheInv, Cache!Init
<1>2. QED
  BY <1>1, CacheInvStep, CacheStep, TypeCorrect, PTL
     DEF Spec, CacheIsSingleTrade, Cache!Spec
-----------------------------------------------------------------------------
(* The account, under every fault.  Unless an order went astray, the cache *)
(* and the account differ only by what the awaited call is about to do, or *)
(* because a resting order closed the trade that the cache still shows.    *)
Agreement ==
  IF drift = "filled" THEN net = 0 /\ position # 0 ELSE net = position

EntryInFlight ==
  \/ drift = "none" /\ call.execs = 0 /\ net = 0
  \/ drift = "none" /\ call.execs = 1 /\ net = call.qty
  \/ drift = "filled" /\ call.execs = 1 /\ net = 0

CloseInFlight ==
  /\ drift = "none"
  /\ \/ call.execs = 0 /\ net = -call.qty
     \/ call.execs = 1 /\ net = 0

AccountInv ==
  drift # "lost" =>
    IF pc = "call" /\ call.op = "entry" THEN EntryInFlight
    ELSE IF pc = "call" /\ call.op = "close" THEN CloseInFlight
    ELSE Agreement

\* Outside a call for an entry or a close, a step that changes neither the
\* account nor the cache keeps them in agreement.
LEMMA AgreementFrame ==
  ASSUME AccountInv, UNCHANGED <<position, net, drift>>,
         ~(pc = "call" /\ call.op \in {"entry", "close"}),
         ~(pc' = "call" /\ call'.op \in {"entry", "close"})
  PROVE  AccountInv'
BY DEF AccountInv, Agreement

\* A flatten that returns with the account flat leaves the cache flat too.
LEMMA FlattenReturns ==
  ASSUME TypeOK, AfterFlatten(call.why), UNCHANGED net,
         drift' # "lost" => net = 0 /\ drift' = "none"
  PROVE  AccountInv'
<1>1. position' = 0 /\ net' = net
  BY DEF AfterFlatten, ClosedPosition
<1>2. pc' \in {"rows", "coord", "idle", "bar"}
  BY DEF AfterFlatten, FinishBar
<1>3. QED
  BY <1>1, <1>2 DEF AccountInv, Agreement

\* Every step keeps that relation, whatever fails.
LEMMA AccountInvStep ==
  ASSUME TypeOK, CacheInv, AccountInv, [Next]_vars
  PROVE  AccountInv'
<1>1. CASE Quote
  BY <1>1, AgreementFrame DEF Quote
<1>2. ASSUME NEW ok \in BOOLEAN, BeginBar(ok) PROVE AccountInv'
  BY <1>2, AgreementFrame DEF BeginBar
<1>3. CASE ReadRow
  BY <1>3, AgreementFrame DEF ReadRow, StartFlatten, Call
<1>4. CASE RowsRead \/ NoOrder \/ StrategyRaises
  BY <1>4, AgreementFrame
     DEF RowsRead, NoOrder, StrategyRaises, FinishBar, DropQuote
<1>5. ASSUME NEW s \in Strategies, ForceFlat(s) PROVE AccountInv'
  BY <1>5, AgreementFrame DEF ForceFlat, StartFlatten, Call
<1>6. ASSUME NEW s \in Strategies, NEW side \in Sides,
             RequestReversal(s, side)
      PROVE  AccountInv'
  BY <1>6, AgreementFrame DEF RequestReversal, Wins, StartFlatten, Call
<1>7. ASSUME NEW s \in Strategies, NEW side \in Sides,
             NEW size \in 1..MaxSize, ExecuteSignal(s, side, size)
      PROVE  AccountInv'
  <2>1. position = 0
    BY <1>7, EntryOnlyFromFlat DEF ExecuteSignal
  <2>2. /\ pc = "coord" /\ pc' = "call" /\ call'.op = "entry"
        /\ call'.execs = 0 /\ UNCHANGED <<net, drift>>
    BY <1>7 DEF ExecuteSignal, Wins, Call
  <2>3. drift \in Drifts
    BY DEF TypeOK
  <2>4. QED
    BY <2>1, <2>2, <2>3 DEF AccountInv, Agreement, EntryInFlight, Drifts
<1>8. CASE PositionsRead
  <2>1. CASE net = 0
    BY <1>8, <2>1, FlattenReturns DEF PositionsRead
  <2>2. CASE net # 0
    <3>1. /\ call'.op = "close" /\ call'.qty = -net /\ call'.execs = 0
          /\ pc' = "call" /\ UNCHANGED net /\ drift' = "none"
      BY <1>8, <2>2 DEF PositionsRead, Call
    <3>2. QED
      BY <3>1 DEF AccountInv, CloseInFlight, TypeOK
  <2>3. QED
    BY <2>1, <2>2
<1>9. CASE PositionsRaise
  BY <1>9, AgreementFrame DEF PositionsRaise, FlattenRaises, DropQuote
<1>10. CASE CloseAnswered
  <2>1. /\ pc = "call" /\ call.op = "close" /\ AfterFlatten(call.why)
        /\ drift' = IF call.execs = 0 THEN "lost" ELSE drift
        /\ UNCHANGED net
    BY <1>10 DEF CloseAnswered
  <2>2. drift' # "lost" => net = 0 /\ drift' = "none"
    BY <2>1 DEF AccountInv, CloseInFlight
  <2>3. QED
    BY <2>1, <2>2, FlattenReturns
<1>11. CASE EntryAccepted
  <2>1. /\ pc = "call" /\ call.op = "entry" /\ call.execs > 0
        /\ position = 0 /\ call.qty # 0 /\ position' = position + call.qty
        /\ UNCHANGED <<net, drift>> /\ pc' \in {"idle", "bar"}
    BY <1>11 DEF EntryAccepted, FinishBar, CacheInv
  <2>2. position' = call.qty
    BY <2>1 DEF TypeOK
  <2>3. QED
    BY <2>1, <2>2 DEF AccountInv, EntryInFlight, Agreement
<1>12. CASE EntryRaises
  <2>1. /\ pc = "call" /\ call.op = "entry" /\ position = 0
        /\ drift' = IF call.execs > 0 THEN "lost" ELSE drift
        /\ UNCHANGED <<net, position>> /\ pc' = "idle"
    BY <1>12 DEF EntryRaises, DropQuote, CacheInv
  <2>2. QED
    BY <2>1 DEF AccountInv, EntryInFlight, Agreement
<1>13. CASE OrderExecuted
  <2>1. /\ pc = "call" /\ call.op \in {"entry", "close"} /\ pc' = "call"
        /\ net' = net + call.qty
        /\ call' = [call EXCEPT !.execs = call.execs + 1]
        /\ drift' = IF call.execs > 0 THEN "lost" ELSE drift
    BY <1>13 DEF OrderExecuted
  <2>2. /\ call'.op = call.op /\ call'.qty = call.qty
        /\ call'.execs = call.execs + 1
    BY <2>1 DEF TypeOK
  <2>3. CASE call.execs = 0
    <3>1. CASE call.op = "entry"
      BY <2>1, <2>2, <2>3, <3>1 DEF AccountInv, EntryInFlight, TypeOK
    <3>2. CASE call.op = "close"
      BY <2>1, <2>2, <2>3, <3>2 DEF AccountInv, CloseInFlight, TypeOK
    <3>3. QED
      BY <2>1, <3>1, <3>2
  <2>4. CASE call.execs > 0
    BY <2>1, <2>4 DEF AccountInv
  <2>5. QED
    BY <2>3, <2>4 DEF TypeOK
<1>14. CASE BracketFills
  <2>1. /\ net # 0 /\ net' = 0 /\ UNCHANGED <<position, pc, call>>
        /\ drift' = IF drift = "lost" \/ (call.op = "close" /\ call.execs = 0)
                    THEN "lost" ELSE "filled"
    BY <1>14 DEF BracketFills, procVars
  <2>2. QED
    BY <2>1 DEF AccountInv, EntryInFlight, CloseInFlight, Agreement
<1>15. ASSUME NEW kind \in {"activated", "cleared"}, Operator(kind)
       PROVE  AccountInv'
  BY <1>15 DEF Operator, procVars, AccountInv, EntryInFlight, CloseInFlight,
               Agreement
<1>16. CASE Restart
  BY <1>16 DEF Restart, AccountInv, Agreement
<1>17. CASE UNCHANGED vars
  BY <1>17 DEF vars, AccountInv, EntryInFlight, CloseInFlight, Agreement
<1>18. QED
  BY <1>1, <1>2, <1>3, <1>4, <1>5, <1>6, <1>7, <1>8, <1>9, <1>10, <1>11,
     <1>12, <1>13, <1>14, <1>15, <1>16, <1>17 DEF Next, Step, World

\* Unless an order is astray after the step, the account itself is only
\* opened from flat and closed in full.
LEMMA AccountStep ==
  ASSUME TypeOK, CacheInv, AccountInv, [Next]_vars, drift' # "lost"
  PROVE  [Account!Next]_net
<1> USE DEF Account!Next, Account!OpenTrade, Account!CloseTrade, Account!Sizes
<1>1. CASE OrderExecuted
  <2>1. /\ pc = "call" /\ call.execs = 0 /\ call.op \in {"entry", "close"}
        /\ net' = net + call.qty /\ drift # "lost"
    BY <1>1 DEF OrderExecuted, TypeOK
  <2>2. CASE call.op = "entry"
    <3>1. /\ net = 0 /\ net' = call.qty /\ call.qty \in Int
          /\ call.qty # 0 /\ -MaxSize <= call.qty /\ call.qty <= MaxSize
      BY <2>1, <2>2 DEF AccountInv, EntryInFlight, CacheInv, TypeOK
    <3> DEFINE n == IF call.qty > 0 THEN call.qty ELSE -call.qty
    <3>2. n \in 1..MaxSize /\ net' \in {n, -n}
      BY <3>1, ConstantsAssumption
    <3>3. QED
      BY <3>1, <3>2
  <2>3. CASE call.op = "close"
    BY <2>1, <2>3 DEF AccountInv, CloseInFlight, TypeOK
  <2>4. QED
    BY <2>1, <2>2, <2>3
<1>2. CASE UNCHANGED net
  BY <1>2
<1>3. CASE BracketFills
  BY <1>3 DEF BracketFills
<1>4. ASSUME \/ Quote \/ ReadRow \/ RowsRead \/ NoOrder \/ StrategyRaises
             \/ PositionsRead \/ PositionsRaise \/ CloseAnswered
             \/ EntryAccepted \/ EntryRaises \/ Restart \/ UNCHANGED vars
             \/ \E ok \in BOOLEAN : BeginBar(ok)
             \/ \E kind \in {"activated", "cleared"} : Operator(kind)
      PROVE  UNCHANGED net
  BY <1>4 DEF Quote, BeginBar, ReadRow, RowsRead, NoOrder, StrategyRaises,
              PositionsRead, PositionsRaise, CloseAnswered, EntryAccepted,
              EntryRaises, Operator, Restart, vars
<1>5. ASSUME NEW s \in Strategies, NEW side \in Sides,
             \/ RequestReversal(s, side)
             \/ \E size \in 1..MaxSize : ExecuteSignal(s, side, size)
      PROVE  UNCHANGED net
  BY <1>5 DEF RequestReversal, ExecuteSignal
<1>6. ASSUME NEW s \in Strategies, ForceFlat(s) PROVE UNCHANGED net
  BY <1>6 DEF ForceFlat
<1>7. QED
  BY <1>1, <1>2, <1>3, <1>4, <1>5, <1>6 DEF Next, Step, World

\* Whatever fails, the account stays in that relation to the cache.
LEMMA AccountInvariant == Spec => [](TypeOK /\ CacheInv /\ AccountInv)
<1>1. Init => CacheInv /\ AccountInv
  BY DEF Init, FreshProcess, NoCall, CacheInv, AccountInv, Agreement
<1>2. TypeOK /\ CacheInv /\ AccountInv /\ [Next]_vars
        => CacheInv' /\ AccountInv'
  BY CacheInvStep, AccountInvStep
<1>3. QED
  BY <1>1, <1>2, TypeCorrect, PTL DEF Spec

\* Between two broker calls the account is what the cache shows, or flat after
\* a resting order filled, until an order goes astray and again once a flatten
\* has read the positions.
THEOREM CacheTracks == Spec => []CacheTracksBroker
<1>1. AccountInv => CacheTracksBroker
  BY DEF AccountInv, Agreement, CacheTracksBroker
<1>2. QED
  BY <1>1, AccountInvariant, PTL

\* The brokerage account obeys the single-trade discipline, resting orders
\* included, whenever no order is astray.
THEOREM AccountRefines == Spec => AccountIsSingleTrade
<1>1. Init => Account!Init
  BY DEF Init, Account!Init
<1>2. TypeOK /\ CacheInv /\ AccountInv /\ [Next]_vars
        => [drift' # "lost" => Account!Next]_net
  BY AccountStep
<1>3. QED
  BY <1>1, <1>2, AccountInvariant, PTL DEF Spec, AccountIsSingleTrade
-----------------------------------------------------------------------------
(* The kill switch: only the activation's own flatten runs while it is on, *)
(* and a failure of that flatten's read stays on record until the next one *)
(* succeeds, which is not before the switch has been cleared.              *)
SwitchGuard ==
  active => /\ pc # "coord"
            /\ pc = "call" => call.why = "kill" /\ call.op # "entry"

KilledInv == SwitchGuard /\ FlatWhileKilled

\* A step that leaves the account alone and is not taken in the activation's
\* flatten keeps the account flat.
LEMMA KilledFrame ==
  ASSUME KilledInv, SwitchGuard', UNCHANGED <<net, drift>>,
         "kill" \in unread => "kill" \in unread',
         active' => active /\ ~(pc = "call" /\ call.why = "kill")
  PROVE  KilledInv'
BY DEF KilledInv, FlatWhileKilled, FlattenedWhileActive

\* Only an activation raises the flag, and it flattens before the bar goes on.
LEMMA KilledStep ==
  ASSUME TypeOK, AccountInv, KilledInv, [Next]_vars PROVE KilledInv'
<1>1. CASE Quote
  BY <1>1, KilledFrame DEF Quote, KilledInv, SwitchGuard
<1>2. ASSUME NEW ok \in BOOLEAN, BeginBar(ok) PROVE KilledInv'
  BY <1>2, KilledFrame DEF BeginBar, KilledInv, SwitchGuard
<1>3. CASE ReadRow
  <2>1. CASE pc' = "call"
    BY <1>3, <2>1 DEF ReadRow, StartFlatten, Call, KilledInv, SwitchGuard,
                      FlatWhileKilled, FlattenedWhileActive
  <2>2. CASE pc' # "call"
    <3>1. pc' = "rows" /\ pc = "rows" /\ (active' => active)
          /\ UNCHANGED <<net, drift, unread>>
      BY <1>3, <2>2 DEF ReadRow, StartFlatten
    <3>2. QED
      BY <3>1, KilledFrame DEF SwitchGuard
  <2>3. QED
    BY <2>1, <2>2
<1>4. CASE RowsRead
  BY <1>4, KilledFrame
     DEF RowsRead, SwitchBlocks, FinishBar, KilledInv, SwitchGuard
<1>5. CASE NoOrder \/ StrategyRaises
  BY <1>5, KilledFrame
     DEF NoOrder, StrategyRaises, FinishBar, DropQuote, KilledInv, SwitchGuard
<1>6. ASSUME NEW s \in Strategies, ForceFlat(s) PROVE KilledInv'
  BY <1>6, KilledFrame DEF ForceFlat, KilledInv, SwitchGuard
<1>7. ASSUME NEW s \in Strategies, NEW side \in Sides,
             RequestReversal(s, side)
      PROVE  KilledInv'
  BY <1>7, KilledFrame DEF RequestReversal, Wins, KilledInv, SwitchGuard
<1>8. ASSUME NEW s \in Strategies, NEW side \in Sides,
             NEW size \in 1..MaxSize, ExecuteSignal(s, side, size)
      PROVE  KilledInv'
  BY <1>8, KilledFrame DEF ExecuteSignal, Wins, KilledInv, SwitchGuard
<1>9. ASSUME PositionsRead \/ CloseAnswered PROVE KilledInv'
  <2>1. /\ pc = "call" /\ UNCHANGED <<net, active>>
        /\ active => call.why = "kill"
    BY <1>9 DEF PositionsRead, CloseAnswered, KilledInv, SwitchGuard
  <2>2. CASE pc' = "call"
    <3>1. call'.why = call.why /\ call'.op # "entry"
      BY <1>9, <2>2 DEF PositionsRead, CloseAnswered, AfterFlatten, FinishBar,
                        Call
    <3>2. QED
      BY <2>1, <2>2, <3>1
         DEF KilledInv, SwitchGuard, FlatWhileKilled, FlattenedWhileActive
  <2>3. CASE pc' # "call"
    <3>1. drift' # "lost" => net = 0
      BY <1>9, <2>3
         DEF PositionsRead, CloseAnswered, AccountInv, CloseInFlight
    <3>2. active => pc' = "rows"
      BY <1>9, <2>1, <2>3 DEF PositionsRead, CloseAnswered, AfterFlatten
    <3>3. QED
      BY <2>1, <3>1, <3>2
         DEF KilledInv, SwitchGuard, FlatWhileKilled, FlattenedWhileActive
  <2>4. QED
    BY <2>2, <2>3
<1>10. CASE EntryAccepted \/ EntryRaises
  <2>1. pc = "call" /\ call.op = "entry" /\ active' = active
    BY <1>10 DEF EntryAccepted, EntryRaises
  <2>2. ~active
    BY <2>1 DEF KilledInv, SwitchGuard
  <2>3. QED
    BY <2>1, <2>2
       DEF KilledInv, SwitchGuard, FlatWhileKilled, FlattenedWhileActive
<1>11. CASE OrderExecuted
  <2>1. /\ pc = "call" /\ pc' = "call" /\ active' = active
        /\ call' = [call EXCEPT !.execs = call.execs + 1]
    BY <1>11 DEF OrderExecuted
  <2>2. call'.why = call.why /\ call'.op = call.op
    BY <2>1 DEF TypeOK
  <2>3. QED
    BY <2>1, <2>2
       DEF KilledInv, SwitchGuard, FlatWhileKilled, FlattenedWhileActive
<1>12. CASE BracketFills
  BY <1>12 DEF BracketFills, procVars, KilledInv, SwitchGuard,
               FlatWhileKilled, FlattenedWhileActive
<1>13. ASSUME NEW kind \in {"activated", "cleared"}, Operator(kind)
       PROVE  KilledInv'
  BY <1>13 DEF Operator, procVars, KilledInv, SwitchGuard, FlatWhileKilled,
               FlattenedWhileActive
<1>14. CASE Restart
  BY <1>14 DEF Restart, KilledInv, SwitchGuard, FlatWhileKilled,
               FlattenedWhileActive
<1>15. CASE UNCHANGED vars
  BY <1>15 DEF vars, KilledInv, SwitchGuard, FlatWhileKilled,
               FlattenedWhileActive
<1>16. CASE PositionsRaise
  <2>1. pc = "call" /\ call.op = "read" /\ active' = active
    BY <1>16 DEF PositionsRaise
  <2>2. CASE active
    <3>1. call.why = "kill"
      BY <2>1, <2>2 DEF KilledInv, SwitchGuard
    <3>2. "kill" \in unread' /\ pc' = "idle"
      BY <1>16, <3>1 DEF PositionsRaise, FlattenRaises, DropQuote, Reads
    <3>3. QED
      BY <3>2 DEF KilledInv, SwitchGuard, FlatWhileKilled
  <2>3. CASE ~active
    BY <2>1, <2>3 DEF KilledInv, SwitchGuard, FlatWhileKilled,
                      FlattenedWhileActive
  <2>4. QED
    BY <2>2, <2>3
<1>17. QED
  BY <1>1, <1>2, <1>3, <1>4, <1>5, <1>6, <1>7, <1>8, <1>9, <1>10, <1>11,
     <1>12, <1>13, <1>14, <1>15, <1>16 DEF Next, Step, World

\* Whatever fails, the account holds nothing while the switch is active and its
\* own flatten is over, unless that flatten could not read the positions or an
\* order is astray.
THEOREM FlatWhileKilledSafe == Spec => []FlatWhileKilled
<1>1. Init => KilledInv
  BY DEF Init, FreshProcess, KilledInv, SwitchGuard, FlatWhileKilled,
         FlattenedWhileActive
<1>2. TypeOK /\ AccountInv /\ KilledInv /\ [Next]_vars => KilledInv'
  BY KilledStep
<1>3. KilledInv => FlatWhileKilled
  BY DEF KilledInv
<1>4. QED
  BY <1>1, <1>2, <1>3, AccountInvariant, PTL DEF Spec
-----------------------------------------------------------------------------
(* One late entry.  A poll reaches the newest row as long as the rows not  *)
(* yet seen fit one answer: always if the whole table does, and without    *)
(* restarts if the operator never runs further ahead than that.            *)
OnePollSuffices ==
  \/ MaxEvents <= PollLimit
  \/ "restart" \notin Faults /\ MaxUnread <= PollLimit

\* The rows ahead of the cursor fit one poll.
BacklogInv ==
  /\ Len(events) <= lastId + PollLimit
  /\ MaxEvents <= PollLimit => Len(events) <= PollLimit

\* Once an entry was late, the process is past that bar, or in a bar whose poll
\* failed, or at a poll that reaches the newest row, or in the flatten this row
\* asked for.
PollSeesAll == pollTo = Len(events)
NotPastPoll ==
  \/ "poll" \in unread
  \/ pc \in {"idle", "bar"}
  \/ pc = "rows" /\ PollSeesAll
  \/ pc = "call" /\ call.op = "entry"
  \/ pc = "call" /\ call.why = "kill" /\ PollSeesAll

LateInv ==
  /\ late \in {0, 1}
  /\ late = 1 => LastEvent = "activated" /\ NotPastPoll

\* Only the operator and a restart touch the table or move the cursor back.
LEMMA BacklogStep ==
  ASSUME OnePollSuffices, TypeOK, SwitchInv, BacklogInv, [Next]_vars
  PROVE  BacklogInv'
<1>1. ASSUME NEW kind \in {"activated", "cleared"}, Operator(kind)
      PROVE  BacklogInv'
  <2>1. /\ Len(events') = Len(events) + 1 /\ lastId' = lastId
        /\ Len(events) < MaxEvents /\ Len(events) < lastId + MaxUnread
    BY <1>1 DEF Operator, procVars, TypeOK
  <2>2. CASE MaxEvents <= PollLimit
    BY <2>1, <2>2, ConstantsAssumption DEF BacklogInv, TypeOK
  <2>3. CASE MaxUnread <= PollLimit /\ ~(MaxEvents <= PollLimit)
    BY <2>1, <2>3, ConstantsAssumption DEF BacklogInv, TypeOK
  <2>4. QED
    BY <2>2, <2>3 DEF OnePollSuffices
<1>2. CASE Restart
  <2>1. lastId' = 0 /\ events' = events /\ MaxEvents <= PollLimit
    BY <1>2 DEF Restart, OnePollSuffices
  <2>2. QED
    BY <2>1, ConstantsAssumption DEF BacklogInv, TypeOK
<1>3. CASE ReadRow
  BY <1>3, ConstantsAssumption DEF ReadRow, NextSeenId, BacklogInv, TypeOK
<1>4. ASSUME UNCHANGED <<lastId, events>> PROVE BacklogInv'
  BY <1>4 DEF BacklogInv
<1>5. ASSUME NEW s \in Strategies, NEW side \in Sides,
             \/ ForceFlat(s) \/ RequestReversal(s, side)
             \/ \E size \in 1..MaxSize : ExecuteSignal(s, side, size)
      PROVE  UNCHANGED <<lastId, events>>
  BY <1>5 DEF ForceFlat, RequestReversal, ExecuteSignal
<1>6. ASSUME NEW s \in Strategies, ForceFlat(s) PROVE UNCHANGED <<lastId, events>>
  BY <1>6 DEF ForceFlat
<1>7. ASSUME \/ Quote \/ RowsRead \/ NoOrder \/ StrategyRaises \/ PositionsRead
             \/ PositionsRaise \/ CloseAnswered \/ EntryAccepted \/ EntryRaises
             \/ OrderExecuted \/ BracketFills \/ UNCHANGED vars
             \/ \E ok \in BOOLEAN : BeginBar(ok)
      PROVE  UNCHANGED <<lastId, events>>
  BY <1>7 DEF Quote, BeginBar, RowsRead, NoOrder, StrategyRaises, PositionsRead,
              PositionsRaise, CloseAnswered, EntryAccepted, EntryRaises,
              OrderExecuted, BracketFills, procVars, vars
<1>8. QED
  BY <1>1, <1>2, <1>3, <1>4, <1>5, <1>6, <1>7 DEF Next, Step, World

\* A bar that starts after a late entry is stopped by its poll, so no second
\* entry follows.
LEMMA LateStep ==
  ASSUME OnePollSuffices, TypeOK, SwitchInv, BacklogInv, LateInv, [Next]_vars
  PROVE  LateInv'
<1> USE DEF LateInv, NotPastPoll, PollSeesAll, LastEvent
<1>1. CASE Quote
  BY <1>1 DEF Quote
<1>2. ASSUME NEW ok \in BOOLEAN, BeginBar(ok) PROVE LateInv'
  <2>1. CASE ok
    <3>1. pollTo' = Len(events)
      BY <1>2, <2>1, ConstantsAssumption
         DEF BeginBar, PollUpTo, Lower, BacklogInv, TypeOK
    <3>2. QED
      BY <1>2, <3>1 DEF BeginBar
  <2>2. CASE ~ok
    BY <1>2, <2>2 DEF BeginBar
  <2>3. QED
    BY <2>1, <2>2
<1>3. CASE ReadRow
  BY <1>3 DEF ReadRow, StartFlatten, Call
<1>4. CASE RowsRead
  <2>1. CASE late = 1 /\ "poll" \notin unread
    <3>1. lastId = Len(events) /\ events # <<>> /\ events[Len(events)] = "activated"
      BY <1>4, <2>1 DEF RowsRead, SwitchInv, SwitchReflectsLastSeen, TypeOK
    <3>2. Len(events) > 0
      BY <3>1 DEF TypeOK
    <3>3. active
      BY <3>1, <3>2 DEF SwitchInv, SwitchReflectsLastSeen
    <3>4. QED
      BY <1>4, <2>1, <3>3 DEF RowsRead, SwitchBlocks, FinishBar
  <2>2. CASE late = 0 \/ "poll" \in unread
    BY <1>4, <2>2 DEF RowsRead
  <2>3. QED
    BY <2>1, <2>2
<1>5. ASSUME NEW s \in Strategies, ForceFlat(s) PROVE LateInv'
  BY <1>5 DEF ForceFlat
<1>6. CASE NoOrder \/ StrategyRaises
  BY <1>6 DEF NoOrder, StrategyRaises
<1>7. ASSUME NEW s \in Strategies, NEW side \in Sides, RequestReversal(s, side)
      PROVE  LateInv'
  BY <1>7 DEF RequestReversal, Wins
<1>8. ASSUME NEW s \in Strategies, NEW side \in Sides, NEW size \in 1..MaxSize,
             ExecuteSignal(s, side, size)
      PROVE  LateInv'
  <2>1. /\ pc' = "call" /\ call'.op = "entry"
        /\ UNCHANGED <<events, unread>>
    BY <1>8 DEF ExecuteSignal, Call
  <2>2. CASE late = 0
    BY <1>8, <2>1, <2>2 DEF ExecuteSignal, Lower
  <2>3. CASE "poll" \in unread
    BY <1>8, <2>1, <2>3 DEF ExecuteSignal
  <2>4. QED
    BY <1>8, <2>2, <2>3 DEF ExecuteSignal, Wins
<1>9. CASE PositionsRead \/ PositionsRaise \/ CloseAnswered
  <2>1. UNCHANGED <<late, events, pollTo>> /\ pc = "call" /\ call.op # "entry"
    BY <1>9 DEF PositionsRead, PositionsRaise, CloseAnswered
  <2>2. ASSUME late = 1 PROVE NotPastPoll'
    <3>1. CASE "poll" \in unread
      <4>1. call.why # "poll"
        BY DEF TypeOK, Callers
      <4>2. "poll" \in unread'
        BY <1>9, <3>1, <4>1 DEF PositionsRead, PositionsRaise, CloseAnswered
      <4>3. QED
        BY <4>2
    <3>2. CASE "poll" \notin unread
      <4>1. call.why = "kill" /\ pollTo = Len(events)
        BY <2>1, <2>2, <3>2
      <4>2. \/ pc' \in {"idle", "rows"}
            \/ pc' = "call" /\ call'.why = "kill"
        BY <1>9, <2>1, <4>1
           DEF PositionsRead, PositionsRaise, CloseAnswered, AfterFlatten,
               FlattenRaises, DropQuote, Call
      <4>3. QED
        BY <2>1, <4>1, <4>2
    <3>3. QED
      BY <3>1, <3>2
  <2>3. QED
    BY <2>1, <2>2
<1>10. CASE EntryAccepted \/ EntryRaises
  BY <1>10 DEF EntryAccepted, EntryRaises, FinishBar, DropQuote
<1>11. CASE OrderExecuted
  <2>1. call'.op = call.op /\ call'.why = call.why
    BY <1>11 DEF OrderExecuted, TypeOK
  <2>2. QED
    BY <1>11, <2>1 DEF OrderExecuted
<1>12. CASE BracketFills
  BY <1>12 DEF BracketFills, procVars
<1>13. ASSUME NEW kind \in {"activated", "cleared"}, Operator(kind)
       PROVE  LateInv'
  BY <1>13 DEF Operator
<1>14. CASE Restart
  BY <1>14 DEF Restart
<1>15. CASE UNCHANGED vars
  BY <1>15 DEF vars
<1>16. QED
  BY <1>1, <1>2, <1>3, <1>4, <1>5, <1>6, <1>7, <1>8, <1>9, <1>10, <1>11, <1>12,
     <1>13, <1>14, <1>15 DEF Next, Step, World

\* Once an activation row is written, at most one entry is still sent in a bar
\* whose poll was answered, through every fault, as long as the rows not yet
\* seen fit one poll.
THEOREM LateEntriesBounded ==
  ASSUME OnePollSuffices PROVE Spec => []AtMostOneLateEntry
<1>1. Init => BacklogInv /\ LateInv
  BY ConstantsAssumption DEF Init, FreshProcess, BacklogInv, LateInv
<1>2. TypeOK /\ SwitchInv /\ BacklogInv /\ LateInv /\ [Next]_vars
        => BacklogInv' /\ LateInv'
  BY BacklogStep, LateStep
<1>3. LateInv => AtMostOneLateEntry
  BY DEF LateInv, AtMostOneLateEntry
<1>4. QED
  BY <1>1, <1>2, <1>3, SwitchInvariant, PTL DEF Spec
=============================================================================
