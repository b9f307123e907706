------------------------- MODULE PhantomBookProofs -------------------------
(***************************************************************************)
(* Proofs about PhantomBook for every fleet, timeframe, bracket, price     *)
(* range and set of faults.                                                *)
(***************************************************************************)
EXTENDS PhantomBook, FiniteSetTheorems, WellFoundedInduction, TLAPS

Holders == Strategies \ Reversers

\* What the two dictionaries of the book look like, whatever the bars are.
Shape ==
  /\ net \in [Strategies -> Int]
  /\ \E sets : open \in [Strategies -> sets]
  /\ \A s \in Strategies : \A p \in open[s] :
       p.side \in Sides /\ p.size \in 1..MaxSize
  /\ phase \in Phases
  /\ active \in BOOLEAN

\* A holder has no phantom and net 0, or one phantom that is its whole net.
OneTrade(s) ==
  \/ open[s] = {} /\ net[s] = 0
  \/ \E p : open[s] = {p} /\ net[s] = Signed(p)

HolderInv == \A s \in Holders : OneTrade(s)

\* The signed size of a phantom, and what its exit takes off the net.
LEMMA SignedSize ==
  ASSUME NEW p, p.side \in Sides, p.size \in 1..MaxSize
  PROVE  /\ Signed(p) \in Int /\ SizeChange(p) = -Signed(p)
         /\ Signed(p) # 0
         /\ \E n \in 1..MaxSize : Signed(p) \in {n, -n}
<1>1. MaxSize \in Nat
  BY ConstantsAssumption
<1>2. CASE p.side = 1
  BY <1>1, <1>2 DEF Signed, SizeChange
<1>3. CASE p.side = -1
  BY <1>1, <1>3 DEF Signed, SizeChange
<1>4. QED
  BY <1>2, <1>3 DEF Sides

\* The part of the state the two invariants talk about is left alone.
LEMMA BookFrame ==
  ASSUME Shape, HolderInv, UNCHANGED <<open, net>>, phase' \in Phases,
         active' \in BOOLEAN
  PROVE  Shape' /\ HolderInv'
BY DEF Shape, HolderInv, OneTrade, Signed

\* Emptying the books of all strategies keeps them well formed.
LEMMA BooksCleared ==
  ASSUME open' = [s \in Strategies |-> {}], net' = [s \in Strategies |-> 0],
         phase' \in Phases, active' \in BOOLEAN
  PROVE  Shape' /\ HolderInv'
<1>1. open' \in [Strategies -> {{}}]
  OBVIOUS
<1>2. \A s \in Strategies : open'[s] = {} /\ net'[s] = 0
  OBVIOUS
<1>3. HolderInv'
  BY <1>2 DEF HolderInv, OneTrade, Holders
<1>4. net' \in [Strategies -> Int]
  OBVIOUS
<1>5. \E sets : open' \in [Strategies -> sets]
  BY <1>1
<1>6. QED
  BY <1>2, <1>3, <1>4, <1>5 DEF Shape

\* Every step keeps a holder's book at no more than the trade it opened.
LEMMA ShapeStep ==
  ASSUME Shape, HolderInv, [Next]_vars
  PROVE  Shape' /\ HolderInv'
<1> USE DEF Phases
<1>1. ASSUME NEW minute, NEW bar, Quote(minute, bar)
      PROVE  Shape' /\ HolderInv'
  BY <1>1, BookFrame DEF Quote, Shape
<1>2. ASSUME NEW s \in Strategies, NEW p \in open[s], Exit(s, p)
      PROVE  Shape' /\ HolderInv'
  <2>1. p.side \in Sides /\ p.size \in 1..MaxSize
    BY <1>2 DEF Shape
  <2>2. /\ open' = [open EXCEPT ![s] = open[s] \ {p}]
        /\ net' = [net EXCEPT ![s] = net[s] + SizeChange(p)]
        /\ phase' = phase /\ active' = active
    BY <1>2 DEF Exit, Remaining
  <2>3. \E sets : open' \in [Strategies -> sets]
    <3>1. PICK sets : open \in [Strategies -> sets]
      BY DEF Shape
    <3>2. open' \in [Strategies -> sets \cup {open[s] \ {p}}]
      BY <2>2, <3>1
    <3>3. QED
      BY <3>2
  <2>4. \A t \in Strategies : open'[t] = IF t = s THEN open[s] \ {p}
                                                  ELSE open[t]
    BY <2>2 DEF Shape
  <2>5. \A t \in Strategies : net'[t] = IF t = s THEN net[s] + SizeChange(p)
                                                 ELSE net[t]
    BY <2>2 DEF Shape
  <2>6. net' \in [Strategies -> Int]
    BY <2>1, <2>2, SignedSize DEF Shape
  <2>7. Shape'
    BY <2>2, <2>3, <2>4, <2>6 DEF Shape
  <2>8. ASSUME NEW t \in Holders PROVE OneTrade(t)'
    <3>1. CASE t # s
      BY <2>4, <2>5, <3>1 DEF HolderInv, OneTrade, Holders, Signed
    <3>2. CASE t = s
      <4>1. open[s] = {p} /\ net[s] = Signed(p)
        BY <1>2, <3>2 DEF HolderInv, OneTrade
      <4>2. open'[s] = {} /\ net'[s] = 0
        BY <2>1, <2>4, <2>5, <4>1, SignedSize
      <4>3. QED
        BY <3>2, <4>2 DEF OneTrade
    <3>3. QED
      BY <3>1, <3>2
  <2>9. QED
    BY <2>7, <2>8 DEF HolderInv
<1>3. CASE ExitsDone
  BY <1>3, BookFrame DEF ExitsDone, Shape
<1>4. ASSUME NEW flattens \in BOOLEAN, NEW after \in BOOLEAN,
             Poll(flattens, after)
      PROVE  Shape' /\ HolderInv'
  <2>1. phase' \in Phases /\ active' \in BOOLEAN
    BY <1>4 DEF Poll, FinishBar
  <2>2. CASE flattens
    BY <1>4, <2>1, <2>2, BooksCleared DEF Poll
  <2>3. CASE ~flattens
    BY <1>4, <2>1, <2>3, BookFrame DEF Poll
  <2>4. QED
    BY <2>2, <2>3
<1>5. ASSUME NEW s \in Strategies, ForceFlat(s)
      PROVE  Shape' /\ HolderInv'
  <2>1. /\ open' = [open EXCEPT ![s] = {}] /\ net' = [net EXCEPT ![s] = 0]
        /\ phase' = phase /\ active' = active
    BY <1>5 DEF ForceFlat
  <2>2. \E sets : open' \in [Strategies -> sets]
    <3>1. PICK sets : open \in [Strategies -> sets]
      BY DEF Shape
    <3>2. open' \in [Strategies -> sets \cup {{}}]
      BY <2>1, <3>1
    <3>3. QED
      BY <3>2
  <2>3. \A t \in Strategies : /\ open'[t] = IF t = s THEN {} ELSE open[t]
                              /\ net'[t] = IF t = s THEN 0 ELSE net[t]
    BY <2>1 DEF Shape
  <2>4. Shape'
    BY <2>1, <2>2, <2>3 DEF Shape
  <2>5. HolderInv'
    BY <2>3 DEF HolderInv, OneTrade, Holders, Signed
  <2>6. QED
    BY <2>4, <2>5
<1>6. CASE CoordDone
  BY <1>6, BookFrame DEF CoordDone, Shape
<1>7. ASSUME NEW s \in Strategies, NoSignal(s) \/ BlockedSignal(s)
      PROVE  Shape' /\ HolderInv'
  BY <1>7, BookFrame DEF NoSignal, BlockedSignal, Emitted, Shape
<1>8. ASSUME NEW s \in Strategies, NEW side \in Sides,
             NEW size \in 1..MaxSize, OpenPhantom(s, side, size)
      PROVE  Shape' /\ HolderInv'
  <2> DEFINE p == PhantomOf(s, side, size)
  <2>1. /\ p.side = side /\ p.size = size
        /\ p.side \in Sides /\ p.size \in 1..MaxSize
    BY DEF PhantomOf
  <2>2. /\ open' = [open EXCEPT ![s] = open[s] \cup {p}]
        /\ net' = [net EXCEPT ![s] = net[s] + side * size]
        /\ phase' = phase /\ active' = active
    BY <1>8 DEF OpenPhantom, Emitted
  <2>3. side * size = Signed(p) /\ Signed(p) \in Int
    BY <2>1, SignedSize DEF Signed
  <2> HIDE DEF p
  <2>4. \E sets : open' \in [Strategies -> sets]
    <3>1. PICK sets : open \in [Strategies -> sets]
      BY DEF Shape
    <3>2. open' \in [Strategies -> sets \cup {open[s] \cup {p}}]
      BY <2>2, <3>1
    <3>3. QED
      BY <3>2
  <2>5. \A t \in Strategies : /\ open'[t] = IF t = s THEN open[s] \cup {p}
                                                     ELSE open[t]
                              /\ net'[t] = IF t = s THEN net[s] + Signed(p)
                                                    ELSE net[t]
    BY <2>2, <2>3 DEF Shape
  <2>6. net' \in [Strategies -> Int]
    BY <2>2, <2>3 DEF Shape
  <2>7. Shape'
    BY <2>1, <2>2, <2>4, <2>5, <2>6 DEF Shape
  <2>8. ASSUME NEW t \in Holders PROVE OneTrade(t)'
    <3>1. CASE t # s
      BY <2>5, <3>1 DEF HolderInv, OneTrade, Holders, Signed
    <3>2. CASE t = s
      <4>1. net[s] = 0
        BY <1>8, <3>2 DEF OpenPhantom, MayEmit, SeenPosition, Holders
      <4>2. open[s] = {}
        <5>1. ASSUME NEW q, open[s] = {q}, net[s] = Signed(q) PROVE FALSE
          BY <4>1, <5>1, SignedSize DEF Shape
        <5>2. QED
          BY <3>2, <5>1 DEF HolderInv, OneTrade
      <4>3. open'[s] = {p} /\ net'[s] = Signed(p)
        BY <2>3, <2>5, <4>1, <4>2
      <4>4. QED
        BY <3>2, <4>3 DEF OneTrade, Signed
    <3>3. QED
      BY <3>1, <3>2
  <2>9. QED
    BY <2>7, <2>8 DEF HolderInv
<1>9. CASE StrategyRaises \/ Arbitrate
  BY <1>9, BookFrame DEF StrategyRaises, DropQuote, Arbitrate, FinishBar, Shape
<1>10. CASE Restart
  BY <1>10, BooksCleared DEF Restart
<1>11. CASE UNCHANGED vars
  BY <1>11, BookFrame DEF vars, Shape
<1>12. QED
  BY <1>1, <1>2, <1>3, <1>4, <1>5, <1>6, <1>7, <1>8, <1>9, <1>10, <1>11
     DEF Next

\* The books start empty.
LEMMA ShapeInit == Init => Shape /\ HolderInv
<1> SUFFICES ASSUME Init PROVE Shape /\ HolderInv
  OBVIOUS
<1>1. open \in [Strategies -> {{}}] /\ net \in [Strategies -> Int]
  BY DEF Init
<1>2. \A s \in Strategies : open[s] = {} /\ net[s] = 0
  BY DEF Init
<1>3. phase \in Phases /\ active \in BOOLEAN
  BY DEF Init, Phases
<1>4. QED
  BY <1>1, <1>2, <1>3 DEF Shape, HolderInv, OneTrade, Holders
-----------------------------------------------------------------------------
\* Every change of a holder's net opens one trade or closes it whole.
LEMMA HolderStep ==
  ASSUME Shape, HolderInv, Shape', HolderInv', [Next]_vars, NEW s \in Holders
  PROVE  Book(s)!Next \/ net'[s] = net[s]
<1> USE DEF Book!Next, Book!OpenTrade, Book!CloseTrade, Book!Sizes
<1>1. CASE net'[s] = 0
  BY <1>1
<1>2. CASE net'[s] # 0 /\ net[s] = 0
  <2>1. PICK q : open'[s] = {q} /\ net'[s] = Signed(q)
    BY <1>2 DEF HolderInv, OneTrade, Signed
  <2>2. q.side \in Sides /\ q.size \in 1..MaxSize
    BY <2>1 DEF Shape, Holders
  <2>3. QED
    BY <1>2, <2>1, <2>2, SignedSize
<1>3. CASE net'[s] # 0 /\ net[s] # 0
  <2>1. PICK p : open[s] = {p} /\ net[s] = Signed(p)
    BY <1>3 DEF HolderInv, OneTrade
  <2>2. PICK q : open'[s] = {q} /\ net'[s] = Signed(q)
    BY <1>3 DEF HolderInv, OneTrade, Signed
  <2>3. q = p
    <3>1. ASSUME NEW t \in Strategies, NEW r \in open[t], Exit(t, r)
          PROVE  open'[s] \subseteq open[s]
      BY <3>1 DEF Exit, Remaining, Shape, Holders
    <3>2. ASSUME NEW t \in Strategies, ForceFlat(t)
          PROVE  open'[s] \subseteq open[s]
      BY <3>2 DEF ForceFlat, Shape, Holders
    <3>3. ASSUME NEW flattens \in BOOLEAN, NEW after \in BOOLEAN,
                 Poll(flattens, after)
          PROVE  open'[s] \subseteq open[s]
      BY <3>3 DEF Poll, Shape, Holders
    <3>4. ASSUME NEW t \in Strategies, NEW side \in Sides,
                 NEW size \in 1..MaxSize, OpenPhantom(t, side, size)
          PROVE  open'[s] \subseteq open[s]
      <4>1. t # s
        BY <1>3, <3>4 DEF OpenPhantom, MayEmit, SeenPosition, Holders
      <4>2. QED
        BY <3>4, <4>1 DEF OpenPhantom, Shape, Holders
    <3>5. ASSUME \/ \E minute, bar : Quote(minute, bar)
                 \/ ExitsDone \/ CoordDone \/ StrategyRaises \/ Arbitrate
                 \/ \E t \in Strategies : NoSignal(t) \/ BlockedSignal(t)
                 \/ UNCHANGED vars
          PROVE  open' = open
      BY <3>5 DEF Quote, ExitsDone, CoordDone, StrategyRaises, Arbitrate,
                  NoSignal, BlockedSignal, vars
    <3>6. ASSUME Restart PROVE open'[s] \subseteq open[s]
      BY <3>6 DEF Restart, Holders
    <3>7. open'[s] \subseteq open[s]
      BY <3>1, <3>2, <3>3, <3>4, <3>5, <3>6 DEF Next
    <3>8. QED
      BY <2>1, <2>2, <3>7
  <2>4. QED
    BY <2>1, <2>2, <2>3
<1>4. QED
  BY <1>1, <1>2, <1>3

\* A strategy that holds never adds to its phantom position and never flips
\* it, under every fault and on every mix of timeframes.
THEOREM HoldersSafe == Spec => HoldersKeepSingleTrades
<1>1. Shape /\ HolderInv /\ [Next]_vars => Shape' /\ HolderInv'
  BY ShapeStep
<1>2. Shape /\ HolderInv /\ [Next]_vars
        => [\A s \in Strategies \ Reversers :
              Book(s)!Next \/ net'[s] = net[s]]_net
  BY ShapeStep, HolderStep DEF Holders
<1>3. QED
  BY <1>1, <1>2, ShapeInit, PTL DEF Spec, HoldersKeepSingleTrades
-----------------------------------------------------------------------------
(* While the switch is active the books are empty, and no bar gets past    *)
(* its poll.                                                               *)
KilledInv ==
  active => /\ \A s \in Strategies : open[s] = {} /\ net[s] = 0
            /\ phase \in {"idle", "exits", "poll"}

\* No step opens a phantom while the switch is active.
LEMMA KilledStep ==
  ASSUME Shape, KilledInv, [Next]_vars
  PROVE  KilledInv'
<1>1. ASSUME NEW minute, NEW bar, Quote(minute, bar) PROVE KilledInv'
  BY <1>1 DEF Quote, KilledInv
<1>2. ASSUME NEW s \in Strategies, NEW p \in open[s], Exit(s, p)
      PROVE  KilledInv'
  BY <1>2 DEF Exit, KilledInv
<1>3. CASE ExitsDone
  BY <1>3 DEF ExitsDone, KilledInv
<1>4. ASSUME NEW flattens \in BOOLEAN, NEW after \in BOOLEAN,
             Poll(flattens, after), after
      PROVE  KilledInv'
  <2>1. phase' \in {"idle", "exits"}
    BY <1>4 DEF Poll, SwitchBlocks, FinishBar
  <2>2. CASE flattens
    BY <1>4, <2>1, <2>2 DEF Poll, KilledInv
  <2>3. CASE ~flattens
    BY <1>4, <2>1, <2>3 DEF Poll, KilledInv
  <2>4. QED
    BY <2>2, <2>3
<1>5. ASSUME NEW flattens \in BOOLEAN, NEW after \in BOOLEAN,
             Poll(flattens, after), ~after
      PROVE  KilledInv'
  BY <1>5 DEF Poll, KilledInv
<1>6. ASSUME NEW s \in Strategies, ForceFlat(s) PROVE KilledInv'
  BY <1>6 DEF ForceFlat, KilledInv
<1>7. CASE CoordDone
  BY <1>7 DEF CoordDone, KilledInv
<1>8. ASSUME NEW s \in Strategies, NoSignal(s) \/ BlockedSignal(s)
      PROVE  KilledInv'
  BY <1>8 DEF NoSignal, BlockedSignal, Emitted, KilledInv
<1>9. ASSUME NEW s \in Strategies, NEW side \in Sides,
             NEW size \in 1..MaxSize, OpenPhantom(s, side, size)
      PROVE  KilledInv'
  BY <1>9 DEF OpenPhantom, Emitted, KilledInv
<1>10. CASE StrategyRaises \/ Arbitrate
  BY <1>10 DEF StrategyRaises, Arbitrate, KilledInv
<1>11. CASE Restart
  BY <1>11 DEF Restart, KilledInv
<1>12. CASE UNCHANGED vars
  BY <1>12 DEF vars, KilledInv
<1>13. QED
  BY <1>1, <1>2, <1>3, <1>4, <1>5, <1>6, <1>7, <1>8, <1>9, <1>10, <1>11,
     <1>12 DEF Next

\* While the kill switch is active no strategy holds a phantom.
THEOREM KilledSafe == Spec => []DryFlatWhileKilled
<1>1. Init => KilledInv
  BY DEF Init, KilledInv
<1>2. Shape /\ HolderInv /\ KilledInv /\ [Next]_vars
        => Shape' /\ HolderInv' /\ KilledInv'
  BY ShapeStep, KilledStep
<1>3. KilledInv => DryFlatWhileKilled
  BY DEF KilledInv, DryFlatWhileKilled
<1>4. QED
  BY <1>1, <1>2, <1>3, ShapeInit, PTL DEF Spec
-----------------------------------------------------------------------------
(* Induction over finite sets.                                             *)
\* A set of numbers that is not empty has a least one.
LEMMA LeastNatural ==
  ASSUME NEW T \in SUBSET Nat, T # {}
  PROVE  \E n \in T : \A k \in T : n <= k
<1> DEFINE R == OpToRel(<, Nat)
<1>1. IsWellFoundedOn(R, Nat)
  BY NatLessThanWellFounded
<1>2. \A k, n \in Nat : <<k, n>> \in R <=> k < n
  BY DEF OpToRel
<1> HIDE DEF R
<1>3. PICK n \in T : \A k \in T : <<k, n>> \notin R
  BY <1>1, WFMin
<1>4. \A k \in T : n \in Nat /\ k \in Nat /\ ~(k < n)
  BY <1>2, <1>3
<1>5. QED
  BY <1>4

\* What holds of a finite set when it holds of its proper subsets holds of all.
LEMMA SubsetInduction ==
  ASSUME NEW P, NEW G,
         \A A \in SUBSET P :
           IsFiniteSet(A) /\ (\A B \in SUBSET A : B # A => B \in G) => A \in G
  PROVE  \A A \in SUBSET P : IsFiniteSet(A) => A \in G
<1> DEFINE Bad == {A \in SUBSET P : IsFiniteSet(A) /\ A \notin G}
           T == {Cardinality(A) : A \in Bad}
<1> SUFFICES ASSUME Bad # {} PROVE FALSE
  OBVIOUS
<1>1. T \in SUBSET Nat /\ T # {}
  BY FS_CardinalityType
<1>2. PICK A \in Bad : \A B \in Bad : Cardinality(A) <= Cardinality(B)
  <2> HIDE DEF T
  <2>1. PICK n \in T : \A k \in T : n <= k
    BY <1>1, LeastNatural
  <2>2. QED
    BY <2>1 DEF T
<1>3. ASSUME NEW B \in SUBSET A, B # A PROVE B \in G
  <2>1. IsFiniteSet(B) /\ Cardinality(B) < Cardinality(A)
    <3>1. IsFiniteSet(A)
      BY <1>2
    <3>2. /\ IsFiniteSet(B) /\ Cardinality(B) <= Cardinality(A)
          /\ Cardinality(B) = Cardinality(A) => B = A
      BY <3>1, FS_Subset
    <3>3. Cardinality(A) \in Nat /\ Cardinality(B) \in Nat
      BY <3>1, <3>2, FS_CardinalityType
    <3>4. QED
      BY <1>3, <3>2, <3>3
  <2>2. Cardinality(A) \in Nat /\ Cardinality(B) \in Nat
    BY <2>1, <1>2, FS_CardinalityType
  <2>3. B \notin Bad
    BY <1>2, <2>1, <2>2
  <2>4. QED
    BY <2>1, <2>3, <1>2
<1>4. QED
  BY <1>2, <1>3

(* The sum of the signed sizes, as MapThenSumSet computes it: some member  *)
(* first, then the rest.                                                   *)
Any(set) == CHOOSE x \in set : TRUE
IsSum(g, set) ==
  g = [s \in SUBSET set |->
         IF s = {} THEN 0 ELSE Signed(Any(s)) + g[s \ {Any(s)}]]
Sum(set) == MapThenSumSet(Signed, set)

\* The sum of a book is the function its fold chooses.
LEMMA SumUnfold == ASSUME NEW set PROVE Sum(set) = (CHOOSE g : IsSum(g, set))[set]
BY DEF Sum, MapThenSumSet, MapThenFoldSet, IsSum, Any

\* Two such functions agree wherever both are defined.
LEMMA SumsAgree ==
  ASSUME NEW S, NEW R, NEW g, NEW h, IsSum(g, S), IsSum(h, R)
  PROVE  \A A \in SUBSET (S \cap R) : IsFiniteSet(A) => g[A] = h[A]
<1> DEFINE G == {A \in SUBSET (S \cap R) : g[A] = h[A]}
<1>1. ASSUME NEW A \in SUBSET (S \cap R), \A B \in SUBSET A : B # A => B \in G
      PROVE  A \in G
  <2>1. CASE A = {}
    BY <2>1 DEF IsSum
  <2>2. CASE A # {}
    <3> DEFINE B == A \ {Any(A)}
    <3>1. Any(A) \in A
      BY <2>2 DEF Any
    <3>2. B \in SUBSET A /\ B # A
      BY <3>1
    <3>3. g[B] = h[B]
      BY <1>1, <3>2
    <3>4. g[A] = Signed(Any(A)) + g[B] /\ h[A] = Signed(Any(A)) + h[B]
      BY <2>2 DEF IsSum
    <3>5. QED
      BY <3>3, <3>4
  <2>3. QED
    BY <2>1, <2>2
<1> HIDE DEF G
<1>2. \A A \in SUBSET (S \cap R) : IsFiniteSet(A) => A \in G
  BY <1>1, SubsetInduction
<1>3. QED
  BY <1>2 DEF G

\* Every finite set has one.
LEMMA SumExists ==
  ASSUME NEW P
  PROVE  \A A \in SUBSET P : IsFiniteSet(A) => \E g : IsSum(g, A)
<1> DEFINE G == {A \in SUBSET P : \E g : IsSum(g, A)}
<1>1. ASSUME NEW A \in SUBSET P, IsFiniteSet(A),
             \A B \in SUBSET A : B # A => B \in G
      PROVE  A \in G
  <2> DEFINE f == [s \in SUBSET A |->
                     IF s = {} THEN 0 ELSE Signed(Any(s)) + Sum(s \ {Any(s)})]
  <2>1. ASSUME NEW B \in SUBSET A, B # A PROVE f[B] = Sum(B)
    <3>1. PICK g : IsSum(g, B) /\ Sum(B) = g[B]
      BY <1>1, <2>1, SumUnfold
    <3>2. CASE B = {}
      BY <3>1, <3>2 DEF IsSum
    <3>3. CASE B # {}
      <4> DEFINE C == B \ {Any(B)}
      <4>1. Any(B) \in B
        BY <3>3 DEF Any
      <4>2. C \in SUBSET A /\ C # A /\ IsFiniteSet(C) /\ C \in SUBSET (B \cap C)
        BY <1>1, <2>1, <4>1, FS_Subset
      <4>3. PICK h : IsSum(h, C) /\ Sum(C) = h[C]
        BY <1>1, <4>2, SumUnfold
      <4>4. g[C] = h[C]
        BY <3>1, <4>2, <4>3, SumsAgree
      <4>5. g[B] = Signed(Any(B)) + g[C]
        BY <3>1, <3>3 DEF IsSum
      <4>6. QED
        BY <3>1, <3>3, <4>3, <4>4, <4>5
    <3>4. QED
      BY <3>2, <3>3
  <2>2. ASSUME NEW s \in SUBSET A, s # {}
        PROVE  f[s] = Signed(Any(s)) + f[s \ {Any(s)}]
    <3>1. Any(s) \in s
      BY <2>2 DEF Any
    <3>2. f[s \ {Any(s)}] = Sum(s \ {Any(s)})
      BY <2>1, <3>1
    <3>3. QED
      BY <2>2, <3>2
  <2>3. f[{}] = 0
    OBVIOUS
  <2>4. f = [s \in SUBSET A |->
               IF s = {} THEN 0 ELSE Signed(Any(s)) + f[s \ {Any(s)}]]
    BY <2>2, <2>3
  <2>5. IsSum(f, A)
    BY <2>4 DEF IsSum
  <2>6. QED
    BY <2>5
<1> HIDE DEF G
<1>2. \A A \in SUBSET P : IsFiniteSet(A) => A \in G
  BY <1>1, SubsetInduction
<1>3. QED
  BY <1>2 DEF G

\* The sum of no phantom, and of some, taking the chosen one first.
LEMMA SumStep ==
  ASSUME NEW A, IsFiniteSet(A)
  PROVE  Sum(A) = IF A = {} THEN 0 ELSE Signed(Any(A)) + Sum(A \ {Any(A)})
<1>1. PICK g : IsSum(g, A) /\ Sum(A) = g[A]
  <2>1. A \in SUBSET A
    OBVIOUS
  <2>2. \E g : IsSum(g, A)
    BY <2>1, SumExists
  <2>3. QED
    BY <2>2, SumUnfold
<1>2. CASE A = {}
  BY <1>1, <1>2 DEF IsSum
<1>3. CASE A # {}
  <2> DEFINE C == A \ {Any(A)}
  <2>1. IsFiniteSet(C) /\ C \in SUBSET (A \cap C)
    BY FS_Subset
  <2>2. C \in SUBSET C
    OBVIOUS
  <2>3. PICK h : IsSum(h, C) /\ Sum(C) = h[C]
    <3>1. \E h : IsSum(h, C)
      BY <2>1, <2>2, SumExists
    <3>2. QED
      BY <3>1, SumUnfold
  <2>4. g[C] = h[C]
    BY <1>1, <2>1, <2>3, SumsAgree
  <2>5. g[A] = Signed(Any(A)) + g[C]
    BY <1>1, <1>3 DEF IsSum
  <2>6. QED
    BY <1>1, <1>3, <2>3, <2>4, <2>5
<1>4. QED
  BY <1>2, <1>3

\* The sum of a finite book is a number.
LEMMA SumInt ==
  ASSUME NEW P, \A p \in P : Signed(p) \in Int
  PROVE  \A A \in SUBSET P : IsFiniteSet(A) => Sum(A) \in Int
<1> DEFINE G == {A \in SUBSET P : Sum(A) \in Int}
<1>1. ASSUME NEW A \in SUBSET P, IsFiniteSet(A),
             \A B \in SUBSET A : B # A => B \in G
      PROVE  A \in G
  <2>1. CASE A = {}
    <3>1. Sum(A) = 0
      BY <1>1, <2>1, SumStep
    <3>2. QED
      BY <3>1
  <2>2. CASE A # {}
    <3>1. Any(A) \in A
      BY <2>2 DEF Any
    <3>2. Sum(A \ {Any(A)}) \in Int
      BY <1>1, <3>1
    <3>3. Sum(A) = Signed(Any(A)) + Sum(A \ {Any(A)})
      BY <1>1, <2>2, SumStep
    <3>4. QED
      BY <3>1, <3>2, <3>3
  <2>3. QED
    BY <2>1, <2>2
<1> HIDE DEF G
<1>2. \A A \in SUBSET P : IsFiniteSet(A) => A \in G
  BY <1>1, SubsetInduction
<1>3. QED
  BY <1>2 DEF G

\* Any member may be taken first: the order of the fold does not matter.
LEMMA SumRemove ==
  ASSUME NEW P, \A p \in P : Signed(p) \in Int
  PROVE  \A A \in SUBSET P : IsFiniteSet(A) =>
           \A x \in A : Sum(A) = Signed(x) + Sum(A \ {x})
<1> DEFINE G == {A \in SUBSET P : \A x \in A : Sum(A) = Signed(x) + Sum(A \ {x})}
<1>1. ASSUME NEW A \in SUBSET P, IsFiniteSet(A),
             \A B \in SUBSET A : B # A => B \in G
      PROVE  A \in G
  <2> SUFFICES ASSUME NEW x \in A PROVE Sum(A) = Signed(x) + Sum(A \ {x})
    OBVIOUS
  <2> DEFINE a == Any(A)
  <2>1. a \in A /\ Sum(A) = Signed(a) + Sum(A \ {a})
    BY <1>1, SumStep DEF Any
  <2> HIDE DEF a
  <2>2. CASE x = a
    BY <2>1, <2>2
  <2>3. CASE x # a
    <3> DEFINE C == A \ {a, x}
    <3>1. Sum(A \ {a}) = Signed(x) + Sum((A \ {a}) \ {x})
      BY <1>1, <2>1, <2>3
    <3>2. Sum(A \ {x}) = Signed(a) + Sum((A \ {x}) \ {a})
      BY <1>1, <2>1, <2>3
    <3>3. (A \ {a}) \ {x} = C /\ (A \ {x}) \ {a} = C
      OBVIOUS
    <3>4. Sum(C) \in Int
      <4>1. IsFiniteSet(C) /\ C \in SUBSET P
        BY <1>1, FS_Subset
      <4>2. QED
        BY <4>1, SumInt
    <3>5. Signed(a) \in Int /\ Signed(x) \in Int
      BY <2>1
    <3> HIDE DEF C
    <3>6. Sum(A) = Signed(a) + (Signed(x) + Sum(C))
      BY <2>1, <3>1, <3>3
    <3>7. Sum(A \ {x}) = Signed(a) + Sum(C)
      BY <3>2, <3>3
    <3> DEFINE v == Sum(C)
               va == Signed(a)
               vx == Signed(x)
    <3>8. v \in Int /\ va \in Int /\ vx \in Int
      BY <3>4, <3>5
    <3>9. va + (vx + v) = vx + (va + v)
      <4> HIDE DEF v, va, vx
      <4>1. QED
        BY <3>8
    <3>10. QED
      BY <3>6, <3>7, <3>9
  <2>4. QED
    BY <2>2, <2>3
<1> HIDE DEF G
<1>2. \A A \in SUBSET P : IsFiniteSet(A) => A \in G
  BY <1>1, SubsetInduction
<1>3. QED
  BY <1>2 DEF G
-----------------------------------------------------------------------------
(* Types: the bar being handled is there, and the books are finite.        *)
TypeInv ==
  /\ TypeOK
  /\ phase # "idle" => DOMAIN due # {}
  /\ \A s \in Strategies : IsFiniteSet(open[s])

\* Timeframes are positive numbers of minutes.
LEMMA Times ==
  /\ Timeframes \in SUBSET (Nat \ {0}) /\ LongTfs \in SUBSET (Nat \ {0})
  /\ \A s \in Strategies : TfOf[s] \in Timeframes
BY ConstantsAssumption DEF Timeframes, LongTfs

\* The shortest of the bars still to be handled is handled next.
LEMMA CurrentIsShortest ==
  ASSUME TypeInv, DOMAIN due # {}
  PROVE  /\ CurrentTf \in DOMAIN due /\ CurrentTf \in Nat \ {0}
         /\ \A tf \in DOMAIN due : CurrentTf <= tf
         /\ Bar \in Bars
<1>1. DOMAIN due \in SUBSET Nat /\ DOMAIN due \in SUBSET (Nat \ {0})
      /\ \A tf \in DOMAIN due : due[tf] \in Bars
  BY Times DEF TypeInv, TypeOK
<1>2. \E n \in DOMAIN due : \A k \in DOMAIN due : n <= k
  BY <1>1, LeastNatural
<1>3. /\ CurrentTf \in DOMAIN due
      /\ \A tf \in DOMAIN due : CurrentTf <= tf
  BY <1>2 DEF CurrentTf
<1>4. QED
  BY <1>1, <1>3 DEF Bar

\* What division by a positive number means.
LEMMA Quotient ==
  ASSUME NEW n \in Nat, NEW u \in Nat \ {0}
  PROVE  n \div u \in Nat /\ u * (n \div u) <= n /\ n < u * (n \div u) + u
OBVIOUS
\* The start of a bucket is the last multiple of the timeframe.
LEMMA Buckets ==
  ASSUME NEW n \in Nat, NEW tf \in Nat \ {0}
  PROVE  /\ BucketFloor(n, tf) \in Nat /\ BucketFloor(n, tf) <= n
         /\ \E k \in Nat : BucketFloor(n, tf) = tf * k
         /\ \A k \in Nat : tf * k <= n /\ tf * k # BucketFloor(n, tf)
                             => tf * k + tf <= BucketFloor(n, tf)
<1> DEFINE q == n \div tf
<1>1. q \in Nat /\ tf * q <= n /\ n < tf * q + tf
  BY Quotient
<1>2. BucketFloor(n, tf) = tf * q
  BY DEF BucketFloor
<1> HIDE DEF q
<1>3. ASSUME NEW k \in Nat, tf * k <= n, tf * k # tf * q
      PROVE  tf * k + tf <= tf * q
  <2>1. CASE k < q
    <3>1. PICK d \in Nat : q = k + 1 + d
      <4>1. q - k - 1 \in Nat /\ q = k + 1 + (q - k - 1)
        BY <1>1, <2>1
      <4>2. QED
        BY <4>1
    <3>2. tf * (k + 1 + d) = tf * k + tf + tf * d /\ tf * d \in Nat
      OBVIOUS
    <3>3. tf * k \in Nat
      OBVIOUS
    <3>4. QED
      BY <3>1, <3>2, <3>3
  <2>2. CASE k > q
    <3>1. PICK d \in Nat : k = q + 1 + d
      <4>1. k - q - 1 \in Nat /\ k = q + 1 + (k - q - 1)
        BY <1>1, <2>2
      <4>2. QED
        BY <4>1
    <3>2. tf * (q + 1 + d) = tf * q + tf + tf * d /\ tf * d \in Nat /\ tf * q \in Nat
      BY <1>1
    <3>4. QED
      BY <1>1, <1>3, <3>1, <3>2
  <2>3. QED
    BY <1>1, <1>3, <2>1, <2>2
<1>4. tf * q \in Nat
  BY <1>1
<1>5. QED
  BY <1>1, <1>2, <1>3, <1>4

\* The types hold at the start.
LEMMA TypeInit == Init => TypeInv
<1> SUFFICES ASSUME Init PROVE TypeInv
  OBVIOUS
<1>1. agg \in [LongTfs -> Builders]
  BY DEF Init, Empty, Builders
<1>2. due \in [{} -> Bars]
  BY DEF Init, NoBars
<1>3. open \in [Strategies -> SUBSET Position] /\ net \in [Strategies -> Int]
      /\ unclosed \in [Strategies -> Int] /\ last \in Bars
  BY DEF Init, Bars
<1>4. \A s \in Strategies : IsFiniteSet(open[s])
  BY FS_EmptySet DEF Init
<1>5. QED
  BY <1>1, <1>2, <1>3, <1>4 DEF Init, TypeInv, TypeOK, Phases

\* The bars left when the shortest is done.
LEMMA FinishedTyped ==
  ASSUME TypeInv, DOMAIN due # {}, FinishBar
  PROVE  /\ \E tfs \in SUBSET Timeframes : due' \in [tfs -> Bars]
         /\ DOMAIN due' = DOMAIN due \ {CurrentTf}
         /\ \A tf \in DOMAIN due' : due'[tf] = due[tf]
         /\ phase' \in {"idle", "exits"}
         /\ phase' # "idle" => DOMAIN due' # {}
         /\ toAsk' = {}
<1>1. PICK tfs \in SUBSET Timeframes : due \in [tfs -> Bars]
  BY DEF TypeInv, TypeOK
<1>2. due' \in [tfs \ {CurrentTf} -> Bars]
  BY <1>1 DEF FinishBar
<1>3. DOMAIN due' = DOMAIN due \ {CurrentTf}
  BY DEF FinishBar
<1>4. phase' # "idle" => DOMAIN due' # {}
  BY <1>3, CurrentIsShortest DEF FinishBar
<1>5. QED
  BY <1>2, <1>3, <1>4 DEF FinishBar

\* The 1-minute bar that a quote completes, and the longer ones with it.
LEMMA QuoteTyped ==
  ASSUME TypeInv, NEW minute \in Int, NEW bar \in MinuteBars, Quote(minute, bar)
  PROVE  /\ clock' \in Nat /\ clock < clock'
         /\ bar \in Bars /\ bar.t = clock
         /\ agg' \in [LongTfs -> Builders]
         /\ due' \in [{1} \cup {u \in LongTfs : Completes(u, clock)} -> Bars]
         /\ due'[1] = bar
         /\ \A tf \in LongTfs :
              /\ agg'[tf].start = BucketFloor(clock, tf)
              /\ Completes(tf, clock) => due'[tf].t = agg[tf].start
<1>1. bar \in Bars /\ bar.t = clock /\ clock \in Nat
  BY DEF MinuteBars, Bars, Prices, TypeInv, TypeOK
<1>2. clock' \in Nat /\ clock < clock'
  BY <1>1 DEF Quote
<1>3. ASSUME NEW tf \in LongTfs
      PROVE  /\ AddTick(tf, bar.t, bar.c) \in Builders
             /\ AddTick(tf, bar.t, bar.c).start = BucketFloor(clock, tf)
  <2>1. tf \in Nat \ {0} /\ agg[tf] \in Builders /\ bar.c \in Int
    BY <1>1, Times DEF TypeInv, TypeOK, Bars
  <2>2. BucketFloor(clock, tf) \in Nat
    BY <1>1, <2>1, Buckets
  <2>3. CASE agg[tf].start = BucketFloor(bar.t, tf)
    BY <1>1, <2>1, <2>2, <2>3 DEF AddTick, Extend, Builders
  <2>4. CASE agg[tf].start # BucketFloor(bar.t, tf)
    BY <1>1, <2>1, <2>2, <2>4 DEF AddTick, Reset, Builders
  <2>5. QED
    BY <2>3, <2>4
<1>4. /\ agg' \in [LongTfs -> Builders]
      /\ \A tf \in LongTfs : agg'[tf].start = BucketFloor(clock, tf)
  BY <1>3 DEF Quote
<1>5. ASSUME NEW tf \in LongTfs, Completes(tf, clock)
      PROVE  BarOf(agg[tf]) \in Bars /\ BarOf(agg[tf]).t = agg[tf].start
  BY <1>5 DEF Completes, BarOf, Bars, Builders, TypeInv, TypeOK
<1> DEFINE D == {1} \cup {u \in LongTfs : Completes(u, clock)}
<1>6. 1 \notin LongTfs
  BY DEF LongTfs
<1>7. due' = [tf \in D |-> IF tf = 1 THEN bar ELSE BarOf(agg[tf])]
  BY <1>1 DEF Quote
<1>8. ASSUME NEW tf \in D PROVE due'[tf] \in Bars
  BY <1>1, <1>5, <1>7
<1>9. due' \in [D -> Bars]
  BY <1>7, <1>8
<1>10. QED
  BY <1>1, <1>2, <1>4, <1>5, <1>6, <1>7, <1>9

\* Every step keeps the types and the books finite.
LEMMA TypeStep ==
  ASSUME TypeInv, [Next]_vars PROVE TypeInv'
<1> USE DEF Phases
<1>1. ASSUME NEW minute \in clock + 1 .. clock + MaxGap, NEW bar \in MinuteBars,
             Quote(minute, bar)
      PROVE  TypeInv'
  <2>1. minute \in Int
    BY ConstantsAssumption DEF TypeInv, TypeOK
  <2>2. \E tfs \in SUBSET Timeframes : due' \in [tfs -> Bars]
    <3> DEFINE D == {1} \cup {u \in LongTfs : Completes(u, clock)}
    <3>1. due' \in [D -> Bars] /\ D \in SUBSET Timeframes
      BY <1>1, <2>1, QuoteTyped DEF Timeframes, LongTfs
    <3>2. QED
      BY <3>1
  <2>3. DOMAIN due' # {}
    BY <1>1, <2>1, QuoteTyped
  <2>4. clock' \in Nat /\ agg' \in [LongTfs -> Builders] /\ last' \in Bars
    BY <1>1, <2>1, QuoteTyped DEF Quote
  <2>5. QED
    BY <1>1, <2>2, <2>3, <2>4 DEF Quote, TypeInv, TypeOK
<1>2. ASSUME NEW s \in Strategies, NEW p \in open[s], Exit(s, p)
      PROVE  TypeInv'
  <2>1. p \in Position /\ SizeChange(p) \in Int
    BY ConstantsAssumption
       DEF TypeInv, TypeOK, Position, SizeChange
  <2>2. open' \in [Strategies -> SUBSET Position]
        /\ \A t \in Strategies : open'[t] \in SUBSET open[t]
    BY <1>2 DEF Exit, Remaining, TypeInv, TypeOK
  <2>3. \A t \in Strategies : IsFiniteSet(open'[t])
    BY <2>2, FS_Subset DEF TypeInv
  <2>4. net' \in [Strategies -> Int] /\ unclosed' \in [Strategies -> Int]
    BY <1>2, <2>1 DEF Exit, TypeInv, TypeOK
  <2>5. QED
    BY <1>2, <2>2, <2>3, <2>4 DEF Exit, TypeInv, TypeOK
<1>3. CASE ExitsDone
  BY <1>3 DEF ExitsDone, TypeInv, TypeOK
<1>4. ASSUME NEW flattens \in BOOLEAN, NEW after \in BOOLEAN, Poll(flattens, after)
      PROVE  TypeInv'
  <2>1. /\ open' \in [Strategies -> SUBSET Position]
        /\ net' \in [Strategies -> Int] /\ unclosed' \in [Strategies -> Int]
        /\ \A t \in Strategies : IsFiniteSet(open'[t])
    <3>1. CASE flattens
      BY <1>4, <3>1, FS_EmptySet DEF Poll
    <3>2. CASE ~flattens
      BY <1>4, <3>2 DEF Poll, TypeInv, TypeOK
    <3>3. QED
      BY <3>1, <3>2
  <2>2. /\ \E tfs \in SUBSET Timeframes : due' \in [tfs -> Bars]
        /\ phase' \in Phases /\ (phase' # "idle" => DOMAIN due' # {})
        /\ toAsk' \subseteq Strategies
    <3>1. CASE FinishBar
      <4>1. DOMAIN due # {}
        BY <1>4 DEF Poll, TypeInv
      <4>2. QED
        BY <3>1, <4>1, FinishedTyped
    <3>2. CASE ~FinishBar
      <4>1. due' = due /\ phase' = "coord" /\ toAsk' \subseteq Strategies
            /\ phase = "poll"
        BY <1>4, <3>2 DEF Poll, SwitchBlocks
      <4>2. QED
        BY <4>1 DEF TypeInv, TypeOK
    <3>3. QED
      BY <3>1, <3>2
  <2>3. active' \in BOOLEAN
        /\ UNCHANGED <<clock, agg, candidates, unanswered, abandoned, last>>
    BY <1>4 DEF Poll
  <2>4. QED
    BY <2>1, <2>2, <2>3 DEF TypeInv, TypeOK
<1>5. ASSUME NEW s \in Strategies, ForceFlat(s) PROVE TypeInv'
  <2>1. Cardinality(open[s]) \in Nat
    BY FS_CardinalityType DEF TypeInv
  <2>2. /\ open' \in [Strategies -> SUBSET Position]
        /\ net' \in [Strategies -> Int] /\ unclosed' \in [Strategies -> Int]
    BY <1>5, <2>1 DEF ForceFlat, TypeInv, TypeOK
  <2>3. \A t \in Strategies : IsFiniteSet(open'[t])
    BY <1>5, FS_EmptySet DEF ForceFlat, TypeInv, TypeOK
  <2>4. QED
    BY <1>5, <2>2, <2>3 DEF ForceFlat, TypeInv, TypeOK
<1>6. CASE CoordDone
  BY <1>6 DEF CoordDone, TypeInv, TypeOK
<1>7. ASSUME NEW s \in Strategies, NoSignal(s) \/ BlockedSignal(s) PROVE TypeInv'
  BY <1>7 DEF NoSignal, BlockedSignal, Emitted, IsCandidate, TypeInv, TypeOK
<1>8. ASSUME NEW s \in Strategies, NEW side \in Sides, NEW size \in 1..MaxSize,
             OpenPhantom(s, side, size)
      PROVE  TypeInv'
  <2>1. phase = "signals" /\ DOMAIN due # {}
    BY <1>8 DEF OpenPhantom, Emitted, TypeInv
  <2>2. Bar \in Bars /\ CurrentTf \in Nat
    BY <2>1, CurrentIsShortest
  <2>3. side \in Int /\ size \in Int /\ side * size \in Int
    BY ConstantsAssumption DEF Sides
  <2>4. side * StopTicks \in Int /\ side * TargetTicks \in Int
    BY ConstantsAssumption DEF Sides
  <2>5. PhantomOf(s, side, size) \in Position
    <3>1. Bar.c \in Int /\ Bar.t + CurrentTf \in Nat /\ last.t \in Nat
      BY <2>2 DEF TypeInv, TypeOK, Bars
    <3>2. QED
      BY <2>4, <3>1 DEF PhantomOf, Position
  <2>6. open' \in [Strategies -> SUBSET Position]
    BY <1>8, <2>5 DEF OpenPhantom, TypeInv, TypeOK
  <2>7. \A t \in Strategies : IsFiniteSet(open'[t])
    <3>1. IsFiniteSet(open[s] \cup {PhantomOf(s, side, size)})
      BY FS_AddElement DEF TypeInv
    <3>2. QED
      BY <1>8, <3>1 DEF OpenPhantom, TypeInv, TypeOK
  <2>8. net' \in [Strategies -> Int] /\ unclosed' \in [Strategies -> Int]
    BY <1>8, <2>3 DEF OpenPhantom, TypeInv, TypeOK
  <2>9. QED
    BY <1>8, <2>6, <2>7, <2>8 DEF OpenPhantom, Emitted, IsCandidate, TypeInv, TypeOK
<1>9. CASE StrategyRaises
  <2>1. due' \in [{} -> Bars] /\ phase' = "idle" /\ toAsk' = {}
    BY <1>9 DEF StrategyRaises, DropQuote, NoBars
  <2>2. QED
    BY <1>9, <2>1 DEF StrategyRaises, TypeInv, TypeOK
<1>10. CASE Arbitrate
  <2>1. DOMAIN due # {} /\ FinishBar
    BY <1>10 DEF Arbitrate, TypeInv
  <2>2. QED
    BY <1>10, <2>1, FinishedTyped DEF Arbitrate, TypeInv, TypeOK
<1>11. CASE Restart
  <2>1. due' \in [{} -> Bars] /\ phase' = "idle" /\ toAsk' = {}
    BY <1>11 DEF Restart, NoBars
  <2>2. agg' \in [LongTfs -> Builders]
    BY <1>11 DEF Restart, Empty, Builders
  <2>3. /\ open' \in [Strategies -> SUBSET Position]
        /\ net' \in [Strategies -> Int]
        /\ \A t \in Strategies : IsFiniteSet(open'[t])
    BY <1>11, FS_EmptySet DEF Restart
  <2>4. QED
    BY <1>11, <2>1, <2>2, <2>3 DEF Restart, TypeInv, TypeOK
<1>12. CASE UNCHANGED vars
  BY <1>12 DEF vars, TypeInv, TypeOK
<1>13. QED
  BY <1>1, <1>2, <1>3, <1>4, <1>5, <1>6, <1>7, <1>8, <1>9, <1>10, <1>11, <1>12
     DEF Next

\* Every variable keeps its type, and the books stay finite.
THEOREM TypeCorrect == Spec => []TypeOK
<1>1. TypeInv => TypeOK
  BY DEF TypeInv
<1>2. QED
  BY <1>1, TypeInit, TypeStep, PTL DEF Spec
-----------------------------------------------------------------------------
(* Bars and entries.  A bar that is handled ended by now, a longer one     *)
(* before the bucket being built started, and a phantom of a strategy was  *)
(* entered before the strategy's own bar that is still to be handled.      *)
BarsInv ==
  /\ \A tf \in DOMAIN due : due[tf].t + tf <= clock
  /\ \A tf \in LongTfs :
       /\ agg[tf].start <= clock
       /\ agg[tf].start # -1 => \E k \in Nat : agg[tf].start = tf * k
       /\ tf \in DOMAIN due => due[tf].t + tf <= agg[tf].start
  /\ phase \in {"coord", "signals"} => \A s \in toAsk : TfOf[s] = CurrentTf

\* The own bar of a strategy is due, and it was not asked about it yet.
OwnBarPending(s) ==
  /\ TfOf[s] \in DOMAIN due
  /\ phase # "signals" \/ CurrentTf # TfOf[s] \/ s \in toAsk

Entered(s, p) ==
  /\ p.from <= clock
  /\ TfOf[s] # 1 => p.from <= agg[TfOf[s]].start
  /\ 1 \in DOMAIN due /\ phase \in {"exits", "poll", "coord"}
       => p.from <= due[1].t
  /\ OwnBarPending(s) => p.from <= due[TfOf[s]].t

EntryInv == \A s \in Strategies : \A p \in open[s] : Entered(s, p)

\* Finishing the current bar disturbs none of the others.
LEMMA FinishEntries ==
  ASSUME TypeInv, BarsInv, EntryInv, FinishBar, phase # "idle",
         phase # "signals" \/ toAsk = {},
         UNCHANGED <<clock, agg>>,
         \A s \in Strategies : open'[s] \in SUBSET open[s]
  PROVE  BarsInv' /\ EntryInv'
<1>1. DOMAIN due # {}
  BY DEF TypeInv
<1>2. /\ DOMAIN due' = DOMAIN due \ {CurrentTf}
      /\ \A tf \in DOMAIN due' : due'[tf] = due[tf]
      /\ phase' \in {"idle", "exits"} /\ toAsk' = {}
  BY <1>1, FinishedTyped
<1>3. BarsInv'
  BY <1>2 DEF BarsInv
<1>4. ASSUME NEW s \in Strategies, NEW p \in open'[s] PROVE Entered(s, p)'
  <2>1. p \in open[s] /\ Entered(s, p)
    BY DEF EntryInv
  <2>2. 1 \notin DOMAIN due'
    <3>1. /\ CurrentTf \in DOMAIN due /\ CurrentTf \in Nat \ {0}
          /\ \A tf \in DOMAIN due : CurrentTf <= tf
      BY <1>1, CurrentIsShortest
    <3>2. 1 \in DOMAIN due => CurrentTf = 1
      BY <3>1
    <3>3. QED
      BY <1>2, <3>2
  <2>3. OwnBarPending(s)' => OwnBarPending(s) /\ TfOf[s] \in DOMAIN due'
    BY <1>2 DEF OwnBarPending
  <2>4. QED
    BY <1>2, <2>1, <2>2, <2>3 DEF Entered
<1>5. QED
  BY <1>3, <1>4 DEF EntryInv

\* Steps that touch neither the bars nor the phase, and open nothing.
LEMMA EntryFrame ==
  ASSUME BarsInv, EntryInv, UNCHANGED <<clock, agg, due, phase>>,
         toAsk' \in SUBSET toAsk,
         \A s \in Strategies : open'[s] \in SUBSET open[s]
  PROVE  BarsInv' /\ EntryInv'
<1>1. CurrentTf' = CurrentTf
  BY DEF CurrentTf
<1>2. BarsInv'
  BY <1>1 DEF BarsInv
<1>3. ASSUME NEW s \in Strategies, NEW p \in open'[s] PROVE Entered(s, p)'
  BY <1>1, <1>3 DEF EntryInv, Entered, OwnBarPending
<1>4. QED
  BY <1>2, <1>3 DEF EntryInv

\* With no bar to handle, nothing is left to compare the entries with.
LEMMA EntryDropped ==
  ASSUME BarsInv, EntryInv, UNCHANGED <<clock, agg>>, due' = NoBars,
         phase' = "idle", \A s \in Strategies : open'[s] \in SUBSET open[s]
  PROVE  BarsInv' /\ EntryInv'
<1>1. DOMAIN due' = {}
  BY DEF NoBars
<1>2. BarsInv'
  BY <1>1 DEF BarsInv
<1>3. ASSUME NEW s \in Strategies, NEW p \in open'[s] PROVE Entered(s, p)'
  BY <1>1, <1>3 DEF EntryInv, Entered, OwnBarPending
<1>4. QED
  BY <1>2, <1>3 DEF EntryInv

\* A quote gives no phantom a bar older than its entry.
LEMMA QuoteEntries ==
  ASSUME TypeInv, BarsInv, EntryInv, NEW minute \in Int, NEW bar \in MinuteBars,
         Quote(minute, bar)
  PROVE  BarsInv' /\ EntryInv'
<1> DEFINE D == {1} \cup {u \in LongTfs : Completes(u, clock)}
<1>1. /\ clock \in Nat /\ clock' \in Nat /\ clock + 1 <= clock'
      /\ bar.t = clock
      /\ DOMAIN due' = D /\ due'[1] = bar
  <2>1. clock \in Nat
    BY DEF TypeInv, TypeOK
  <2>2. clock' \in Nat /\ clock < clock' /\ bar.t = clock /\ due'[1] = bar
        /\ due' \in [D -> Bars]
    BY QuoteTyped
  <2>3. QED
    BY <2>1, <2>2
<1>2. ASSUME NEW tf \in LongTfs
      PROVE  /\ tf \in Nat \ {0} /\ agg[tf].start \in Nat \cup {-1}
             /\ agg'[tf].start \in Nat
             /\ agg'[tf].start = BucketFloor(clock, tf)
             /\ agg[tf].start <= agg'[tf].start /\ agg'[tf].start <= clock
             /\ \E k \in Nat : agg'[tf].start = tf * k
             /\ Completes(tf, clock) =>
                  /\ due'[tf].t = agg[tf].start
                  /\ agg[tf].start + tf <= agg'[tf].start
  <2> DEFINE now == BucketFloor(clock, tf)
             then == agg[tf].start
  <2>1. /\ tf \in Nat \ {0} /\ then \in Nat \cup {-1}
        /\ agg'[tf].start = now
        /\ Completes(tf, clock) => due'[tf].t = then
    BY Times, QuoteTyped DEF TypeInv, TypeOK, Builders
  <2>2. /\ now \in Nat /\ now <= clock
        /\ \E k \in Nat : now = tf * k
        /\ \A k \in Nat : tf * k <= clock /\ tf * k # now => tf * k + tf <= now
    BY <1>1, <2>1, Buckets
  <2>3. then # -1 /\ then # now => then + tf <= now
    BY <2>2 DEF BarsInv
  <2>4. then <= now
    <3> HIDE DEF now, then
    <3>1. QED
      BY <2>1, <2>2, <2>3
  <2>5. Completes(tf, clock) => then # -1 /\ then # now
    BY DEF Completes
  <2>6. QED
    BY <2>1, <2>2, <2>3, <2>4, <2>5
<1>3. BarsInv'
  <2>1. ASSUME NEW tf \in D PROVE due'[tf].t + tf <= clock'
    <3>1. CASE tf = 1
      BY <1>1, <3>1
    <3>2. CASE tf # 1
      <4>1. tf \in LongTfs /\ Completes(tf, clock)
        BY <3>2
      <4>2. due'[tf].t + tf <= agg'[tf].start /\ agg'[tf].start <= clock
            /\ agg'[tf].start \in Nat /\ due'[tf].t \in Nat \cup {-1}
            /\ tf \in Nat
        BY <1>2, <4>1
      <4>3. QED
        BY <1>1, <4>2
    <3>3. QED
      BY <3>1, <3>2
  <2>2. ASSUME NEW tf \in LongTfs
        PROVE  /\ agg'[tf].start <= clock'
               /\ \E k \in Nat : agg'[tf].start = tf * k
               /\ tf \in D => due'[tf].t + tf <= agg'[tf].start
    <3>1. tf # 1
      BY DEF LongTfs
    <3>2. QED
      BY <1>1, <1>2, <3>1
  <2>3. phase' = "exits"
    BY DEF Quote
  <2>4. QED
    BY <1>1, <2>1, <2>2, <2>3 DEF BarsInv
<1>4. ASSUME NEW s \in Strategies, NEW p \in open'[s] PROVE Entered(s, p)'
  <2>1. p \in open[s] /\ Entered(s, p) /\ p.from \in Nat
    BY DEF Quote, EntryInv, TypeInv, TypeOK, Position
  <2>2. p.from <= clock /\ p.from <= clock'
    BY <1>1, <2>1 DEF Entered
  <2>3. CASE TfOf[s] = 1
    BY <1>1, <2>2, <2>3 DEF Entered, OwnBarPending
  <2>4. CASE TfOf[s] # 1
    <3>1. TfOf[s] \in LongTfs
      BY <2>4, Times DEF LongTfs
    <3>2. p.from <= agg[TfOf[s]].start
      BY <2>1, <2>4 DEF Entered
    <3>3. p.from <= agg'[TfOf[s]].start
      BY <1>2, <2>1, <3>1, <3>2
    <3>4. TfOf[s] \in D => due'[TfOf[s]].t = agg[TfOf[s]].start
      BY <1>2, <2>4, <3>1
    <3>5. QED
      BY <1>1, <2>2, <3>2, <3>3, <3>4 DEF Entered, OwnBarPending
  <2>5. QED
    BY <2>3, <2>4
<1>5. QED
  BY <1>3, <1>4 DEF EntryInv

\* The phantom a signal opens ends up before the next bar of its strategy,
\* and is none of those that are open already.
LEMMA OpenEntries ==
  ASSUME TypeInv, BarsInv, EntryInv, NEW s \in Strategies, NEW side \in Sides,
         NEW size \in 1..MaxSize, OpenPhantom(s, side, size)
  PROVE  /\ PhantomOf(s, side, size) \notin open[s]
         /\ BarsInv' /\ EntryInv'
<1> DEFINE p == PhantomOf(s, side, size)
<1>1. /\ phase = "signals" /\ DOMAIN due # {} /\ s \in toAsk
      /\ toAsk' = toAsk \ {s} /\ UNCHANGED <<clock, agg, due, phase>>
      /\ open' = [open EXCEPT ![s] = open[s] \cup {p}]
  BY DEF OpenPhantom, Emitted, TypeInv
<1>2. /\ CurrentTf \in DOMAIN due /\ CurrentTf \in Nat \ {0} /\ Bar \in Bars
      /\ TfOf[s] = CurrentTf
  BY <1>1, CurrentIsShortest DEF BarsInv
<1>3. p.from = Bar.t + CurrentTf /\ Bar = due[TfOf[s]] /\ Bar.t \in Nat
  BY <1>2 DEF PhantomOf, Bars, Bar
<1> HIDE DEF p
<1>4. ASSUME NEW q \in open[s] PROVE q.from <= Bar.t
  <2>1. OwnBarPending(s)
    BY <1>1, <1>2 DEF OwnBarPending
  <2>2. QED
    BY <1>3, <2>1 DEF EntryInv, Entered
<1>5. p \notin open[s]
  BY <1>2, <1>3, <1>4
<1>6. CurrentTf' = CurrentTf
  BY <1>1 DEF CurrentTf
<1>7. BarsInv'
  BY <1>1, <1>6 DEF BarsInv
<1>8. ASSUME NEW t \in Strategies, NEW q \in open'[t] PROVE Entered(t, q)'
  <2>1. CASE q \in open[t]
    BY <1>1, <1>6, <2>1 DEF EntryInv, Entered, OwnBarPending
  <2>2. CASE q \notin open[t]
    <3>1. t = s /\ q = p
      BY <1>1, <2>2 DEF TypeInv, TypeOK
    <3>2. ~OwnBarPending(s)'
      BY <1>1, <1>2, <1>6 DEF OwnBarPending
    <3>3. p.from <= clock
      BY <1>2, <1>3 DEF BarsInv
    <3>4. TfOf[s] # 1 => p.from <= agg[TfOf[s]].start
      <4>1. TfOf[s] # 1 => TfOf[s] \in LongTfs
        BY Times DEF LongTfs
      <4>2. QED
        BY <1>2, <1>3, <4>1 DEF BarsInv
    <3>5. QED
      BY <1>1, <3>1, <3>2, <3>3, <3>4 DEF Entered
  <2>3. QED
    BY <2>1, <2>2
<1>9. QED
  BY <1>5, <1>7, <1>8 DEF EntryInv, p

\* There is no bar and no phantom at the start.
LEMMA EntryInit == Init => BarsInv /\ EntryInv
BY DEF Init, NoBars, Empty, BarsInv, EntryInv

\* Every step keeps bars and entries in order.
LEMMA EntryStep ==
  ASSUME TypeInv, BarsInv, EntryInv, [Next]_vars PROVE BarsInv' /\ EntryInv'
<1>1. ASSUME NEW minute \in clock + 1 .. clock + MaxGap, NEW bar \in MinuteBars,
             Quote(minute, bar)
      PROVE  BarsInv' /\ EntryInv'
  BY <1>1, QuoteEntries, ConstantsAssumption DEF TypeInv, TypeOK
<1>2. ASSUME NEW s \in Strategies, NEW p \in open[s], Exit(s, p)
      PROVE  BarsInv' /\ EntryInv'
  BY <1>2, EntryFrame DEF Exit, Remaining, TypeInv, TypeOK
<1>3. CASE ExitsDone \/ CoordDone
  <2>1. /\ UNCHANGED <<clock, agg, due, open>>
        /\ \/ phase = "exits" /\ phase' = "poll"
           \/ /\ phase = "coord" /\ phase' = "signals"
              /\ toAsk' = {s \in Strategies : TfOf[s] = CurrentTf}
    BY <1>3 DEF ExitsDone, CoordDone
  <2>2. CurrentTf' = CurrentTf
    BY <2>1 DEF CurrentTf
  <2>3. BarsInv'
    BY <2>1, <2>2 DEF BarsInv
  <2>4. \A s \in Strategies : OwnBarPending(s)' => OwnBarPending(s)
    BY <2>1, <2>2 DEF OwnBarPending
  <2>5. QED
    BY <2>1, <2>3, <2>4 DEF EntryInv, Entered
<1>4. ASSUME NEW flattens \in BOOLEAN, NEW after \in BOOLEAN, Poll(flattens, after)
      PROVE  BarsInv' /\ EntryInv'
  <2>1. /\ phase = "poll" /\ UNCHANGED <<clock, agg>>
        /\ \A s \in Strategies : open'[s] \in SUBSET open[s]
    BY <1>4 DEF Poll
  <2>2. CASE FinishBar
    BY <2>1, <2>2, FinishEntries
  <2>3. CASE ~FinishBar
    <3>1. /\ due' = due /\ phase' = "coord"
          /\ toAsk' = {s \in Strategies : TfOf[s] = CurrentTf}
      BY <1>4, <2>3 DEF Poll, SwitchBlocks
    <3>2. CurrentTf' = CurrentTf
      BY <3>1 DEF CurrentTf
    <3>3. BarsInv'
      BY <2>1, <3>1, <3>2 DEF BarsInv
    <3>4. \A s \in Strategies : OwnBarPending(s)' => OwnBarPending(s)
      BY <2>1, <3>1 DEF OwnBarPending
    <3>5. ASSUME NEW s \in Strategies, NEW p \in open'[s] PROVE Entered(s, p)'
      <4>1. Entered(s, p)
        BY <2>1, <3>5 DEF EntryInv
      <4>2. QED
        BY <2>1, <3>1, <3>4, <4>1 DEF Entered
    <3>6. QED
      BY <3>3, <3>5 DEF EntryInv
  <2>4. QED
    BY <2>2, <2>3
<1>5. ASSUME NEW s \in Strategies, ForceFlat(s) PROVE BarsInv' /\ EntryInv'
  BY <1>5, EntryFrame DEF ForceFlat, TypeInv, TypeOK
<1>6. ASSUME NEW s \in Strategies, NoSignal(s) \/ BlockedSignal(s)
      PROVE  BarsInv' /\ EntryInv'
  BY <1>6, EntryFrame DEF NoSignal, BlockedSignal, Emitted
<1>7. ASSUME NEW s \in Strategies, NEW side \in Sides, NEW size \in 1..MaxSize,
             OpenPhantom(s, side, size)
      PROVE  BarsInv' /\ EntryInv'
  BY <1>7, OpenEntries
<1>8. CASE StrategyRaises
  BY <1>8, EntryDropped DEF StrategyRaises, DropQuote
<1>9. CASE Arbitrate
  <2>1. /\ FinishBar /\ phase = "signals" /\ toAsk = {}
        /\ UNCHANGED <<clock, agg, open>>
    BY <1>9 DEF Arbitrate
  <2>2. QED
    BY <2>1, FinishEntries
<1>10. CASE Restart
  <2>1. DOMAIN due' = {} /\ phase' = "idle" /\ clock' = clock
        /\ \A tf \in LongTfs : agg'[tf].start = -1
        /\ \A s \in Strategies : open'[s] = {}
    BY <1>10 DEF Restart, NoBars, Empty
  <2>2. clock \in Nat
    BY DEF TypeInv, TypeOK
  <2>3. BarsInv'
    BY <2>1, <2>2 DEF BarsInv
  <2>4. ASSUME NEW s \in Strategies, NEW p \in open'[s] PROVE Entered(s, p)'
    <3>1. open'[s] = {}
      BY <1>10 DEF Restart
    <3>2. QED
      BY <3>1
  <2>5. QED
    BY <2>3, <2>4 DEF EntryInv
<1>11. CASE UNCHANGED vars
  BY <1>11, EntryFrame DEF vars
<1>12. QED
  BY <1>1, <1>2, <1>3, <1>4, <1>5, <1>6, <1>7, <1>8, <1>9, <1>10, <1>11 DEF Next

\* The types, the bars and the entries together.
BookInv == TypeInv /\ BarsInv /\ EntryInv

\* The invariant of the books holds in every state.
LEMMA BookInvariant == Spec => []BookInv
<1>1. Init => BookInv
  BY TypeInit, EntryInit DEF BookInv
<1>2. BookInv /\ [Next]_vars => BookInv'
  BY TypeStep, EntryStep DEF BookInv
<1>3. QED
  BY <1>1, <1>2, PTL DEF Spec
-----------------------------------------------------------------------------
\* Every strategy is on the same timeframe, as in the deployed fleet.
OneTimeframe == \A s, t \in Strategies : TfOf[s] = TfOf[t]

\* In a fleet on one timeframe a phantom is closed only by bars that start
\* after its entry bar ended, under every fault.
THEOREM NoLookbackSafe == ASSUME OneTimeframe PROVE Spec => []NoLookback
<1>1. ASSUME BookInv PROVE NoLookback
  <2> SUFFICES ASSUME phase = "exits", NEW s \in Strategies, NEW p \in open[s]
               PROVE  Bar.t >= p.from
    BY DEF NoLookback
  <2>1. CurrentTf \in DOMAIN due /\ Bar = due[CurrentTf] /\ Bar \in Bars
    BY <1>1, CurrentIsShortest DEF BookInv, TypeInv, Bar
  <2>2. Entered(s, p) /\ p.from \in Nat /\ Bar.t \in Nat
    BY <1>1, <2>1 DEF BookInv, EntryInv, TypeInv, TypeOK, Position, Bars
  <2>3. CASE CurrentTf = 1
    BY <2>1, <2>2, <2>3 DEF Entered
  <2>4. CASE CurrentTf # 1
    <3>1. CurrentTf \in Timeframes
      BY <1>1, <2>1 DEF BookInv, TypeInv, TypeOK
    <3>2. TfOf[s] = CurrentTf
      BY <2>4, <3>1 DEF Timeframes, OneTimeframe
    <3>3. p.from <= due[TfOf[s]].t
      BY <2>1, <2>2, <3>2 DEF Entered, OwnBarPending
    <3>4. QED
      BY <2>1, <2>2, <3>2, <3>3
  <2>5. QED
    BY <2>3, <2>4
<1>2. QED
  BY <1>1, BookInvariant, PTL
-----------------------------------------------------------------------------
(* The sum of the book.                                                    *)
LEMMA BookSums ==
  ASSUME TypeInv, NEW s \in Strategies
  PROVE  /\ \A p \in open[s] : Sum(open[s] \ {p}) = Sum(open[s]) - Signed(p)
         /\ \A p \in Position \ open[s] :
              Sum(open[s] \cup {p}) = Sum(open[s]) + Signed(p)
         /\ Sum({}) = 0
<1>1. \A p \in Position : Signed(p) \in Int
  BY SignedSize DEF Position
<1>2. IsFiniteSet(open[s]) /\ open[s] \in SUBSET Position
  BY DEF TypeInv, TypeOK
<1>3. ASSUME NEW A \in SUBSET Position, IsFiniteSet(A), NEW p \in A
      PROVE  /\ Sum(A) = Signed(p) + Sum(A \ {p})
             /\ Sum(A \ {p}) \in Int /\ Signed(p) \in Int
  <2>1. IsFiniteSet(A \ {p}) /\ A \ {p} \in SUBSET Position
    BY <1>3, FS_Subset
  <2>2. Sum(A \ {p}) \in Int
    BY <1>1, <2>1, SumInt
  <2>3. Sum(A) = Signed(p) + Sum(A \ {p})
    BY <1>1, <1>3, SumRemove
  <2>4. QED
    BY <1>1, <2>2, <2>3
<1>4. ASSUME NEW p \in open[s]
      PROVE  Sum(open[s] \ {p}) = Sum(open[s]) - Signed(p)
  <2> DEFINE v == Sum(open[s] \ {p})
             w == Signed(p)
  <2>1. Sum(open[s]) = w + v /\ v \in Int /\ w \in Int
    BY <1>2, <1>3
  <2> HIDE DEF v, w
  <2>2. (w + v) - w = v
    BY <2>1
  <2>3. QED
    BY <2>1, <2>2 DEF v, w
<1>5. ASSUME NEW p \in Position \ open[s]
      PROVE  Sum(open[s] \cup {p}) = Sum(open[s]) + Signed(p)
  <2> DEFINE A == open[s] \cup {p}
             v == Sum(open[s])
             w == Signed(p)
  <2>1. IsFiniteSet(A) /\ A \in SUBSET Position /\ p \in A /\ A \ {p} = open[s]
    BY <1>2, FS_AddElement
  <2>2. Sum(A) = w + v /\ v \in Int /\ w \in Int
    <3> HIDE DEF A
    <3>1. /\ Sum(A) = Signed(p) + Sum(A \ {p})
          /\ Sum(A \ {p}) \in Int /\ Signed(p) \in Int
      BY <1>3, <2>1
    <3>2. QED
      BY <2>1, <3>1
  <2> HIDE DEF v, w
  <2>3. w + v = v + w
    BY <2>2
  <2>4. QED
    BY <2>2, <2>3 DEF A, v, w
<1>6. Sum({}) = 0
  BY SumStep, FS_EmptySet
<1>7. QED
  BY <1>4, <1>5, <1>6

\* The net of a book is the result of some run of the sum over it.
Balanced(book, value) == \E g : IsSum(g, book) /\ value = g[book]
BalanceInv == \A s \in Strategies : Balanced(open[s], net[s])

\* A book is balanced at its sum and at no other number.
LEMMA BalancedSum ==
  ASSUME NEW book, IsFiniteSet(book), NEW value
  PROVE  Balanced(book, value) <=> value = Sum(book)
<1>1. book \in SUBSET book /\ book \in SUBSET (book \cap book)
  OBVIOUS
<1>2. PICK h : IsSum(h, book) /\ Sum(book) = h[book]
  <2>1. \E g : IsSum(g, book)
    BY <1>1, SumExists
  <2>2. QED
    BY <2>1, SumUnfold
<1>3. ASSUME NEW g, IsSum(g, book) PROVE g[book] = h[book]
  BY <1>1, <1>2, <1>3, SumsAgree
<1>4. QED
  BY <1>2, <1>3 DEF Balanced

\* Each update of the net goes with the one of the list.
LEMMA BalanceStep ==
  ASSUME BookInv, BalanceInv, [Next]_vars PROVE BalanceInv'
<1> DEFINE Agrees == \A s \in Strategies : net'[s] = Sum(open'[s])
<1> USE DEF BookInv
<1>1. \A s \in Strategies : net[s] = Sum(open[s])
  BY BalancedSum DEF BalanceInv, TypeInv
<1>2. SUFFICES Agrees
  <2>1. \A s \in Strategies : IsFiniteSet(open'[s])
    BY TypeStep DEF TypeInv
  <2>2. ASSUME Agrees, NEW s \in Strategies PROVE Balanced(open'[s], net'[s])
    BY <2>1, <2>2, BalancedSum
  <2>3. QED
    BY <2>2 DEF BalanceInv, Balanced, IsSum, Any, Signed
<1>3. ASSUME UNCHANGED <<open, net>> PROVE Agrees
  BY <1>1, <1>3
<1>4. ASSUME NEW s \in Strategies, NEW p \in open[s], Exit(s, p)
      PROVE  Agrees
  <2>1. SizeChange(p) = -Signed(p) /\ Signed(p) \in Int
    BY SignedSize DEF TypeInv, TypeOK, Position
  <2>2. /\ open' = [open EXCEPT ![s] = open[s] \ {p}]
        /\ net' = [net EXCEPT ![s] = net[s] + SizeChange(p)]
    BY <1>4 DEF Exit, Remaining
  <2>3. net[s] \in Int /\ net[s] = Sum(open[s])
    BY <1>1 DEF TypeInv, TypeOK
  <2>4. net[s] + SizeChange(p) = Sum(open[s] \ {p})
    <3>1. Sum(open[s] \ {p}) = Sum(open[s]) - Signed(p)
      BY BookSums
    <3>2. QED
      BY <2>1, <2>3, <3>1
  <2>5. \A t \in Strategies :
          /\ open'[t] = IF t = s THEN open[s] \ {p} ELSE open[t]
          /\ net'[t] = IF t = s THEN net[s] + SizeChange(p) ELSE net[t]
    BY <2>2 DEF TypeInv, TypeOK
  <2>6. QED
    BY <1>1, <2>4, <2>5
<1>5. ASSUME NEW s \in Strategies, ForceFlat(s) PROVE Agrees
  <2>1. \A t \in Strategies : /\ open'[t] = IF t = s THEN {} ELSE open[t]
                              /\ net'[t] = IF t = s THEN 0 ELSE net[t]
    BY <1>5 DEF ForceFlat, TypeInv, TypeOK
  <2>2. Sum({}) = 0
    BY BookSums
  <2>3. QED
    BY <1>1, <2>1, <2>2
<1>6. ASSUME open' = [s \in Strategies |-> {}], net' = [s \in Strategies |-> 0]
      PROVE  Agrees
  <2>1. \A t \in Strategies : open'[t] = {} /\ net'[t] = 0 /\ Sum({}) = 0
    BY <1>6, BookSums
  <2>2. QED
    BY <1>1, <2>1
<1>7. ASSUME NEW s \in Strategies, NEW side \in Sides, NEW size \in 1..MaxSize,
             OpenPhantom(s, side, size)
      PROVE  Agrees
  <2> DEFINE p == PhantomOf(s, side, size)
  <2>1. p \notin open[s]
    BY <1>7, OpenEntries
  <2>2. p \in open'[s] /\ open' \in [Strategies -> SUBSET Position]
    <3>1. TypeInv'
      BY TypeStep
    <3>2. QED
      BY <1>7, <3>1 DEF OpenPhantom, TypeInv, TypeOK
  <2>3. p \in Position \ open[s] /\ side * size = Signed(p)
    BY <2>1, <2>2 DEF Signed, PhantomOf
  <2>4. Sum(open[s] \cup {p}) = Sum(open[s]) + Signed(p)
    BY <2>3, BookSums
  <2>5. \A t \in Strategies :
          /\ open'[t] = IF t = s THEN open[s] \cup {p} ELSE open[t]
          /\ net'[t] = IF t = s THEN net[s] + Signed(p) ELSE net[t]
    BY <1>7, <2>3 DEF OpenPhantom, TypeInv, TypeOK
  <2> HIDE DEF p
  <2>6. QED
    BY <1>1, <2>4, <2>5
<1>8. ASSUME NEW flattens \in BOOLEAN, NEW after \in BOOLEAN, Poll(flattens, after)
      PROVE  Agrees
  <2>1. CASE flattens
    BY <1>6, <1>8, <2>1 DEF Poll
  <2>2. CASE ~flattens
    BY <1>3, <1>8, <2>2 DEF Poll
  <2>3. QED
    BY <2>1, <2>2
<1>9. CASE Restart
  BY <1>6, <1>9 DEF Restart
<1>10. ASSUME \/ \E minute, bar : Quote(minute, bar)
             \/ ExitsDone \/ CoordDone \/ StrategyRaises \/ Arbitrate
             \/ \E s \in Strategies : NoSignal(s) \/ BlockedSignal(s)
             \/ UNCHANGED vars
      PROVE  UNCHANGED <<open, net>>
  BY <1>10 DEF Quote, ExitsDone, CoordDone, StrategyRaises, Arbitrate, NoSignal,
              BlockedSignal, vars
<1>11. QED
  BY <1>3, <1>4, <1>5, <1>7, <1>8, <1>9, <1>10 DEF Next

\* The signed net a strategy is told is the sum of its open phantoms, on every
\* mix of timeframes and under every fault.
THEOREM BookBalancedSafe == Spec => []BookBalanced
<1>1. Init => BalanceInv
  <2>1. Balanced({}, 0)
    BY SumStep, FS_EmptySet, BalancedSum
  <2>2. QED
    BY <2>1 DEF Init, BalanceInv
<1>2. BookInv /\ BalanceInv /\ [Next]_vars => BalanceInv'
  BY BalanceStep
<1>3. BookInv /\ BalanceInv => BookBalanced
  BY BalancedSum DEF BookInv, TypeInv, BalanceInv, BookBalanced, Sum
<1>4. QED
  BY <1>1, <1>2, <1>3, BookInvariant, PTL DEF Spec
-----------------------------------------------------------------------------
(* Rows and phantoms.                                                      *)
\* Every step keeps signal rows, phantoms and close rows matched.
LEMMA AccountedStep ==
  ASSUME BookInv, EveryPhantomAccounted, [Next]_vars
  PROVE  EveryPhantomAccounted'
<1> USE DEF BookInv
<1>1. ASSUME UNCHANGED <<open, unclosed>> PROVE EveryPhantomAccounted'
  BY <1>1 DEF EveryPhantomAccounted
<1>2. ASSUME NEW s \in Strategies, NEW p \in open[s], Exit(s, p)
      PROVE  EveryPhantomAccounted'
  <2>1. \A t \in Strategies :
          /\ open'[t] = IF t = s THEN open[s] \ {p} ELSE open[t]
          /\ unclosed'[t] = IF t = s THEN unclosed[s] - 1 ELSE unclosed[t]
    BY <1>2 DEF Exit, Remaining, TypeInv, TypeOK
  <2>2. Cardinality(open[s] \ {p}) = Cardinality(open[s]) - 1
    BY FS_RemoveElement DEF TypeInv
  <2>3. QED
    BY <2>1, <2>2 DEF EveryPhantomAccounted
<1>3. ASSUME NEW s \in Strategies, ForceFlat(s) PROVE EveryPhantomAccounted'
  <2>1. \A t \in Strategies :
          /\ open'[t] = IF t = s THEN {} ELSE open[t]
          /\ unclosed'[t] = IF t = s THEN unclosed[s] - Cardinality(open[s])
                                     ELSE unclosed[t]
    BY <1>3 DEF ForceFlat, TypeInv, TypeOK
  <2>2. Cardinality({}) = 0 /\ Cardinality(open[s]) \in Nat
    BY FS_EmptySet, FS_CardinalityType DEF TypeInv
  <2>3. QED
    BY <2>1, <2>2 DEF EveryPhantomAccounted
<1>4. ASSUME NEW s \in Strategies, NEW side \in Sides, NEW size \in 1..MaxSize,
             OpenPhantom(s, side, size)
      PROVE  EveryPhantomAccounted'
  <2> DEFINE p == PhantomOf(s, side, size)
  <2>1. \A t \in Strategies :
          /\ open'[t] = IF t = s THEN open[s] \cup {p} ELSE open[t]
          /\ unclosed'[t] = IF t = s THEN unclosed[s] + 1 ELSE unclosed[t]
    BY <1>4 DEF OpenPhantom, TypeInv, TypeOK
  <2>2. p \notin open[s]
    BY <1>4, OpenEntries
  <2>3. Cardinality(open[s] \cup {p}) = Cardinality(open[s]) + 1
    BY <2>2, FS_AddElement DEF TypeInv
  <2> HIDE DEF p
  <2>4. QED
    BY <2>1, <2>3 DEF EveryPhantomAccounted
<1>5. ASSUME NEW flattens \in BOOLEAN, NEW after \in BOOLEAN, Poll(flattens, after)
      PROVE  EveryPhantomAccounted'
  <2>1. CASE flattens
    BY <1>5, <2>1, FS_EmptySet DEF Poll, EveryPhantomAccounted
  <2>2. CASE ~flattens
    BY <1>1, <1>5, <2>2 DEF Poll
  <2>3. QED
    BY <2>1, <2>2
<1>6. CASE Restart
  BY <1>6, FS_EmptySet DEF Restart, EveryPhantomAccounted
<1>7. ASSUME \/ \E minute, bar : Quote(minute, bar)
             \/ ExitsDone \/ CoordDone \/ StrategyRaises \/ Arbitrate
             \/ \E s \in Strategies : NoSignal(s) \/ BlockedSignal(s)
             \/ UNCHANGED vars
      PROVE  UNCHANGED <<open, unclosed>>
  BY <1>7 DEF Quote, ExitsDone, CoordDone, StrategyRaises, Arbitrate, NoSignal,
              BlockedSignal, vars
<1>8. QED
  BY <1>1, <1>2, <1>3, <1>4, <1>5, <1>6, <1>7 DEF Next

\* Every dry_run_signal row is matched by a dry_run_close row or an open
\* phantom, bars abandoned by a raising strategy included, apart from the
\* phantoms that a kill or a restart took.
THEOREM PhantomsAccountedSafe == Spec => []EveryPhantomAccounted
<1>1. Init => EveryPhantomAccounted
  BY FS_EmptySet DEF Init, EveryPhantomAccounted
<1>2. BookInv /\ EveryPhantomAccounted /\ [Next]_vars => EveryPhantomAccounted'
  BY AccountedStep
<1>3. QED
  BY <1>1, <1>2, BookInvariant, PTL DEF Spec
-----------------------------------------------------------------------------
(* Answers.  A signal is unanswered only while it is a candidate, and a    *)
(* quote that was cut short is over.                                       *)
AnswerInv ==
  IF abandoned THEN phase = "idle"
  ELSE /\ unanswered \subseteq candidates
       /\ phase # "signals" => unanswered = {}

\* Every step keeps the signals answered once the bars are.
LEMMA AnswerStep ==
  ASSUME AnswerInv, [Next]_vars PROVE AnswerInv'
<1>1. ASSUME NEW minute, NEW bar, Quote(minute, bar) PROVE AnswerInv'
  BY <1>1 DEF Quote, AnswerInv
<1>2. ASSUME NEW s \in Strategies, NEW p \in open[s], Exit(s, p) PROVE AnswerInv'
  BY <1>2 DEF Exit, AnswerInv
<1>3. CASE ExitsDone \/ CoordDone
  BY <1>3 DEF ExitsDone, CoordDone, AnswerInv
<1>4. ASSUME NEW flattens \in BOOLEAN, NEW after \in BOOLEAN, Poll(flattens, after)
      PROVE  AnswerInv'
  BY <1>4 DEF Poll, FinishBar, AnswerInv
<1>5. ASSUME NEW s \in Strategies, ForceFlat(s) \/ NoSignal(s) PROVE AnswerInv'
  BY <1>5 DEF ForceFlat, NoSignal, AnswerInv
<1>6. ASSUME NEW s \in Strategies, NEW opened \in BOOLEAN, Emitted(s, opened)
      PROVE  AnswerInv'
  BY <1>6 DEF Emitted, IsCandidate, AnswerInv
<1>7. CASE StrategyRaises \/ Restart
  BY <1>7 DEF StrategyRaises, DropQuote, Restart, AnswerInv
<1>8. CASE Arbitrate
  BY <1>8 DEF Arbitrate, AnswerInv
<1>9. CASE UNCHANGED vars
  BY <1>9 DEF vars, AnswerInv
<1>10. QED
  BY <1>1, <1>2, <1>3, <1>4, <1>5, <1>6, <1>7, <1>8, <1>9
     DEF Next, BlockedSignal, OpenPhantom

\* Between quotes every signal emitted on the last one is answered, unless an
\* exception or a restart cut that quote short.
THEOREM SignalsAnsweredSafe == Spec => []EverySignalAnswered
<1>1. Init => AnswerInv
  BY DEF Init, AnswerInv
<1>2. AnswerInv /\ [Next]_vars => AnswerInv'
  BY AnswerStep
<1>3. AnswerInv => EverySignalAnswered
  BY DEF AnswerInv, EverySignalAnswered
<1>4. QED
  BY <1>1, <1>2, <1>3, PTL DEF Spec
-----------------------------------------------------------------------------
(* Brackets.  A phantom is tested with every 1-minute bar that completes   *)
(* after it was opened, because that bar is the first one to be handled.   *)
BracketInv ==
  /\ 1 \in DOMAIN due => due[1] = last
  /\ \A s \in Strategies : \A p \in open[s] :
       \/ p.seen >= last.t
       \/ ~Hit(p, last)
       \/ phase = "exits" /\ 1 \in DOMAIN due

\* A step that opens no phantom, completes no bar and does not go back to the
\* exits of the 1-minute bar leaves the tests made so far as they are.
LEMMA BracketFrame ==
  ASSUME BracketInv, UNCHANGED last, phase # "exits" \/ UNCHANGED <<phase, due>>,
         \A s \in Strategies : open'[s] \in SUBSET open[s],
         1 \in DOMAIN due' => 1 \in DOMAIN due /\ due'[1] = due[1]
  PROVE  BracketInv'
BY DEF BracketInv, Hit, StopHit, TargetHit

\* Every step keeps the brackets of open phantoms around the bars they saw.
LEMMA BracketStep ==
  ASSUME TypeInv, BracketInv, [Next]_vars PROVE BracketInv'
<1>1. ASSUME NEW minute, NEW bar, Quote(minute, bar) PROVE BracketInv'
  <2>1. /\ 1 \in DOMAIN due' /\ due'[1] = bar
        /\ phase' = "exits" /\ last' = bar
    BY <1>1 DEF Quote
  <2>2. QED
    BY <2>1 DEF BracketInv
<1>2. ASSUME NEW s \in Strategies, NEW p \in open[s], Exit(s, p) PROVE BracketInv'
  <2>1. \A t \in Strategies : open'[t] \in SUBSET open[t]
    BY <1>2 DEF Exit, Remaining, TypeInv, TypeOK
  <2>2. QED
    BY <1>2, <2>1, BracketFrame DEF Exit
<1>3. CASE ExitsDone
  <2>1. 1 \in DOMAIN due => Bar = last
    <3> SUFFICES ASSUME 1 \in DOMAIN due PROVE Bar = last
      OBVIOUS
    <3>1. CurrentTf \in DOMAIN due /\ CurrentTf <= 1 /\ CurrentTf \in Nat \ {0}
      BY CurrentIsShortest, Times DEF TypeInv
    <3>2. CurrentTf = 1
      BY <3>1
    <3>3. QED
      BY <3>2 DEF BracketInv, Bar
  <2>2. QED
    BY <1>3, <2>1 DEF ExitsDone, BracketInv, Hit, StopHit, TargetHit
<1>4. ASSUME FinishBar \/ DropQuote
      PROVE  1 \in DOMAIN due' => 1 \in DOMAIN due /\ due'[1] = due[1]
  <2>1. CASE FinishBar
    <3>1. due' = [tf \in DOMAIN due \ {CurrentTf} |-> due[tf]]
      BY <2>1 DEF FinishBar
    <3>2. QED
      BY <3>1
  <2>2. CASE DropQuote
    BY <2>2 DEF DropQuote, NoBars
  <2>3. QED
    BY <1>4, <2>1, <2>2
<1>5. ASSUME NEW flattens \in BOOLEAN, NEW after \in BOOLEAN, Poll(flattens, after)
      PROVE  BracketInv'
  <2>1. phase = "poll" /\ last' = last
        /\ \A s \in Strategies : open'[s] \in SUBSET open[s]
    BY <1>5 DEF Poll
  <2>2. FinishBar \/ due' = due
    BY <1>5 DEF Poll
  <2>3. QED
    BY <1>4, <2>1, <2>2, BracketFrame
<1>6. ASSUME NEW s \in Strategies, ForceFlat(s) PROVE BracketInv'
  <2>1. \A t \in Strategies : open'[t] \in SUBSET open[t]
    BY <1>6 DEF ForceFlat, TypeInv, TypeOK
  <2>2. QED
    BY <1>6, <2>1, BracketFrame DEF ForceFlat
<1>7. ASSUME CoordDone \/ \E s \in Strategies : NoSignal(s) \/ BlockedSignal(s)
      PROVE  BracketInv'
  BY <1>7, BracketFrame DEF CoordDone, NoSignal, BlockedSignal, Emitted
<1>8. ASSUME NEW s \in Strategies, NEW side \in Sides, NEW size \in 1..MaxSize,
             OpenPhantom(s, side, size)
      PROVE  BracketInv'
  <2> DEFINE p == PhantomOf(s, side, size)
  <2>1. phase = "signals" /\ UNCHANGED <<phase, due, last>> /\ last.t \in Nat
    BY <1>8 DEF OpenPhantom, Emitted, TypeInv, TypeOK, Bars
  <2>2. p.seen = last.t
    BY DEF PhantomOf
  <2> HIDE DEF p
  <2>3. \A t \in Strategies : \A q \in open'[t] : q \in open[t] \/ q = p
    BY <1>8 DEF OpenPhantom, TypeInv, TypeOK, p
  <2>4. QED
    BY <2>1, <2>2, <2>3 DEF BracketInv, Hit, StopHit, TargetHit
<1>9. CASE StrategyRaises \/ Arbitrate
  BY <1>4, <1>9, BracketFrame DEF StrategyRaises, Arbitrate
<1>10. CASE Restart
  <2>1. DOMAIN due' = {} /\ \A s \in Strategies : open'[s] = {}
    BY <1>10 DEF Restart, NoBars
  <2>2. QED
    BY <2>1 DEF BracketInv
<1>11. CASE UNCHANGED vars
  BY <1>11 DEF vars, BracketInv, Hit, StopHit, TargetHit
<1>12. QED
  BY <1>1, <1>2, <1>3, <1>5, <1>6, <1>7, <1>8, <1>9, <1>10, <1>11 DEF Next

\* On every mix of timeframes no phantom stays open whose bracket was left by a
\* 1-minute bar that completed after it was opened, whatever else goes wrong.
THEOREM StopsCheckedSafe == Spec => []StopsChecked
<1>1. Init => BracketInv
  BY DEF Init, NoBars, BracketInv
<1>2. BookInv /\ BracketInv /\ [Next]_vars => BracketInv'
  BY BracketStep DEF BookInv
<1>3. ASSUME TypeInv, BracketInv PROVE StopsChecked
  <2> SUFFICES ASSUME phase = "idle", NEW s \in Strategies, NEW p \in open[s],
                      last.t > p.seen, NEW price \in last.l .. last.h
               PROVE  /\ p.side * (price - p.stop) > 0
                      /\ p.side * (p.target - price) > 0
    BY DEF StopsChecked, InsideBracket
  <2>1. /\ p.side \in {1, -1} /\ p.stop \in Int /\ p.target \in Int
        /\ p.seen \in Nat /\ last.t \in Nat /\ last.l \in Int /\ last.h \in Int
    BY <1>3 DEF TypeInv, TypeOK, Position, Sides, Bars
  <2>2. ~Hit(p, last)
    BY <1>3, <2>1 DEF BracketInv
  <2>3. CASE p.side = 1
    BY <2>1, <2>2, <2>3 DEF Hit, StopHit, TargetHit
  <2>4. CASE p.side = -1
    BY <2>1, <2>2, <2>4 DEF Hit, StopHit, TargetHit
  <2>5. QED
    BY <2>1, <2>3, <2>4
<1>4. QED
  BY <1>1, <1>2, <1>3, BookInvariant, PTL DEF Spec, BookInv
=============================================================================
