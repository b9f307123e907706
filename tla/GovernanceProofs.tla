-------------------------- MODULE GovernanceProofs --------------------------
(***************************************************************************)
(* Proofs about Governance for every set of strategies, every table, rows  *)
(* of any length and any number of scripts, starts and faults.             *)
(***************************************************************************)
EXTENDS Governance, FiniteSetTheorems, WellFoundedInduction, TLAPS

Trades == [pnl : Pnls, day : 0..MaxDays]
EventRows == [strategy : Strategies, pnl : Pnls, day : 0..MaxDays]

\* What a trade earned is a number.
LEMMA TradesEarn == \A t \in Trades : t.pnl \in Int
BY GovernanceAssumption DEF Trades
-----------------------------------------------------------------------------
(* Folds over a sequence, by induction on its prefixes.                    *)

\* A set of numbers that is not empty has a least one.
LEMMA LeastNatural ==
  ASSUME NEW T \in SUBSET Nat, T # {}
  PROVE  \E n \in T : \A k \in T : n <= k
<1> DEFINE R == OpToRel(<, Nat)
<1>1. IsWellFoundedOn(R, Nat)
  BY NatLessThanWellFounded
<1>2. \A k, n \in Nat : <<k, n>> \in R <=> k < n
  BY DEF OpToRel
<1> HIDE DEF R
<1>3. PICK n \in T : \A k \in T : <<k, n>> \notin R
  BY <1>1, WFMin
<1>4. \A k \in T : n \in Nat /\ k \in Nat /\ ~(k < n)
  BY <1>2, <1>3
<1>5. QED
  BY <1>4

\* Induction up to a number.
LEMMA UpTo ==
  ASSUME NEW n \in Nat, NEW G, 0 \in G, \A i \in 1..n : i - 1 \in G => i \in G
  PROVE  \A i \in 0..n : i \in G
<1> DEFINE Bad == {i \in 0..n : i \notin G}
<1> SUFFICES ASSUME Bad # {} PROVE FALSE
  OBVIOUS
<1>1. Bad \in SUBSET Nat
  OBVIOUS
<1> HIDE DEF Bad
<1>2. PICK i \in Bad : \A k \in Bad : i <= k
  BY <1>1, LeastNatural
<1>3. i \in 0..n /\ i \notin G
  BY DEF Bad
<1>4. i \in 1..n
  BY <1>3
<1>5. i - 1 \in 0..n /\ ~(i <= i - 1)
  BY <1>4
<1>6. i - 1 \in G
  BY <1>2, <1>5 DEF Bad
<1>7. QED
  BY <1>3, <1>4, <1>6

\* The largest of the first numbers, and the rest.
LEMMA Largest ==
  /\ \A i \in Nat \ {0} : Max(1..i) = i /\ (1..i) \ {i} = 1..(i - 1)
  /\ \A i \in Nat : \A s \in SUBSET (1..(i + 1)) : i + 1 \in s => Max(s) = i + 1
<1>1. ASSUME NEW S \in SUBSET Nat, NEW i \in S, \A k \in S : k <= i PROVE Max(S) = i
  <2>1. \A x \in S : (\A y \in S : x >= y) <=> x = i
    BY <1>1
  <2>2. QED
    BY <2>1 DEF Max
<1>2. ASSUME NEW i \in Nat \ {0} PROVE Max(1..i) = i /\ (1..i) \ {i} = 1..(i - 1)
  BY <1>1
<1>3. ASSUME NEW i \in Nat, NEW s \in SUBSET (1..(i + 1)), i + 1 \in s
      PROVE  Max(s) = i + 1
  BY <1>1, <1>3
<1>4. QED
  BY <1>2, <1>3

(* A fold over positions 1 to n, the results being in A: step[i] is applied *)
(* at position i.  The function the fold is defined by exists.             *)
Steps(step, n, A) == \A i \in 1..n : \A a \in A : step[i][a] \in A

Folds(g, n, base, step) ==
  \A s \in SUBSET (1..n) :
    g[s] = IF s = {} THEN base ELSE step[Max(s)][g[s \ {Max(s)}]]

\* A fold over the first n numbers exists.
LEMMA FoldExists ==
  ASSUME NEW n \in Nat, NEW A, NEW base \in A, NEW step, Steps(step, n, A)
  PROVE  \E g \in [SUBSET (1..n) -> A] : Folds(g, n, base, step)
<1> DEFINE G == {k \in 0..n : \E g \in [SUBSET (1..k) -> A] : Folds(g, k, base, step)}
<1>1. 0 \in G
  <2>1. [s \in SUBSET (1..0) |-> base] \in [SUBSET (1..0) -> A]
    OBVIOUS
  <2>2. \A s \in SUBSET (1..0) : s = {}
    OBVIOUS
  <2>3. Folds([s \in SUBSET (1..0) |-> base], 0, base, step)
    BY <2>2 DEF Folds
  <2>4. QED
    BY <2>1, <2>3
<1>2. ASSUME NEW i \in 1..n, i - 1 \in G PROVE i \in G
  <2>1. PICK g \in [SUBSET (1..(i - 1)) -> A] : Folds(g, i - 1, base, step)
    BY <1>2
  <2> DEFINE f == [s \in SUBSET (1..i) |->
                     IF i \in s THEN step[i][g[s \ {i}]] ELSE g[s]]
  <2>2. ASSUME NEW s \in SUBSET (1..i), i \in s
        PROVE  /\ s \ {i} \in SUBSET (1..(i - 1)) /\ s \ {i} \in SUBSET (1..i)
               /\ Max(s) = i
    <3> DEFINE j == i - 1
    <3>1. j \in Nat /\ j + 1 = i
      OBVIOUS
    <3>2. s \in SUBSET (1..(j + 1)) /\ j + 1 \in s
      BY <2>2, <3>1
    <3> HIDE DEF j
    <3>3. Max(s) = i
      BY <3>1, <3>2, Largest
    <3>4. s \ {i} \in SUBSET (1..(i - 1))
      OBVIOUS
    <3>5. QED
      BY <3>3, <3>4
  <2>3. ASSUME NEW s \in SUBSET (1..i), i \notin s PROVE s \in SUBSET (1..(i - 1))
    BY <2>3
  <2>4. f \in [SUBSET (1..i) -> A]
    <3>1. ASSUME NEW s \in SUBSET (1..i) PROVE f[s] \in A
      <4>1. CASE i \in s
        BY <2>2, <4>1 DEF Steps
      <4>2. CASE i \notin s
        BY <2>3, <4>2
      <4>3. QED
        BY <4>1, <4>2
    <3>2. QED
      BY <3>1
  <2>5. ASSUME NEW s \in SUBSET (1..i)
        PROVE  f[s] = IF s = {} THEN base ELSE step[Max(s)][f[s \ {Max(s)}]]
    <3>1. CASE i \in s
      <4>1. f[s \ {i}] = g[s \ {i}] /\ Max(s) = i /\ s # {}
        BY <2>2, <3>1
      <4>2. QED
        BY <3>1, <4>1
    <3>2. CASE i \notin s
      <4>1. s \in SUBSET (1..(i - 1)) /\ f[s] = g[s]
        BY <2>3, <3>2
      <4>2. s \ {Max(s)} \in SUBSET (1..i) /\ i \notin s \ {Max(s)}
        BY <3>2
      <4>3. f[s \ {Max(s)}] = g[s \ {Max(s)}]
        BY <4>2
      <4> HIDE DEF f
      <4>4. QED
        BY <2>1, <4>1, <4>3 DEF Folds
    <3>3. QED
      BY <3>1, <3>2
  <2> HIDE DEF f
  <2>6. Folds(f, i, base, step)
    BY <2>5 DEF Folds
  <2>7. QED
    BY <2>4, <2>6
<1> HIDE DEF G
<1>3. n \in G
  BY <1>1, <1>2, UpTo
<1>4. QED
  BY <1>3 DEF G

\* A set of such numbers that is not empty has a largest one.
LEMMA LargestIn ==
  ASSUME NEW n \in Nat, NEW s \in SUBSET (1..n), s # {}
  PROVE  Max(s) \in 1..n /\ s \ {Max(s)} \in SUBSET (1..n)
<1> DEFINE T == {n - k : k \in s}
<1>1. T \in SUBSET Nat /\ T # {}
  <2>1. \A k \in s : n - k \in Nat
    OBVIOUS
  <2>2. QED
    BY <2>1
<1> HIDE DEF T
<1>2. PICK m \in T : \A k \in T : m <= k
  BY <1>1, LeastNatural
<1>3. PICK j \in s : m = n - j
  BY <1>2 DEF T
<1>4. \A k \in s : n - k \in T
  BY DEF T
<1>5. \A k \in s : j >= k
  BY <1>2, <1>3, <1>4
<1>6. Max(s) \in s
  BY <1>5 DEF Max
<1>7. QED
  BY <1>6

\* What a fold returns is the last of the results for the prefixes.
Continues(h, n, A, step) ==
  \A s \in SUBSET (1..n) :
    s # {} /\ h[s \ {Max(s)}] \in A => h[s] = step[Max(s)][h[s \ {Max(s)}]]

\* Any function that unfolds like the fold does so along the prefixes.
LEMMA FoldPrefixes ==
  ASSUME NEW n \in Nat, NEW A, NEW base \in A, NEW step, Steps(step, n, A), NEW h,
         h[{}] = base, Continues(h, n, A, step)
  PROVE  /\ h[1..0] = base
         /\ \A i \in 0..n : h[1..i] \in A
         /\ \A i \in 1..n : h[1..i] = step[i][h[1..(i - 1)]]
<1> DEFINE f == [i \in 0..n |-> h[1..i]]
           G == {i \in 0..n : f[i] \in A}
<1>1. f[0] = base
  <2>1. 1..0 = {}
    OBVIOUS
  <2>2. QED
    BY <2>1
<1>2. ASSUME NEW i \in 1..n, f[i - 1] \in A PROVE f[i] = step[i][f[i - 1]] /\ f[i] \in A
  <2>1. 1..i \in SUBSET (1..n) /\ 1..i # {} /\ i \in Nat \ {0}
    OBVIOUS
  <2>2. Max(1..i) = i /\ (1..i) \ {i} = 1..(i - 1)
    BY <2>1, Largest
  <2>3. f[i - 1] = h[1..(i - 1)] /\ f[i] = h[1..i]
    OBVIOUS
  <2> HIDE DEF f
  <2>4. f[i] = step[i][f[i - 1]]
    BY <1>2, <2>1, <2>2, <2>3 DEF Continues
  <2>5. QED
    BY <1>2, <2>4 DEF Steps
<1>3. 0 \in G
  BY <1>1
<1>4. ASSUME NEW i \in 1..n, i - 1 \in G PROVE i \in G
  <2>1. i \in 0..n /\ f[i - 1] \in A
    BY <1>4
  <2> HIDE DEF f
  <2>2. QED
    BY <1>2, <2>1
<1> HIDE DEF f
<1>5. \A i \in 0..n : f[i] \in A
  <2> HIDE DEF G
  <2>1. \A i \in 0..n : i \in G
    BY <1>3, <1>4, UpTo
  <2>2. QED
    BY <2>1 DEF G
<1>6. ASSUME NEW i \in 1..n PROVE f[i] = step[i][f[i - 1]]
  <2>1. i - 1 \in 0..n
    OBVIOUS
  <2>2. QED
    BY <1>2, <1>5, <2>1
<1>7. \A i \in 1..n : i - 1 \in 0..n /\ i \in 0..n
  OBVIOUS
<1>8. ASSUME NEW i \in 1..n PROVE h[1..i] = step[i][h[1..(i - 1)]]
  <2>1. f[i] = h[1..i] /\ f[i - 1] = h[1..(i - 1)]
    BY <1>7 DEF f
  <2>2. QED
    BY <1>6, <2>1
<1>9. h[1..0] = base /\ \A i \in 0..n : h[1..i] \in A
  BY <1>1, <1>5 DEF f
<1>10. QED
  BY <1>8, <1>9
-----------------------------------------------------------------------------
(* The folds of the records.                                               *)

\* A sum of numbers is a number.
LEMMA TotalTyped ==
  ASSUME NEW B, B = Int \/ B = Nat, NEW amounts \in Seq(B)
  PROVE  Total(amounts) \in B
<1> DEFINE n == Len(amounts)
           A == B
           step == [i \in 1..n |-> [r \in A |-> r + amounts[i]]]
<1>1. n \in Nat /\ DOMAIN amounts = 1..n /\ \A i \in 1..n : amounts[i] \in B
  OBVIOUS
<1>2. \A r \in A, h \in B : r + h \in A
  OBVIOUS
<1>3. 0 \in A
  OBVIOUS
<1>4. /\ Steps(step, n, A)
      /\ \A r \in A, i \in 1..n : step[i][r] = r + amounts[i]
  BY <1>1, <1>2 DEF Steps
<1> HIDE DEF step, A
<1>5. PICK g \in [SUBSET (1..n) -> A] : Folds(g, n, 0, step)
  BY <1>1, <1>3, <1>4, FoldExists
<1> DEFINE Body(h, s) == IF s = {} THEN 0
                         ELSE h[s \ {Max(s)}] + amounts[Max(s)]
           Unfolds(h) == h = [s \in SUBSET (1..n) |-> Body(h, s)]
<1>6. \A s \in SUBSET (1..n) : s # {} => Max(s) \in 1..n /\ s \ {Max(s)} \in SUBSET (1..n)
  BY <1>1, LargestIn
<1>7. \A s \in SUBSET (1..n) : g[s] = Body(g, s)
  BY <1>4, <1>5, <1>6 DEF Folds
<1>8. Unfolds(g)
  <2> HIDE DEF Body
  <2>1. g = [s \in SUBSET (1..n) |-> g[s]]
    OBVIOUS
  <2>2. QED
    BY <1>7, <2>1
<1> DEFINE h == CHOOSE h : Unfolds(h)
<1>9. Unfolds(h)
  BY <1>8
<1>10. Total(amounts) = h[1..n]
  BY <1>1 DEF Total, FoldLeft, MapThenFoldSet
<1> HIDE DEF h
<1>11. h[{}] = 0
  BY <1>9
<1>12. ASSUME NEW s \in SUBSET (1..n), s # {}, h[s \ {Max(s)}] \in A
       PROVE  h[s] = step[Max(s)][h[s \ {Max(s)}]]
  <2>1. h[s] = Body(h, s)
    BY <1>9
  <2>2. QED
    BY <1>4, <1>6, <1>12, <2>1
<1> HIDE DEF n, Body, Unfolds
<1>13. Continues(h, n, A, step)
  BY <1>12 DEF Continues
<1>14. n \in Nat /\ Steps(step, n, A)
  BY <1>1, <1>4
<1>15. /\ h[1..0] = 0
       /\ \A i \in 0..n : h[1..i] \in A
       /\ \A i \in 1..n : h[1..i] = step[i][h[1..(i - 1)]]
  BY <1>3, <1>11, <1>13, <1>14, FoldPrefixes
<1>16. Total(amounts) \in A
  BY <1>10, <1>14, <1>15
<1>17. QED
  BY <1>16 DEF A

\* The late ones of some trades are trades.
LEMMA SinceTyped ==
  ASSUME NEW first, NEW trades \in Seq(Trades)
  PROVE  Since(trades, first) \in Seq(Trades)
<1> DEFINE n == Len(trades)
           A == Seq(Trades)
           step == [i \in 1..n |-> [r \in A |-> (IF trades[i].day >= first THEN Append(r, trades[i]) ELSE r)]]
<1>1. n \in Nat /\ DOMAIN trades = 1..n /\ \A i \in 1..n : trades[i] \in Trades
  OBVIOUS
<1>2. \A r \in A, h \in Trades : (IF h.day >= first THEN Append(r, h) ELSE r) \in A
  OBVIOUS
<1>3. <<>> \in A
  OBVIOUS
<1>4. /\ Steps(step, n, A)
      /\ \A r \in A, i \in 1..n : step[i][r] = (IF trades[i].day >= first THEN Append(r, trades[i]) ELSE r)
  BY <1>1, <1>2 DEF Steps
<1> HIDE DEF step, A
<1>5. PICK g \in [SUBSET (1..n) -> A] : Folds(g, n, <<>>, step)
  BY <1>1, <1>3, <1>4, FoldExists
<1> DEFINE Body(h, s) == IF s = {} THEN <<>>
                         ELSE IF trades[Max(s)].day >= first
                              THEN Append(h[s \ {Max(s)}], trades[Max(s)])
                              ELSE h[s \ {Max(s)}]
           Unfolds(h) == h = [s \in SUBSET (1..n) |-> Body(h, s)]
<1>6. \A s \in SUBSET (1..n) : s # {} => Max(s) \in 1..n /\ s \ {Max(s)} \in SUBSET (1..n)
  BY <1>1, LargestIn
<1>7. \A s \in SUBSET (1..n) : g[s] = Body(g, s)
  BY <1>4, <1>5, <1>6 DEF Folds
<1>8. Unfolds(g)
  <2> HIDE DEF Body
  <2>1. g = [s \in SUBSET (1..n) |-> g[s]]
    OBVIOUS
  <2>2. QED
    BY <1>7, <2>1
<1> DEFINE h == CHOOSE h : Unfolds(h)
<1>9. Unfolds(h)
  BY <1>8
<1>10. Since(trades, first) = h[1..n]
  BY <1>1 DEF Since, FoldLeft, MapThenFoldSet
<1> HIDE DEF h
<1>11. h[{}] = <<>>
  BY <1>9
<1>12. ASSUME NEW s \in SUBSET (1..n), s # {}, h[s \ {Max(s)}] \in A
       PROVE  h[s] = step[Max(s)][h[s \ {Max(s)}]]
  <2>1. h[s] = Body(h, s)
    BY <1>9
  <2>2. QED
    BY <1>4, <1>6, <1>12, <2>1
<1> HIDE DEF n, Body, Unfolds
<1>13. Continues(h, n, A, step)
  BY <1>12 DEF Continues
<1>14. n \in Nat /\ Steps(step, n, A)
  BY <1>1, <1>4
<1>15. /\ h[1..0] = <<>>
       /\ \A i \in 0..n : h[1..i] \in A
       /\ \A i \in 1..n : h[1..i] = step[i][h[1..(i - 1)]]
  BY <1>3, <1>11, <1>13, <1>14, FoldPrefixes
<1>16. Since(trades, first) \in A
  BY <1>10, <1>14, <1>15
<1>17. QED
  BY <1>16 DEF A

Curves == [equity : Int, peak : Int, worst : Int]

\* A drawdown is an amount.
LEMMA DrawdownTyped ==
  ASSUME NEW trades \in Seq(Trades)
  PROVE  MaxDrawdown(trades) \in Int
<1> DEFINE n == Len(trades)
           A == Curves
           step == [i \in 1..n |-> [r \in A |-> Grown(r, trades[i])]]
<1>1. n \in Nat /\ DOMAIN trades = 1..n /\ \A i \in 1..n : trades[i] \in Trades
  OBVIOUS
<1>2. \A r \in A, h \in Trades : Grown(r, h) \in A
  BY TradesEarn DEF Grown, Above, Curves
<1>3. [equity |-> 0, peak |-> 0, worst |-> 0] \in A
  BY DEF Curves
<1>4. /\ Steps(step, n, A)
      /\ \A r \in A, i \in 1..n : step[i][r] = Grown(r, trades[i])
  BY <1>1, <1>2 DEF Steps
<1> HIDE DEF step, A
<1>5. PICK g \in [SUBSET (1..n) -> A] : Folds(g, n, [equity |-> 0, peak |-> 0, worst |-> 0], step)
  BY <1>1, <1>3, <1>4, FoldExists
<1> DEFINE Body(h, s) == IF s = {} THEN [equity |-> 0, peak |-> 0, worst |-> 0]
                         ELSE Grown(h[s \ {Max(s)}], trades[Max(s)])
           Unfolds(h) == h = [s \in SUBSET (1..n) |-> Body(h, s)]
<1>6. \A s \in SUBSET (1..n) : s # {} => Max(s) \in 1..n /\ s \ {Max(s)} \in SUBSET (1..n)
  BY <1>1, LargestIn
<1>7. \A s \in SUBSET (1..n) : g[s] = Body(g, s)
  BY <1>4, <1>5, <1>6 DEF Folds, Grown
<1>8. Unfolds(g)
  <2> HIDE DEF Body
  <2>1. g = [s \in SUBSET (1..n) |-> g[s]]
    OBVIOUS
  <2>2. QED
    BY <1>7, <2>1
<1> DEFINE h == CHOOSE h : Unfolds(h)
<1>9. Unfolds(h)
  BY <1>8
<1>10. MaxDrawdown(trades) = h[1..n].worst
  BY <1>1 DEF MaxDrawdown, FoldLeft, MapThenFoldSet
<1> HIDE DEF h
<1>11. h[{}] = [equity |-> 0, peak |-> 0, worst |-> 0]
  BY <1>9
<1>12. ASSUME NEW s \in SUBSET (1..n), s # {}, h[s \ {Max(s)}] \in A
       PROVE  h[s] = step[Max(s)][h[s \ {Max(s)}]]
  <2>1. h[s] = Body(h, s)
    BY <1>9
  <2>2. QED
    BY <1>4, <1>6, <1>12, <2>1 DEF Grown
<1> HIDE DEF n, Body, Unfolds
<1>13. Continues(h, n, A, step)
  BY <1>12 DEF Continues
<1>14. n \in Nat /\ Steps(step, n, A)
  BY <1>1, <1>4
<1>15. /\ h[1..0] = [equity |-> 0, peak |-> 0, worst |-> 0]
       /\ \A i \in 0..n : h[1..i] \in A
       /\ \A i \in 1..n : h[1..i] = step[i][h[1..(i - 1)]]
  BY <1>3, <1>11, <1>13, <1>14, FoldPrefixes
<1>16. h[1..n] \in A
  BY <1>14, <1>15
<1>17. QED
  BY <1>10, <1>16 DEF A, Curves

Kept(trades, strategy, row) ==
  IF row.strategy = strategy THEN Append(trades, Trade(row)) ELSE trades
KeptLast(trades, strategy, row) ==
  IF row.strategy = strategy THEN Record(trades, Trade(row)) ELSE trades

\* The trades of a strategy, and its record, after each of the rows.
Keeps(f, rows, strategy) ==
  /\ \A i \in 0..Len(rows) : f[i] \in Seq(Trades)
  /\ f[0] = <<>> /\ f[Len(rows)] = TradesOf(rows, strategy)
  /\ \A i \in 1..Len(rows) : f[i] = Kept(f[i - 1], strategy, rows[i])

Replays(f, rows, strategy) ==
  /\ \A i \in 0..Len(rows) : f[i] \in Seq(Trades)
  /\ f[0] = <<>> /\ f[Len(rows)] = ReplayedFrom(rows, strategy)
  /\ \A i \in 1..Len(rows) : f[i] = KeptLast(f[i - 1], strategy, rows[i])

\* A row about a trade, and the end of a record.
LEMMA RowsHoldTrades == \A row \in EventRows : Trade(row) \in Trades
BY DEF EventRows, Trades, Trade

\* The end of a sequence is one of the same elements.
LEMMA LastOfTyped ==
  ASSUME NEW n \in Nat, NEW S, NEW seq \in Seq(S)
  PROVE  LastOf(n, seq) \in Seq(S)
BY DEF LastOf

\* A record with one more trade is a record.
LEMMA RecordTyped ==
  ASSUME NEW trades \in Seq(Trades), NEW trade \in Trades
  PROVE  Record(trades, trade) \in Seq(Trades)
<1>1. Append(trades, trade) \in Seq(Trades) /\ MaxTrades \in Nat
  BY PerformanceAssumption
<1>2. QED
  BY <1>1, LastOfTyped DEF Record

\* The trades of a strategy grow row by row.
LEMMA TradesOfPrefixes ==
  ASSUME NEW strategy, NEW rows \in Seq(EventRows)
  PROVE  \E f : Keeps(f, rows, strategy)
<1> DEFINE n == Len(rows)
           A == Seq(Trades)
           step == [i \in 1..n |-> [r \in A |-> Kept(r, strategy, rows[i])]]
<1>1. n \in Nat /\ DOMAIN rows = 1..n /\ \A i \in 1..n : rows[i] \in EventRows
  OBVIOUS
<1>2. \A r \in A, h \in EventRows : Kept(r, strategy, h) \in A
  BY RowsHoldTrades DEF Kept
<1>3. <<>> \in A
  OBVIOUS
<1>4. /\ Steps(step, n, A)
      /\ \A r \in A, i \in 1..n : step[i][r] = Kept(r, strategy, rows[i])
  BY <1>1, <1>2 DEF Steps
<1> HIDE DEF step, A
<1>5. PICK g \in [SUBSET (1..n) -> A] : Folds(g, n, <<>>, step)
  BY <1>1, <1>3, <1>4, FoldExists
<1> DEFINE Body(h, s) == IF s = {} THEN <<>>
                         ELSE IF rows[Max(s)].strategy = strategy
                              THEN Append(h[s \ {Max(s)}], Trade(rows[Max(s)]))
                              ELSE h[s \ {Max(s)}]
           Unfolds(h) == h = [s \in SUBSET (1..n) |-> Body(h, s)]
<1>6. \A s \in SUBSET (1..n) : s # {} => Max(s) \in 1..n /\ s \ {Max(s)} \in SUBSET (1..n)
  BY <1>1, LargestIn
<1>7. \A s \in SUBSET (1..n) : g[s] = Body(g, s)
  BY <1>4, <1>5, <1>6 DEF Folds, Kept
<1>8. Unfolds(g)
  <2> HIDE DEF Body
  <2>1. g = [s \in SUBSET (1..n) |-> g[s]]
    OBVIOUS
  <2>2. QED
    BY <1>7, <2>1
<1> DEFINE h == CHOOSE h : Unfolds(h)
<1>9. Unfolds(h)
  BY <1>8
<1>10. TradesOf(rows, strategy) = h[1..n]
  BY <1>1 DEF TradesOf, FoldLeft, MapThenFoldSet
<1> HIDE DEF h
<1>11. h[{}] = <<>>
  BY <1>9
<1>12. ASSUME NEW s \in SUBSET (1..n), s # {}, h[s \ {Max(s)}] \in A
       PROVE  h[s] = step[Max(s)][h[s \ {Max(s)}]]
  <2>1. h[s] = Body(h, s)
    BY <1>9
  <2>2. QED
    BY <1>4, <1>6, <1>12, <2>1 DEF Kept
<1> HIDE DEF n, Body, Unfolds
<1>13. Continues(h, n, A, step)
  BY <1>12 DEF Continues
<1>14. n \in Nat /\ Steps(step, n, A)
  BY <1>1, <1>4
<1>15. /\ h[1..0] = <<>>
       /\ \A i \in 0..n : h[1..i] \in A
       /\ \A i \in 1..n : h[1..i] = step[i][h[1..(i - 1)]]
  BY <1>3, <1>11, <1>13, <1>14, FoldPrefixes
<1> DEFINE f == [i \in 0..n |-> h[1..i]]
<1>16. f \in [0..n -> A] /\ f[0] = <<>> /\ f[n] = TradesOf(rows, strategy)
  BY <1>10, <1>14, <1>15
<1>17. \A i \in 1..n : f[i] = Kept(f[i - 1], strategy, rows[i])
  BY <1>4, <1>14, <1>15
<1> HIDE DEF f
<1>18. \A i \in 0..n : f[i] \in A
  BY <1>16
<1>19. QED
  BY <1>16, <1>17, <1>18 DEF Keeps, A, n

\* The replay of a strategy's record goes row by row.
LEMMA ReplayPrefixes ==
  ASSUME NEW strategy, NEW rows \in Seq(EventRows)
  PROVE  \E f : Replays(f, rows, strategy)
<1> DEFINE n == Len(rows)
           A == Seq(Trades)
           step == [i \in 1..n |-> [r \in A |-> KeptLast(r, strategy, rows[i])]]
<1>1. n \in Nat /\ DOMAIN rows = 1..n /\ \A i \in 1..n : rows[i] \in EventRows
  OBVIOUS
<1>2. \A r \in A, h \in EventRows : KeptLast(r, strategy, h) \in A
  BY RowsHoldTrades, RecordTyped DEF KeptLast
<1>3. <<>> \in A
  OBVIOUS
<1>4. /\ Steps(step, n, A)
      /\ \A r \in A, i \in 1..n : step[i][r] = KeptLast(r, strategy, rows[i])
  BY <1>1, <1>2 DEF Steps
<1> HIDE DEF step, A
<1>5. PICK g \in [SUBSET (1..n) -> A] : Folds(g, n, <<>>, step)
  BY <1>1, <1>3, <1>4, FoldExists
<1> DEFINE Body(h, s) == IF s = {} THEN <<>>
                         ELSE IF rows[Max(s)].strategy = strategy
                              THEN Record(h[s \ {Max(s)}], Trade(rows[Max(s)]))
                              ELSE h[s \ {Max(s)}]
           Unfolds(h) == h = [s \in SUBSET (1..n) |-> Body(h, s)]
<1>6. \A s \in SUBSET (1..n) : s # {} => Max(s) \in 1..n /\ s \ {Max(s)} \in SUBSET (1..n)
  BY <1>1, LargestIn
<1>7. \A s \in SUBSET (1..n) : g[s] = Body(g, s)
  BY <1>4, <1>5, <1>6 DEF Folds, KeptLast
<1>8. Unfolds(g)
  <2> HIDE DEF Body
  <2>1. g = [s \in SUBSET (1..n) |-> g[s]]
    OBVIOUS
  <2>2. QED
    BY <1>7, <2>1
<1> DEFINE h == CHOOSE h : Unfolds(h)
<1>9. Unfolds(h)
  BY <1>8
<1>10. ReplayedFrom(rows, strategy) = h[1..n]
  BY <1>1 DEF ReplayedFrom, FoldLeft, MapThenFoldSet
<1> HIDE DEF h
<1>11. h[{}] = <<>>
  BY <1>9
<1>12. ASSUME NEW s \in SUBSET (1..n), s # {}, h[s \ {Max(s)}] \in A
       PROVE  h[s] = step[Max(s)][h[s \ {Max(s)}]]
  <2>1. h[s] = Body(h, s)
    BY <1>9
  <2>2. QED
    BY <1>4, <1>6, <1>12, <2>1 DEF KeptLast
<1> HIDE DEF n, Body, Unfolds
<1>13. Continues(h, n, A, step)
  BY <1>12 DEF Continues
<1>14. n \in Nat /\ Steps(step, n, A)
  BY <1>1, <1>4
<1>15. /\ h[1..0] = <<>>
       /\ \A i \in 0..n : h[1..i] \in A
       /\ \A i \in 1..n : h[1..i] = step[i][h[1..(i - 1)]]
  BY <1>3, <1>11, <1>13, <1>14, FoldPrefixes
<1> DEFINE f == [i \in 0..n |-> h[1..i]]
<1>16. f \in [0..n -> A] /\ f[0] = <<>> /\ f[n] = ReplayedFrom(rows, strategy)
  BY <1>10, <1>14, <1>15
<1>17. \A i \in 1..n : f[i] = KeptLast(f[i - 1], strategy, rows[i])
  BY <1>4, <1>14, <1>15
<1> HIDE DEF f
<1>18. \A i \in 0..n : f[i] \in A
  BY <1>16
<1>19. QED
  BY <1>16, <1>17, <1>18 DEF Replays, A, n
-----------------------------------------------------------------------------
(* The confidence in a record, and the winner among those that fire.       *)

\* Sums over trades are taken over sequences of numbers.
LEMMA AmountsTyped ==
  ASSUME NEW trades \in Seq(Trades)
  PROVE  /\ GrossWins(trades) \in Nat /\ GrossLosses(trades) \in Nat
<1>1. DOMAIN trades = 1..Len(trades) /\ Len(trades) \in Nat
  OBVIOUS
<1>2. ASSUME NEW i \in 1..Len(trades) PROVE trades[i].pnl \in Int
  <2>1. trades[i] \in Trades
    OBVIOUS
  <2>2. QED
    BY <2>1, TradesEarn
<1> DEFINE wins == [i \in DOMAIN trades |-> IF trades[i].pnl > 0 THEN trades[i].pnl ELSE 0]
           losses == [i \in DOMAIN trades |-> IF trades[i].pnl < 0 THEN -trades[i].pnl ELSE 0]
<1>3. wins \in [1..Len(trades) -> Nat] /\ losses \in [1..Len(trades) -> Nat]
  BY <1>1, <1>2
<1> HIDE DEF wins, losses
<1>4. wins \in Seq(Nat) /\ losses \in Seq(Nat)
  BY <1>1, <1>3, SMTT(30)
<1>5. Total(wins) \in Nat /\ Total(losses) \in Nat
  BY <1>4, TotalTyped
<1>6. GrossWins(trades) = Total(wins) /\ GrossLosses(trades) = Total(losses)
  BY DEF GrossWins, GrossLosses, SumOver, wins, losses
<1>7. QED
  BY <1>5, <1>6

\* At most a hundred of the first hundred numbers reach anything.
LEMMA AtMostHundred ==
  ASSUME NEW K \in SUBSET (1..100)
  PROVE  Cardinality(K) \in 0..100
<1>1. IsFiniteSet(1..100) /\ Cardinality(1..100) = IF 1 > 100 THEN 0 ELSE 100 - 1 + 1
  <2>1. 1 \in Int /\ 100 \in Int
    OBVIOUS
  <2>2. QED
    BY ONLY <2>1, FS_Interval, Zenon
<1>2. IsFiniteSet(K) /\ Cardinality(K) <= Cardinality(1..100)
  BY <1>1, FS_Subset, Zenon
<1>3. Cardinality(K) \in Nat
  BY <1>2, FS_CardinalityType, Zenon
<1>4. QED
  BY <1>1, <1>2, <1>3

\* Every term is a share of a hundred.
LEMMA TermsBounded ==
  ASSUME NEW trades \in Seq(Trades)
  PROVE  /\ SharpeTerm(trades) \in 0..100 /\ ProfitTerm(trades) \in 0..100
         /\ SampleTerm(trades) \in 0..100 /\ DrawdownTerm(trades) \in 0..100
<1>1. \A x \in Int : Clipped(x) \in 0..100
  BY DEF Clipped
<1>2. SharpeTerm(trades) \in 0..100
  <2>1. RatiosReached(trades) \in SUBSET (1..100)
    BY DEF RatiosReached
  <2>2. Cardinality(RatiosReached(trades)) \in 0..100
    BY <2>1, AtMostHundred
  <2>3. QED
    BY <2>2 DEF SharpeTerm
<1>3. ProfitTerm(trades) \in 0..100
  <2> DEFINE losses == GrossLosses(trades)
             wins == GrossWins(trades)
  <2>1. losses \in Nat /\ wins \in Nat
    BY AmountsTyped
  <2> HIDE DEF losses, wins
  <2>2. CASE losses = 0
    BY <2>2 DEF ProfitTerm, losses
  <2>3. CASE losses # 0
    <3>1. ((wins - losses) * 100) \div losses \in Int
      BY <2>1, <2>3
    <3>2. ProfitTerm(trades) = Clipped(((wins - losses) * 100) \div losses)
      BY <2>3 DEF ProfitTerm, losses, wins
    <3>3. QED
      BY <1>1, <3>1, <3>2
  <2>4. QED
    BY <2>2, <2>3
<1>4. SampleTerm(trades) \in 0..100
  <2>1. 2 * Len(trades) \in Int
    OBVIOUS
  <2>2. QED
    BY <1>1, <2>1 DEF SampleTerm
<1>5. DrawdownTerm(trades) \in 0..100
  <2> DEFINE drawdown == MaxDrawdown(trades)
  <2>1. drawdown \in Int /\ MaxAllowedDrawdown \in Nat \ {0}
    BY DrawdownTyped, PerformanceAssumption
  <2> HIDE DEF drawdown
  <2>2. 100 - (100 * drawdown) \div MaxAllowedDrawdown \in Int
    BY <2>1
  <2>3. QED
    BY <1>1, <2>2 DEF DrawdownTerm, drawdown
<1>6. QED
  BY <1>2, <1>3, <1>4, <1>5

\* The window of a record holds trades.
LEMMA WindowTyped ==
  ASSUME NEW trades \in Seq(Trades), NEW day
  PROVE  Window(trades, day) \in Seq(Trades)
<1>1. WindowTrades \in Nat
  BY PerformanceAssumption
<1>2. Since(trades, day - WindowDays) \in Seq(Trades)
  BY SinceTyped
<1>3. LastOf(WindowTrades, trades) \in Seq(Trades)
  BY <1>1, LastOfTyped
<1>4. QED
  BY <1>2, <1>3 DEF Window

Scores == {n \in Nat : n <= 9700}

\* No record and no state give more than 97 hundredths.
LEMMA ConfidenceBounded ==
  ASSUME NEW trades \in Seq(Trades), NEW day, NEW state
  PROVE  Confidence(trades, day, state) \in Scores
<1> DEFINE window == Window(trades, day)
           floor == LifecycleFloor(state)
<1>1. floor \in 0..70
  <2>1. CASE state \in {"REPLAY", "SHADOW", "PILOT", "LIVE"}
    BY <2>1 DEF LifecycleFloor
  <2>2. CASE state \notin {"REPLAY", "SHADOW", "PILOT", "LIVE"}
    BY <2>2 DEF LifecycleFloor
  <2>3. QED
    BY <2>1, <2>2
<1>2. window \in Seq(Trades)
  BY WindowTyped
<1> HIDE DEF window, floor
<1>3. CASE window = <<>>
  <2>1. Confidence(trades, day, state) = Weighed(0, 50, 0, 100, floor)
    BY <1>3 DEF Confidence, window, floor
  <2>2. QED
    BY <1>1, <2>1 DEF Weighed, Scores
<1>4. CASE window # <<>>
  <2>1. Confidence(trades, day, state)
          = Weighed(SharpeTerm(window), ProfitTerm(window), SampleTerm(window),
                    DrawdownTerm(window), floor)
    BY <1>4 DEF Confidence, window, floor
  <2>2. /\ SharpeTerm(window) \in 0..100 /\ ProfitTerm(window) \in 0..100
        /\ SampleTerm(window) \in 0..100 /\ DrawdownTerm(window) \in 0..100
    BY <1>2, TermsBounded
  <2>3. PICK a, b, c, d \in 0..100 :
          /\ a = SharpeTerm(window) /\ b = ProfitTerm(window)
          /\ c = SampleTerm(window) /\ d = DrawdownTerm(window)
    BY <2>2
  <2>4. Weighed(a, b, c, d, floor) \in Scores
    BY <1>1 DEF Weighed, Scores
  <2>5. QED
    BY <2>1, <2>3, <2>4, Zenon
<1>5. QED
  BY <1>3, <1>4

\* Among some candidates there is one that comes before all others.
LEMMA WinnerIsCandidate ==
  ASSUME NEW candidates \in SUBSET Strategies, IsFiniteSet(candidates), candidates # {},
         NEW now \in Nat, NEW confidences \in [Strategies -> Int]
  PROVE  Arbitrate(candidates, now, confidences) \in candidates
<1> DEFINE Score(s) == CompositeScore(s, now, confidences[s])
           Before(s, t) ==
             Score(s) > Score(t) \/ (Score(s) = Score(t) /\ NameOrder[s] < NameOrder[t])
           Ahead(s) == {t \in candidates : Before(t, s)}
           ranks == {Cardinality(Ahead(s)) : s \in candidates}
<1>1. ASSUME NEW s \in candidates PROVE Score(s) \in Int /\ NameOrder[s] \in Int
  <2>1. Fits[s]["quiet"] \in Int
    <3>1. Fits[s] \in [{"trending", "ranging", "quiet"} -> 0..100]
      BY ArbitrationAssumption
    <3>2. QED
      BY <3>1
  <2>2. RegimeFit(s) \in Int
    BY <2>1 DEF RegimeFit
  <2>3. HabitatShare(s, now) \in Int
    BY <2>2 DEF HabitatShare, TimeBucketFit
  <2>4. TierWeight(Tier[s]) \in Int
    BY DEF TierWeight
  <2>5. TrackRecordShare(s, confidences[s]) \in Int
    BY <2>4 DEF TrackRecordShare
  <2>6. QED
    BY <2>3, <2>5, ArbitrationAssumption DEF CompositeScore
<1>2. \A s, t \in candidates : NameOrder[s] = NameOrder[t] => s = t
  BY ArbitrationAssumption
<1> HIDE DEF Score
<1>3. \A s, t \in candidates : s # t => (Before(s, t) <=> ~Before(t, s))
  BY <1>1, <1>2
<1>4. \A s, t, u \in candidates : Before(s, t) /\ Before(t, u) => Before(s, u)
  BY <1>1
<1>5. \A s \in candidates : ~Before(s, s)
  BY <1>1
<1> HIDE DEF Before
<1>6. \A s \in candidates : Ahead(s) \in SUBSET candidates /\ IsFiniteSet(Ahead(s))
                           /\ Cardinality(Ahead(s)) \in Nat
  BY FS_Subset, FS_CardinalityType
<1>7. PICK m \in ranks : \A k \in ranks : m <= k
  <2>1. ranks \in SUBSET Nat /\ ranks # {}
    BY <1>6
  <2> HIDE DEF ranks
  <2>2. QED
    BY <2>1, LeastNatural
<1>8. PICK s \in candidates : m = Cardinality(Ahead(s))
  OBVIOUS
<1>9. ASSUME NEW t \in candidates, s # t PROVE Before(s, t)
  <2> SUFFICES ASSUME Before(t, s) PROVE FALSE
    BY <1>3, <1>9
  <2>1. Ahead(t) \in SUBSET Ahead(s)
    BY <1>4
  <2>2. t \in Ahead(s) /\ t \notin Ahead(t)
    BY <1>5
  <2>3. Cardinality(Ahead(s)) <= Cardinality(Ahead(t))
    BY <1>7, <1>8
  <2> HIDE DEF Ahead
  <2>4. IsFiniteSet(Ahead(s)) /\ Cardinality(Ahead(s)) \in Nat /\ Cardinality(Ahead(t)) \in Nat
    BY <1>6
  <2>5. Cardinality(Ahead(t)) <= Cardinality(Ahead(s))
    BY <2>1, <2>4, FS_Subset
  <2>6. Cardinality(Ahead(s)) = Cardinality(Ahead(t))
    BY <2>3, <2>4, <2>5
  <2>7. Ahead(s) = Ahead(t)
    BY <2>1, <2>4, <2>6, FS_Subset
  <2>8. QED
    BY <2>2, <2>7
<1>10. \E w \in candidates : \A t \in candidates \ {w} : Before(w, t)
  BY <1>9
<1>11. Arbitrate(candidates, now, confidences)
         = CHOOSE w \in candidates : \A t \in candidates \ {w} : Before(w, t)
  BY DEF Arbitrate, Before, Score
<1> HIDE DEF Ahead, ranks
<1>12. QED
  BY <1>10, <1>11
-----------------------------------------------------------------------------
(* Types.                                                                  *)

TableRows == [state : States \cup {"none"}, score : Scores]
Copies == [Strategies -> States \cup {"none"}]
Scripts ==
  [kind : {"none", "promote", "register"}, copy : Copies, todo : Seq(Strategies),
   to : States \cup {"none"}]

\* The part of TypeOK that is about data; a script that runs has work left.
Typed ==
  /\ table \in [Strategies -> TableRows]
  /\ registry \in Copies
  /\ script \in Scripts
  /\ script.kind # "none" => script.todo # <<>> /\ script.to \in States
  /\ closes \in Seq(EventRows)
  /\ perf \in [Strategies -> Seq(Trades)]
  /\ open \subseteq Strategies
  /\ today \in 0..MaxDays

\* The data is well typed at the start.
LEMMA InitTyped == Init => Typed
<1> SUFFICES ASSUME Init PROVE Typed
  OBVIOUS
<1>1. table \in [Strategies -> TableRows]
  <2>1. PICK first \in FirstTables :
          table = [s \in Strategies |-> [state |-> first[s], score |-> 0]]
    BY DEF Init
  <2>2. first \in [Strategies -> States \cup {"none"}]
    BY GovernanceAssumption
  <2>3. \A s \in Strategies : [state |-> first[s], score |-> 0] \in TableRows
    BY <2>2 DEF TableRows, Scores
  <2>4. QED
    BY <2>1, <2>3
<1>2. registry \in Copies /\ NoRows \in Copies
  BY DEF Init, NoRows, Copies
<1>3. script \in Scripts /\ script.kind = "none"
  BY <1>2 DEF Init, Idle, Scripts
<1>4. closes \in Seq(EventRows) /\ perf \in [Strategies -> Seq(Trades)]
  BY DEF Init
<1>5. open \subseteq Strategies /\ today \in 0..MaxDays
  BY GovernanceAssumption DEF Init
<1>6. QED
  BY <1>1, <1>2, <1>3, <1>4, <1>5 DEF Typed

\* A snapshot writes numbers and nothing but scores.
LEMMA SnapshotTyped ==
  ASSUME Typed, NEW trackers \in [Strategies -> Seq(Trades)], NEW failing
  PROVE  /\ Scored(registry, trackers, failing) \in [Strategies -> TableRows]
         /\ \A s \in Strategies :
              /\ Scored(registry, trackers, failing)[s].state = table[s].state
              /\ trackers[s] # <<>> /\ s \notin failing =>
                   Scored(registry, trackers, failing)[s].score
                     = Confidence(trackers[s], today, registry[s])
<1> DEFINE c == [s \in Strategies |-> Confidence(trackers[s], today, registry[s])]
           scored == [s \in Strategies |->
                        IF trackers[s] # <<>> /\ s \notin failing
                        THEN [table[s] EXCEPT !.score = c[s]] ELSE table[s]]
<1>1. ASSUME NEW s \in Strategies PROVE c[s] \in Scores
  <2>1. trackers[s] \in Seq(Trades)
    OBVIOUS
  <2>2. Confidence(trackers[s], today, registry[s]) \in Scores
    BY <2>1, ConfidenceBounded, Zenon
  <2>3. QED
    BY <2>2
<1>2. \A s \in Strategies : c[s] = Confidence(trackers[s], today, registry[s])
  OBVIOUS
<1>3. Scored(registry, trackers, failing) = scored
  BY DEF Scored, SetScore
<1> HIDE DEF c
<1>4. ASSUME NEW s \in Strategies
      PROVE  /\ [table[s] EXCEPT !.score = c[s]] \in TableRows
             /\ [table[s] EXCEPT !.score = c[s]].score = c[s]
             /\ [table[s] EXCEPT !.score = c[s]].state = table[s].state
             /\ table[s] \in TableRows
  <2>1. table[s] \in TableRows
    BY DEF Typed
  <2>2. c[s] \in Scores
    BY <1>1
  <2>3. QED
    BY <2>1, <2>2 DEF TableRows
<1>5. scored \in [Strategies -> TableRows]
  BY <1>4
<1>6. QED
  BY <1>2, <1>3, <1>4, <1>5

\* A phantom is closed: one more row and one more trade on record.
LEMMA ClosedTyped ==
  ASSUME Typed, NEW s \in open, NEW pnl \in Pnls, NEW lost \in BOOLEAN, Closed(s, pnl, lost)
  PROVE  /\ open' \subseteq Strategies /\ closes' \in Seq(EventRows)
         /\ perf' \in [Strategies -> Seq(Trades)]
<1>1. s \in Strategies /\ today \in 0..MaxDays
  BY DEF Typed
<1>2. [strategy |-> s, pnl |-> pnl, day |-> today] \in EventRows
  BY <1>1 DEF EventRows
<1>3. closes' \in Seq(EventRows)
  BY <1>2 DEF Closed, Typed
<1>4. [pnl |-> pnl, day |-> today] \in Trades
  BY <1>1 DEF Trades
<1>5. Record(perf[s], [pnl |-> pnl, day |-> today]) \in Seq(Trades)
  BY <1>1, <1>4, RecordTyped DEF Typed
<1>6. perf' \in [Strategies -> Seq(Trades)]
  BY <1>1, <1>5 DEF Closed, Typed
<1>7. open' \subseteq Strategies
  BY DEF Closed, Typed
<1>8. QED
  BY <1>3, <1>6, <1>7

\* A replay puts trades on record.
LEMMA ReplayTyped ==
  ASSUME NEW rows \in Seq(EventRows), NEW strategy
  PROVE  Replayed(rows, RowLimit, strategy) \in Seq(Trades)
<1> DEFINE k == IF Len(rows) < RowLimit THEN Len(rows) ELSE RowLimit
           answer == SubSeq(rows, 1, k)
<1>1. answer \in Seq(EventRows)
  BY GovernanceAssumption
<1> HIDE DEF answer
<1>2. PICK f : Replays(f, answer, strategy)
  BY <1>1, ReplayPrefixes
<1>3. Len(answer) \in 0..Len(answer)
  BY <1>1
<1>4. ReplayedFrom(answer, strategy) \in Seq(Trades)
  BY <1>2, <1>3 DEF Replays
<1>5. QED
  BY <1>4 DEF Replayed, answer

\* The states in the table, whichever they are, make a copy of it.
LEMMA StatesTyped ==
  ASSUME Typed
  PROVE  StatesOf(table) \in Copies /\ NoRows \in Copies /\ Idle \in Scripts
<1>1. ASSUME NEW s \in Strategies PROVE table[s].state \in States \cup {"none"}
  <2>1. table[s] \in TableRows
    BY DEF Typed
  <2>2. QED
    BY <2>1 DEF TableRows
<1>2. StatesOf(table) \in Copies
  BY <1>1 DEF StatesOf, Copies
<1>3. NoRows \in Copies
  BY DEF NoRows, Copies
<1>4. QED
  BY <1>2, <1>3 DEF Idle, Scripts

\* The index of the first keeper without a row.
LEMMA AbsentKeeper ==
  /\ Absent # 0 => /\ Absent \in 1..Len(Keepers) /\ Keepers[Absent] \in Strategies
                   /\ registry[Keepers[Absent]] = "none"
  /\ Absent = 0 => \A i \in 1..Len(Keepers) : registry[Keepers[i]] # "none"
<1> DEFINE I == {i \in 1..Len(Keepers) : registry[Keepers[i]] = "none"}
<1>1. Absent = IF I # {} THEN Min(I) ELSE 0
  BY DEF Absent, SelectInSeq
<1>2. Keepers \in Seq(Strategies)
  BY GovernanceAssumption
<1>3. I \in SUBSET Nat /\ \A i \in I : i # 0
  BY <1>2
<1>4. I # {} => Min(I) \in I
  <2> HIDE DEF I
  <2>1. I # {} => \E n \in I : \A k \in I : n <= k
    BY <1>3, LeastNatural
  <2>2. QED
    BY <2>1 DEF Min
<1>5. QED
  BY <1>1, <1>2, <1>3, <1>4

\* The script's next step: what is left, or none.
LEMMA AdvanceTyped ==
  ASSUME NEW next \in Scripts, next.kind # "none" => next.to \in States, Idle \in Scripts,
         Advance(next)
  PROVE  /\ script' \in Scripts
         /\ script'.kind # "none" => script'.todo # <<>> /\ script'.to \in States
BY DEF Advance, Idle

\* A script that has done one of its moves.
LEMMA DoneTyped ==
  ASSUME Typed, script.kind # "none"
  PROVE  /\ Head(script.todo) \in Strategies
         /\ [script EXCEPT !.todo = Tail(@)] \in Scripts
         /\ [script EXCEPT !.todo = Tail(@)].to \in States
         /\ \A s \in Strategies, to \in States :
              /\ [script EXCEPT !.todo = Tail(@), !.copy[s] = to] \in Scripts
              /\ [script EXCEPT !.todo = Tail(@), !.copy[s] = to].to \in States
<1> DEFINE rest == [script EXCEPT !.todo = Tail(@)]
<1>1. script \in Scripts /\ script.todo # <<>> /\ script.to \in States
  BY DEF Typed
<1>2. script.todo \in Seq(Strategies) /\ script.copy \in Copies
  BY <1>1 DEF Scripts
<1>3. Head(script.todo) \in Strategies /\ Tail(script.todo) \in Seq(Strategies)
  BY <1>1, <1>2
<1>4. rest \in Scripts /\ rest.to \in States /\ rest.copy = script.copy
  BY <1>1, <1>3 DEF Scripts
<1>5. ASSUME NEW s \in Strategies, NEW to \in States
      PROVE  /\ [script EXCEPT !.todo = Tail(@), !.copy[s] = to] \in Scripts
             /\ [script EXCEPT !.todo = Tail(@), !.copy[s] = to].to \in States
  <2>1. [script.copy EXCEPT ![s] = to] \in Copies
    BY <1>2 DEF Copies
  <2>2. [script EXCEPT !.todo = Tail(@), !.copy[s] = to]
          = [rest EXCEPT !.copy = [script.copy EXCEPT ![s] = to]]
    BY <1>1 DEF rest, Scripts
  <2> HIDE DEF rest
  <2>3. [rest EXCEPT !.copy = [script.copy EXCEPT ![s] = to]] \in Scripts
    BY <1>4, <2>1 DEF Scripts
  <2>4. [rest EXCEPT !.copy = [script.copy EXCEPT ![s] = to]].to \in States
    BY <1>4 DEF Scripts
  <2>5. QED
    BY <2>2, <2>3, <2>4
<1>6. QED
  BY <1>3, <1>4, <1>5

\* A row written over another one is a row.
LEMMA UpsertTyped ==
  ASSUME Typed, NEW s \in Strategies
  PROVE  /\ [table EXCEPT ![s] = Upserted(@)] \in [Strategies -> TableRows]
         /\ \A to \in States : [table EXCEPT ![s].state = to] \in [Strategies -> TableRows]
<1>1. table[s] \in TableRows /\ DefaultLifecycle \in States
  BY DEF Typed, DefaultLifecycle, States
<1>2. Upserted(table[s]) \in TableRows
  BY <1>1 DEF Upserted, TableRows
<1>3. ASSUME NEW to \in States PROVE [table[s] EXCEPT !.state = to] \in TableRows
  BY <1>1 DEF TableRows
<1>4. QED
  BY <1>2, <1>3 DEF Typed

\* What the operator's scripts do keeps the types.
LEMMA ScriptStepTyped ==
  ASSUME Typed, StartScript \/ PromoteNext \/ RegisterNext
  PROVE  Typed'
<1>1. CASE StartScript
  <2>1. ASSUME NEW r \in Requests,
               script' = [kind |-> "promote", copy |-> StatesOf(table), todo |-> r.todo,
                          to |-> r.to]
        PROVE  script' \in Scripts /\ script'.todo # <<>> /\ script'.to \in States
    <3>1. r.to \in States /\ r.todo \in Seq(Strategies) /\ r.todo # <<>>
      BY GovernanceAssumption DEF TargetStates, States
    <3>2. QED
      BY <2>1, <3>1, StatesTyped DEF Scripts
  <2>2. ASSUME script' = [kind |-> "register", copy |-> NoRows, todo |-> Registered,
                          to |-> DefaultLifecycle]
        PROVE  script' \in Scripts /\ script'.todo # <<>> /\ script'.to \in States
    <3>1. DefaultLifecycle \in States /\ Registered \in Seq(Strategies) /\ Registered # <<>>
      BY GovernanceAssumption DEF DefaultLifecycle, States
    <3>2. QED
      BY <2>2, <3>1, StatesTyped DEF Scripts
  <2>3. script' \in Scripts /\ script'.todo # <<>> /\ script'.to \in States
    BY <1>1, <2>1, <2>2 DEF StartScript
  <2>4. QED
    BY <1>1, <2>3 DEF StartScript, Typed, dbVars, processVars, bookVars
<1>2. CASE PromoteNext
  <2> DEFINE s == Head(script.todo)
  <2>1. script.kind = "promote" /\ script.kind # "none" /\ script.to \in States
    BY <1>2 DEF PromoteNext, Typed
  <2>2. /\ s \in Strategies
        /\ [script EXCEPT !.todo = Tail(@)] \in Scripts
        /\ [script EXCEPT !.todo = Tail(@)].to \in States
    BY <2>1, DoneTyped
  <2>3. /\ [script EXCEPT !.todo = Tail(@), !.copy[s] = script.to] \in Scripts
        /\ [script EXCEPT !.todo = Tail(@), !.copy[s] = script.to].to \in States
    BY <2>1, <2>2, DoneTyped
  <2>4. \/ Advance([script EXCEPT !.todo = Tail(@)]) /\ table' = table
        \/ /\ Advance([script EXCEPT !.todo = Tail(@), !.copy[s] = script.to])
           /\ table' = [table EXCEPT ![s].state = script.to]
        \/ script' = Idle /\ table' = table
    BY <1>2 DEF PromoteNext
  <2>5. UNCHANGED <<closes, today, registry, perf, open>>
    BY <1>2 DEF PromoteNext, processVars, bookVars
  <2> HIDE DEF s
  <2>6. table' \in [Strategies -> TableRows]
    BY <2>1, <2>2, <2>4, UpsertTyped DEF Typed
  <2>7. /\ script' \in Scripts
        /\ script'.kind # "none" => script'.todo # <<>> /\ script'.to \in States
    <3>1. Idle \in Scripts /\ Idle.kind = "none"
      BY StatesTyped DEF Idle
    <3>2. CASE Advance([script EXCEPT !.todo = Tail(@)])
      BY <2>2, <3>1, <3>2, AdvanceTyped
    <3>3. CASE Advance([script EXCEPT !.todo = Tail(@), !.copy[s] = script.to])
      BY <2>3, <3>1, <3>3, AdvanceTyped
    <3>4. CASE script' = Idle
      BY <3>1, <3>4
    <3>5. QED
      BY <2>4, <3>2, <3>3, <3>4
  <2>8. QED
    BY <2>5, <2>6, <2>7 DEF Typed
<1>3. CASE RegisterNext
  <2> DEFINE s == Head(script.todo)
  <2>1. script.kind = "register" /\ script.kind # "none" /\ script.to \in States
    BY <1>3 DEF RegisterNext, Typed
  <2>2. /\ s \in Strategies
        /\ [script EXCEPT !.todo = Tail(@)] \in Scripts
        /\ [script EXCEPT !.todo = Tail(@)].to \in States
    BY <2>1, DoneTyped
  <2>3. \/ /\ Advance([script EXCEPT !.todo = Tail(@)])
           /\ table' = [table EXCEPT ![s] = Upserted(@)]
        \/ script' = Idle /\ table' = table
    BY <1>3 DEF RegisterNext
  <2>4. UNCHANGED <<closes, today, registry, perf, open>>
    BY <1>3 DEF RegisterNext, processVars, bookVars
  <2> HIDE DEF s
  <2>5. table' \in [Strategies -> TableRows]
    BY <2>2, <2>3, UpsertTyped DEF Typed
  <2>6. /\ script' \in Scripts
        /\ script'.kind # "none" => script'.todo # <<>> /\ script'.to \in States
    <3>1. Idle \in Scripts /\ Idle.kind = "none"
      BY StatesTyped DEF Idle
    <3>2. CASE Advance([script EXCEPT !.todo = Tail(@)])
      BY <2>2, <3>1, <3>2, AdvanceTyped
    <3>3. CASE script' = Idle
      BY <3>1, <3>3
    <3>4. QED
      BY <2>3, <3>2, <3>3
  <2>7. QED
    BY <2>4, <2>5, <2>6 DEF Typed
<1>4. QED
  BY <1>1, <1>2, <1>3

\* A snapshot keeps the states of the rows and today's date.
LEMMA WriteTyped ==
  ASSUME Typed, NEW trackers \in [Strategies -> Seq(Trades)], NEW mayFail \in BOOLEAN,
         WriteSnapshot(trackers, mayFail)
  PROVE  /\ table' \in [Strategies -> TableRows]
         /\ unpublished' \subseteq Strategies /\ published' = today
         /\ \A s \in Strategies :
              /\ table'[s].state = table[s].state
              /\ trackers[s] = <<>> => table'[s] = table[s]
              /\ trackers[s] # <<>> /\ s \notin unpublished' =>
                   table'[s].score = Confidence(trackers[s], today, registry[s])
<1>1. PICK failing \in SUBSET {s \in Strategies : mayFail /\ trackers[s] # <<>>} :
        /\ table' = Scored(registry, trackers, failing)
        /\ published' = today /\ unpublished' = failing
  BY DEF WriteSnapshot
<1>2. table' \in [Strategies -> TableRows]
  BY <1>1, SnapshotTyped
<1>3. \A s \in Strategies :
        /\ table'[s].state = table[s].state
        /\ trackers[s] # <<>> /\ s \notin unpublished' =>
             table'[s].score = Confidence(trackers[s], today, registry[s])
  BY <1>1, SnapshotTyped
<1>4. \A s \in Strategies : trackers[s] = <<>> => table'[s] = table[s]
  BY <1>1 DEF Scored
<1>5. QED
  BY <1>1, <1>2, <1>3, <1>4

\* The start and the end of a runner keep the types.
LEMMA RunnerStepTyped ==
  ASSUME Typed, LoadRegistry \/ UpsertMissing \/ Backfill \/ Stop
  PROVE  Typed'
<1>1. CASE LoadRegistry
  <2>1. registry' \in Copies
    BY <1>1, StatesTyped DEF LoadRegistry
  <2>2. QED
    BY <1>1, <2>1 DEF LoadRegistry, Typed, dbVars, bookVars
<1>2. CASE UpsertMissing
  <2> DEFINE s == Keepers[Absent]
  <2>1. s \in Strategies
    BY <1>2, AbsentKeeper DEF UpsertMissing
  <2>2. /\ registry' = [registry EXCEPT ![s] = DefaultLifecycle]
        /\ table' = [table EXCEPT ![s] = Upserted(@)]
        /\ UNCHANGED <<closes, today, script, perf, open>>
    BY <1>2 DEF UpsertMissing, bookVars
  <2> HIDE DEF s
  <2>3. registry' \in Copies
    BY <2>1, <2>2 DEF Typed, Copies, DefaultLifecycle, States
  <2>4. table' \in [Strategies -> TableRows]
    BY <2>1, <2>2, UpsertTyped
  <2>5. QED
    BY <2>2, <2>3, <2>4 DEF Typed
<1>3. CASE Backfill
  <2>1. PICK failed \in BOOLEAN :
          /\ perf' = [s \in Strategies |->
                        IF failed THEN <<>> ELSE Replayed(closes, RowLimit, s)]
          /\ NotSnapshot({}) \/ WriteSnapshot(perf', TRUE)
    BY <1>3 DEF Backfill
  <2>2. perf' \in [Strategies -> Seq(Trades)]
    <3>1. \A s \in Strategies : Replayed(closes, RowLimit, s) \in Seq(Trades)
      BY ReplayTyped DEF Typed
    <3>2. QED
      BY <2>1, <3>1
  <2>3. table' \in [Strategies -> TableRows]
    <3>1. CASE NotSnapshot({})
      BY <3>1 DEF NotSnapshot, Typed
    <3>2. CASE WriteSnapshot(perf', TRUE)
      BY <2>2, <3>2, WriteTyped
    <3>3. QED
      BY <2>1, <3>1, <3>2
  <2>4. QED
    BY <1>3, <2>2, <2>3 DEF Backfill, Typed
<1>4. CASE Stop
  <2>1. registry' \in Copies /\ perf' \in [Strategies -> Seq(Trades)] /\ open' = {}
    BY <1>4, StatesTyped DEF Stop
  <2>2. QED
    BY <1>4, <2>1 DEF Stop, Typed, dbVars
<1>5. QED
  BY <1>1, <1>2, <1>3, <1>4

\* The keepers are strategies, and there are not infinitely many.
LEMMA KeepersTyped == ToSet(Keepers) \in SUBSET Strategies /\ IsFiniteSet(ToSet(Keepers))
<1>1. Keepers \in Seq(Strategies) /\ Len(Keepers) \in Nat
  BY GovernanceAssumption
<1>2. ToSet(Keepers) = {Keepers[i] : i \in 1..Len(Keepers)}
  BY <1>1 DEF ToSet
<1>3. ToSet(Keepers) \in SUBSET Strategies
  BY <1>1, <1>2
<1> DEFINE f == [i \in 1..Len(Keepers) |-> Keepers[i]]
<1>4. f \in Surjection(1..Len(Keepers), ToSet(Keepers))
  BY <1>2 DEF Surjection
<1>5. IsFiniteSet(1..Len(Keepers))
  BY <1>1, FS_Interval
<1>6. IsFiniteSet(ToSet(Keepers))
  BY <1>4, <1>5, FS_Surjection, Zenon
<1>7. QED
  BY <1>3, <1>6

\* Those that fire are some of the active keepers.
LEMMA FiredTyped ==
  ASSUME NEW snapshot, NEW fired \in SUBSET Eligible(snapshot)
  PROVE  /\ fired \in SUBSET Strategies /\ IsFiniteSet(fired)
         /\ \A s \in fired : IsActive(registry[s])
<1>1. /\ Eligible(snapshot) \in SUBSET ListActive
      /\ ListActive \in SUBSET ToSet(Keepers)
  BY DEF Eligible, EligibleStrategies, ListActive
<1>2. fired \in SUBSET ToSet(Keepers)
  BY <1>1
<1>3. IsFiniteSet(fired)
  BY <1>2, KeepersTyped, FS_Subset, Zenon
<1>4. QED
  BY <1>1, <1>2, <1>3, KeepersTyped DEF ListActive

\* Bars, closes and days keep the types.
LEMMA BarStepTyped ==
  ASSUME Typed, BracketExit \/ ForceFlat \/ PhantomSignals \/ LiveSignals \/ NewDay
  PROVE  Typed'
<1>1. CASE BracketExit
  <2>1. PICK s \in open, pnl \in Pnls, lost \in BOOLEAN :
          Closed(s, pnl, lost) /\ WriteSnapshot(perf', ~lost)
    BY <1>1 DEF BracketExit
  <2>2. /\ open' \subseteq Strategies /\ closes' \in Seq(EventRows)
        /\ perf' \in [Strategies -> Seq(Trades)]
    BY <2>1, ClosedTyped
  <2>3. table' \in [Strategies -> TableRows]
    BY <2>1, <2>2, WriteTyped
  <2>4. QED
    BY <1>1, <2>2, <2>3 DEF BracketExit, Typed, processVars
<1>2. CASE ForceFlat
  <2>1. PICK s \in open, pnl \in Pnls, lost \in BOOLEAN :
          Closed(s, pnl, lost) /\ NotSnapshot({s})
    BY <1>2 DEF ForceFlat
  <2>2. /\ open' \subseteq Strategies /\ closes' \in Seq(EventRows)
        /\ perf' \in [Strategies -> Seq(Trades)]
    BY <2>1, ClosedTyped
  <2>3. QED
    BY <1>2, <2>1, <2>2 DEF ForceFlat, NotSnapshot, Typed, processVars
<1>3. CASE PhantomSignals
  <2>1. open' \subseteq Strategies
    BY <1>3, FiredTyped DEF PhantomSignals, Typed
  <2>2. QED
    BY <1>3, <2>1 DEF PhantomSignals, Typed, dbVars, processVars
<1>4. CASE LiveSignals
  BY <1>4 DEF LiveSignals, Typed, dbVars, processVars, bookVars
<1>5. CASE NewDay
  <2>1. today' \in 0..MaxDays
    BY <1>5, GovernanceAssumption DEF NewDay, Typed
  <2>2. QED
    BY <1>5, <2>1 DEF NewDay, Typed, dbVars, processVars, bookVars
<1>6. QED
  BY <1>1, <1>2, <1>3, <1>4, <1>5

\* Every step keeps the types.
LEMMA StepTyped == Typed /\ [Next]_vars => Typed'
<1> SUFFICES ASSUME Typed, [Next]_vars PROVE Typed'
  OBVIOUS
<1>1. CASE UNCHANGED vars
  BY <1>1 DEF vars, Typed, dbVars, processVars, bookVars
<1>2. QED
  BY <1>1, ScriptStepTyped, RunnerStepTyped, BarStepTyped DEF Next

\* The data is well typed in every state.
LEMMA DataTyped == Spec => []Typed
BY InitTyped, StepTyped, PTL DEF Spec
-----------------------------------------------------------------------------
(* The orders of a runner.                                                 *)

\* What a runner may execute it may since it loaded the table, and a runner
\* that is down has sent nothing.
EntitledInv ==
  /\ \A s \in Strategies : Executable(registry[s]) => s \in entitled
  /\ runner = "down" => order = NoOrder
  /\ OrdersAreEntitled

\* Confidences are numbers.
LEMMA ConfidencesTyped == Typed => Confidences \in [Strategies -> Int]
<1> SUFFICES ASSUME Typed PROVE Confidences \in [Strategies -> Int]
  OBVIOUS
<1>1. ASSUME NEW s \in Strategies PROVE Confidence(perf[s], today, registry[s]) \in Scores
  <2>1. perf[s] \in Seq(Trades)
    BY DEF Typed
  <2>2. QED
    BY <2>1, ConfidenceBounded, Zenon
<1>2. Confidences \in [Strategies -> Scores]
  BY <1>1 DEF Confidences
<1>3. Scores \in SUBSET Int
  BY DEF Scores
<1>4. QED
  BY <1>2, <1>3

\* At the start nothing may execute and nothing was sent.
LEMMA EntitledInit == Init => EntitledInv
BY DEF Init, EntitledInv, OrdersAreEntitled, NoRows, Executable

\* Every regime has a name.
LEMMA RegimesNamed == \A snapshot \in InForce : snapshot.regime \in RegimeNames
<1>1. ASSUME NEW r PROVE ClassifyRegime(r).regime \in RegimeNames
  <2> HIDE DEF Chaotic, Compressing, Trending, Ranging, Warm
  <2>1. QED
    BY DEF ClassifyRegime, Says, RegimeNames
<1>2. NoRegime.regime \in RegimeNames
  BY DEF NoRegime, RegimeNames
<1>3. QED
  BY <1>1, <1>2 DEF InForce, Snapshots

\* The winner is one of those that fire, may execute, and is in its habitat.
LEMMA OrderSent ==
  ASSUME Typed, LiveSignals
  PROVE  /\ order' \in [strategy : Strategies, regime : RegimeNames]
         /\ Executable(registry[order'.strategy])
         /\ order'.regime # "none" => Fits[order'.strategy][order'.regime] >= 70
<1>1. PICK snapshot \in InForce, now \in Minutes :
        \E fired \in (SUBSET Eligible(snapshot)) \ {{}} :
          LET winner == Arbitrate(fired, now, Confidences)
          IN  /\ IsExecutable(registry[winner])
              /\ order' = [strategy |-> winner, regime |-> snapshot.regime]
  BY DEF LiveSignals
<1>2. PICK fired \in (SUBSET Eligible(snapshot)) \ {{}} :
        /\ IsExecutable(registry[Arbitrate(fired, now, Confidences)])
        /\ order' = [strategy |-> Arbitrate(fired, now, Confidences),
                     regime |-> snapshot.regime]
  BY <1>1
<1> DEFINE winner == Arbitrate(fired, now, Confidences)
<1>3. /\ IsExecutable(registry[winner])
      /\ order' = [strategy |-> winner, regime |-> snapshot.regime]
  BY <1>2
<1>4. fired \in SUBSET Strategies /\ IsFiniteSet(fired) /\ fired # {}
  <2>1. fired \in SUBSET Eligible(snapshot) /\ fired # {}
    OBVIOUS
  <2>2. QED
    BY <2>1, FiredTyped
<1>5. now \in Nat /\ Confidences \in [Strategies -> Int]
  BY ConfidencesTyped, GovernanceAssumption
<1>6. winner \in fired
  BY <1>4, <1>5, WinnerIsCandidate
<1> HIDE DEF winner
<1>7. winner \in Strategies /\ winner \in Eligible(snapshot)
  BY <1>4, <1>6
<1>8. snapshot.regime # "none" => Fits[winner][snapshot.regime] >= 70
  <2> SUFFICES ASSUME snapshot.regime # "none" PROVE Fits[winner][snapshot.regime] >= 70
    OBVIOUS
  <2>1. snapshot # NoRegime
    BY DEF NoRegime
  <2>2. HabitatMatch(Fits[winner], snapshot.regime)
    BY <1>7, <2>1 DEF Eligible, EligibleStrategies
  <2>3. QED
    BY <2>2 DEF HabitatMatch
<1>9. snapshot.regime \in RegimeNames
  BY RegimesNamed
<1>10. QED
  BY <1>3, <1>7, <1>8, <1>9 DEF Executable, IsExecutable

\* Every step keeps executing to the entitled.
LEMMA EntitledStep == Typed /\ EntitledInv /\ [Next]_vars => EntitledInv'
<1> SUFFICES ASSUME Typed, EntitledInv, [Next]_vars PROVE EntitledInv'
  OBVIOUS
<1>1. ASSUME UNCHANGED <<registry, runner, order, entitled>> PROVE EntitledInv'
  BY <1>1 DEF EntitledInv, OrdersAreEntitled
<1>2. CASE LoadRegistry
  <2>1. /\ runner = "down" /\ runner' = "loading" /\ order' = order
        /\ registry' = StatesOf(table)
        /\ entitled' = {s \in Strategies : Executable(table[s].state)}
    BY <1>2 DEF LoadRegistry
  <2>2. order' = NoOrder
    BY <2>1 DEF EntitledInv
  <2>3. QED
    BY <2>1, <2>2 DEF EntitledInv, OrdersAreEntitled, StatesOf
<1>3. CASE UpsertMissing
  <2> DEFINE s == Keepers[Absent]
  <2>1. s \in Strategies /\ registry \in Copies
    BY <1>3, AbsentKeeper DEF UpsertMissing, Typed
  <2>2. /\ registry' = [registry EXCEPT ![s] = DefaultLifecycle]
        /\ UNCHANGED <<runner, order, entitled>>
    BY <1>3 DEF UpsertMissing
  <2> HIDE DEF s
  <2>3. \A t \in Strategies : Executable(registry'[t]) => Executable(registry[t])
    BY <2>1, <2>2 DEF Copies, Executable, DefaultLifecycle
  <2>4. QED
    BY <2>2, <2>3 DEF EntitledInv, OrdersAreEntitled
<1>4. CASE Backfill
  <2>1. runner' = "running" /\ UNCHANGED <<registry, order, entitled>>
    BY <1>4 DEF Backfill
  <2>2. QED
    BY <2>1 DEF EntitledInv, OrdersAreEntitled
<1>5. CASE Stop
  <2>1. registry' = NoRows /\ order' = NoOrder
    BY <1>5 DEF Stop
  <2>2. QED
    BY <2>1 DEF EntitledInv, OrdersAreEntitled, NoRows, Executable
<1>6. CASE LiveSignals
  <2>1. /\ order' \in [strategy : Strategies, regime : RegimeNames]
        /\ Executable(registry[order'.strategy])
        /\ order'.regime # "none" => Fits[order'.strategy][order'.regime] >= 70
    BY <1>6, OrderSent
  <2>2. runner = "running" /\ UNCHANGED <<registry, runner, entitled>>
    BY <1>6 DEF LiveSignals, processVars
  <2>3. order'.strategy \in entitled'
    BY <2>1, <2>2 DEF EntitledInv
  <2>4. QED
    BY <2>1, <2>2, <2>3 DEF EntitledInv, OrdersAreEntitled
<1>7. CASE StartScript \/ PromoteNext \/ RegisterNext \/ NewDay \/ PhantomSignals
  BY <1>1, <1>7 DEF StartScript, PromoteNext, RegisterNext, NewDay, PhantomSignals, processVars
<1>8. CASE BracketExit \/ ForceFlat
  BY <1>1, <1>8 DEF BracketExit, ForceFlat, processVars
<1>9. CASE UNCHANGED vars
  BY <1>1, <1>9 DEF vars, processVars
<1>10. QED
  BY <1>2, <1>3, <1>4, <1>5, <1>6, <1>7, <1>8, <1>9 DEF Next

(* Whatever the scripts write while a runner starts and runs, and however  *)
(* many strategies fire on a bar, an order is for a strategy that the      *)
(* table let execute when that runner loaded it, in its habitat.           *)
(* Code: _build_registry, _process_bar, arbitrate, eligible_strategies.    *)
THEOREM OrdersEntitled == Spec => []OrdersAreEntitled
<1>1. Init => EntitledInv
  BY EntitledInit
<1>2. Typed /\ Typed' /\ EntitledInv /\ [Next]_vars => EntitledInv'
  BY EntitledStep
<1>3. EntitledInv => OrdersAreEntitled
  BY DEF EntitledInv
<1>4. QED
  BY <1>1, <1>2, <1>3, DataTyped, PTL DEF Spec
-----------------------------------------------------------------------------
(* The scores in the table.                                                *)

(* The tier of a strategy weighs more than any record: the confidence is   *)
(* at most 97 hundredths, the tiers are further apart.                     *)
(* Code: the weights of _composite_score and compute_confidence.           *)
THEOREM TiersOutweigh == Spec => []TierOutweighsRecord
<1>1. ASSUME Typed, NEW s \in Strategies, NEW t \in Strategies,
             TierWeight(Tier[s]) > TierWeight(Tier[t])
      PROVE  TrackRecordShare(s, Confidences[s]) > TrackRecordShare(t, Confidences[t])
  <2>1. ASSUME NEW u \in Strategies PROVE Confidences[u] \in Scores
    <3>1. perf[u] \in Seq(Trades)
      BY <1>1 DEF Typed
    <3>2. Confidence(perf[u], today, registry[u]) \in Scores
      BY <3>1, ConfidenceBounded, Zenon
    <3>3. QED
      BY <3>2 DEF Confidences
  <2>2. PICK a, b \in Scores : a = Confidences[s] /\ b = Confidences[t]
    BY <2>1
  <2>3. \A u \in Strategies : TierWeight(Tier[u]) \in {10000, 6600, 3300}
    BY DEF TierWeight
  <2>4. PICK v, w \in {10000, 6600, 3300} : v = TierWeight(Tier[s]) /\ w = TierWeight(Tier[t])
    BY <2>3
  <2>5. v > w
    BY <1>1, <2>4
  <2>6. 3 * v + a > 3 * w + b
    BY <2>5 DEF Scores
  <2>7. QED
    BY <2>2, <2>4, <2>6 DEF TrackRecordShare
<1>2. ListActive \in SUBSET Strategies
  BY KeepersTyped DEF ListActive
<1>3. Typed => TierOutweighsRecord
  BY <1>1, <1>2 DEF TierOutweighsRecord
<1>4. QED
  BY <1>3, DataTyped, PTL

\* The replay of no rows leaves no record.
LEMMA ReplayOfNone == \A s \in Strategies : Replayed(<<>>, RowLimit, s) = <<>>
<1>1. TAKE s \in Strategies
<1>2. RowLimit \in Nat /\ <<>> \in Seq(EventRows)
  BY GovernanceAssumption
<1>3. SubSeq(<<>>, 1, IF Len(<<>>) < RowLimit THEN Len(<<>>) ELSE RowLimit) = <<>>
  BY <1>2
<1>4. PICK f : Replays(f, <<>>, s)
  BY <1>2, ReplayPrefixes
<1>5. ReplayedFrom(<<>>, s) = <<>>
  BY <1>4 DEF Replays
<1>6. QED
  BY <1>3, <1>5 DEF Replayed

\* A snapshot makes the scores follow the records.
LEMMA SnapshotFollows ==
  ASSUME Typed, perf' \in [Strategies -> Seq(Trades)], NEW mayFail \in BOOLEAN,
         WriteSnapshot(perf', mayFail), registry' = registry
  PROVE  ScoresFollowRecords'
<1>1. /\ published' = today
      /\ \A s \in Strategies :
           perf'[s] # <<>> /\ s \notin unpublished' =>
             table'[s].score = Confidence(perf'[s], today, registry[s])
  BY WriteTyped
<1>2. QED
  BY <1>1 DEF ScoresFollowRecords

\* What leaves the scores alone, or those of others than the close's.
LEMMA KeptScores ==
  ASSUME ScoresFollowRecords, NEW stale \in SUBSET Strategies,
         UNCHANGED <<registry, runner, published>>, unpublished' = unpublished \cup stale,
         \A s \in Strategies \ stale : perf'[s] = perf[s],
         \A s \in Strategies : table'[s].score = table[s].score
  PROVE  ScoresFollowRecords'
<1> SUFFICES ASSUME runner' = "running", NEW s \in Strategies \ unpublished', perf'[s] # <<>>
             PROVE  table'[s].score = Confidence(perf'[s], published', registry'[s])
  BY DEF ScoresFollowRecords
<1>1. s \in Strategies \ unpublished /\ s \notin stale /\ runner = "running" /\ perf'[s] = perf[s]
  OBVIOUS
<1>2. table[s].score = Confidence(perf[s], published, registry[s])
  BY <1>1 DEF ScoresFollowRecords
<1>3. QED
  BY <1>1, <1>2

\* Every step keeps the scores those of the records.
LEMMA ScoresStep == Typed /\ Typed' /\ ScoresFollowRecords /\ [Next]_vars => ScoresFollowRecords'
<1> SUFFICES ASSUME Typed, Typed', ScoresFollowRecords, [Next]_vars PROVE ScoresFollowRecords'
  OBVIOUS
<1>1. perf \in [Strategies -> Seq(Trades)] /\ perf' \in [Strategies -> Seq(Trades)]
  BY DEF Typed
<1>2. ASSUME UNCHANGED <<registry, runner, published, unpublished, perf>>,
             \A s \in Strategies : table'[s].score = table[s].score
      PROVE  ScoresFollowRecords'
  BY <1>2 DEF ScoresFollowRecords
<1>3. \A s \in Strategies : table[s] \in TableRows
  BY DEF Typed
<1>4. CASE PromoteNext
  <2>1. script.kind # "none" /\ script.to \in States
    BY <1>4 DEF PromoteNext, Typed
  <2>2. Head(script.todo) \in Strategies
    BY <2>1, DoneTyped
  <2>3. PICK s \in Strategies :
          table' = table \/ table' = [table EXCEPT ![s].state = script.to]
    BY <1>4, <2>2 DEF PromoteNext
  <2>4. ASSUME NEW t \in Strategies PROVE table'[t].score = table[t].score
    <3>1. [table[s] EXCEPT !.state = script.to].score = table[s].score
      BY <1>3 DEF TableRows
    <3>2. QED
      BY <2>3, <3>1 DEF Typed
  <2>5. QED
    BY <1>2, <1>4, <2>4 DEF PromoteNext, processVars, bookVars, scoreVars
<1>5. CASE RegisterNext
  <2>1. Head(script.todo) \in Strategies
    BY <1>5, DoneTyped DEF RegisterNext
  <2>2. PICK s \in Strategies :
          table' = table \/ table' = [table EXCEPT ![s] = Upserted(@)]
    BY <1>5, <2>1 DEF RegisterNext
  <2>3. ASSUME NEW t \in Strategies PROVE table'[t].score = table[t].score
    <3>1. Upserted(table[s]).score = table[s].score
      BY DEF Upserted
    <3>2. QED
      BY <2>2, <3>1 DEF Typed
  <2>4. QED
    BY <1>2, <1>5, <2>3 DEF RegisterNext, processVars, bookVars, scoreVars
<1>6. CASE LoadRegistry \/ UpsertMissing \/ Stop
  <2>1. runner' # "running"
    BY <1>6 DEF LoadRegistry, UpsertMissing, Stop
  <2>2. QED
    BY <2>1 DEF ScoresFollowRecords
<1>7. CASE Backfill
  <2>1. PICK failed \in BOOLEAN :
          /\ perf' = [s \in Strategies |->
                        IF failed THEN <<>> ELSE Replayed(closes, RowLimit, s)]
          /\ \/ failed \/ closes = <<>>
             \/ WriteSnapshot(perf', TRUE)
    BY <1>7 DEF Backfill
  <2>2. registry' = registry
    BY <1>7 DEF Backfill
  <2>3. CASE failed \/ closes = <<>>
    <3>1. \A s \in Strategies : perf'[s] = <<>>
      BY <2>1, <2>3, ReplayOfNone
    <3>2. QED
      BY <3>1 DEF ScoresFollowRecords
  <2>4. CASE WriteSnapshot(perf', TRUE)
    BY <1>1, <2>2, <2>4, SnapshotFollows
  <2>5. QED
    BY <2>1, <2>3, <2>4
<1>8. CASE BracketExit
  <2>1. PICK lost \in BOOLEAN : WriteSnapshot(perf', ~lost)
    BY <1>8 DEF BracketExit
  <2>2. registry' = registry /\ (~lost) \in BOOLEAN
    BY <1>8 DEF BracketExit, processVars
  <2>3. QED
    BY <1>1, <2>1, <2>2, SnapshotFollows
<1>9. CASE ForceFlat
  <2>1. PICK s \in open, pnl \in Pnls, lost \in BOOLEAN :
          Closed(s, pnl, lost) /\ NotSnapshot({s})
    BY <1>9 DEF ForceFlat
  <2>2. s \in Strategies
    BY DEF Typed
  <2>3. \A t \in Strategies \ {s} : perf'[t] = perf[t]
    BY <1>1, <2>1 DEF Closed
  <2>4. UNCHANGED <<registry, runner>>
    BY <1>9 DEF ForceFlat, processVars
  <2>5. unpublished' = unpublished \cup {s} /\ UNCHANGED <<table, published>>
    BY <2>1 DEF NotSnapshot
  <2>6. QED
    BY <2>2, <2>3, <2>4, <2>5, KeptScores
<1>10. CASE StartScript \/ NewDay \/ PhantomSignals \/ LiveSignals
  BY <1>2, <1>10
     DEF StartScript, NewDay, PhantomSignals, LiveSignals, dbVars, processVars, bookVars, scoreVars
<1>11. CASE UNCHANGED vars
  BY <1>2, <1>11 DEF vars, dbVars, processVars, bookVars, scoreVars
<1>12. QED
  BY <1>4, <1>5, <1>6, <1>7, <1>8, <1>9, <1>10, <1>11 DEF Next

(* The score of a strategy in the table is the confidence in its record    *)
(* whatever scripts write to its row, except after a close it asked for or *)
(* a write that failed.                                                    *)
(* Code: write_snapshot, set_score, upsert.                                *)
THEOREM ScoresFollow == Spec => []ScoresFollowRecords
<1>1. Init => ScoresFollowRecords
  BY DEF Init, ScoresFollowRecords
<1>2. QED
  BY <1>1, ScoresStep, DataTyped, PTL DEF Spec
-----------------------------------------------------------------------------
(* Type correctness: the rows that exist, and the rest of the state.       *)

\* A strategy without a row has no score, no record, no phantom, no trade in
\* the table, and is missing from the runner's copy too.
RowsExist ==
  \A s \in Strategies :
    table[s].state = "none" =>
      /\ table[s].score = 0 /\ registry[s] = "none" /\ perf[s] = <<>> /\ s \notin open
      /\ \A i \in 1..Len(closes) : closes[i].strategy # s

Flags ==
  /\ runner \in {"down", "loading", "running"}
  /\ dryRun \in BOOLEAN /\ lossy \in BOOLEAN
  /\ entitled \subseteq Strategies /\ unpublished \subseteq Strategies
  /\ order \in [strategy : Strategies, regime : RegimeNames] \cup {NoOrder}
  /\ published \in 0..MaxDays
  /\ scripts \in Nat /\ starts \in Nat /\ faults \in Nat

\* A strategy that no row is about has no record.
LEMMA ReplayOfOthers ==
  ASSUME NEW rows \in Seq(EventRows), NEW s, \A i \in 1..Len(rows) : rows[i].strategy # s
  PROVE  Replayed(rows, RowLimit, s) = <<>>
<1> DEFINE k == IF Len(rows) < RowLimit THEN Len(rows) ELSE RowLimit
           answer == SubSeq(rows, 1, k)
           n == Len(answer)
<1>1. RowLimit \in Nat
  BY GovernanceAssumption
<1>2. answer \in Seq(EventRows) /\ \A i \in 1..n : answer[i].strategy # s
  BY <1>1
<1> HIDE DEF answer
<1>3. PICK g : Replays(g, answer, s)
  BY <1>2, ReplayPrefixes
<1> DEFINE G == {i \in 0..n : g[i] = <<>>}
<1>4. n \in Nat
  BY <1>2
<1>5. 0 \in G
  BY <1>3, <1>4 DEF Replays
<1>6. ASSUME NEW i \in 1..n, i - 1 \in G PROVE i \in G
  <2>1. g[i] = KeptLast(g[i - 1], s, answer[i]) /\ answer[i].strategy # s
    BY <1>2, <1>3 DEF Replays
  <2>2. QED
    BY <1>4, <1>6, <2>1 DEF KeptLast
<1> HIDE DEF G
<1>7. \A i \in 0..n : i \in G
  BY <1>4, <1>5, <1>6, UpTo
<1>8. g[n] = <<>>
  BY <1>4, <1>7 DEF G
<1>9. QED
  BY <1>3, <1>8 DEF Replays, Replayed, answer

\* What happens to the table: rows come, their scores change, none goes.
LEMMA RowsKept ==
  ASSUME Typed, PromoteNext \/ RegisterNext \/ UpsertMissing
  PROVE  \A s \in Strategies :
           table'[s].state = "none" =>
             table'[s] = table[s] /\ (UpsertMissing => registry'[s] = registry[s])
<1>1. \A s \in Strategies : table[s] \in TableRows
  BY DEF Typed
<1>2. CASE PromoteNext /\ ~UpsertMissing
  <2>1. script.kind # "none" /\ script.to \in States
    BY <1>2 DEF PromoteNext, Typed
  <2>2. Head(script.todo) \in Strategies
    BY <2>1, DoneTyped
  <2>3. PICK s \in Strategies :
          table' = table \/ table' = [table EXCEPT ![s].state = script.to]
    BY <1>2, <2>2 DEF PromoteNext
  <2>4. [table[s] EXCEPT !.state = script.to].state # "none"
    BY <1>1, <2>1 DEF TableRows, States
  <2>5. QED
    BY <1>2, <2>3, <2>4 DEF Typed
<1>3. CASE RegisterNext /\ ~UpsertMissing
  <2>1. Head(script.todo) \in Strategies
    BY <1>3, DoneTyped DEF RegisterNext
  <2>2. PICK s \in Strategies :
          table' = table \/ table' = [table EXCEPT ![s] = Upserted(@)]
    BY <1>3, <2>1 DEF RegisterNext
  <2>3. Upserted(table[s]).state # "none"
    BY DEF Upserted, DefaultLifecycle
  <2>4. QED
    BY <1>3, <2>2, <2>3 DEF Typed
<1>4. CASE UpsertMissing
  <2>1. Keepers[Absent] \in Strategies
    BY <1>4, AbsentKeeper DEF UpsertMissing
  <2>2. PICK s \in Strategies :
          /\ registry' = [registry EXCEPT ![s] = DefaultLifecycle]
          /\ table' = [table EXCEPT ![s] = Upserted(@)]
    BY <1>4, <2>1 DEF UpsertMissing
  <2>3. Upserted(table[s]).state # "none"
    BY DEF Upserted, DefaultLifecycle
  <2>4. QED
    BY <2>2, <2>3 DEF Typed, Copies
<1>5. QED
  BY <1>2, <1>3, <1>4

\* At the start only the table can have anything to say of a strategy.
LEMMA RowsExistInit == Init => RowsExist
<1> SUFFICES ASSUME Init, NEW s \in Strategies
             PROVE  /\ table[s].score = 0 /\ registry[s] = "none" /\ perf[s] = <<>>
                    /\ s \notin open /\ \A i \in 1..Len(closes) : closes[i].strategy # s
  BY DEF RowsExist
<1>1. table[s].score = 0 /\ registry[s] = "none" /\ perf[s] = <<>> /\ s \notin open
  BY DEF Init, NoRows
<1>2. closes = <<>>
  BY DEF Init
<1>3. QED
  BY <1>1, <1>2

\* A strategy gets a record, a phantom or a score only once it has a row.
LEMMA RowsExistStep == Typed /\ Typed' /\ RowsExist /\ [Next]_vars => RowsExist'
<1> SUFFICES ASSUME Typed, Typed', RowsExist, [Next]_vars, NEW s \in Strategies,
                    table'[s].state = "none"
             PROVE  /\ table'[s].score = 0 /\ registry'[s] = "none" /\ perf'[s] = <<>>
                    /\ s \notin open' /\ \A i \in 1..Len(closes') : closes'[i].strategy # s
  BY DEF RowsExist
<1> DEFINE Bare == /\ table[s].score = 0 /\ registry[s] = "none" /\ perf[s] = <<>>
                   /\ s \notin open /\ \A i \in 1..Len(closes) : closes[i].strategy # s
<1>1. table[s].state = "none" => Bare
  BY DEF RowsExist
<1>2. closes \in Seq(EventRows)
  BY DEF Typed
<1>3. CASE UNCHANGED <<table, registry, perf, open, closes>>
  BY <1>1, <1>3
<1>4. CASE PromoteNext \/ RegisterNext
  <2>1. table'[s] = table[s]
    BY <1>4, RowsKept
  <2>2. UNCHANGED <<registry, perf, open, closes>>
    BY <1>4 DEF PromoteNext, RegisterNext, processVars, bookVars
  <2>3. QED
    BY <1>1, <2>1, <2>2
<1>5. CASE UpsertMissing
  <2>1. table'[s] = table[s] /\ registry'[s] = registry[s]
    BY <1>5, RowsKept
  <2>2. UNCHANGED <<perf, open, closes>>
    BY <1>5 DEF UpsertMissing, bookVars
  <2>3. QED
    BY <1>1, <2>1, <2>2
<1>6. CASE LoadRegistry
  <2>1. UNCHANGED <<table, perf, open, closes>> /\ registry' = StatesOf(table)
    BY <1>6 DEF LoadRegistry, dbVars, bookVars
  <2>2. QED
    BY <1>1, <2>1 DEF StatesOf
<1>7. CASE Stop
  <2>1. /\ UNCHANGED <<table, closes>> /\ registry' = NoRows /\ open' = {}
        /\ perf' = [t \in Strategies |-> <<>>]
    BY <1>7 DEF Stop, dbVars
  <2>2. QED
    BY <1>1, <2>1 DEF NoRows
<1>8. ASSUME NotSnapshot({}) \/ \E mayFail \in BOOLEAN : WriteSnapshot(perf', mayFail)
      PROVE  table'[s].state = table[s].state /\ (perf'[s] = <<>> => table'[s] = table[s])
  <2>1. perf' \in [Strategies -> Seq(Trades)]
    BY DEF Typed
  <2>2. CASE NotSnapshot({})
    BY <2>2 DEF NotSnapshot
  <2>3. ASSUME NEW mayFail \in BOOLEAN, WriteSnapshot(perf', mayFail)
        PROVE  table'[s].state = table[s].state /\ (perf'[s] = <<>> => table'[s] = table[s])
    BY <2>1, <2>3, WriteTyped
  <2>4. QED
    BY <1>8, <2>2, <2>3
<1>9. CASE Backfill
  <2>1. PICK failed \in BOOLEAN :
          /\ perf' = [t \in Strategies |->
                        IF failed THEN <<>> ELSE Replayed(closes, RowLimit, t)]
          /\ NotSnapshot({}) \/ WriteSnapshot(perf', TRUE)
    BY <1>9 DEF Backfill
  <2>2. UNCHANGED <<registry, open, closes>>
    BY <1>9 DEF Backfill
  <2>3. Bare
    BY <1>1, <1>8, <2>1
  <2>4. Replayed(closes, RowLimit, s) = <<>>
    BY <1>2, <2>3, ReplayOfOthers
  <2>5. perf'[s] = <<>>
    BY <2>1, <2>4
  <2>6. table'[s] = table[s]
    BY <1>8, <2>1, <2>5
  <2>7. QED
    BY <2>2, <2>3, <2>5, <2>6
<1>10. ASSUME NEW u \in open, NEW pnl \in Pnls, NEW lost \in BOOLEAN, Closed(u, pnl, lost), Bare
       PROVE  /\ perf'[s] = <<>> /\ s \notin open'
              /\ \A i \in 1..Len(closes') : closes'[i].strategy # s
  <2>1. u \in Strategies /\ u # s
    BY <1>10 DEF Typed
  <2>2. perf'[s] = perf[s] /\ s \notin open'
    BY <1>10, <2>1 DEF Closed, Typed
  <2>3. closes' = closes \/ closes' = Append(closes, [strategy |-> u, pnl |-> pnl, day |-> today])
    BY <1>10 DEF Closed
  <2>4. \A i \in 1..Len(closes') : closes'[i].strategy # s
    BY <1>2, <1>10, <2>1, <2>3
  <2>5. QED
    BY <1>10, <2>2, <2>4
<1>11. CASE BracketExit
  <2>1. PICK u \in open, pnl \in Pnls, lost \in BOOLEAN :
          Closed(u, pnl, lost) /\ WriteSnapshot(perf', ~lost)
    BY <1>11 DEF BracketExit
  <2>2. registry' = registry
    BY <1>11 DEF BracketExit, processVars
  <2>3. Bare
    BY <1>1, <1>8, <2>1
  <2>4. /\ perf'[s] = <<>> /\ s \notin open'
        /\ \A i \in 1..Len(closes') : closes'[i].strategy # s
    BY <1>10, <2>1, <2>3
  <2>5. table'[s] = table[s]
    BY <1>8, <2>1, <2>4
  <2>6. QED
    BY <2>2, <2>3, <2>4, <2>5
<1>12. CASE ForceFlat
  <2>1. PICK u \in open, pnl \in Pnls, lost \in BOOLEAN :
          Closed(u, pnl, lost) /\ NotSnapshot({u})
    BY <1>12 DEF ForceFlat
  <2>2. registry' = registry /\ table' = table
    BY <1>12, <2>1 DEF ForceFlat, NotSnapshot, processVars
  <2>3. Bare
    BY <1>1, <2>2
  <2>4. QED
    BY <1>10, <2>1, <2>2, <2>3
<1>13. CASE PhantomSignals
  <2>1. UNCHANGED <<table, registry, perf, closes>>
    BY <1>13 DEF PhantomSignals, dbVars, processVars
  <2>2. PICK snapshot \in InForce : \E fired \in (SUBSET Eligible(snapshot)) \ {{}} :
          open' = open \cup fired
    BY <1>13 DEF PhantomSignals
  <2>3. PICK fired \in SUBSET Eligible(snapshot) : open' = open \cup fired
    BY <2>2
  <2>4. Bare
    BY <1>1, <2>1
  <2>5. s \notin fired
    BY <2>4, FiredTyped DEF IsActive
  <2>6. QED
    BY <2>1, <2>3, <2>4, <2>5
<1>14. CASE StartScript \/ LiveSignals \/ NewDay
  BY <1>3, <1>14 DEF StartScript, LiveSignals, NewDay, dbVars, processVars, bookVars
<1>15. CASE UNCHANGED vars
  BY <1>3, <1>15 DEF vars, dbVars, processVars, bookVars
<1>16. QED
  BY <1>4, <1>5, <1>6, <1>7, <1>9, <1>11, <1>12, <1>13, <1>14, <1>15 DEF Next

\* Every step keeps the types of the rest of the state.
LEMMA FlagsStep == Typed /\ Typed' /\ Flags /\ [Next]_vars => Flags'
<1> SUFFICES ASSUME Typed, Typed', Flags, [Next]_vars PROVE Flags'
  OBVIOUS
<1>1. ASSUME NEW happens \in BOOLEAN, Fails(happens) PROVE faults' \in Nat
  BY <1>1 DEF Fails, Flags
<1>2. ASSUME NEW stale \in SUBSET Strategies, NotSnapshot(stale)
      PROVE  unpublished' \subseteq Strategies /\ published' \in 0..MaxDays
  BY <1>2 DEF NotSnapshot, Flags
<1>3. ASSUME NEW mayFail \in BOOLEAN, WriteSnapshot(perf', mayFail)
      PROVE  unpublished' \subseteq Strategies /\ published' \in 0..MaxDays /\ faults' \in Nat
  <2>1. perf' \in [Strategies -> Seq(Trades)] /\ today \in 0..MaxDays
    BY DEF Typed
  <2>2. unpublished' \subseteq Strategies /\ published' = today
    BY <1>3, <2>1, WriteTyped
  <2>3. PICK failing : Fails(failing # {} \/ ~mayFail)
    BY <1>3 DEF WriteSnapshot
  <2>4. faults' \in Nat
    BY <2>3 DEF Fails, Flags
  <2>5. QED
    BY <2>1, <2>2, <2>4
<1>4. CASE StartScript
  BY <1>4 DEF StartScript, Flags, processVars, scoreVars
<1>5. CASE PromoteNext \/ RegisterNext
  BY <1>5 DEF PromoteNext, RegisterNext, Flags, processVars, bounds, scoreVars
<1>6. CASE LoadRegistry
  BY <1>6 DEF LoadRegistry, Flags, scoreVars
<1>7. CASE UpsertMissing
  BY <1>7 DEF UpsertMissing, Flags, bounds, scoreVars
<1>8. CASE Backfill
  <2>1. PICK failed \in BOOLEAN :
          /\ lossy' = (lossy \/ failed)
          /\ (Fails(failed) /\ NotSnapshot({})) \/ WriteSnapshot(perf', TRUE)
    BY <1>8 DEF Backfill
  <2>2. unpublished' \subseteq Strategies /\ published' \in 0..MaxDays /\ faults' \in Nat
    BY <1>1, <1>2, <1>3, <2>1
  <2>3. lossy' \in BOOLEAN
    BY <2>1 DEF Flags
  <2>4. QED
    BY <1>8, <2>2, <2>3 DEF Backfill, Flags, bounds
<1>9. CASE Stop
  BY <1>9 DEF Stop, Flags, bounds
<1>10. CASE BracketExit
  <2>1. PICK s \in open, pnl \in Pnls, lost \in BOOLEAN :
          Closed(s, pnl, lost) /\ WriteSnapshot(perf', ~lost)
    BY <1>10 DEF BracketExit
  <2>2. unpublished' \subseteq Strategies /\ published' \in 0..MaxDays /\ faults' \in Nat
    BY <1>3, <2>1
  <2>3. lossy' \in BOOLEAN
    BY <2>1 DEF Flags, Closed
  <2>4. QED
    BY <1>10, <2>2, <2>3 DEF BracketExit, Flags, processVars, bounds
<1>11. CASE ForceFlat
  <2>1. PICK s \in open, pnl \in Pnls, lost \in BOOLEAN :
          Fails(lost) /\ Closed(s, pnl, lost) /\ NotSnapshot({s})
    BY <1>11 DEF ForceFlat
  <2>2. s \in Strategies
    BY DEF Typed
  <2>3. unpublished' \subseteq Strategies /\ published' \in 0..MaxDays /\ faults' \in Nat
    BY <1>1, <1>2, <2>1, <2>2
  <2>4. lossy' \in BOOLEAN
    BY <2>1 DEF Flags, Closed
  <2>5. QED
    BY <1>11, <2>3, <2>4 DEF ForceFlat, Flags, processVars, bounds
<1>12. CASE PhantomSignals
  BY <1>12 DEF PhantomSignals, Flags, processVars, bounds, scoreVars
<1>13. CASE LiveSignals
  <2>1. order' \in [strategy : Strategies, regime : RegimeNames]
    BY <1>13, OrderSent
  <2>2. QED
    BY <1>13, <2>1 DEF LiveSignals, Flags, processVars, bounds, scoreVars
<1>14. CASE NewDay
  BY <1>14 DEF NewDay, Flags, processVars, bounds, scoreVars
<1>15. CASE UNCHANGED vars
  BY <1>15 DEF vars, Flags, processVars, bounds, scoreVars
<1>16. QED
  BY <1>4, <1>5, <1>6, <1>7, <1>8, <1>9, <1>10, <1>11, <1>12, <1>13, <1>14, <1>15 DEF Next

\* The data and the rest of the state are well typed in every state.
LEMMA AllTyped == Spec => [](Typed /\ Flags /\ RowsExist)
<1>1. Init => Flags
  <2>1. 0 \in 0..MaxDays
    BY GovernanceAssumption
  <2> SUFFICES ASSUME Init PROVE Flags
    OBVIOUS
  <2>2. dryRun \in BOOLEAN /\ lossy \in BOOLEAN
    BY DEF Init
  <2>3. entitled \subseteq Strategies /\ unpublished \subseteq Strategies
    BY DEF Init
  <2>4. order = NoOrder /\ published \in 0..MaxDays
    BY <2>1 DEF Init
  <2>5. runner = "down" /\ scripts \in Nat /\ starts \in Nat /\ faults \in Nat
    BY DEF Init
  <2>6. QED
    BY <2>2, <2>3, <2>4, <2>5 DEF Flags
<1>2. QED
  BY <1>1, FlagsStep, RowsExistInit, RowsExistStep, DataTyped, PTL DEF Spec

(* Every variable keeps its type: in particular a score is only ever       *)
(* written to a row that exists.                                           *)
(* Code: set_score, an update that would otherwise match no row.           *)
THEOREM TypeCorrect == Spec => []TypeOK
<1>1. ASSUME Typed, RowsExist PROVE table \in [Strategies -> Rows]
  <2>1. ASSUME NEW s \in Strategies PROVE table[s] \in Rows
    <3>1. table[s] \in TableRows
      BY <1>1 DEF Typed
    <3>2. CASE table[s].state = "none"
      <4>1. table[s].score = 0
        BY <1>1, <3>2 DEF RowsExist
      <4>2. table[s] = [state |-> table[s].state, score |-> table[s].score]
        BY <3>1 DEF TableRows
      <4>3. table[s] = NoRow
        BY <3>2, <4>1, <4>2 DEF NoRow
      <4>4. QED
        BY <4>3 DEF Rows
    <3>3. CASE table[s].state # "none"
      <4>1. Scores \in SUBSET (0..MaxScore)
        <5>1. MaxScore \in Nat /\ \A n \in Scores : n \in Nat /\ n <= MaxScore
          BY DEF Scores, MaxScore
        <5>2. QED
          BY <5>1
      <4>2. table[s] \in [state : States, score : Scores]
        BY <3>1, <3>3 DEF TableRows
      <4>3. QED
        BY <4>1, <4>2 DEF Rows
    <3>4. QED
      BY <3>2, <3>3
  <2>2. QED
    BY <1>1, <2>1 DEF Typed
<1>2. ASSUME Typed PROVE /\ registry \in [Strategies -> States \cup {"none"}]
                         /\ closes \in Seq([strategy : Strategies, pnl : Pnls, day : 0..MaxDays])
                         /\ perf \in [Strategies -> Seq([pnl : Pnls, day : 0..MaxDays])]
                         /\ today \in 0..MaxDays /\ open \subseteq Strategies
  BY <1>2 DEF Typed, Copies, EventRows, Trades
<1>3. ASSUME Typed
      PROVE  script \in [kind : {"none", "promote", "register"},
                         copy : [Strategies -> States \cup {"none"}], todo : Seq(Strategies),
                         to : States \cup {"none"}]
  BY <1>3 DEF Typed, Scripts, Copies
<1>4. Typed /\ Flags /\ RowsExist => TypeOK
  <2> SUFFICES ASSUME Typed, Flags, RowsExist PROVE TypeOK
    OBVIOUS
  <2>1. QED
    BY <1>1, <1>2, <1>3, Zenon DEF TypeOK, Flags
<1>5. QED
  BY <1>4, AllTyped, PTL
-----------------------------------------------------------------------------
(* The records of a runner and the rows of the table.                      *)

\* The database answers a query with every row there is.
RowsFit == MaxRows <= RowLimit

RestartInv ==
  /\ Len(closes) <= MaxRows
  /\ RestartKeepsRecord

\* The elements at the end of a sequence.
LEMMA LastOfElements ==
  ASSUME NEW n \in Nat \ {0}, NEW S, NEW seq \in Seq(S), NEW k \in Nat,
         k <= n, k <= Len(seq), k = n \/ k = Len(seq)
  PROVE  /\ LastOf(n, seq) \in Seq(S) /\ Len(LastOf(n, seq)) = k
         /\ \A i \in 1..k : LastOf(n, seq)[i] = seq[Len(seq) - k + i]
<1>1. CASE Len(seq) > n
  <2>1. k = n /\ LastOf(n, seq) = SubSeq(seq, Len(seq) - k + 1, Len(seq))
    BY <1>1 DEF LastOf
  <2>2. QED
    BY <1>1, <2>1
<1>2. CASE ~(Len(seq) > n)
  <2>1. k = Len(seq) /\ LastOf(n, seq) = SubSeq(seq, 1, Len(seq))
    BY <1>2 DEF LastOf
  <2>2. QED
    BY <2>1
<1>3. QED
  BY <1>1, <1>2

\* What was forgotten before a trade is forgotten after it.
LEMMA LastOfAppend ==
  ASSUME NEW n \in Nat \ {0}, NEW S, NEW seq \in Seq(S), NEW t \in S
  PROVE  LastOf(n, Append(LastOf(n, seq), t)) = LastOf(n, Append(seq, t))
<1> DEFINE short == LastOf(n, seq)
           left == Append(short, t)
           right == Append(seq, t)
<1>1. PICK k \in Nat : k <= n /\ k <= Len(seq) /\ (k = n \/ k = Len(seq))
  <2>1. CASE n <= Len(seq)
    BY <2>1
  <2>2. CASE ~(n <= Len(seq))
    BY <2>2
  <2>3. QED
    BY <2>1, <2>2
<1>2. /\ short \in Seq(S) /\ Len(short) = k
      /\ \A i \in 1..k : short[i] = seq[Len(seq) - k + i]
  BY <1>1, LastOfElements
<1> HIDE DEF short
<1>3. /\ left \in Seq(S) /\ Len(left) = k + 1 /\ left[k + 1] = t
      /\ \A i \in 1..k : left[i] = seq[Len(seq) - k + i]
  BY <1>2
<1>4. /\ right \in Seq(S) /\ Len(right) = Len(seq) + 1 /\ right[Len(seq) + 1] = t
      /\ \A i \in 1..Len(seq) : right[i] = seq[i]
  OBVIOUS
<1> HIDE DEF left, right
<1>5. PICK m \in Nat : m <= n /\ m <= Len(right) /\ (m = n \/ m = Len(right))
  <2>1. CASE n <= Len(seq)
    BY <1>4, <2>1
  <2>2. CASE ~(n <= Len(seq))
    BY <1>4, <2>2
  <2>3. QED
    BY <2>1, <2>2
<1>6. m <= n /\ m <= Len(left) /\ (m = n \/ m = Len(left)) /\ m <= k + 1
  BY <1>1, <1>3, <1>4, <1>5
<1>7. /\ LastOf(n, left) \in Seq(S) /\ Len(LastOf(n, left)) = m
      /\ \A i \in 1..m : LastOf(n, left)[i] = left[Len(left) - m + i]
  <2>1. left \in Seq(S)
    BY <1>3
  <2>2. QED
    BY ONLY <1>6, <2>1, LastOfElements, n \in Nat \ {0}, m \in Nat
<1>8. /\ LastOf(n, right) \in Seq(S) /\ Len(LastOf(n, right)) = m
      /\ \A i \in 1..m : LastOf(n, right)[i] = right[Len(right) - m + i]
  <2>1. right \in Seq(S)
    BY <1>4
  <2>2. QED
    BY ONLY <1>5, <2>1, LastOfElements, n \in Nat \ {0}, m \in Nat
<1>9. ASSUME NEW i \in 1..m PROVE left[Len(left) - m + i] = right[Len(right) - m + i]
  <2>1. k <= Len(seq) /\ k \in Nat /\ Len(seq) \in Nat
    BY <1>1
  <2>2. CASE i = m
    <3>1. Len(left) - m + i = k + 1 /\ Len(right) - m + i = Len(seq) + 1
      BY <1>3, <1>4, <2>1, <2>2
    <3>2. QED
      BY <1>3, <1>4, <3>1
  <2>3. CASE i # m
    <3> DEFINE j == Len(left) - m + i
    <3>1. j \in 1..k
      BY <1>3, <1>6, <2>1, <2>3
    <3>2. Len(right) - m + i = Len(seq) - k + j /\ Len(seq) - k + j \in 1..Len(seq)
      BY <1>3, <1>4, <2>1, <3>1
    <3> HIDE DEF j
    <3>3. left[j] = right[Len(right) - m + i]
      BY <1>3, <1>4, <3>1, <3>2
    <3>4. QED
      BY <3>3 DEF j
  <2>4. QED
    BY <2>2, <2>3
<1>10. \A i \in 1..m : LastOf(n, left)[i] = LastOf(n, right)[i]
  BY <1>7, <1>8, <1>9
<1>11. LastOf(n, left) = LastOf(n, right)
  BY <1>7, <1>8, <1>10
<1>12. QED
  BY <1>11 DEF left, right, short

\* A record is the end of the trades.
LEMMA RecordOfLast ==
  ASSUME NEW trades \in Seq(Trades), NEW trade \in Trades
  PROVE  Record(LastOf(MaxTrades, trades), trade) = LastOf(MaxTrades, Append(trades, trade))
BY LastOfAppend, PerformanceAssumption DEF Record

\* The replay of some rows keeps the end of the trades they are about.
LEMMA ReplayKeepsLast ==
  ASSUME NEW rows \in Seq(EventRows), NEW strategy
  PROVE  ReplayedFrom(rows, strategy) = LastOf(MaxTrades, TradesOf(rows, strategy))
<1>1. PICK f : Keeps(f, rows, strategy)
  BY TradesOfPrefixes
<1>2. PICK g : Replays(g, rows, strategy)
  BY ReplayPrefixes
<1> DEFINE n == Len(rows)
           G == {i \in 0..n : g[i] = LastOf(MaxTrades, f[i])}
<1>3. n \in Nat /\ MaxTrades \in Nat \ {0}
  BY PerformanceAssumption
<1>4. 0 \in G
  <2>1. f[0] = <<>> /\ g[0] = <<>>
    BY <1>1, <1>2 DEF Keeps, Replays
  <2>2. LastOf(MaxTrades, <<>>) = <<>>
    BY <1>3 DEF LastOf
  <2>3. QED
    BY <1>3, <2>1, <2>2
<1>5. ASSUME NEW i \in 1..n, i - 1 \in G PROVE i \in G
  <2>1. f[i] = Kept(f[i - 1], strategy, rows[i]) /\ g[i] = KeptLast(g[i - 1], strategy, rows[i])
    BY <1>1, <1>2 DEF Keeps, Replays
  <2>2. i - 1 \in 0..Len(rows) /\ rows[i] \in EventRows
    BY <1>3
  <2>3. f[i - 1] \in Seq(Trades) /\ Trade(rows[i]) \in Trades
    BY <1>1, <2>2, RowsHoldTrades DEF Keeps
  <2>4. g[i - 1] = LastOf(MaxTrades, f[i - 1])
    BY <1>5
  <2>5. Record(g[i - 1], Trade(rows[i])) = LastOf(MaxTrades, Append(f[i - 1], Trade(rows[i])))
    BY <2>3, <2>4, RecordOfLast
  <2>6. g[i] = LastOf(MaxTrades, f[i])
    BY <2>1, <2>4, <2>5 DEF Kept, KeptLast
  <2>7. QED
    BY <1>3, <2>6
<1> HIDE DEF G
<1>6. \A i \in 0..n : i \in G
  BY <1>3, <1>4, <1>5, UpTo
<1>7. g[n] = LastOf(MaxTrades, f[n])
  BY <1>3, <1>6 DEF G
<1>8. QED
  BY <1>1, <1>2, <1>7 DEF Keeps, Replays

\* One more row.
LEMMA TradesOfAppend ==
  ASSUME NEW rows \in Seq(EventRows), NEW row \in EventRows, NEW strategy
  PROVE  /\ TradesOf(rows, strategy) \in Seq(Trades)
         /\ TradesOf(Append(rows, row), strategy) = Kept(TradesOf(rows, strategy), strategy, row)
<1> DEFINE more == Append(rows, row)
           n == Len(rows)
<1>1. /\ more \in Seq(EventRows) /\ Len(more) = n + 1 /\ n \in Nat
      /\ more[n + 1] = row /\ \A i \in 1..n : more[i] = rows[i]
  OBVIOUS
<1> HIDE DEF more
<1>2. PICK f : Keeps(f, rows, strategy)
  BY TradesOfPrefixes
<1>3. PICK g : Keeps(g, more, strategy)
  BY <1>1, TradesOfPrefixes
<1> DEFINE G == {i \in 0..n : g[i] = f[i]}
<1>4. 0 \in G
  BY <1>1, <1>2, <1>3 DEF Keeps
<1>5. ASSUME NEW i \in 1..n, i - 1 \in G PROVE i \in G
  <2>1. f[i] = Kept(f[i - 1], strategy, rows[i])
    BY <1>2 DEF Keeps
  <2>2. g[i] = Kept(g[i - 1], strategy, more[i])
    <3>1. i \in 1..Len(more)
      BY <1>1
    <3>2. QED
      BY <1>3, <3>1 DEF Keeps
  <2>3. QED
    BY <1>1, <1>5, <2>1, <2>2
<1> HIDE DEF G
<1>6. \A i \in 0..n : i \in G
  BY <1>1, <1>4, <1>5, UpTo
<1>7. g[n] = f[n]
  BY <1>1, <1>6 DEF G
<1>8. n + 1 \in 1..Len(more) /\ (n + 1) - 1 = n /\ n \in 0..Len(rows)
  BY <1>1
<1>9. g[n + 1] = Kept(g[n], strategy, row)
  BY <1>1, <1>3, <1>8 DEF Keeps
<1>10. /\ f[n] = TradesOf(rows, strategy) /\ g[n + 1] = TradesOf(more, strategy)
       /\ f[n] \in Seq(Trades)
  BY <1>1, <1>2, <1>3, <1>8 DEF Keeps
<1>11. QED
  BY <1>7, <1>9, <1>10 DEF more

\* The table answers a query for its rows with all of them.
LEMMA ReplayOfAll ==
  ASSUME NEW rows \in Seq(EventRows), Len(rows) <= RowLimit, NEW s
  PROVE  Replayed(rows, RowLimit, s) = LastOf(MaxTrades, TradesOf(rows, s))
<1>1. RowLimit \in Nat
  BY GovernanceAssumption
<1>2. (IF Len(rows) < RowLimit THEN Len(rows) ELSE RowLimit) = Len(rows)
  BY <1>1
<1>3. SubSeq(rows, 1, Len(rows)) = rows
  OBVIOUS
<1>4. QED
  BY <1>2, <1>3, ReplayKeepsLast DEF Replayed

\* A close that is not lost is both on record and in the table.
LEMMA ClosedKeepsRecord ==
  ASSUME Typed, RestartInv, runner = "running", NEW s \in open, NEW pnl \in Pnls,
         NEW lost \in BOOLEAN, Closed(s, pnl, lost), ~lossy'
  PROVE  \A t \in Strategies : perf'[t] = LastOf(MaxTrades, TradesOf(closes', t))
<1>1. s \in Strategies /\ today \in 0..MaxDays /\ closes \in Seq(EventRows)
      /\ perf \in [Strategies -> Seq(Trades)]
  BY DEF Typed
<1> DEFINE row == [strategy |-> s, pnl |-> pnl, day |-> today]
           trade == [pnl |-> pnl, day |-> today]
<1>2. row \in EventRows /\ trade \in Trades /\ Trade(row) = trade /\ row.strategy = s
  BY <1>1 DEF EventRows, Trades, Trade
<1>3. ~lost /\ ~lossy
  BY DEF Closed
<1>4. closes' = Append(closes, row) /\ perf' = [perf EXCEPT ![s] = Record(@, trade)]
  BY <1>3 DEF Closed
<1> HIDE DEF row, trade
<1>5. TAKE t \in Strategies
<1>6. perf[t] = LastOf(MaxTrades, TradesOf(closes, t))
  BY <1>3 DEF RestartInv, RestartKeepsRecord
<1>7. /\ TradesOf(closes, t) \in Seq(Trades)
      /\ TradesOf(closes', t) = Kept(TradesOf(closes, t), t, row)
  BY <1>1, <1>2, <1>4, TradesOfAppend
<1>8. CASE t = s
  <2>1. perf'[t] = Record(perf[t], trade)
    BY <1>1, <1>4, <1>8
  <2>2. TradesOf(closes', t) = Append(TradesOf(closes, t), trade)
    BY <1>2, <1>7, <1>8 DEF Kept
  <2>3. QED
    BY <1>2, <1>6, <1>7, <2>1, <2>2, RecordOfLast
<1>9. CASE t # s
  BY <1>1, <1>2, <1>4, <1>6, <1>7, <1>9 DEF Kept
<1>10. QED
  BY <1>8, <1>9

\* Every step keeps the records the end of the rows.
LEMMA RestartStep ==
  ASSUME RowsFit
  PROVE  Typed /\ Flags /\ RestartInv /\ [Next]_vars => RestartInv'
<1> SUFFICES ASSUME Typed, Flags, RestartInv, [Next]_vars PROVE RestartInv'
  OBVIOUS
<1>1. closes \in Seq(EventRows) /\ Len(closes) \in Nat /\ MaxRows \in Nat /\ RowLimit \in Nat
  BY GovernanceAssumption DEF Typed
<1>11. faults \in Nat
  BY DEF Flags
<1>2. ASSUME UNCHANGED <<closes, runner, perf, lossy>> PROVE RestartInv'
  BY <1>2 DEF RestartInv, RestartKeepsRecord
<1>3. ASSUME closes' = closes, runner' # "running" PROVE RestartInv'
  BY <1>3 DEF RestartInv, RestartKeepsRecord
<1>4. CASE Backfill
  <2>1. PICK failed \in BOOLEAN :
          /\ lossy' = (lossy \/ failed)
          /\ perf' = [s \in Strategies |->
                        IF failed THEN <<>> ELSE Replayed(closes, RowLimit, s)]
    BY <1>4 DEF Backfill
  <2>2. closes' = closes
    BY <1>4 DEF Backfill
  <2>3. Len(closes) <= RowLimit
    BY <1>1 DEF RestartInv, RowsFit
  <2>4. ASSUME ~lossy', NEW s \in Strategies
        PROVE  perf'[s] = LastOf(MaxTrades, TradesOf(closes', s))
    <3>1. ~failed /\ perf'[s] = Replayed(closes, RowLimit, s)
      BY <2>1, <2>4
    <3>2. QED
      BY <1>1, <2>2, <2>3, <3>1, ReplayOfAll
  <2>5. QED
    BY <2>2, <2>4 DEF RestartInv, RestartKeepsRecord
<1>5. CASE BracketExit \/ ForceFlat
  <2>1. PICK s \in open, pnl \in Pnls, lost \in BOOLEAN : Closed(s, pnl, lost)
    BY <1>5 DEF BracketExit, ForceFlat
  <2>2. /\ runner = "running" /\ runner' = runner
        /\ Len(closes) + faults < MaxRows
    BY <1>5 DEF BracketExit, ForceFlat, processVars
  <2>3. ~lossy' => \A t \in Strategies : perf'[t] = LastOf(MaxTrades, TradesOf(closes', t))
    BY <2>1, <2>2, ClosedKeepsRecord
  <2>4. Len(closes') <= MaxRows
    <3>1. closes' = closes \/ closes' = Append(closes, [strategy |-> s, pnl |-> pnl, day |-> today])
      BY <2>1 DEF Closed
    <3>2. Len(closes') <= Len(closes) + 1
      BY <1>1, <3>1
    <3>3. Len(closes) < MaxRows
      BY <1>1, <1>11, <2>2
    <3>4. QED
      BY <1>1, <3>1, <3>2, <3>3
  <2>5. QED
    BY <2>3, <2>4 DEF RestartInv, RestartKeepsRecord
<1>6. CASE LoadRegistry \/ Stop
  BY <1>3, <1>6 DEF LoadRegistry, Stop, dbVars
<1>7. CASE StartScript \/ PromoteNext \/ RegisterNext \/ UpsertMissing
  BY <1>2, <1>7
     DEF StartScript, PromoteNext, RegisterNext, UpsertMissing, dbVars, processVars, bookVars
<1>8. CASE PhantomSignals \/ LiveSignals \/ NewDay
  BY <1>2, <1>8 DEF PhantomSignals, LiveSignals, NewDay, dbVars, processVars, bookVars
<1>9. CASE UNCHANGED vars
  BY <1>2, <1>9 DEF vars, dbVars, processVars, bookVars
<1>10. QED
  BY <1>4, <1>5, <1>6, <1>7, <1>8, <1>9 DEF Next

(* If the database answers with every row, a restart between any two       *)
(* closes changes no strategy's record, unless a row or the replay was     *)
(* lost.                                                                   *)
(* Code: record_close next to log_event, backfill_from_db.                 *)
THEOREM RestartsKeep ==
  ASSUME RowsFit
  PROVE  Spec => []RestartKeepsRecord
<1>1. Init => RestartInv
  BY GovernanceAssumption DEF Init, RestartInv, RestartKeepsRecord
<1>2. RestartInv => RestartKeepsRecord
  BY DEF RestartInv
<1>3. Typed /\ Flags /\ RestartInv /\ [Next]_vars => RestartInv'
  BY RestartStep
<1>4. QED
  BY <1>1, <1>2, <1>3, AllTyped, PTL DEF Spec
=============================================================================
