-------------------------- MODULE MarketMuxProofs --------------------------
(***************************************************************************)
(* Proofs about MarketMux for every set of tasks, contracts and faults and *)
(* any number of quotes.                                                   *)
(***************************************************************************)
EXTENDS MarketMux, FiniteSetTheorems, WellFoundedInduction, TLAPS

Phases == {"out", "waiting", "connecting", "in"}

\* The part of TypeOK the two arguments need.
Shape ==
  /\ phase \in [Consumers -> Phases]
  /\ started \in BOOLEAN
  /\ subscribed \subseteq Contracts

\* Nobody is in before the connection stands; one task at a time connects, and
\* only while there is no connection.
ConnectionInv ==
  /\ started => connections = 1 /\ LockFree
  /\ ~started => In = {}
  /\ ~started /\ LockFree => connections = 0
  /\ ~LockFree => connections = 1
  /\ \A c, d \in Consumers : phase[c] = "connecting" /\ phase[d] = "connecting" => c = d

\* The mux's own set is exact whatever the hub does; the hub follows it except
\* for what was lost.
SubscriptionInv ==
  /\ \A contract \in Contracts : contract \in subscribed <=> ConsumersOf(contract) # {}
  /\ \A contract \in Contracts \ lost : contract \in hub <=> contract \in subscribed

MuxInv == Shape /\ ConnectionInv /\ SubscriptionInv

\* No task has come at the start.
LEMMA InitMux == Init => MuxInv
BY ConstantsAssumption
DEF Init, MuxInv, Shape, Phases, ConnectionInv, SubscriptionInv, LockFree, In, ConsumersOf

\* A step that moves no task, asks for nothing and opens nothing.
LEMMA Undisturbed ==
  ASSUME MuxInv, UNCHANGED <<phase, started, subscribed, connections>>,
         \/ UNCHANGED <<hub, lost>>
         \/ hub' = {} /\ lost' = lost \cup hub
  PROVE  MuxInv'
<1>1. Shape' /\ ConnectionInv'
  BY DEF MuxInv, Shape, ConnectionInv, LockFree, In
<1>2. SubscriptionInv'
  BY DEF MuxInv, SubscriptionInv, ConsumersOf, In
<1>3. QED
  BY <1>1, <1>2 DEF MuxInv

\* A request leaves the hub in step with the mux for every contract not lost.
LEMMA RequestKeepsStep ==
  ASSUME NEW contract \in Contracts, NEW after,
         \A k \in Contracts \ lost : k \in hub <=> k \in subscribed,
         \A k \in Contracts : k # contract => (k \in after <=> k \in hub),
         \A k \in Contracts : k # contract => (k \in subscribed' <=> k \in subscribed),
         contract \in after <=> contract \in subscribed',
         Request(contract, after)
  PROVE  \A k \in Contracts \ lost' : k \in hub' <=> k \in subscribed'
BY DEF Request

\* A task that subscribes, its contract being new to the mux or not.
LEMMA SubscribeStep ==
  ASSUME MuxInv, NEW c \in Consumers, Subscribe(c), phase[c] # "in"
  PROVE  SubscriptionInv'
<1> DEFINE contract == ContractOf[c]
<1>1. contract \in Contracts
  BY ConstantsAssumption
<1>2. In' = In \cup {c}
  BY DEF Subscribe, In, MuxInv, Shape
<1>3. \A k \in Contracts : ConsumersOf(k)' # {} <=> ConsumersOf(k) # {} \/ k = contract
  BY <1>2 DEF ConsumersOf
<1>4. subscribed' = subscribed \cup {contract}
  BY DEF Subscribe
<1>5. \A k \in Contracts : k \in subscribed' <=> ConsumersOf(k)' # {}
  BY <1>3, <1>4 DEF MuxInv, SubscriptionInv
<1>6. \A k \in Contracts \ lost' : k \in hub' <=> k \in subscribed'
  <2>1. CASE contract \notin subscribed
    <3>1. Request(contract, hub \cup {contract})
      BY <2>1 DEF Subscribe
    <3>2. QED
      BY <1>1, <1>4, <3>1, RequestKeepsStep DEF MuxInv, SubscriptionInv
  <2>2. CASE contract \in subscribed
    BY <1>4, <2>2 DEF Subscribe, MuxInv, SubscriptionInv
  <2>3. QED
    BY <2>1, <2>2
<1>7. QED
  BY <1>5, <1>6 DEF SubscriptionInv

\* Waiting for the lock keeps the invariant.
LEMMA WaitStep ==
  ASSUME MuxInv, NEW c \in Consumers, Wait(c)
  PROVE  MuxInv'
<1>1. In' = In /\ (\A d \in Consumers : phase'[d] = "connecting" <=> phase[d] = "connecting")
  BY DEF Wait, In, MuxInv, Shape
<1>2. Shape'
  BY DEF Wait, MuxInv, Shape, Phases
<1>3. ConnectionInv'
  BY <1>1 DEF Wait, MuxInv, ConnectionInv, LockFree, outside
<1>4. SubscriptionInv'
  BY <1>1 DEF Wait, MuxInv, SubscriptionInv, ConsumersOf, outside
<1>5. QED
  BY <1>2, <1>3, <1>4 DEF MuxInv

\* Starting the connection keeps the invariant.
LEMMA ConnectStep ==
  ASSUME MuxInv, NEW c \in Consumers, Connect(c)
  PROVE  MuxInv'
<1>1. /\ In' = In
      /\ \A d \in Consumers : phase'[d] = "connecting" <=> d = c
  BY DEF Connect, In, LockFree, MuxInv, Shape
<1>2. Shape'
  BY DEF Connect, MuxInv, Shape, Phases
<1>3. connections = 0
  BY DEF Connect, MuxInv, ConnectionInv
<1>4. ConnectionInv'
  BY <1>1, <1>3 DEF Connect, MuxInv, ConnectionInv, LockFree
<1>5. SubscriptionInv'
  BY <1>1 DEF Connect, MuxInv, SubscriptionInv, ConsumersOf
<1>6. QED
  BY <1>2, <1>4, <1>5 DEF MuxInv

\* The end of the handshake keeps the invariant.
LEMMA ConnectedStep ==
  ASSUME MuxInv, NEW c \in Consumers, Connected(c)
  PROVE  MuxInv'
<1>1. \A d \in Consumers : phase'[d] # "connecting"
  BY DEF Connected, Subscribe, MuxInv, Shape, ConnectionInv
<1>2. Shape'
  BY ConstantsAssumption DEF Connected, Subscribe, MuxInv, Shape, Phases
<1>3. connections = 1
  BY DEF Connected, MuxInv, ConnectionInv, LockFree
<1>4. ConnectionInv'
  BY <1>1, <1>3 DEF Connected, Subscribe, ConnectionInv, LockFree
<1>5. SubscriptionInv'
  BY SubscribeStep DEF Connected
<1>6. QED
  BY <1>2, <1>4, <1>5 DEF MuxInv

\* Entering with the connection made keeps the invariant.
LEMMA EnterStep ==
  ASSUME MuxInv, NEW c \in Consumers, Enter(c)
  PROVE  MuxInv'
<1>1. \A d \in Consumers : phase'[d] # "connecting"
  BY DEF Enter, Subscribe, MuxInv, Shape, LockFree
<1>2. Shape'
  BY ConstantsAssumption DEF Enter, Subscribe, MuxInv, Shape, Phases
<1>3. connections = 1
  BY DEF Enter, MuxInv, ConnectionInv
<1>4. ConnectionInv'
  BY <1>1, <1>3 DEF Enter, Subscribe, ConnectionInv, LockFree
<1>5. SubscriptionInv'
  BY SubscribeStep DEF Enter
<1>6. QED
  BY <1>2, <1>4, <1>5 DEF MuxInv

\* The last consumer takes its contract with it; any other leaves it served.
LEMMA LeaveStep ==
  ASSUME MuxInv, NEW c \in Consumers, Leave(c)
  PROVE  MuxInv'
<1> DEFINE contract == ContractOf[c]
<1>1. contract \in Contracts
  BY ConstantsAssumption
<1>2. /\ In' = In \ {c} /\ c \in In
      /\ \A d \in Consumers : phase'[d] = "connecting" <=> phase[d] = "connecting"
  BY DEF Leave, In, MuxInv, Shape
<1>3. Shape'
  BY DEF Leave, MuxInv, Shape, Phases
<1>4. ConnectionInv'
  BY <1>2 DEF Leave, MuxInv, ConnectionInv, LockFree
<1>5. \A k \in Contracts : ConsumersOf(k)' = ConsumersOf(k) \ {c}
  BY <1>2 DEF ConsumersOf
<1>6. c \in ConsumersOf(contract) /\ \A k \in Contracts \ {contract} : c \notin ConsumersOf(k)
  BY <1>2 DEF ConsumersOf
<1>7. SubscriptionInv'
  <2>1. CASE IsLast(c)
    <3>1. subscribed' = subscribed \ {contract} /\ Request(contract, hub \ {contract})
      BY <2>1 DEF Leave
    <3>2. \A k \in Contracts : k \in subscribed' <=> ConsumersOf(k)' # {}
      BY <1>5, <1>6, <2>1, <3>1 DEF IsLast, MuxInv, SubscriptionInv
    <3>3. \A k \in Contracts \ lost' : k \in hub' <=> k \in subscribed'
      BY <1>1, <3>1, RequestKeepsStep DEF MuxInv, SubscriptionInv
    <3>4. QED
      BY <3>2, <3>3 DEF SubscriptionInv
  <2>2. CASE ~IsLast(c)
    <3>1. UNCHANGED <<hub, lost, subscribed>>
      BY <2>2 DEF Leave
    <3>2. ConsumersOf(contract)' # {}
      BY <1>1, <1>5, <1>6, <2>2 DEF IsLast
    <3>3. \A k \in Contracts : ConsumersOf(k)' # {} <=> ConsumersOf(k) # {}
      BY <1>5, <1>6, <3>2
    <3>4. QED
      BY <3>1, <3>3 DEF MuxInv, SubscriptionInv
  <2>3. QED
    BY <2>1, <2>2
<1>8. QED
  BY <1>3, <1>4, <1>7 DEF MuxInv

\* Every step keeps the invariant.
LEMMA StepMux == MuxInv /\ [Next]_vars => MuxInv'
<1> SUFFICES ASSUME MuxInv, [Next]_vars PROVE MuxInv'
  OBVIOUS
<1>1. CASE UNCHANGED vars
  BY <1>1, Undisturbed DEF vars, tasks, outside
<1>2. ASSUME NEW c \in Consumers, Task(c) PROVE MuxInv'
  <2>1. CASE Take(c)
    BY <2>1, Undisturbed DEF Take, tasks, outside
  <2>2. QED
    BY <1>2, <2>1, WaitStep, ConnectStep, ConnectedStep, EnterStep, LeaveStep DEF Task
<1>3. ASSUME NEW c \in Consumers, HandOver(c) PROVE MuxInv'
  BY <1>3, Undisturbed DEF HandOver, tasks, outside
<1>4. ASSUME NEW contract \in Contracts, OnQuote(contract) PROVE MuxInv'
  BY <1>4, Undisturbed DEF OnQuote, tasks, outside
<1>5. CASE RunHandle
  BY <1>5, Undisturbed DEF RunHandle, tasks, outside
<1>6. CASE Reconnect
  BY <1>6, Undisturbed DEF Reconnect, tasks
<1>7. QED
  BY <1>1, <1>2, <1>3, <1>4, <1>5, <1>6 DEF Next

\* The invariant holds in every state.
LEMMA MuxSafe == Spec => []MuxInv
BY InitMux, StepMux, PTL DEF Spec

\* However many tasks start together and whoever waits at the lock, one
\* connection is opened (projectx.py 393-416).
THEOREM OneConnectionSafe == Spec => []OneConnection
<1>1. MuxInv => OneConnection
  BY DEF MuxInv, Shape, ConnectionInv, OneConnection
<1>2. QED
  BY <1>1, MuxSafe, PTL

\* In every order of joins, leaves, suppressed failures and reconnects, the hub
\* serves exactly the contracts that have a consumer and were not hit by a
\* fault since the last request about them (projectx.py 507-527).
THEOREM HubSafe == Spec => []HubServesConsumers
<1>1. MuxInv => HubServesConsumers
  BY DEF MuxInv, SubscriptionInv, HubServesConsumers
<1>2. QED
  BY <1>1, MuxSafe, PTL
-----------------------------------------------------------------------------
(* Folds over a sequence, by induction on its prefixes.                    *)

\* A set of numbers that is not empty has a least one.
LEMMA LeastNatural ==
  ASSUME NEW T \in SUBSET Nat, T # {}
  PROVE  \E n \in T : \A k \in T : n <= k
<1> DEFINE R == OpToRel(<, Nat)
<1>1. IsWellFoundedOn(R, Nat)
  BY NatLessThanWellFounded
<1>2. \A k, n \in Nat : <<k, n>> \in R <=> k < n
  BY DEF OpToRel
<1> HIDE DEF R
<1>3. PICK n \in T : \A k \in T : <<k, n>> \notin R
  BY <1>1, WFMin
<1>4. \A k \in T : n \in Nat /\ k \in Nat /\ ~(k < n)
  BY <1>2, <1>3
<1>5. QED
  BY <1>4

\* Induction up to a number.
LEMMA UpTo ==
  ASSUME NEW n \in Nat, NEW G, 0 \in G, \A i \in 1..n : i - 1 \in G => i \in G
  PROVE  \A i \in 0..n : i \in G
<1> DEFINE Bad == {i \in 0..n : i \notin G}
<1> SUFFICES ASSUME Bad # {} PROVE FALSE
  OBVIOUS
<1>1. Bad \in SUBSET Nat
  OBVIOUS
<1> HIDE DEF Bad
<1>2. PICK i \in Bad : \A k \in Bad : i <= k
  BY <1>1, LeastNatural
<1>3. i \in 0..n /\ i \notin G
  BY DEF Bad
<1>4. i \in 1..n
  BY <1>3
<1>5. i - 1 \in 0..n /\ ~(i <= i - 1)
  BY <1>4
<1>6. i - 1 \in G
  BY <1>2, <1>5 DEF Bad
<1>7. QED
  BY <1>3, <1>4, <1>6

\* The largest of the first numbers, and the rest.
LEMMA Largest ==
  /\ \A i \in Nat \ {0} : Max(1..i) = i /\ (1..i) \ {i} = 1..(i - 1)
  /\ \A i \in Nat : \A s \in SUBSET (1..(i + 1)) : i + 1 \in s => Max(s) = i + 1
<1>1. ASSUME NEW S \in SUBSET Nat, NEW i \in S, \A k \in S : k <= i PROVE Max(S) = i
  <2>1. \A x \in S : (\A y \in S : x >= y) <=> x = i
    BY <1>1
  <2>2. QED
    BY <2>1 DEF Max
<1>2. ASSUME NEW i \in Nat \ {0} PROVE Max(1..i) = i /\ (1..i) \ {i} = 1..(i - 1)
  BY <1>1
<1>3. ASSUME NEW i \in Nat, NEW s \in SUBSET (1..(i + 1)), i + 1 \in s
      PROVE  Max(s) = i + 1
  BY <1>1, <1>3
<1>4. QED
  BY <1>2, <1>3

(* A fold over positions 1 to n, the results being in A: step[i] is applied *)
(* at position i.  The function the fold is defined by exists.             *)
Steps(step, n, A) == \A i \in 1..n : \A a \in A : step[i][a] \in A

Folds(g, n, base, step) ==
  \A s \in SUBSET (1..n) :
    g[s] = IF s = {} THEN base ELSE step[Max(s)][g[s \ {Max(s)}]]

\* A fold over the first n numbers exists.
LEMMA FoldExists ==
  ASSUME NEW n \in Nat, NEW A, NEW base \in A, NEW step, Steps(step, n, A)
  PROVE  \E g \in [SUBSET (1..n) -> A] : Folds(g, n, base, step)
<1> DEFINE G == {k \in 0..n : \E g \in [SUBSET (1..k) -> A] : Folds(g, k, base, step)}
<1>1. 0 \in G
  <2>1. [s \in SUBSET (1..0) |-> base] \in [SUBSET (1..0) -> A]
    OBVIOUS
  <2>2. \A s \in SUBSET (1..0) : s = {}
    OBVIOUS
  <2>3. Folds([s \in SUBSET (1..0) |-> base], 0, base, step)
    BY <2>2 DEF Folds
  <2>4. QED
    BY <2>1, <2>3
<1>2. ASSUME NEW i \in 1..n, i - 1 \in G PROVE i \in G
  <2>1. PICK g \in [SUBSET (1..(i - 1)) -> A] : Folds(g, i - 1, base, step)
    BY <1>2
  <2> DEFINE f == [s \in SUBSET (1..i) |->
                     IF i \in s THEN step[i][g[s \ {i}]] ELSE g[s]]
  <2>2. ASSUME NEW s \in SUBSET (1..i), i \in s
        PROVE  /\ s \ {i} \in SUBSET (1..(i - 1)) /\ s \ {i} \in SUBSET (1..i)
               /\ Max(s) = i
    <3> DEFINE j == i - 1
    <3>1. j \in Nat /\ j + 1 = i
      OBVIOUS
    <3>2. s \in SUBSET (1..(j + 1)) /\ j + 1 \in s
      BY <2>2, <3>1
    <3> HIDE DEF j
    <3>3. Max(s) = i
      BY <3>1, <3>2, Largest
    <3>4. s \ {i} \in SUBSET (1..(i - 1))
      OBVIOUS
    <3>5. QED
      BY <3>3, <3>4
  <2>3. ASSUME NEW s \in SUBSET (1..i), i \notin s PROVE s \in SUBSET (1..(i - 1))
    BY <2>3
  <2>4. f \in [SUBSET (1..i) -> A]
    <3>1. ASSUME NEW s \in SUBSET (1..i) PROVE f[s] \in A
      <4>1. CASE i \in s
        BY <2>2, <4>1 DEF Steps
      <4>2. CASE i \notin s
        BY <2>3, <4>2
      <4>3. QED
        BY <4>1, <4>2
    <3>2. QED
      BY <3>1
  <2>5. ASSUME NEW s \in SUBSET (1..i)
        PROVE  f[s] = IF s = {} THEN base ELSE step[Max(s)][f[s \ {Max(s)}]]
    <3>1. CASE i \in s
      <4>1. f[s \ {i}] = g[s \ {i}] /\ Max(s) = i /\ s # {}
        BY <2>2, <3>1
      <4>2. QED
        BY <3>1, <4>1
    <3>2. CASE i \notin s
      <4>1. s \in SUBSET (1..(i - 1)) /\ f[s] = g[s]
        BY <2>3, <3>2
      <4>2. s \ {Max(s)} \in SUBSET (1..i) /\ i \notin s \ {Max(s)}
        BY <3>2
      <4>3. f[s \ {Max(s)}] = g[s \ {Max(s)}]
        BY <4>2
      <4> HIDE DEF f
      <4>4. QED
        BY <2>1, <4>1, <4>3 DEF Folds
    <3>3. QED
      BY <3>1, <3>2
  <2> HIDE DEF f
  <2>6. Folds(f, i, base, step)
    BY <2>5 DEF Folds
  <2>7. QED
    BY <2>4, <2>6
<1> HIDE DEF G
<1>3. n \in G
  BY <1>1, <1>2, UpTo
<1>4. QED
  BY <1>3 DEF G

\* A set of such numbers that is not empty has a largest one.
LEMMA LargestIn ==
  ASSUME NEW n \in Nat, NEW s \in SUBSET (1..n), s # {}
  PROVE  Max(s) \in 1..n /\ s \ {Max(s)} \in SUBSET (1..n)
<1> DEFINE T == {n - k : k \in s}
<1>1. T \in SUBSET Nat /\ T # {}
  <2>1. \A k \in s : n - k \in Nat
    OBVIOUS
  <2>2. QED
    BY <2>1
<1> HIDE DEF T
<1>2. PICK m \in T : \A k \in T : m <= k
  BY <1>1, LeastNatural
<1>3. PICK j \in s : m = n - j
  BY <1>2 DEF T
<1>4. \A k \in s : n - k \in T
  BY DEF T
<1>5. \A k \in s : j >= k
  BY <1>2, <1>3, <1>4
<1>6. Max(s) \in s
  BY <1>5 DEF Max
<1>7. QED
  BY <1>6

\* What a fold returns is the last of the results for the prefixes.
Continues(h, n, A, step) ==
  \A s \in SUBSET (1..n) :
    s # {} /\ h[s \ {Max(s)}] \in A => h[s] = step[Max(s)][h[s \ {Max(s)}]]

\* Any function that unfolds like the fold does so along the prefixes.
LEMMA FoldPrefixes ==
  ASSUME NEW n \in Nat, NEW A, NEW base \in A, NEW step, Steps(step, n, A), NEW h,
         h[{}] = base, Continues(h, n, A, step)
  PROVE  /\ h[1..0] = base
         /\ \A i \in 0..n : h[1..i] \in A
         /\ \A i \in 1..n : h[1..i] = step[i][h[1..(i - 1)]]
<1> DEFINE f == [i \in 0..n |-> h[1..i]]
           G == {i \in 0..n : f[i] \in A}
<1>1. f[0] = base
  <2>1. 1..0 = {}
    OBVIOUS
  <2>2. QED
    BY <2>1
<1>2. ASSUME NEW i \in 1..n, f[i - 1] \in A PROVE f[i] = step[i][f[i - 1]] /\ f[i] \in A
  <2>1. 1..i \in SUBSET (1..n) /\ 1..i # {} /\ i \in Nat \ {0}
    OBVIOUS
  <2>2. Max(1..i) = i /\ (1..i) \ {i} = 1..(i - 1)
    BY <2>1, Largest
  <2>3. f[i - 1] = h[1..(i - 1)] /\ f[i] = h[1..i]
    OBVIOUS
  <2> HIDE DEF f
  <2>4. f[i] = step[i][f[i - 1]]
    BY <1>2, <2>1, <2>2, <2>3 DEF Continues
  <2>5. QED
    BY <1>2, <2>4 DEF Steps
<1>3. 0 \in G
  BY <1>1
<1>4. ASSUME NEW i \in 1..n, i - 1 \in G PROVE i \in G
  <2>1. i \in 0..n /\ f[i - 1] \in A
    BY <1>4
  <2> HIDE DEF f
  <2>2. QED
    BY <1>2, <2>1
<1> HIDE DEF f
<1>5. \A i \in 0..n : f[i] \in A
  <2> HIDE DEF G
  <2>1. \A i \in 0..n : i \in G
    BY <1>3, <1>4, UpTo
  <2>2. QED
    BY <2>1 DEF G
<1>6. ASSUME NEW i \in 1..n PROVE f[i] = step[i][f[i - 1]]
  <2>1. i - 1 \in 0..n
    OBVIOUS
  <2>2. QED
    BY <1>2, <1>5, <2>1
<1>7. \A i \in 1..n : i - 1 \in 0..n /\ i \in 0..n
  OBVIOUS
<1>8. ASSUME NEW i \in 1..n PROVE h[1..i] = step[i][h[1..(i - 1)]]
  <2>1. f[i] = h[1..i] /\ f[i - 1] = h[1..(i - 1)]
    BY <1>7 DEF f
  <2>2. QED
    BY <1>6, <2>1
<1>9. h[1..0] = base /\ \A i \in 0..n : h[1..i] \in A
  BY <1>1, <1>5 DEF f
<1>10. QED
  BY <1>8, <1>9
-----------------------------------------------------------------------------
(* What the loop makes of the calls that wait.                             *)

Calls == [to : Consumers, quote : Quotes]

Put(c, q, h) == IF h.to = c THEN Append(q, h.quote) ELSE q
Keep(c, kept, h) == IF h.to = c THEN kept ELSE Append(kept, h)
Kept(c, calls) ==
  FoldLeft(LAMBDA kept, h : IF h.to = c THEN kept ELSE Append(kept, h), <<>>, calls)

\* The queue of a task after each of the calls.
Runs(f, c, q, calls) ==
  /\ \A i \in 0..Len(calls) : f[i] \in Seq(Quotes)
  /\ f[0] = q /\ f[Len(calls)] = Run(c, q, calls)
  /\ \A i \in 1..Len(calls) : f[i] = Put(c, f[i - 1], calls[i])

\* A run of callbacks can be followed call by call.
LEMMA RunPrefixes ==
  ASSUME NEW c, NEW q \in Seq(Quotes), NEW calls \in Seq(Calls)
  PROVE  \E f : Runs(f, c, q, calls)
<1> DEFINE n == Len(calls)
           A == Seq(Quotes)
           step == [i \in 1..n |-> [r \in A |-> Put(c, r, calls[i])]]
<1>1. n \in Nat /\ DOMAIN calls = 1..n /\ \A i \in 1..n : calls[i] \in Calls
  OBVIOUS
<1>2. \A r \in A, h \in Calls : Put(c, r, h) \in A
  BY DEF Put, Calls
<1>3. q \in A
  OBVIOUS
<1>4. /\ Steps(step, n, A)
      /\ \A r \in A, i \in 1..n : step[i][r] = Put(c, r, calls[i])
  BY <1>1, <1>2 DEF Steps
<1> HIDE DEF step, A
<1>5. PICK g \in [SUBSET (1..n) -> A] : Folds(g, n, q, step)
  BY <1>1, <1>3, <1>4, FoldExists
<1> DEFINE Body(h, s) == IF s = {} THEN q
                         ELSE IF calls[Max(s)].to = c
                         THEN Append(h[s \ {Max(s)}], calls[Max(s)].quote)
                         ELSE h[s \ {Max(s)}]
           Unfolds(h) == h = [s \in SUBSET (1..n) |-> Body(h, s)]
<1>6. \A s \in SUBSET (1..n) : s # {} => Max(s) \in 1..n /\ s \ {Max(s)} \in SUBSET (1..n)
  BY <1>1, LargestIn
<1>7. \A s \in SUBSET (1..n) : g[s] = Body(g, s)
  BY <1>4, <1>5, <1>6 DEF Folds, Put
<1>8. Unfolds(g)
  <2> HIDE DEF Body
  <2>1. g = [s \in SUBSET (1..n) |-> g[s]]
    OBVIOUS
  <2>2. QED
    BY <1>7, <2>1
<1> DEFINE h == CHOOSE h : Unfolds(h)
<1>9. Unfolds(h)
  BY <1>8
<1>10. Run(c, q, calls) = h[1..n]
  BY <1>1 DEF Run, FoldLeft, MapThenFoldSet
<1> HIDE DEF h
<1>11. h[{}] = q
  BY <1>9
<1>12. ASSUME NEW s \in SUBSET (1..n), s # {}, h[s \ {Max(s)}] \in A
       PROVE  h[s] = step[Max(s)][h[s \ {Max(s)}]]
  <2>1. h[s] = Body(h, s)
    BY <1>9
  <2>2. QED
    BY <1>4, <1>6, <1>12, <2>1 DEF Put
<1> HIDE DEF n, Body, Unfolds
<1>13. Continues(h, n, A, step)
  BY <1>12 DEF Continues
<1>14. n \in Nat /\ Steps(step, n, A)
  BY <1>1, <1>4
<1>15. /\ h[1..0] = q
       /\ \A i \in 0..n : h[1..i] \in A
       /\ \A i \in 1..n : h[1..i] = step[i][h[1..(i - 1)]]
  BY <1>3, <1>11, <1>13, <1>14, FoldPrefixes
<1> DEFINE f == [i \in 0..n |-> h[1..i]]
<1>16. f \in [0..n -> A] /\ f[0] = q /\ f[n] = Run(c, q, calls)
  BY <1>10, <1>14, <1>15
<1>17. \A i \in 1..n : f[i] = Put(c, f[i - 1], calls[i])
  BY <1>4, <1>14, <1>15
<1> HIDE DEF f
<1>18. \A i \in 0..n : f[i] \in A
  BY <1>16
<1>19. QED
  BY <1>16, <1>17, <1>18 DEF Runs, A, n

\* The calls kept after each of them.
Keeps(f, c, calls) ==
  /\ \A i \in 0..Len(calls) : f[i] \in Seq(Calls)
  /\ f[0] = <<>> /\ f[Len(calls)] = Kept(c, calls)
  /\ \A i \in 1..Len(calls) : f[i] = Keep(c, f[i - 1], calls[i])

\* What a task has yet to receive can be followed call by call.
LEMMA KeptPrefixes ==
  ASSUME NEW c, NEW calls \in Seq(Calls)
  PROVE  \E f : Keeps(f, c, calls)
<1> DEFINE n == Len(calls)
           A == Seq(Calls)
           step == [i \in 1..n |-> [r \in A |-> Keep(c, r, calls[i])]]
<1>1. n \in Nat /\ DOMAIN calls = 1..n /\ \A i \in 1..n : calls[i] \in Calls
  OBVIOUS
<1>2. \A r \in A, h \in Calls : Keep(c, r, h) \in A
  BY DEF Keep
<1>3. <<>> \in A
  OBVIOUS
<1>4. /\ Steps(step, n, A)
      /\ \A r \in A, i \in 1..n : step[i][r] = Keep(c, r, calls[i])
  BY <1>1, <1>2 DEF Steps
<1> HIDE DEF step, A
<1>5. PICK g \in [SUBSET (1..n) -> A] : Folds(g, n, <<>>, step)
  BY <1>1, <1>3, <1>4, FoldExists
<1> DEFINE Body(h, s) == IF s = {} THEN <<>>
                         ELSE IF calls[Max(s)].to = c THEN h[s \ {Max(s)}]
                         ELSE Append(h[s \ {Max(s)}], calls[Max(s)])
           Unfolds(h) == h = [s \in SUBSET (1..n) |-> Body(h, s)]
<1>6. \A s \in SUBSET (1..n) : s # {} => Max(s) \in 1..n /\ s \ {Max(s)} \in SUBSET (1..n)
  BY <1>1, LargestIn
<1>7. \A s \in SUBSET (1..n) : g[s] = Body(g, s)
  BY <1>4, <1>5, <1>6 DEF Folds, Keep
<1>8. Unfolds(g)
  <2> HIDE DEF Body
  <2>1. g = [s \in SUBSET (1..n) |-> g[s]]
    OBVIOUS
  <2>2. QED
    BY <1>7, <2>1
<1> DEFINE h == CHOOSE h : Unfolds(h)
<1>9. Unfolds(h)
  BY <1>8
<1>10. Kept(c, calls) = h[1..n]
  BY <1>1 DEF Kept, FoldLeft, MapThenFoldSet
<1> HIDE DEF h
<1>11. h[{}] = <<>>
  BY <1>9
<1>12. ASSUME NEW s \in SUBSET (1..n), s # {}, h[s \ {Max(s)}] \in A
       PROVE  h[s] = step[Max(s)][h[s \ {Max(s)}]]
  <2>1. h[s] = Body(h, s)
    BY <1>9
  <2>2. QED
    BY <1>4, <1>6, <1>12, <2>1 DEF Keep
<1> HIDE DEF n, Body, Unfolds
<1>13. Continues(h, n, A, step)
  BY <1>12 DEF Continues
<1>14. n \in Nat /\ Steps(step, n, A)
  BY <1>1, <1>4
<1>15. /\ h[1..0] = <<>>
       /\ \A i \in 0..n : h[1..i] \in A
       /\ \A i \in 1..n : h[1..i] = step[i][h[1..(i - 1)]]
  BY <1>3, <1>11, <1>13, <1>14, FoldPrefixes
<1> DEFINE f == [i \in 0..n |-> h[1..i]]
<1>16. f \in [0..n -> A] /\ f[0] = <<>> /\ f[n] = Kept(c, calls)
  BY <1>10, <1>14, <1>15
<1>17. \A i \in 1..n : f[i] = Keep(c, f[i - 1], calls[i])
  <2> SUFFICES ASSUME NEW i \in 1..n PROVE f[i] = Keep(c, f[i - 1], calls[i])
    OBVIOUS
  <2>1. i \in 0..n /\ i - 1 \in 0..n /\ (i - 1) + 1 = i
    BY <1>14
  <2>2. f[i] = h[1..i] /\ f[i - 1] = h[1..(i - 1)] /\ f[i - 1] \in A
    BY <1>15, <2>1
  <2>3. h[1..i] = step[i][h[1..(i - 1)]]
    BY <1>15
  <2>4. step[i][f[i - 1]] = Keep(c, f[i - 1], calls[i])
    BY <1>4, <2>2
  <2>5. QED
    BY <2>2, <2>3, <2>4
<1> HIDE DEF f
<1>18. \A i \in 0..n : f[i] \in A
  BY <1>16
<1>19. QED
  BY <1>16, <1>17, <1>18 DEF Keeps, A, n

\* Without calls the queue stays as it is.
LEMMA RunEmpty == ASSUME NEW c, NEW q \in Seq(Quotes) PROVE Run(c, q, <<>>) = q
<1>1. <<>> \in Seq(Calls) /\ Len(<<>>) = 0
  OBVIOUS
<1>2. PICK f : Runs(f, c, q, <<>>)
  BY <1>1, RunPrefixes
<1>3. QED
  BY <1>1, <1>2 DEF Runs

\* A queue holds quotes.
LEMMA RunTyped ==
  ASSUME NEW c, NEW q \in Seq(Quotes), NEW calls \in Seq(Calls)
  PROVE  Run(c, q, calls) \in Seq(Quotes)
<1>1. PICK f : Runs(f, c, q, calls)
  BY RunPrefixes
<1>2. Len(calls) \in 0..Len(calls)
  OBVIOUS
<1>3. QED
  BY <1>1, <1>2 DEF Runs

\* One more call at the end.
LEMMA RunAppend ==
  ASSUME NEW c, NEW q \in Seq(Quotes), NEW calls \in Seq(Calls), NEW h \in Calls
  PROVE  Run(c, q, Append(calls, h)) = Put(c, Run(c, q, calls), h)
<1> DEFINE n == Len(calls)
           more == Append(calls, h)
<1>1. PICK f : Runs(f, c, q, calls)
  BY RunPrefixes
<1>2. /\ \A i \in 0..n : f[i] \in Seq(Quotes)
      /\ f[0] = q /\ f[n] = Run(c, q, calls)
      /\ \A i \in 1..n : f[i] = Put(c, f[i - 1], calls[i])
  BY <1>1 DEF Runs
<1>3. /\ more \in Seq(Calls) /\ Len(more) = n + 1 /\ n \in Nat
      /\ more[n + 1] = h /\ \A i \in 1..n : more[i] = calls[i]
  OBVIOUS
<1> HIDE DEF n, more
<1>4. PICK g : Runs(g, c, q, more)
  BY <1>3, RunPrefixes
<1>5. /\ \A i \in 0..(n + 1) : g[i] \in Seq(Quotes)
      /\ g[0] = q /\ g[n + 1] = Run(c, q, more)
      /\ \A i \in 1..(n + 1) : g[i] = Put(c, g[i - 1], more[i])
  BY <1>4, <1>3 DEF Runs
<1> DEFINE G == {i \in 0..n : g[i] = f[i]}
<1>6. 0 \in G
  BY <1>2, <1>3, <1>5
<1>7. ASSUME NEW i \in 1..n, i - 1 \in G PROVE i \in G
  <2>1. i \in 1..(n + 1) /\ i \in 0..n
    BY <1>3
  <2>2. QED
    BY <1>2, <1>3, <1>5, <1>7, <2>1
<1> HIDE DEF G
<1>8. n \in G
  <2>1. \A i \in 0..n : i \in G
    BY <1>3, <1>6, <1>7, UpTo
  <2>2. n \in 0..n
    BY <1>3
  <2>3. QED
    BY <2>1, <2>2
<1>9. n + 1 \in 1..(n + 1) /\ (n + 1) - 1 = n
  BY <1>3
<1>10. g[n + 1] = Put(c, g[n], more[n + 1])
  BY <1>5, <1>9
<1>11. QED
  BY <1>2, <1>3, <1>5, <1>8, <1>10 DEF G, more

\* The loop runs the first call.
LEMMA RunFirst ==
  ASSUME NEW c, NEW q \in Seq(Quotes), NEW calls \in Seq(Calls), calls # <<>>
  PROVE  Run(c, q, calls) = Run(c, Put(c, q, Head(calls)), Tail(calls))
<1> DEFINE n == Len(Tail(calls))
           first == Put(c, q, Head(calls))
           later == Tail(calls)
<1>1. /\ n \in Nat /\ Len(calls) = n + 1 /\ later \in Seq(Calls) /\ Len(later) = n
      /\ Head(calls) = calls[1] /\ Head(calls) \in Calls
      /\ \A i \in 1..n : later[i] = calls[i + 1]
  OBVIOUS
<1>2. first \in Seq(Quotes)
  BY <1>1 DEF Put, Calls
<1> HIDE DEF n, later, first
<1>3. PICK f : Runs(f, c, q, calls)
  BY <1>1, RunPrefixes
<1>4. /\ \A i \in 0..(n + 1) : f[i] \in Seq(Quotes)
      /\ f[0] = q /\ f[n + 1] = Run(c, q, calls)
      /\ \A i \in 1..(n + 1) : f[i] = Put(c, f[i - 1], calls[i])
  BY <1>3, <1>1 DEF Runs
<1>5. PICK g : Runs(g, c, first, later)
  BY <1>1, <1>2, RunPrefixes
<1>6. /\ \A i \in 0..n : g[i] \in Seq(Quotes)
      /\ g[0] = first /\ g[n] = Run(c, first, later)
      /\ \A i \in 1..n : g[i] = Put(c, g[i - 1], later[i])
  BY <1>5, <1>1, <1>2 DEF Runs
<1> DEFINE G == {i \in 0..n : g[i] = f[i + 1]}
<1>7. 0 \in G
  <2>1. 1 \in 1..(n + 1) /\ 0 \in 0..n /\ 1 - 1 = 0 /\ 0 + 1 = 1
    BY <1>1
  <2>2. f[1] = Put(c, f[0], calls[1])
    BY <1>4, <2>1
  <2>3. g[0] = f[1]
    BY <1>1, <1>4, <1>6, <2>2 DEF first
  <2>4. QED
    BY <2>1, <2>3
<1>8. ASSUME NEW i \in 1..n, i - 1 \in G PROVE i \in G
  <2>1. i + 1 \in 1..(n + 1) /\ i \in 0..n /\ (i + 1) - 1 = i /\ (i - 1) + 1 = i
    BY <1>1
  <2>2. f[i + 1] = Put(c, f[i], calls[i + 1])
    BY <1>4, <2>1
  <2>3. g[i] = Put(c, g[i - 1], calls[i + 1])
    BY <1>1, <1>6
  <2>4. g[i - 1] = f[i]
    BY <1>8, <2>1
  <2>5. QED
    BY <2>1, <2>2, <2>3, <2>4
<1> HIDE DEF G
<1>9. n \in G
  <2>1. \A i \in 0..n : i \in G
    BY <1>1, <1>7, <1>8, UpTo
  <2>2. n \in 0..n
    BY <1>1
  <2>3. QED
    BY <2>1, <2>2
<1>10. QED
  BY <1>4, <1>6, <1>9 DEF G, later, first

\* The tail of a longer sequence.
LEMMA TailOfAppend ==
  ASSUME NEW S, NEW r \in Seq(S), r # <<>>, NEW x \in S
  PROVE  Append(r, x) # <<>> /\ Tail(Append(r, x)) = Append(Tail(r), x)
<1>1. Append(r, x) # <<>>
  OBVIOUS
<1>2. /\ Tail(Append(r, x)) \in Seq(S) /\ Append(Tail(r), x) \in Seq(S)
      /\ Len(Tail(Append(r, x))) = Len(Append(Tail(r), x))
  BY <1>1
<1>3. \A i \in 1..Len(Append(Tail(r), x)) :
        Tail(Append(r, x))[i] = Append(Tail(r), x)[i]
  OBVIOUS
<1>4. QED
  BY <1>1, <1>2, <1>3

\* Taking the oldest quote first or last makes no difference.
LEMMA RunTake ==
  ASSUME NEW c, NEW q \in Seq(Quotes), NEW calls \in Seq(Calls), q # <<>>
  PROVE  /\ Run(c, q, calls) # <<>>
         /\ Run(c, Tail(q), calls) = Tail(Run(c, q, calls))
<1> DEFINE n == Len(calls)
<1>1. n \in Nat /\ Tail(q) \in Seq(Quotes) /\ \A i \in 1..n : calls[i] \in Calls
  OBVIOUS
<1>2. PICK f : Runs(f, c, q, calls)
  BY RunPrefixes
<1>3. /\ \A i \in 0..n : f[i] \in Seq(Quotes)
      /\ f[0] = q /\ f[n] = Run(c, q, calls)
      /\ \A i \in 1..n : f[i] = Put(c, f[i - 1], calls[i])
  BY <1>2 DEF Runs
<1>4. PICK g : Runs(g, c, Tail(q), calls)
  BY <1>1, RunPrefixes
<1>5. /\ \A i \in 0..n : g[i] \in Seq(Quotes)
      /\ g[0] = Tail(q) /\ g[n] = Run(c, Tail(q), calls)
      /\ \A i \in 1..n : g[i] = Put(c, g[i - 1], calls[i])
  BY <1>4, <1>1 DEF Runs
<1> HIDE DEF n
<1> DEFINE G == {i \in 0..n : f[i] # <<>> /\ g[i] = Tail(f[i])}
<1>6. 0 \in G
  <2>1. 0 \in 0..n /\ f[0] = q /\ g[0] = Tail(q)
    BY <1>1, <1>3, <1>5
  <2>2. QED
    BY <2>1
<1>7. ASSUME NEW i \in 1..n, i - 1 \in G PROVE i \in G
  <2>1. i - 1 \in 0..n /\ i \in 0..n /\ calls[i] \in Calls
    BY <1>1
  <2>2. PICK r \in Seq(Quotes) : r = f[i - 1]
    BY <1>3, <2>1
  <2>3. r # <<>> /\ g[i - 1] = Tail(r)
    BY <1>7, <2>2
  <2>4. f[i] = Put(c, r, calls[i]) /\ g[i] = Put(c, Tail(r), calls[i])
    BY <1>3, <1>5, <2>2, <2>3
  <2>5. calls[i].quote \in Quotes
    BY <2>1 DEF Calls
  <2>6. \A x \in Quotes : Append(r, x) # <<>> /\ Tail(Append(r, x)) = Append(Tail(r), x)
    BY <2>3, TailOfAppend
  <2>7. QED
    BY <2>1, <2>3, <2>4, <2>5, <2>6 DEF Put
<1> HIDE DEF G
<1>8. n \in G
  <2>1. \A i \in 0..n : i \in G
    BY <1>1, <1>6, <1>7, UpTo
  <2>2. n \in 0..n
    BY <1>1
  <2>3. QED
    BY <2>1, <2>2
<1>9. QED
  BY <1>3, <1>5, <1>8 DEF G

\* A task that leaves takes its own calls with it and nobody else's.
LEMMA RunKept ==
  ASSUME NEW c, NEW d, NEW q \in Seq(Quotes), NEW calls \in Seq(Calls)
  PROVE  /\ Kept(c, calls) \in Seq(Calls)
         /\ Run(d, q, Kept(c, calls)) = IF d = c THEN q ELSE Run(d, q, calls)
<1> DEFINE n == Len(calls)
<1>1. n \in Nat /\ \A i \in 1..n : calls[i] \in Calls
  OBVIOUS
<1>2. PICK f : Runs(f, d, q, calls)
  BY RunPrefixes
<1>3. /\ \A i \in 0..n : f[i] \in Seq(Quotes)
      /\ f[0] = q /\ f[n] = Run(d, q, calls)
      /\ \A i \in 1..n : f[i] = Put(d, f[i - 1], calls[i])
  BY <1>2 DEF Runs
<1>4. PICK k : Keeps(k, c, calls)
  BY KeptPrefixes
<1>5. /\ \A i \in 0..n : k[i] \in Seq(Calls)
      /\ k[0] = <<>> /\ k[n] = Kept(c, calls)
      /\ \A i \in 1..n : k[i] = Keep(c, k[i - 1], calls[i])
  BY <1>4 DEF Keeps
<1> HIDE DEF n
<1> DEFINE G == {i \in 0..n : Run(d, q, k[i]) = IF d = c THEN q ELSE f[i]}
<1>6. 0 \in G
  BY <1>1, <1>3, <1>5, RunEmpty
<1>7. ASSUME NEW i \in 1..n, i - 1 \in G PROVE i \in G
  <2>1. i - 1 \in 0..n /\ i \in 0..n /\ calls[i] \in Calls
    BY <1>1
  <2>2. PICK r \in Seq(Calls) : r = k[i - 1]
    BY <1>5, <2>1
  <2>3. Run(d, q, r) = IF d = c THEN q ELSE f[i - 1]
    BY <1>7, <2>2
  <2>4. f[i] = Put(d, f[i - 1], calls[i]) /\ k[i] = Keep(c, r, calls[i])
    BY <1>3, <1>5, <2>2
  <2>5. Run(d, q, Append(r, calls[i])) = Put(d, Run(d, q, r), calls[i])
    BY <2>1, RunAppend
  <2>6. CASE calls[i].to = c
    BY <2>1, <2>3, <2>4, <2>6 DEF Keep, Put
  <2>7. CASE calls[i].to # c
    BY <2>1, <2>3, <2>4, <2>5, <2>7 DEF Keep, Put
  <2>8. QED
    BY <2>6, <2>7
<1> HIDE DEF G
<1>8. n \in G
  <2>1. \A i \in 0..n : i \in G
    BY <1>1, <1>6, <1>7, UpTo
  <2>2. n \in 0..n
    BY <1>1
  <2>3. QED
    BY <2>1, <2>2
<1>9. n \in 0..n
  BY <1>1
<1>10. QED
  BY <1>3, <1>5, <1>8, <1>9 DEF G
-----------------------------------------------------------------------------
(* Types, and the feed each task sees.                                     *)

\* A quote being handed over has a number.
Delivering == TypeOK /\ (rest # {} => callback.number \in Quotes)

\* There is nothing to deliver at the start.
LEMMA InitDelivering == Init => Delivering
<1> SUFFICES ASSUME Init PROVE Delivering
  OBVIOUS
<1>1. callback \in [number : 0..MaxQuotes, names : SUBSET Contracts]
  BY ConstantsAssumption DEF Init
<1>2. /\ handles \in Seq([to : Consumers, quote : Quotes])
      /\ queue \in [Consumers -> Seq(Quotes)]
      /\ phase \in [Consumers -> {"out", "waiting", "connecting", "in"}]
  BY DEF Init
<1>3. /\ started \in BOOLEAN /\ keys \subseteq Contracts /\ subscribed \subseteq keys
      /\ rest \subseteq Consumers /\ hub \subseteq Contracts /\ lost \subseteq Contracts
      /\ connections \in Nat /\ rest = {}
  BY DEF Init
<1>4. QED
  BY <1>1, <1>2, <1>3 DEF Delivering, TypeOK

\* Every step keeps what the proof of delivery needs.
LEMMA StepDelivering == Delivering /\ [Next]_vars => Delivering'
<1> SUFFICES ASSUME Delivering, [Next]_vars PROVE Delivering'
  OBVIOUS
<1> USE DEF Delivering, TypeOK
<1>1. CASE UNCHANGED vars
  BY <1>1 DEF vars, tasks, delivery, outside, Quotes
<1>2. ASSUME NEW c \in Consumers, Wait(c) PROVE Delivering'
  BY <1>2 DEF Wait, delivery, outside, Quotes
<1>3. ASSUME NEW c \in Consumers, Connect(c) PROVE Delivering'
  BY <1>3 DEF Connect, delivery, Quotes
<1>4. ASSUME NEW c \in Consumers, Subscribe(c), started' \in BOOLEAN PROVE Delivering'
  <2>1. ContractOf[c] \in Contracts
    BY ConstantsAssumption
  <2>2. hub' \subseteq Contracts /\ lost' \subseteq Contracts
    BY <1>4, <2>1 DEF Subscribe, Request
  <2>3. QED
    BY <1>4, <2>1, <2>2 DEF Subscribe, KeysWith, delivery, Quotes
<1>5. ASSUME NEW c \in Consumers, Leave(c) PROVE Delivering'
  <2>1. ContractOf[c] \in Contracts
    BY ConstantsAssumption
  <2>2. hub' \subseteq Contracts /\ lost' \subseteq Contracts /\ subscribed' \subseteq keys
    BY <1>5, <2>1 DEF Leave, Request
  <2>3. handles' \in Seq(Calls)
    <3>1. handles' = Kept(c, handles)
      BY <1>5 DEF Leave, Undelivered, Kept
    <3>2. handles \in Seq(Calls) /\ <<>> \in Seq(Quotes)
      BY DEF Calls
    <3>3. QED
      BY <3>1, <3>2, RunKept
  <2>4. queue' \in [Consumers -> Seq(Quotes)] /\ phase' \in [Consumers -> Phases]
    BY <1>5 DEF Leave, Phases
  <2>5. rest' \subseteq rest /\ UNCHANGED <<started, keys, callback, connections>>
    BY <1>5 DEF Leave
  <2>6. QED
    BY <2>2, <2>3, <2>4, <2>5 DEF Calls, Phases, Quotes
<1>6. ASSUME NEW c \in Consumers, Take(c) PROVE Delivering'
  <2>1. queue' \in [Consumers -> Seq(Quotes)]
    BY <1>6 DEF Take
  <2>2. QED
    BY <1>6, <2>1 DEF Take, tasks, delivery, outside, Quotes
<1>7. ASSUME NEW c \in Consumers, HandOver(c) PROVE Delivering'
  <2>1. handles' \in Seq(Calls)
    BY <1>7 DEF HandOver, HandedOver, Calls
  <2>2. QED
    BY <1>7, <2>1 DEF HandOver, tasks, outside, Quotes, Calls
<1>8. ASSUME NEW contract \in Contracts, OnQuote(contract) PROVE Delivering'
  <2>1. PICK names \in Named(contract) :
          /\ callback' = [number |-> callback.number + 1, names |-> names]
          /\ rest' \in Recipients(names)
    BY <1>8 DEF OnQuote
  <2>2. names \in SUBSET Contracts
    BY <1>8 DEF Named
  <2>3. callback.number + 1 \in 1..MaxQuotes
    BY <1>8, ConstantsAssumption DEF OnQuote
  <2>4. rest' \subseteq Consumers
    BY <2>1 DEF Recipients, ConsumersOf, In
  <2>5. QED
    BY <1>8, <2>1, <2>2, <2>3, <2>4 DEF OnQuote, tasks, outside, Quotes
<1>9. CASE RunHandle
  <2>1. handles' \in Seq(Calls) /\ Head(handles) \in Calls
    <3>1. handles \in Seq(Calls) /\ handles # <<>> /\ handles' = Tail(handles)
      BY <1>9 DEF RunHandle, Calls
    <3>2. QED
      BY <3>1
  <2>2. queue' \in [Consumers -> Seq(Quotes)]
    BY <1>9, <2>1 DEF RunHandle, Calls
  <2>3. QED
    BY <1>9, <2>1, <2>2 DEF RunHandle, tasks, outside, Quotes, Calls
<1>10. CASE Reconnect
  BY <1>10 DEF Reconnect, tasks, delivery, Quotes
<1>11. ASSUME NEW c \in Consumers, Task(c) PROVE Delivering'
  BY <1>2, <1>3, <1>4, <1>5, <1>6, <1>11 DEF Task, Connected, Enter
<1>12. QED
  BY <1>1, <1>7, <1>8, <1>9, <1>10, <1>11 DEF Next

\* The mux, its queues and the hand-over keep their types (projectx.py 371-555).
THEOREM TypeCorrect == Spec => []TypeOK
<1>1. Delivering => TypeOK
  BY DEF Delivering
<1>2. QED
  BY <1>1, InitDelivering, StepDelivering, PTL DEF Spec

\* The multiplexer starts as the feed does.
LEMMA FeedInit == Init => Feed!Init
<1> SUFFICES ASSUME Init PROVE Feed!Init
  OBVIOUS
<1>1. ASSUME NEW c \in Consumers PROVE Channel(c) = <<>>
  <2>1. queue[c] = <<>> /\ handles = <<>> /\ rest = {} /\ <<>> \in Seq(Quotes)
    BY DEF Init
  <2>2. Run(c, <<>>, <<>>) = <<>>
    BY RunEmpty, <2>1
  <2>3. QED
    BY <2>1, <2>2 DEF Channel
<1>2. In = {}
  BY DEF Init, In
<1>3. QED
  BY <1>1, <1>2 DEF Init, Feed!Init, Feed!NoQuote

\* The same for two sequences put together.
LEMMA TailOfConcat ==
  ASSUME NEW S, NEW r \in Seq(S), r # <<>>, NEW x \in Seq(S)
  PROVE  r \o x # <<>> /\ Tail(r \o x) = Tail(r) \o x
<1>1. Len(r) # 0 /\ Len(r \o x) = Len(r) + Len(x) /\ r \o x \in Seq(S) /\ r \o x # <<>>
  OBVIOUS
<1>2. Len(Tail(r \o x)) = Len(Tail(r) \o x)
  BY <1>1
<1>3. \A i \in 1..Len(Tail(r) \o x) : Tail(r \o x)[i] = (Tail(r) \o x)[i]
  BY <1>1
<1>4. Tail(r \o x) \in Seq(S) /\ Tail(r) \o x \in Seq(S)
  BY <1>1
<1>5. QED
  BY <1>1, <1>2, <1>3, <1>4

\* A step that leaves the subscribers, the last quote and every channel alone.
LEMMA FeedStutters ==
  ASSUME In' = In, callback' = callback, \A c \in Consumers : Channel(c)' = Channel(c)
  PROVE  UNCHANGED Feed!feed
BY DEF Feed!feed

\* A task that joins takes its channel as it is.
LEMMA JoinStep ==
  ASSUME Delivering, NEW c \in Consumers, Subscribe(c), phase[c] # "in"
  PROVE  Feed!Join(c)
<1>1. In' = In \cup {c} /\ c \notin In
  BY DEF Subscribe, In, Delivering, TypeOK
<1>2. callback' = callback /\ \A d \in Consumers : Channel(d)' = Channel(d)
  BY DEF Subscribe, delivery, Channel
<1>3. QED
  BY <1>1, <1>2 DEF Feed!Join

\* A task that leaves empties its own channel only.
LEMMA LeaveFeed ==
  ASSUME Delivering, NEW c \in Consumers, Leave(c)
  PROVE  Feed!Leave(c)
<1>1. In' = In \ {c} /\ c \in In
  BY DEF Leave, In, Delivering, TypeOK
<1>2. /\ queue \in [Consumers -> Seq(Quotes)] /\ handles \in Seq(Calls)
      /\ queue' = [queue EXCEPT ![c] = <<>>] /\ <<>> \in Seq(Quotes)
      /\ rest' = rest \ {c} /\ callback' = callback
  BY DEF Leave, Delivering, TypeOK, Calls
<1>3. handles' = Kept(c, handles)
  BY DEF Leave, Undelivered, Kept
<1>4. Channel(c)' = <<>>
  <2>1. Channel(c)' = Run(c, queue'[c], handles') \o <<>>
    BY <1>2 DEF Channel
  <2>2. Run(c, <<>>, Kept(c, handles)) = <<>>
    BY <1>2, RunKept
  <2>3. queue'[c] = <<>>
    BY <1>2
  <2>4. QED
    BY <1>3, <2>1, <2>2, <2>3
<1>5. ASSUME NEW d \in Consumers, d # c PROVE Channel(d)' = Channel(d)
  <2>1. queue'[d] = queue[d] /\ queue[d] \in Seq(Quotes) /\ (d \in rest' <=> d \in rest)
    BY <1>2, <1>5
  <2>2. Run(d, queue[d], Kept(c, handles)) = Run(d, queue[d], handles)
    BY <1>2, <1>5, <2>1, RunKept
  <2>3. Channel(d)' = Run(d, queue'[d], handles')
                        \o (IF d \in rest' THEN <<callback'.number>> ELSE <<>>)
    BY DEF Channel
  <2>4. QED
    BY <1>2, <1>3, <2>1, <2>2, <2>3 DEF Channel
<1>6. QED
  BY <1>1, <1>2, <1>4, <1>5 DEF Feed!Leave

\* A task takes the oldest quote of its channel.
LEMMA TakeFeed ==
  ASSUME Delivering, NEW c \in Consumers, Take(c)
  PROVE  Feed!Take(c)
<1>1. /\ In' = In /\ callback' = callback /\ rest' = rest /\ handles' = handles
      /\ queue \in [Consumers -> Seq(Quotes)] /\ handles \in Seq(Calls)
      /\ queue[c] # <<>> /\ queue' = [queue EXCEPT ![c] = Tail(@)]
  BY DEF Take, tasks, delivery, In, Delivering, TypeOK, Calls
<1> DEFINE last == IF c \in rest THEN <<callback.number>> ELSE <<>>
           r == Run(c, queue[c], handles)
<1>2. last \in Seq(Nat)
  BY ConstantsAssumption DEF Delivering, TypeOK
<1>3. r \in Seq(Quotes) /\ r # <<>> /\ Run(c, Tail(queue[c]), handles) = Tail(r)
  BY <1>1, RunTake, RunTyped
<1>4. Channel(c) = r \o last
  BY DEF Channel
<1>5. Channel(c)' = Tail(r) \o last
  <2>1. Channel(c)' = Run(c, queue'[c], handles')
                        \o (IF c \in rest' THEN <<callback'.number>> ELSE <<>>)
    BY DEF Channel
  <2>2. queue'[c] = Tail(queue[c])
    BY <1>1
  <2>3. QED
    BY <1>1, <1>3, <2>1, <2>2
<1>6. Channel(c) # <<>> /\ Channel(c)' = Tail(Channel(c))
  <2> HIDE DEF r, last
  <2>1. r \in Seq(Nat)
    BY <1>3, ConstantsAssumption DEF Quotes
  <2>2. QED
    BY <1>2, <1>3, <1>4, <1>5, <2>1, TailOfConcat
<1>7. ASSUME NEW d \in Consumers, d # c PROVE Channel(d)' = Channel(d)
  BY <1>1, <1>7 DEF Channel
<1>8. QED
  BY <1>1, <1>6, <1>7 DEF Feed!Take

\* The thread's callback publishes the quote to its audience.
LEMMA PublishFeed ==
  ASSUME Delivering, NEW contract \in Contracts, OnQuote(contract)
  PROVE  \E names \in {{}} \cup {{k} : k \in Contracts} : Feed!Publish(names)
<1>1. PICK names \in Named(contract) :
        /\ callback' = [number |-> callback.number + 1, names |-> names]
        /\ rest' \in Recipients(names)
  BY DEF OnQuote
<1>2. names \in {{}} \cup {{k} : k \in Contracts} /\ (names # {} => names = {contract})
  BY DEF Named
<1>3. In' = In /\ rest = {} /\ queue' = queue /\ handles' = handles
  BY DEF OnQuote, tasks, In
<1>4. rest' \in Feed!Audience(names)
  <2>1. CASE names = {}
    BY <1>1, <2>1 DEF Recipients, Feed!Audience
  <2>2. CASE names # {}
    <3>1. UNION {ConsumersOf(k) : k \in names} = {c \in In : ContractOf[c] \in names}
      BY DEF ConsumersOf
    <3>2. QED
      BY <1>1, <2>2, <3>1 DEF Recipients, Feed!Audience
  <2>3. QED
    BY <2>1, <2>2
<1>5. ASSUME NEW c \in Consumers
      PROVE  Channel(c)' = IF c \in rest' THEN Append(Channel(c), callback'.number)
                                          ELSE Channel(c)
  <2>1. Channel(c)' = Run(c, queue[c], handles)
                        \o (IF c \in rest' THEN <<callback'.number>> ELSE <<>>)
    BY <1>3 DEF Channel
  <2>2. Channel(c) = Run(c, queue[c], handles) \o <<>>
    BY <1>3 DEF Channel
  <2>3. Run(c, queue[c], handles) \in Seq(Quotes)
    BY RunTyped DEF Delivering, TypeOK, Calls
  <2>4. QED
    BY <2>1, <2>2, <2>3
<1>6. /\ callback'.number = callback.number + 1
      /\ callback' = [number |-> callback.number + 1, names |-> names]
  BY <1>1
<1>7. Feed!Publish(names)
  BY <1>3, <1>4, <1>5, <1>6 DEF Feed!Publish
<1>8. QED
  BY <1>2, <1>7

\* A quote handed to the loop, or put in a queue, stays in its place.
LEMMA HandOverFeed ==
  ASSUME Delivering, NEW c \in Consumers, HandOver(c)
  PROVE  UNCHANGED Feed!feed
<1>1. /\ In' = In /\ callback' = callback /\ queue' = queue
      /\ c \in rest /\ rest' = rest \ {c}
      /\ handles' = Append(handles, [to |-> c, quote |-> callback.number])
  BY DEF HandOver, HandedOver, tasks, In
<1> DEFINE h == [to |-> c, quote |-> callback.number]
<1>2. h \in Calls /\ handles \in Seq(Calls)
  BY <1>1 DEF Delivering, TypeOK, Calls
<1>3. ASSUME NEW d \in Consumers PROVE Channel(d)' = Channel(d)
  <2>1. queue[d] \in Seq(Quotes)
    BY DEF Delivering, TypeOK
  <2>2. Run(d, queue[d], handles') = Put(d, Run(d, queue[d], handles), h)
    BY <1>1, <1>2, <2>1, RunAppend
  <2>3. Channel(d)' = Run(d, queue'[d], handles')
                        \o (IF d \in rest' THEN <<callback'.number>> ELSE <<>>)
    BY DEF Channel
  <2>4. Run(d, queue[d], handles) \in Seq(Quotes)
    BY <1>2, <2>1, RunTyped
  <2> DEFINE r == Run(d, queue[d], handles)
  <2>5. CASE d = c
    <3>1. Channel(d)' = Append(r, callback.number) \o <<>>
      BY <1>1, <2>2, <2>3, <2>5 DEF Put
    <3>2. Channel(d) = r \o <<callback.number>>
      BY <1>1, <2>5 DEF Channel
    <3>3. callback.number \in Quotes
      BY <1>1 DEF Delivering
    <3> HIDE DEF r
    <3>4. QED
      BY <2>4, <3>1, <3>2, <3>3 DEF r
  <2>6. CASE d # c
    BY <1>1, <2>2, <2>3, <2>6 DEF Put, Channel
  <2>7. QED
    BY <2>5, <2>6
<1>4. QED
  BY <1>1, <1>3, FeedStutters

\* Running a callback moves a quote along its channel: the feed stutters.
LEMMA RunHandleFeed ==
  ASSUME Delivering, RunHandle
  PROVE  UNCHANGED Feed!feed
<1> DEFINE h == Head(handles)
<1>1. /\ In' = In /\ callback' = callback /\ rest' = rest
      /\ handles # <<>> /\ handles' = Tail(handles)
      /\ queue' = [queue EXCEPT ![h.to] = Append(@, h.quote)]
      /\ queue \in [Consumers -> Seq(Quotes)] /\ handles \in Seq(Calls)
  BY DEF RunHandle, tasks, In, Delivering, TypeOK, Calls
<1>2. h \in Calls
  BY <1>1
<1>3. ASSUME NEW d \in Consumers PROVE Channel(d)' = Channel(d)
  <2>1. queue'[d] = Put(d, queue[d], h) /\ queue[d] \in Seq(Quotes)
    BY <1>1, <1>2 DEF Put, Calls
  <2>2. Run(d, queue[d], handles) = Run(d, Put(d, queue[d], h), Tail(handles))
    BY <1>1, <2>1, RunFirst
  <2>3. Channel(d)' = Run(d, queue'[d], handles')
                        \o (IF d \in rest' THEN <<callback'.number>> ELSE <<>>)
    BY DEF Channel
  <2>4. QED
    BY <1>1, <2>1, <2>2, <2>3 DEF Channel
<1>4. QED
  BY <1>1, <1>3, FeedStutters

\* Every step of the multiplexer is one of the feed, or none.
LEMMA FeedStep == Delivering /\ [Next]_vars => [Feed!Next]_(Feed!feed)
<1> SUFFICES ASSUME Delivering, [Next]_vars PROVE [Feed!Next]_(Feed!feed)
  OBVIOUS
<1>1. ASSUME In' = In, UNCHANGED <<queue, delivery>> PROVE UNCHANGED Feed!feed
  BY <1>1, FeedStutters DEF delivery, Channel
<1>2. CASE UNCHANGED vars
  BY <1>1, <1>2 DEF vars, tasks, In
<1>3. ASSUME NEW c \in Consumers, Wait(c) \/ Connect(c) PROVE UNCHANGED Feed!feed
  <2>1. In' = In
    BY <1>3 DEF Wait, Connect, In, Delivering, TypeOK
  <2>2. QED
    BY <1>1, <1>3, <2>1 DEF Wait, Connect
<1>4. ASSUME NEW c \in Consumers, Connected(c) \/ Enter(c) PROVE Feed!Join(c)
  BY <1>4, JoinStep DEF Connected, Enter
<1>5. ASSUME NEW c \in Consumers, Task(c) PROVE [Feed!Next]_(Feed!feed)
  BY <1>3, <1>4, <1>5, LeaveFeed, TakeFeed DEF Task, Feed!Next
<1>6. ASSUME NEW contract \in Contracts, OnQuote(contract) PROVE Feed!Next
  BY <1>6, PublishFeed DEF Feed!Next
<1>7. CASE Reconnect
  BY <1>1, <1>7 DEF Reconnect, tasks, In
<1>8. QED
  BY <1>2, <1>5, <1>6, <1>7, HandOverFeed, RunHandleFeed DEF Next

\* The queues, the calls that wait in the loop and the walk of the client's
\* thread implement one channel per task, for every number of tasks, contracts
\* and quotes (projectx.py 444-457, 507-555).
THEOREM MuxImplementsFeed == Spec => MuxIsFeed
<1>1. Spec => Feed!Init /\ [][Feed!Next]_(Feed!feed)
  BY FeedInit, FeedStep, InitDelivering, StepDelivering, PTL DEF Spec
<1>2. QED
  BY <1>1 DEF MuxIsFeed, Feed!Spec
=============================================================================
