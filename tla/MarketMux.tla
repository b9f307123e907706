----------------------------- MODULE MarketMux -----------------------------
(***************************************************************************)
(* One SignalR connection to the market hub, fanned out to the tasks that  *)
(* iterate over stream_quotes.  Three parties interleave: the tasks on the *)
(* event loop, whose code runs undisturbed between two awaits; the thread  *)
(* of the SignalR client, which calls _on_quote and may be interrupted     *)
(* between any two calls of call_soon_threadsafe; and the hub.             *)
(*                                                                         *)
(* Source: src/acme/broker/projectx.py 371-555.  Trades have dictionaries  *)
(* and functions of their own with the same bodies.                        *)
(***************************************************************************)
EXTENDS Naturals, FiniteSets, SequencesExt

CONSTANTS
  Consumers,    \* tasks that call stream_quotes
  Contracts,
  ContractOf,   \* the contract each of them asks for
  Faults,
  MaxQuotes     \* bound: quotes sent by the hub

FaultKinds == {"noContractId",   \* a quote does not name its contract
               "sendFails",      \* a request to the hub raises, suppressed
               "reconnect"}      \* the client reconnects by itself

ASSUME ConstantsAssumption ==
  /\ IsFiniteSet(Consumers)
  /\ ContractOf \in [Consumers -> Contracts]
  /\ Faults \subseteq FaultKinds
  /\ MaxQuotes \in Nat

VARIABLES
  phase,        \* where each task is in subscribe_quotes
  started,      \* self._started
  keys,         \* contracts in self._quote_consumers (never removed)
  subscribed,   \* self._subscribed_quotes
  queue,        \* the queue of each subscribed task
  callback,     \* the last quote on the client's thread and what it names
  rest,         \* queues of its snapshot not handed to the loop yet
  handles,      \* put_nowait calls the loop has not run yet
  \* outside the process
  hub,          \* contracts the hub sends on this connection
  lost,         \* contracts whose last request, or subscription, was lost
  connections   \* connections ever opened

tasks == <<phase, started, keys, subscribed>>
delivery == <<callback, rest, handles>>
outside == <<hub, lost, connections>>
vars == <<tasks, queue, delivery, outside>>
-----------------------------------------------------------------------------
Quotes == 1..MaxQuotes

TypeOK ==
  /\ phase \in [Consumers -> {"out", "waiting", "connecting", "in"}]
  /\ started \in BOOLEAN
  /\ keys \subseteq Contracts /\ subscribed \subseteq keys
  /\ queue \in [Consumers -> Seq(Quotes)]
  /\ callback \in [number : 0..MaxQuotes, names : SUBSET Contracts]
  /\ rest \subseteq Consumers
  /\ handles \in Seq([to : Consumers, quote : Quotes])
  /\ hub \subseteq Contracts /\ lost \subseteq Contracts
  /\ connections \in Nat

Init ==
  /\ phase = [c \in Consumers |-> "out"] /\ started = FALSE
  /\ keys = {} /\ subscribed = {}
  /\ queue = [c \in Consumers |-> <<>>]
  /\ callback = [number |-> 0, names |-> {}] /\ rest = {} /\ handles = <<>>
  /\ hub = {} /\ lost = {} /\ connections = 0

In == {c \in Consumers : phase[c] = "in"}
ConsumersOf(contract) == {c \in In : ContractOf[c] = contract}
-----------------------------------------------------------------------------
(* _ensure_started: the lock is held from the decision to connect to the   *)
(* end of the one-second handshake.  A start that raises does so before    *)
(* the first await (413): the lock is free again before any other task     *)
(* runs, and the task is out as before.                                    *)

LockFree_NoLock == TRUE
LockFree_NeverReleased == connections = 0
LockFree == \A c \in Consumers : phase[c] # "connecting"

Wait(c) ==
  /\ phase[c] = "out" /\ ~LockFree
  /\ phase' = [phase EXCEPT ![c] = "waiting"]
  /\ UNCHANGED <<started, keys, subscribed, queue, delivery, outside>>

Connect(c) ==
  /\ phase[c] \in {"out", "waiting"} /\ LockFree /\ ~started
  /\ phase' = [phase EXCEPT ![c] = "connecting"]
  /\ connections' = connections + 1
  /\ UNCHANGED <<started, keys, subscribed, queue, delivery, hub, lost>>

\* A request about a contract reaches the hub, or raises: the exception is
\* suppressed and the task goes on as if the hub had been told.
Request(contract, done) ==
  \/ hub' = done /\ lost' = lost \ {contract}
  \/ "sendFails" \in Faults /\ hub' = hub /\ lost' = lost \cup {contract}

\* The rest of subscribe_quotes, up to the first get of the queue: only the
\* first consumer of a contract asks the hub for it.
KeysWith(contract) == keys \cup {contract}

Subscribe(c) ==
  LET contract == ContractOf[c] IN
  /\ phase' = [phase EXCEPT ![c] = "in"]
  /\ keys' = KeysWith(contract)
  /\ IF contract \notin subscribed THEN Request(contract, hub \cup {contract})
                               ELSE UNCHANGED <<hub, lost>>
  /\ subscribed' = subscribed \cup {contract}
  /\ UNCHANGED <<queue, delivery, connections>>

Connected(c) ==
  /\ phase[c] = "connecting"
  /\ started' = TRUE
  /\ Subscribe(c)

Enter(c) ==
  /\ phase[c] \in {"out", "waiting"} /\ started /\ LockFree
  /\ Subscribe(c)
  /\ UNCHANGED started

\* The generator is closed: the last consumer of a contract cancels it at the
\* hub.  What is still on its way to the queue is lost with the queue.
IsLast_Always(c) == TRUE
IsLast(c) == ConsumersOf(ContractOf[c]) = {c}

Undelivered_OldQueue(c) == handles
Undelivered(c) ==
  FoldLeft(LAMBDA kept, h : IF h.to = c THEN kept ELSE Append(kept, h), <<>>, handles)

Leave(c) ==
  LET contract == ContractOf[c] IN
  /\ phase[c] = "in"
  /\ phase' = [phase EXCEPT ![c] = "out"]
  /\ queue' = [queue EXCEPT ![c] = <<>>]
  /\ handles' = Undelivered(c)
  /\ rest' = rest \ {c}
  /\ IF IsLast(c)
     THEN Request(contract, hub \ {contract}) /\ subscribed' = subscribed \ {contract}
     ELSE UNCHANGED <<hub, lost, subscribed>>
  /\ UNCHANGED <<started, keys, callback, connections>>

Take(c) ==
  /\ phase[c] = "in" /\ queue[c] # <<>>
  /\ queue' = [queue EXCEPT ![c] = Tail(@)]
  /\ UNCHANGED <<tasks, delivery, outside>>
-----------------------------------------------------------------------------
(* The client's thread: _on_quote and _fanout_quote.                       *)

Named(contract) == {{contract}} \cup (IF "noContractId" \in Faults THEN {{}} ELSE {})

\* The queues a quote goes to.  Without a contract they are all of them,
\* unless a task adds a key while the thread walks over the dictionary: the
\* walk raises and the quote is dropped.
Recipients(names) ==
  IF names # {} THEN {UNION {ConsumersOf(contract) : contract \in names}}
  ELSE {In} \cup (IF keys = Contracts THEN {} ELSE {{}})

OnQuote(contract) ==
  /\ contract \in hub /\ rest = {} /\ callback.number < MaxQuotes
  /\ \E names \in Named(contract) :
       /\ callback' = [number |-> callback.number + 1, names |-> names]
       /\ rest' \in Recipients(names)
  /\ UNCHANGED <<tasks, queue, handles, outside>>

HandedOver_Newest(h) == <<h>> \o handles
HandedOver(h) == Append(handles, h)

HandOver(c) ==
  /\ c \in rest /\ rest' = rest \ {c}
  /\ handles' = HandedOver([to |-> c, quote |-> callback.number])
  /\ UNCHANGED <<tasks, queue, callback, outside>>

\* The loop runs the next put_nowait.
RunHandle ==
  /\ handles # <<>> /\ handles' = Tail(handles)
  /\ queue' = [queue EXCEPT ![Head(handles).to] = Append(@, Head(handles).quote)]
  /\ UNCHANGED <<tasks, callback, rest, outside>>

\* The new connection has no subscriptions, and nothing asks for them again.
Reconnect ==
  /\ "reconnect" \in Faults /\ hub # {}
  /\ hub' = {} /\ lost' = lost \cup hub
  /\ UNCHANGED <<tasks, queue, delivery, connections>>
-----------------------------------------------------------------------------
Task(c) == Wait(c) \/ Connect(c) \/ Connected(c) \/ Enter(c) \/ Leave(c) \/ Take(c)

Next ==
  \/ \E c \in Consumers : Task(c) \/ HandOver(c)
  \/ \E contract \in Contracts : OnQuote(contract)
  \/ RunHandle
  \/ Reconnect

Spec == Init /\ [][Next]_vars

(* The loop and the thread keep running; a task that waits for the lock or *)
(* for a quote is resumed.                                                 *)
Fairness ==
  /\ WF_vars(RunHandle)
  /\ \A c \in Consumers : /\ WF_vars(HandOver(c)) /\ WF_vars(Take(c))
                          /\ WF_vars(Connected(c))
                          /\ WF_vars(phase[c] = "waiting" /\ (Connect(c) \/ Enter(c)))
FairSpec == Spec /\ Fairness
-----------------------------------------------------------------------------
(* Properties.                                                             *)

\* The hub sends exactly the contracts that have a consumer, whatever order the
\* tasks come and go in (509-513, 521-527); a lost request or subscription
\* touches its own contract only, and only until the next request about it.
HubServesConsumers ==
  \A contract \in Contracts \ lost : contract \in hub <=> ConsumersOf(contract) # {}

\* Tasks that start together share one connection: a second one on the same
\* token is rejected by the broker (73-75, 393-416).
OneConnection == connections <= 1

\* The queue q of a task once the loop has run the calls.
Run(c, q, calls) ==
  FoldLeft(LAMBDA r, h : IF h.to = c THEN Append(r, h.quote) ELSE r, q, calls)

\* A task's channel: its queue once the loop has run the calls that wait, and
\* the quote the thread has not handed over yet.
Channel(c) ==
  Run(c, queue[c], handles) \o (IF c \in rest THEN <<callback.number>> ELSE <<>>)

\* The hand-over between the threads behaves like one channel per task: no
\* quote is lost, duplicated, reordered or given to another contract's task
\* although tasks join and leave in the middle of a fan-out (444-457).
Feed == INSTANCE QuoteFeed WITH joined <- In, latest <- callback,
                                channel <- [c \in Consumers |-> Channel(c)]
MuxIsFeed == Feed!Spec

\* A quote that was fanned out to a task is taken by it, or the task left
\* (456-457, 519-520).
EveryQuoteTaken ==
  \A c \in Consumers, q \in Quotes :
    (\E i \in DOMAIN Channel(c) : Channel(c)[i] = q)
      ~> ~ \E i \in DOMAIN Channel(c) : Channel(c)[i] = q

\* Every task that asked to subscribe is subscribed in the end: nobody is left
\* behind at the start lock (394-396).
EveryTaskServed ==
  \A c \in Consumers : phase[c] \in {"waiting", "connecting"} ~> phase[c] = "in"
=============================================================================
