---------------------------- MODULE SingleTrade ----------------------------
(***************************************************************************)
(* What the live trading loop promises about the one brokerage account:    *)
(* a trade is opened only from flat, with a bounded size, and the next     *)
(* thing that happens to the account is that this trade is closed in full. *)
(* The account never adds to a position and never jumps from long to short *)
(* (the prop firm forbids hedging: src/acme/conductor/flat_first.py 3-4).  *)
(***************************************************************************)
EXTENDS Integers

CONSTANT MaxSize      \* largest order size of any strategy
VARIABLE net          \* the account's signed net position

Sizes == 1..MaxSize

Init == net = 0

\* A market entry order is filled.
OpenTrade == /\ net = 0
             /\ \E n \in Sizes : net' \in {n, -n}

\* The whole position is closed.
CloseTrade == /\ net # 0
              /\ net' = 0

Next == OpenTrade \/ CloseTrade

Spec == Init /\ [][Next]_net
=============================================================================
