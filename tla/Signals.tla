------------------------------ MODULE Signals -------------------------------
(***************************************************************************)
(* What a strategy answers when it is shown a bar, and the two steps every *)
(* strategy ends with: size the order from the dollars at risk, and ask    *)
(* the evaluation's rules whether a position may be opened.  Money is      *)
(* counted in units of the risk of one trade.                              *)
(*                                                                         *)
(* Source: src/acme/strategies/base.py, src/acme/risk.py.                  *)
(***************************************************************************)
EXTENDS Integers

CONSTANTS
  AccountSize,     \* EvalProfile.account_size
  MaxLoss,         \* EvalProfile.max_loss_amount
  DailyLoss,       \* EvalProfile.daily_loss_limit
  SoftCap,         \* max_single_day_profit - consistency_buffer
  ContractCap,     \* max_position_contracts of the contract
  MaxSize          \* bound: the largest size sizing returns

ASSUME RiskAssumption ==
  /\ AccountSize \in Nat /\ MaxLoss \in Nat \ {0} /\ DailyLoss \in Nat \ {0}
  /\ SoftCap \in Nat \ {0} /\ ContractCap \in Nat \ {0} /\ MaxSize \in Nat \ {0}
-----------------------------------------------------------------------------
Long == 1
Short == -1
Flat == 0

(* The answers: None, EvalResult with one of three outcomes, a Signal the  *)
(* risk gate refused (size 0), and a Signal.                               *)
Outcomes == {"none", "pass", "near", "hold", "blocked", "signal"}
Answers == [outcome : Outcomes, side : {Long, Short, Flat}, size : 0..MaxSize]

Say(outcome) == [outcome |-> outcome, side |-> Flat, size |-> 0]
Nothing == Say("none")
Near(side) == [outcome |-> "near", side |-> side, size |-> 0]
Blocked(side) == [outcome |-> "blocked", side |-> side, size |-> 0]
Signal(side, size) == [outcome |-> "signal", side |-> side, size |-> size]

Returns(memory, answer) == [memory |-> memory, answer |-> answer]

SmallerOf(a, b) == IF a < b THEN a ELSE b
LargerOf(a, b) == IF a < b THEN b ELSE a
Magnitude(n) == IF n < 0 THEN -n ELSE n

TrailingMaxLossLimit(peak) == SmallerOf(peak - MaxLoss, AccountSize)

CanOpenNewPosition_NoDailyLoss(account, position, size) ==
  /\ account.balance > TrailingMaxLossLimit(account.peak)
  /\ account.realized < SoftCap
  /\ Magnitude(position + size) <= ContractCap
\* The size is added unsigned, whatever the side of the order.
CanOpenNewPosition(account, position, size) ==
  /\ account.balance > TrailingMaxLossLimit(account.peak)
  /\ account.balance - account.start > -DailyLoss
  /\ account.realized < SoftCap
  /\ Magnitude(position + size) <= ContractCap

(* The bracket and the size this bar's stop distance leads to: no bracket  *)
(* when a distance is not positive, size 0 when one contract risks more    *)
(* than the strategy may.                                                  *)
Draw(size) == [bracket |-> TRUE, size |-> size]
FewDraws == {Draw(size) : size \in 1..MaxSize} \cup {[bracket |-> FALSE, size |-> 1]}

Sizeable(draw) == draw.bracket /\ draw.size > 0

\* _build_signal, the same in every strategy.
BuildSignal(side, draw, account, position) ==
  IF ~Sizeable(draw) THEN Nothing
  ELSE IF CanOpenNewPosition(account, position, draw.size)
       THEN Signal(side, draw.size) ELSE Blocked(side)

Opposes(side, position) == position * side < 0
=============================================================================
