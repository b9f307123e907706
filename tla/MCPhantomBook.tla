--------------------------- MODULE MCPhantomBook ---------------------------
(* Small instances of PhantomBook: the deployed fleet, all on 2-minute     *)
(* bars.                                                                   *)
EXTENDS PhantomBook

MCTwoMinute == [s \in Strategies |-> 2]
=============================================================================
