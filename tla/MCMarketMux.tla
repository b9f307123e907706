---------------------------- MODULE MCMarketMux ----------------------------
(* Two tasks on one contract and one on another. *)
EXTENDS MarketMux, TLC

CONSTANTS t1, t2, t3, mes, mnq

MCContractOf == t1 :> mes @@ t2 :> mes @@ t3 :> mnq
=============================================================================
