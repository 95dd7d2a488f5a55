------------------------------ MODULE MCRewards ------------------------------
(* Two accounts with seats, one of which claims rewards.                   *)
EXTENDS Rewards, TLC

CONSTANTS a1, a2, Rates, Delays

Funds == a1 :> 5
Configs == [rate : Rates, delay : Delays]
==============================================================================
