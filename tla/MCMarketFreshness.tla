-------------------------- MODULE MCMarketFreshness --------------------------
(* An instance of MarketFreshness for TLC: four slots, two of one second.   *)
EXTENDS MarketFreshness

Twos == <<2, 2>>
Times == <<0, 1, 1, 2>>
Ranks == <<2, 1>>
=============================================================================
