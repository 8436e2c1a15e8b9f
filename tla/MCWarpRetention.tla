--------------------------- MODULE MCWarpRetention ---------------------------
(* An instance of WarpRetention for TLC: outgoing messages that are alike,   *)
(* and the readings in the order of the price producer.                      *)
EXTENDS WarpRetention, TLC

CONSTANTS o1, o2

TwoOutgoing == {o1, o2}
Symmetric == Permutations(TwoOutgoing)

\* current_market_freshness_producer.py and the final-integration workflow.
AccountsFirst == <<"official", "outgoing", "incoming", "onchain">>
=============================================================================
