----------------------------- MODULE MCWarpFlow -----------------------------
(* An instance of WarpFlow for TLC.                                         *)
EXTENDS WarpFlow, TLC

Amounts == [i \in Transfer |-> 1]

Symmetric == Permutations(Inflows)
=============================================================================
