---------------------------- MODULE MCMetricsStore ----------------------------
(* An instance of MetricsStore for TLC: threads are alike, and so are the keys *)
(* of prices.                                                                  *)
EXTENDS MetricsStore, TLC

CONSTANTS k1, k2, t1, t2

TwoKeys == {k1, k2}
TwoThreads == {t1, t2}
Symmetric == Permutations(TwoKeys) \cup Permutations(TwoThreads)
=============================================================================
