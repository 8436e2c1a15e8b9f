-------------------------- MODULE MCActivityScanner --------------------------
(* Instances of ActivityScanner for TLC. *)
EXTENDS ActivityScanner, TLC

CONSTANTS s1, s2, e1, none

OneScanner  == {s1}
TwoScanners == {s1, s2}
OneEvent    == {e1}
Bounds013   == {0, 1, 3, none}
Bounds1     == {1, none}
NoEvent     == {}
Symmetric   == Permutations(TwoScanners)
=============================================================================
