--------------------------- MODULE MCSensorSubscribe ---------------------------
(* Small instances of SensorSubscribe for TLC.                                  *)
EXTENDS SensorSubscribeProps

CONSTANTS s1, s2, p1, p2, a, b
Symmetry == Permutations({p1, p2}) \cup Permutations({a, b})
================================================================================
