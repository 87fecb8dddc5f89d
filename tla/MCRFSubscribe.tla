---------------------------- MODULE MCRFSubscribe ----------------------------
(* Small instances of RFSubscribe for TLC.                                   *)
EXTENDS RFSubscribeProps

CONSTANTS s1, s2
TwoSubs == {s1, s2}
OneSub == {s1}
Nobody == {}

\* Two subscriptions that differ in nothing but their name.  The list is a
\* sequence of names, so exchanging them is an automorphism of the model.
Symmetry == Permutations(TwoSubs)
=============================================================================
