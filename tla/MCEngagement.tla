---------------------------- MODULE MCEngagement ----------------------------
(* Instances of Engagement: two overlapping requests.                      *)
EXTENDS Engagement, TLC

CONSTANTS p1, p2, u1, u2

TwoWorkers == {p1, p2}
OneUser    == {u1}
TwoUsers   == {u1, u2}

Symmetry == Permutations(TwoWorkers)

\* A bound: runs go on from a state with one key out of date or one false sum, not from
\* one with more of them.
OneStale == Cardinality(torn) + Cardinality(late) <= 1
=============================================================================
