------------------------------ MODULE MCGroups ------------------------------
(* Instances of Groups: two users, one or two groups and workers.          *)
EXTENDS Groups, TLC

CONSTANTS ana, bob, p1, p2, g1, g2

TwoUsers   == {ana, bob}
OneGroup   == {g1}
TwoGroups  == {g1, g2}
OneWorker  == {p1}
TwoWorkers == {p1, p2}

\* Users, groups and workers are interchangeable.
Symmetry == Permutations(TwoUsers) \cup Permutations(TwoGroups) \cup Permutations(TwoWorkers)
=============================================================================
