----------------------------- MODULE MCAccount -----------------------------
(* Instances of Account: two overlapping requests.                         *)
EXTENDS Account, TLC

CONSTANTS p1, p2

TwoWorkers == {p1, p2}

\* 30 seconds < 5 minutes < 10 minutes < 3 hours < 3 days, in the order of the code.
Pauses == <<1, 2, 4, 5>>
OneLength == {1}

Symmetry == Permutations(TwoWorkers)
=============================================================================
