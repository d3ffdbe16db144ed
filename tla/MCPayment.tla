----------------------------- MODULE MCPayment -----------------------------
(* Instances of Payment: one or two users, one order, one or two workers.  *)
EXTENDS Payment, TLC

CONSTANTS ana, bob, member, vip, p1, p2, o1

OneUser    == {ana}
TwoUsers   == {ana, bob}
TwoRoles   == {member, vip}
OneOrder   == {o1}
OneWorker  == {p1}
TwoWorkers == {p1, p2}

\* Users, roles and workers are interchangeable; Rest names none of them.
Symmetry ==
  Permutations(TwoUsers) \cup Permutations(TwoRoles) \cup Permutations(TwoWorkers)
=============================================================================
