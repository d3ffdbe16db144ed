---------------------------- MODULE MCFriendship ----------------------------
(* Instances of Friendship: two users and two workers.                     *)
EXTENDS Friendship

CONSTANTS u1, u2, p1, p2

TwoUsers   == {u1, u2}
TwoWorkers == {p1, p2}

\* The users are interchangeable: with one id it is enough that u1 asks.
FirstAsks == \A e \in log : e.what = "asked" => e.by = u1
=============================================================================
