---------------------------- MODULE MCEmailQueue ----------------------------
(* Instances of EmailQueue: two emails, one of which always fails.         *)
EXTENDS EmailQueue

CONSTANTS m1, m2

TwoEmails == {m1, m2}
OneBad == {m2}
=============================================================================
