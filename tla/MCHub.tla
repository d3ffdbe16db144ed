------------------------------- MODULE MCHub -------------------------------
(* Instances of Hub: two connections, of one user or of one user each.     *)
EXTENDS Hub, TLC

CONSTANTS u1, u2, c1, c2

OneUser     == {u1}
TwoUsers    == {u1, u2}
TwoClients  == {c1, c2}
TwoOwners   == (c1 :> u1) @@ (c2 :> u2)
SharedOwner == (c1 :> u1) @@ (c2 :> u1)
=============================================================================
