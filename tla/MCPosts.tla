------------------------------ MODULE MCPosts ------------------------------
(* Instances of Posts: two workers.                                        *)
EXTENDS Posts

CONSTANTS p1, p2

TwoWorkers == {p1, p2}
=============================================================================
