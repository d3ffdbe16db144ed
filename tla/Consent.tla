------------------------------ MODULE Consent ------------------------------
(***************************************************************************)
(* What the friendship service promises, whatever its handlers race over:  *)
(* a friendship belongs to a request that its sender made, it begins in    *)
(* the step in which the receiver of that very request accepts it, and an  *)
(* acceptance, once given, is not forgotten.  Friendships may end at any   *)
(* time, and may begin again if the receiver accepts again.                *)
(***************************************************************************)
CONSTANTS Users, Ids

VARIABLES
  requests,  \* the requests that were made
  granted,   \* those their receiver has accepted at some time
  friends    \* those that make a friendship now

vars == <<requests, granted, friends>>

Request == [id : Ids, from : Users, to : Users]

Init == requests = {} /\ granted = {} /\ friends = {}

\* A user asks another one; every request has an id of its own.
Ask(r) ==
  /\ \A q \in requests : q.id # r.id
  /\ requests' = requests \cup {r}
  /\ UNCHANGED <<granted, friends>>

\* The receiver accepts.
Accept(r) ==
  /\ r \in requests
  /\ granted' = granted \cup {r}
  /\ friends' = friends \cup {r}
  /\ UNCHANGED requests

\* Somebody ends the friendship, or the receiver changes their mind.
End(r) ==
  /\ friends' = friends \ {r}
  /\ UNCHANGED <<requests, granted>>

Next == \E r \in Request : Ask(r) \/ Accept(r) \/ End(r)

Spec == Init /\ [][Next]_vars
=============================================================================
