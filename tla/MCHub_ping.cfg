\* The promise of the ping case of readPump; refuted by an eviction.
CONSTANTS
  u1 = u1
  u2 = u2
  c1 = c1
  c2 = c2
  All = All
  Users <- OneUser
  Clients <- TwoClients
  Owner <- SharedOwner
  BroadcastCap = 1
  SendCap = 1
SPECIFICATION Spec
\* A panic ends the process.
CHECK_DEADLOCK FALSE
INVARIANTS
  PingsAreAnswered
