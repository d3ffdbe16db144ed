\* Two users with one connection each; room for one message per connection.
CONSTANTS
  u1 = u1
  u2 = u2
  c1 = c1
  c2 = c2
  All = All
  Users <- TwoUsers
  Clients <- TwoClients
  Owner <- TwoOwners
  BroadcastCap = 1
  SendCap = 1
SPECIFICATION Spec
\* A panic ends the process.
CHECK_DEADLOCK FALSE
INVARIANTS
  TypeOK
  NotificationsStayPrivate
  PresenceConverges
