\* One user with two connections and channels of size 1: first and last
\* connection, eviction of one, and what fair goroutines bring about.
CONSTANTS
  u1 = u1
  u2 = u2
  c1 = c1
  c2 = c2
  All = All
  Users <- OneUser
  Clients <- TwoClients
  Owner <- SharedOwner
  BroadcastCap = 1
  SendCap = 1
SPECIFICATION FairSpec
\* A panic ends the process.
CHECK_DEADLOCK FALSE
INVARIANTS
  HubNeverPanics
  OnlineListMatchesAnnouncements
PROPERTIES
  RegistrationIsServed
  BrokenLinkIsUnregistered
