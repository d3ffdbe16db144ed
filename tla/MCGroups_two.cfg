\* Two users, two groups of the same name, two workers, five requests and failures.
CONSTANTS
  ana = ana
  bob = bob
  p1 = p1
  p2 = p2
  g1 = g1
  g2 = g2
  NoRow = NoRow
  Users <- TwoUsers
  Ids <- TwoGroups
  Workers <- TwoWorkers
  Budget = 5
  Faults = TRUE
SPECIFICATION Spec
\* Nothing is left to do when all requests are served.
CHECK_DEADLOCK FALSE
SYMMETRY Symmetry
INVARIANTS
  TypeOK
  AuthorityIsInherited
  ChangesNeedAuthority
  GroupsKeepAnAdmin
  SlugsAreSound
