\* Nothing fails and Midtrans delivers: who paid gets the role.
CONSTANTS
  ana = ana
  bob = bob
  member = member
  vip = vip
  p1 = p1
  p2 = p2
  o1 = o1
  NoTarget = NoTarget
  NoRow = NoRow
  Nobody = Nobody
  Users <- OneUser
  Roles <- TwoRoles
  Orders <- OneOrder
  Workers <- TwoWorkers
  Budget = 1
  Faults = FALSE
SPECIFICATION FairSpec
\* Nothing is left to do when every worker has used its budget.
CHECK_DEADLOCK FALSE
PROPERTIES
  PaidRolesArrive
