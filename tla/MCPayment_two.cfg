\* One order of one of two users; charge, polls and webhooks race and fail.
CONSTANTS
  ana = ana
  bob = bob
  member = member
  vip = vip
  p1 = p1
  p2 = p2
  o1 = o1
  NoTarget = NoTarget
  NoRow = NoRow
  Nobody = Nobody
  Users <- TwoUsers
  Roles <- TwoRoles
  Orders <- OneOrder
  Workers <- TwoWorkers
  Budget = 1
  Faults = TRUE
SPECIFICATION Spec
\* Nothing is left to do when every worker has used its budget.
CHECK_DEADLOCK FALSE
SYMMETRY Symmetry
INVARIANTS
  TypeOK
  RolesFollowReports
  PaidRolesAreNotForgotten
