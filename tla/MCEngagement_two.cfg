\* Two overlapping requests of one user or the owner, three in all, and failures.
CONSTANTS
  p1 = p1
  p2 = p2
  u1 = u1
  u2 = u2
  Absent = Absent
  NoJob = NoJob
  Users <- OneUser
  Workers <- TwoWorkers
  Budget = 3
  Faults = TRUE
SPECIFICATION Spec
\* Nothing is left to do when the budget is used.
CHECK_DEADLOCK FALSE
SYMMETRY Symmetry
CONSTRAINT OneStale
INVARIANTS
  OneRowPerUser
  DeletedRowsStayDeleted
  LikedOnce
  NumbersFollowRows
  
