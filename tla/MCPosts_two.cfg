\* Two overlapping requests or uploads, three in all, and failures; then requests stop.
CONSTANTS
  p1 = p1
  p2 = p2
  NoRow = NoRow
  Absent = Absent
  Workers <- TwoWorkers
  Budget = 3
  Faults = TRUE
SPECIFICATION FairSpec
\* Nothing is left to do when the budget is used.
CHECK_DEADLOCK FALSE
INVARIANTS
  AcknowledgedChangesSurvive
  CachesFollowWrites
PROPERTIES
  DeletedPostDisappears
