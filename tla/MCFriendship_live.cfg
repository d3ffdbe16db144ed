\* Races and failures over one row leave stale entries behind; then requests stop.
CONSTANTS
  u1 = u1
  u2 = u2
  p1 = p1
  p2 = p2
  NoRow = NoRow
  Users <- TwoUsers
  Ids = {1}
  Workers <- TwoWorkers
  Budget = 2
  Faults = TRUE
SPECIFICATION FairSpec
CONSTRAINT FirstAsks
\* Nothing is left to do when every worker has used its budget.
CHECK_DEADLOCK FALSE
PROPERTIES
  StaleEntriesExpire
