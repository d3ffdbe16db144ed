\* Two overlapping requests, four in all, and failures.
CONSTANTS
  p1 = p1
  p2 = p2
  NoRow = NoRow
  Workers <- TwoWorkers
  Budget = 4
  MaxTime = 4
  Valid = 3
  Cooldown <- Pauses
  BanLengths <- OneLength
  Faults = TRUE
SPECIFICATION Spec
\* Nothing is left to do when the budget is used and the clock has stopped.
CHECK_DEADLOCK FALSE
SYMMETRY Symmetry
INVARIANTS
  TypeOK
  AcknowledgedChangesSurvive
  CodesAreSound
  TokensNeedVerification
  CooldownLadder
