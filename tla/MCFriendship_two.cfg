\* Crossing requests of two users, who may come to have two rows.
CONSTANTS
  u1 = u1
  u2 = u2
  p1 = p1
  p2 = p2
  NoRow = NoRow
  Users <- TwoUsers
  Ids = {1, 2}
  Workers <- TwoWorkers
  Budget = 2
  Faults = FALSE
SPECIFICATION Spec
\* Nothing is left to do when every worker has used its budget.
CHECK_DEADLOCK FALSE
INVARIANTS
  TypeOK
  FriendshipTakesBothSides
  ChatTakesBothSides
  AnswersAreReal
PROPERTIES
  ImplementsConsent
