\* Two emails, one always refused; the broker goes down or the server stops three times.
CONSTANTS
  m1 = m1
  m2 = m2
  Nothing = Nothing
  Emails <- TwoEmails
  Bad <- OneBad
  Breaks = 3
SPECIFICATION FairSpec
\* Without a worker nothing is left to do.
CHECK_DEADLOCK FALSE
INVARIANTS
  TypeOK
  QueuedEmailsAreKept
  EmailsAreSentOnce
PROPERTIES
  BadEmailsBlockNobody
  WorkerStartsLater
