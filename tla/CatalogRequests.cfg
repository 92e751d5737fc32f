SPECIFICATION FairSpec
CONSTANTS
  Requests = {q1, q2, q3}
  Seed <- MCSeed
  Names = {"n"}
  Versions = {"1"}
  Emails = {"bob@"}
  Granted = {"maintainer"}
  Keys = {"k"}
  Calls <- MCCalls
  q1 = q1
  q2 = q2
  q3 = q3
  Nothing = Nothing
  MaxCrashes = 1
INVARIANTS TypeOK NoTwins AuditTellsTheTruth RunsNamePublishedData CacheIsCurrent
PROPERTIES AnsweredOrJammed
CHECK_DEADLOCK FALSE

