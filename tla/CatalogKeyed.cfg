SPECIFICATION FairSpec
CONSTANTS
  Requests = {q1, q2}
  Seed <- MCSeed
  Names = {"n"}
  Versions = {"1"}
  Emails = {"bob@"}
  Granted = {"maintainer"}
  Keys = {"k"}
  Calls <- KeyedCalls
  q1 = q1
  q2 = q2
  q3 = q3
  Nothing = Nothing
  MaxCrashes = 0
PROPERTIES SubmissionIsAnswered
CHECK_DEADLOCK FALSE

