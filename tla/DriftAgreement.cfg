SPECIFICATION Spec
CONSTANTS
  Calibrators = {c1}
  Golden <- HighGolden
  JudgeScores = {10, 90}
  Floor = 7
  Subs <- MCSubs
  Project = "pilot"
  Values = {0, 1}
  Sample = 1
  MaxPasses = 0
  MaxAlerts = 0
  MaxChanges = 0
  MaxFailures = 0
  NoScore = NoScore
  Nothing = Nothing
INVARIANTS PerfectAgreementIsQuiet
CHECK_DEADLOCK FALSE
