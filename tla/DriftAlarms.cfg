SPECIFICATION FairSpec
CONSTANTS
  Calibrators = {c1}
  Golden <- MCGolden
  JudgeScores = {10, 90}
  Floor = 7
  Subs <- MCSubs
  Project = "pilot"
  Values = {0, 1}
  Sample = 1
  MaxPasses = 2
  MaxAlerts = 1
  MaxChanges = 1
  MaxFailures = 1
  NoScore = NoScore
  Nothing = Nothing
INVARIANTS AlarmsAreWhole
PROPERTIES BreachIsAnnounced
CHECK_DEADLOCK FALSE
