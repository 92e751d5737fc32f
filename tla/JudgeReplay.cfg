\* The worker's judge_run, then up to two replays side by side, one of which may
\* die unless a request reaches the judge service; a budget that admits one prompt a minute.
SPECIFICATION FairSpec
CONSTANTS
  e1 = e1 e2 = e2 j1 = j1 j2 = j2
  Judges <- TwoJudges
  Examples <- TwoExamples
  Predictions <- InOrder
  Cost <- OneEach
  Budget = 1
  MaxAttempts = 2
  EndpointServed = TRUE
  MaxMinute = 1
  MaxReplays = 2
  MaxTroubles = 1
INVARIANTS
  TypeOK
  BudgetHolds
  NothingForgotten
  RawIsKept
PROPERTY
  JudgingEnds
\* All commands are used up and every process is idle.
CHECK_DEADLOCK FALSE
