\* Two concurrent requests, one worker that may die once, one call of the
\* aggregation endpoint, two runs of which the second has slices.
SPECIFICATION Spec
CONSTANTS
  c1 = c1 c2 = c2 w1 = w1 k1 = k1 m1 = m1
  Clients <- TwoClients
  Workers <- OneWorker
  Keys <- OneKey
  NoKey = NoKey
  Metrics <- OneMetric
  MaxRuns = 2
  Quota = 2
  SingleValued <- FirstIsSingleValued
  SlicedRuns <- SecondIsSliced
  UseTemporal = FALSE
  MaxCrashes = 1
  MaxRequests = 2
  AggregatorServed = TRUE
INVARIANTS
  TypeOK
  CompletedIsVisible
  SameKeySameRun
  StatusIsAccountedFor
  AtMostOneExecution
  ResultsHaveHistory
PROPERTIES
  CancelledIsNotPickedUp
  ImplementsContract
SYMMETRY Symmetry
\* The bounds on runs and requests are reached and the system rests.
CHECK_DEADLOCK FALSE
