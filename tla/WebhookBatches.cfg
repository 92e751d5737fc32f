\* Two deliveries, two loops sending them at one time, one death of a loop.
SPECIFICATION FairSpec
CONSTANTS
  d1 = d1 d2 = d2 p1 = p1 p2 = p2
  Deliveries <- TwoDeliveries
  Loops <- TwoLoops
  MaxBatch = 2
  MaxAttempts = 3
  MaxDeaths = 1
INVARIANTS
  TypeOK
  DeliveredMeansReceived
  FailedMeansExhausted
  AttemptsWereMade
PROPERTIES
  OutcomeIsFinal
  DeliveryEnds
\* Everything is delivered or given up.
CHECK_DEADLOCK FALSE
