\* Two requests, at one time or one after the other, while run and baseline are aggregated
\* up to twice each.
SPECIFICATION Spec
CONSTANTS
  bleu = bleu long = long q1 = q1 q2 = q2
  Overall = overall NoPoint = NoPoint
  Metrics <- OneMetric
  Slices <- OneSlice
  Points <- LowHigh
  Policies <- Submitted
  Deciders <- TwoDeciders
  MaxDecisions = 2
  MaxPasses = 2
SYMMETRY Symmetric
INVARIANTS
  TypeOK
  PassedIsEarned
  FailureIsFinal
  PassedStaysPassed
\* All requests are answered.
CHECK_DEADLOCK FALSE
