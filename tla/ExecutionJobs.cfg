SPECIFICATION FairSpec
CONSTANTS
  Jobs <- MCJobs
  ShardSize = 2
  Bins = 4
  Scale = 2
  MaxText = 3
  None = None
  Failed = Failed
INVARIANTS AlignmentsAreOptimal AucCountsPairs MicroIsAccuracy ErrorCountsAll
PROPERTIES ImplementsExecution ExecutionEnds
CHECK_DEADLOCK FALSE
