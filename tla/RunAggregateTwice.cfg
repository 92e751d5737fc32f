\* One run without slices, aggregated by the worker and once through the endpoint.
SPECIFICATION Spec
CONSTANTS
  c1 = c1 c2 = c2 w1 = w1 k1 = k1 m1 = m1
  Clients <- OneClient
  Workers <- OneWorker
  Keys <- OneKey
  NoKey = NoKey
  Metrics <- OneMetric
  MaxRuns = 1
  Quota = 1
  SingleValued = {}
  SlicedRuns = {}
  UseTemporal = FALSE
  MaxCrashes = 0
  MaxRequests = 1
  AggregatorServed = TRUE
INVARIANT
  AggregationIdempotent
\* The bounds on runs and requests are reached and the system rests.
CHECK_DEADLOCK FALSE
