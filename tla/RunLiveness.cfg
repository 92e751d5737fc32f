\* Two requests at a time, which may both pass the count of a quota of one, one
\* worker that may die once, three runs, no endpoint for aggregation: what the poll
\* loop gets done, and how far the quota is exceeded meanwhile.
SPECIFICATION FairSpec
CONSTANTS
  c1 = c1 c2 = c2 w1 = w1 k1 = k1 m1 = m1
  Clients <- TwoClients
  Workers <- OneWorker
  Keys = {}
  NoKey = NoKey
  Metrics = {}
  MaxRuns = 3
  Quota = 1
  SingleValued = {}
  SlicedRuns = {}
  UseTemporal = FALSE
  MaxCrashes = 1
  MaxRequests = 1
  AggregatorServed = FALSE
INVARIANT
  ExcessIsBounded
PROPERTIES
  QueuedIsTaken
  QueuedSettles
\* The bounds on runs and requests are reached and the system rests.
CHECK_DEADLOCK FALSE
