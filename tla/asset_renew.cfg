\* one job, two workers, a lease that lapses
SPECIFICATION Spec
CONSTANTS
  w1 = w1
  w2 = w2
  k1 = k1
  a1 = a1
  Workers = {w1, w2}
  Requests = {}
  Keys = {k1}
  AssetIds = {a1}
  Null = Null
  MaxAttempts = 1
  MaxJobs = 1
  Backlog = 1
  MaxCrashes = 0
  MaxErrors = 0
  MaxLapses = 1
PROPERTIES RenewsOwnLeaseOnly
CHECK_DEADLOCK FALSE
