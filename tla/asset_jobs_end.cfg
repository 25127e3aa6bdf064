\* one job, a request, a worker that crashes
SPECIFICATION LiveSpec
CONSTANTS
  w1 = w1
  w2 = w2
  r1 = r1
  k1 = k1
  a1 = a1
  Workers = {w1, w2}
  Requests = {r1}
  Keys = {k1}
  AssetIds = {a1}
  Null = Null
  MaxAttempts = 1
  MaxJobs = 1
  Backlog = 1
  MaxCrashes = 1
  MaxErrors = 0
  MaxLapses = 0
PROPERTIES JobsEnd
CHECK_DEADLOCK FALSE
