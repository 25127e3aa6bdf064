\* one job, one worker, one cancellation
SPECIFICATION Spec
CONSTANTS
  w1 = w1
  r1 = r1
  k1 = k1
  a1 = a1
  Workers = {w1}
  Requests = {r1}
  Keys = {k1}
  AssetIds = {a1}
  Null = Null
  MaxAttempts = 1
  MaxJobs = 1
  Backlog = 1
  MaxCrashes = 0
  MaxErrors = 0
  MaxLapses = 0
PROPERTIES CancelsPendingOnly
CHECK_DEADLOCK FALSE
