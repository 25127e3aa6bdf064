\* two jobs, a request, a lease that lapses under a worker, a session that fails
SPECIFICATION Spec
CONSTANTS
  w1 = w1
  w2 = w2
  r1 = r1
  k1 = k1
  k2 = k2
  a1 = a1
  a2 = a2
  Workers = {w1, w2}
  Requests = {r1}
  Keys = {k1, k2}
  AssetIds = {a1, a2}
  Null = Null
  MaxAttempts = 1
  MaxJobs = 2
  Backlog = 1
  MaxCrashes = 0
  MaxErrors = 1
  MaxLapses = 1
SYMMETRY Symmetric
INVARIANTS TypeOK CompletedHasAsset OverlapHasCause
CHECK_DEADLOCK FALSE
