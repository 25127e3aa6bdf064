\* a key after its budget
SPECIFICATION Spec
CONSTANTS
  w1 = w1
  w2 = w2
  k1 = k1
  k2 = k2
  i1 = i1
  i2 = i2
  Workers = {w1, w2}
  Keys = {k1, k2}
  Inputs = {i1}
  Null = Null
  Lease = 1
  MaxFailures = 0
  Legacy = {"none"}
  MaxTurns = 1
  MaxGen = 2
  MaxAbandons = 0
INVARIANTS BudgetKeyStaysUsable
CHECK_DEADLOCK FALSE
