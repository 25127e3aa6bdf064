\* one turn of two keys and two inputs, three generations, a quest abandoned meanwhile,
\* rows that predate the fingerprint
SPECIFICATION Spec
CONSTANTS
  w1 = w1
  w2 = w2
  k1 = k1
  k2 = k2
  i1 = i1
  i2 = i2
  Workers = {w1, w2}
  Keys = {k1, k2}
  Inputs = {i1, i2}
  Null = Null
  Lease = 1
  MaxFailures = 0
  Legacy = {"none", "played", "residue"}
  MaxTurns = 1
  MaxGen = 3
  MaxAbandons = 1
SYMMETRY Symmetric
INVARIANTS SoleOwner NoLostUpdate OwnAnswer RefusedForGood
PROPERTIES HandOver
CHECK_DEADLOCK FALSE
