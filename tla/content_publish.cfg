\* four requests, two keys with two contents, one world from before
SPECIFICATION Spec
CONSTANTS
  p1 = p1
  p2 = p2
  p3 = p3
  p4 = p4
  k1 = k1
  k2 = k2
  c1 = c1
  c2 = c2
  w1 = w1
  Requests = {p1, p2, p3, p4}
  Keys = {k1, k2}
  Contents = {c1, c2}
  LegacyWorlds = {w1}
  Null = Null
SYMMETRY Symmetric
INVARIANTS TypeOK AnswersStayTrue RefusalsHaveCause BoundSessionsStayReadable
PROPERTIES ImplementsCatalog
CHECK_DEADLOCK FALSE
