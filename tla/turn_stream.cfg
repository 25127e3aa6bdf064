SPECIFICATION LiveSpec
CONSTANTS
  MaxSubmissions = 2
  Capacity = 1
  MaxProgress = 1
  MaxFaults = 1
  Heartbeat = 1
  HardDeadline = 2
INVARIANTS TypeOK SaidIsDurable EndTellsOutcome
PROPERTIES KeepsPromise StreamEnds HookSettles
CHECK_DEADLOCK FALSE
