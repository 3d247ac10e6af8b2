CONSTANTS
  Main = Main
  Loopers = {u1}
  Callers = {c1, c2}
  MaxThreads = 1
  MaxCalls = 1
  Nobody = Nobody
SPECIFICATION Spec
INVARIANT SpawnedGetsArgs
CHECK_DEADLOCK FALSE
