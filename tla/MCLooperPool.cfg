CONSTANTS
  Main = Main
  Loopers = {u1}
  Callers = {c1, c2}
  MaxThreads = 1
  MaxCalls = 2
  Nobody = Nobody
SPECIFICATION FairSpec
INVARIANTS TypeOK AtMostOnce OwnAnswer SpawnAccounted CountInRange
PROPERTIES ImplementsCalls CallsReturn
CHECK_DEADLOCK FALSE
