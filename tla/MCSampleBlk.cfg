CONSTANTS
  Procs = {p1, p2}
  CPUs = {c1, c2}
  Devs = {d}
  NSects = 2
  MaxSegs = 2
  Vals = {v1, v2}
  Blank = Blank
  NoReq = NoReq
  Idle = Idle
SPECIFICATION Spec
INVARIANTS EndsRight ServedOnce MemoryLive FailureUndone
CHECK_DEADLOCK FALSE
SYMMETRY MCSymmetry
