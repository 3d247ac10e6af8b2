CONSTANTS
  Procs = {p1, p2}
  CPUs = {c1, c2}
  Hd = {hda}
  Sd = {sda}
  Devs = {hda, sda}
  NSects = 2
  MaxSegs = 2
  Vals = {v1}
  Blank = Blank
  NoReq = NoReq
  Idle = Idle
SPECIFICATION Spec
INVARIANTS EndsRight ReadIsSnapshot
SYMMETRY MCSymmetry
