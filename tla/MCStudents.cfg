CONSTANTS
  Tom = Tom
  Jerry = Jerry
  Names = {Tom, Jerry}
  Sexes = {"m", "f", "x"}
  Addrs = {a1, a2, a3, a4}
  Roster <- MCRoster
  NoStudent = NoStudent
SPECIFICATION SSpec
INVARIANTS OneHome OnlyStraysLeak
CHECK_DEADLOCK FALSE
SYMMETRY MCSymmetry
