CONSTANTS
  Callers = {c1, c2}
  NoCall = NoCall
SPECIFICATION LSpec
INVARIANTS EntriesBacked NoLateCall NothingElseLeft
CHECK_DEADLOCK FALSE
SYMMETRY MCSymmetry
