CONSTANTS
  A = A  B = B  C = C
  oA = oA  oB = oB  oB2 = oB2
  n1 = n1  n2 = n2  nLong = nLong
  NoObj = NoObj  NoMsg = NoMsg  Nobody = Nobody
  Procs = {A, B, C}
  Objs = {oA, oB, oB2}
  Names = {n1, n2, nLong}
  Owner <- MCOwner
  NameLen <- MCNameLen
  Uid <- MCUid
  Requests <- MCAliases
  MaxHandle = 3
  MaxRefs = 1
SPECIFICATION Spec
INVARIANT DiedIsDead
CHECK_DEADLOCK FALSE
