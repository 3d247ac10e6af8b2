CONSTANTS
  SizeMax = 4096
  Own = {23}
  MaxData = 56
  MaxOffs = 2
  MaxLen = 1024
  MaxItems = 5
  Items <- MCItems
SPECIFICATION Spec
INVARIANTS SpaceAccounted OffsetsAreObjects CallIsWhole ReplyIsPrefix FailureIsSeen
CHECK_DEADLOCK FALSE
