SPECIFICATION Spec
CONSTANTS
  StampMod = 16
  EpochOffset = 8
  UnixMax = 9
  MinGap = 2
  BootTime = 5
  Polls = {3}
  MaxTime = 10
  MaxRequests = 3
  MaxReplies = 2
  MaxBoots = 1
CHECK_DEADLOCK FALSE
INVARIANTS
  TypeOK
  ReplyAnswersRequest
  ClockNotBehindRequest
PROPERTIES
  ImplementsTimeKeeping
