SPECIFICATION FairSpec

CONSTANTS
  Observed = {"y"}

INVARIANTS
  TypeOK
  OwnResult
  SequenceExists
  EdgeNotLost
  ReportsCatchUp

PROPERTIES
  BusComesFree
  FifoServed
