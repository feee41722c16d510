SPECIFICATION FairSpec
CONSTANTS
  Sds = {0, 1, 2}
  IdleLimit = 1
  CidEnabled = FALSE
  MaxClockSets = 1
INVARIANTS
  TypeOK
  ConnectionIsUsable
  WritesInSession
  BlindHandshakeOnce
PROPERTIES
  SendsReturn
  SessionRecovers
