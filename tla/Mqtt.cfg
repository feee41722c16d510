SPECIFICATION FairSpec
CONSTANTS
  Filters <- MCFilters
  Sample = "s/#"
  Topics <- MCTopics
  Matching <- MCMatching
  MaxHandlers = 1
  MaxPacketId = 2
  PacketLen = 2
  Qos = {1}
  Unused = {"subscribe", "unsubscribe", "disconnect"}
  Window = 1
  MaxMessages = 1
INVARIANTS
  TypeOK
  StreamIntact
  AckIsForRequest
  GrantedHasHandler
  UnheardOnlyBeforeSuback
  KeepaliveNotEarly
PROPERTY
  ImplementsSession
  CallsReturn
