SPECIFICATION Spec
CONSTANTS
  Characters <- MCCharacters
  MaxHandlers = 2
  NoFilter = NoFilter
  HandlerTables <- MCHandlerTables
  Topics <- MCTopics
  MaxLen = 3
  MaxFormLen = 5
  MaxLevels = 3
INVARIANTS
  DispatchByCover
  MatchesByLevels
