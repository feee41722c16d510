SPECIFICATION Spec
CONSTANTS
  MaxEvents = 4
INVARIANTS
  ConnectedStartsTimer
