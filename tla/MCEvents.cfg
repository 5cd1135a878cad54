SPECIFICATION Spec
CONSTANTS
  reader = reader
  stalled = stalled
  Clients <- Browsers
  Readers <- OneReading
  ClientBuffer = 1
  MaxNotes <- FewNotes
INVARIANTS
  TypeOK
  ClosedOnce
PROPERTIES
  DeliversAFeed
  ItemsAreRead
  ReadersAreTold
CHECK_DEADLOCK FALSE
