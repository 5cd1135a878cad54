SPECIFICATION Spec
CONSTANTS
  first = first
  again = again
  Requests <- Asked
  Rows <- Kept
  Needs <- Refers
  Steps = 3
  Takes <- Statements
INVARIANTS
  TypeOK
PROPERTIES
  DeletesAtOnce
  LocksEnd
CHECK_DEADLOCK FALSE
