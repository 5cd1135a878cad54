SPECIFICATION Spec
CONSTANTS
  tv = tv
  phone = phone
  Devices <- Both
  e15 = e15
  e16 = e16
  Items <- Finale
  FileOf <- FinaleFiles
  Bodies <- Sent
  AskTimeout = 1
  DurationSpan = 2
  MaxTime = 2
  MaxRequests = 3
  MaxInt = 2147483647
  NoRow = NoRow
  NoMark = NoMark
SYMMETRY Symmetric
INVARIANTS
  TypeOK
  FileSharesPosition
  FileSharesWatched
  FinishedWithLengthIsWatched
PROPERTY
  NewerPositionStays
CHECK_DEADLOCK FALSE
