SPECIFICATION Spec
CONSTANTS
  ann = ann
  phone = phone
  tv = tv
  crash = crash
  Clients <- Apps
  Users <- Reporters
  Fingerprints <- Seen
  NoFingerprint = NoFingerprint
  RateLimit = 3
  RateWindow = 2
  DedupWindow = 1
  MaxTime = 3
  MaxReports = 4
  MaxTickets = 4
  NoRow = NoRow
SYMMETRY Symmetric
INVARIANTS
  TypeOK
  WithinTheBudget
  CommentsAreCounted
PROPERTY
  SecondTicketByRacesOnly
CHECK_DEADLOCK FALSE
