SPECIFICATION StartupSpec
CONSTANTS
  s1 = s1
  s2 = s2
  Servers <- Pair
  Last = 3
  Move = 2
  Titles = {"alien"}
  MaxCrashes = 2
INVARIANTS
  ServesMigrated
  OnlyLateOnesAreLost
PROPERTIES
  BackByOvertakenOnly
  AllServeInTheEnd
CHECK_DEADLOCK FALSE
