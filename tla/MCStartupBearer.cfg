SPECIFICATION StartupSpec
CONSTANTS
  s1 = s1
  s2 = s2
  Servers <- Pair
  Last = 2
  Move = 2
  Titles = {"alien"}
  MaxCrashes = 1
PROPERTY
  BearersGetIn
CHECK_DEADLOCK FALSE
