SPECIFICATION Spec
CONSTANTS
  ann = ann
  ben = ben
  annDefault = annDefault
  benDefault = benDefault
  w1 = w1
  w2 = w2
  w3 = w3
  phone = phone
  tv = tv
  Users <- People
  Clients <- Apps
  Lists <- AllLists
  DefaultOf <- Defaults
  Titles = {"alien"}
  Names <- SomeNames
  Lower <- LowerCase
  DefaultName = "Watchlist"
  MaxLists = 2
  MaxRequests = 4
  NoList = NoList
SYMMETRY Symmetric
INVARIANTS
  TypeOK
  DefaultIsThere
  PastTheCapByRacesOnly
  SameNameByRacesOnly
  TitlesHaveAList
CHECK_DEADLOCK FALSE
