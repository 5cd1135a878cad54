SPECIFICATION Spec
CONSTANTS
  p1 = p1
  p2 = p2
  film = film
  show = show
  subtitle = subtitle
  Uncapped = Uncapped
  NoTitle = NoTitle
  NoAsset = NoAsset
  NoOne = NoOne
  Requests <- Apps
  Ids <- Library
  Assets <- Subtitles
  Home <- OfTheFilm
  Caps <- AgesCapped
  Ratings <- AgesCapped
  AtFirst <- Either
  Wants <- Lists
  VisibleTTL = 1
  AssetTTL = 2
  VisibleBatch = 1
  MaxAnswers = 2
  MaxTime = 2
  MaxChanges = 1
  MaxRequests = 2
SYMMETRY SymmetricApps
INVARIANTS
  TypeOK
  ServedWasShown
  LeftOutWasHidden
  AssetsAsTheirTitle
CHECK_DEADLOCK FALSE
