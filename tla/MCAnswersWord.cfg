SPECIFICATION Spec
CONSTANTS
  p1 = p1
  p2 = p2
  film = film
  show = show
  subtitle = subtitle
  Uncapped = Uncapped
  NoTitle = NoTitle
  NoAsset = NoAsset
  NoOne = NoOne
  Requests <- Apps
  Ids <- Library
  Assets <- Subtitles
  Home <- OfTheFilm
  Caps <- AgesCapped
  Ratings <- AgesCapped
  AtFirst <- ItWasThere
  Wants <- OneFilm
  VisibleTTL = 1
  AssetTTL = 2
  VisibleBatch = 1
  MaxAnswers = 2
  MaxTime = 2
  MaxChanges = 2
  MaxRequests = 1
INVARIANTS
  LibrarysWord
CHECK_DEADLOCK FALSE
