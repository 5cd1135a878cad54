CONSTANTS
  special = special
  one = one
  two = two
  three = three
  film = film
  series = series
  NoSeries = NoSeries
  NoRow = NoRow
  NoItem = NoItem
  MaxInt = 2147483647
  Series = {series}
  Items <- WithAFilm
  SeriesOf <- SeriesOfIt
  Listing <- ListingOf
  Holder <- HolderOf
  Specials = {special}
  Length = 1320
  Positions = {600, 1320}
  RowLimit = 3
  CardLimit = 2
  Dismissed <- WithAFilm
  MaxWrites = 2
SPECIFICATION Spec
CHECK_DEADLOCK FALSE
INVARIANT DismissedIsOff
