SPECIFICATION Spec
CONSTANTS
  s1 = s1
  s2 = s2
  t1 = t1
  t2 = t2
  en = en
  de = de
  e1 = e1
  e2 = e2
  e3 = e3
  noCap = noCap
  Nothing = Nothing
  Screens <- Apps
  Players <- Tvs
  Settings <- Languages2
  Items <- Episodes
  Caps <- Two
  Served <- Sees
  First <- OneFile
  FreshFor = 1
  StaleFor = 2
  FileTTL = 2
  Timeout = 1
  MaxAnswers = 1
  MaxTime = 2
  MaxChanges = 1
  MaxRequests = 3
SYMMETRY Same
INVARIANTS
  TypeOK
  ServedInOrder
  LanguagesOfTheirTime
  FilesOfTheirTime
CHECK_DEADLOCK FALSE
