SPECIFICATION BSpec
CONSTANTS
  ListThreads = {1, 2}
  Items = {a, b, c, d}
  Keys = {0, 1}
  NULL = NULL
  Empty = Empty
  CalThreads = {1}
  CalTimestamps = {0, 1, 10}
  MAXNBUCKETS = 16
  MaxEvents = 17
  Nothing = Nothing
SYMMETRY ItemSymmetry
INVARIANTS ListTypeOK ListShape CalShape ListIndInv CalIndInv
PROPERTIES ListStable ListImplementsPool CalImplementsPool
