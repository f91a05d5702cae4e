SPECIFICATION FairSpec
CONSTANTS
  Calls = {c1, c2}
  c1 = c1
  c2 = c2
  Chunk = Chunk
  Nothing = Nothing
  Asked <- MCAsked
  Capacity = 1
  MaxResults = 1
  LineCap = 2
  Budget = 5
  TreeMaxPaths = 3
  TreeMaxDepth = 3
  TreeMaxEntries = 2
INVARIANTS ResultsAreTrue ViewsAreWholeOrMarked
PROPERTY CallsEnd
CHECK_DEADLOCK FALSE
