SPECIFICATION FairSpec
CONSTANTS
  Jobs = {job}
  Runs = {job, run, again}
  Clients = {c1, c2}
  NoFile = NoFile
  Empty = Empty
  NoCursor = NoCursor
  PageSize = 2
  Attempts = 2
  MaxPages = 0
  MaxSource = 3
  job = job
  run = run
  again = again
  c1 = c1
  c2 = c2
  Casts <- MCCasts
  Found <- MCFound
INVARIANTS ReportsTrue FollowComplete CursorCovers DuplicatesHaveACause
PROPERTIES CleanKeepsRunning FollowerLeaves
CHECK_DEADLOCK FALSE
