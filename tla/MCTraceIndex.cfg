SPECIFICATION FairIndexSpec
CONSTANTS
  Builders = {b1}
  Lines <- MCLines
  Spans <- MCSpans
  TracesFound <- MCTracesFound
  Threshold = 2
  Workers = 2
  MaxLines = 3
  MaxTime = 1
  MaxCrashes = 1
  Unset = Unset
  Cut = Cut
  Dropped = Dropped
  DiscoveryCap = 1
  SurgicalCap = 2
  Budget = 4
  Samples = 1
  Words <- MCWords
  Filters <- MCFilters
  MaxAsked = 3
  w1 = w1
  w2 = w2
  t1 = t1
  t2 = t2
  p1 = p1
  p2 = p2
  Blank = Blank
  NoId = NoId
INVARIANTS FingerprintVouches SidecarsAreWhole StoreServesTheTrace
  FiltersMatchTrace SearchesMatchTrace ViewsMatchTrace
PROPERTY SettlesFresh
