SPECIFICATION BusSpec
CONSTANTS
  root = root
  sub = sub
  Emitters <- MCEmitters
  MaxEvents = 4
INVARIANTS InSequence DrainedBeforeEnd RangesHoldOwnItems
PROPERTIES KeepsPromise
CHECK_DEADLOCK FALSE
