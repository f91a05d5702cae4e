SPECIFICATION FairSpec
CONSTANTS
  MaxSkip = 2
  MaxNoise = 3
  MaxCancels = 2
INVARIANTS SessionTypeOK LeavesNoProcess ResultKept
PROPERTY CallEnds
CHECK_DEADLOCK FALSE
