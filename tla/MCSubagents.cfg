SPECIFICATION TreeSpec
CONSTANTS
  s1 = s1
  s2 = s2
  s3 = s3
  s4 = s4
  Root = Root
  NoAgent = NoAgent
  Invocations <- MCInvocations
  MaximumDepth = 2
  MaximumParallel = 2
INVARIANTS PermitsConserved NoLostWakeup NoStrays
CHECK_DEADLOCK FALSE
