SPECIFICATION SurfaceSpec
CONSTANTS
  s1 = s1
  s2 = s2
  Root = Root
  NoAgent = NoAgent
  Invocations <- TwoInvocations
  Emitters <- TwoEmitters
  Surfaces <- ClosingSurfaces
  MaximumDepth = 2
  MaximumParallel = 1
  MaxEvents = 1
INVARIANTS CleanRunIsComplete TeardownOrder ClosedLoopLeaksNothing
PROPERTIES RunFinishes LeavesNobody
CHECK_DEADLOCK FALSE
