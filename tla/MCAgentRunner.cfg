SPECIFICATION FairSpec
CONSTANTS
  CallIds = {c1, c2}
  NoCall = NoCall
  KeepText = 1
  KeepTools = 0
  Inputs <- AllInputs
  MaxFailures = 2
  RefusalRetries = 1
  MaxTurns = 2
  TextAfterCalls = FALSE
INVARIANT RequestsAreValid
INVARIANT CompletedTurnsStay
INVARIANT CountersMatchHistory
INVARIANT EveryAttemptCharged
PROPERTY HistoryIsStable
PROPERTY Terminates
CHECK_DEADLOCK FALSE
