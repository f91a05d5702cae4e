SPECIFICATION Spec
CONSTANTS
  CallIds = {c1, c2}
  NoCall = NoCall
  KeepText = 1
  KeepTools = 0
  Inputs <- FreshInputs
  MaxFailures = 2
  RefusalRetries = 1
  MaxTurns = 2
  TextAfterCalls = FALSE
PROPERTY RefusalPromptSurvivesFailure
CHECK_DEADLOCK FALSE
