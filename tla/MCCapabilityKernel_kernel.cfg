CONSTANTS
  Submissions = 3
  e1 = e1
  Events = {e1}
  Tracks <- TwoStepsThenOne
  MaxAttempts <- TwoAttemptsThenOne
  Retryable = {"HANDLER_TIMEOUT"}
  MaxKills = 1
SPECIFICATION FairSpec
CHECK_DEADLOCK FALSE
INVARIANTS KernelTypeOK AnsweredNeverReplayed CompletedIsBacked OnlyTimedOutHandlersLinger
PROPERTY SubmissionsEnd
