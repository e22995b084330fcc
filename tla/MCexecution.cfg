SPECIFICATION FairSpec
CONSTANTS
  maxLines = 41
  maxDelayMs = 1
  maxFailAttempts = 2
  defaultMaxRetries = 2
  maxMaxRetries = 4
  maxTimeoutSec = 1
  Progress = 20
  Width = 5
  Configs <- Delays
  Requests <- GoodAndBad
  MaxFaults <- ExecutionFaults
INVARIANTS TypeOK BackoffSchedule OutcomeForetold LogFits StopsPromptly
PROPERTIES FollowsLedger CancelStops
CHECK_DEADLOCK FALSE
