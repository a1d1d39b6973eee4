SPECIFICATION Spec
CONSTANTS
  None = None
  Provider = "claude"
  Transcripts = {t1}
  RunnerReports = TRUE
  Outcomes = {"Sent", "Definite"}
  MaxRetries = 2
  MaxWatchAttempts = 2
  Rows <- ClaudeRows
  StartTime = 1
  MaxTime = 3
  MaxRows = 2
  MaxReports = 1
  MaxFaults = 1
INVARIANTS StatusMatchesLockout ExhaustionIsCurrent
PROPERTIES DroppedOnlyAfterContinue
