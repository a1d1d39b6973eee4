SPECIFICATION SessionFairSpec
CONSTANTS
  None = None
  Provider = "claude"
  Transcripts = {t1}
  RunnerReports = TRUE
  Outcomes = {"Sent", "Definite"}
  MaxRetries = 1
  MaxWatchAttempts = 1
  Rows <- SessionRows
  StartTime = 0
  MaxTime = 2
  MaxRows = 1
  MaxReports = 2
  MaxFaults = 1
  MaxLines = 1
INVARIANTS NoOutputOutlivesItsChild
PROPERTIES RecordedLimitIsAwaited ContinueIsTaken
CHECK_DEADLOCK FALSE
