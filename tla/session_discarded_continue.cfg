SPECIFICATION SessionSpec
CONSTANTS
  None = None
  Provider = "claude"
  Transcripts = {}
  RunnerReports = TRUE
  Outcomes = {"Sent", "Definite"}
  MaxRetries = 1
  MaxWatchAttempts = 1
  Rows <- SessionRows
  StartTime = 0
  MaxTime = 2
  MaxRows = 0
  MaxReports = 1
  MaxFaults = 0
  MaxLines = 1
PROPERTY QueuedContinueIsTaken
CHECK_DEADLOCK FALSE
