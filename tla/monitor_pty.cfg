SPECIFICATION FairSpec
CONSTANTS
  None = None
  Provider = "codex"
  Transcripts = {t1, t2}
  RunnerReports = FALSE
  Outcomes = {"Sent", "Definite", "Ambiguous"}
  MaxRetries = 2
  MaxWatchAttempts = 2
  Rows <- CodexRows
  StartTime = 0
  MaxTime = 3
  MaxRows = 1
  MaxReports = 0
  MaxFaults = 1
INVARIANTS IInv NothingForgotten
PROPERTIES ContinueOnlyAfterReset ContinueAtMostOnce KeepsPromise DueIsContinued RowsAreNoticed
