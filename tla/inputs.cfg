SPECIFICATION Spec
CONSTANTS
  None = None
  Raw = Raw
  Missing = Missing
  NoTime = NoTime
  NoStatus = NoStatus
  Provider = "codex"
  CodexTokens = {"--", "-i", "-c", "-m", "--model=v", "codex", "exec", "w", Raw}
  ClaudeTokens = {"--", "-m", "--model=v", "-p", "--output-format", "stream-json", "--output-format=stream-json", "claude"}
  Years = {1, 2, 3}
  LeapYears = {2}
  Months = {1, 2}
  MonthDays = 2
  HalfDay = 2
  HourMinutes = 2
  MinuteTicks = 2
  Grace = 1
  Forward = 7
  Back = 23
  MaxArgs = 5
  MaxMessages = 5
  MaxCalls = 6
  MaxTime = 3
  LastLog = 130
INVARIANTS ArgumentsAreUnderstood ViewIsFaithful ResetIsTheNextNamed ResetIsNotBefore RecordsAreUnderstood
CHECK_DEADLOCK FALSE
