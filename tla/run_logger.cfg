SPECIFICATION Spec
CONSTANTS
  None = None
  MaxStartup = 2
  MaxAccepts = 3
  MaxLines = 6
  MaxStatus = 1
  MaxTimeouts = 2
  MaxSize = 2
  Failing = {"flush", "rename", "create", "reopen", "write"}
  MaxFaults = 2
INVARIANTS EveryViewerIsCurrent NoLineIsSkipped NoTornMessage PreviousLogIsSaved LogIsBounded
CHECK_DEADLOCK FALSE
