SPECIFICATION Spec
CONSTANTS
  Parts = 2
  Capacity = 2
  MaxReads = 2
  MaxResumes = 1
  MaxOutput = 2
  MaxFaults = 1
INVARIANTS InputIsWhole OutputIsShown
PROPERTIES ResumeReturns RunnerReturns ProcessEnds
CHECK_DEADLOCK FALSE
