SPECIFICATION FairSpec
CONSTANTS
  Procs = {p1, p2}
  Pids = {i1, i2}
  Ports = {n1, n2}
  NoPid = NoPid
  NoPort = NoPort
  None = None
  MaxFaults = 2
INVARIANTS WaitingSeesNone OwnFileOnly NoFileIsLeft
PROPERTIES SessionIsFound
CHECK_DEADLOCK FALSE
