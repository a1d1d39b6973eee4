SPECIFICATION Spec
CONSTANTS
  None = None
  Newline = Newline
  Lead = Lead
  Cont = Cont
  Times = {1, 2}
  ChunkSize = 2
  MaxSize = 4
PROPERTIES ScanEnds
CHECK_DEADLOCK FALSE
