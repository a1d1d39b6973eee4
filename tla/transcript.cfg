SPECIFICATION TranscriptSpec
CONSTANTS
  None = None
  Newline = Newline
  Lead = Lead
  Cont = Cont
  Times = {1, 2}
  ChunkSize = 3
  MaxSize = 9
  Overlap = 1
  MaxReplaced = 2
INVARIANTS StopsAtASuffix NoRowIsOverlooked WholeTextIsRead
PROPERTIES ValidScanEnds
CHECK_DEADLOCK FALSE
