----------------------------- MODULE TranscriptScan -----------------------------
(***************************************************************************)
(* One transcript from the startup scan on: the program appends to it in   *)
(* pieces of any length or replaces it, the monitor scans it backwards     *)
(* once (BackwardScan) and then, at every event, from a little before the  *)
(* size it saw last: scan_one_path.                                        *)
(*                                                                         *)
(* The program writes whole lines, a row or a text with one character      *)
(* beyond ASCII, but a scan may come between any two bytes of a line.      *)
(* LockoutMonitor counts in rows what is counted in bytes here.            *)
(***************************************************************************)
EXTENDS BackwardScan

CONSTANTS
  Overlap,       \* SCAN_OVERLAP_BYTES
  MaxReplaced    \* bound: replacements of the file

ASSUME OverlapAssumption == Overlap \in Nat \ {0}

VARIABLES
  disk,      \* the bytes of the file
  rest,      \* the bytes of the line that is being written
  phase,     \* "start", "sized", "baseline", "watching", "mapped", "read" or "dead"
  cached,    \* the size in file_size_cache
  size,      \* new_size of the running scan
  touched,   \* whether the file was written to since the running scan took its size
  update,    \* what the running scan has found
  newest,    \* the newest update returned by a scan so far
  skipped,   \* history: bytes in front that the cursor has passed unread
  replaced

scanVars == <<phase, cached, size, update, newest>>
fileVars == <<disk, rest, touched, skipped, replaced>>
allVars == <<vars, scanVars, fileVars>>

\* What is written matters to a scan while it runs.
Scanning == phase \in {"mapped", "read"}

Lines == {<<t, t, Newline>> : t \in Times} \cup {<<Lead, Cont, Newline>>}

StartInit ==
  /\ file = <<>> /\ pos = 0 /\ carry = <<>> /\ state = "closed" /\ result = None /\ odd = FALSE
  /\ disk = <<>> /\ rest = <<>> /\ touched = FALSE /\ skipped = 0 /\ replaced = 0
  /\ phase = "start" /\ cached = 0 /\ size = 0 /\ update = None /\ newest = None

-------------------------------------------------------------------------------
\* The program.
Append1 ==
  /\ rest # <<>> /\ disk' = Append(disk, Head(rest)) /\ rest' = Tail(rest)
  /\ touched' = Scanning
  /\ UNCHANGED <<vars, scanVars, skipped, replaced>>

BeginLine ==
  /\ rest = <<>> /\ rest' \in Lines /\ Len(disk) + Len(rest') <= MaxSize
  /\ UNCHANGED <<vars, scanVars, disk, touched, skipped, replaced>>

\* It is cut and written anew: of the new text the cursor has read nothing.
Replace ==
  /\ replaced < MaxReplaced /\ replaced' = replaced + 1
  /\ phase \in {"watching", "mapped", "read"}
  /\ disk' \in {<<>>} \cup Lines /\ rest' = <<>> /\ touched' = Scanning
  /\ skipped' = cached
  /\ UNCHANGED <<vars, scanVars>>

-------------------------------------------------------------------------------
\* The startup scan.

\* initial_scan_from: the size is cached before the file is opened.
CacheSize ==
  /\ phase = "start" /\ phase' = "sized" /\ cached' = Len(disk) /\ skipped' = Len(disk)
  /\ UNCHANGED <<vars, size, update, newest, disk, rest, touched, replaced>>

\* scan_file_backwards reads up to the size it finds when it begins.
OpenBaseline ==
  /\ phase = "sized" /\ phase' = "baseline"
  /\ file' = disk /\ pos' = Len(disk) /\ state' = "scanning"
  /\ UNCHANGED <<carry, result, odd, cached, size, update, newest, fileVars>>

BaselineStep ==
  /\ phase = "baseline" /\ Iterate
  /\ UNCHANGED <<scanVars, fileVars>>

BaselineFails ==
  /\ phase = "baseline" /\ ReadFails
  /\ UNCHANGED <<odd, scanVars, fileVars>>

BaselineDone ==
  /\ phase = "baseline" /\ state \in {"done", "failed"}
  /\ phase' = "watching" /\ newest' = result
  /\ file' = <<>> /\ pos' = 0 /\ carry' = <<>> /\ state' = "closed" /\ result' = None /\ odd' = FALSE
  /\ UNCHANGED <<cached, size, update, fileVars>>

-------------------------------------------------------------------------------
\* A scan at an event.

\* Not the code: the slice begins at the overlap, whatever byte that is.
MidStart(text, old) ==
  LET from == IF old > Overlap THEN old - Overlap ELSE 0
  IN Min({from, Len(text)})

\* The start of the slice, with the bytes of a character that is begun before it
\* left out.
Start(text, old) ==
  LET from == IF old > Overlap THEN old - Overlap ELSE 0
      first == Min({from, Len(text)})
      later == {k \in first .. Len(text) : k = Len(text) \/ text[k + 1] # Cont}
  IN Min(later)

ScanSlice(text, old) == SubSeq(text, Start(text, old) + 1, Len(text))

\* The size and the modification time are taken, the file is mapped.
MapFile ==
  /\ phase = "watching" /\ phase' = "mapped"
  /\ size' = Len(disk) /\ touched' = FALSE
  /\ UNCHANGED <<vars, cached, update, newest, disk, rest, skipped, replaced>>

\* The slice is read from the map; a file that has not grown has nothing new.
ReadSlice ==
  /\ phase = "mapped" /\ Len(disk) >= size
  /\ LET text == SubSeq(disk, 1, size)
     IN /\ size > cached => Valid(ScanSlice(text, cached))
        /\ update' = IF size > cached THEN Newest(ScanSlice(text, cached)) ELSE None
  /\ phase' = "read"
  /\ UNCHANGED <<vars, cached, size, newest, fileVars>>

\* The file has been cut meanwhile: before the check of the mapped length, which
\* reports it (DropScan), or after it, and an access beyond the end kills the
\* process.
ReadBeyond ==
  /\ phase = "mapped" /\ Len(disk) < size /\ size > cached
  /\ phase' = "dead"
  /\ UNCHANGED <<vars, cached, size, update, newest, fileVars>>

\* With nothing to read the cut is noticed at the end.
ReadNothing ==
  /\ phase = "mapped" /\ Len(disk) < size /\ size <= cached
  /\ phase' = "read" /\ update' = None
  /\ UNCHANGED <<vars, cached, size, newest, fileVars>>

EndScan == phase' = "watching" /\ size' = 0 /\ update' = None /\ touched' = FALSE

\* Not the code: the size is cached although the file has changed.
CacheAnyway ==
  /\ phase = "read" /\ cached' = Len(disk)
  /\ skipped' = IF size < cached THEN size ELSE skipped
  /\ newest' = IF update = None THEN newest
               ELSE IF newest = None THEN update ELSE Max({newest, update})
  /\ EndScan
  /\ UNCHANGED <<vars, disk, rest, replaced>>

\* The file is as it was: the cursor moves, also backwards.  apply_limit_update
\* keeps the newest update.
KeepScan ==
  /\ phase = "read" /\ ~touched
  /\ cached' = size
  /\ skipped' = IF size < cached THEN size ELSE skipped
  /\ newest' = IF update = None THEN newest
               ELSE IF newest = None THEN update ELSE Max({newest, update})
  /\ EndScan
  /\ UNCHANGED <<vars, disk, rest, replaced>>

\* Any ScanFailure: the text is cut within a character, the file has changed or
\* is shorter than its size, or a call failed.  The cursor stays.
DropScan ==
  /\ Scanning /\ EndScan
  /\ UNCHANGED <<vars, cached, newest, disk, rest, skipped, replaced>>

-------------------------------------------------------------------------------
Program == Append1 \/ BeginLine \/ Replace
Baseline == CacheSize \/ OpenBaseline \/ BaselineStep \/ BaselineFails \/ BaselineDone
EventScan == MapFile \/ ReadSlice \/ ReadBeyond \/ ReadNothing \/ KeepScan \/ DropScan
ScanNext == Program \/ Baseline \/ EventScan

TranscriptSpec == StartInit /\ [][ScanNext]_allVars /\ WF_allVars(BaselineStep)

-------------------------------------------------------------------------------
\* A row as long as the overlap, and one byte more, is found however its writing
\* and the scans are cut into pieces: when the cursor is at the end of the file,
\* no row that ends behind the bytes the startup scan had, or the cursor passed
\* in a replaced file, is newer than all that was found.
NoRowIsOverlooked ==
  phase = "watching" /\ cached = Len(disk) =>
    \A i \in 1 .. Len(disk) :
      RowAt(disk, i) /\ i + 1 > skipped => newest # None /\ disk[i] <= newest

\* The slice of a text that is whole is a text: the scan does not fail, and fail
\* again, because the overlap begins within a character.
WholeTextIsRead ==
  phase = "mapped" /\ size <= Len(disk) /\ Valid(SubSeq(disk, 1, size)) =>
    Valid(ScanSlice(SubSeq(disk, 1, size), cached))
===============================================================================
