------------------------------- MODULE RunLogger -------------------------------
(***************************************************************************)
(* run_logger: every line of the queue goes to the viewers (LiveClients)   *)
(* and to the log file, which is renamed to the backup once it has grown   *)
(* over MaxSize.  Each of the file operations may fail.                    *)
(*                                                                         *)
(* In the files a line is its number, 0 stands for the note about a        *)
(* rotation; every line has size 1.  What the writer has buffered counts   *)
(* as being in the file.                                                   *)
(***************************************************************************)
EXTENDS LiveClients

CONSTANTS
  None,
  MaxSize,    \* MAX_LOG_SIZE
  Failing,    \* the operations that may fail
  MaxFaults   \* bound: failures

ASSUME FailingAssumption == Failing \subseteq {"flush", "rename", "create", "reopen", "write"}
ASSUME SizeAssumption == MaxSize \in Nat /\ MaxFaults \in Nat
ASSUME NoneAssumption == None \notin Seq(Nat)

Note == 0

VARIABLES
  log,      \* the lines of the log file, None if there is no such file
  backup,   \* those of the renamed file
  writer,   \* the file the writer has open: "log" or "backup"
  size,     \* current_size
  alive,    \* whether the logger is running
  faults,
  astray    \* history: whether a new log file could not be created

fileVars == <<log, backup, writer, size, alive, faults, astray>>
vars == <<clientVars, fileVars>>

Init ==
  /\ ClientInit
  /\ log = <<>> /\ backup = None /\ writer = "log" /\ size = 0
  /\ alive = TRUE /\ faults = 0 /\ astray = FALSE

-------------------------------------------------------------------------------
Line == lines + 1

\* The next line of the channel is taken and shown to the viewers; `failures`
\* are the operations that fail on it.
Take(failures) ==
  /\ alive /\ ShowLine
  /\ failures \subseteq Failing
  /\ faults' = faults + Cardinality(failures) /\ faults' <= MaxFaults
  /\ astray' = (astray \/ "create" \in failures)

\* The files after a rotation was tried, the one to write on, and its size.
\* The line is appended, or the write fails and the logger returns.
Write(newLog, newBackup, target, newSize, ok) ==
  /\ alive' = ok /\ writer' = target
  /\ log' = IF ok /\ target = "log" THEN Append(newLog, Line) ELSE newLog
  /\ backup' = IF ok /\ target = "backup" THEN Append(newBackup, Line) ELSE newBackup
  /\ size' = IF ok THEN newSize + 1 ELSE newSize

WriteFailure(ok) == IF ok THEN {} ELSE {"write"}

WriteLine(ok) ==
  /\ size <= MaxSize /\ Take(WriteFailure(ok))
  /\ Write(log, backup, writer, size, ok)

\* Without a flush there is no rotation; the next line tries again.
FlushFails(ok) ==
  /\ size > MaxSize /\ Take({"flush"} \cup WriteFailure(ok))
  /\ Write(log, backup, writer, size, ok)

\* Not the code: the size is not reset.
RotateForGood(ok) ==
  /\ size > MaxSize /\ log # None /\ Take(WriteFailure(ok))
  /\ Write(<<Note>>, log, "log", size + 1, ok)

\* The log becomes the backup, whose own lines are gone.
Rotate(ok) ==
  /\ size > MaxSize /\ log # None /\ Take(WriteFailure(ok))
  /\ Write(<<Note>>, log, "log", 1, ok)

\* The new log file cannot be created: the backup is written on.
CreateFails(ok) ==
  /\ size > MaxSize /\ log # None /\ Take({"create"} \cup WriteFailure(ok))
  /\ Write(None, log, "backup", size, ok)

\* The rename fails, as it must if there is no log file.
RenameFailure == IF log = None THEN {} ELSE {"rename"}

\* Not the code: the size is reset.
RenameFailsForGood(ok) ==
  /\ size > MaxSize /\ Take(RenameFailure \cup WriteFailure(ok))
  /\ Write(IF log = None THEN <<>> ELSE log, backup, "log", 0, ok)

\* The log is opened again, and created if need be.
RenameFails(ok) ==
  /\ size > MaxSize /\ Take(RenameFailure \cup WriteFailure(ok))
  /\ Write(IF log = None THEN <<>> ELSE log, backup, "log", size, ok)

\* Nothing can be opened after a failed rotation: the logger returns.
ReopenFails ==
  /\ size > MaxSize
  /\ \/ log # None /\ Take({"create", "reopen"}) /\ backup' = log /\ log' = None
     \/ Take({"reopen"} \cup RenameFailure) /\ UNCHANGED <<log, backup>>
  /\ alive' = FALSE
  /\ UNCHANGED <<writer, size>>

WriteToFile ==
  \/ \E ok \in BOOLEAN :
       WriteLine(ok) \/ FlushFails(ok) \/ Rotate(ok) \/ CreateFails(ok) \/ RenameFails(ok)
  \/ ReopenFails

Next == WriteToFile \/ (alive /\ Serve /\ UNCHANGED fileVars)

Spec == Init /\ [][Next]_vars

-------------------------------------------------------------------------------
\* The lines a file has.
LinesIn(file) == IF file = None THEN {} ELSE {file[i] : i \in 1 .. Len(file)}

\* How many lines were written.
Written == IF alive THEN lines ELSE lines - 1

\* The log and its backup together hold at least as many of the last lines as
\* one log file may have: a rotation saves the previous log although flush,
\* rename, reopening or writes fail.  It is not promised once a new log could
\* not be created.
PreviousLogIsSaved ==
  ~astray => \A line \in 1 .. Written :
               line >= lines - MaxSize => line \in LinesIn(log) \cup LinesIn(backup)

\* Whatever fails, the log exceeds its limit by no more than the line that
\* filled it and one line for every failure met: a rotation that failed is
\* tried again with the next line.
LogIsBounded ==
  log # None => Len(log) <= MaxSize + 2 + faults
===============================================================================
