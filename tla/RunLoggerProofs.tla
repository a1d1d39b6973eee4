----------------------------- MODULE RunLoggerProofs -----------------------------
(***************************************************************************)
(* What RunLogger promises of the log files, proved for a limit and a      *)
(* number of failures of any size, and what it promises its viewers, for   *)
(* any number of them.  The files use of the viewers only the number of    *)
(* lines, the viewers nothing of the files.                                *)
(***************************************************************************)
EXTENDS RunLogger, FiniteSetTheorems, SequenceTheorems, WellFoundedInduction, TLAPS

\* Which file the writer has open, and whether it is the log.
FilesType ==
  /\ lines \in Nat /\ size \in Nat /\ faults \in Nat
  /\ alive \in BOOLEAN /\ astray \in BOOLEAN /\ (~alive => lines > 0)
  /\ log \in Seq(Nat) \cup {None} /\ backup \in Seq(Nat) \cup {None}
  /\ writer \in {"log", "backup"}
  /\ alive /\ writer = "log" => log # None
  /\ alive /\ writer = "backup" => log = None /\ backup # None
  /\ ~astray => writer = "log" /\ log # None

\* The log is no longer than its size, which is too much only after failures.
SizeInv ==
  log # None => Len(log) <= size /\ Len(log) <= MaxSize + 2 + faults

\* How many of the last lines are in the log: the note of a rotation has its
\* place, too.
Kept == IF Note \in LinesIn(log) THEN size - 1 ELSE size

\* The last lines are in the log, and those before them in the backup.
SavedInv ==
  ~astray =>
    /\ Kept \in Nat /\ (alive => Kept > 0 \/ lines = 0)
    /\ \A line \in 1 .. Written : line > Written - Kept => line \in LinesIn(log)
    /\ \A line \in 1 .. Written :
         line > Written - Kept - MaxSize => line \in LinesIn(log) \cup LinesIn(backup)

IInv == FilesType /\ SizeInv /\ SavedInv

-------------------------------------------------------------------------------
(* The operators.                                                          *)

\* The failures of a rotation are finitely many.
LEMMA FiniteFailures == \A failures \in SUBSET Failing : IsFiniteSet(failures)
<1>1. IsFiniteSet({"flush"} \cup {"rename"} \cup {"create"} \cup {"reopen"} \cup {"write"})
  BY FS_Singleton, FS_Union
<1>2. Failing \subseteq {"flush"} \cup {"rename"} \cup {"create"} \cup {"reopen"} \cup {"write"}
  BY FailingAssumption
<1> QED
  BY <1>1, <1>2, FS_Subset

\* Every line taken has the next number, and every failure is counted.
LEMMA TakeFacts ==
  ASSUME FilesType, NEW failures, Take(failures)
  PROVE  /\ alive /\ lines' = lines + 1
         /\ faults' \in Nat /\ faults' >= faults /\ (failures # {} => faults' > faults)
         /\ astray' \in BOOLEAN /\ (~astray' => ~astray /\ "create" \notin failures)
         /\ (~astray /\ "create" \notin failures => ~astray')
<1>1. alive /\ lines' = lines + 1
  BY DEF Take, ShowLine, BufferLine, BroadcastLine
<1>2. Cardinality(failures) \in Nat /\ (failures # {} => Cardinality(failures) > 0)
  <2>1. IsFiniteSet(failures)
    BY FiniteFailures DEF Take
  <2> QED
    BY <2>1, FS_CardinalityType, FS_EmptySet
<1>3. faults' = faults + Cardinality(failures) /\ faults \in Nat
  BY DEF Take, FilesType
<1>4. astray' = (astray \/ "create" \in failures)
  BY DEF Take
<1>5. astray' \in BOOLEAN
  BY <1>4
<1>6. (~astray' => ~astray /\ "create" \notin failures)
      /\ (~astray /\ "create" \notin failures => ~astray')
  BY <1>4
<1> QED
  BY <1>1, <1>2, <1>3, <1>5, <1>6

\* The lines of a file that a line is appended to.
LEMMA LinesAppended ==
  ASSUME NEW file \in Seq(Nat), NEW line \in Nat
  PROVE  LinesIn(Append(file, line)) = LinesIn(file) \cup {line}
<1>1. Append(file, line) \in Seq(Nat) /\ Append(file, line) # None /\ file # None
  BY NoneAssumption
<1>2. /\ Len(Append(file, line)) = Len(file) + 1 /\ Len(file) \in Nat
      /\ Append(file, line)[Len(file) + 1] = line
      /\ \A i \in 1 .. Len(file) : Append(file, line)[i] = file[i]
  OBVIOUS
<1> QED
  BY <1>1, <1>2 DEF LinesIn

\* A new log has the note.
LEMMA LinesOfNew == LinesIn(<<Note>>) = {Note} /\ <<Note>> \in Seq(Nat) /\ <<Note>> # None
<1>1. <<Note>> \in Seq(Nat) /\ Len(<<Note>>) = 1 /\ <<Note>>[1] = Note
  BY DEF Note
<1>2. <<Note>> # None
  BY <1>1, NoneAssumption
<1> QED
  BY <1>1, <1>2 DEF LinesIn

-------------------------------------------------------------------------------
(* The sizes.                                                              *)

\* What a step makes of the file it writes to.
LEMMA WriteFacts ==
  ASSUME NEW newLog \in Seq(Nat) \cup {None}, NEW newBackup \in Seq(Nat) \cup {None},
         NEW target \in {"log", "backup"}, NEW newSize \in Nat, NEW ok \in BOOLEAN,
         lines \in Nat, Write(newLog, newBackup, target, newSize, ok),
         target = "log" => newLog # None, target = "backup" => newBackup # None
  PROVE  /\ alive' = ok /\ writer' = target
         /\ log' \in Seq(Nat) \cup {None} /\ backup' \in Seq(Nat) \cup {None}
         /\ log' = None <=> newLog = None
         /\ size' \in Nat
         /\ newLog # None => /\ Len(log') <= Len(newLog) + 1
                             /\ Len(newLog) <= newSize => Len(log') <= size' \/ target = "backup"
<1>1. CASE ok
  <2>1. CASE target = "log"
    <3>1. newLog \in Seq(Nat) /\ log' = Append(newLog, lines + 1) /\ backup' = newBackup
          /\ size' = newSize + 1
      BY <1>1, <2>1 DEF Write, Line
    <3>2. log' \in Seq(Nat) /\ Len(log') = Len(newLog) + 1 /\ Len(newLog) \in Nat
      BY <3>1
    <3> QED
      BY <1>1, <2>1, <3>1, <3>2, NoneAssumption DEF Write
  <2>2. CASE target = "backup"
    <3>1. newBackup \in Seq(Nat) /\ backup' = Append(newBackup, lines + 1) /\ log' = newLog
          /\ size' = newSize + 1
      BY <1>1, <2>2 DEF Write, Line
    <3>2. backup' \in Seq(Nat)
      BY <3>1
    <3> QED
      BY <1>1, <2>2, <3>1, <3>2 DEF Write
  <2> QED
    BY <2>1, <2>2
<1>2. CASE ~ok
  <2>1. log' = newLog /\ backup' = newBackup /\ size' = newSize
    BY <1>2 DEF Write
  <2>2. newLog # None => Len(newLog) \in Nat
    OBVIOUS
  <2> QED
    BY <1>2, <2>1, <2>2 DEF Write
<1> QED
  BY <1>1, <1>2

\* A line is written, or not, to the files that a rotation has left.
LEMMA LineWritten ==
  ASSUME FilesType, NEW failures, Take(failures),
         NEW newLog \in Seq(Nat) \cup {None}, NEW newBackup \in Seq(Nat) \cup {None},
         NEW target \in {"log", "backup"}, NEW newSize \in Nat, NEW ok \in BOOLEAN,
         Write(newLog, newBackup, target, newSize, ok),
         target = "log" => newLog # None,
         target = "backup" => /\ newLog = None /\ newBackup # None
                              /\ astray \/ "create" \in failures,
         newLog # None => Len(newLog) <= newSize /\ Len(newLog) <= MaxSize + 1 + faults'
  PROVE  FilesType' /\ SizeInv'
<1>1. /\ alive /\ lines' = lines + 1 /\ lines \in Nat /\ faults' \in Nat
      /\ (~astray' => ~astray /\ "create" \notin failures) /\ astray' \in BOOLEAN
  BY TakeFacts DEF FilesType
<1>2. /\ alive' = ok /\ writer' = target
      /\ log' \in Seq(Nat) \cup {None} /\ backup' \in Seq(Nat) \cup {None}
      /\ log' = None <=> newLog = None
      /\ size' \in Nat
      /\ newLog # None => /\ Len(log') <= Len(newLog) + 1
                          /\ Len(newLog) <= newSize => Len(log') <= size' \/ target = "backup"
  BY <1>1, WriteFacts
<1>3. ASSUME target = "backup" PROVE backup' # None
  <2>1. newBackup \in Seq(Nat) /\ newBackup # None
    BY <1>3
  <2>2. CASE ok
    <3>1. backup' = Append(newBackup, lines + 1)
      BY <1>3, <2>2 DEF Write, Line
    <3>2. Append(newBackup, lines + 1) \in Seq(Nat)
      BY <1>1, <2>1
    <3> QED
      BY <3>1, <3>2, NoneAssumption
  <2>3. CASE ~ok
    BY <2>1, <2>3 DEF Write
  <2> QED
    BY <2>2, <2>3
<1>4. lines' \in Nat /\ lines' > 0
  BY <1>1
<1>5. FilesType'
  BY <1>1, <1>2, <1>3, <1>4 DEF FilesType
<1>6. SizeInv'
  <2> SUFFICES ASSUME log' # None PROVE Len(log') <= size' /\ Len(log') <= MaxSize + 2 + faults'
    BY DEF SizeInv
  <2>1. newLog # None /\ newLog \in Seq(Nat) /\ log' \in Seq(Nat) /\ target = "log"
    BY <1>2
  <2>2. Len(newLog) \in Nat /\ Len(log') \in Nat /\ MaxSize \in Nat
    BY <2>1, SizeAssumption
  <2>3. Len(log') <= Len(newLog) + 1 /\ Len(log') <= size'
    BY <1>2, <2>1
  <2> QED
    BY <1>1, <2>1, <2>2, <2>3
<1> QED
  BY <1>5, <1>6

\* The files and their sizes after every way a line can go.
LEMMA WriteSteps ==
  ASSUME FilesType, SizeInv, WriteToFile
  PROVE  FilesType' /\ SizeInv'
<1>0. MaxSize \in Nat /\ size \in Nat /\ faults \in Nat
  BY SizeAssumption DEF FilesType
<1>1. ASSUME NEW ok \in BOOLEAN, WriteLine(ok) PROVE FilesType' /\ SizeInv'
  <2>1. size <= MaxSize /\ Take(WriteFailure(ok)) /\ Write(log, backup, writer, size, ok)
    BY <1>1 DEF WriteLine
  <2>2. log # None => Len(log) <= size /\ Len(log) <= MaxSize + 1 + faults'
    BY <1>0, <2>1, TakeFacts DEF SizeInv
  <2>3. /\ writer \in {"log", "backup"} /\ (writer = "log" => log # None)
        /\ writer = "backup" => log = None /\ backup # None /\ astray
        /\ log \in Seq(Nat) \cup {None} /\ backup \in Seq(Nat) \cup {None}
    BY <2>1, TakeFacts DEF FilesType
  <2> QED
    BY <1>0, <2>1, <2>2, <2>3, LineWritten
<1>2. ASSUME NEW ok \in BOOLEAN, FlushFails(ok) PROVE FilesType' /\ SizeInv'
  <2>1. Take({"flush"} \cup WriteFailure(ok)) /\ Write(log, backup, writer, size, ok)
    BY <1>2 DEF FlushFails
  <2>2. log # None => Len(log) <= size /\ Len(log) <= MaxSize + 1 + faults'
    <3>1. {"flush"} \cup WriteFailure(ok) # {}
      OBVIOUS
    <3>2. faults' \in Nat /\ faults' > faults
      BY <2>1, <3>1, TakeFacts
    <3>3. log # None => Len(log) \in Nat
      BY DEF FilesType
    <3> QED
      BY <1>0, <3>2, <3>3 DEF SizeInv
  <2>3. /\ writer \in {"log", "backup"} /\ (writer = "log" => log # None)
        /\ writer = "backup" => log = None /\ backup # None /\ astray
        /\ log \in Seq(Nat) \cup {None} /\ backup \in Seq(Nat) \cup {None}
    BY <2>1, TakeFacts DEF FilesType
  <2> QED
    BY <1>0, <2>1, <2>2, <2>3, LineWritten
<1>3. ASSUME NEW ok \in BOOLEAN, Rotate(ok) PROVE FilesType' /\ SizeInv'
  <2>1. log # None /\ Take(WriteFailure(ok)) /\ Write(<<Note>>, log, "log", 1, ok)
    BY <1>3 DEF Rotate
  <2>2. Len(<<Note>>) <= 1 /\ Len(<<Note>>) <= MaxSize + 1 + faults'
    BY <1>0, <2>1, TakeFacts
  <2>3. log \in Seq(Nat) \cup {None}
    BY DEF FilesType
  <2> QED
    BY <2>1, <2>2, <2>3, LinesOfNew, LineWritten
<1>4. ASSUME NEW ok \in BOOLEAN, CreateFails(ok) PROVE FilesType' /\ SizeInv'
  <2>1. log # None /\ Take({"create"} \cup WriteFailure(ok)) /\ Write(None, log, "backup", size, ok)
    BY <1>4 DEF CreateFails
  <2>2. log \in Seq(Nat) \cup {None}
    BY DEF FilesType
  <2> QED
    BY <1>0, <2>1, <2>2, LineWritten
<1>5. ASSUME NEW ok \in BOOLEAN, RenameFails(ok) PROVE FilesType' /\ SizeInv'
  <2> DEFINE newLog == IF log = None THEN <<>> ELSE log
  <2>1. /\ Take(RenameFailure \cup WriteFailure(ok)) /\ Write(newLog, backup, "log", size, ok)
        /\ log # None => "rename" \in RenameFailure \cup WriteFailure(ok)
    BY <1>5 DEF RenameFails, RenameFailure
  <2>2. newLog \in Seq(Nat) /\ newLog # None /\ backup \in Seq(Nat) \cup {None}
    <3>1. <<>> \in Seq(Nat) /\ log \in Seq(Nat) \cup {None} /\ backup \in Seq(Nat) \cup {None}
      BY DEF FilesType
    <3> QED
      BY <3>1, NoneAssumption
  <2> HIDE DEF newLog
  <2>3. faults' \in Nat /\ (log # None => faults' > faults)
    BY <2>1, TakeFacts
  <2>4. Len(newLog) <= size /\ Len(newLog) <= MaxSize + 1 + faults'
    BY <1>0, <2>3 DEF SizeInv, FilesType, newLog
  <2> QED
    BY <1>0, <2>1, <2>2, <2>4, LineWritten
<1>6. CASE ReopenFails
  <2>1. PICK failures : Take(failures)
    BY <1>6 DEF ReopenFails
  <2>2. alive' = FALSE /\ UNCHANGED <<writer, size>>
    BY <1>6 DEF ReopenFails
  <2>3. \/ log' = None /\ backup' = log /\ log # None /\ Take({"create", "reopen"})
        \/ UNCHANGED <<log, backup>>
    BY <1>6 DEF ReopenFails
  <2>4. alive /\ lines' = lines + 1 /\ faults' \in Nat /\ astray' \in BOOLEAN /\ (~astray' => ~astray)
    BY <2>1, TakeFacts
  <2>5. ~astray' => UNCHANGED <<log, backup>>
    BY <2>3, TakeFacts
  <2>6. ~astray' => writer' = "log" /\ log' # None
    BY <2>2, <2>4, <2>5 DEF FilesType
  <2>7. FilesType'
    <3>1. /\ lines' \in Nat /\ lines' > 0 /\ size' \in Nat /\ writer' \in {"log", "backup"}
          /\ log' \in Seq(Nat) \cup {None} /\ backup' \in Seq(Nat) \cup {None}
      BY <2>2, <2>3, <2>4 DEF FilesType
    <3> QED
      BY <2>2, <2>4, <2>6, <3>1 DEF FilesType
  <2>8. SizeInv'
    BY <1>0, <2>1, <2>2, <2>3, TakeFacts DEF SizeInv, FilesType
  <2> QED
    BY <2>7, <2>8
<1> QED
  BY <1>1, <1>2, <1>3, <1>4, <1>5, <1>6 DEF WriteToFile

-------------------------------------------------------------------------------
(* The lines.                                                              *)

\* A line is appended to the log.
LEMMA SavedAppended ==
  ASSUME FilesType, SavedInv, ~astray, alive, alive', lines' = lines + 1,
         log' = Append(log, lines + 1), backup' = backup, size' = size + 1
  PROVE  SavedInv'
<1>1. /\ log \in Seq(Nat) /\ lines \in Nat /\ size \in Nat /\ MaxSize \in Nat
      /\ Written = lines /\ Written' = lines + 1
  BY SizeAssumption DEF FilesType, Written
<1>2. LinesIn(log') = LinesIn(log) \cup {lines + 1}
  BY <1>1, LinesAppended
<1>3. Kept \in Nat /\ Kept' = Kept + 1
  BY <1>1, <1>2 DEF Kept, Note, SavedInv
<1>4. \A line \in 1 .. Written' : line \in 1 .. Written \/ line = lines + 1
  BY <1>1
<1>5. Written' - Kept' = Written - Kept /\ Written' - Kept' - MaxSize = Written - Kept - MaxSize
  BY <1>1, <1>3
<1> QED
  BY <1>2, <1>3, <1>4, <1>5 DEF SavedInv

\* The logger returns and the line is in no file.
LEMMA SavedRefused ==
  ASSUME FilesType, SavedInv, ~astray, alive, ~alive', lines' = lines + 1,
         UNCHANGED <<log, backup, size>>
  PROVE  SavedInv'
<1>1. Written' = Written
  BY DEF Written, FilesType
<1> QED
  BY <1>1 DEF SavedInv, Kept, LinesIn

\* The log is full of lines when it becomes the backup.
LEMMA SavedRotated ==
  ASSUME FilesType, SavedInv, ~astray, alive, lines' = lines + 1, NEW ok \in BOOLEAN,
         size > MaxSize, Write(<<Note>>, log, "log", 1, ok)
  PROVE  SavedInv'
<1>1. /\ log \in Seq(Nat) /\ lines \in Nat /\ size \in Nat /\ MaxSize \in Nat
      /\ Written = lines /\ backup' = log /\ alive' = ok
  BY SizeAssumption DEF FilesType, Written, Write
<1>2. Kept \in Nat /\ Kept >= MaxSize
  BY <1>1 DEF Kept, SavedInv
<1>3. \A line \in 1 .. lines : line > lines - MaxSize => line \in LinesIn(backup')
  BY <1>1, <1>2 DEF SavedInv
<1>4. CASE ok
  <2>1. log' = Append(<<Note>>, lines + 1) /\ size' = 2 /\ Written' = lines + 1
    BY <1>1, <1>4 DEF Write, Line, Written
  <2>2. LinesIn(log') = {Note, lines + 1}
    <3>1. lines + 1 \in Nat /\ LinesIn(<<Note>>) = {Note} /\ <<Note>> \in Seq(Nat)
      BY <1>1, LinesOfNew
    <3>2. LinesIn(Append(<<Note>>, lines + 1)) = LinesIn(<<Note>>) \cup {lines + 1}
      BY <3>1, LinesAppended
    <3> QED
      BY <2>1, <3>1, <3>2
  <2>3. Kept' = 1
    BY <2>1, <2>2 DEF Kept
  <2>4. \A line \in 1 .. Written' : line \in 1 .. lines \/ line = lines + 1
    BY <1>1, <2>1
  <2> QED
    BY <1>1, <1>3, <2>1, <2>2, <2>3, <2>4 DEF SavedInv
<1>5. CASE ~ok
  <2>1. log' = <<Note>> /\ size' = 1 /\ Written' = lines
    BY <1>1, <1>5 DEF Write, Written
  <2>2. Kept' = 0
    BY <2>1, LinesOfNew DEF Kept
  <2> QED
    BY <1>1, <1>3, <1>5, <2>1, <2>2 DEF SavedInv
<1> QED
  BY <1>4, <1>5

\* A line that is written, or not, to the log as it is.
LEMMA SavedWritten ==
  ASSUME FilesType, SavedInv, ~astray, alive, lines' = lines + 1, NEW ok \in BOOLEAN,
         Write(log, backup, "log", size, ok)
  PROVE  SavedInv'
<1>1. CASE ok
  BY <1>1, SavedAppended DEF Write, Line
<1>2. CASE ~ok
  BY <1>2, SavedRefused DEF Write
<1> QED
  BY <1>1, <1>2

\* Every step keeps the lines before the rotation saved.
LEMMA SavedSteps ==
  ASSUME FilesType, SavedInv, WriteToFile
  PROVE  SavedInv'
<1> SUFFICES ASSUME ~astray' PROVE SavedInv'
  BY DEF SavedInv
<1>0. PICK failures : Take(failures)
  BY DEF WriteToFile, WriteLine, FlushFails, Rotate, CreateFails, RenameFails, ReopenFails
<1>1. ~astray /\ alive /\ lines' = lines + 1 /\ writer = "log" /\ log # None
  BY <1>0, TakeFacts DEF FilesType
<1>2. ASSUME NEW ok \in BOOLEAN, WriteLine(ok) \/ FlushFails(ok) \/ RenameFails(ok) PROVE SavedInv'
  BY <1>1, <1>2, SavedWritten DEF WriteLine, FlushFails, RenameFails
<1>3. ASSUME NEW ok \in BOOLEAN, Rotate(ok) PROVE SavedInv'
  BY <1>1, <1>3, SavedRotated DEF Rotate
<1>4. ASSUME NEW ok \in BOOLEAN, CreateFails(ok) PROVE FALSE
  BY <1>4, TakeFacts DEF CreateFails
<1>5. CASE ReopenFails
  <2>1. alive' = FALSE /\ size' = size /\ UNCHANGED <<log, backup>>
    BY <1>5, TakeFacts DEF ReopenFails
  <2> QED
    BY <1>1, <2>1, SavedRefused
<1> QED
  BY <1>2, <1>3, <1>4, <1>5 DEF WriteToFile

-------------------------------------------------------------------------------
(* Removing the viewers that were given up.                                *)

\* A set of naturals that has 0 and the successor of each has them all.
LEMMA NaturalsClosed ==
  ASSUME NEW S \in SUBSET Nat, 0 \in S, \A k \in S : k + 1 \in S
  PROVE  S = Nat
<1> SUFFICES ASSUME Nat \ S # {} PROVE FALSE
  OBVIOUS
<1>1. \E least \in Nat \ S : \A other \in Nat \ S : ~(<<other, least>> \in OpToRel(<, Nat))
  BY NatLessThanWellFounded, WFMin
<1>2. PICK least \in Nat \ S : \A other \in Nat \ S : ~(<<other, least>> \in OpToRel(<, Nat))
  BY <1>1
<1>3. least - 1 \in Nat /\ least = (least - 1) + 1 /\ least - 1 < least
  OBVIOUS
<1>4. <<least - 1, least>> \in {pair \in Nat \X Nat : pair[1] < pair[2]}
  BY <1>3
<1>5. least - 1 \notin Nat \ S
  BY <1>2, <1>4 DEF OpToRel
<1> QED
  BY <1>3, <1>5

\* A set of numbers up to n has a greatest.
LEMMA MaxType ==
  ASSUME NEW n \in Nat, NEW s \in SUBSET (1 .. n), s # {}
  PROVE  Max(s) \in s /\ \A other \in s : other <= Max(s)
<1> DEFINE Bounded(k) == \A t \in SUBSET (1 .. k) : t # {} => \E last \in t : \A other \in t : last >= other
           S == {k \in Nat : Bounded(k)}
<1>1. Bounded(0)
  BY 1 .. 0 = {}
<1>2. ASSUME NEW k \in Nat, Bounded(k) PROVE Bounded(k + 1)
  <2> SUFFICES ASSUME NEW t \in SUBSET (1 .. k + 1), t # {}
               PROVE  \E last \in t : \A other \in t : last >= other
    OBVIOUS
  <2>1. CASE k + 1 \in t
    BY <2>1
  <2>2. CASE k + 1 \notin t
    <3>1. t \in SUBSET (1 .. k)
      BY <2>2
    <3> QED
      BY <1>2, <3>1
  <2> QED
    BY <2>1, <2>2
<1>3. S = Nat
  <2>1. S \in SUBSET Nat /\ 0 \in S
    BY <1>1
  <2>2. \A k \in S : k + 1 \in S
    BY <1>2
  <2> HIDE DEF S
  <2> QED
    BY <2>1, <2>2, NaturalsClosed
<1>4. Bounded(n)
  BY <1>3
<1>5. \E last \in s : \A other \in s : last >= other
  BY <1>4
<1>6. Max(s) \in s /\ \A other \in s : Max(s) >= other
  BY <1>5 DEF Max
<1> QED
  BY <1>6

\* What RemoveDead does at a place.
Turn(list, i, dead) == IF i \in dead THEN RemoveAt(list, i) ELSE list

\* The function by which the fold is defined.
IsFold(f, k, list, dead, places) ==
  f = [s \in SUBSET (1 .. k) |->
         IF s = {} THEN list ELSE Turn(f[s \ {Max(s)}], places[Max(s)], dead)]

\* It exists for one place more.
LEMMA FoldGrows ==
  ASSUME NEW k \in Nat, NEW list, NEW dead, NEW places, NEW f,
         IsFold(f, k, list, dead, places)
  PROVE  \E g : IsFold(g, k + 1, list, dead, places)
<1> DEFINE g == [s \in SUBSET (1 .. k + 1) |->
                   IF k + 1 \in s THEN Turn(f[s \ {k + 1}], places[k + 1], dead) ELSE f[s]]
           Value(s) == IF s = {} THEN list ELSE Turn(g[s \ {Max(s)}], places[Max(s)], dead)
<1>1. k + 1 \in Nat /\ k + 1 \notin 1 .. k /\ 1 .. k + 1 = (1 .. k) \cup {k + 1}
  OBVIOUS
<1>2. ASSUME NEW s \in SUBSET (1 .. k)
      PROVE  /\ g[s] = f[s]
             /\ f[s] = IF s = {} THEN list ELSE Turn(f[s \ {Max(s)}], places[Max(s)], dead)
  <2>1. s \in SUBSET (1 .. k + 1) /\ k + 1 \notin s
    BY <1>1, <1>2
  <2> QED
    BY <2>1 DEF IsFold
<1>3. ASSUME NEW s \in SUBSET (1 .. k + 1) PROVE g[s] = Value(s)
  <2>1. CASE k + 1 \in s
    <3>1. Max(s) \in 1 .. k + 1 /\ k + 1 <= Max(s)
      BY <1>1, <1>3, <2>1, MaxType
    <3>2. Max(s) = k + 1
      BY <3>1
    <3>3. s \ {k + 1} \in SUBSET (1 .. k) /\ s # {}
      BY <1>1, <1>3, <2>1
    <3>4. g[s] = Turn(f[s \ {k + 1}], places[k + 1], dead)
      BY <1>3, <2>1
    <3>5. g[s \ {k + 1}] = f[s \ {k + 1}]
      BY <1>2, <3>3
    <3> HIDE DEF g
    <3> QED
      BY <3>2, <3>3, <3>4, <3>5
  <2>2. CASE k + 1 \notin s
    <3>1. s \in SUBSET (1 .. k)
      BY <1>1, <1>3, <2>2
    <3>2. s # {} => Max(s) \in s
      BY <3>1, MaxType
    <3>3. s \ {Max(s)} \in SUBSET (1 .. k)
      BY <3>1
    <3>4. g[s \ {Max(s)}] = f[s \ {Max(s)}]
      BY <1>2, <3>3
    <3> HIDE DEF g
    <3> QED
      BY <1>2, <3>1, <3>4
  <2> QED
    BY <2>1, <2>2
<1>4. IsFold(g, k + 1, list, dead, places)
  BY <1>3 DEF IsFold
<1> HIDE DEF g
<1> QED
  BY <1>4

\* It exists for any number of places.
LEMMA FoldExists ==
  ASSUME NEW n \in Nat, NEW list, NEW dead, NEW places
  PROVE  \E f : IsFold(f, n, list, dead, places)
<1> DEFINE S == {k \in Nat : \E f : IsFold(f, k, list, dead, places)}
<1>1. 0 \in S
  <2> DEFINE f == [s \in SUBSET (1 .. 0) |-> list]
  <2>1. \A s \in SUBSET (1 .. 0) : s = {}
    OBVIOUS
  <2>2. IsFold(f, 0, list, dead, places)
    BY <2>1 DEF IsFold
  <2> HIDE DEF f
  <2> QED
    BY <2>2
<1>2. ASSUME NEW k \in S PROVE k + 1 \in S
  <2>1. k \in Nat /\ \E f : IsFold(f, k, list, dead, places)
    BY <1>2
  <2>2. \E f : IsFold(f, k + 1, list, dead, places)
    BY <2>1, FoldGrows
  <2> QED
    BY <2>1, <2>2
<1>3. S \in SUBSET Nat
  OBVIOUS
<1>4. S = Nat
  <2> HIDE DEF S
  <2> QED
    BY <1>1, <1>2, <1>3, NaturalsClosed
<1> QED
  BY <1>4

\* RemoveDead goes through the places from the last to the first.
LEMMA RemoveDeadSteps ==
  ASSUME NEW S, NEW list \in Seq(S), NEW dead, NEW n \in Nat, n = Len(list)
  PROVE  \E left : /\ left[0] = list /\ left[n] = RemoveDead(list, dead)
                   /\ \A k \in 0 .. n - 1 : left[k + 1] = Turn(left[k], n - k, dead)
<1> DEFINE places == Reverse(Places(list))
           fold == CHOOSE f : IsFold(f, n, list, dead, places)
           left == [k \in 0 .. n |-> fold[1 .. k]]
<1>1. /\ Places(list) = [i \in 1 .. n |-> i] /\ Len(Places(list)) = n
      /\ places = [i \in 1 .. n |-> n - i + 1] /\ DOMAIN places = 1 .. n
  <2>1. Places(list) = [i \in 1 .. n |-> i]
    BY DEF Places
  <2>2. Places(list) \in Seq(Nat) /\ Len(Places(list)) = n
    BY <2>1
  <2>3. \A i \in 1 .. n : n - i + 1 \in 1 .. n /\ Places(list)[n - i + 1] = n - i + 1
    BY <2>1
  <2>4. places = [i \in 1 .. n |-> n - i + 1]
    BY <2>2, <2>3 DEF Reverse
  <2> QED
    BY <2>1, <2>2, <2>4
<1> HIDE DEF places
<1>2. IsFold(fold, n, list, dead, places)
  BY FoldExists
<1>3. RemoveDead(list, dead) = fold[1 .. n]
  BY <1>1 DEF RemoveDead, FoldLeft, MapThenFoldSet, IsFold, Turn, places
<1> HIDE DEF fold
<1>4. left[0] = list
  <2>1. 1 .. 0 = {} /\ {} \in SUBSET (1 .. n) /\ 0 \in 0 .. n
    OBVIOUS
  <2> QED
    BY <1>2, <2>1 DEF IsFold
<1>5. ASSUME NEW k \in 0 .. n - 1 PROVE left[k + 1] = Turn(left[k], n - k, dead)
  <2>1. k \in Nat /\ k + 1 \in Nat /\ k + 1 \in 1 .. n /\ k \in 0 .. n /\ k + 1 \in 0 .. n
    BY <1>5
  <2>6. 1 .. k + 1 \in SUBSET (1 .. n) /\ 1 .. k + 1 \in SUBSET (1 .. k + 1) /\ k + 1 \in 1 .. k + 1
    BY <2>1
  <2>2. Max(1 .. k + 1) = k + 1
    <3>1. Max(1 .. k + 1) \in 1 .. k + 1 /\ k + 1 <= Max(1 .. k + 1)
      BY <2>1, <2>6, MaxType
    <3> QED
      BY <2>1, <3>1
  <2>3. (1 .. k + 1) \ {k + 1} = 1 .. k
    BY <2>1
  <2>4. fold[1 .. k + 1] = Turn(fold[1 .. k], places[k + 1], dead)
    BY <1>2, <2>2, <2>3, <2>6 DEF IsFold
  <2>5. places[k + 1] = n - k
    BY <1>1, <2>1
  <2> QED
    BY <2>1, <2>4, <2>5
<1>6. left[n] = RemoveDead(list, dead)
  BY <1>3
<1> HIDE DEF left
<1> QED
  BY <1>4, <1>5, <1>6

\* One element less.
LEMMA RemoveAtFacts ==
  ASSUME NEW S, NEW list \in Seq(S), NEW i \in 1 .. Len(list)
  PROVE  /\ RemoveAt(list, i) \in Seq(S) /\ Len(RemoveAt(list, i)) = Len(list) - 1
         /\ \A j \in 1 .. i - 1 : RemoveAt(list, i)[j] = list[j]
         /\ \A j \in i .. Len(list) - 1 : RemoveAt(list, i)[j] = list[j + 1]
<1> DEFINE front == SubSeq(list, 1, i - 1)
           back == SubSeq(list, i + 1, Len(list))
<1>1. Len(list) \in Nat /\ i \in Nat /\ i - 1 \in Nat /\ i <= Len(list) /\ i >= 1
  OBVIOUS
<1>2. front \in Seq(S) /\ Len(front) = i - 1 /\ \A j \in 1 .. i - 1 : front[j] = list[j]
  BY <1>1
<1>3. /\ back \in Seq(S) /\ Len(back) = Len(list) - i
      /\ \A j \in 1 .. Len(list) - i : back[j] = list[i + j]
  BY <1>1
<1> HIDE DEF front, back
<1>4. RemoveAt(list, i) = front \o back
  BY DEF RemoveAt, front, back
<1>5. front \o back \in Seq(S) /\ Len(front \o back) = Len(list) - 1
  <2>1. front \o back \in Seq(S) /\ Len(front \o back) = Len(front) + Len(back)
    BY <1>2, <1>3
  <2> QED
    BY <1>1, <1>2, <1>3, <2>1
<1>6. ASSUME NEW j \in 1 .. i - 1 PROVE (front \o back)[j] = list[j]
  <2>1. j \in 1 .. Len(front) /\ j \in 1 .. Len(front) + Len(back)
    BY <1>1, <1>2, <1>3, <1>6
  <2>2. (front \o back)[j] = front[j]
    BY <1>2, <1>3, <2>1
  <2> QED
    BY <1>2, <1>6, <2>2
<1>7. ASSUME NEW j \in i .. Len(list) - 1 PROVE (front \o back)[j] = list[j + 1]
  <2>1. /\ j \in Nat /\ j - (i - 1) \in 1 .. Len(list) - i /\ i + (j - (i - 1)) = j + 1
        /\ j \in 1 .. Len(front) + Len(back) /\ j > Len(front)
    BY <1>1, <1>2, <1>3
  <2>2. (front \o back)[j] = back[j - (i - 1)]
    BY <1>2, <1>3, <2>1
  <2> QED
    BY <1>3, <2>1, <2>2
<1> QED
  BY <1>4, <1>5, <1>6, <1>7

\* What is left of a list are elements that were not to be removed: none is
\* removed in the place of another.
LEMMA RemoveDeadLeaves ==
  ASSUME NEW S, NEW list \in Seq(S), NEW dead
  PROVE  /\ RemoveDead(list, dead) \in Seq(S)
         /\ \A j \in 1 .. Len(RemoveDead(list, dead)) :
              \E i \in (1 .. Len(list)) \ dead : RemoveDead(list, dead)[j] = list[i]
<1> DEFINE n == Len(list)
<1>1. n \in Nat
  OBVIOUS
<1>2. PICK left : /\ left[0] = list /\ left[n] = RemoveDead(list, dead)
                  /\ \A k \in 0 .. n - 1 : left[k + 1] = Turn(left[k], n - k, dead)
  BY RemoveDeadSteps
<1> HIDE DEF n
<1> DEFINE Leaves(k, l) ==
             /\ l \in Seq(S) /\ Len(l) >= n - k
             /\ \A j \in 1 .. n - k : l[j] = list[j]
             /\ \A j \in n - k + 1 .. Len(l) : \E i \in (1 .. n) \ dead : l[j] = list[i]
           T == {k \in Nat : k <= n => Leaves(k, left[k])}
<1>3. Leaves(0, list)
  <2>1. Len(list) = n /\ n - 0 = n
    BY <1>1 DEF n
  <2>2. \A j \in n - 0 + 1 .. Len(list) : FALSE
    BY <1>1, <2>1
  <2> QED
    BY <1>1, <2>1, <2>2
<1>4. ASSUME NEW k \in Nat, k + 1 <= n, NEW l, Leaves(k, l) PROVE Leaves(k + 1, Turn(l, n - k, dead))
  <2>1. /\ n - k \in 1 .. Len(l) /\ n - k \in 1 .. n /\ n - (k + 1) = (n - k) - 1 /\ Len(l) \in Nat
        /\ n - k \in Nat /\ (n - k) - 1 \in Nat /\ (n - k) - 1 + 1 = n - k
    BY <1>1, <1>4
  <2>2. l[n - k] = list[n - k]
    BY <1>4, <2>1
  <2>3. CASE n - k \notin dead
    <3>1. Turn(l, n - k, dead) = l
      BY <2>3 DEF Turn
    <3>2. ASSUME NEW j \in (n - k) - 1 + 1 .. Len(l) PROVE \E i \in (1 .. n) \ dead : l[j] = list[i]
      <4>1. CASE j = n - k
        BY <2>1, <2>2, <2>3, <4>1
      <4>2. CASE j # n - k
        <5>1. j \in n - k + 1 .. Len(l)
          BY <2>1, <3>2, <4>2
        <5> QED
          BY <1>4, <5>1
      <4> QED
        BY <4>1, <4>2
    <3>3. Len(l) >= (n - k) - 1 /\ \A j \in 1 .. (n - k) - 1 : j \in 1 .. n - k
      BY <2>1
    <3> QED
      BY <1>4, <2>1, <3>1, <3>2, <3>3
  <2>4. CASE n - k \in dead
    <3> DEFINE m == RemoveAt(l, n - k)
    <3>1. Turn(l, n - k, dead) = m
      BY <2>4 DEF Turn
    <3>2. /\ m \in Seq(S) /\ Len(m) = Len(l) - 1
          /\ \A j \in 1 .. (n - k) - 1 : m[j] = l[j]
          /\ \A j \in n - k .. Len(l) - 1 : m[j] = l[j + 1]
      BY <1>4, <2>1, RemoveAtFacts
    <3> HIDE DEF m
    <3>3. Len(m) >= (n - k) - 1
      BY <2>1, <3>2
    <3>4. ASSUME NEW j \in 1 .. (n - k) - 1 PROVE m[j] = list[j]
      <4>1. j \in 1 .. n - k
        BY <2>1, <3>4
      <4> QED
        BY <1>4, <3>2, <3>4, <4>1
    <3>5. ASSUME NEW j \in (n - k) - 1 + 1 .. Len(m) PROVE \E i \in (1 .. n) \ dead : m[j] = list[i]
      <4>1. j \in n - k .. Len(l) - 1 /\ j + 1 \in n - k + 1 .. Len(l)
        BY <2>1, <3>2, <3>5
      <4>2. m[j] = l[j + 1]
        BY <3>2, <4>1
      <4> QED
        BY <1>4, <4>1, <4>2
    <3> QED
      BY <2>1, <3>1, <3>2, <3>3, <3>4, <3>5
  <2> QED
    BY <2>3, <2>4
<1> HIDE DEF Leaves
<1>5. T = Nat
  <2>1. T \in SUBSET Nat /\ 0 \in T
    BY <1>2, <1>3
  <2>2. ASSUME NEW k \in T PROVE k + 1 \in T
    <3>1. k \in Nat /\ k + 1 \in Nat
      BY <2>2
    <3>2. ASSUME k + 1 <= n PROVE Leaves(k + 1, left[k + 1])
      <4>1. k \in 0 .. n - 1 /\ k <= n
        BY <1>1, <3>1, <3>2
      <4>2. Leaves(k, left[k])
        BY <2>2, <4>1
      <4>3. left[k + 1] = Turn(left[k], n - k, dead)
        BY <1>2, <4>1
      <4> QED
        BY <1>4, <3>1, <3>2, <4>2, <4>3
    <3> QED
      BY <3>1, <3>2
  <2> HIDE DEF T
  <2> QED
    BY <2>1, <2>2, NaturalsClosed
<1>6. Leaves(n, RemoveDead(list, dead))
  <2>1. n \in T
    BY <1>1, <1>5
  <2> QED
    BY <1>1, <1>2, <2>1
<1>7. n - n = 0 /\ 0 + 1 = 1
  BY <1>1
<1> QED
  BY <1>6, <1>7 DEF Leaves, n

-------------------------------------------------------------------------------
(* The numbers from one to another.                                        *)

LEMMA FromFacts ==
  ASSUME NEW first \in Nat, NEW last \in Nat, first <= last + 1
  PROVE  /\ From(first, last) \in Seq(Nat) /\ Len(From(first, last)) = last - first + 1
         /\ \A i \in 1 .. last - first + 1 : From(first, last)[i] = first + i - 1
<1>1. last - first + 1 \in Nat /\ \A i \in 1 .. last - first + 1 : first + i - 1 \in Nat
  OBVIOUS
<1>2. From(first, last) \in [1 .. last - first + 1 -> Nat]
  BY <1>1 DEF From
<1>3. From(first, last) \in Seq(Nat)
  BY <1>1, <1>2
<1> QED
  BY <1>1, <1>2, <1>3 DEF From

LEMMA FromGrows ==
  ASSUME NEW first \in Nat, NEW last \in Nat, first <= last + 1
  PROVE  Append(From(first, last), last + 1) = From(first, last + 1)
<1> DEFINE r == From(first, last)
           t == From(first, last + 1)
<1>1. /\ r \in Seq(Nat) /\ Len(r) = last - first + 1
      /\ \A i \in 1 .. last - first + 1 : r[i] = first + i - 1
  BY FromFacts
<1>2. /\ t \in Seq(Nat) /\ Len(t) = (last + 1) - first + 1
      /\ \A i \in 1 .. (last + 1) - first + 1 : t[i] = first + i - 1
  <2>1. last + 1 \in Nat /\ first <= (last + 1) + 1
    OBVIOUS
  <2> QED
    BY <2>1, FromFacts
<1> HIDE DEF r, t
<1>3. Append(r, last + 1) \in Seq(Nat) /\ Len(Append(r, last + 1)) = Len(t)
  BY <1>1, <1>2
<1>4. ASSUME NEW i \in 1 .. Len(Append(r, last + 1)) PROVE Append(r, last + 1)[i] = t[i]
  <2>1. i \in 1 .. (last + 1) - first + 1
    BY <1>2, <1>3, <1>4
  <2>2. CASE i \in 1 .. last - first + 1
    BY <1>1, <1>2, <2>1, <2>2
  <2>3. CASE i = Len(r) + 1
    BY <1>1, <1>2, <2>1, <2>3
  <2> QED
    BY <1>1, <2>1, <2>2, <2>3
<1>5. Append(r, last + 1) = t
  BY <1>2, <1>3, <1>4, SeqEqual
<1> QED
  BY <1>5 DEF r, t

LEMMA FromJoins ==
  ASSUME NEW first \in Nat, NEW mid \in Nat, NEW last \in Nat, first <= mid + 1, mid <= last
  PROVE  From(first, mid) \o From(mid + 1, last) = From(first, last)
<1> DEFINE r == From(first, mid)
           s == From(mid + 1, last)
           t == From(first, last)
<1>1. /\ r \in Seq(Nat) /\ Len(r) = mid - first + 1
      /\ \A i \in 1 .. mid - first + 1 : r[i] = first + i - 1
  BY FromFacts
<1>2. /\ s \in Seq(Nat) /\ Len(s) = last - (mid + 1) + 1
      /\ \A i \in 1 .. last - (mid + 1) + 1 : s[i] = (mid + 1) + i - 1
  <2>1. mid + 1 \in Nat /\ mid + 1 <= last + 1
    OBVIOUS
  <2> QED
    BY <2>1, FromFacts
<1>3. /\ t \in Seq(Nat) /\ Len(t) = last - first + 1
      /\ \A i \in 1 .. last - first + 1 : t[i] = first + i - 1
  <2>1. first <= last + 1
    OBVIOUS
  <2> QED
    BY <2>1, FromFacts
<1> HIDE DEF r, s, t
<1>4. /\ r \o s \in Seq(Nat) /\ Len(r \o s) = Len(r) + Len(s)
      /\ \A i \in 1 .. Len(r) + Len(s) : (r \o s)[i] = IF i <= Len(r) THEN r[i] ELSE s[i - Len(r)]
  BY <1>1, <1>2, ConcatProperties
<1>5. Len(r) + Len(s) = Len(t) /\ Len(r) \in Nat /\ Len(s) \in Nat
  BY <1>1, <1>2, <1>3
<1>6. ASSUME NEW i \in 1 .. Len(r \o s) PROVE (r \o s)[i] = t[i]
  <2>1. i \in 1 .. Len(r) + Len(s) /\ i \in 1 .. last - first + 1
    BY <1>3, <1>4, <1>5, <1>6
  <2>2. CASE i <= Len(r)
    <3>1. i \in 1 .. mid - first + 1
      BY <1>1, <2>1, <2>2
    <3> QED
      BY <1>1, <1>3, <1>4, <2>1, <2>2, <3>1
  <2>3. CASE ~(i <= Len(r))
    <3>1. i - Len(r) \in 1 .. last - (mid + 1) + 1 /\ (mid + 1) + (i - Len(r)) - 1 = first + i - 1
      BY <1>1, <1>2, <1>5, <2>1, <2>3
    <3>2. (r \o s)[i] = s[i - Len(r)]
      BY <1>4, <2>1, <2>3
    <3> QED
      BY <1>2, <1>3, <2>1, <3>1, <3>2
  <2> QED
    BY <2>2, <2>3
<1>7. r \o s = t
  BY <1>3, <1>4, <1>5, <1>6, SeqEqual
<1> QED
  BY <1>7 DEF r, s, t

LEMMA FromTail ==
  ASSUME NEW first \in Nat, NEW last \in Nat, first <= last
  PROVE  Tail(From(first, last)) = From(first + 1, last)
<1> DEFINE s == From(first, last)
           t == From(first + 1, last)
<1>1. /\ s \in Seq(Nat) /\ Len(s) = last - first + 1
      /\ \A i \in 1 .. last - first + 1 : s[i] = first + i - 1
  BY FromFacts
<1>2. /\ t \in Seq(Nat) /\ Len(t) = last - first
      /\ \A i \in 1 .. last - first : t[i] = first + i
  <2>1. first + 1 \in Nat /\ first + 1 <= last + 1
    OBVIOUS
  <2>2. /\ t \in Seq(Nat) /\ Len(t) = last - (first + 1) + 1
        /\ \A i \in 1 .. last - (first + 1) + 1 : t[i] = (first + 1) + i - 1
    BY <2>1, FromFacts
  <2> HIDE DEF t
  <2> QED
    BY <2>2
<1> HIDE DEF s, t
<1>3. s # <<>>
  BY <1>1
<1>4. /\ Tail(s) \in Seq(Nat) /\ Len(Tail(s)) = last - first
      /\ \A i \in 1 .. last - first : Tail(s)[i] = s[i + 1]
  BY <1>1, <1>3
<1>5. \A i \in 1 .. last - first : Tail(s)[i] = t[i]
  BY <1>1, <1>2, <1>4
<1>6. Tail(s) = t
  BY <1>2, <1>4, <1>5, SeqEqual
<1> QED
  BY <1>6 DEF s, t

-------------------------------------------------------------------------------
(* What the viewers have.                                                  *)

Viewer == [lines : Seq(Nat), status : Nat, since : Nat, first : BOOLEAN, whole : BOOLEAN]

ViewersType ==
  /\ clients \in Seq(Viewer) /\ buffer \in Seq(Nat)
  /\ lines \in Nat /\ status \in Nat /\ registered \in BOOLEAN

\* The first of the startup lines when n lines were taken.
FirstLine(n) == IF n > MaxStartup THEN n - MaxStartup + 1 ELSE 1

\* Until the first viewer is registered the buffer has the last lines.
StartupInv ==
  /\ hasFirst = registered
  /\ ~registered => clients = <<>> /\ buffer = From(FirstLine(lines), lines)

\* What one viewer has.
IsServed(c) ==
  /\ c.whole /\ (~unseen => c.status = status)
  /\ c.since <= lines /\ c.lines = buffer \o From(c.since + 1, lines)
  /\ c.first => buffer = From(FirstLine(c.since), c.since)

ServedInv == \A i \in 1 .. Len(clients) : IsServed(clients[i])

ViewersInv == ViewersType /\ StartupInv /\ ServedInv

LEMMA FirstLineFacts ==
  ASSUME NEW n \in Nat
  PROVE  FirstLine(n) \in Nat /\ FirstLine(n) <= n + 1 /\ FirstLine(n) >= 1
  BY StartupAssumption DEF FirstLine

LEMMA ConcatFacts ==
  ASSUME NEW s \in Seq(Nat), NEW t \in Seq(Nat), NEW u \in Seq(Nat)
  PROVE  (s \o t) \o u = s \o (t \o u)
  BY ConcatAssociative

LEMMA AppendToConcat ==
  ASSUME NEW s \in Seq(Nat), NEW t \in Seq(Nat), NEW n \in Nat
  PROVE  Append(s \o t, n) = s \o Append(t, n)
<1> DEFINE u == <<n>>
<1>1. u \in Seq(Nat)
  OBVIOUS
<1>2. s \o t \in Seq(Nat)
  BY ConcatProperties
<1>3. Append(s \o t, n) = (s \o t) \o u
  BY <1>2, AppendIsConcat
<1>4. Append(t, n) = t \o u
  BY AppendIsConcat
<1> HIDE DEF u
<1>5. (s \o t) \o u = s \o (t \o u)
  BY <1>1, ConcatFacts
<1> QED
  BY <1>3, <1>4, <1>5

\* A message leaves the viewers that took it, each with what it was sent.
LEMMA SendServes ==
  ASSUME ViewersType, NEW served, NEW dead, Send(served, dead),
         \A i \in 1 .. Len(clients) : served[i] \in Viewer
  PROVE  /\ clients' \in Seq(Viewer)
         /\ \A j \in 1 .. Len(clients') : \E i \in 1 .. Len(clients) : clients'[j] = served[i]
<1> DEFINE list == [i \in 1 .. Len(clients) |->
                      IF i \in dead THEN [clients[i] EXCEPT !.whole = FALSE] ELSE served[i]]
<1>1. Len(clients) \in Nat /\ clients \in Seq(Viewer)
  BY DEF ViewersType
<1>2. \A i \in 1 .. Len(clients) : [clients[i] EXCEPT !.whole = FALSE] \in Viewer
  <2> SUFFICES ASSUME NEW i \in 1 .. Len(clients) PROVE [clients[i] EXCEPT !.whole = FALSE] \in Viewer
    OBVIOUS
  <2>1. clients[i] \in Viewer
    BY <1>1
  <2> QED
    BY <2>1 DEF Viewer
<1>3. list \in [1 .. Len(clients) -> Viewer]
  BY <1>2
<1>4. list \in Seq(Viewer) /\ Len(list) = Len(clients)
  BY <1>1, <1>3
<1>5. clients' = RemoveDead(list, dead)
  BY DEF Send
<1>6. \A i \in (1 .. Len(clients)) \ dead : list[i] = served[i]
  OBVIOUS
<1> HIDE DEF list
<1>7. /\ RemoveDead(list, dead) \in Seq(Viewer)
      /\ \A j \in 1 .. Len(RemoveDead(list, dead)) :
           \E i \in (1 .. Len(list)) \ dead : RemoveDead(list, dead)[j] = list[i]
  BY <1>4, RemoveDeadLeaves
<1> QED
  BY <1>4, <1>5, <1>6, <1>7

\* The branches of the select! that serve viewers.
LEMMA ServeKeepsViewers ==
  ASSUME ViewersInv, Serve
  PROVE  ViewersInv'
<1> USE DEF ViewersInv
<1>1. CASE Accept
  <2> DEFINE c == Client(buffer)
  <2>1. /\ clients' = Append(clients, c) /\ hasFirst' = TRUE /\ registered' = TRUE
        /\ UNCHANGED <<buffer, lines, status, unseen>>
    BY <1>1 DEF Accept
  <2>2. clients \in Seq(Viewer) /\ lines \in Nat /\ status \in Nat /\ buffer \in Seq(Nat) /\ registered \in BOOLEAN
    BY DEF ViewersType
  <2>3. c \in Viewer
    BY <2>2 DEF Client, Viewer
  <2>4. IsServed(c)
    <3>1. lines + 1 \in Nat /\ From(lines + 1, lines) = <<>>
      <4>1. From(lines + 1, lines) \in Seq(Nat) /\ Len(From(lines + 1, lines)) = lines - (lines + 1) + 1
        <5>1. lines + 1 \in Nat /\ lines + 1 <= lines + 1
          BY <2>2
        <5> QED
          BY <2>2, <5>1, FromFacts
      <4>2. Len(From(lines + 1, lines)) = 0
        <5>1. lines - (lines + 1) + 1 = 0
          BY <2>2
        <5> QED
          BY <4>1, <5>1
      <4> QED
        BY <2>2, <4>1, <4>2
    <3>2. buffer \o From(lines + 1, lines) = buffer
      BY <2>2, <3>1, ConcatEmptySeq
    <3>3. /\ c.lines = buffer /\ c.status = status /\ c.since = lines /\ c.first = ~registered
          /\ c.whole = TRUE
      BY DEF Client
    <3> HIDE DEF c
    <3>4. c.first => buffer = From(FirstLine(c.since), c.since)
      BY <3>3 DEF StartupInv
    <3>5. c.since <= lines
      BY <2>2, <3>3
    <3> QED
      BY <3>2, <3>3, <3>4, <3>5 DEF IsServed
  <2> HIDE DEF c
  <2>5. ViewersType'
    BY <2>1, <2>2, <2>3 DEF ViewersType
  <2>6. ServedInv'
    <3> SUFFICES ASSUME NEW i \in 1 .. Len(clients') PROVE IsServed(clients[i])'
      BY DEF ServedInv
    <3>1. Len(clients') = Len(clients) + 1 /\ Len(clients) \in Nat
      BY <2>1, <2>2
    <3>2. CASE i = Len(clients) + 1
      <4>1. clients'[i] = c
        BY <2>1, <2>2, <3>2
      <4> QED
        BY <2>1, <2>4, <4>1 DEF IsServed
    <3>3. CASE i \in 1 .. Len(clients)
      <4>1. clients'[i] = clients[i] /\ IsServed(clients[i])
        BY <2>1, <2>2, <3>3 DEF ServedInv
      <4> QED
        BY <2>1, <4>1 DEF IsServed
    <3> QED
      BY <3>1, <3>2, <3>3
  <2> QED
    BY <2>1, <2>5, <2>6 DEF StartupInv
<1>2. CASE AcceptFails
  BY <1>2 DEF AcceptFails, ViewersType, StartupInv, ServedInv, IsServed
<1>3. CASE ChangeStatus
  BY <1>3 DEF ChangeStatus, ViewersType, StartupInv, ServedInv, IsServed
<1>4. ASSUME NEW dead \in SUBSET (1 .. Len(clients)), BroadcastStatus(dead) PROVE ViewersInv'
  <2> DEFINE served == [i \in 1 .. Len(clients) |-> [clients[i] EXCEPT !.status = status]]
  <2>1. Send(served, dead) /\ UNCHANGED <<buffer, hasFirst, lines, status, registered>> /\ unseen' = FALSE
    BY <1>4 DEF BroadcastStatus
  <2>2. ASSUME NEW i \in 1 .. Len(clients)
        PROVE  /\ served[i] = [clients[i] EXCEPT !.status = status] /\ served[i] \in Viewer
               /\ clients[i] \in Viewer
    <3>1. clients[i] \in Viewer /\ status \in Nat
      BY <2>2 DEF ViewersType
    <3> QED
      BY <2>2, <3>1 DEF Viewer
  <2> HIDE DEF served
  <2>3. /\ clients' \in Seq(Viewer)
        /\ \A j \in 1 .. Len(clients') : \E i \in 1 .. Len(clients) : clients'[j] = served[i]
    BY <2>1, <2>2, SendServes
  <2>4. ViewersType'
    BY <2>1, <2>3 DEF ViewersType
  <2>5. ASSUME NEW j \in 1 .. Len(clients') PROVE IsServed(clients[j])'
    <3>1. PICK i \in 1 .. Len(clients) : clients'[j] = served[i]
      BY <2>3, <2>5
    <3>2. IsServed(clients[i]) /\ clients[i] \in Viewer /\ clients'[j] = [clients[i] EXCEPT !.status = status]
      BY <2>2, <3>1 DEF ServedInv
    <3> QED
      BY <2>1, <3>2 DEF IsServed, Viewer
  <2>6. StartupInv'
    <3>1. ASSUME ~registered PROVE clients' = <<>>
      <4>1. Len(clients) = 0
        BY <3>1 DEF StartupInv
      <4>2. Len(clients') = 0
        BY <2>3, <4>1
      <4> QED
        BY <2>3, <4>2
    <3> QED
      BY <2>1, <3>1 DEF StartupInv, ViewersType
  <2> QED
    BY <2>4, <2>5, <2>6 DEF ServedInv
<1> QED
  BY <1>1, <1>2, <1>3, <1>4 DEF Serve

\* A line: it joins the startup lines, or goes to every viewer.
LEMMA ShowKeepsViewers ==
  ASSUME ViewersInv, ShowLine
  PROVE  ViewersInv'
<1> USE DEF ViewersInv
<1>1. lines \in Nat /\ buffer \in Seq(Nat) /\ clients \in Seq(Viewer) /\ status \in Nat /\ registered \in BOOLEAN
  BY DEF ViewersType
<1>2. CASE BufferLine
  <2> DEFINE kept == IF Len(buffer) = MaxStartup THEN Tail(buffer) ELSE buffer
             first == FirstLine(lines)
  <2>1. /\ ~registered /\ clients = <<>> /\ lines' = lines + 1 /\ buffer' = Append(kept, lines + 1)
        /\ UNCHANGED <<clients, hasFirst, status, registered>>
    BY <1>2 DEF BufferLine, StartupInv
  <2>2. buffer = From(first, lines)
    BY <2>1 DEF StartupInv
  <2>3. first \in Nat /\ first <= lines + 1 /\ first >= 1
    BY <1>1, FirstLineFacts
  <2>4. Len(buffer) = lines - first + 1
    BY <1>1, <2>2, <2>3, FromFacts
  <2>5. kept = From(FirstLine(lines + 1), lines) /\ FirstLine(lines + 1) \in Nat /\ FirstLine(lines + 1) <= lines + 1
    <3>1. CASE Len(buffer) = MaxStartup
      <4>1. first <= lines /\ first + 1 = FirstLine(lines + 1)
        BY <1>1, <2>3, <2>4, <3>1, StartupAssumption DEF FirstLine
      <4> HIDE DEF first
      <4> QED
        BY <1>1, <2>2, <2>3, <3>1, <4>1, FromTail
    <3>2. CASE Len(buffer) # MaxStartup
      <4>1. first = FirstLine(lines + 1)
        BY <1>1, <2>3, <2>4, <3>2, StartupAssumption DEF FirstLine
      <4> HIDE DEF first
      <4> QED
        BY <2>2, <2>3, <3>2, <4>1
    <3> QED
      BY <3>1, <3>2
  <2> HIDE DEF kept, first
  <2>6. buffer' = From(FirstLine(lines + 1), lines + 1)
    BY <1>1, <2>1, <2>5, FromGrows
  <2>7. buffer' \in Seq(Nat)
    <3>1. lines + 1 \in Nat /\ FirstLine(lines + 1) <= (lines + 1) + 1
      BY <1>1, <2>5
    <3> QED
      BY <2>5, <2>6, <3>1, FromFacts
  <2>8. ViewersType'
    BY <1>1, <2>1, <2>7 DEF ViewersType
  <2>9. StartupInv'
    BY <2>1, <2>6 DEF StartupInv
  <2>10. ServedInv'
    BY <2>1 DEF ServedInv
  <2> QED
    BY <2>8, <2>9, <2>10
<1>3. ASSUME NEW dead \in SUBSET (1 .. Len(clients)), BroadcastLine(dead) PROVE ViewersInv'
  <2> DEFINE served == [i \in 1 .. Len(clients) |-> [clients[i] EXCEPT !.lines = Append(@, lines + 1)]]
  <2>1. /\ Send(served, dead) /\ hasFirst /\ lines' = lines + 1
        /\ UNCHANGED <<buffer, hasFirst, status, unseen, registered>>
    BY <1>3 DEF BroadcastLine
  <2>2. ASSUME NEW i \in 1 .. Len(clients)
        PROVE  /\ served[i] = [clients[i] EXCEPT !.lines = Append(@, lines + 1)] /\ served[i] \in Viewer
               /\ clients[i] \in Viewer
    <3>1. clients[i] \in Viewer
      BY <1>1, <2>2
    <3>2. Append(clients[i].lines, lines + 1) \in Seq(Nat)
      BY <1>1, <3>1 DEF Viewer
    <3> QED
      BY <2>2, <3>1, <3>2 DEF Viewer
  <2> HIDE DEF served
  <2>3. /\ clients' \in Seq(Viewer)
        /\ \A j \in 1 .. Len(clients') : \E i \in 1 .. Len(clients) : clients'[j] = served[i]
    BY <2>1, <2>2, SendServes
  <2>4. ViewersType'
    BY <1>1, <2>1, <2>3 DEF ViewersType
  <2>5. ASSUME NEW j \in 1 .. Len(clients') PROVE IsServed(clients[j])'
    <3>1. PICK i \in 1 .. Len(clients) : clients'[j] = served[i]
      BY <2>3, <2>5
    <3>2. IsServed(clients[i]) /\ clients[i] \in Viewer
      BY <2>2 DEF ServedInv
    <3>3. PICK c \in Viewer : c = clients[i]
      BY <3>2
    <3>4. PICK d : d = clients'[j]
      OBVIOUS
    <3>5. d = [c EXCEPT !.lines = Append(@, lines + 1)]
      BY <2>2, <3>1, <3>3, <3>4
    <3>6. /\ d.lines = Append(c.lines, lines + 1) /\ d.whole = c.whole /\ d.status = c.status
          /\ d.since = c.since /\ d.first = c.first /\ c.since \in Nat /\ c.lines \in Seq(Nat)
      BY <3>5 DEF Viewer
    <3>7. c.whole /\ (~unseen => c.status = status) /\ c.since <= lines
          /\ c.lines = buffer \o From(c.since + 1, lines)
          /\ (c.first => buffer = From(FirstLine(c.since), c.since))
      BY <3>2, <3>3 DEF IsServed
    <3>8. d.lines = buffer \o From(c.since + 1, lines + 1)
      <4>1. c.since + 1 \in Nat /\ c.since + 1 <= lines + 1
        BY <1>1, <3>6, <3>7
      <4>2. From(c.since + 1, lines) \in Seq(Nat)
        BY <1>1, <4>1, FromFacts
      <4>3. Append(buffer \o From(c.since + 1, lines), lines + 1)
              = buffer \o Append(From(c.since + 1, lines), lines + 1)
        <5>1. From(c.since + 1, lines) \in Seq(Nat) /\ lines + 1 \in Nat /\ buffer \in Seq(Nat)
          BY <1>1, <4>2
        <5> QED
          BY <5>1, AppendToConcat
      <4>4. Append(From(c.since + 1, lines), lines + 1) = From(c.since + 1, lines + 1)
        BY <1>1, <4>1, FromGrows
      <4> QED
        BY <3>6, <3>7, <4>3, <4>4
    <3>9. d.since <= lines + 1
      BY <1>1, <3>6, <3>7
    <3> QED
      BY <2>1, <3>4, <3>6, <3>7, <3>8, <3>9 DEF IsServed
  <2> QED
    BY <2>1, <2>4, <2>5 DEF ServedInv, StartupInv
<1> QED
  BY <1>2, <1>3 DEF ShowLine

-------------------------------------------------------------------------------
(* The invariant, and what follows from it.                                *)

\* It holds of the first log.
LEMMA InitInvariant == Init => IInv
<1> SUFFICES ASSUME Init PROVE IInv
  OBVIOUS
<1>1. log = <<>> /\ log \in Seq(Nat) /\ Len(log) = 0
  BY DEF Init
<1>2. log # None
  BY <1>1, NoneAssumption
<1>3. /\ size = 0 /\ lines = 0 /\ faults = 0 /\ backup = None /\ writer = "log"
      /\ alive \in BOOLEAN /\ alive /\ astray \in BOOLEAN /\ ~astray
  BY DEF Init, ClientInit
<1>4. FilesType
  BY <1>1, <1>2, <1>3 DEF FilesType
<1>5. SizeInv
  BY <1>1, <1>3, SizeAssumption DEF SizeInv
<1>6. LinesIn(log) = {} /\ Written = 0
  BY <1>1, <1>3 DEF LinesIn, Written
<1>7. SavedInv
  BY <1>3, <1>6 DEF SavedInv, Kept
<1> QED
  BY <1>4, <1>5, <1>7 DEF IInv

\* Every step keeps it.
LEMMA StepInvariant == IInv /\ [Next]_vars => IInv'
<1> SUFFICES ASSUME IInv, [Next]_vars PROVE IInv'
  OBVIOUS
<1>1. CASE WriteToFile
  BY <1>1, WriteSteps, SavedSteps DEF IInv
<1>2. CASE ~WriteToFile
  <2>1. UNCHANGED <<fileVars, lines>>
    BY <1>2 DEF Next, Serve, Accept, AcceptFails, ChangeStatus, BroadcastStatus, vars, clientVars
  <2> QED
    BY <2>1 DEF fileVars, IInv, FilesType, SizeInv, SavedInv, Kept, Written, LinesIn
<1> QED
  BY <1>1, <1>2

\* The inductive invariant holds in every reachable state.
THEOREM InvariantHolds == Spec => []IInv
  BY InitInvariant, StepInvariant, PTL DEF Spec

\* A rotation saves the previous log, whatever fails but the creation of the
\* new one: the log and the backup have the last lines, as many as one log may
\* have, however far back the last rotation lies and however many failed.
THEOREM LastLinesAreSaved == Spec => []PreviousLogIsSaved
<1>1. IInv => PreviousLogIsSaved
  <2> SUFFICES ASSUME IInv, ~astray, NEW line \in 1 .. Written, line >= lines - MaxSize
               PROVE  line \in LinesIn(log) \cup LinesIn(backup)
    BY DEF PreviousLogIsSaved
  <2>1. lines \in Nat /\ MaxSize \in Nat /\ Kept \in Nat
    BY SizeAssumption DEF IInv, FilesType, SavedInv
  <2>2. CASE alive
    BY <2>1, <2>2 DEF IInv, SavedInv, Written
  <2>3. CASE ~alive
    BY <2>1, <2>3 DEF IInv, SavedInv, Written
  <2> QED
    BY <2>2, <2>3
<1> QED
  BY <1>1, InvariantHolds, PTL

\* The log exceeds its limit by no more than a line and the failures met: no
\* failed rotation leaves it growing without another try.
THEOREM LogStaysBounded == Spec => []LogIsBounded
<1>1. IInv => LogIsBounded
  BY DEF IInv, SizeInv, LogIsBounded
<1> QED
  BY <1>1, InvariantHolds, PTL

\* What the viewers have is what was sent since they came, in every reachable
\* state.
THEOREM ViewersAreServed == Spec => []ViewersInv
<1>1. Init => ViewersInv
  <2> SUFFICES ASSUME Init PROVE ViewersInv
    OBVIOUS
  <2>1. /\ clients = <<>> /\ buffer = <<>> /\ hasFirst = FALSE /\ lines = 0 /\ status = 0
        /\ unseen = FALSE /\ registered = FALSE
    BY DEF Init, ClientInit
  <2>2. clients \in Seq(Viewer) /\ buffer \in Seq(Nat) /\ Len(clients) = 0
    BY <2>1
  <2>3. FirstLine(0) = 1
    BY StartupAssumption DEF FirstLine
  <2>4. From(1, 0) = <<>>
    BY DEF From
  <2>5. ViewersType
    BY <2>1, <2>2 DEF ViewersType
  <2>7. ServedInv
    <3>1. 1 .. Len(clients) = {}
      BY <2>2
    <3> QED
      BY <3>1 DEF ServedInv
  <2>6. buffer = From(FirstLine(lines), lines)
    BY <2>1, <2>3, <2>4
  <2> QED
    BY <2>1, <2>5, <2>6, <2>7 DEF ViewersInv, StartupInv
<1>2. ViewersInv /\ [Next]_vars => ViewersInv'
  <2> SUFFICES ASSUME ViewersInv, [Next]_vars PROVE ViewersInv'
    OBVIOUS
  <2>1. CASE WriteToFile
    <3>1. ShowLine
      BY <2>1 DEF WriteToFile, WriteLine, FlushFails, Rotate, CreateFails, RenameFails, ReopenFails, Take
    <3> QED
      BY <3>1, ShowKeepsViewers
  <2>2. CASE Serve
    BY <2>2, ServeKeepsViewers
  <2>3. CASE UNCHANGED vars
    BY <2>3 DEF vars, clientVars, ViewersInv, ViewersType, StartupInv, ServedInv, IsServed
  <2> QED
    BY <2>1, <2>2, <2>3 DEF Next
<1> QED
  BY <1>1, <1>2, PTL DEF Spec

\* Every viewer shows the status in force unless its change is still to be
\* broadcast, for any number of viewers and of changes.
THEOREM ViewersAreCurrent == Spec => []EveryViewerIsCurrent
<1>1. ViewersInv => EveryViewerIsCurrent
  BY DEF ViewersInv, ServedInv, IsServed, EveryViewerIsCurrent
<1> QED
  BY <1>1, ViewersAreServed, PTL

\* Whoever is registered got all of every message: the viewers that are given
\* up are the ones that did not take it, however many at once.
THEOREM NoViewerIsTorn == Spec => []NoTornMessage
<1>1. ViewersInv => NoTornMessage
  BY DEF ViewersInv, ServedInv, IsServed, NoTornMessage
<1> QED
  BY <1>1, ViewersAreServed, PTL

\* A viewer has the startup lines and every line since it came, without a gap
\* for the first one, for startup lines and streams of any length.
THEOREM NoLineIsLost == Spec => []NoLineIsSkipped
<1>1. ViewersInv => NoLineIsSkipped
  <2> SUFFICES ASSUME ViewersInv, NEW i \in 1 .. Len(clients), NEW c, c = clients[i]
               PROVE  /\ c.first => c.lines = From(FirstLine(c.since), lines)
                      /\ c.lines = buffer \o From(c.since + 1, lines)
    BY DEF NoLineIsSkipped, FirstLine
  <2>1. IsServed(c) /\ c \in Viewer /\ lines \in Nat
    BY DEF ViewersInv, ViewersType, ServedInv
  <2>2. c.since \in Nat /\ c.since <= lines /\ c.lines = buffer \o From(c.since + 1, lines)
        /\ (c.first => buffer = From(FirstLine(c.since), c.since))
    BY <2>1 DEF IsServed, Viewer
  <2>3. FirstLine(c.since) \in Nat /\ FirstLine(c.since) <= c.since + 1
    BY <2>2, FirstLineFacts
  <2>4. From(FirstLine(c.since), c.since) \o From(c.since + 1, lines) = From(FirstLine(c.since), lines)
    BY <2>1, <2>2, <2>3, FromJoins
  <2> QED
    BY <2>2, <2>4
<1> QED
  BY <1>1, ViewersAreServed, PTL

===============================================================================
