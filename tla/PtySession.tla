------------------------------ MODULE PtySession ------------------------------
(***************************************************************************)
(* An interactive session under a pseudo-terminal: the output reader, the  *)
(* thread that copies the user's input, the monitor's resume sink, which   *)
(* shares the writer with that thread, and the runner that waits for the   *)
(* child, drains its output and lets the process end.                      *)
(*                                                                         *)
(* The pseudo-terminal is external: a bounded buffer in each direction,    *)
(* open as long as the child or a grandchild holds the slave side.  Output *)
(* is counted in bytes.  What goes to the child is a sequence of parts of  *)
(* writes: `by` is who wrote, `write` counts its writes.                   *)
(***************************************************************************)
EXTENDS Integers, Sequences

CONSTANTS
  Parts,        \* parts of the longest write; "continue\r" has as many
  Capacity,     \* parts, or bytes, one direction of the pseudo-terminal holds
  MaxReads,     \* bound: reads of the user's input
  MaxResumes,   \* bound: calls of resume()
  MaxOutput,    \* bound: bytes written by the child and the grandchild
  MaxFaults     \* bound: failing calls

ASSUME SizesAssumption ==
  /\ Parts \in Nat \ {0} /\ Capacity \in Nat \ {0}
  /\ {MaxReads, MaxResumes, MaxOutput, MaxFaults} \subseteq Nat

Part == [by : {"user", "sink"}, write : Nat, part : 1 .. Parts]

VARIABLES
  main,       \* where run_pty, and after it app::run and main, stand
  raw,        \* whether the RawModeGuard is alive
  child,      \* "none", "running" or "exited"
  grandchild, \* whether another process holds the slave side
  \* output
  printed,    \* bytes written to the slave side
  taken,      \* bytes the reader has read
  shown,      \* bytes it has written to stdout
  unshown,    \* bytes whose write to stdout failed
  reader,     \* "none", "reading", "writing" or "ended"
  \* input
  writer,     \* who holds the mutex of the writer: "none", "user" or "sink"
  buffer,     \* parts in the pseudo-terminal
  got,        \* parts the child has read
  input,      \* the input thread: "none", "reading", "locking", "writing", "ended"
  chunk,      \* what it has yet to write of its last read
  reads,      \* its reads
  sink,       \* resume(): "idle", "locking", "writing" or "flushing"
  command,    \* what it has yet to write of "continue\r"
  resumes,    \* its calls
  outcome,    \* what the last one returned
  \* the ends
  drain,      \* how the drain ended: "none", "completed" or "timedout"
  broken,     \* history: a read of the output failed
  faults

outputVars == <<printed, taken, shown, unshown, reader, broken>>
inputVars  == <<buffer, got, input, chunk, reads>>
sinkVars   == <<sink, command, resumes, outcome>>
mainVars   == <<main, raw, drain>>
vars == <<mainVars, child, grandchild, outputVars, writer, inputVars, sinkVars, faults>>

Init ==
  /\ main = "spawn" /\ raw = FALSE /\ child = "none" /\ grandchild = FALSE
  /\ printed = 0 /\ taken = 0 /\ shown = 0 /\ unshown = 0 /\ reader = "none"
  /\ writer = "none" /\ buffer = <<>> /\ got = <<>>
  /\ input = "none" /\ chunk = <<>> /\ reads = 0
  /\ sink = "idle" /\ command = <<>> /\ resumes = 0 /\ outcome = "None"
  /\ drain = "none" /\ broken = FALSE /\ faults = 0

-------------------------------------------------------------------------------
\* The process is there; its threads run until it ends.
Alive == main # "ended"

SlaveOpen == child = "running" \/ grandchild

Fault == faults < MaxFaults /\ faults' = faults + 1

Whole(by, write, length) ==
  [i \in 1 .. length |-> [by |-> by, write |-> write, part |-> i]]

-------------------------------------------------------------------------------
\* run_pty: the child is spawned before the terminal is put into raw mode.
SpawnChild ==
  /\ main = "spawn"
  /\ main' = "rawmode" /\ child' = "running"
  /\ UNCHANGED <<raw, drain, grandchild, outputVars, writer, inputVars, sinkVars, faults>>

SpawnFails ==
  /\ main = "spawn" /\ Fault
  /\ main' = "closing"
  /\ UNCHANGED <<raw, drain, child, grandchild, outputVars, writer, inputVars, sinkVars>>

\* The reader, the input thread and the monitor start.
EnterRawMode ==
  /\ main = "rawmode"
  /\ main' = "waiting" /\ raw' = TRUE /\ reader' = "reading" /\ input' = "reading"
  /\ UNCHANGED <<drain, child, grandchild, printed, taken, shown, unshown, broken,
                 writer, buffer, got, chunk, reads, sinkVars, faults>>

\* The session is dropped, and with the master side the terminal of the child.
RawModeFails ==
  /\ main = "rawmode" /\ Fault
  /\ main' = "closing" /\ child' = "exited"
  /\ UNCHANGED <<raw, drain, grandchild, outputVars, writer, inputVars, sinkVars>>

ChildWaited ==
  /\ main = "waiting" /\ child = "exited"
  /\ main' = "draining"
  /\ UNCHANGED <<raw, drain, child, grandchild, outputVars, writer, inputVars, sinkVars, faults>>

Return(drained) == main' = "closing" /\ raw' = FALSE /\ drain' = drained

WaitFails ==
  /\ main = "waiting" /\ Fault
  /\ Return("none")
  /\ UNCHANGED <<child, grandchild, outputVars, writer, inputVars, sinkVars>>

\* drain_reader, with the timeout that bounds it.
DrainCompletes ==
  /\ main = "draining" /\ reader = "ended"
  /\ Return("completed")
  /\ UNCHANGED <<child, grandchild, outputVars, writer, inputVars, sinkVars, faults>>

\* Not the code: the reader is awaited without a timeout.
DrainUntimed ==
  /\ main = "draining" /\ reader = "ended"
  /\ Return("timedout")
  /\ UNCHANGED <<child, grandchild, outputVars, writer, inputVars, sinkVars, faults>>

DrainTimesOut ==
  /\ main = "draining" /\ reader # "ended"
  /\ Return("timedout")
  /\ UNCHANGED <<child, grandchild, outputVars, writer, inputVars, sinkVars, faults>>

\* app::run shuts the logger down and main returns.
ShutDown ==
  /\ main = "closing" /\ main' = "dropping"
  /\ UNCHANGED <<raw, drain, child, grandchild, outputVars, writer, inputVars, sinkVars, faults>>

\* The runtime is dropped: it waits for a task that is within a poll and for
\* the blocking reader, not for the input thread.
DropRuntime ==
  /\ main = "dropping" /\ sink = "idle" /\ reader \in {"none", "ended"}
  /\ main' = "ended"
  /\ UNCHANGED <<raw, drain, child, grandchild, outputVars, writer, inputVars, sinkVars, faults>>

-------------------------------------------------------------------------------
\* spawn_output_reader
ReadOutput(n) ==
  /\ Alive /\ reader = "reading" /\ taken + n <= printed
  /\ taken' = taken + n /\ reader' = "writing"
  /\ UNCHANGED <<mainVars, child, grandchild, printed, shown, unshown, broken,
                 writer, inputVars, sinkVars, faults>>

\* Not the code: the error that means the end of the output is read over.
ReadOver ==
  /\ Alive /\ reader = "reading" /\ taken = printed /\ ~SlaveOpen
  /\ UNCHANGED vars

\* Nothing is left and nobody can write: end of file, or EIO.
ReadEnds ==
  /\ Alive /\ reader = "reading" /\ taken = printed /\ ~SlaveOpen
  /\ reader' = "ended"
  /\ UNCHANGED <<mainVars, child, grandchild, printed, taken, shown, unshown, broken,
                 writer, inputVars, sinkVars, faults>>

ReadFails ==
  /\ Alive /\ reader = "reading" /\ Fault
  /\ reader' = "ended" /\ broken' = TRUE
  /\ UNCHANGED <<mainVars, child, grandchild, printed, taken, shown, unshown,
                 writer, inputVars, sinkVars>>

ShowOutput ==
  /\ Alive /\ reader = "writing"
  /\ shown' = taken - unshown /\ reader' = "reading"
  /\ UNCHANGED <<mainVars, child, grandchild, printed, taken, unshown, broken,
                 writer, inputVars, sinkVars, faults>>

\* Not the code: the reader stops when stdout cannot be written.
ShowFailsForGood ==
  /\ Alive /\ reader = "writing" /\ Fault
  /\ unshown' = taken - shown /\ reader' = "ended"
  /\ UNCHANGED <<mainVars, child, grandchild, printed, taken, shown, broken,
                 writer, inputVars, sinkVars>>

\* A failed write to stdout is logged, and the reader goes on.
ShowFails ==
  /\ Alive /\ reader = "writing" /\ Fault
  /\ unshown' = taken - shown /\ reader' = "reading"
  /\ UNCHANGED <<mainVars, child, grandchild, printed, taken, shown, broken,
                 writer, inputVars, sinkVars>>

-------------------------------------------------------------------------------
\* One write() of write_all: a part goes out when there is room.  Without a
\* slave side it fails.
PutPart(parts) ==
  /\ SlaveOpen /\ Len(buffer) < Capacity
  /\ buffer' = Append(buffer, Head(parts))

WriteError == (~SlaveOpen /\ UNCHANGED faults) \/ Fault

\* spawn_input_writer
ReadInput(n) ==
  /\ Alive /\ input = "reading" /\ reads < MaxReads
  /\ reads' = reads + 1 /\ chunk' = Whole("user", reads + 1, n)
  /\ input' = "locking"
  /\ UNCHANGED <<mainVars, child, grandchild, outputVars, writer, buffer, got, sinkVars, faults>>

InputEnds ==
  /\ Alive /\ input = "reading"
  /\ input' = "ended"
  /\ UNCHANGED <<mainVars, child, grandchild, outputVars, writer, buffer, got, chunk,
                 reads, sinkVars, faults>>

LockForInput ==
  /\ Alive /\ input = "locking" /\ writer = "none"
  /\ writer' = "user" /\ input' = "writing"
  /\ UNCHANGED <<mainVars, child, grandchild, outputVars, buffer, got, chunk, reads,
                 sinkVars, faults>>

\* Not the code: the writer stays locked while the next input is read.
WriteInputHolding ==
  /\ Alive /\ input = "writing" /\ PutPart(chunk)
  /\ chunk' = Tail(chunk)
  /\ input' = IF chunk' = <<>> THEN "reading" ELSE "writing"
  /\ UNCHANGED <<mainVars, child, grandchild, outputVars, writer, got, reads, sinkVars, faults>>

WriteInput ==
  /\ Alive /\ input = "writing" /\ PutPart(chunk)
  /\ chunk' = Tail(chunk)
  /\ IF chunk' = <<>> THEN input' = "reading" /\ writer' = "none"
     ELSE UNCHANGED <<input, writer>>
  /\ UNCHANGED <<mainVars, child, grandchild, outputVars, got, reads, sinkVars, faults>>

WriteInputFails ==
  /\ Alive /\ input = "writing" /\ WriteError
  /\ input' = "ended" /\ writer' = "none" /\ chunk' = <<>>
  /\ UNCHANGED <<mainVars, child, grandchild, outputVars, buffer, got, reads, sinkVars>>

-------------------------------------------------------------------------------
\* PtyResumeSink::resume, called by the monitor until the runtime is dropped.
Resume ==
  /\ main \in {"waiting", "draining", "closing"} /\ sink = "idle" /\ resumes < MaxResumes
  /\ resumes' = resumes + 1 /\ command' = Whole("sink", resumes + 1, Parts)
  /\ sink' = "locking" /\ outcome' = "None"
  /\ UNCHANGED <<mainVars, child, grandchild, outputVars, writer, inputVars, faults>>

\* Not the code: the sink writes without the lock.
WriteUnlocked ==
  /\ Alive /\ sink = "locking"
  /\ sink' = "writing"
  /\ UNCHANGED <<mainVars, child, grandchild, outputVars, writer, inputVars, command, resumes,
                 outcome, faults>>

LockForSink ==
  /\ Alive /\ sink = "locking" /\ writer = "none"
  /\ writer' = "sink" /\ sink' = "writing"
  /\ UNCHANGED <<mainVars, child, grandchild, outputVars, inputVars, command, resumes,
                 outcome, faults>>

WriteCommand ==
  /\ Alive /\ sink = "writing" /\ PutPart(command)
  /\ command' = Tail(command)
  /\ sink' = IF command' = <<>> THEN "flushing" ELSE "writing"
  /\ UNCHANGED <<mainVars, child, grandchild, outputVars, writer, got, input, chunk, reads,
                 resumes, outcome, faults>>

Returned(result) ==
  /\ outcome' = result /\ sink' = "idle" /\ writer' = "none" /\ command' = <<>>

FlushCommand ==
  /\ Alive /\ sink = "flushing" /\ Returned("Sent")
  /\ UNCHANGED <<mainVars, child, grandchild, outputVars, inputVars, resumes, faults>>

\* Whatever fails, part of the command may be on its way.
ResumeFails ==
  /\ Alive
  /\ \/ sink = "writing" /\ WriteError
     \/ sink = "flushing" /\ Fault
  /\ Returned("Ambiguous")
  /\ UNCHANGED <<mainVars, child, grandchild, outputVars, inputVars, resumes>>

-------------------------------------------------------------------------------
\* The child and the grandchild, which it may leave behind.
ChildPrints ==
  /\ SlaveOpen /\ printed < MaxOutput /\ printed - taken < Capacity
  /\ printed' = printed + 1
  /\ UNCHANGED <<mainVars, child, grandchild, taken, shown, unshown, reader, broken,
                 writer, inputVars, sinkVars, faults>>

ChildReads ==
  /\ child = "running" /\ buffer # <<>>
  /\ got' = Append(got, Head(buffer)) /\ buffer' = Tail(buffer)
  /\ UNCHANGED <<mainVars, child, grandchild, outputVars, writer, input, chunk, reads,
                 sinkVars, faults>>

Fork ==
  /\ child = "running" /\ ~grandchild
  /\ grandchild' = TRUE
  /\ UNCHANGED <<mainVars, child, outputVars, writer, inputVars, sinkVars, faults>>

ChildExits ==
  /\ child = "running" /\ child' = "exited"
  /\ UNCHANGED <<mainVars, grandchild, outputVars, writer, inputVars, sinkVars, faults>>

GrandchildEnds ==
  /\ grandchild /\ grandchild' = FALSE
  /\ UNCHANGED <<mainVars, child, outputVars, writer, inputVars, sinkVars, faults>>

-------------------------------------------------------------------------------
RunnerStep ==
  SpawnChild \/ EnterRawMode \/ ChildWaited \/ DrainCompletes \/ DrainTimesOut \/ ShutDown \/ DropRuntime

ReaderStep == (\E n \in 1 .. Capacity : ReadOutput(n)) \/ ReadEnds \/ ShowOutput

InputStep == LockForInput \/ WriteInput \/ WriteInputFails

SinkStep == LockForSink \/ WriteCommand \/ FlushCommand \/ ResumeFails

Failure == SpawnFails \/ RawModeFails \/ WaitFails \/ ReadFails \/ ShowFails

World ==
  \/ \E n \in 1 .. Parts : ReadInput(n)
  \/ InputEnds \/ Resume \/ ChildPrints \/ ChildReads \/ Fork \/ ChildExits \/ GrandchildEnds

Next == RunnerStep \/ ReaderStep \/ InputStep \/ SinkStep \/ Failure \/ World

\* Threads and ready tasks run, and a write to a closed terminal fails.  The
\* child reads its input as long as it runs; nobody has to type, to print, to
\* exit or to let go of the terminal, and no other call has to fail.
NoFault == UNCHANGED faults

Spec ==
  /\ Init /\ [][Next]_vars
  /\ WF_vars(RunnerStep) /\ WF_vars(ReaderStep) /\ WF_vars(InputStep /\ NoFault)
  /\ WF_vars(SinkStep /\ NoFault) /\ WF_vars(ChildReads)

-------------------------------------------------------------------------------
\* Types of all variables.
TypeOK ==
  /\ main \in {"spawn", "rawmode", "waiting", "draining", "closing", "dropping", "ended"}
  /\ raw \in BOOLEAN /\ child \in {"none", "running", "exited"} /\ grandchild \in BOOLEAN
  /\ printed \in Nat /\ taken \in Nat /\ shown \in Nat /\ unshown \in Nat
  /\ reader \in {"none", "reading", "writing", "ended"}
  /\ writer \in {"none", "user", "sink"}
  /\ buffer \in Seq(Part) /\ got \in Seq(Part) /\ chunk \in Seq(Part) /\ command \in Seq(Part)
  /\ input \in {"none", "reading", "locking", "writing", "ended"}
  /\ sink \in {"idle", "locking", "writing", "flushing"}
  /\ outcome \in {"None", "Sent", "Ambiguous"}
  /\ drain \in {"none", "completed", "timedout"} /\ broken \in BOOLEAN
  /\ reads \in Nat /\ resumes \in Nat /\ faults \in Nat

Sent == got \o buffer

\* Whoever writes, and however full the terminal is, what the child reads is
\* the user's input in its order with every continue in one piece between two
\* reads of it: no key lands inside a "continue" and no continue inside what
\* one read returned, such as an escape sequence (the mutex around write_all).
InputIsWhole ==
  \A i, j \in 1 .. Len(Sent) : i < j =>
    /\ Sent[i].by = Sent[j].by =>
         \/ Sent[i].write < Sent[j].write
         \/ /\ Sent[i].write = Sent[j].write
            /\ Sent[j].part - Sent[i].part = j - i

\* All of the child's output was written to stdout, or was tried to, once the
\* drain is complete and when the process ends, unless no reader was started or
\* a read failed
\* (write errors do not stop the reader, and the runtime waits for it).
OutputIsShown ==
  (drain = "completed" \/ main = "ended") /\ reader # "none" /\ ~broken => shown + unshown = printed

\* A resume() returns, however the user types: it is called without an await
\* by a task of the runtime (the input thread reads without the lock).
ResumeReturns == sink # "idle" ~> (sink = "idle" \/ child = "exited")

\* After the child's exit the runner returns, though its output may go on.
RunnerReturns == (main = "waiting" /\ child = "exited") ~> main \in {"closing", "dropping", "ended"}

\* The process ends once nobody holds the terminal any more.
ProcessEnds == (child = "exited" /\ ~grandchild) ~> main = "ended"
===============================================================================
