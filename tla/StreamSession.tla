----------------------------- MODULE StreamSession -----------------------------
(***************************************************************************)
(* A print-mode session of Claude under the stream-json runner: the child  *)
(* process, the runner that waits for it and restarts it, the parser of    *)
(* its output, the channel of resume commands, and the lockout monitor of  *)
(* LockoutMonitor, whose resume sink is the sender of that channel.        *)
(*                                                                         *)
(* Every step is a step of the monitor, of the parser, of the runner or of *)
(* the environment; the first two are actions of LockoutMonitor joined     *)
(* with what they do to the variables below.                               *)
(***************************************************************************)
EXTENDS LockoutMonitor

CONSTANT MaxLines   \* bound: lines one child writes

\* The results of resume() on the sender of a channel.
ASSUME SinkAssumption == {"Sent", "Definite"} \subseteq Outcomes

VARIABLES
  rpc,        \* where run_stream_json_print stands
  child,      \* "none", "running" or "exited"
  startRev,   \* starting_lockout_revision
  pending,    \* resume_pending
  session,    \* whether latest_session_id is known
  resumes,    \* Continue commands in the channel
  lines,      \* lines of the child's output the parser has not read
  written,    \* how many the present child has written
  unseen,     \* a live_status change the runner has not looked at
  result,     \* what the runner returned
  \* history, read by the properties only
  reported,   \* the last lockout the present child's output reported
  accepted    \* whether that report was news to the AppState

process == <<rpc, child, startRev, pending, result>>
output  == <<lines, written, session>>
told    == <<reported, accepted>>
own     == <<process, output, resumes, unseen, told>>
sessionVars == <<vars, own>>

RunnerPCs == {"spawn", "running", "draining", "restarting", "try", "subscribe", "await", "done"}
Results == {"none", "child", "cannotResume", "error"}

\* A line either carries a session id, a rate limit, or both; the rest are
\* ignored and left out.
Line == {line \in [session : BOOLEAN, row : Rows \cup {None}] :
           line.session \/ line.row # None}

SessionInit ==
  /\ Init
  /\ rpc = "spawn" /\ child = "none" /\ startRev = 0 /\ pending = FALSE
  /\ session = FALSE /\ resumes = 0 /\ lines = <<>> /\ written = 0
  /\ unseen = FALSE /\ result = "none" /\ reported = None /\ accepted = FALSE

\* The watch channel: a new status is unseen until the runner looks.
Published == unseen' = (unseen \/ app'.status # app.status)

-------------------------------------------------------------------------------
\* The sink succeeds as long as the runner holds the receiver.
SendContinue ==
  /\ rpc # "done" /\ Resume("Sent")
  /\ resumes' = resumes + 1
  /\ UNCHANGED <<process, output, unseen, told>>

SendFails ==
  /\ rpc = "done" /\ Resume("Definite")
  /\ UNCHANGED own

MonitorStep ==
  /\ Startup \/ Watch \/ Loop \/ Scan \/ BeginExpiry \/ Announce \/ AnnounceRetry \/ Settle
  /\ Published
  /\ UNCHANGED <<process, output, resumes, told>>

-------------------------------------------------------------------------------
\* The parser task: a line's session id is stored before its limit is recorded.
ParseSession ==
  /\ report = None /\ lines # <<>> /\ Head(lines).row = None
  /\ session' = TRUE /\ lines' = Tail(lines)
  /\ UNCHANGED <<vars, process, written, resumes, unseen, told>>

ParseLimit ==
  /\ report = None /\ lines # <<>> /\ Head(lines).row # None
  /\ ReportParse(Head(lines).row)
  /\ session' = (session \/ Head(lines).session)
  /\ lines' = Tail(lines)
  /\ UNCHANGED <<process, written, resumes, unseen, told>>

RecordLimit ==
  /\ ReportApply
  /\ IF IsLocked(report)
       THEN reported' = report /\ accepted' = IsNews(app, report)
       ELSE UNCHANGED told
  /\ Published
  /\ UNCHANGED <<process, output, resumes>>

\* try_send on a full channel: the line is lost to the parser.
DropLine ==
  /\ lines # <<>> /\ faults < MaxFaults
  /\ faults' = faults + 1
  /\ lines' = Tail(lines)
  /\ UNCHANGED <<shared, pc, locals, runner, now, files, queue, watching, history,
                 process, written, session, resumes, unseen, told>>

-------------------------------------------------------------------------------
\* The child: it writes lines and exits when it likes.  MaxReports bounds the
\* limits of all children, in the pipe and parsed.
ChildWrites(line) ==
  /\ child = "running" /\ written < MaxLines
  /\ line.row # None => line.row.time <= now /\ reports + Len(lines) < MaxReports
  /\ lines' = Append(lines, line) /\ written' = written + 1
  /\ UNCHANGED <<vars, process, session, resumes, unseen, told>>

ChildExits ==
  /\ child = "running" /\ child' = "exited"
  /\ UNCHANGED <<vars, rpc, startRev, pending, result, output, resumes, unseen, told>>

-------------------------------------------------------------------------------
\* One round of run_stream_json_print: spawn the child, the first time or to
\* resume the session.
Spawn ==
  /\ rpc = "spawn"
  /\ startRev' = app.revision
  /\ child' = "running" /\ rpc' = "running" /\ pending' = FALSE
  /\ written' = 0 /\ reported' = None /\ accepted' = FALSE
  /\ UNCHANGED <<vars, result, lines, session, resumes, unseen>>

\* An error of the runner itself: it returns at once.
Fail ==
  /\ faults < MaxFaults
  /\ faults' = faults + 1
  /\ rpc' = "done" /\ result' = "error"
  /\ UNCHANGED <<shared, pc, locals, runner, now, files, queue, watching, history,
                 child, startRev, pending, output, unseen, told>>

\* The spawn, the wait for the child, a pump or the wait for the kill fails.
RunnerFails ==
  /\ rpc \in {"spawn", "running", "draining", "restarting"}
  /\ Fail /\ UNCHANGED resumes

\* The select: the child exits, or a continue arrives and the child is killed.
ChildWaited ==
  /\ rpc = "running" /\ child = "exited"
  /\ rpc' = "draining"
  /\ UNCHANGED <<vars, child, startRev, pending, result, output, resumes, unseen, told>>

\* Not the code: the child is left alone while its session is not known.
KillKnownSession ==
  /\ rpc = "running" /\ resumes > 0 /\ session
  /\ resumes' = resumes - 1
  /\ child' = "exited" /\ rpc' = "restarting"
  /\ UNCHANGED <<vars, startRev, pending, result, output, unseen, told>>

KillForRestart ==
  /\ rpc = "running" /\ resumes > 0
  /\ resumes' = resumes - 1
  /\ child' = "exited" /\ rpc' = "restarting"
  /\ UNCHANGED <<vars, startRev, pending, result, output, unseen, told>>

KillFails ==
  /\ rpc = "running" /\ resumes > 0
  /\ Fail /\ resumes' = resumes - 1

\* The pumps and the parser are awaited: nothing is left to parse or record.
OutputDrained == lines = <<>> /\ report = None

\* Without a session id the wrapper cannot restart the child and returns 0.
Restart ==
  IF session THEN rpc' = "spawn" /\ UNCHANGED result
  ELSE rpc' = "done" /\ result' = "cannotResume"

\* Not the code: the next child is spawned before the parser is done.
RestartUndrained ==
  /\ rpc = "restarting"
  /\ Restart
  /\ UNCHANGED <<vars, child, startRev, pending, output, resumes, unseen, told>>

DrainedForRestart ==
  /\ rpc = "restarting" /\ OutputDrained
  /\ Restart
  /\ UNCHANGED <<vars, child, startRev, pending, output, resumes, unseen, told>>

\* Not the code: the lockout is looked up before the parser is done.
ExitUndrained ==
  /\ rpc = "draining"
  /\ pending' = (app.revision # startRev /\ app.target # None)
  /\ rpc' = "try"
  /\ UNCHANGED <<vars, child, startRev, result, output, resumes, unseen, told>>

\* lockout_recorded_since
DrainedAfterExit ==
  /\ rpc = "draining" /\ OutputDrained
  /\ pending' = (app.revision # startRev /\ app.target # None)
  /\ rpc' = "try"
  /\ UNCHANGED <<vars, child, startRev, result, output, resumes, unseen, told>>

Exit == rpc' = "done" /\ result' = "child"

\* await_resume_after_exit: a continue that is already there comes first.
TryReceive ==
  /\ rpc = "try"
  /\ IF resumes > 0 THEN resumes' = resumes - 1 /\ Restart
     ELSE /\ UNCHANGED resumes
          /\ IF pending THEN rpc' = "subscribe" /\ UNCHANGED result ELSE Exit
  /\ UNCHANGED <<vars, child, startRev, pending, output, unseen, told>>

Subscribe ==
  /\ rpc = "subscribe"
  /\ unseen' = FALSE
  /\ IF app.target = None THEN Exit ELSE rpc' = "await" /\ UNCHANGED result
  /\ UNCHANGED <<vars, child, startRev, pending, output, resumes, told>>

AwaitContinue ==
  /\ rpc = "await" /\ resumes > 0
  /\ resumes' = resumes - 1
  /\ Restart
  /\ UNCHANGED <<vars, child, startRev, pending, output, unseen, told>>

\* The monitor returned and dropped the sender.
AwaitClosed ==
  /\ rpc = "await" /\ resumes = 0 /\ pc = "stopped"
  /\ Exit
  /\ UNCHANGED <<vars, child, startRev, pending, output, resumes, unseen, told>>

AwaitStatus ==
  /\ rpc = "await" /\ unseen
  /\ unseen' = FALSE
  /\ IF app.target = None THEN Exit ELSE UNCHANGED <<rpc, result>>
  /\ UNCHANGED <<vars, child, startRev, pending, output, resumes, told>>

-------------------------------------------------------------------------------
\* The world of the monitor, where the transcripts are those of the child.
WorldStep ==
  /\ \/ Tick \/ WatcherDies
     \/ child = "running" /\ (ChildOutput \/ \E p \in Transcripts, row \in Rows : WriteRow(p, row))
     \/ GoQuiet
     \/ \E kind \in {"other", "error"} : WatcherNoise(kind)
  /\ UNCHANGED own

ParserStep == ParseSession \/ ParseLimit \/ RecordLimit

RunnerStep ==
  \/ Spawn \/ ChildWaited \/ KillForRestart \/ DrainedForRestart \/ DrainedAfterExit
  \/ TryReceive \/ Subscribe \/ AwaitContinue \/ AwaitClosed \/ AwaitStatus

SessionNext ==
  \/ MonitorStep \/ SendContinue \/ SendFails
  \/ ParserStep \/ DropLine
  \/ RunnerStep \/ RunnerFails \/ KillFails
  \/ \E sid \in BOOLEAN, row \in Rows \cup {None} :
       (sid \/ row # None) /\ ChildWrites([session |-> sid, row |-> row])
  \/ ChildExits
  \/ WorldStep

SessionSpec == SessionInit /\ [][SessionNext]_sessionVars

\* Tasks that are ready run; the clock goes on.  Nothing is assumed of the
\* child: it need neither write nor exit.
SessionFairness ==
  /\ WF_sessionVars(MonitorStep \/ SendContinue \/ SendFails)
  /\ SF_sessionVars(Receive /\ UNCHANGED own)
  /\ SF_sessionVars(OutputQuiet /\ UNCHANGED own)
  /\ WF_sessionVars(ParserStep) /\ WF_sessionVars(RunnerStep)
  /\ WF_sessionVars(Tick /\ UNCHANGED own) /\ WF_sessionVars(GoQuiet /\ UNCHANGED own)

SessionFairSpec == SessionSpec /\ SessionFairness

-------------------------------------------------------------------------------
\* Types of the variables of this module, and which of them go together.
SessionTypeOK ==
  /\ rpc \in RunnerPCs /\ child \in {"none", "running", "exited"}
  /\ startRev \in Revision /\ pending \in BOOLEAN /\ session \in BOOLEAN
  /\ resumes \in Nat /\ lines \in Seq(Line) /\ written \in Nat
  /\ unseen \in BOOLEAN /\ result \in Results
  /\ reported \in Update \cup {None} /\ accepted \in BOOLEAN

\* The child's output reported the lockout that is in force.
ReportedInForce == reported # None /\ app.target = reported.target /\ app.watermark = reported.time

Returns == rpc' = "done" /\ result' = "child" /\ result = "none"

\* The runner does not return the child's exit code while the lockout that the
\* child's output recorded is in force, unless the monitor has stopped
\* (lockout_recorded_since is read only after the parser is drained).
RecordedLimitIsAwaited ==
  [][ Returns => ~(ReportedInForce /\ accepted) \/ pc = "stopped" ]_sessionVars

\* A runner that waits for a continue does not return while one is in the
\* channel.
QueuedContinueIsTaken ==
  [][ Returns => resumes = 0 ]_sessionVars

\* A child is never running twice, and when the runner restarts or waits its
\* output has been parsed to the last line: the revision the next child starts
\* from cannot be moved by the previous child.
NoOutputOutlivesItsChild ==
  rpc \in {"spawn", "try", "subscribe", "await"} => child # "running" /\ OutputDrained

\* Every continue the monitor sends is taken, or the runner returns.
ContinueIsTaken == resumes > 0 ~> (resumes = 0 \/ rpc = "done")
===============================================================================
