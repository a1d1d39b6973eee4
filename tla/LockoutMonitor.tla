---------------------------- MODULE LockoutMonitor ----------------------------
(***************************************************************************)
(* The lockout monitor: the task that scans the transcripts for rate-limit *)
(* rows, keeps the lockout up to date and, once it has expired, asks the   *)
(* resume sink to type "continue".                                         *)
(*                                                                         *)
(* Two tasks share the AppState.  The monitor is a program counter and its *)
(* locals; one action is one critical section, one await or one call.  The *)
(* stream-json runner's parser, present when RunnerReports holds, records  *)
(* limits of its own at any moment.  The rest is the environment: the      *)
(* clock, the program that writes transcripts and output, and the watcher. *)
(***************************************************************************)
EXTENDS AppState, FiniteSets

CONSTANTS
  Transcripts,       \* the .jsonl files under the session root
  RunnerReports,     \* TRUE under the stream-json runner, FALSE under a PTY
  Outcomes,          \* what the sink's resume() may return
  MaxRetries,        \* length of RESUME_RETRY_DELAYS
  MaxWatchAttempts,  \* WATCHER_MAX_RETRIES
  Rows,              \* the rows that may be written or reported
  StartTime,         \* the clock when the monitor starts
  MaxTime,           \* bound: the clock stops here
  MaxRows,           \* bound: rows written to one transcript
  MaxReports,        \* bound: limits seen by the runner's parser
  MaxFaults          \* bound: watcher and file-system faults

ASSUME PathAssumption == None \notin Transcripts
ASSUME RunnerAssumption == RunnerReports \in BOOLEAN
ASSUME OutcomesAssumption == Outcomes \subseteq {"Sent", "Definite", "Ambiguous"}
ASSUME RowsAssumption == Rows \subseteq Row
ASSUME BoundsAssumption ==
  /\ {MaxRetries, StartTime, MaxTime, MaxRows, MaxReports, MaxFaults} \subseteq Nat
  /\ MaxWatchAttempts \in Nat \ {0}

\* What the watcher channel carries: a changed transcript, an event of no
\* interest (another file, another kind) or a notify error.
Event == {event \in [kind : {"changed", "other", "error"}, path : Transcripts \cup {None}] :
            event.kind = "changed" <=> event.path # None}

VARIABLES
  \* shared
  app,        \* the AppState
  cursor,     \* its file_size_cache, in rows; an absent entry is 0
  hot,        \* whether last_output_activity is recent
  \* the monitor task
  pc,         \* where it stands
  paths,      \* transcripts still to be scanned
  found,      \* the newest update of the startup scan
  scan,       \* the scan in progress: its path, size and result
  target,     \* lockout_target, then expired_target
  spent,      \* retry_exhausted
  revision,   \* expired_revision
  attempt,    \* the counter of the retry loop it is in
  outcome,    \* what the last resume() returned
  \* the runner's parser
  report,     \* the update it has parsed and not yet recorded
  reports,    \* how many it has parsed
  \* the environment
  now,        \* the wall clock
  files,      \* the rows of each transcript
  queue,      \* the watcher channel
  watching,   \* whether a watcher holds the channel's sender
  faults,     \* faults so far
  \* history, read by the properties only
  attempts,   \* resume() calls since the last accepted update
  delivered,  \* whether one of them may have reached the child
  overlooked  \* transcripts changed or left unscanned with no event to say so

shared  == <<app, cursor, hot>>
locals  == <<paths, found, scan, target, spent, revision, attempt, outcome>>
runner  == <<report, reports>>
world   == <<now, files, queue, watching, faults>>
history == <<attempts, delivered, overlooked>>
vars    == <<shared, pc, locals, runner, world, history>>

-------------------------------------------------------------------------------
\* The listing of the startup scan may be any set of the transcripts: the
\* others are created later.  Without a session root the task returns at once.
Init ==
  /\ app = NewAppState
  /\ cursor = [p \in Transcripts |-> 0]
  /\ hot = FALSE
  /\ pc \in {"startup", "stopped"}
  /\ paths \in SUBSET Transcripts
  /\ found = None /\ scan = None /\ target = None /\ spent = FALSE
  /\ revision = 0 /\ attempt = 0 /\ outcome = None
  /\ report = None /\ reports = 0
  /\ now = StartTime
  /\ files = [p \in Transcripts |-> <<>>]
  /\ queue = <<>> /\ watching = FALSE /\ faults = 0
  /\ attempts = 0 /\ delivered = FALSE /\ overlooked = {}

\* The history of an update applied to the state.
Record(update) ==
  IF IsNews(app, update) THEN attempts' = 0 /\ delivered' = FALSE
  ELSE UNCHANGED <<attempts, delivered>>

-------------------------------------------------------------------------------
\* The startup scan.  It reads every listed transcript backwards, chunk by
\* chunk, and keeps the newest update of the first chunk that has one; where
\* the chunks begin depends on the bytes, so any suffix with an update will do.
StartupScan(p) ==
  /\ pc = "startup" /\ p \in paths
  /\ paths' = paths \ {p}
  /\ cursor' = [cursor EXCEPT ![p] = Len(files[p])]
  /\ LET Suffix(k) == ScanResult(files[p], k, Len(files[p]), StartTime)
     IN IF Suffix(1) = {None} THEN UNCHANGED found
        ELSE \E k \in 1 .. Len(files[p]) : \E update \in Suffix(k) :
               /\ update # None
               /\ found' = SelectNewest(found, update)
  /\ UNCHANGED <<app, hot, pc, scan, target, spent, revision, attempt, outcome,
                 runner, world, history>>

StartupScanFails(p) ==
  /\ pc = "startup" /\ p \in paths /\ faults < MaxFaults
  /\ faults' = faults + 1
  /\ paths' = paths \ {p}
  /\ cursor' = [cursor EXCEPT ![p] = Len(files[p])]
  /\ overlooked' = overlooked \cup {p}
  /\ UNCHANGED <<app, hot, pc, found, scan, target, spent, revision, attempt,
                 outcome, runner, now, files, queue, watching, attempts, delivered>>

\* A limit that expired meanwhile is recorded as cleared; the revision stays.
StartupApply ==
  /\ pc = "startup" /\ paths = {}
  /\ IF found = None THEN UNCHANGED <<app, attempts, delivered>>
     ELSE LET expired == IsLocked(found) /\ found.target <= now
              update  == IF expired THEN [found EXCEPT !.target = None] ELSE found
          IN /\ app' = ApplyLimitUpdate(app, update, FALSE)
             /\ Record(update)
  /\ pc' = "watch" /\ attempt' = 0 /\ found' = None
  /\ UNCHANGED <<cursor, hot, paths, scan, target, spent, revision, outcome,
                 runner, world, overlooked>>

\* The root is created again before the first attempt to watch it; if that
\* fails the task returns.
RootUnavailable ==
  /\ pc = "watch" /\ attempt = 0 /\ faults < MaxFaults
  /\ faults' = faults + 1
  /\ pc' = "stopped"
  /\ UNCHANGED <<shared, locals, runner, now, files, queue, watching, history>>

CreateWatcher ==
  /\ pc = "watch"
  /\ watching' = TRUE /\ queue' = <<>> /\ pc' = "read" /\ attempt' = 0
  /\ UNCHANGED <<shared, paths, found, scan, target, spent, revision, outcome, runner, now, files, faults, history>>

CreateWatcherFails ==
  /\ pc = "watch" /\ faults < MaxFaults
  /\ faults' = faults + 1
  /\ attempt' = attempt + 1
  /\ pc' = IF attempt' = MaxWatchAttempts THEN "stopped" ELSE "watch"
  /\ UNCHANGED <<shared, paths, found, scan, target, spent, revision, outcome,
                 runner, now, files, queue, watching, history>>

-------------------------------------------------------------------------------
\* The event loop: read the lockout under the lock, then look at the clock.
ReadLockout ==
  /\ pc = "read"
  /\ target' = app.target
  /\ spent' = (app.exhausted = app.revision)
  /\ pc' = "decide"
  /\ UNCHANGED <<shared, paths, found, scan, revision, attempt, outcome,
                 runner, world, history>>

\* Not the code: the continue is sent one moment before the reset.
DecideEarly ==
  /\ pc = "decide"
  /\ pc' = IF target = None THEN "recv"
           ELSE IF now + 1 < target THEN "cooldown"
           ELSE IF spent THEN "recv" ELSE "due"
  /\ target' = IF pc' = "due" THEN target ELSE None
  /\ spent' = FALSE
  /\ UNCHANGED <<shared, paths, found, scan, revision, attempt, outcome,
                 runner, world, history>>

\* Not the code: the wait for the reset has no timer.
DecideAsleep ==
  /\ pc = "decide"
  /\ pc' = IF target # None /\ target <= now /\ ~spent THEN "due" ELSE "recv"
  /\ target' = IF pc' = "due" THEN target ELSE None
  /\ spent' = FALSE
  /\ UNCHANGED <<shared, paths, found, scan, revision, attempt, outcome,
                 runner, world, history>>

Decide ==
  /\ pc = "decide"
  /\ pc' = IF target = None THEN "recv"
           ELSE IF now < target THEN "cooldown"
           ELSE IF spent THEN "recv" ELSE "due"
  /\ target' = IF pc' = "due" THEN target ELSE None
  /\ spent' = FALSE
  /\ UNCHANGED <<shared, paths, found, scan, revision, attempt, outcome,
                 runner, world, history>>

\* The sleep of the select ends: at the target, or before it to log progress.
Wake ==
  /\ pc = "cooldown" /\ pc' = "read"
  /\ UNCHANGED <<shared, locals, runner, world, history>>

\* rx.recv() returned; a changed transcript starts the debounce window.
Receive ==
  /\ pc \in {"recv", "cooldown"} /\ queue # <<>>
  /\ queue' = Tail(queue)
  /\ pc' = IF Head(queue).kind = "error" THEN "read" ELSE "debounce"
  /\ paths' = IF Head(queue).kind = "changed" THEN {Head(queue).path} ELSE {}
  /\ UNCHANGED <<shared, found, scan, target, spent, revision, attempt, outcome,
                 runner, now, files, watching, faults, history>>

\* rx.recv() returned None: the watcher is gone and has to be created anew.
Disconnected ==
  /\ pc \in {"recv", "cooldown"} /\ queue = <<>> /\ ~watching
  /\ pc' = "watch" /\ attempt' = 0
  /\ UNCHANGED <<shared, paths, found, scan, target, spent, revision, outcome,
                 runner, world, history>>

AfterDebounce(collected) == IF collected = {} THEN "read" ELSE "defer"

\* Not the code: the events that follow the first one are drained unread.
CollectNothing ==
  /\ pc = "debounce" /\ queue # <<>>
  /\ queue' = Tail(queue)
  /\ pc' = IF Head(queue).kind = "error" THEN AfterDebounce(paths) ELSE pc
  /\ UNCHANGED <<shared, paths, found, scan, target, spent, revision, attempt,
                 outcome, runner, now, files, watching, faults, history>>

\* Inside the debounce window events are collected; an error event ends it.
Collect ==
  /\ pc = "debounce" /\ queue # <<>>
  /\ queue' = Tail(queue)
  /\ paths' = IF Head(queue).kind = "changed" THEN paths \cup {Head(queue).path}
              ELSE paths
  /\ pc' = IF Head(queue).kind = "error" THEN AfterDebounce(paths) ELSE pc
  /\ UNCHANGED <<shared, found, scan, target, spent, revision, attempt, outcome,
                 runner, now, files, watching, faults, history>>

\* The window closes: its five seconds are over, or the channel is closed.
DebounceOver ==
  /\ pc = "debounce"
  /\ pc' = AfterDebounce(paths)
  /\ UNCHANGED <<shared, locals, runner, world, history>>

\* Not the code: the scan is given up while the output is hot.
OutputJudgedOnce ==
  /\ pc = "defer"
  /\ pc' = IF hot THEN "read" ELSE "scan"
  /\ paths' = IF hot THEN {} ELSE paths
  /\ UNCHANGED <<shared, found, scan, target, spent, revision, attempt, outcome,
                 runner, world, history>>

\* The scan waits, in steps of DEFER_SCAN_INTERVAL, for the output to go quiet.
OutputQuiet ==
  /\ pc = "defer" /\ ~hot
  /\ pc' = "scan"
  /\ UNCHANGED <<shared, locals, runner, world, history>>

\* One transcript: its size is read, then the rows from the cursor on and those
\* of the overlap before it, whose number depends on their length.
BeginScan(p) ==
  /\ pc = "scan" /\ p \in paths
  /\ LET size == Len(files[p])
     IN \E overlap \in 0 .. cursor[p] :
          \E update \in IF size > cursor[p]
                        THEN ScanResult(files[p], cursor[p] - overlap + 1, size, now)
                        ELSE {None} :
            scan' = [path |-> p, size |-> size, update |-> update]
  /\ pc' = "scanning"
  /\ UNCHANGED <<shared, paths, found, target, spent, revision, attempt, outcome,
                 runner, world, history>>

AfterScan == IF paths' = {} THEN "read" ELSE "scan"

\* The transcript did not change meanwhile: the cursor moves, the update counts.
EndScan ==
  /\ pc = "scanning" /\ Len(files[scan.path]) = scan.size
  /\ cursor' = [cursor EXCEPT ![scan.path] = scan.size]
  /\ IF scan.update = None THEN UNCHANGED <<app, attempts, delivered>>
     ELSE /\ app' = ApplyLimitUpdate(app, scan.update, TRUE)
          /\ Record(scan.update)
  /\ paths' = paths \ {scan.path} /\ scan' = None /\ pc' = AfterScan
  /\ UNCHANGED <<hot, found, target, spent, revision, attempt, outcome,
                 runner, world, overlooked>>

\* ScanFailure::Changed: nothing is kept, the next event scans it again.
ScanChanged ==
  /\ pc = "scanning" /\ Len(files[scan.path]) # scan.size
  /\ paths' = paths \ {scan.path} /\ scan' = None /\ pc' = AfterScan
  /\ UNCHANGED <<shared, found, target, spent, revision, attempt, outcome,
                 runner, world, history>>

\* The other scan failures (open, metadata, mapping, invalid UTF-8).
ScanFails ==
  /\ pc = "scanning" /\ faults < MaxFaults
  /\ faults' = faults + 1
  /\ overlooked' = overlooked \cup {scan.path}
  /\ paths' = paths \ {scan.path} /\ scan' = None /\ pc' = AfterScan
  /\ UNCHANGED <<shared, found, target, spent, revision, attempt, outcome,
                 runner, now, files, queue, watching, attempts, delivered>>

-------------------------------------------------------------------------------
\* The expiry of a lockout.  Each lock is taken anew, and the sink is called
\* without it.
BeginExpiry ==
  /\ pc = "due"
  /\ revision' = app.revision /\ attempt' = 0 /\ pc' = "announce"
  /\ UNCHANGED <<shared, paths, found, scan, target, spent, outcome,
                 runner, world, history>>

Announce ==
  /\ pc = "announce"
  /\ app' = PublishIfCurrent(app, target, revision, "Resuming")
  /\ pc' = "resume"
  /\ UNCHANGED <<cursor, hot, locals, runner, world, history>>

\* Not the code: one attempt too many.
ResumeOnceMore(result) ==
  /\ pc \in {"resume", "backoff"}
  /\ outcome' = result
  /\ attempts' = attempts + 1
  /\ delivered' = (delivered \/ result # "Definite")
  /\ pc' = IF result = "Definite" /\ attempt <= MaxRetries THEN "failed" ELSE "settle"
  /\ UNCHANGED <<shared, paths, found, scan, target, spent, revision, attempt,
                 runner, world, overlooked>>

\* Not the code: an ambiguous failure is retried like a definite one.
ResumeAmbiguous(result) ==
  /\ pc \in {"resume", "backoff"}
  /\ outcome' = result
  /\ attempts' = attempts + 1
  /\ delivered' = (delivered \/ result # "Definite")
  /\ pc' = IF result # "Sent" /\ attempt < MaxRetries THEN "failed" ELSE "settle"
  /\ UNCHANGED <<shared, paths, found, scan, target, spent, revision, attempt,
                 runner, world, overlooked>>

\* resume(), the first time or after a backoff.
Resume(result) ==
  /\ pc \in {"resume", "backoff"}
  /\ outcome' = result
  /\ attempts' = attempts + 1
  /\ delivered' = (delivered \/ result # "Definite")
  /\ pc' = IF result = "Definite" /\ attempt < MaxRetries THEN "failed" ELSE "settle"
  /\ UNCHANGED <<shared, paths, found, scan, target, spent, revision, attempt,
                 runner, world, overlooked>>

\* One round of the retry loop, up to the end of its sleep.
AnnounceRetry ==
  /\ pc = "failed"
  /\ app' = PublishIfCurrent(app, target, revision, "Retrying")
  /\ attempt' = attempt + 1 /\ pc' = "backoff"
  /\ UNCHANGED <<cursor, hot, paths, found, scan, target, spent, revision,
                 outcome, runner, world, history>>

Settle ==
  /\ pc = "settle"
  /\ IF outcome = "Sent"
       THEN /\ app' = SettleSent(app, target, revision)
            /\ cursor' = IF IsCurrent(app, target, revision)
                         THEN [p \in Transcripts |-> 0] ELSE cursor
       ELSE app' = SettleFailed(app, target, revision) /\ UNCHANGED cursor
  /\ pc' = "read"
  /\ target' = None /\ revision' = 0 /\ attempt' = 0 /\ outcome' = None
  /\ UNCHANGED <<hot, paths, found, scan, spent, runner, world, history>>

-------------------------------------------------------------------------------
\* The runner's parser: it interprets the line first and takes the lock later.
ReportParse(row) ==
  /\ RunnerReports /\ report = None /\ reports < MaxReports
  /\ row.time <= now
  /\ report' = Interpret(row, now)
  /\ reports' = reports + 1
  /\ UNCHANGED <<shared, pc, locals, world, history>>

ReportApply ==
  /\ report # None
  /\ app' = ApplyLimitUpdate(app, report, TRUE)
  /\ Record(report)
  /\ report' = None
  /\ UNCHANGED <<cursor, hot, pc, locals, reports, world, overlooked>>

-------------------------------------------------------------------------------
Tick ==
  /\ now < MaxTime /\ now' = now + 1
  /\ UNCHANGED <<shared, pc, locals, runner, files, queue, watching, faults, history>>

\* The wrapped program appends a row; a live watcher reports it.  The rows of
\* one transcript are in the order of their timestamps.
WriteRow(p, row) ==
  /\ Len(files[p]) < MaxRows /\ row.time <= now
  /\ \A i \in 1 .. Len(files[p]) : files[p][i].time <= row.time
  /\ files' = [files EXCEPT ![p] = Append(@, row)]
  /\ IF watching
       THEN /\ queue' = Append(queue, [kind |-> "changed", path |-> p])
            /\ UNCHANGED overlooked
       ELSE /\ overlooked' = IF p \in paths /\ pc # "scanning" THEN overlooked
                             ELSE overlooked \cup {p}
            /\ UNCHANGED queue
  /\ UNCHANGED <<shared, pc, locals, runner, now, watching, faults, attempts, delivered>>

ChildOutput ==
  /\ ~hot /\ hot' = TRUE
  /\ UNCHANGED <<app, cursor, pc, locals, runner, world, history>>

GoQuiet ==
  /\ hot /\ hot' = FALSE
  /\ UNCHANGED <<app, cursor, pc, locals, runner, world, history>>

\* The watcher sends an event of no interest or an error.
WatcherNoise(kind) ==
  /\ watching /\ faults < MaxFaults
  /\ faults' = faults + 1
  /\ queue' = Append(queue, [kind |-> kind, path |-> None])
  /\ UNCHANGED <<shared, pc, locals, runner, now, files, watching, history>>

WatcherDies ==
  /\ watching /\ faults < MaxFaults
  /\ faults' = faults + 1
  /\ watching' = FALSE
  /\ UNCHANGED <<shared, pc, locals, runner, now, files, queue, history>>

-------------------------------------------------------------------------------
Startup ==
  \/ \E p \in Transcripts : StartupScan(p) \/ StartupScanFails(p)
  \/ StartupApply

Watch == RootUnavailable \/ CreateWatcher \/ CreateWatcherFails

Loop == ReadLockout \/ Decide \/ Wake \/ Receive \/ Disconnected

Scan ==
  \/ Collect \/ DebounceOver \/ OutputQuiet
  \/ \E p \in Transcripts : BeginScan(p)
  \/ EndScan \/ ScanChanged \/ ScanFails

Expiry ==
  \/ BeginExpiry \/ Announce
  \/ \E result \in Outcomes : Resume(result)
  \/ AnnounceRetry \/ Settle

Monitor == Startup \/ Watch \/ Loop \/ Scan \/ Expiry

Reporter == (\E row \in Rows : ReportParse(row)) \/ ReportApply

Environment ==
  \/ Tick \/ ChildOutput \/ GoQuiet \/ WatcherDies
  \/ \E p \in Transcripts, row \in Rows : WriteRow(p, row)
  \/ \E kind \in {"other", "error"} : WatcherNoise(kind)

Next == Monitor \/ Reporter \/ Environment

Spec == Init /\ [][Next]_vars

\* The runtime polls a task that is ready.  An event that stays in the channel
\* wins the select at last, and a scan that keeps waiting for quiet output
\* samples it while it is quiet.
Fairness ==
  /\ WF_vars(Monitor) /\ SF_vars(Receive) /\ SF_vars(OutputQuiet)
  /\ WF_vars(ReportApply) /\ WF_vars(Tick) /\ WF_vars(GoQuiet)

FairSpec == Spec /\ Fairness
-------------------------------------------------------------------------------
PCs == {"startup", "watch", "read", "decide", "cooldown", "recv", "debounce",
        "defer", "scan", "scanning", "due", "announce", "resume", "failed",
        "backoff", "settle", "stopped"}

ScanRecord == [path : Transcripts, size : Nat, update : Update \cup {None}]

\* Types of all variables.
TypeOK ==
  /\ app \in AppStates
  /\ cursor \in [Transcripts -> Nat]
  /\ hot \in BOOLEAN
  /\ pc \in PCs
  /\ paths \in SUBSET Transcripts
  /\ found \in Update \cup {None}
  /\ scan \in ScanRecord \cup {None}
  /\ target \in Time \cup {None}
  /\ spent \in BOOLEAN
  /\ revision \in Revision
  /\ attempt \in Nat
  /\ outcome \in Outcomes \cup {None}
  /\ report \in Update \cup {None}
  /\ reports \in Nat
  /\ now \in Time
  /\ files \in [Transcripts -> Seq(Row)]
  /\ queue \in Seq(Event)
  /\ watching \in BOOLEAN
  /\ faults \in Nat
  /\ attempts \in Nat
  /\ delivered \in BOOLEAN
  /\ overlooked \in SUBSET Transcripts

\* The status shown to the user agrees with the lockout, although the two are
\* written by different tasks and an expiry publishes its statuses one lock at
\* a time (publish_resume_status_if_current, apply_limit_update).
StatusMatchesLockout ==
  /\ app.status.kind \in MonitoringKinds <=> app.target = None
  /\ app.status.kind = "RateLimited" => app.status.target = app.target

\* "Continue failed" is shown exactly while the lockout in force is the one
\* whose retries are exhausted: a newer limit always gets its own attempts
\* (resume_exhausted_revision against lockout_revision).
ExhaustionIsCurrent ==
  /\ app.exhausted # None => app.exhausted = app.revision
  /\ app.status.kind = "ContinueFailed" <=> app.exhausted # None

\* A row the AppState does not account for yet.
Unnoticed(p) ==
  \E i \in 1 .. Len(files[p]) :
    /\ Interpret(files[p][i], now) # None
    /\ IsNews(app, files[p][i])

\* The transcripts the channel has an event of.
Queued == {p \in Transcripts : \E i \in 1 .. Len(queue) : queue[i].kind = "changed" /\ queue[i].path = p}

\* No row of the rate limit is forgotten: once the startup scan is over, a
\* transcript with a row newer than the watermark is waiting to be scanned or
\* has an event in the channel.  Exempt are transcripts that changed while no
\* watcher was alive or whose scan failed on an I/O error (debounce_events,
\* scan_one_path, the clearing of file_size_cache after a continue).
NothingForgotten ==
  pc \notin {"startup", "stopped"} =>
    \A p \in Transcripts \ overlooked : Unnoticed(p) => p \in paths \cup Queued

Later(newer, older) == newer # None /\ (older = None \/ older < newer)

\* The lockout, its revision and the watermark change only with an event newer
\* than every event accepted before; the one exception is that a lockout in
\* force is dropped (apply_limit_update against rescans of the same rows, of
\* the overlap, and of whole transcripts after file_size_cache was cleared).
LockoutsComeFromNews ==
  [][ (\/ app'.revision # app.revision
       \/ app'.watermark # app.watermark
       \/ app'.target # app.target /\ app'.target # None)
      => Later(app'.watermark, app.watermark) ]_vars

\* A lockout is dropped without a newer event only if a continue was sent since
\* it was recorded (the currency check at the end of handle_expiry_with).
DroppedOnlyAfterContinue ==
  [][ (app'.target = None /\ app.target # None /\ app'.watermark = app.watermark)
      => delivered ]_vars

\* A continue is sent only while a lockout is in force and its reset is past.
ContinueOnlyAfterReset ==
  [][ attempts' > attempts => app.target # None /\ app.target <= now ]_vars

\* One limit event is answered by at most 1 + MaxRetries attempts, and by none
\* after one that may have reached the child (no retry of an ambiguous failure).
ContinueAtMostOnce ==
  [][ attempts' > attempts => ~delivered /\ attempts <= MaxRetries ]_vars

\* A lockout whose reset is past is answered by an attempt to continue, unless
\* a newer event replaces it or the watcher could not be recovered.
DueIsContinued ==
  \A t \in 0 .. MaxTime :
    (app.target = t /\ t <= now) ~> (attempts > 0 \/ app.target # t \/ pc = "stopped")

\* A row the watcher reports is accounted for at last, however the output of
\* the child delays the scans.
RowsAreNoticed ==
  \A p \in Transcripts :
    Unnoticed(p) ~> (~Unnoticed(p) \/ p \in overlooked \/ pc = "stopped")
===============================================================================
