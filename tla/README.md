# A verification development for botsitter

botsitter wraps Claude Code or Codex CLI, finds out from their transcripts (or from the
stream-json output of a print-mode child) when a usage limit is in force, waits for the reset
and types or sends "continue".  This directory holds TLA+ modules that model its control logic,
TLC configurations that check them on small instances, and TLAPS proofs of the main safety
properties for every instance.  Paths such as `monitor/mod.rs` are under `src/src/`.

## 1. Inventory

| Component | State it keeps | Operations | Interacts through |
|---|---|---|---|
| Limit updates, transcript parsers (`harness.rs`, `providers/*/transcript.rs`) | none | line -> update, diagnostic or nothing | called by scans and the stream parser |
| Shared state (`models.rs`) | lockout target, watermark (time of the last accepted event), revision, exhausted revision, file size cache, last output, live status | critical sections under one mutex | shared by monitor, runner, output readers |
| Lockout monitor (`monitor/`) | program position, paths to scan, retry counter | startup scan, watching and re-watching, debounce, deferred scan, expiry with retries | reads transcripts, `notify` channel, calls the resume sink |
| Claude stream runner (`providers/claude/stream.rs`) | child, session id, starting revision, channel of continues | spawn, pump, parse, restart, await | resume channel from the monitor, AppState, live status |
| PTY runner and bridge (`runners/pty.rs`, `pty_bridge.rs`, `resume.rs`) | pty pair, writer mutex | copy output and input, resize, inject `continue\r` | marks output activity, is the sink of the monitor |
| Reset time parsing (`providers/claude/reset_time.rs`) | none | message -> moment | used by the Claude parsers |
| Logger (`logging.rs`) | bounded queue, drop counter, file size, clients | enqueue, write, rotate, accept, broadcast, shut down | live status, viewers over TCP |
| Live log frames, viewer (`live_logs.rs`, `log_viewer.rs`, `bin/botsitter-logs.rs`) | shown status, discovered sessions | encode and decode frames, discover, render | manifest files, TCP |
| Session roots, discovery (`watcher/files.rs`, `providers/*/root.rs`, `paths.rs`) | none | resolve directories, list transcripts | used at startup |
| Provider command lines (`cli.rs`, `providers/*/cli.rs`) | none | rewrite arguments, pick the runner | used by `app.rs` |
| Shell (`main.rs`, `app.rs`, `terminal.rs`, `time_format.rs`) and test children (`bin/`) | none of interest | wiring, exit codes | - |

What is hard: the monitor holds no lock between reading a lockout and acting on it, an expiry
lasts up to seven seconds of backoff, the stream runner's parser changes the same state at any
moment, file events are coalesced, deferred and lost with a watcher, and the same rows are read
again and again (overlap, several transcripts, a cleared cache).  The runner has to decide whether
the exit of its child is the end of the session or a pause until the reset.

What makes each part correct:

- *State*: the status shown, the lockout and the exhaustion mark agree; only a newer event replaces
  a lockout; only a continue drops one without an event.
- *Monitor*: no row is forgotten; a continue is attempted only after the reset, at most once
  plus the retries per limit event, never again after an attempt that may have arrived; a due
  lockout is answered at last.
- *Stream runner*: the child's output is parsed to the end before its exit is judged; a recorded
  limit is awaited; a continue is never left behind.
- *Byte-level readers*: neither a chunk nor a read boundary loses, splits or joins lines; a scan ends.
- *Logger*: every line is written or counted as dropped once; the shutdown writes what is pending;
  a rotation saves the previous log; a viewer registered has every line and the current status.
- *PTY runner*: keys and continues do not tear each other; what the child printed is shown before
  the process ends; no full terminal stops a resume, the runner or the process.
- *Sessions and viewer*: no process is represented by another's manifest and none that ends in
  order leaves one; the viewer neither sleeps over a session nor waits for ever for one that stays.
- *Pure parts*: a reset time is the next moment of that name, a Codex record locks until its last
  window is over, the wrapped program gets the arguments it would have got, a log line is shown whole.

## 2. Modules

| Module | Models | Shape |
|---|---|---|
| `LimitUpdates` | parsers, `select_newest`, `newest_update_in_content` | operators |
| `AppState` | the record behind the mutex, one operator per critical section | operators |
| `LockoutMonitor` | the monitor task, the stream parser's writes, clock, files, watcher | state machine |
| `LockoutInvariants` | the inductive invariant of `LockoutMonitor` | predicates |
| `LockoutPromise` | nothing of the code: what a session is promised | abstract specification |
| `LockoutRefinement` | `LockoutPromise` as an instance over the monitor's variables | refinement mapping |
| `StreamSession` | `LockoutMonitor` composed with child, runner, parser queue and resume channel | state machine |
| `LockoutProofs` | theorems about these five | TLAPS |
| `BackwardScan` | `scan_file_backwards`, chunk by chunk | state machine |
| `TranscriptScan`, `TranscriptScanProofs` | one transcript in bytes: the program that writes it, the backward scan at startup, the scans at events | state machine extending `BackwardScan`, TLAPS |
| `LinePump`, `LinePumpProofs` | `pump_raw_output` and the parser's channel | state machine, TLAPS |
| `PtySession`, `PtySessionProofs` | `run_pty`, the bridge's reader and input thread, the resume sink, the end of the process | state machine, TLAPS |
| `LogQueue`, `LogQueueProofs` | `try_queue_line`, `shutdown_logging`, the logger's end of the queue | state machine, TLAPS |
| `LiveClients` | the viewers in `run_logger` | actions |
| `RunLogger`, `RunLoggerProofs` | `run_logger`: `LiveClients` extended by writing and rotating the log file | state machine, TLAPS |
| `SessionViewer`, `SessionViewerProofs` | port files of processes that start, end or are killed; discovery and connection of `botsitter-logs` | state machine, TLAPS |
| `ResetTime`, `CodexRecord`, `CommandLine`, `ViewerRender` | the pure parts: reset times, a record's windows, argument rewriting, the viewer's terminal calls | operators |
| `Inputs`, `InputsProofs` | the small inputs of these four, and the references they are compared with | state machine over inputs, TLAPS |
| `MCLockoutMonitor`, `MCStreamSession` | instances for TLC | constants |

**LimitUpdates.**  A row is `[time, reset]`; `Interpret(row, at)` is what the provider's parser
returns for it at the moment `at`.  Claude clears on a past reset, Codex returns a diagnostic.
Several saturated windows of a Codex record are one reset, their maximum; `CodexRecord` has that step.  `ScanResult` is the
reversed iteration with `max_by_key`, which keeps the last maximum: the earliest row of the file.

**AppState.**  Fields as in the code under shorter names (`target` is `lockout_target_time`,
`watermark` is `latest_rate_limit_event_time`, `revision` is `lockout_revision`, `exhausted` is
`resume_exhausted_revision`, `status` is the value in the `live_status` watch channel).
`file_size_cache` is the variable `cursor` of `LockoutMonitor`, `last_output_activity` its `hot`.

**LockoutMonitor.**  `pc` names where the task stands:

| `pc` | code |
|---|---|
| `startup`, `watch` | `initial_scan_from`, `create_watcher` |
| `read`, `decide`, `cooldown`, `recv` | the loop of `spawn_lockout_monitor`: the lock, the clock, the `select!`, `rx.recv()` |
| `debounce`, `defer`, `scan`, `scanning` | `debounce_events`, the busy-wait, between two paths, between the two `metadata()` calls |
| `due`, `announce`, `resume`, `failed`, `backoff`, `settle` | `handle_expiry_with`, one value per lock, call and sleep |
| `stopped` | the task has returned |

Each action is one critical section, one await or one call.  Two locks of the code with nothing
in between that another task can see are one action.  A row written while no watcher is alive, or whose
scan failed on an I/O error, makes its transcript a member of the history variable `overlooked`,
the exemption of `NothingForgotten`.  The histories `attempts` and `delivered` count the
`resume()` calls since the last accepted update and whether one may have arrived.

**LockoutPromise** has four actions: a limit event later than all before sets, moves or clears the
limit; an attempt answers a limit that is over, at most `1 + MaxRetries` times and never after one that
may have arrived; an answered limit is forgotten; the clock advances.  The mapping
takes `clock` to `now`, `limit` to `app.target`, `event` to `app.watermark`, `tries` to `attempts` and
`answered` to `delivered`; scans, watchers, debouncing and statuses are stuttering steps.

**StreamSession** extends `LockoutMonitor`.  `rpc` is where `run_stream_json_print` stands:
`spawn`, `running` (the `select!`), `draining` and `restarting` (awaiting pumps and parser after
an exit or a kill), `try`, `subscribe`, `await` (the three parts of `await_resume_after_exit`),
`done`.  The sink of the monitor is the sender of `resumes`; `unseen` is the `changed()` flag of the
runner's receiver.  Monitor actions are those of `LockoutMonitor`, conjoined with what they do to
the session (`Published`, `SendContinue`).

**BackwardScan.**  A file is a sequence of few bytes: newline, one byte for each time, and the two bytes
`Lead`, `Cont` of one character beyond ASCII; the line `<<t, t>>` is a row, so a chunk may end within a
row or a character.  Each action is one round of the `while` loop (`WithinLine`, `ScanChunk`,
`SkipChunk`, `ScanFirstChunk`), by the branch it takes.

**TranscriptScan** puts such a file (`disk`) under a program that writes lines byte by byte or replaces
the file, and follows the monitor: `phase` is `start`, `sized`, `baseline` for `initial_scan_from`, then
`watching`, `mapped`, `read` for `scan_one_path` between its two `metadata()` calls, and `dead`
after an access beyond the end of a mapped file.  `Start` is the beginning of the slice: the overlap, moved
to a character's boundary.  The history `skipped` holds how many bytes in front no scan need read: those
of the startup scan's file, and those that the cursor had passed when the file was replaced.  `StopsAtASuffix` justifies `StartupScan` of
`LockoutMonitor`, which takes the newest row of any last lines as the outcome of the scan, and
`NoRowIsOverlooked` its scan at an event, which sees whole rows.

**LinePump.**  `chunk` is what the inner loop has left of the last read; `Discard`, `EndLine`,
`KeepPiece`, `DropPiece` are its branches.  The reference is `DueLines(text)`, a function on the lengths
of a text: the lines that are for the parser among its first `n` bytes; `Consumed` is how many bytes were cut.
`LinesAsWritten` says that the parser's lines are those due at `Consumed`, and after losses a subsequence of
them that lacks as many as found the channel full.  `StreamSession` sees of it that a line arrives or is dropped.

**PtySession.**  `main` is where `run_pty` and after it `app::run` and `main` stand, `reader` and `input`
are the two loops of the bridge, `sink` is a `resume()`.  The terminal is a bounded buffer each way that
stays open as long as the child or a grandchild holds it.  A write is a sequence of parts that enter the
buffer one by one under the writer's mutex (`writer`); output is counted in bytes.  `DropRuntime` waits
for the blocking reader and for a `resume()` in a poll, as the drop of a tokio runtime does.

**LogQueue.**  `at[p]` is where `try_queue_line` stands: `reserved` and `swapped` on the way of a
permit, `full` before the count is increased.  A `send().await` in the shutdown has its turn before any
`try_reserve`, as tokio's semaphore does it.

**LiveClients** has one action per branch of the `select!`; `unseen` is what `changed()` waits for.
A client has a flag `whole`, false once a message may have reached it in part.

**RunLogger** adds the file: a line is first shown to the viewers (`ShowLine`), then the block under
`if current_size > MAX_LOG_SIZE` has one action per outcome, each followed by the write of the line
(`Write`), which may fail as well.  The history `astray` is set once a new log could not be created.
`LogQueue` stands for itself: what the loop does with a line does not reach back to the queue.

**SessionViewer.**  A process is `launched` (the file of its pid, if any, is removed), `bound`, `serving`
(the manifest is published by a rename), `ended`, `gone`, or `killed` at any of these; pids and ports
are free for others as soon as it is gone.  The viewer is `unwatched` until its watcher exists, then goes
through `look`, `read`, `probe`, `menu`, `connect`, `stream`, `wait`; `events` are the file events it has not
received.  `owner` in a record stands for `started_at`.

**Inputs.**  A state is one input: an argument list, a stream of log messages with failing terminal
calls, a message with a reset time and the moment of its logging, or a Codex record.
A step appends an argument or a message, or moves a time on.  `ArgumentsAreUnderstood`,
`ViewIsFaithful`, `ResetIsTheNextNamed`, `ResetIsNotBefore` and `RecordsAreUnderstood` compare the
translated operators with definitions that say what is meant by other means.  `ResetTime` has a calendar
of constants: leap years, short months, a clock change forward and one back.

## 3. Runs

| Run | Question | States |
|---|---|---|
| `monitor_pty` | `IInv`, `NothingForgotten`, `ContinueOnlyAfterReset`, `ContinueAtMostOnce`, the refinement `KeepsPromise`, and under fairness `DueIsContinued`, `RowsAreNoticed`, with two Codex transcripts, clear rows, moved windows, retries and a fault | 163 000 |
| `monitor_stream` | `StatusMatchesLockout`, `ExhaustionIsCurrent`, `DroppedOnlyAfterContinue` with Claude rows, while the runner records a limit at any moment | 1 530 000 |
| `session` | `NoOutputOutlivesItsChild`, `RecordedLimitIsAwaited`, and under fairness `ContinueIsTaken`, with one transcript, two reports and a fault | 544 000 |
| `transcript` | `StopsAtASuffix`, `NoRowIsOverlooked`, `WholeTextIsRead`, and under fairness `ValidScanEnds`, over all files up to 9 bytes, chunks of 3, an overlap of 1 and two replacements | 514 000 |
| `line_pump` | `LinesAsWritten` over all outputs up to 6 bytes, reads up to 4, lines up to 3 | 56 000 |
| `pty_session` | `InputIsWhole`, `OutputIsShown`, and under fairness `ResumeReturns`, `RunnerReturns`, `ProcessEnds`, with two reads of input, a continue, a grandchild and a fault | 280 000 |
| `log_queue` | `EveryLineIsCounted`, `PendingAreWritten`, and under fairness `ShutdownEnds`, with two producers and two places | 18 000 |
| `run_logger` | `EveryViewerIsCurrent`, `NoLineIsSkipped`, `NoTornMessage`, `PreviousLogIsSaved`, `LogIsBounded` with three connections and failures of every operation | 35 000 |
| `viewer` | `WaitingSeesNone`, `OwnFileOnly`, `NoFileIsLeft`, and under fairness `SessionIsFound`, with two processes that may take over each other's pid and port, and two faults | 196 000 |
| `inputs` | `ArgumentsAreUnderstood`, `ViewIsFaithful`, `ResetIsTheNextNamed`, `ResetIsNotBefore`, `RecordsAreUnderstood` over all small inputs | 157 000 |

`monitor_pty` checks the invariant the proofs use, `monitor_stream` the parts of it that must
hold under interference.  Every property has a mutant of the code that it catches; the operators
whose comment begins "Not the code" are those mutants and are used by nothing else.

### Disagreements found

| Run | What happens |
|---|---|
| `session_discarded_continue` | The monitor sends a continue and clears the lockout in one poll.  A runner that is past its `try_recv`, or whose `select!` picks the status, sees no lockout and returns with the continue in the channel (`stream.rs:302-309`, `319-331`). |
| `backward_scan_stuck` | A chunk that is not UTF-8 is "skipped" by a `continue` that does not move `current_pos` (`startup.rs:105`): it is read for ever. |

Each of these runs checks one property, and its counterexample is the behaviour described.

### Weaknesses the properties leave room for

Here no doc or test says otherwise, or the property exempts the case by a history it names.

- A lockout the stream parser records does not wake a monitor in `rx.recv()` (`monitor/mod.rs:120`): without a
  later file event no continue is sent.  In practice the child's transcript causes that event.
- `handle_expiry_with` does not ask again whether its lockout is still in force before it calls `resume()`
  (`runtime.rs:318`, `336`): a limit the stream parser records in between is answered early.  Under a
  PTY this cannot happen (`ContinueOnlyAfterReset`).
- Rows written between the scan of their transcript and the creation of the watcher, or with none alive, raise
  no event (`monitor/mod.rs:39-46`; history `overlooked`); a watcher's overflow event is ignored.
- The startup scan may take the first child's own limit for the baseline before the parser reports it; the
  runner then returns (`startup.rs:38`, `stream.rs:283`).  `RecordedLimitIsAwaited` asks only for
  limits the parser recorded.  Likewise, a limit that only the transcript holds is lost when
  the child exits before the debounced scan (`events.rs:18`), and the wrapper returns 0 when a child is killed
  for a restart before its session id was read (`stream.rs:184`).
- A grandchild that keeps the child's stdout open blocks the drain of the stream runner for ever
  (`stream.rs:263`); one that keeps the terminal open lets `run_pty` return but not the process end
  (`main.rs:33`; `ProcessEnds` speaks of a released terminal).
- A transcript that is truncated while it is read through its memory map kills the process, which the
  comment at `runtime.rs:71` does not expect (phase `dead`); one that was replaced is not read before the
  overlap (history `skipped`).
- A time without a date is moved by 24 hours and not by a day (`reset_time.rs:46`): on a day of 25 hours
  the reset may lie before the message, and the limit is cleared at once.  The same may happen to a date of
  the next year where the clock repeats an hour across its first midnight.  `ResetIsNotBefore`
  and `ResetIsTheNextNamed` say how far: the repeated hour may have ended as much as a day and an hour before
  the message, for a clock that is set back just after midnight repeats an hour of the day before.
- A killed process leaves its port file; once another session listens on that port, the list shows both
  (`log_viewer.rs:237`).  A probe counts as a viewer, so the first one takes the startup lines.
- The rotation after a log that could not be created replaces the full backup by a log of one line
  (`logging.rs:208-215`, `227-234`; history `astray`).

## 4. Bounds, and why they are enough

- `Rows`: four rows.  They hold two limits with the same reset and different times, two with
  different resets, and one already past when read; Codex adds clear rows.  Rows are told apart only
  by order of time and by whether the reset is past, so more rows repeat these cases.
- `MaxTime` 3 (2 in the sessions): resets at 2 and 3, so that one lockout can expire while another is
  in force.  `StartTime` 1 in `monitor_stream` lets the startup scan see a row that expires at once.
- `MaxRows`, `MaxReports`, `MaxLines`: how much the environment writes; two rows of one
  transcript suffice for a rescan with an overlap, one row in each of two for rescans across files.
- `MaxRetries` 1 or 2 for the 3 of the code, `MaxWatchAttempts` 1 or 2 for its 3: the first, a
  middle and the last round differ, further rounds do not.
- `MaxFaults`: I/O errors, dropped lines, watcher errors and losses.
- The watcher channel has no bound here (32 places in the code, whose sender blocks rather than drops).
- `TranscriptScan`: 9 bytes are three lines, a row or a text with a character each: more than two chunks of
  3 with a row, and a boundary at every place of a row and of a character; the overlap of one byte begins
  within the character.  Two replacements: the first leaves the cursor beyond the end of the file, the second
  comes while that is being scanned.  `backward_scan_stuck` needs 4 bytes.  `LinePump`: 6 bytes hold a line
  that is too long followed by one that fits, in every division into reads.
- `PtySession`: writes of two parts into a terminal of two: a command that does not fit beside one key, a
  reader that is behind when the child exits, and every order of two reads and one continue.
- `LogQueue`: two producers are all that can race for the count with the shutdown; five calls fill
  and overfill two places.  `RunLogger`: six lines are two rotations of two, with
  two failures at any of them; three connections are a first, a later and a failing viewer; two
  startup lines overflow within six.
- `SessionViewer`: two processes, pids and ports: a pid and a port taken over together or apart, while the
  other session still runs; two faults are one on either side.
- `Inputs`: five arguments are an option with its value, the program's name, an `exec` and the boundary.  Three
  years of two months of two or three days hold an ordinary year before and after a leap year, and a half day of two hours
  has noon, midnight and one hour more; one clock change goes forward, one back.
- The invariants' proofs use none of these bounds.

`CHECK_DEADLOCK FALSE` stands where the system may rest: when the runner is done and the clock
stops, the scan or the output has ended, the process or the viewer is done, or the bound on lines or
inputs is reached.

## 5. Fairness

`FairSpec`: weak fairness of the monitor's steps (the runtime polls a ready task), of the stream
parser's pending write, of the clock and of output going quiet.  Strong fairness of `Receive`
(in the cool-down the `select!` chooses at random between timer and channel, hence an event
cannot lose for ever) and of `OutputQuiet` (the busy-wait samples every three seconds; it assumes that it
samples at some quiet moment, without which the code really may wait for ever).  Nothing is assumed
of the wrapped program, of writes or of faults.  `SessionFairSpec` adds weak fairness of the runner
and its parser; a child need neither write nor exit.
`BackwardScan` and `TranscriptScan` assume that the loop of the backward scan goes on, `LogQueue` that
the runtime polls the shutdown and the logger and that a thread within `try_queue_line` goes on; nobody has
to log or to stop logging.  `PtySession` assumes that the runner, the reader, a writer that has something to
write and the sink go on and that the child reads what is typed while it runs; nobody has to type, print,
exit or let go of the terminal, and no call has to fail.  `SessionViewer` assumes that the viewer looks,
connects and receives the events; the user need not choose, and no process need start or end.

## 6. What is proved

With TLAPS, for all values of the constants that meet the `ASSUME`s of `LimitUpdates` and
`LockoutMonitor` (all in `LockoutProofs`):

- `TypeCorrect`: `Spec => []TypeOK`.
- `InvariantHolds`: `Spec => []IInv`, and from it `StatusIsRight`,
  `ExhaustionIsRight`, `NewsOnly` and `DroppedForContinue`.
- `NeverEarly`, `NeverTwice`: `ContinueOnlyAfterReset` and `ContinueAtMostOnce`, and `PromiseIsKept`:
  `KeepsPromise`, under the assumption `~RunnerReports`, hence for every PTY
  session.  For the stream runner they do not hold (see the weaknesses of section 3).
- `RowsInvariantHolds`, `NoRowIsForgotten`: `NothingForgotten`, for either provider, any
  transcripts and rows, and whatever the runner reports.

The argument.  `StatusMatchesLockout` and `ExhaustionIsCurrent` are not inductive: the retry
statuses are published by a task whose lockout may be gone.  `IInv` adds what the monitor may rely on
between two locks: `NotExhaustedMeanwhile` (nobody else marks a lockout exhausted, so none is
during an expiry), `RevisionTells` (the revision read at the start is never ahead of the state's,
and equal revisions mean the same lockout, because every live update increments it), and, when no
other task writes, `MonitorAlone` and `AttemptsCounted`, which tie the counter of the retry loop to
the attempts made.  Each is preserved action by action; the action properties follow from `IInv` and the
step.  For the refinement every action of the monitor is shown, under `IInv`, to be one action of the
promise or a stuttering step.

`NothingForgotten` speaks of one moment, so `RowsInv` follows a row from its writing to the watermark.  A row
before the cursor of its transcript is settled (it says nothing, or nothing newer than the watermark) or no newer
than what the startup scan has found and will apply (`RowsBehind`); that scan leaves the cursor at the end of every
transcript it has been through (`Listed`).  A running scan knows the same of every row it has read, and what was
written since has an event of its own (`ScanKnows`).  Rows of one transcript are ordered by time (`Ordered`), no
paths are kept outside debouncing and scanning (`NoPaths`), and before the watcher there is no event to lose
(`Before`).  The watermark only grows and a silent row stays silent, so a settled row stays settled.

For the other components, each under the assumptions of its modules:

| Module | Theorems | The inductive invariant and why it is needed |
|---|---|---|
| `LockoutProofs`, on `StreamSession` | `SessionInvariantHolds`, `OutputIsRecordedFirst`, `ReportedLimitIsAwaited` | `Core`: the part of the monitor's invariant that survives a runner which records, restarts and fails. `Ended`: past the drain there is neither child nor unread line. `ToldInv`: a limit recorded of this child is not newer than the watermark and has raised the revision above the one the runner started from; when the runner no longer finds it, it was answered or a newer one replaced it. |
| `TranscriptScanProofs` | `InvariantHolds`, `ScanFindsTheNewest`, `SliceOfATextIsRead` | The bytes carried to the next chunk end where every complete line behind them has been read and has no row. Lemmas about windows of a sequence say which lines two adjacent windows have together. |
| | `RowsInvariantHolds`, `EveryRowIsFound` | `CursorInv`: every row that ends behind `skipped` and no later than the cursor was found; a cursor beyond the end is behind `skipped`. `ScanInv`: a running scan whose file was not touched since has measured all of it and has the newest row of its slice. The slice reaches back over a row that the cursor has cut, because the overlap is at least a byte. |
| `LinePumpProofs` | `PumpInvariantHolds`, `ParserGetsTheLines` | `PumpType`: the chunk is the output between `Consumed` and `read`. `LineInv`: `pending` is the open line so far and fits, or, while the rest is discarded, at least `MaxLine` bytes of it are cut and a further one is there, so that it can be no line for the parser. Lemmas about `DueLines` say that it stays where there is no newline and takes the open line at the next one. |
| `PtySessionProofs` | `InvariantHolds`, `TypeCorrect`, `InputNeverMixes`, `NoOutputIsLost` | `OutputInv`: what is taken is shown, tried or in the reader's hands, and a reader ends only on a closed and empty terminal. `LockInv`: who writes holds the lock. `WritesInv`: what is left of a write are its next parts, those before are the end of what was sent. |
| `SessionViewerProofs` | `InvariantHolds`, `TypeCorrect`, `NeverAnothersFile`, `FilesAreRemoved`, `NeverSleepsOverASession` | `FilesInv`: live processes differ in pid and port, and a file was published by a process of that pid which has not removed it yet or was killed. `ViewerKnows`: a session that can be seen is in an event, still to be read, being probed, or among the sessions found. |
| `RunLoggerProofs` | `InvariantHolds`, `LastLinesAreSaved`, `LogStaysBounded` | `SizeInv`: the counter is no less than the log. `SavedInv`: the log holds the last lines the counter says, the backup those before; it fails, and is exempt, once a new log could not be created. |
| | `ViewersAreServed`, `ViewersAreCurrent`, `NoViewerIsTorn`, `NoLineIsLost` | `ViewersInv`: the startup lines are the last ones before the first viewer; a viewer has those and all since. That the others keep their places when the dead are removed from the last to the first is an induction over the number of the dead, with the fold of `RemoveDead`. |
| `LogQueueProofs` | `QueueInvariantHolds`, `EveryLineIsAccountedFor`, `ShutdownWaitsForPending`, `QueueIsBounded` | `HeldInv`: only who has swapped the count and has not sent it holds any. `SpaceInv`: places reserved and messages queued are no more than the capacity. `ShutdownInv`: there is one shutdown in the queue from its sending to the logger's end, and the lines due are written or in front of it. Lemmas about sums over finite sets say how a sum changes with one summand. |
| `InputsProofs` | `InputsInvariantHolds`, `ViewersSeeTheLog`, `RecordsMeanTheirWindows` | `StreamInv`: what was shown of the messages so far is what a viewer should have shown, or it is over. A message more is one more application of the function under the fold of `Render`, and each terminal call of a message either succeeds, fails and costs the footer, or ends the viewer. |
| | `ArgumentsMeanWhatTheySay` | No induction over steps: the loops over the arguments are recursive functions, shown to exist because every place leads to a later one (`DescentExists`), and shown to return from every place what the places reached from it say, by the same descent (`DescentInduction`, `ReachedStep`). `BoundaryOfCut`: a beginning that has the boundary has the same arguments before it. |
| | `ResetsLieAhead`, `ResetsAreTheNextNamed` | No induction over steps: lemmas about the calendar and the clock. `DateAtNumber`: the numbers of the days are `0 .. n - 1`, each of one day (an injection between finite sets of one size). `FromLocalTime`: the three cases of `from_local_datetime` are one formula, `Earliest`. `DialTime`: a dial of twelve hours shows a time at one moment of the day, noon and midnight included. `StillClock`: between changes the clock is ahead by a constant, so that two moments with the same time are whole days apart. |

Inductions.  The library's induction theorems take an operator as a parameter, which the provers cannot
instantiate.  These modules go by sets instead: `NaturalsClosed` says that a set of numbers that has zero, and
with every number the next, is all of them, from the well-foundedness of the naturals; with the set of the
numbers for which a statement holds that is an induction.  In the same way the function that defines a sum, a fold, a
loop over arguments or `DueLines` is shown to exist up to every number before anything is said of its values.

Assumptions on constants that the proofs need besides the kinds of the values: the overlap is at least a byte and
the bytes of a text are told apart (`TranscriptScan`), the main task is none of the finitely many
producers (`LogQueue`), buffers and channels have a place; the calendar has finitely many years and months, the grace
is less than a minute, the changes of the clock are instants of the calendar, and messages are logged within it but
for its last day (`ResetTime`, `Inputs`); an argument that is not UTF-8 is no option, and no command is the
missing one (`CommandLine`, `Inputs`).  The code's constants meet them.

Only model-checked: liveness (fairness and ENABLED are out of the prover's reach), that is `DueIsContinued`,
`RowsAreNoticed`, `ContinueIsTaken`, `ValidScanEnds`, `ShutdownEnds`, `ResumeReturns`, `RunnerReturns`,
`ProcessEnds` and `SessionIsFound`.  Every other property of the passing runs is a theorem.

## 7. What is not modelled, and why

- JSON, regular expressions and the wording of messages: a line is of a kind, a time has its parts.
- The 32 places of the watcher's channel (its sender blocks rather than drops) and the log cadence of the
  monitor; the wrap of the 64-bit revision.
- In the stream session the pump is not composed with the parser (`LinePump` stands for itself; a line
  arrives or is dropped), the pipe ends with the child, and the child's arguments are left out.
- Of the PTY the resize poller (which may miss a change before its first look), the telemetry heartbeat and the
  construction of the command: no state another part reads.
- Of the viewer the older port files that hold only a number, the order and the wording of the menu and the
  footer at the end of a stream; of the logger the file permissions.
- Path resolution and directory listing (discovery yields any subset of the transcripts), the terminal
  window for logs, the sleep guard and the formatting of times: pure I/O or no state.
- The test children under `bin/` are programs of the tests.

## 8. What could follow

1. `LinePump` composed with the session, with a grandchild that keeps the pipe open.
2. The debounce race of the stream session: a child that exits before its transcript is scanned.
3. `LockoutMonitor` over the bytes of `TranscriptScan`, as a refinement instead of two models that agree.
