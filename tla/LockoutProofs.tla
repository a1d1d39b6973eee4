----------------------------- MODULE LockoutProofs -----------------------------
(***************************************************************************)
(* Types and safety of the lockout monitor, that it implements             *)
(* LockoutPromise, and that it forgets no row: proved for every set of     *)
(* transcripts, every set of rows, either provider, every runner and every *)
(* value of the bounds.                                                    *)
(*                                                                         *)
(* And the safety of StreamSession, which composes the monitor with the    *)
(* runner: the monitor keeps its invariant beside the runner's faults, a   *)
(* child's output is recorded before the next child begins, and a limit    *)
(* that the child reported is waited for.                                  *)
(***************************************************************************)
EXTENDS StreamSession, LockoutInvariants, LockoutRefinement, TLAPS

USE DEF Time, Revision

-------------------------------------------------------------------------------
(* Lemmas about the operators on updates and on the AppState.              *)

\* A parser returns an update or nothing (parse_line of both providers).
LEMMA InterpretType ==
  ASSUME NEW row \in Row, NEW at \in Time
  PROVE  Interpret(row, at) \in Update \cup {None}
  BY NoneAssumption DEF Interpret, Row, Update

\* So does a scan, of any part of a transcript (newest_update_in_content).
LEMMA ScanResultType ==
  ASSUME NEW rows \in Seq(Row), NEW first \in Nat \ {0}, NEW at \in Time,
         NEW update \in ScanResult(rows, first, Len(rows), at)
  PROVE  update \in Update \cup {None}
<1>1. \A i \in first .. Len(rows) : rows[i] \in Row
  OBVIOUS
<1>2. update = None \/ \E i \in first .. Len(rows) : update = Interpret(rows[i], at)
  BY DEF ScanResult
<1> QED
  BY <1>1, <1>2, InterpretType

\* The critical sections keep the type of the AppState.
LEMMA ApplyType ==
  ASSUME NEW state \in AppStates, NEW update \in Update, NEW live \in BOOLEAN
  PROVE  ApplyLimitUpdate(state, update, live) \in AppStates
  BY NoneAssumption
     DEF ApplyLimitUpdate, Accept, AppStates, Update, Status, StatusKinds,
         MonitoringKinds, Show, ShowLimited, IsLocked

\* The critical sections of an expiry keep the type of the AppState.
LEMMA ExpiryType ==
  ASSUME NEW state \in AppStates, NEW goal \in Time \cup {None}, NEW rev \in Revision,
         NEW kind \in StatusKinds
  PROVE  /\ PublishIfCurrent(state, goal, rev, kind) \in AppStates
         /\ SettleSent(state, goal, rev) \in AppStates
         /\ SettleFailed(state, goal, rev) \in AppStates
  BY NoneAssumption
     DEF PublishIfCurrent, SettleSent, SettleFailed, AppStates, Status, StatusKinds,
         MonitoringKinds, Show

-------------------------------------------------------------------------------
(* Type correctness.                                                       *)

\* Unchanged variables keep their types.
LEMMA TypeStutters == TypeOK /\ UNCHANGED vars => TypeOK'
  BY DEF TypeOK, vars, shared, locals, runner, world, history

\* The initial values have their types.
LEMMA TypeInit == Init => TypeOK
<1> SUFFICES ASSUME Init PROVE TypeOK
  OBVIOUS
<1>1. app \in AppStates
  BY DEF Init, NewAppState, AppStates, Status, StatusKinds, MonitoringKinds, Show
<1>2. pc \in PCs /\ paths \in SUBSET Transcripts /\ now \in Time
  BY BoundsAssumption DEF Init, PCs
<1>3. /\ files \in [Transcripts -> Seq(Row)]
      /\ cursor \in [Transcripts -> Nat]
      /\ queue \in Seq(Event)
  <2>1. <<>> \in Seq(Row) /\ <<>> \in Seq(Event)
    OBVIOUS
  <2> QED
    BY <2>1 DEF Init
<1>4. hot \in BOOLEAN /\ spent \in BOOLEAN /\ watching \in BOOLEAN /\ delivered \in BOOLEAN
  BY DEF Init
<1> QED
  BY <1>1, <1>2, <1>3, <1>4 DEF Init, TypeOK

\* The history of an applied update.
LEMMA RecordType ==
  ASSUME attempts \in Nat, delivered \in BOOLEAN, NEW update, Record(update)
  PROVE  attempts' \in Nat /\ delivered' \in BOOLEAN
<1>1. attempts' = 0 \/ attempts' = attempts
  BY Zenon DEF Record
<1>2. delivered' = FALSE \/ delivered' = delivered
  BY Zenon DEF Record
<1>3. attempts' \in Nat
  BY <1>1
<1>4. delivered' \in BOOLEAN
  BY <1>2, Zenon
<1> QED
  BY <1>3, <1>4

\* The startup scan and the creation of the watcher.
LEMMA TypeStartup == TypeOK /\ (Startup \/ Watch) => TypeOK'
<1> SUFFICES ASSUME TypeOK, Startup \/ Watch PROVE TypeOK'
  OBVIOUS
<1> USE DEF TypeOK, PCs, shared, locals, runner, world, history
<1>1. ASSUME NEW p \in Transcripts, StartupScan(p) PROVE TypeOK'
  <2>1. \A k \in 1 .. Len(files[p]) :
          \A update \in ScanResult(files[p], k, Len(files[p]), StartTime) :
            update \in Update \cup {None}
    BY ScanResultType, BoundsAssumption
  <2>2. found' \in Update \cup {None}
    BY <1>1, <2>1 DEF StartupScan, SelectNewest
  <2> QED
    BY <1>1, <2>2 DEF StartupScan
<1>2. ASSUME NEW p \in Transcripts, StartupScanFails(p) PROVE TypeOK'
  BY <1>2 DEF StartupScanFails
<1>3. CASE StartupApply
  <2>1. app' \in AppStates
    <3>1. CASE found = None
      BY <1>3, <3>1 DEF StartupApply
    <3>2. CASE found # None
      <4> DEFINE update == IF IsLocked(found) /\ found.target <= now
                           THEN [found EXCEPT !.target = None] ELSE found
      <4>1. update \in Update
        BY <3>2 DEF Update
      <4>2. app' = ApplyLimitUpdate(app, update, FALSE)
        BY <1>3, <3>2 DEF StartupApply
      <4> HIDE DEF update
      <4> QED
        BY <4>1, <4>2, ApplyType
    <3> QED
      BY <3>1, <3>2
  <2>2. attempts' \in Nat /\ delivered' \in BOOLEAN
    <3>1. CASE found = None
      BY <1>3, <3>1 DEF StartupApply
    <3>2. CASE found # None
      BY <1>3, <3>2, RecordType DEF StartupApply
    <3> QED
      BY <3>1, <3>2
  <2> QED
    BY <1>3, <2>1, <2>2 DEF StartupApply
<1>4. CASE Watch
  <2>1. CASE RootUnavailable
    BY <2>1 DEF RootUnavailable
  <2>2. CASE CreateWatcher
    <3>1. <<>> \in Seq(Event)
      OBVIOUS
    <3> QED
      BY <2>2, <3>1 DEF CreateWatcher
  <2>3. CASE CreateWatcherFails
    BY <2>3 DEF CreateWatcherFails
  <2> QED
    BY <1>4, <2>1, <2>2, <2>3 DEF Watch
<1> QED
  BY <1>1, <1>2, <1>3, <1>4 DEF Startup

\* The event loop.
LEMMA TypeLoop == TypeOK /\ Loop => TypeOK'
<1> SUFFICES ASSUME TypeOK, Loop PROVE TypeOK'
  OBVIOUS
<1> USE DEF TypeOK, PCs, shared, locals, runner, world, history
<1>1. CASE ReadLockout
  BY <1>1 DEF ReadLockout, AppStates
<1>2. CASE Decide
  BY <1>2 DEF Decide
<1>3. CASE Wake
  BY <1>3 DEF Wake
<1>4. CASE Receive
  <2>1. Head(queue) \in Event /\ Tail(queue) \in Seq(Event)
    BY <1>4 DEF Receive
  <2> QED
    BY <1>4, <2>1 DEF Receive, Event
<1>5. CASE Disconnected
  BY <1>5 DEF Disconnected
<1> QED
  BY <1>1, <1>2, <1>3, <1>4, <1>5 DEF Loop

\* A scan of a transcript is a record of its path, its size and an update.
LEMMA BeginScanType ==
  ASSUME TypeOK, NEW p \in Transcripts, BeginScan(p)
  PROVE  scan' \in ScanRecord
<1> USE DEF TypeOK
<1> DEFINE Found(o) == IF Len(files[p]) > cursor[p]
                      THEN ScanResult(files[p], cursor[p] - o + 1, Len(files[p]), now)
                      ELSE {None}
<1>1. PICK overlap \in 0 .. cursor[p] :
        \E update \in Found(overlap) :
          scan' = [path |-> p, size |-> Len(files[p]), update |-> update]
  BY DEF BeginScan
<1>2. PICK update \in Found(overlap) :
        scan' = [path |-> p, size |-> Len(files[p]), update |-> update]
  BY <1>1
<1>3. files[p] \in Seq(Row) /\ cursor[p] - overlap + 1 \in Nat \ {0}
  OBVIOUS
<1>4. update \in Update \cup {None}
  BY <1>3, ScanResultType
<1> QED
  BY <1>2, <1>3, <1>4 DEF ScanRecord

\* The scan of the changed transcripts.
LEMMA TypeScan == TypeOK /\ LocalsAreSet /\ Scan => TypeOK'
<1> SUFFICES ASSUME TypeOK, LocalsAreSet, Scan PROVE TypeOK'
  OBVIOUS
<1> USE DEF TypeOK, PCs, shared, locals, runner, world, history
<1>1. CASE Collect
  <2>1. Head(queue) \in Event /\ Tail(queue) \in Seq(Event)
    BY <1>1 DEF Collect
  <2> QED
    BY <1>1, <2>1 DEF Collect, Event, AfterDebounce
<1>2. CASE DebounceOver
  BY <1>2 DEF DebounceOver, AfterDebounce
<1>3. CASE OutputQuiet
  BY <1>3 DEF OutputQuiet
<1>4. ASSUME NEW p \in Transcripts, BeginScan(p) PROVE TypeOK'
  <2>1. scan' \in ScanRecord
    BY <1>4, BeginScanType
  <2> QED
    BY <1>4, <2>1 DEF BeginScan
<1>5. CASE EndScan
  <2>1. scan \in ScanRecord
    BY <1>5 DEF EndScan, LocalsAreSet
  <2>2. app' \in AppStates
    <3>1. CASE scan.update = None
      BY <1>5, <3>1 DEF EndScan
    <3>2. CASE scan.update # None
      <4>1. scan.update \in Update
        BY <2>1, <3>2 DEF ScanRecord
      <4>2. app' = ApplyLimitUpdate(app, scan.update, TRUE)
        BY <1>5, <3>2 DEF EndScan
      <4> QED
        BY <4>1, <4>2, ApplyType
    <3> QED
      BY <3>1, <3>2
  <2>3. attempts' \in Nat /\ delivered' \in BOOLEAN
    <3>1. CASE scan.update = None
      BY <1>5, <3>1 DEF EndScan
    <3>2. CASE scan.update # None
      BY <1>5, <3>2, RecordType DEF EndScan
    <3> QED
      BY <3>1, <3>2
  <2> QED
    BY <1>5, <2>1, <2>2, <2>3 DEF EndScan, AfterScan, ScanRecord
<1>6. CASE ScanChanged
  BY <1>6 DEF ScanChanged, AfterScan
<1>7. CASE ScanFails
  <2>1. scan \in ScanRecord
    BY <1>7 DEF ScanFails, LocalsAreSet
  <2> QED
    BY <1>7, <2>1 DEF ScanFails, AfterScan, ScanRecord
<1> QED
  BY <1>1, <1>2, <1>3, <1>4, <1>5, <1>6, <1>7 DEF Scan

\* The expiry of a lockout.
LEMMA TypeExpiry == TypeOK /\ LocalsAreSet /\ Expiry => TypeOK'
<1> SUFFICES ASSUME TypeOK, LocalsAreSet, Expiry PROVE TypeOK'
  OBVIOUS
<1> USE DEF TypeOK, PCs, shared, locals, runner, world, history
<1>1. CASE BeginExpiry
  BY <1>1 DEF BeginExpiry, AppStates
<1>2. CASE Announce
  <2>1. app' \in AppStates
    BY <1>2, ExpiryType DEF Announce, StatusKinds
  <2> QED
    BY <1>2, <2>1 DEF Announce
<1>3. ASSUME NEW r \in Outcomes, Resume(r) PROVE TypeOK'
  <2>1. delivered' \in BOOLEAN
    BY <1>3, Zenon DEF Resume
  <2> QED
    BY <1>3, <2>1 DEF Resume
<1>4. CASE AnnounceRetry
  <2>1. app' \in AppStates
    BY <1>4, ExpiryType DEF AnnounceRetry, StatusKinds
  <2> QED
    BY <1>4, <2>1 DEF AnnounceRetry
<1>5. CASE Settle
  <2>1. app' \in AppStates
    <3>1. "Resuming" \in StatusKinds
      BY DEF StatusKinds
    <3>2. SettleSent(app, target, revision) \in AppStates /\ SettleFailed(app, target, revision) \in AppStates
      BY <3>1, ExpiryType
    <3> QED
      BY <1>5, <3>2 DEF Settle
  <2>2. cursor' \in [Transcripts -> Nat]
    BY <1>5 DEF Settle
  <2> QED
    BY <1>5, <2>1, <2>2 DEF Settle
<1> QED
  BY <1>1, <1>2, <1>3, <1>4, <1>5 DEF Expiry

\* The runner's parser.
LEMMA TypeReporter == TypeOK /\ Reporter => TypeOK'
<1> SUFFICES ASSUME TypeOK, Reporter PROVE TypeOK'
  OBVIOUS
<1> USE DEF TypeOK, PCs, shared, locals, runner, world, history
<1>1. ASSUME NEW row \in Rows, ReportParse(row) PROVE TypeOK'
  <2>1. report' \in Update \cup {None}
    BY <1>1, RowsAssumption, InterpretType DEF ReportParse
  <2> QED
    BY <1>1, <2>1 DEF ReportParse
<1>2. CASE ReportApply
  <2>1. app' \in AppStates
    BY <1>2, ApplyType DEF ReportApply
  <2>2. attempts' \in Nat /\ delivered' \in BOOLEAN
    BY <1>2, RecordType DEF ReportApply
  <2>3. report' = None /\ UNCHANGED <<cursor, hot, pc, locals, reports, world, overlooked>>
    BY <1>2 DEF ReportApply
  <2> QED
    BY <2>1, <2>2, <2>3
<1> QED
  BY <1>1, <1>2 DEF Reporter

\* The clock, the wrapped program and the watcher.
LEMMA TypeEnvironment == TypeOK /\ Environment => TypeOK'
<1> SUFFICES ASSUME TypeOK, Environment PROVE TypeOK'
  OBVIOUS
<1> USE DEF TypeOK, PCs, shared, locals, runner, world, history
<1>1. CASE Tick
  BY <1>1 DEF Tick
<1>2. CASE ChildOutput
  BY <1>2 DEF ChildOutput
<1>3. CASE GoQuiet
  <2>1. hot' \in BOOLEAN
    BY <1>3, Zenon DEF GoQuiet
  <2> QED
    BY <1>3, <2>1 DEF GoQuiet
<1>4. CASE WatcherDies
  <2>1. watching' \in BOOLEAN
    BY <1>4, Zenon DEF WatcherDies
  <2> QED
    BY <1>4, <2>1 DEF WatcherDies
<1>5. ASSUME NEW p \in Transcripts, NEW row \in Rows, WriteRow(p, row) PROVE TypeOK'
  <2>1. files' \in [Transcripts -> Seq(Row)]
    <3>1. Append(files[p], row) \in Seq(Row)
      BY RowsAssumption
    <3> QED
      BY <1>5, <3>1 DEF WriteRow
  <2>2. queue' \in Seq(Event)
    <3>1. [kind |-> "changed", path |-> p] \in Event
      BY PathAssumption DEF Event
    <3>2. queue' = Append(queue, [kind |-> "changed", path |-> p]) \/ queue' = queue
      BY <1>5, Zenon DEF WriteRow
    <3>3. Append(queue, [kind |-> "changed", path |-> p]) \in Seq(Event)
      BY <3>1
    <3> QED
      BY <3>2, <3>3
  <2>3. overlooked' \in SUBSET Transcripts
    BY <1>5 DEF WriteRow
  <2> QED
    BY <1>5, <2>1, <2>2, <2>3 DEF WriteRow
<1>6. ASSUME NEW kind \in {"other", "error"}, WatcherNoise(kind) PROVE TypeOK'
  <2>1. [kind |-> kind, path |-> None] \in Event
    BY DEF Event
  <2> QED
    BY <1>6, <2>1 DEF WatcherNoise
<1> QED
  BY <1>1, <1>2, <1>3, <1>4, <1>5, <1>6 DEF Environment

\* The locals stay set while they are needed.
LEMMA LocalsStaySet == TypeOK /\ LocalsAreSet /\ [Next]_vars => LocalsAreSet'
<1> SUFFICES ASSUME TypeOK, LocalsAreSet, [Next]_vars PROVE LocalsAreSet'
  OBVIOUS
<1> USE DEF LocalsAreSet, ExpiryPCs, AttemptPCs, shared, locals, runner, world, history
<1>1. CASE UNCHANGED vars
  BY <1>1 DEF vars
<1>2. CASE Startup \/ Watch
  BY <1>2 DEF Startup, Watch, StartupScan, StartupScanFails, StartupApply,
     RootUnavailable, CreateWatcher, CreateWatcherFails
<1>3. CASE Loop
  BY <1>3 DEF Loop, ReadLockout, Decide, Wake, Receive, Disconnected
<1>4. CASE Scan
  <2>1. CASE Collect
    BY <2>1 DEF Collect, AfterDebounce
  <2>2. CASE DebounceOver
    BY <2>2 DEF DebounceOver, AfterDebounce
  <2>3. CASE OutputQuiet
    BY <2>3 DEF OutputQuiet
  <2>4. ASSUME NEW p \in Transcripts, BeginScan(p) PROVE LocalsAreSet'
    <3>1. scan' \in ScanRecord
      BY <2>4, BeginScanType
    <3> QED
      BY <2>4, <3>1 DEF BeginScan
  <2>5. CASE EndScan \/ ScanChanged \/ ScanFails
    BY <2>5 DEF EndScan, ScanChanged, ScanFails, AfterScan
  <2> QED
    BY <1>4, <2>1, <2>2, <2>3, <2>4, <2>5 DEF Scan
<1>5. CASE Expiry
  BY <1>5 DEF Expiry, BeginExpiry, Announce, Resume, AnnounceRetry, Settle
<1>6. CASE Reporter
  BY <1>6 DEF Reporter, ReportParse, ReportApply
<1>7. CASE Environment
  BY <1>7 DEF Environment, Tick, ChildOutput, GoQuiet, WatcherDies, WriteRow, WatcherNoise
<1> QED
  BY <1>1, <1>2, <1>3, <1>4, <1>5, <1>6, <1>7 DEF Next, Monitor

\* Types and locals are preserved by every step.
LEMMA TypeStep == TypeOK /\ LocalsAreSet /\ [Next]_vars => (TypeOK /\ LocalsAreSet)'
  BY TypeStutters, TypeStartup, TypeLoop, TypeScan, TypeExpiry, TypeReporter,
     TypeEnvironment, LocalsStaySet DEF Next, Monitor

\* No local is needed at the beginning.
LEMMA LocalsInit == Init => LocalsAreSet
  BY DEF Init, LocalsAreSet, ExpiryPCs, AttemptPCs

\* Every variable keeps its type, whatever the two tasks and the environment do
\* (spawn_lockout_monitor and the parser of the stream-json runner).
THEOREM TypeCorrect == Spec => []TypeOK
<1>1. Init => TypeOK /\ LocalsAreSet
  BY TypeInit, LocalsInit
<1> QED
  BY <1>1, TypeStep, PTL DEF Spec

-------------------------------------------------------------------------------
(* What a step does to the AppState.                                       *)

\* The critical sections of a limit event, of a status and of the settlement
\* are the only ones that write the AppState.
Applies(update, live) == app' = ApplyLimitUpdate(app, update, live) /\ Record(update)

AppliesStep ==
  \E update \in Update :
    \/ StartupApply /\ Applies(update, FALSE)
    \/ (EndScan \/ ReportApply) /\ Applies(update, TRUE)

PublishStep ==
  \/ Announce /\ app' = PublishIfCurrent(app, target, revision, "Resuming")
  \/ AnnounceRetry /\ app' = PublishIfCurrent(app, target, revision, "Retrying")

\* Every step leaves the AppState alone or runs one of its critical sections.
LEMMA AppSteps ==
  ASSUME TypeOK, LocalsAreSet, [Next]_vars
  PROVE  \/ app' = app /\ UNCHANGED <<attempts, delivered>>
         \/ app' = app /\ \E r \in Outcomes : Resume(r)
         \/ AppliesStep \/ PublishStep \/ Settle
<1> USE DEF TypeOK, shared, locals, runner, world, history
<1>1. CASE UNCHANGED vars
  BY <1>1 DEF vars
<1>2. CASE Startup
  <2>1. ASSUME NEW p \in Transcripts, StartupScan(p) \/ StartupScanFails(p) PROVE app' = app /\ UNCHANGED <<attempts, delivered>>
    BY <2>1 DEF StartupScan, StartupScanFails
  <2>2. CASE StartupApply /\ found = None
    BY <2>2 DEF StartupApply
  <2>3. CASE StartupApply /\ found # None
    <3> DEFINE update == IF IsLocked(found) /\ found.target <= now
                         THEN [found EXCEPT !.target = None] ELSE found
    <3>1. update \in Update
      BY <2>3 DEF Update
    <3>2. Applies(update, FALSE)
      BY <2>3 DEF StartupApply, Applies
    <3> HIDE DEF update
    <3> QED
      BY <2>3, <3>1, <3>2 DEF AppliesStep
  <2> QED
    BY <1>2, <2>1, <2>2, <2>3 DEF Startup
<1>3. CASE Watch
  BY <1>3 DEF Watch, RootUnavailable, CreateWatcher, CreateWatcherFails
<1>4. CASE Loop
  BY <1>4 DEF Loop, ReadLockout, Decide, Wake, Receive, Disconnected
<1>5. CASE Scan
  <2>1. CASE EndScan /\ scan.update = None
    BY <2>1 DEF EndScan
  <2>2. CASE EndScan /\ scan.update # None
    <3>1. scan.update \in Update
      BY <2>2 DEF EndScan, LocalsAreSet, ScanRecord
    <3>2. Applies(scan.update, TRUE)
      BY <2>2 DEF EndScan, Applies
    <3> QED
      BY <2>2, <3>1, <3>2 DEF AppliesStep
  <2>3. ASSUME NEW p \in Transcripts, BeginScan(p) PROVE app' = app /\ UNCHANGED <<attempts, delivered>>
    BY <2>3 DEF BeginScan
  <2>4. CASE Collect \/ DebounceOver \/ OutputQuiet \/ ScanChanged \/ ScanFails
    BY <2>4 DEF Collect, DebounceOver, OutputQuiet, ScanChanged, ScanFails
  <2> QED
    BY <1>5, <2>1, <2>2, <2>3, <2>4 DEF Scan
<1>6. CASE Expiry
  <2>1. ASSUME NEW r \in Outcomes, Resume(r) PROVE app' = app
    BY <2>1 DEF Resume
  <2>2. CASE BeginExpiry
    BY <2>2 DEF BeginExpiry
  <2>3. CASE Announce \/ AnnounceRetry
    BY <2>3 DEF Announce, AnnounceRetry, PublishStep
  <2> QED
    BY <1>6, <2>1, <2>2, <2>3 DEF Expiry
<1>7. CASE Reporter
  <2>1. ASSUME NEW row \in Rows, ReportParse(row) PROVE app' = app /\ UNCHANGED <<attempts, delivered>>
    BY <2>1 DEF ReportParse
  <2>2. CASE ReportApply
    <3>1. report \in Update
      BY <2>2 DEF ReportApply
    <3>2. Applies(report, TRUE)
      BY <2>2 DEF ReportApply, Applies
    <3> QED
      BY <2>2, <3>1, <3>2 DEF AppliesStep
  <2> QED
    BY <1>7, <2>1, <2>2 DEF Reporter
<1>8. CASE Environment
  BY <1>8 DEF Environment, Tick, ChildOutput, GoQuiet, WatcherDies, WriteRow, WatcherNoise
<1> QED
  BY <1>1, <1>2, <1>3, <1>4, <1>5, <1>6, <1>7, <1>8 DEF Next, Monitor

-------------------------------------------------------------------------------
(* The status and the exhaustion of the retries.                           *)

\* The part of the inductive invariant that holds under every runner.
Core ==
  /\ TypeOK /\ LocalsAreSet
  /\ StatusMatchesLockout /\ ExhaustionIsCurrent
  /\ NotExhaustedMeanwhile /\ RevisionTells

\* A limit event is ignored, or it replaces the lockout, its status and its
\* exhaustion together.
LEMMA ApplyEffect ==
  ASSUME TypeOK, NEW update \in Update, NEW live \in BOOLEAN, Applies(update, live)
  PROVE  \/ app' = app
         \/ /\ Later(app'.watermark, app.watermark)
            /\ app'.exhausted = None
            /\ app'.revision = IF live THEN app.revision + 1 ELSE app.revision
            /\ app'.target = None => app'.status.kind \in {"ClearedCancelled", "NoActiveLimit"}
            /\ app'.target # None => /\ app'.status.kind = "RateLimited"
                                    /\ app'.status.target = app'.target
            /\ app'.watermark = update.time
<1>1. CASE ~IsNews(app, update)
  BY <1>1 DEF Applies, ApplyLimitUpdate
<1>2. CASE IsNews(app, update)
  <2>1. app' = Accept(app, update, live)
    BY <1>2 DEF Applies, ApplyLimitUpdate
  <2>2. Later(update.time, app.watermark)
    BY <1>2, NoneAssumption DEF IsNews, Later, Update
  <2>3. /\ app'.target = None => app'.status.kind \in {"ClearedCancelled", "NoActiveLimit"}
        /\ app'.target # None => /\ app'.status.kind = "RateLimited"
                                /\ app'.status.target = app'.target
    BY <2>1 DEF Accept, IsLocked, Show, ShowLimited
  <2> QED
    BY <2>1, <2>2, <2>3 DEF Accept
<1> QED
  BY <1>1, <1>2

\* A status published during an expiry changes nothing else.
LEMMA PublishEffect ==
  ASSUME TypeOK, LocalsAreSet, PublishStep
  PROVE  /\ pc \in AttemptPCs
         /\ \/ app' = app
            \/ /\ app.target = target /\ target # None
               /\ app'.target = app.target /\ app'.watermark = app.watermark
               /\ app'.revision = app.revision /\ app'.exhausted = app.exhausted
               /\ app'.status.kind \in {"Resuming", "Retrying"}
<1>1. pc \in AttemptPCs /\ target # None
  BY DEF PublishStep, Announce, AnnounceRetry, LocalsAreSet, ExpiryPCs, AttemptPCs
<1>2. CASE IsCurrent(app, target, revision)
  <2>1. PICK kind \in {"Resuming", "Retrying"} : app' = [app EXCEPT !.status = Show(kind)]
    BY <1>2 DEF PublishStep, PublishIfCurrent
  <2>2. app'.status.kind = kind
    BY <2>1 DEF TypeOK, AppStates, Show
  <2> QED
    BY <1>1, <1>2, <2>1, <2>2 DEF IsCurrent, TypeOK, AppStates
<1> QED
  BY <1>1, <1>2 DEF PublishStep, PublishIfCurrent

\* The settlement of an expiry drops the lockout or marks it exhausted, if it
\* is still the one in force.
LEMMA SettleEffect ==
  ASSUME TypeOK, LocalsAreSet, Settle
  PROVE  \/ app' = app
         \/ /\ app.target = target /\ target # None /\ app.revision = revision
            /\ app'.watermark = app.watermark /\ app'.revision = app.revision
            /\ \/ /\ outcome = "Sent" /\ app'.target = None
                  /\ app'.exhausted = app.exhausted /\ app'.status.kind = "ContinueSent"
               \/ /\ outcome # "Sent" /\ app'.target = app.target
                  /\ app'.exhausted = app.revision /\ app'.status.kind = "ContinueFailed"
<1>1. target # None
  BY DEF Settle, LocalsAreSet, ExpiryPCs, AttemptPCs
<1>2. CASE ~IsCurrent(app, target, revision)
  BY <1>2 DEF Settle, SettleSent, SettleFailed
<1>3. CASE IsCurrent(app, target, revision) /\ outcome = "Sent"
  <2>1. app' = [app EXCEPT !.target = None, !.status = Show("ContinueSent")]
    BY <1>3 DEF Settle, SettleSent
  <2>2. app'.status.kind = "ContinueSent"
    BY <2>1 DEF TypeOK, AppStates, Show
  <2> QED
    BY <1>1, <1>3, <2>1, <2>2 DEF IsCurrent, TypeOK, AppStates
<1>4. CASE IsCurrent(app, target, revision) /\ outcome # "Sent"
  <2>1. app' = [app EXCEPT !.exhausted = revision, !.status = Show("ContinueFailed")]
    BY <1>4 DEF Settle, SettleFailed
  <2>2. app'.status.kind = "ContinueFailed"
    BY <2>1 DEF TypeOK, AppStates, Show
  <2> QED
    BY <1>1, <1>4, <2>1, <2>2 DEF IsCurrent, TypeOK, AppStates
<1> QED
  BY <1>2, <1>3, <1>4

\* Every step keeps the status in agreement with the lockout.
LEMMA StatusStays == Core /\ [Next]_vars => StatusMatchesLockout'
<1> SUFFICES ASSUME Core, [Next]_vars PROVE StatusMatchesLockout'
  OBVIOUS
<1> USE DEF Core
<1>1. CASE app' = app
  BY <1>1 DEF StatusMatchesLockout
<1>2. CASE AppliesStep
  <2>1. PICK update \in Update : Applies(update, TRUE) \/ Applies(update, FALSE)
    BY <1>2 DEF AppliesStep
  <2>2. CASE app'.target = None
    BY <1>1, <2>1, <2>2, ApplyEffect DEF StatusMatchesLockout, MonitoringKinds
  <2>3. CASE app'.target # None
    BY <1>1, <2>1, <2>3, ApplyEffect DEF StatusMatchesLockout, MonitoringKinds
  <2> QED
    BY <2>2, <2>3
<1>3. CASE PublishStep
  BY <1>1, <1>3, PublishEffect DEF StatusMatchesLockout, MonitoringKinds
<1>4. CASE Settle
  BY <1>1, <1>4, SettleEffect DEF StatusMatchesLockout, MonitoringKinds
<1> QED
  BY <1>1, <1>2, <1>3, <1>4, AppSteps

\* Every step keeps the exhaustion that of the lockout in force.
LEMMA ExhaustionStays == Core /\ [Next]_vars => ExhaustionIsCurrent'
<1> SUFFICES ASSUME Core, [Next]_vars PROVE ExhaustionIsCurrent'
  OBVIOUS
<1> USE DEF Core
<1>1. CASE app' = app
  BY <1>1 DEF ExhaustionIsCurrent
<1>2. CASE AppliesStep
  <2>1. PICK update \in Update : Applies(update, TRUE) \/ Applies(update, FALSE)
    BY <1>2 DEF AppliesStep
  <2>2. app' # app => app'.exhausted = None /\ app'.status.kind # "ContinueFailed"
    BY <2>1, ApplyEffect
  <2> QED
    BY <1>1, <2>2 DEF ExhaustionIsCurrent
<1>3. CASE PublishStep
  <2>1. app.exhausted = None
    BY <1>3, PublishEffect DEF NotExhaustedMeanwhile, ExpiryPCs, AttemptPCs
  <2> QED
    BY <1>1, <1>3, <2>1, PublishEffect DEF ExhaustionIsCurrent
<1>4. CASE Settle
  <2>1. app.exhausted = None
    BY <1>4 DEF Settle, NotExhaustedMeanwhile, ExpiryPCs, AttemptPCs
  <2>2. app.revision # None
    BY NoneAssumption DEF TypeOK, AppStates
  <2> QED
    BY <1>1, <1>4, <2>1, <2>2, SettleEffect DEF ExhaustionIsCurrent
<1> QED
  BY <1>1, <1>2, <1>3, <1>4, AppSteps

\* What a step does to the control of an expiry: it is one of the expiry, it
\* reads or judges the lockout, or it leaves the expiry alone.
ControlStep == Expiry \/ ReadLockout \/ Decide

\* How the monitor gets to a decision, to an expiry and through it.
LEMMA ControlSteps ==
  ASSUME [Next]_vars
  PROVE  \/ ControlStep
         \/ pc' = pc /\ UNCHANGED <<target, spent, revision, attempt, outcome>>
         \/ {pc, pc'} \cap ({"decide"} \cup ExpiryPCs) = {}
<1> USE DEF ExpiryPCs, AttemptPCs, shared, locals, runner, world, history
<1>1. CASE UNCHANGED vars
  BY <1>1 DEF vars
<1>2. CASE Startup \/ Watch
  BY <1>2 DEF Startup, Watch, StartupScan, StartupScanFails, StartupApply,
     RootUnavailable, CreateWatcher, CreateWatcherFails
<1>3. CASE Wake \/ Receive \/ Disconnected
  BY <1>3 DEF Wake, Receive, Disconnected
<1>4. CASE Scan
  <2>1. CASE Collect \/ DebounceOver \/ OutputQuiet
    BY <2>1 DEF Collect, DebounceOver, OutputQuiet, AfterDebounce
  <2>2. ASSUME NEW p \in Transcripts, BeginScan(p) PROVE pc = "scan" /\ pc' = "scanning"
    BY <2>2 DEF BeginScan
  <2>3. CASE EndScan \/ ScanChanged \/ ScanFails
    BY <2>3 DEF EndScan, ScanChanged, ScanFails, AfterScan
  <2> QED
    BY <1>4, <2>1, <2>2, <2>3 DEF Scan
<1>5. CASE Reporter
  BY <1>5 DEF Reporter, ReportParse, ReportApply
<1>6. CASE Environment
  BY <1>6 DEF Environment, Tick, ChildOutput, GoQuiet, WatcherDies, WriteRow, WatcherNoise
<1> QED
  BY <1>1, <1>2, <1>3, <1>4, <1>5, <1>6 DEF Next, Monitor, Loop, ControlStep

\* Where a lockout read, a due one and the loop of the attempts come from.
LEMMA ExpirySteps ==
  ASSUME [Next]_vars
  PROVE  /\ pc' = "decide" => \/ pc = "decide" /\ spent' = spent /\ target' = target
                              \/ ReadLockout
         /\ pc' = "due" => \/ pc = "due" /\ target' = target
                           \/ Decide
         /\ pc' \in AttemptPCs =>
              \/ /\ pc = pc' /\ target' = target /\ revision' = revision
                 /\ attempt' = attempt /\ outcome' = outcome
              \/ BeginExpiry \/ Announce \/ AnnounceRetry
              \/ \E r \in Outcomes : Resume(r)
         /\ pc \in AttemptPCs /\ pc' \notin AttemptPCs => Settle
<1> USE DEF ExpiryPCs, AttemptPCs
<1>1. CASE Expiry
  <2>1. ASSUME NEW r \in Outcomes, Resume(r) PROVE pc' \in {"failed", "settle"}
    BY <2>1 DEF Resume
  <2>2. CASE BeginExpiry \/ Announce \/ AnnounceRetry \/ Settle
    BY <2>2 DEF BeginExpiry, Announce, AnnounceRetry, Settle
  <2> QED
    BY <1>1, <2>1, <2>2 DEF Expiry
<1>2. CASE ReadLockout \/ Decide
  BY <1>2 DEF ReadLockout, Decide
<1> QED
  BY <1>1, <1>2, ControlSteps DEF ControlStep

\* The loop keeps the lockout and the revision it started from.
LEMMA LoopKeeps ==
  ASSUME [Next]_vars, pc' \in AttemptPCs, ~BeginExpiry
  PROVE  pc \in AttemptPCs /\ target' = target /\ revision' = revision
<1>1. ASSUME NEW r \in Outcomes, Resume(r) PROVE pc \in AttemptPCs /\ target' = target /\ revision' = revision
  BY <1>1 DEF Resume, AttemptPCs
<1>2. CASE Announce \/ AnnounceRetry
  BY <1>2 DEF Announce, AnnounceRetry, AttemptPCs, locals
<1> QED
  BY <1>1, <1>2, ExpirySteps

\* No lockout is marked exhausted before its expiry is settled.
LEMMA ExhaustionStaysAway == Core /\ [Next]_vars => NotExhaustedMeanwhile'
<1> SUFFICES ASSUME Core, [Next]_vars PROVE NotExhaustedMeanwhile'
  OBVIOUS
<1> USE DEF Core
<1>1. CASE Settle
  BY <1>1 DEF Settle, NotExhaustedMeanwhile, ExpiryPCs, AttemptPCs
<1>2. ASSUME ~Settle PROVE app'.exhausted = app.exhausted \/ app'.exhausted = None
  <2>1. CASE app' = app
    BY <2>1
  <2>2. CASE AppliesStep
    BY <2>2, ApplyEffect DEF AppliesStep
  <2>3. CASE PublishStep
    BY <2>3, PublishEffect
  <2> QED
    BY <1>2, <2>1, <2>2, <2>3, AppSteps
<1>3. CASE ~Settle /\ pc' = "decide" /\ ~spent'
  <2>1. CASE pc = "decide" /\ spent' = spent
    BY <1>2, <1>3, <2>1 DEF NotExhaustedMeanwhile
  <2>2. CASE ReadLockout
    <3>1. app.exhausted # app.revision
      BY <1>3, <2>2, Zenon DEF ReadLockout
    <3>2. app.exhausted = None
      BY <3>1 DEF ExhaustionIsCurrent
    <3> QED
      BY <1>2, <1>3, <3>2 DEF NotExhaustedMeanwhile
  <2> QED
    BY <1>3, <2>1, <2>2, ExpirySteps
<1>4. CASE ~Settle /\ pc' \in ExpiryPCs
  <2>1. CASE pc \in ExpiryPCs
    BY <1>2, <1>4, <2>1 DEF NotExhaustedMeanwhile, ExpiryPCs, AttemptPCs
  <2>2. CASE Decide /\ pc' = "due"
    <3>1. pc = "decide" /\ ~spent
      BY <2>2, Zenon DEF Decide
    <3> QED
      BY <1>2, <1>4, <2>2, <3>1 DEF NotExhaustedMeanwhile, ExpiryPCs, AttemptPCs
  <2>3. CASE BeginExpiry
    BY <1>2, <1>4, <2>3 DEF BeginExpiry, NotExhaustedMeanwhile, ExpiryPCs, AttemptPCs
  <2> QED
    BY <1>4, <2>1, <2>2, <2>3, ExpirySteps, LoopKeeps DEF ExpiryPCs
<1>5. CASE ~Settle /\ ~(pc' = "decide" /\ ~spent') /\ pc' \notin ExpiryPCs
  BY <1>5 DEF NotExhaustedMeanwhile
<1> QED
  BY <1>1, <1>3, <1>4, <1>5

-------------------------------------------------------------------------------
(* The revision and the history.                                           *)

\* An event that is accepted resets the counters of the history.
LEMMA ApplyHistory ==
  ASSUME NEW update \in Update, NEW live \in BOOLEAN, Applies(update, live)
  PROVE  \/ app' = app /\ attempts' = attempts /\ delivered' = delivered
         \/ attempts' = 0 /\ delivered' = FALSE /\ Later(app'.watermark, app.watermark)
<1>1. CASE ~IsNews(app, update)
  BY <1>1, Zenon DEF Applies, ApplyLimitUpdate, Record
<1>2. CASE IsNews(app, update)
  <2>1. attempts' = 0 /\ delivered' = FALSE
    BY <1>2, Zenon DEF Applies, Record
  <2>2. app'.watermark = update.time
    BY <1>2 DEF Applies, ApplyLimitUpdate, Accept
  <2>3. Later(app'.watermark, app.watermark)
    BY <1>2, <2>2, NoneAssumption DEF IsNews, Later, Update
  <2> QED
    BY <2>1, <2>3
<1> QED
  BY <1>1, <1>2

\* Only resume() moves them.
LEMMA HistorySteps ==
  ASSUME TypeOK, LocalsAreSet, [Next]_vars
  PROVE  \/ attempts' = attempts /\ delivered' = delivered
         \/ AppliesStep /\ attempts' = 0 /\ delivered' = FALSE /\ Later(app'.watermark, app.watermark)
         \/ \E r \in Outcomes : Resume(r)
<1>1. CASE AppliesStep
  <2>1. PICK update \in Update : Applies(update, TRUE) \/ Applies(update, FALSE)
    BY <1>1 DEF AppliesStep
  <2> QED
    BY <1>1, <2>1, ApplyHistory
<1>2. CASE PublishStep \/ Settle
  BY <1>2 DEF PublishStep, Announce, AnnounceRetry, Settle, history
<1> QED
  BY <1>1, <1>2, AppSteps, Zenon

\* The revision never decreases, and the loop that sends the continue keeps the
\* one it started from.
LEMMA RevisionGrows ==
  ASSUME TypeOK, LocalsAreSet, [Next]_vars
  PROVE  app.revision \in Nat /\ app'.revision \in Nat /\ app.revision <= app'.revision
<1>1. app.revision \in Nat
  BY DEF TypeOK, AppStates
<1>2. CASE AppliesStep
  <2>1. PICK update \in Update : Applies(update, TRUE) \/ Applies(update, FALSE)
    BY <1>2 DEF AppliesStep
  <2>2. app'.revision = app.revision \/ app'.revision = app.revision + 1
    BY <2>1, ApplyEffect
  <2> QED
    BY <1>1, <2>2
<1> QED
  BY <1>1, <1>2, AppSteps, PublishEffect, SettleEffect

\* An expiry is settled right after an attempt.
LEMMA SettleSteps ==
  ASSUME [Next]_vars, pc' = "settle"
  PROVE  \/ pc = "settle" /\ outcome' = outcome /\ revision' = revision
         \/ \E r \in Outcomes : Resume(r)
  BY ExpirySteps DEF AttemptPCs, BeginExpiry, Announce, AnnounceRetry

\* No revision comes back, so that the one noted still tells.
LEMMA RevisionStays == Core /\ [Next]_vars => RevisionTells'
<1> SUFFICES ASSUME Core, [Next]_vars PROVE RevisionTells'
  OBVIOUS
<1> USE DEF Core
<1>1. ASSUME pc' \in AttemptPCs PROVE revision' <= app'.revision
  <2>1. CASE pc \in AttemptPCs /\ revision' = revision
    BY <2>1, RevisionGrows DEF RevisionTells, TypeOK
  <2>2. CASE BeginExpiry
    BY <2>2, RevisionGrows DEF BeginExpiry
  <2> QED
    BY <1>1, <2>1, <2>2, LoopKeeps
<1>2. ASSUME pc' = "settle", outcome' = "Sent", app'.revision = revision' PROVE delivered'
  <2>1. ASSUME NEW r \in Outcomes, Resume(r) PROVE delivered'
    BY <1>2, <2>1 DEF Resume
  <2>2. CASE pc = "settle" /\ outcome' = outcome /\ revision' = revision
    <3>1. app.revision = revision /\ app'.revision = app.revision
      BY <1>2, <2>2, RevisionGrows DEF RevisionTells, AttemptPCs, TypeOK
    <3>2. delivered
      BY <1>2, <2>2, <3>1 DEF RevisionTells
    <3>3. CASE AppliesStep /\ Later(app'.watermark, app.watermark)
      <4>1. ReportApply
        BY <2>2, <3>3 DEF AppliesStep, StartupApply, EndScan
      <4>2. PICK update \in Update : Applies(update, TRUE)
        BY <3>3, <2>2 DEF AppliesStep, StartupApply, EndScan
      <4>3. app' # app
        BY <3>3, NoneAssumption DEF Later, TypeOK, AppStates
      <4>4. app'.revision = app.revision + 1
        BY <4>2, <4>3, ApplyEffect
      <4> QED
        BY <3>1, <4>4, RevisionGrows
    <3> QED
      BY <2>1, <3>2, <3>3, HistorySteps, Zenon
  <2> QED
    BY <1>2, <2>1, <2>2, SettleSteps
<1> QED
  BY <1>1, <1>2 DEF RevisionTells

-------------------------------------------------------------------------------
(* What holds under every runner.                                          *)

\* A fresh AppState satisfies it all.
LEMMA CoreInit == Init => Core
<1> SUFFICES ASSUME Init PROVE Core
  OBVIOUS
<1>1. StatusMatchesLockout /\ ExhaustionIsCurrent
  BY DEF Init, NewAppState, StatusMatchesLockout, ExhaustionIsCurrent, Show, MonitoringKinds
<1>2. NotExhaustedMeanwhile /\ RevisionTells
  BY DEF Init, NotExhaustedMeanwhile, RevisionTells, ExpiryPCs, AttemptPCs
<1> QED
  BY <1>1, <1>2, TypeInit, LocalsInit DEF Core

\* Every step keeps it.
LEMMA CoreStep == Core /\ [Next]_vars => Core'
  BY TypeStep, StatusStays, ExhaustionStays, ExhaustionStaysAway, RevisionStays DEF Core

\* It holds in every reachable state.
LEMMA CoreHolds == Spec => []Core
  BY CoreInit, CoreStep, PTL DEF Spec

\* The status shown agrees with the lockout (publish_resume_status_if_current
\* and apply_limit_update, each under its own lock).
THEOREM StatusIsRight == Spec => []StatusMatchesLockout
<1>1. Core => StatusMatchesLockout
  BY DEF Core
<1> QED
  BY <1>1, CoreHolds, PTL

\* A lockout counts as exhausted only until the next event
\* (resume_exhausted_revision against lockout_revision).
THEOREM ExhaustionIsRight == Spec => []ExhaustionIsCurrent
<1>1. Core => ExhaustionIsCurrent
  BY DEF Core
<1> QED
  BY <1>1, CoreHolds, PTL

\* However often rows are read again, the lockout follows the newest event only
\* (the watermark of apply_limit_update).
THEOREM NewsOnly == Spec => LockoutsComeFromNews
<1> DEFINE A == (\/ app'.revision # app.revision
                 \/ app'.watermark # app.watermark
                 \/ app'.target # app.target /\ app'.target # None)
                => Later(app'.watermark, app.watermark)
<1>1. Core /\ [Next]_vars => [A]_vars
  <2> SUFFICES ASSUME Core, [Next]_vars PROVE A
    OBVIOUS
  <2> USE DEF Core
  <2>1. CASE AppliesStep
    <3>1. PICK update \in Update : Applies(update, TRUE) \/ Applies(update, FALSE)
      BY <2>1 DEF AppliesStep
    <3> QED
      BY <3>1, ApplyEffect
  <2> QED
    BY <2>1, AppSteps, PublishEffect, SettleEffect
<1> QED
  BY <1>1, CoreHolds, PTL DEF Spec, LockoutsComeFromNews

\* A lockout that no event cleared was dropped for a continue that was sent for
\* it (the currency check at the end of handle_expiry_with).
THEOREM DroppedForContinue == Spec => DroppedOnlyAfterContinue
<1> DEFINE A == (app'.target = None /\ app.target # None /\ app'.watermark = app.watermark)
                => delivered
<1>1. Core /\ [Next]_vars => [A]_vars
  <2> SUFFICES ASSUME Core, [Next]_vars,
                      app'.target = None, app.target # None, app'.watermark = app.watermark
               PROVE  delivered
    OBVIOUS
  <2> USE DEF Core
  <2>1. CASE AppliesStep
    <3>1. PICK update \in Update : Applies(update, TRUE) \/ Applies(update, FALSE)
      BY <2>1 DEF AppliesStep
    <3>2. ~Later(app'.watermark, app.watermark)
      BY DEF Later, TypeOK, AppStates
    <3> QED
      BY <3>1, <3>2, ApplyEffect
  <2>2. CASE Settle
    <3>1. outcome = "Sent" /\ app.revision = revision
      BY <2>2, SettleEffect
    <3> QED
      BY <2>2, <3>1 DEF Settle, RevisionTells
  <2> QED
    BY <2>1, <2>2, AppSteps, PublishEffect
<1> QED
  BY <1>1, CoreHolds, PTL DEF Spec, DroppedOnlyAfterContinue

-------------------------------------------------------------------------------
(* Without a runner that reports limits, as under a PTY.                   *)

Alone == ~RunnerReports => MonitorAlone /\ AttemptsCounted

\* The clock does not go back.
LEMMA TimeSteps ==
  ASSUME [Next]_vars
  PROVE  now' = now \/ Tick
<1> USE DEF shared, locals, runner, world, history
<1>1. CASE UNCHANGED vars
  BY <1>1 DEF vars
<1>2. CASE Startup \/ Watch
  BY <1>2 DEF Startup, Watch, StartupScan, StartupScanFails, StartupApply,
     RootUnavailable, CreateWatcher, CreateWatcherFails
<1>3. CASE Loop
  BY <1>3 DEF Loop, ReadLockout, Decide, Wake, Receive, Disconnected
<1>4. CASE Scan
  <2>1. ASSUME NEW p \in Transcripts, BeginScan(p) PROVE now' = now
    BY <2>1 DEF BeginScan
  <2>2. CASE Collect \/ DebounceOver \/ OutputQuiet \/ EndScan \/ ScanChanged \/ ScanFails
    BY <2>2 DEF Collect, DebounceOver, OutputQuiet, EndScan, ScanChanged, ScanFails
  <2> QED
    BY <1>4, <2>1, <2>2 DEF Scan
<1>5. CASE Expiry
  BY <1>5 DEF Expiry, BeginExpiry, Announce, Resume, AnnounceRetry, Settle
<1>6. CASE Reporter
  BY <1>6 DEF Reporter, ReportParse, ReportApply
<1>7. CASE Environment
  BY <1>7 DEF Environment, ChildOutput, GoQuiet, WatcherDies, WriteRow, WatcherNoise
<1> QED
  BY <1>1, <1>2, <1>3, <1>4, <1>5, <1>6, <1>7 DEF Next, Monitor

\* The clock never goes back.
LEMMA TimeGrows ==
  ASSUME TypeOK, [Next]_vars
  PROVE  now \in Nat /\ now' \in Nat /\ now <= now'
<1>1. now \in Nat
  BY DEF TypeOK
<1>2. CASE Tick
  BY <1>1, <1>2 DEF Tick
<1> QED
  BY <1>1, <1>2, TimeSteps

\* Without a runner that reports limits nothing is ever parsed.
LEMMA NothingReported == ~RunnerReports /\ report = None /\ [Next]_vars => report' = None
<1> SUFFICES ASSUME ~RunnerReports, report = None, [Next]_vars PROVE report' = None
  OBVIOUS
<1> USE DEF shared, locals, runner, world, history
<1>1. CASE UNCHANGED vars
  BY <1>1 DEF vars
<1>2. CASE Startup \/ Watch
  BY <1>2 DEF Startup, Watch, StartupScan, StartupScanFails, StartupApply,
     RootUnavailable, CreateWatcher, CreateWatcherFails
<1>3. CASE Loop
  BY <1>3 DEF Loop, ReadLockout, Decide, Wake, Receive, Disconnected
<1>4. CASE Scan
  <2>1. ASSUME NEW p \in Transcripts, BeginScan(p) PROVE report' = report
    BY <2>1 DEF BeginScan
  <2>2. CASE Collect \/ DebounceOver \/ OutputQuiet \/ EndScan \/ ScanChanged \/ ScanFails
    BY <2>2 DEF Collect, DebounceOver, OutputQuiet, EndScan, ScanChanged, ScanFails
  <2> QED
    BY <1>4, <2>1, <2>2 DEF Scan
<1>5. CASE Expiry
  BY <1>5 DEF Expiry, BeginExpiry, Announce, Resume, AnnounceRetry, Settle
<1>6. CASE Reporter
  BY <1>6 DEF Reporter, ReportParse, ReportApply
<1>7. CASE Environment
  BY <1>7 DEF Environment, Tick, ChildOutput, GoQuiet, WatcherDies, WriteRow, WatcherNoise
<1> QED
  BY <1>1, <1>2, <1>3, <1>4, <1>5, <1>6, <1>7 DEF Next, Monitor

\* From the moment the monitor has read the lockout to the settlement, only the
\* status changes.
LEMMA QuietMeanwhile ==
  ASSUME TypeOK, LocalsAreSet, [Next]_vars, report = None,
         {pc, pc'} \subseteq {"decide"} \cup ExpiryPCs
  PROVE  /\ app'.target = app.target /\ app'.revision = app.revision
         /\ app'.exhausted = app.exhausted
<1>1. ~AppliesStep
  BY DEF AppliesStep, StartupApply, EndScan, ReportApply, ExpiryPCs, AttemptPCs
<1>2. ~Settle
  BY DEF Settle, ExpiryPCs, AttemptPCs
<1> QED
  BY <1>1, <1>2, AppSteps, PublishEffect

\* Then nothing changes the lockout between the monitor's own steps.
LEMMA AloneStays == Core /\ ~RunnerReports /\ MonitorAlone /\ [Next]_vars => MonitorAlone'
<1> SUFFICES ASSUME Core, ~RunnerReports, MonitorAlone, [Next]_vars PROVE MonitorAlone'
  OBVIOUS
<1> USE DEF Core
<1>1. report = None /\ report' = None
  BY NothingReported DEF MonitorAlone
<1>2. ASSUME pc' = "decide"
      PROVE  app'.target = target' /\ (~spent' => app'.exhausted # app'.revision)
  <2>1. CASE pc = "decide" /\ spent' = spent /\ target' = target
    BY <1>1, <1>2, <2>1, QuietMeanwhile DEF MonitorAlone
  <2>2. CASE ReadLockout
    <3>1. app' = app /\ target' = app.target
      BY <2>2 DEF ReadLockout, shared
    <3>2. ~spent' => app.exhausted # app.revision
      BY <2>2, Zenon DEF ReadLockout
    <3> QED
      BY <3>1, <3>2
  <2> QED
    BY <1>2, <2>1, <2>2, ExpirySteps
<1>3. ASSUME pc' \in ExpiryPCs PROVE app'.target = target' /\ target' <= now'
  <2>1. CASE pc \in ExpiryPCs /\ target' = target
    <3>1. app.target = target /\ target <= now /\ target \in Nat
      BY <2>1 DEF MonitorAlone, TypeOK, LocalsAreSet
    <3> QED
      BY <1>1, <1>3, <2>1, <3>1, QuietMeanwhile, TimeGrows
  <2>2. CASE Decide /\ pc' = "due"
    <3>1. pc = "decide" /\ target # None /\ ~(now < target) /\ target' = target /\ now' = now /\ app' = app
      BY <2>2 DEF Decide, shared, world
    <3>2. target \in Nat /\ app.target = target
      BY <3>1 DEF MonitorAlone, TypeOK
    <3> QED
      BY <3>1, <3>2, TimeGrows
  <2>3. CASE BeginExpiry
    BY <2>3 DEF BeginExpiry, MonitorAlone, ExpiryPCs, shared, world
  <2> QED
    BY <1>3, <2>1, <2>2, <2>3, ExpirySteps, LoopKeeps DEF ExpiryPCs
<1>4. ASSUME pc' \in AttemptPCs PROVE app'.revision = revision'
  <2>1. CASE BeginExpiry
    BY <2>1 DEF BeginExpiry, shared
  <2>2. CASE ~BeginExpiry
    BY <1>1, <1>4, <2>2, LoopKeeps, QuietMeanwhile DEF MonitorAlone, ExpiryPCs
  <2> QED
    BY <2>1, <2>2
<1> QED
  BY <1>1, <1>2, <1>3, <1>4 DEF MonitorAlone

\* What resume() leaves behind.
LEMMA ResumeEffect ==
  ASSUME Core, NEW r \in Outcomes, Resume(r)
  PROVE  /\ pc \in {"resume", "backoff"} /\ attempts' = attempts + 1
         /\ app' = app /\ target' = target /\ now' = now /\ attempt' = attempt
         /\ pc' \in {"failed", "settle"}
         /\ pc' = "failed" => attempt < MaxRetries /\ (delivered' <=> delivered)
<1>1. pc' = "failed" => r = "Definite" /\ attempt < MaxRetries
  BY DEF Resume
<1>2. r = "Definite" => (delivered' <=> delivered)
  BY Zenon DEF Resume
<1>3. pc \in {"resume", "backoff"} /\ attempts' = attempts + 1 /\ pc' \in {"failed", "settle"}
  BY DEF Resume
<1>4. app' = app /\ target' = target /\ now' = now /\ attempt' = attempt
  BY DEF Resume, shared, world
<1> QED
  BY <1>1, <1>2, <1>3, <1>4, Zenon

\* Then every attempt is counted for the lockout in force.
LEMMA CountStays ==
  Core /\ ~RunnerReports /\ MonitorAlone /\ AttemptsCounted /\ [Next]_vars => AttemptsCounted'
<1> SUFFICES ASSUME Core, ~RunnerReports, MonitorAlone, AttemptsCounted, [Next]_vars
             PROVE  AttemptsCounted'
  OBVIOUS
<1> USE DEF Core
<1>1. report = None
  BY DEF MonitorAlone
<1>2. ASSUME pc' \notin AttemptPCs, app'.target # None, app'.exhausted = None
      PROVE  attempts' = 0 /\ ~delivered'
  <2>1. ~PublishStep /\ ~(\E r \in Outcomes : Resume(r))
    BY <1>2 DEF PublishStep, Announce, AnnounceRetry, Resume, AttemptPCs
  <2>2. ~Settle
    <3> SUFFICES ASSUME Settle PROVE FALSE
      OBVIOUS
    <3>1. IsCurrent(app, target, revision)
      BY DEF Settle, MonitorAlone, IsCurrent, ExpiryPCs, AttemptPCs
    <3>2. revision # None /\ app \in AppStates
      BY NoneAssumption DEF TypeOK
    <3>3. CASE outcome = "Sent"
      BY <1>2, <3>1, <3>2, <3>3 DEF Settle, SettleSent, AppStates
    <3>4. CASE outcome # "Sent"
      BY <1>2, <3>1, <3>2, <3>4 DEF Settle, SettleFailed, AppStates
    <3> QED
      BY <3>3, <3>4
  <2>3. pc \notin AttemptPCs
    BY <1>2, <2>2, ExpirySteps
  <2>4. CASE app' = app /\ attempts' = attempts /\ delivered' = delivered
    BY <1>2, <2>3, <2>4 DEF AttemptsCounted
  <2>5. CASE AppliesStep
    <3>1. PICK update \in Update : Applies(update, TRUE) \/ Applies(update, FALSE)
      BY <2>5 DEF AppliesStep
    <3> QED
      BY <2>4, <3>1, ApplyHistory
  <2> QED
    BY <2>1, <2>2, <2>4, <2>5, AppSteps
<1>3. ASSUME pc' \in AttemptPCs, ~(\E r \in Outcomes : Resume(r))
      PROVE  attempts' = attempts /\ delivered' = delivered
  <2>1. ~AppliesStep
    BY <1>1, <1>3 DEF AppliesStep, StartupApply, EndScan, AfterScan, ReportApply, AttemptPCs
  <2> QED
    BY <1>3, <2>1, HistorySteps
<1>4. ASSUME pc' = "announce"
      PROVE  attempts' = 0 /\ attempt' = 0 /\ ~delivered'
  <2>1. ~(\E r \in Outcomes : Resume(r))
    BY <1>4 DEF Resume
  <2>2. attempts' = attempts /\ delivered' = delivered
    BY <1>3, <1>4, <2>1 DEF AttemptPCs
  <2>3. CASE pc = "announce" /\ attempt' = attempt
    BY <2>2, <2>3 DEF AttemptsCounted
  <2>4. CASE BeginExpiry
    <3>1. app.target # None /\ app.exhausted = None /\ pc \notin AttemptPCs /\ attempt' = 0
      BY <2>4 DEF BeginExpiry, MonitorAlone, LocalsAreSet, NotExhaustedMeanwhile, ExpiryPCs, AttemptPCs
    <3> QED
      BY <2>2, <3>1 DEF AttemptsCounted
  <2> QED
    BY <1>4, <2>1, <2>3, <2>4, ExpirySteps DEF AttemptPCs, Announce, AnnounceRetry
<1>5. ASSUME pc' \in {"resume", "backoff"}
      PROVE  attempts' = attempt' /\ attempt' <= MaxRetries /\ ~delivered'
  <2>1. ~(\E r \in Outcomes : Resume(r))
    BY <1>5 DEF Resume
  <2>2. attempts' = attempts /\ delivered' = delivered
    BY <1>3, <1>5, <2>1 DEF AttemptPCs
  <2>3. CASE pc = pc' /\ attempt' = attempt
    BY <1>5, <2>2, <2>3 DEF AttemptsCounted
  <2>4. CASE Announce
    <3>1. attempts = 0 /\ attempt = 0 /\ ~delivered /\ attempt' = attempt
      BY <2>4 DEF Announce, AttemptsCounted, locals
    <3> QED
      BY <2>2, <3>1, BoundsAssumption
  <2>5. CASE AnnounceRetry
    <3>1. attempts = attempt + 1 /\ attempt < MaxRetries /\ ~delivered /\ attempt' = attempt + 1
      BY <2>5 DEF AnnounceRetry, AttemptsCounted
    <3>2. attempt \in Nat /\ MaxRetries \in Nat
      BY BoundsAssumption DEF TypeOK
    <3> QED
      BY <2>2, <3>1, <3>2
  <2> QED
    BY <1>5, <2>1, <2>3, <2>4, <2>5, ExpirySteps DEF AttemptPCs, BeginExpiry
<1>6. ASSUME pc' = "failed"
      PROVE  attempts' = attempt' + 1 /\ attempt' < MaxRetries /\ ~delivered'
  <2>1. CASE pc = "failed" /\ attempt' = attempt /\ ~(\E r \in Outcomes : Resume(r))
    <3>1. attempts' = attempts /\ delivered' = delivered
      BY <1>3, <1>6, <2>1 DEF AttemptPCs
    <3> QED
      BY <2>1, <3>1 DEF AttemptsCounted
  <2>2. ASSUME NEW r \in Outcomes, Resume(r)
        PROVE  attempts' = attempt' + 1 /\ attempt' < MaxRetries /\ ~delivered'
    <3>1. attempts = attempt /\ ~delivered
      BY <2>2, ResumeEffect DEF AttemptsCounted
    <3> QED
      BY <1>6, <2>2, <3>1, ResumeEffect
  <2> QED
    BY <1>6, <2>1, <2>2, ExpirySteps DEF AttemptPCs, BeginExpiry, Announce, AnnounceRetry
<1> QED
  BY <1>2, <1>4, <1>5, <1>6 DEF AttemptsCounted

\* The inductive invariant.
THEOREM InvariantHolds == Spec => []IInv
<1>1. Init => Core /\ Alone
  <2>1. Init => MonitorAlone /\ AttemptsCounted
    BY DEF Init, NewAppState, MonitorAlone, AttemptsCounted, ExpiryPCs, AttemptPCs
  <2> QED
    BY <2>1, CoreInit DEF Alone
<1>2. Core /\ Alone /\ [Next]_vars => (Core /\ Alone)'
  BY CoreStep, AloneStays, CountStays DEF Alone
<1>3. Core /\ Alone => IInv
  BY DEF Core, Alone, IInv
<1> QED
  BY <1>1, <1>2, <1>3, PTL DEF Spec

\* Under a PTY a continue is sent only while a lockout is in force whose reset
\* is past (the wait and the expiry of spawn_lockout_monitor).
THEOREM NeverEarly == ASSUME ~RunnerReports PROVE Spec => ContinueOnlyAfterReset
<1>1. IInv /\ [Next]_vars => [attempts' > attempts => app.target # None /\ app.target <= now]_vars
  <2> SUFFICES ASSUME IInv, [Next]_vars, attempts' > attempts
               PROVE  app.target # None /\ app.target <= now
    OBVIOUS
  <2> USE DEF IInv
  <2>1. attempts \in Nat
    BY DEF TypeOK
  <2>2. PICK r \in Outcomes : Resume(r)
    <3>1. attempts' = attempts \/ attempts' = 0 \/ \E r \in Outcomes : Resume(r)
      BY HistorySteps, Zenon
    <3> QED
      BY <2>1, <3>1
  <2> QED
    BY <2>2 DEF Resume, MonitorAlone, LocalsAreSet, ExpiryPCs, AttemptPCs
<1> QED
  BY <1>1, InvariantHolds, PTL DEF Spec, ContinueOnlyAfterReset

\* Under a PTY one limit event is answered by at most 1 + MaxRetries attempts,
\* none of them after one that may have been delivered (handle_expiry_with).
THEOREM NeverTwice == ASSUME ~RunnerReports PROVE Spec => ContinueAtMostOnce
<1>1. IInv /\ [Next]_vars => [attempts' > attempts => ~delivered /\ attempts <= MaxRetries]_vars
  <2> SUFFICES ASSUME IInv, [Next]_vars, attempts' > attempts
               PROVE  ~delivered /\ attempts <= MaxRetries
    OBVIOUS
  <2> USE DEF IInv
  <2>1. attempts \in Nat
    BY DEF TypeOK
  <2>2. PICK r \in Outcomes : Resume(r)
    <3>1. attempts' = attempts \/ attempts' = 0 \/ \E r \in Outcomes : Resume(r)
      BY HistorySteps, Zenon
    <3> QED
      BY <2>1, <3>1
  <2>3. pc \in {"resume", "backoff"}
    BY <2>2 DEF Resume
  <2> QED
    BY <2>3 DEF AttemptsCounted
<1> QED
  BY <1>1, InvariantHolds, PTL DEF Spec, ContinueAtMostOnce

-------------------------------------------------------------------------------
(* The monitor implements LockoutPromise: each step maps to a step of the  *)
(* promise or to a stutter.                                                *)

\* What the promise is made of.
Abstract == <<now, app.target, app.watermark, attempts, delivered>>

\* A limit event that is accepted replaces the abstract limit.
LEMMA AppliesMaps ==
  ASSUME TypeOK, LocalsAreSet, [Next]_vars, AppliesStep
  PROVE  Promise!LimitEvent \/ UNCHANGED Abstract
<1>1. now' = now
  BY DEF AppliesStep, StartupApply, EndScan, ReportApply, world
<1>2. PICK update \in Update : Applies(update, TRUE) \/ Applies(update, FALSE)
  BY DEF AppliesStep
<1>3. CASE app' = app /\ attempts' = attempts /\ delivered' = delivered
  BY <1>1, <1>3 DEF Abstract
<1>4. CASE attempts' = 0 /\ delivered' = FALSE /\ Later(app'.watermark, app.watermark)
  <2>1. app' \in AppStates
    BY TypeStep DEF TypeOK
  <2>2. app'.watermark \in Nat /\ app'.target \in Promise!Moment
    BY <1>4, <2>1 DEF Later, AppStates, Promise!Moment
  <2> QED
    BY <1>1, <1>4, <2>2 DEF Promise!LimitEvent, Later
<1> QED
  BY <1>2, <1>3, <1>4, ApplyHistory

\* The settlement forgets the limit only if it was answered.
LEMMA SettleMaps ==
  ASSUME Core, Settle
  PROVE  Promise!Forget \/ UNCHANGED Abstract
<1> USE DEF Core
<1>1. UNCHANGED <<now, attempts, delivered>>
  BY DEF Settle, world, history
<1>2. CASE app'.target = None /\ app.revision = revision /\ outcome = "Sent" /\ app'.watermark = app.watermark
  <2>1. delivered
    BY <1>2 DEF Settle, RevisionTells
  <2> QED
    BY <1>1, <1>2, <2>1 DEF Promise!Forget
<1> QED
  BY <1>1, <1>2, SettleEffect DEF Abstract

\* A call of resume() is an attempt at the limit in force.
LEMMA ResumeMaps ==
  ASSUME IInv, ~RunnerReports, NEW r \in Outcomes, Resume(r)
  PROVE  Promise!Attempt
<1> USE DEF IInv
<1>1. pc \in {"resume", "backoff"} /\ app' = app /\ now' = now /\ attempts' = attempts + 1
  BY DEF Resume, shared, world
<1>2. delivered' \in BOOLEAN
  BY DEF Resume
<1>3. ~delivered /\ attempts <= MaxRetries
  BY <1>1 DEF AttemptsCounted
<1>4. app.target # None /\ app.target <= now
  BY <1>1 DEF MonitorAlone, LocalsAreSet, ExpiryPCs, AttemptPCs
<1> QED
  BY <1>1, <1>2, <1>3, <1>4 DEF Promise!Attempt

\* The monitor under a PTY keeps the promise: it implements LockoutPromise
\* (spawn_lockout_monitor, apply_limit_update, handle_expiry_with).
THEOREM PromiseIsKept == ASSUME ~RunnerReports PROVE Spec => KeepsPromise
<1>1. Init => Promise!Init
  BY BoundsAssumption DEF Init, Promise!Init, NewAppState
<1>2. IInv /\ [Next]_vars => [Promise!Next]_(Promise!promiseVars)
  <2> SUFFICES ASSUME IInv, [Next]_vars
               PROVE  Promise!Next \/ UNCHANGED Abstract
    BY DEF Promise!promiseVars, Abstract
  <2>1. Core
    BY DEF IInv, Core
  <2> USE DEF Core
  <2>2. CASE AppliesStep
    BY <2>1, <2>2, AppliesMaps DEF Promise!Next
  <2>3. CASE Settle
    BY <2>1, <2>3, SettleMaps DEF Promise!Next
  <2>4. ASSUME NEW r \in Outcomes, Resume(r) PROVE Promise!Next
    BY <2>4, ResumeMaps DEF Promise!Next
  <2>5. CASE PublishStep
    <3>1. UNCHANGED <<now, attempts, delivered>>
      BY <2>5 DEF PublishStep, Announce, AnnounceRetry, world, history
    <3> QED
      BY <2>1, <2>5, <3>1, PublishEffect DEF Abstract
  <2>6. CASE app' = app /\ UNCHANGED <<attempts, delivered>>
    <3>1. CASE now' = now
      BY <2>6, <3>1 DEF Abstract
    <3>2. CASE Tick
      BY <2>6, <3>2 DEF Tick, Promise!Next, Promise!Tick
    <3> QED
      BY <3>1, <3>2, TimeSteps
  <2> QED
    BY <2>1, <2>2, <2>3, <2>4, <2>5, <2>6, AppSteps
<1> QED
  BY <1>1, <1>2, InvariantHolds, PTL DEF Spec, KeepsPromise, Promise!Spec

-------------------------------------------------------------------------------
(***************************************************************************)
(* No row of a rate limit is forgotten: the way of a row from its writing  *)
(* over the event and the scan to the watermark.                           *)
(***************************************************************************)

\* A row that can change nothing any more.
Settled(row, at, state) == Interpret(row, at) = None \/ ~IsNews(state, row)

\* Nor can it once the update is applied.
Covered(row, at, state, update) ==
  Settled(row, at, state) \/ (update # None /\ row.time <= update.time)

\* The rows of a transcript are in the order of their times.
Ordered ==
  \A p \in Transcripts :
    \A i, j \in 1 .. Len(files[p]) : i < j => files[p][i].time <= files[p][j].time

\* Before the first event can come; the startup scan leaves nothing behind.
Before ==
  /\ StartTime <= now
  /\ pc \in {"startup", "watch"} => ~watching /\ queue = <<>>
  /\ pc # "startup" => found = None

\* Paths are kept from the first event to the end of the scans only.
NoPaths ==
  pc \in {"watch", "read", "decide", "cooldown", "recv"} \cup ExpiryPCs => paths = {}

\* The rows before the cursor are settled, or will be with the startup scan.
RowsBehind ==
  \A p \in Transcripts :
    /\ cursor[p] <= Len(files[p])
    /\ p \notin overlooked =>
         \A i \in 1 .. cursor[p] : Covered(files[p][i], now, app, found)

\* The startup scan reads a listed transcript to its end.
Listed ==
  pc = "startup" =>
    \A p \in Transcripts \ (overlooked \cup paths) : cursor[p] = Len(files[p])

\* A scan settles the rows it has seen, and those written since have an event.
ScanKnows ==
  pc = "scanning" /\ scan.path \notin overlooked =>
    /\ scan.size <= Len(files[scan.path])
    /\ scan.size = Len(files[scan.path]) \/ scan.path \in Queued
    /\ \A i \in 1 .. scan.size : Covered(files[scan.path][i], now, app, scan.update)

RowsInv ==
  /\ Ordered /\ Before /\ NoPaths /\ RowsBehind /\ Listed /\ ScanKnows
  /\ NothingForgotten

-------------------------------------------------------------------------------
(* Rows and updates.                                                       *)

\* A row that says nothing at one moment says nothing later.
LEMMA SilenceStays ==
  ASSUME NEW row \in Row, NEW at \in Time, NEW later \in Time, at <= later,
         Interpret(row, at) = None
  PROVE  Interpret(row, later) = None
  BY UpdateAssumption DEF Interpret, Row, Update

\* The update of a row has the row's time.
LEMMA UpdateTime ==
  ASSUME NEW row \in Row, NEW at \in Time, Interpret(row, at) # None
  PROVE  Interpret(row, at) \in Update /\ Interpret(row, at).time = row.time
  BY NoneAssumption DEF Interpret, Row, Update

\* The newest row of a scan is no older than any row that tells something.
LEMMA ScanCovers ==
  ASSUME NEW rows \in Seq(Row), NEW first \in Nat \ {0}, NEW at \in Time,
         NEW update \in ScanResult(rows, first, Len(rows), at),
         NEW i \in first .. Len(rows), Interpret(rows[i], at) # None
  PROVE  update \in Update /\ rows[i].time <= update.time
<1> DEFINE telling == {j \in first .. Len(rows) : Interpret(rows[j], at) # None}
           Beats(j, k) == \/ rows[k].time < rows[j].time
                          \/ rows[k].time = rows[j].time /\ j <= k
<1>1. telling # {} /\ i \in telling
  OBVIOUS
<1>2. PICK j \in telling : update = Interpret(rows[j], at) /\ Beats(j, i)
  BY <1>1 DEF ScanResult
<1>3. rows[j] \in Row /\ rows[i] \in Row
  OBVIOUS
<1>4. update \in Update /\ update.time = rows[j].time
  BY <1>2, <1>3, UpdateTime
<1>5. rows[i].time <= rows[j].time
  BY <1>2, <1>3 DEF Row
<1> QED
  BY <1>4, <1>5

\* A scan without an update has seen no row that tells something.
LEMMA ScanSilence ==
  ASSUME NEW rows \in Seq(Row), NEW first \in Nat \ {0}, NEW at \in Time,
         None \in ScanResult(rows, first, Len(rows), at)
  PROVE  \A i \in first .. Len(rows) : Interpret(rows[i], at) = None
<1> SUFFICES ASSUME NEW i \in first .. Len(rows), Interpret(rows[i], at) # None PROVE FALSE
  OBVIOUS
<1>1. None \in Update
  BY ScanCovers
<1> QED
  BY <1>1, UpdateAssumption

\* The update of any last rows, which are the newest, is no older than any row
\* that tells something.
LEMMA SuffixCovers ==
  ASSUME NEW rows \in Seq(Row), NEW at \in Time, NEW first \in 1 .. Len(rows),
         \A i, j \in 1 .. Len(rows) : i < j => rows[i].time <= rows[j].time,
         NEW update \in ScanResult(rows, first, Len(rows), at), update # None,
         NEW i \in 1 .. Len(rows), Interpret(rows[i], at) # None
  PROVE  rows[i].time <= update.time
<1>1. CASE i >= first
  BY <1>1, ScanCovers
<1>2. CASE i < first
  <2>1. PICK j \in first .. Len(rows) : update = Interpret(rows[j], at)
    BY DEF ScanResult
  <2>2. rows[j] \in Row /\ update.time = rows[j].time
    BY <2>1, UpdateTime
  <2> QED
    BY <1>2, <2>1, <2>2
<1> QED
  BY <1>1, <1>2

-------------------------------------------------------------------------------
(* The clock and the watermark.                                            *)

\* The watermark moves only to a later event.
LEMMA WatermarkGrows ==
  ASSUME TypeOK, LocalsAreSet, [Next]_vars
  PROVE  app'.watermark = app.watermark \/ Later(app'.watermark, app.watermark)
<1>1. CASE AppliesStep
  <2>1. PICK update \in Update : Applies(update, TRUE) \/ Applies(update, FALSE)
    BY <1>1 DEF AppliesStep
  <2> QED
    BY <2>1, ApplyEffect
<1> QED
  BY <1>1, AppSteps, PublishEffect, SettleEffect

\* What is settled stays so, whatever the other tasks do.
LEMMA SettledStays ==
  ASSUME TypeOK, LocalsAreSet, [Next]_vars, NEW row \in Row, Settled(row, now, app)
  PROVE  Settled(row, now', app')
<1>1. now \in Time /\ now' \in Time /\ now <= now'
  BY TimeGrows
<1>2. CASE Interpret(row, now) = None
  BY <1>1, <1>2, SilenceStays DEF Settled
<1>3. CASE ~IsNews(app, row)
  <2>1. app.watermark \in Time /\ app.watermark # None /\ row.time \in Time
    BY <1>3 DEF IsNews, TypeOK, AppStates, Row
  <2>2. app'.watermark \in Time \cup {None}
    BY TypeStep DEF TypeOK, AppStates
  <2>3. app'.watermark # None /\ row.time <= app'.watermark
    BY <1>3, <2>1, <2>2, WatermarkGrows DEF IsNews, Later
  <2>4. app'.watermark \in Time
    BY <2>2, <2>3
  <2> QED
    BY <2>1, <2>3, <2>4 DEF Settled, IsNews
<1> QED
  BY <1>2, <1>3 DEF Settled

\* Without a write nothing becomes unnoticed.
LEMMA NothingNew ==
  ASSUME TypeOK, LocalsAreSet, [Next]_vars, files' = files,
         NEW p \in Transcripts, Unnoticed(p)'
  PROVE  Unnoticed(p)
<1>1. PICK i \in 1 .. Len(files[p]) : Interpret(files[p][i], now') # None /\ IsNews(app', files[p][i])
  BY DEF Unnoticed
<1>2. files[p][i] \in Row
  BY DEF TypeOK
<1>3. ~Settled(files[p][i], now, app)
  BY <1>1, <1>2, SettledStays DEF Settled
<1> QED
  BY <1>3 DEF Settled, Unnoticed

\* An applied update settles the rows that are no newer.
LEMMA ApplySettles ==
  ASSUME TypeOK, NEW update \in Update, NEW live \in BOOLEAN,
         app' = ApplyLimitUpdate(app, update, live),
         NEW row \in Row, row.time <= update.time
  PROVE  ~IsNews(app', row)
<1>1. row.time \in Nat /\ update.time \in Nat /\ update.time # None
  BY NoneAssumption DEF Row, Update
<1>2. CASE IsNews(app, update)
  <2>1. app'.watermark = update.time
    BY <1>2 DEF ApplyLimitUpdate, Accept
  <2> QED
    BY <1>1, <2>1 DEF IsNews
<1>3. CASE ~IsNews(app, update)
  <2>1. app' = app /\ app.watermark \in Nat /\ app.watermark # None /\ ~(app.watermark < update.time)
    BY <1>3 DEF ApplyLimitUpdate, IsNews, TypeOK, AppStates
  <2> QED
    BY <1>1, <2>1 DEF IsNews
<1> QED
  BY <1>2, <1>3

-------------------------------------------------------------------------------
(* Steps that leave the transcripts and the cursors alone.                 *)

\* Histories grow.
Quiet == UNCHANGED <<files, cursor, found>> /\ overlooked \subseteq overlooked'

\* A quiet step keeps what is known of the rows, and nothing becomes unnoticed.
LEMMA QuietKeeps ==
  ASSUME TypeOK, LocalsAreSet, RowsInv, [Next]_vars, Quiet
  PROVE  /\ Ordered' /\ RowsBehind' /\ StartTime <= now'
         /\ \A p \in Transcripts : Unnoticed(p)' => Unnoticed(p)
<1> USE DEF RowsInv, Quiet
<1>1. Ordered'
  BY DEF Ordered
<1>2. \A p \in Transcripts : \A i \in 1 .. Len(files[p]) : files[p][i] \in Row
  BY DEF TypeOK
<1>3. RowsBehind'
  <2> SUFFICES ASSUME NEW p \in Transcripts
               PROVE  /\ cursor[p] <= Len(files[p])
                      /\ p \notin overlooked' =>
                           \A i \in 1 .. cursor[p] : Covered(files[p][i], now', app', found)
    BY DEF RowsBehind
  <2>1. cursor[p] \in Nat /\ Len(files[p]) \in Nat /\ cursor[p] <= Len(files[p])
    BY DEF TypeOK, RowsBehind
  <2>2. ASSUME NEW i \in 1 .. cursor[p], p \notin overlooked'
        PROVE  Covered(files[p][i], now', app', found)
    <3>1. files[p][i] \in Row
      BY <1>2, <2>1
    <3>2. Covered(files[p][i], now, app, found)
      BY <2>2 DEF RowsBehind
    <3> QED
      BY <3>1, <3>2, SettledStays DEF Covered
  <2> QED
    BY <2>1, <2>2
<1>4. StartTime <= now'
  BY TimeGrows, BoundsAssumption DEF Before
<1> QED
  BY <1>1, <1>3, <1>4, NothingNew

\* Nor does a quiet step that keeps the events lose what a scan knows.
LEMMA QuietScan ==
  ASSUME TypeOK, LocalsAreSet, RowsInv, [Next]_vars, Quiet,
         pc' = pc, scan' = scan, Queued \subseteq Queued'
  PROVE  ScanKnows'
<1> SUFFICES ASSUME pc = "scanning", scan.path \notin overlooked'
             PROVE  /\ scan.size <= Len(files[scan.path])
                    /\ scan.size = Len(files[scan.path]) \/ scan.path \in Queued'
                    /\ \A i \in 1 .. scan.size :
                         Covered(files[scan.path][i], now', app', scan.update)
  BY DEF ScanKnows, Quiet
<1> USE DEF RowsInv, Quiet
<1>1. scan.path \in Transcripts /\ scan.size \in Nat
  BY DEF LocalsAreSet, ScanRecord
<1>2. /\ scan.size <= Len(files[scan.path])
      /\ scan.size = Len(files[scan.path]) \/ scan.path \in Queued
      /\ \A i \in 1 .. scan.size : Covered(files[scan.path][i], now, app, scan.update)
  BY DEF ScanKnows
<1>3. ASSUME NEW i \in 1 .. scan.size PROVE Covered(files[scan.path][i], now', app', scan.update)
  <2>1. files[scan.path][i] \in Row
    BY <1>1, <1>2 DEF TypeOK
  <2> QED
    BY <1>2, <2>1, SettledStays DEF Covered
<1> QED
  BY <1>2, <1>3

\* A quiet step that keeps every path or event forgets nothing.
LEMMA QuietForgetsNothing ==
  ASSUME TypeOK, LocalsAreSet, RowsInv, [Next]_vars, Quiet,
         paths \cup Queued \subseteq paths' \cup Queued',
         pc' \notin {"startup", "stopped"} => pc \notin {"startup", "stopped"}
  PROVE  NothingForgotten'
<1> SUFFICES ASSUME pc' \notin {"startup", "stopped"},
                    NEW p \in Transcripts \ overlooked', Unnoticed(p)'
             PROVE  p \in paths' \cup Queued'
  BY DEF NothingForgotten
<1>1. Unnoticed(p) /\ p \notin overlooked
  BY QuietKeeps DEF Quiet
<1> QED
  BY <1>1 DEF RowsInv, NothingForgotten

\* The events of an unchanged channel.
LEMMA SameEvents == queue' = queue => Queued' = Queued
  BY DEF Queued

\* An event that is added takes none away.
LEMMA MoreEvents ==
  ASSUME TypeOK, NEW event \in Event, queue' = Append(queue, event)
  PROVE  /\ Queued \subseteq Queued'
         /\ event.kind = "changed" => event.path \in Queued'
<1>1. /\ Len(queue) \in Nat /\ Len(queue') = Len(queue) + 1
      /\ queue'[Len(queue) + 1] = event
      /\ \A i \in 1 .. Len(queue) : queue'[i] = queue[i]
  BY DEF TypeOK
<1>2. ASSUME NEW p \in Queued PROVE p \in Queued'
  <2>1. PICK i \in 1 .. Len(queue) : queue[i].kind = "changed" /\ queue[i].path = p
    BY DEF Queued
  <2>2. i \in 1 .. Len(queue') /\ queue'[i] = queue[i]
    BY <1>1
  <2> QED
    BY <2>1, <2>2 DEF Queued
<1>3. ASSUME event.kind = "changed" PROVE event.path \in Queued'
  <2>1. event.path \in Transcripts
    BY <1>3 DEF Event
  <2>2. Len(queue) + 1 \in 1 .. Len(queue')
    BY <1>1
  <2> QED
    BY <1>1, <1>3, <2>1, <2>2 DEF Queued
<1> QED
  BY <1>2, <1>3

\* The event received is the only one to leave the channel.
LEMMA EventReceived ==
  ASSUME TypeOK, queue # <<>>, queue' = Tail(queue)
  PROVE  \A p \in Queued : p \in Queued' \/ (Head(queue).kind = "changed" /\ Head(queue).path = p)
<1> SUFFICES ASSUME NEW p \in Queued,
                    ~(Head(queue).kind = "changed" /\ Head(queue).path = p)
             PROVE  p \in Queued'
  OBVIOUS
<1>1. /\ Len(queue) \in Nat \ {0} /\ Len(queue') = Len(queue) - 1 /\ Head(queue) = queue[1]
      /\ \A i \in 1 .. Len(queue') : queue'[i] = queue[i + 1]
  BY DEF TypeOK
<1>2. PICK i \in 1 .. Len(queue) : queue[i].kind = "changed" /\ queue[i].path = p
  BY DEF Queued
<1>3. i # 1
  BY <1>1, <1>2
<1>4. i - 1 \in 1 .. Len(queue') /\ queue'[i - 1] = queue[i]
  BY <1>1, <1>3
<1>5. p \in Transcripts
  BY DEF Queued
<1> QED
  BY <1>2, <1>4, <1>5 DEF Queued

-------------------------------------------------------------------------------
(* The monitor's steps.                                                    *)

\* Between the scans: the watcher is created, the lockout looked at, an event
\* awaited, the continue sent.
Between ==
  \/ RootUnavailable \/ CreateWatcherFails
  \/ ReadLockout \/ Decide \/ Wake \/ Disconnected
  \/ BeginExpiry \/ Announce \/ AnnounceRetry \/ \E r \in Outcomes : Resume(r)

\* They keep the paths, of which there are none, and the channel.
LEMMA BetweenKeeps == TypeOK /\ LocalsAreSet /\ RowsInv /\ [Next]_vars /\ Between => RowsInv'
<1> SUFFICES ASSUME TypeOK, LocalsAreSet, RowsInv, [Next]_vars, Between PROVE RowsInv'
  OBVIOUS
<1> USE DEF Between, shared, locals, runner, world, history
<1>1. /\ UNCHANGED <<files, cursor, found, overlooked, queue, paths>>
      /\ pc \notin {"startup", "stopped"}
  BY DEF RootUnavailable, CreateWatcherFails, ReadLockout, Decide, Wake, Disconnected,
         BeginExpiry, Announce, AnnounceRetry, Resume
<1>2. /\ pc' \notin {"startup", "scanning"}
      /\ pc' \in {"watch", "read", "decide", "cooldown", "recv", "stopped"} \cup ExpiryPCs
      /\ pc \in {"watch", "read", "decide", "cooldown", "recv"} \cup ExpiryPCs
      /\ pc' = "watch" => ~watching' /\ queue' = <<>>
  <2>1. CASE RootUnavailable \/ CreateWatcherFails \/ ReadLockout \/ Decide \/ Wake \/ Disconnected
    BY <2>1 DEF RootUnavailable, CreateWatcherFails, ReadLockout, Decide, Wake, Disconnected,
                RowsInv, Before, ExpiryPCs, AttemptPCs
  <2>2. CASE BeginExpiry \/ Announce \/ AnnounceRetry \/ \E r \in Outcomes : Resume(r)
    BY <2>2 DEF BeginExpiry, Announce, AnnounceRetry, Resume, ExpiryPCs, AttemptPCs
  <2> QED
    BY <2>1, <2>2
<1>3. Quiet
  BY <1>1 DEF Quiet
<1>4. NothingForgotten'
  BY <1>1, <1>3, SameEvents, QuietForgetsNothing
<1>5. Before'
  BY <1>1, <1>2, <1>3, QuietKeeps DEF Before, RowsInv
<1>6. NoPaths' /\ Listed' /\ ScanKnows'
  BY <1>1, <1>2 DEF NoPaths, Listed, ScanKnows, RowsInv
<1> QED
  BY <1>3, <1>4, <1>5, <1>6, QuietKeeps DEF RowsInv

\* A new channel loses no event: there was none left when the old one closed.
LEMMA WatcherKeeps == TypeOK /\ LocalsAreSet /\ RowsInv /\ [Next]_vars /\ CreateWatcher => RowsInv'
<1> SUFFICES ASSUME TypeOK, LocalsAreSet, RowsInv, [Next]_vars, CreateWatcher PROVE RowsInv'
  OBVIOUS
<1> USE DEF CreateWatcher, shared, runner, history
<1>1. UNCHANGED <<files, cursor, found, overlooked, paths>> /\ pc = "watch" /\ pc' = "read"
  OBVIOUS
<1>2. queue' = queue
  BY DEF RowsInv, Before
<1>3. Quiet
  BY <1>1 DEF Quiet
<1>4. NothingForgotten'
  BY <1>1, <1>2, <1>3, SameEvents, QuietForgetsNothing
<1>5. Before' /\ NoPaths' /\ Listed' /\ ScanKnows'
  BY <1>1, <1>3, QuietKeeps DEF Before, NoPaths, Listed, ScanKnows, RowsInv
<1> QED
  BY <1>3, <1>4, <1>5, QuietKeeps DEF RowsInv

\* An event that leaves the channel becomes a path.
LEMMA EventsBecomePaths ==
  TypeOK /\ LocalsAreSet /\ RowsInv /\ [Next]_vars /\ (Receive \/ Collect) => RowsInv'
<1> SUFFICES ASSUME TypeOK, LocalsAreSet, RowsInv, [Next]_vars, Receive \/ Collect PROVE RowsInv'
  OBVIOUS
<1> USE DEF Receive, Collect, AfterDebounce, shared, runner, history
<1>1. /\ UNCHANGED <<files, cursor, found, overlooked>>
      /\ pc \in {"recv", "cooldown", "debounce"} /\ pc' \in {"read", "debounce", "defer"}
      /\ queue # <<>> /\ queue' = Tail(queue)
  OBVIOUS
<1>2. Head(queue) \in Event
  BY <1>1 DEF TypeOK
<1>3. paths \subseteq paths' /\ (Head(queue).kind = "changed" => Head(queue).path \in paths')
  BY DEF RowsInv, NoPaths
<1>4. pc' = "read" => paths' = {}
  BY <1>1, <1>2 DEF RowsInv, NoPaths
<1>5. Quiet
  BY <1>1 DEF Quiet
<1>6. NothingForgotten'
  BY <1>1, <1>3, <1>5, EventReceived, QuietForgetsNothing
<1>7. Before' /\ NoPaths' /\ Listed' /\ ScanKnows'
  BY <1>1, <1>4, <1>5, QuietKeeps
     DEF Before, NoPaths, Listed, ScanKnows, RowsInv, ExpiryPCs, AttemptPCs
<1> QED
  BY <1>5, <1>6, <1>7, QuietKeeps DEF RowsInv

\* The paths wait for the end of the window and for quiet output.
LEMMA WaitingKeeps ==
  TypeOK /\ LocalsAreSet /\ RowsInv /\ [Next]_vars /\ (DebounceOver \/ OutputQuiet) => RowsInv'
<1> SUFFICES ASSUME TypeOK, LocalsAreSet, RowsInv, [Next]_vars, DebounceOver \/ OutputQuiet
             PROVE  RowsInv'
  OBVIOUS
<1> USE DEF DebounceOver, OutputQuiet, AfterDebounce, shared, locals, runner, world, history
<1>1. /\ UNCHANGED <<files, cursor, found, overlooked, queue, paths>>
      /\ pc \in {"debounce", "defer"} /\ pc' \in {"read", "defer", "scan"}
      /\ pc' = "read" => paths = {}
  OBVIOUS
<1>2. Quiet
  BY <1>1 DEF Quiet
<1>3. NothingForgotten'
  BY <1>1, <1>2, SameEvents, QuietForgetsNothing
<1>4. Before' /\ NoPaths' /\ Listed' /\ ScanKnows'
  BY <1>1, <1>2, QuietKeeps
     DEF Before, NoPaths, Listed, ScanKnows, RowsInv, ExpiryPCs, AttemptPCs
<1> QED
  BY <1>2, <1>3, <1>4, QuietKeeps DEF RowsInv

\* The scan of a transcript: what it will settle.
LEMMA BeginScanKeeps ==
  ASSUME TypeOK, LocalsAreSet, RowsInv, [Next]_vars, NEW p \in Transcripts, BeginScan(p)
  PROVE  RowsInv'
<1> USE DEF shared, runner, world, history
<1>1. /\ UNCHANGED <<files, cursor, found, overlooked, queue, paths, now, app>>
      /\ pc = "scan" /\ pc' = "scanning" /\ p \in paths
  BY DEF BeginScan
<1>2. Quiet
  BY <1>1 DEF Quiet
<1>3. NothingForgotten'
  BY <1>1, <1>2, SameEvents, QuietForgetsNothing
<1> DEFINE size == Len(files[p])
<1>4. size \in Nat /\ cursor[p] \in 0 .. size /\ files[p] \in Seq(Row) /\ now \in Time
  BY DEF TypeOK, RowsInv, RowsBehind
<1>5. PICK overlap \in 0 .. cursor[p] :
        \E update \in IF size > cursor[p]
                      THEN ScanResult(files[p], cursor[p] - overlap + 1, size, now)
                      ELSE {None} :
          scan' = [path |-> p, size |-> size, update |-> update]
  BY DEF BeginScan
<1>6. /\ scan'.path = p /\ scan'.size = size
      /\ scan'.update \in IF size > cursor[p]
                          THEN ScanResult(files[p], cursor[p] - overlap + 1, size, now)
                          ELSE {None}
  BY <1>5
<1>7. ASSUME NEW i \in 1 .. size, p \notin overlooked
      PROVE  Covered(files[p][i], now, app, scan'.update)
  <2>1. CASE i <= cursor[p]
    <3>1. Covered(files[p][i], now, app, found) /\ found = None
      BY <1>1, <1>4, <1>7, <2>1 DEF RowsInv, RowsBehind, Before
    <3> QED
      BY <3>1 DEF Covered
  <2>2. CASE i > cursor[p] /\ Interpret(files[p][i], now) # None
    <3>1. cursor[p] - overlap + 1 \in Nat \ {0} /\ i \in cursor[p] - overlap + 1 .. size
      BY <1>4, <2>2
    <3>2. scan'.update \in ScanResult(files[p], cursor[p] - overlap + 1, size, now)
      BY <1>4, <1>6, <2>2
    <3>3. scan'.update \in Update /\ files[p][i].time <= scan'.update.time
      BY <1>4, <2>2, <3>1, <3>2, ScanCovers
    <3> QED
      BY <3>3, UpdateAssumption DEF Covered
  <2>3. CASE Interpret(files[p][i], now) = None
    BY <2>3 DEF Covered, Settled
  <2> QED
    BY <1>4, <2>1, <2>2, <2>3
<1>8. ScanKnows'
  BY <1>1, <1>4, <1>6, <1>7 DEF ScanKnows
<1>9. Before' /\ NoPaths' /\ Listed'
  BY <1>1, <1>2, QuietKeeps DEF Before, NoPaths, Listed, RowsInv, ExpiryPCs, AttemptPCs
<1> QED
  BY <1>2, <1>3, <1>8, <1>9, QuietKeeps DEF RowsInv

\* A scan that succeeds settles its transcript.
LEMMA EndScanKeeps == TypeOK /\ LocalsAreSet /\ RowsInv /\ [Next]_vars /\ EndScan => RowsInv'
<1> SUFFICES ASSUME TypeOK, LocalsAreSet, RowsInv, [Next]_vars, EndScan PROVE RowsInv'
  OBVIOUS
<1> USE DEF shared, locals, runner, world, history
<1> DEFINE p == scan.path
<1>1. /\ UNCHANGED <<files, found, overlooked, queue, now, watching>> /\ found = None
      /\ pc = "scanning" /\ pc' \in {"read", "scan"} /\ (pc' = "read" => paths' = {})
      /\ paths' = paths \ {p} /\ cursor' = [cursor EXCEPT ![p] = Len(files[p])]
      /\ scan.size = Len(files[p])
  BY DEF EndScan, AfterScan, RowsInv, Before
<1>2. p \in Transcripts /\ scan.update \in Update \cup {None}
  BY <1>1 DEF LocalsAreSet, ScanRecord
<1>3. \A q \in Transcripts : files[q] \in Seq(Row) /\ cursor[q] \in Nat
  BY DEF TypeOK
<1>4. ASSUME NEW i \in 1 .. Len(files[p]), p \notin overlooked
      PROVE  Settled(files[p][i], now', app')
  <2>1. files[p][i] \in Row
    BY <1>2, <1>3
  <2>2. Covered(files[p][i], now, app, scan.update)
    BY <1>1, <1>4 DEF RowsInv, ScanKnows
  <2>3. CASE Settled(files[p][i], now, app)
    BY <2>1, <2>3, SettledStays
  <2>4. CASE scan.update # None /\ files[p][i].time <= scan.update.time
    <3>1. app' = ApplyLimitUpdate(app, scan.update, TRUE)
      BY <2>4 DEF EndScan
    <3> QED
      BY <1>2, <2>1, <2>4, <3>1, ApplySettles DEF Settled
  <2> QED
    BY <2>2, <2>3, <2>4 DEF Covered
<1>5. RowsBehind'
  <2> SUFFICES ASSUME NEW q \in Transcripts
               PROVE  /\ cursor'[q] <= Len(files[q])
                      /\ q \notin overlooked =>
                           \A i \in 1 .. cursor'[q] : Covered(files[q][i], now', app', found)
    BY <1>1 DEF RowsBehind
  <2>1. CASE q = p
    <3>1. cursor'[q] = Len(files[q])
      BY <1>1, <1>2, <2>1 DEF TypeOK
    <3> QED
      BY <1>3, <1>4, <2>1, <3>1 DEF Covered
  <2>2. CASE q # p
    <3>1. cursor'[q] = cursor[q] /\ cursor[q] <= Len(files[q])
      BY <1>1, <2>2 DEF TypeOK, RowsInv, RowsBehind
    <3>2. ASSUME NEW i \in 1 .. cursor[q], q \notin overlooked
          PROVE  Covered(files[q][i], now', app', found)
      <4>1. files[q][i] \in Row
        BY <1>3, <3>1
      <4>2. Covered(files[q][i], now, app, found)
        BY <3>2 DEF RowsInv, RowsBehind
      <4> QED
        BY <4>1, <4>2, SettledStays DEF Covered
    <3> QED
      BY <3>1, <3>2
  <2> QED
    BY <2>1, <2>2
<1>6. NothingForgotten'
  <2> SUFFICES ASSUME NEW q \in Transcripts \ overlooked', Unnoticed(q)'
               PROVE  q \in paths' \cup Queued'
    BY DEF NothingForgotten
  <2>1. Unnoticed(q) /\ q \in paths \cup Queued /\ q \notin overlooked
    BY <1>1, NothingNew DEF RowsInv, NothingForgotten
  <2>2. q # p
    BY <1>1, <1>4 DEF Unnoticed, Settled
  <2> QED
    BY <1>1, <2>1, <2>2, SameEvents
<1>7. Ordered' /\ Before' /\ NoPaths' /\ Listed' /\ ScanKnows'
  BY <1>1 DEF RowsInv, Ordered, Before, NoPaths, Listed, ScanKnows, ExpiryPCs, AttemptPCs
<1> QED
  BY <1>5, <1>6, <1>7 DEF RowsInv

\* A scan that was overtaken leaves an event behind; one that fails is exempt.
LEMMA GivenUpKeeps ==
  TypeOK /\ LocalsAreSet /\ RowsInv /\ [Next]_vars /\ (ScanChanged \/ ScanFails) => RowsInv'
<1> SUFFICES ASSUME TypeOK, LocalsAreSet, RowsInv, [Next]_vars, ScanChanged \/ ScanFails
             PROVE  RowsInv'
  OBVIOUS
<1> USE DEF ScanChanged, ScanFails, AfterScan, shared, runner, world, history
<1>1. /\ UNCHANGED <<files, found, cursor, queue, now, watching>>
      /\ pc = "scanning" /\ pc' \in {"read", "scan"} /\ (pc' = "read" => paths' = {})
      /\ paths' = paths \ {scan.path} /\ overlooked \subseteq overlooked'
  OBVIOUS
<1>2. Quiet
  BY <1>1 DEF Quiet
<1>3. scan.path \in overlooked' \/ scan.path \in Queued
  BY DEF RowsInv, ScanKnows
<1>4. NothingForgotten'
  <2> SUFFICES ASSUME NEW q \in Transcripts \ overlooked', Unnoticed(q)'
               PROVE  q \in paths' \cup Queued'
    BY DEF NothingForgotten
  <2>1. q \in paths \cup Queued
    BY <1>1, NothingNew DEF RowsInv, NothingForgotten
  <2> QED
    BY <1>1, <1>3, <2>1, SameEvents
<1>5. Before' /\ NoPaths' /\ Listed' /\ ScanKnows'
  BY <1>1, <1>2, QuietKeeps
     DEF RowsInv, Before, NoPaths, Listed, ScanKnows, ExpiryPCs, AttemptPCs
<1> QED
  BY <1>2, <1>4, <1>5, QuietKeeps DEF RowsInv

\* After a continue every transcript will be read from its beginning.
LEMMA SettleKeeps == TypeOK /\ LocalsAreSet /\ RowsInv /\ [Next]_vars /\ Settle => RowsInv'
<1> SUFFICES ASSUME TypeOK, LocalsAreSet, RowsInv, [Next]_vars, Settle PROVE RowsInv'
  OBVIOUS
<1> USE DEF Settle, runner, world, history
<1>1. /\ UNCHANGED <<files, found, overlooked, queue, now, watching, paths>>
      /\ pc = "settle" /\ pc' = "read"
      /\ cursor' = cursor \/ cursor' = [p \in Transcripts |-> 0]
  OBVIOUS
<1>2. RowsBehind'
  <2>1. CASE cursor' = cursor
    BY <1>1, <2>1, QuietKeeps DEF Quiet
  <2>2. CASE cursor' = [p \in Transcripts |-> 0]
    <3>1. \A p \in Transcripts : cursor'[p] = 0 /\ Len(files[p]) \in Nat
      BY <2>2 DEF TypeOK
    <3> QED
      BY <1>1, <3>1 DEF RowsBehind
  <2> QED
    BY <1>1, <2>1, <2>2
<1>3. NothingForgotten'
  <2> SUFFICES ASSUME NEW q \in Transcripts \ overlooked', Unnoticed(q)'
               PROVE  q \in paths' \cup Queued'
    BY DEF NothingForgotten
  <2> QED
    BY <1>1, NothingNew, SameEvents DEF RowsInv, NothingForgotten
<1>4. Ordered' /\ Before' /\ NoPaths' /\ Listed' /\ ScanKnows'
  BY <1>1 DEF RowsInv, Ordered, Before, NoPaths, Listed, ScanKnows, ExpiryPCs, AttemptPCs
<1> QED
  BY <1>2, <1>3, <1>4 DEF RowsInv

\* The startup scan of a transcript.
LEMMA StartupScanKeeps ==
  ASSUME TypeOK, LocalsAreSet, RowsInv, [Next]_vars, NEW p \in Transcripts, StartupScan(p)
  PROVE  RowsInv'
<1> USE DEF runner, world, history
<1> DEFINE rows == files[p]
           Suffix(k) == ScanResult(rows, k, Len(rows), StartTime)
<1>1. /\ UNCHANGED <<files, overlooked, queue, now, watching, app>>
      /\ pc = "startup" /\ pc' = "startup" /\ paths' = paths \ {p}
      /\ cursor' = [cursor EXCEPT ![p] = Len(rows)]
  BY DEF StartupScan
<1>2. \A q \in Transcripts : files[q] \in Seq(Row) /\ cursor[q] \in Nat
  BY DEF TypeOK
<1>3. /\ StartTime \in Time /\ now \in Time /\ StartTime <= now
      /\ found \in Update \cup {None} /\ found' \in Update \cup {None}
  BY BoundsAssumption, TypeStep DEF TypeOK, RowsInv, Before
<1>4. found # None => found' # None /\ found.time <= found'.time
  <2>1. CASE found' = found
    BY <1>3, <2>1 DEF Update
  <2>2. CASE \E k \in 1 .. Len(rows) : \E update \in Suffix(k) :
               update # None /\ found' = SelectNewest(found, update)
    <3>1. PICK k \in 1 .. Len(rows) : \E update \in Suffix(k) :
            update # None /\ found' = SelectNewest(found, update)
      BY <2>2
    <3>2. PICK update \in Suffix(k) : update # None /\ found' = SelectNewest(found, update)
      BY <3>1
    <3>3. update \in Update \cup {None}
      BY <1>2, <1>3, ScanResultType
    <3> QED
      BY <1>3, <3>2, <3>3 DEF SelectNewest, Update
  <2> QED
    BY <2>1, <2>2 DEF StartupScan
<1>5. ASSUME NEW i \in 1 .. Len(rows) PROVE Covered(rows[i], now, app, found')
  <2>1. rows[i] \in Row
    BY <1>2
  <2>2. CASE Interpret(rows[i], StartTime) = None
    BY <1>3, <2>1, <2>2, SilenceStays DEF Covered, Settled
  <2>3. CASE Interpret(rows[i], StartTime) # None
    <3>1. None \notin Suffix(1)
      BY <1>2, <1>3, <2>3, ScanSilence
    <3>2. PICK k \in 1 .. Len(rows) : \E update \in Suffix(k) :
            update # None /\ found' = SelectNewest(found, update)
      BY <3>1 DEF StartupScan
    <3> PICK update \in Suffix(k) : update # None /\ found' = SelectNewest(found, update)
      BY <3>2
    <3>3. rows[i].time <= update.time
      BY <1>2, <1>3, <2>3, <3>2, SuffixCovers DEF RowsInv, Ordered
    <3>4. update \in Update
      BY <1>2, <1>3, <3>2, ScanResultType
    <3>5. found' # None /\ update.time <= found'.time
      BY <1>3, <3>2, <3>4 DEF SelectNewest, Update
    <3>6. rows[i].time \in Nat /\ update.time \in Nat /\ found'.time \in Nat
      BY <1>3, <2>1, <3>4, <3>5 DEF Row, Update
    <3> QED
      BY <3>3, <3>5, <3>6 DEF Covered
  <2> QED
    BY <2>2, <2>3
<1>6. RowsBehind'
  <2> SUFFICES ASSUME NEW q \in Transcripts
               PROVE  /\ cursor'[q] <= Len(files[q])
                      /\ q \notin overlooked =>
                           \A i \in 1 .. cursor'[q] : Covered(files[q][i], now, app, found')
    BY <1>1 DEF RowsBehind
  <2>1. CASE q = p
    <3>1. cursor'[q] = Len(rows) /\ Len(rows) \in Nat
      BY <1>1, <1>2, <2>1 DEF TypeOK
    <3> QED
      BY <1>5, <2>1, <3>1
  <2>2. CASE q # p
    <3>1. cursor'[q] = cursor[q] /\ cursor[q] <= Len(files[q])
      BY <1>1, <2>2 DEF TypeOK, RowsInv, RowsBehind
    <3>2. ASSUME NEW i \in 1 .. cursor[q], q \notin overlooked
          PROVE  Covered(files[q][i], now, app, found')
      <4>1. files[q][i] \in Row /\ Covered(files[q][i], now, app, found)
        BY <1>2, <3>1, <3>2 DEF RowsInv, RowsBehind
      <4>2. CASE Settled(files[q][i], now, app)
        BY <4>2 DEF Covered
      <4>3. CASE found # None /\ files[q][i].time <= found.time
        <5>1. found' # None /\ found.time <= found'.time
          BY <1>4, <4>3
        <5>2. files[q][i].time \in Nat /\ found.time \in Nat /\ found'.time \in Nat
          BY <1>3, <4>1, <4>3, <5>1 DEF Row, Update
        <5> QED
          BY <4>3, <5>1, <5>2 DEF Covered
      <4> QED
        BY <4>1, <4>2, <4>3 DEF Covered
    <3> QED
      BY <3>1, <3>2
  <2> QED
    BY <2>1, <2>2
<1>7. Listed'
  BY <1>1 DEF TypeOK, RowsInv, Listed
<1>8. Ordered' /\ Before' /\ NoPaths' /\ ScanKnows' /\ NothingForgotten'
  BY <1>1 DEF RowsInv, Ordered, Before, NoPaths, ScanKnows, NothingForgotten, ExpiryPCs, AttemptPCs
<1> QED
  BY <1>6, <1>7, <1>8 DEF RowsInv

\* A startup scan that fails exempts its transcript.
LEMMA StartupFailKeeps ==
  ASSUME TypeOK, LocalsAreSet, RowsInv, NEW p \in Transcripts, StartupScanFails(p)
  PROVE  RowsInv'
<1> USE DEF runner
<1>1. /\ UNCHANGED <<files, queue, now, watching, app, found>>
      /\ pc = "startup" /\ pc' = "startup" /\ paths' = paths \ {p}
      /\ cursor' = [cursor EXCEPT ![p] = Len(files[p])] /\ overlooked' = overlooked \cup {p}
  BY DEF StartupScanFails
<1>2. RowsBehind'
  <2>1. \A q \in Transcripts : Len(files[q]) \in Nat
    BY DEF TypeOK
  <2> QED
    BY <1>1, <2>1 DEF RowsBehind, RowsInv, TypeOK
<1>3. Listed'
  BY <1>1 DEF TypeOK, RowsInv, Listed
<1>4. Ordered' /\ Before' /\ NoPaths' /\ ScanKnows' /\ NothingForgotten'
  BY <1>1 DEF RowsInv, Ordered, Before, NoPaths, ScanKnows, NothingForgotten, ExpiryPCs, AttemptPCs
<1> QED
  BY <1>2, <1>3, <1>4 DEF RowsInv

\* What the startup scan found settles all that it has read.
LEMMA StartupApplyKeeps == TypeOK /\ LocalsAreSet /\ RowsInv /\ [Next]_vars /\ StartupApply => RowsInv'
<1> SUFFICES ASSUME TypeOK, LocalsAreSet, RowsInv, [Next]_vars, StartupApply PROVE RowsInv'
  OBVIOUS
<1> USE DEF runner, world
<1>1. /\ UNCHANGED <<files, cursor, overlooked, queue, now, watching, paths>>
      /\ pc = "startup" /\ pc' = "watch" /\ paths = {} /\ found' = None
  BY DEF StartupApply
<1>2. ASSUME NEW row \in Row, Covered(row, now, app, found) PROVE Settled(row, now', app')
  <2>1. CASE Settled(row, now, app)
    BY <2>1, SettledStays
  <2>2. CASE found # None /\ row.time <= found.time
    <3> DEFINE update == IF IsLocked(found) /\ found.target <= now
                         THEN [found EXCEPT !.target = None] ELSE found
    <3>1. app' = ApplyLimitUpdate(app, update, FALSE)
      BY <2>2 DEF StartupApply
    <3>2. update \in Update /\ update.time = found.time
      BY <2>2 DEF TypeOK, Update
    <3> HIDE DEF update
    <3> QED
      BY <2>2, <3>1, <3>2, ApplySettles DEF Settled
  <2> QED
    BY <1>2, <2>1, <2>2 DEF Covered
<1>3. \A p \in Transcripts : \A i \in 1 .. Len(files[p]) : files[p][i] \in Row
  BY DEF TypeOK
<1>4. \A p \in Transcripts : cursor[p] \in Nat /\ Len(files[p]) \in Nat /\ cursor[p] <= Len(files[p])
  BY DEF TypeOK, RowsInv, RowsBehind
<1>5. RowsBehind'
  <2> SUFFICES ASSUME NEW p \in Transcripts \ overlooked, NEW i \in 1 .. cursor[p]
               PROVE  Covered(files[p][i], now', app', None)
    BY <1>1, <1>4 DEF RowsBehind
  <2>1. files[p][i] \in Row /\ Covered(files[p][i], now, app, found)
    BY <1>3, <1>4 DEF RowsInv, RowsBehind
  <2> QED
    BY <1>2, <2>1 DEF Covered
<1>6. NothingForgotten'
  <2> SUFFICES ASSUME NEW p \in Transcripts \ overlooked, Unnoticed(p)' PROVE FALSE
    BY <1>1 DEF NothingForgotten
  <2>1. PICK i \in 1 .. Len(files[p]) : ~Settled(files[p][i], now', app')
    BY <1>1 DEF Unnoticed, Settled
  <2>2. i \in 1 .. cursor[p]
    BY <1>1 DEF RowsInv, Listed
  <2>3. Covered(files[p][i], now, app, found)
    BY <2>2 DEF RowsInv, RowsBehind
  <2> QED
    BY <1>2, <1>3, <2>1, <2>3
<1>7. Ordered' /\ Before' /\ NoPaths' /\ Listed' /\ ScanKnows'
  BY <1>1 DEF RowsInv, Ordered, Before, NoPaths, Listed, ScanKnows, ExpiryPCs, AttemptPCs
<1> QED
  BY <1>5, <1>6, <1>7 DEF RowsInv

-------------------------------------------------------------------------------
(* The other tasks and the world.                                          *)

\* Whatever adds nothing to a transcript keeps the rows where they are.
Elsewhere ==
  \/ Reporter \/ Tick \/ ChildOutput \/ GoQuiet \/ WatcherDies
  \/ \E kind \in {"other", "error"} : WatcherNoise(kind)

\* The runner, the clock, the output and the watcher lose no event.
LEMMA ElsewhereKeeps == TypeOK /\ LocalsAreSet /\ RowsInv /\ [Next]_vars /\ Elsewhere => RowsInv'
<1> SUFFICES ASSUME TypeOK, LocalsAreSet, RowsInv, [Next]_vars, Elsewhere PROVE RowsInv'
  OBVIOUS
<1> USE DEF shared, locals, runner, world, history
<1>1. /\ UNCHANGED <<files, cursor, found, overlooked, pc, paths, scan>>
      /\ Queued \subseteq Queued'
      /\ ~watching => ~watching' /\ queue' = queue
  <2>1. CASE Reporter \/ Tick \/ ChildOutput \/ GoQuiet \/ WatcherDies
    <3>1. UNCHANGED <<files, cursor, found, overlooked, pc, paths, scan, queue>>
      BY <2>1 DEF Reporter, ReportParse, ReportApply, Tick, ChildOutput, GoQuiet, WatcherDies
    <3>2. watching' = watching \/ watching
      BY <2>1, Zenon DEF Reporter, ReportParse, ReportApply, Tick, ChildOutput, GoQuiet, WatcherDies
    <3>3. ~watching => ~watching'
      BY <3>2, Zenon
    <3>4. Queued' = Queued
      BY <3>1, SameEvents
    <3> QED
      BY <3>1, <3>3, <3>4
  <2>2. ASSUME NEW kind \in {"other", "error"}, WatcherNoise(kind)
        PROVE  UNCHANGED <<files, cursor, found, overlooked, pc, paths, scan>>
               /\ Queued \subseteq Queued' /\ watching
    <3>1. [kind |-> kind, path |-> None] \in Event
      BY DEF Event
    <3> QED
      BY <2>2, <3>1, MoreEvents DEF WatcherNoise
  <2> QED
    BY <2>1, <2>2 DEF Elsewhere
<1>2. Quiet
  BY <1>1 DEF Quiet
<1>3. NothingForgotten' /\ ScanKnows'
  BY <1>1, <1>2, QuietForgetsNothing, QuietScan
<1>4. Before' /\ NoPaths' /\ Listed'
  BY <1>1, <1>2, QuietKeeps DEF Before, NoPaths, Listed, RowsInv
<1> QED
  BY <1>2, <1>3, <1>4, QuietKeeps DEF RowsInv

\* A row that is written has an event, a scan to come, or an excuse.
LEMMA WriteKeeps ==
  ASSUME TypeOK, LocalsAreSet, RowsInv, NEW p \in Transcripts, NEW row \in Rows, WriteRow(p, row)
  PROVE  RowsInv'
<1> USE DEF shared, locals, runner
<1>1. /\ UNCHANGED <<app, cursor, found, pc, paths, scan, now, watching>>
      /\ files' = [files EXCEPT ![p] = Append(files[p], row)]
      /\ \A i \in 1 .. Len(files[p]) : files[p][i].time <= row.time
      /\ overlooked \subseteq overlooked' /\ overlooked' \subseteq overlooked \cup {p}
  BY DEF WriteRow
<1>2. /\ Queued \subseteq Queued'
      /\ p \in overlooked' \/ p \in Queued' \/ (p \in paths /\ pc # "scanning")
      /\ ~watching => queue' = queue
  <2>1. CASE watching
    <3>1. [kind |-> "changed", path |-> p] \in Event
      BY PathAssumption DEF Event
    <3> QED
      BY <2>1, <3>1, MoreEvents DEF WriteRow
  <2>2. CASE ~watching
    BY <2>2, SameEvents DEF WriteRow
  <2> QED
    BY <2>1, <2>2
<1>3. /\ \A q \in Transcripts : files[q] \in Seq(Row) /\ Len(files[q]) \in Nat /\ cursor[q] \in Nat
      /\ row \in Row /\ row.time \in Nat
  <2>1. row \in Row
    BY RowsAssumption
  <2>2. row.time \in Nat
    BY <2>1 DEF Row
  <2> QED
    BY <2>1, <2>2 DEF TypeOK
<1>4. /\ Len(files'[p]) = Len(files[p]) + 1 /\ files'[p][Len(files[p]) + 1] = row
      /\ \A i \in 1 .. Len(files[p]) : files'[p][i] = files[p][i]
      /\ \A q \in Transcripts : q # p => files'[q] = files[q]
  BY <1>1, <1>3 DEF TypeOK
<1>5. ASSUME NEW q \in Transcripts
      PROVE  /\ Len(files[q]) <= Len(files'[q])
             /\ \A i \in 1 .. Len(files[q]) : files'[q][i] = files[q][i]
  BY <1>3, <1>4
<1>6. Ordered'
  <2> SUFFICES ASSUME NEW q \in Transcripts, NEW i \in 1 .. Len(files'[q]),
                      NEW j \in 1 .. Len(files'[q]), i < j
               PROVE  files'[q][i].time <= files'[q][j].time
    BY DEF Ordered
  <2>1. CASE q # p
    BY <1>4, <2>1 DEF RowsInv, Ordered
  <2>2. CASE q = p /\ j = Len(files[p]) + 1
    BY <1>1, <1>3, <1>4, <2>2
  <2>3. CASE q = p /\ j # Len(files[p]) + 1
    <3>1. i \in 1 .. Len(files[p]) /\ j \in 1 .. Len(files[p])
      BY <1>3, <1>4, <2>3
    <3> QED
      BY <1>4, <2>3, <3>1 DEF RowsInv, Ordered
  <2> QED
    BY <2>1, <2>2, <2>3
<1>7. RowsBehind'
  <2> SUFFICES ASSUME NEW q \in Transcripts
               PROVE  /\ cursor[q] <= Len(files'[q])
                      /\ q \notin overlooked' =>
                           \A i \in 1 .. cursor[q] : Covered(files'[q][i], now, app, found)
    BY <1>1 DEF RowsBehind
  <2>1. cursor[q] <= Len(files[q])
    BY DEF RowsInv, RowsBehind
  <2>2. cursor[q] <= Len(files'[q])
    <3>1. Len(files'[q]) \in Nat
      BY <1>3, <1>4
    <3> QED
      BY <1>3, <1>5, <2>1, <3>1
  <2>3. ASSUME NEW i \in 1 .. cursor[q], q \notin overlooked'
        PROVE  Covered(files'[q][i], now, app, found)
    <3>1. files'[q][i] = files[q][i]
      BY <1>3, <1>5, <2>1
    <3> QED
      BY <1>1, <2>3, <3>1 DEF RowsInv, RowsBehind
  <2> QED
    BY <2>2, <2>3
<1>8. ScanKnows'
  <2> DEFINE s == scan.path
  <2> SUFFICES ASSUME pc = "scanning", s \notin overlooked'
               PROVE  /\ scan.size <= Len(files'[s])
                      /\ scan.size = Len(files'[s]) \/ s \in Queued'
                      /\ \A i \in 1 .. scan.size : Covered(files'[s][i], now, app, scan.update)
    BY <1>1 DEF ScanKnows
  <2>1. s \in Transcripts /\ scan.size \in Nat
    BY DEF LocalsAreSet, ScanRecord
  <2>2. /\ scan.size <= Len(files[s])
        /\ scan.size = Len(files[s]) \/ s \in Queued
        /\ \A i \in 1 .. scan.size : Covered(files[s][i], now, app, scan.update)
    BY <1>1 DEF RowsInv, ScanKnows
  <2>3. CASE s # p
    BY <1>2, <1>4, <2>1, <2>2, <2>3
  <2>4. CASE s = p
    <3>1. \A i \in 1 .. scan.size : files'[s][i] = files[s][i]
      BY <1>3, <1>5, <2>1, <2>2
    <3>2. scan.size <= Len(files'[s])
      BY <1>3, <1>4, <2>1, <2>2, <2>4
    <3> QED
      BY <1>2, <2>2, <2>4, <3>1, <3>2
  <2> QED
    BY <2>3, <2>4
<1>9. NothingForgotten'
  <2> SUFFICES ASSUME pc \notin {"startup", "stopped"},
                      NEW q \in Transcripts \ overlooked', Unnoticed(q)'
               PROVE  q \in paths \cup Queued'
    BY <1>1 DEF NothingForgotten
  <2>1. CASE q = p
    BY <1>2, <2>1
  <2>2. CASE q # p
    <3>1. Unnoticed(q)
      BY <1>1, <1>4, <2>2 DEF Unnoticed
    <3> QED
      BY <1>1, <1>2, <3>1 DEF RowsInv, NothingForgotten
  <2> QED
    BY <2>1, <2>2
<1>10. Listed'
  <2> SUFFICES ASSUME pc = "startup", NEW q \in Transcripts \ (overlooked' \cup paths)
               PROVE  cursor[q] = Len(files'[q])
    BY <1>1 DEF Listed
  <2>1. ~watching /\ queue = <<>>
    BY DEF RowsInv, Before
  <2>2. q # p
    BY <2>1 DEF WriteRow
  <2> QED
    BY <1>1, <1>4, <2>2 DEF RowsInv, Listed
<1>11. Before' /\ NoPaths'
  BY <1>1, <1>2 DEF RowsInv, Before, NoPaths
<1> QED
  BY <1>6, <1>7, <1>8, <1>9, <1>10, <1>11 DEF RowsInv

-------------------------------------------------------------------------------
(* The invariant.                                                          *)

\* At the beginning there is no row.
LEMMA RowsInit == Init => RowsInv
<1> SUFFICES ASSUME Init PROVE RowsInv
  OBVIOUS
<1>1. \A p \in Transcripts : Len(files[p]) = 0 /\ cursor[p] = 0
  BY DEF Init
<1>2. Ordered /\ RowsBehind /\ Listed
  BY <1>1 DEF Ordered, RowsBehind, Listed
<1>3. Before /\ NoPaths /\ ScanKnows /\ NothingForgotten
  BY BoundsAssumption DEF Init, Before, NoPaths, ScanKnows, NothingForgotten, ExpiryPCs, AttemptPCs
<1> QED
  BY <1>2, <1>3 DEF RowsInv

\* Every step keeps what is known of the rows.
LEMMA RowsStep == TypeOK /\ LocalsAreSet /\ RowsInv /\ [Next]_vars => RowsInv'
<1> SUFFICES ASSUME TypeOK, LocalsAreSet, RowsInv, [Next]_vars PROVE RowsInv'
  OBVIOUS
<1>1. CASE UNCHANGED vars
  <2>1. Quiet /\ Queued' = Queued /\ UNCHANGED <<pc, paths, scan, watching, queue>>
    BY <1>1 DEF vars, Quiet, Queued, shared, locals, world, history
  <2>2. NothingForgotten' /\ ScanKnows'
    BY <2>1, QuietForgetsNothing, QuietScan
  <2>3. found' = found /\ cursor' = cursor /\ files' = files /\ overlooked' = overlooked
    BY <1>1 DEF vars, shared, locals, world, history
  <2>4. Before' /\ NoPaths' /\ Listed'
    BY <2>1, <2>3, QuietKeeps DEF Before, NoPaths, Listed, RowsInv
  <2> QED
    BY <2>1, <2>2, <2>4, QuietKeeps DEF RowsInv
<1>2. CASE Startup
  BY <1>2, StartupScanKeeps, StartupFailKeeps, StartupApplyKeeps DEF Startup
<1>3. CASE Watch
  BY <1>3, BetweenKeeps, WatcherKeeps DEF Watch, Between
<1>4. CASE Loop
  BY <1>4, BetweenKeeps, EventsBecomePaths DEF Loop, Between
<1>5. CASE Scan
  BY <1>5, EventsBecomePaths, WaitingKeeps, BeginScanKeeps, EndScanKeeps, GivenUpKeeps DEF Scan
<1>6. CASE Expiry
  BY <1>6, BetweenKeeps, SettleKeeps DEF Expiry, Between
<1>7. CASE Reporter
  BY <1>7, ElsewhereKeeps DEF Elsewhere
<1>8. CASE Environment
  BY <1>8, ElsewhereKeeps, WriteKeeps DEF Environment, Elsewhere
<1> QED
  BY <1>1, <1>2, <1>3, <1>4, <1>5, <1>6, <1>7, <1>8 DEF Next, Monitor

\* What is known of the rows holds in every reachable state.
THEOREM RowsInvariantHolds == Spec => []RowsInv
<1>1. Init => TypeOK /\ LocalsAreSet /\ RowsInv
  BY TypeInit, LocalsInit, RowsInit
<1> QED
  BY <1>1, TypeStep, RowsStep, PTL DEF Spec

\* However scans are deferred, overtaken or repeated, a transcript with a row
\* that the state does not account for is waiting to be scanned or has an event
\* in the channel (debounce_events, scan_one_path, initial_scan_from).
THEOREM NoRowIsForgotten == Spec => []NothingForgotten
<1>1. RowsInv => NothingForgotten
  BY DEF RowsInv
<1> QED
  BY <1>1, RowsInvariantHolds, PTL

-------------------------------------------------------------------------------
(* The monitor and the runner.                                             *)

\* From the child's end on it runs no more, and once its output is drained
\* none of it is left.
Ended ==
  /\ rpc \notin {"running", "done"} => child # "running"
  /\ rpc \in {"spawn", "try", "subscribe", "await"} => OutputDrained

\* What the present child's output reported.
ToldInv ==
  /\ startRev <= app.revision
  /\ reported # None => IsLocked(reported)
  /\ accepted /\ rpc # "done" =>
       /\ reported # None
       /\ app.watermark # None /\ reported.time <= app.watermark
       /\ startRev < app.revision
  /\ accepted /\ rpc = "try" /\ ~pending =>
       app.target = None \/ reported.time < app.watermark

\* The monitor keeps all that it promises under every runner.
SessionInv == Core /\ SessionTypeOK /\ Ended /\ ToldInv

-------------------------------------------------------------------------------
(* The steps of the session, seen from the monitor.                        *)

\* A fault of the runner, counted with those of the monitor's world.
OnlyFault ==
  /\ faults' = faults + 1
  /\ UNCHANGED <<shared, pc, locals, runner, now, files, queue, watching, history>>

\* Every step is one of the monitor's specification, but for the runner's faults.
LEMMA MonitorSees ==
  ASSUME SessionTypeOK, [SessionNext]_sessionVars
  PROVE  [Next]_vars \/ OnlyFault
<1>1. CASE MonitorStep
  BY <1>1 DEF MonitorStep, Next, Monitor, Expiry
<1>2. CASE SendContinue \/ SendFails
  <2>1. PICK r \in Outcomes : Resume(r)
    BY <1>2, SinkAssumption DEF SendContinue, SendFails
  <2> QED
    BY <2>1 DEF Next, Monitor, Expiry
<1>3. CASE ParseSession
  BY <1>3 DEF ParseSession
<1>4. CASE ParseLimit
  <2>1. Head(lines) \in Line /\ Head(lines).row # None
    BY <1>4 DEF ParseLimit, SessionTypeOK
  <2>2. Head(lines).row \in Rows
    BY <2>1 DEF Line
  <2>3. ReportParse(Head(lines).row)
    BY <1>4 DEF ParseLimit
  <2> QED
    BY <2>2, <2>3 DEF Next, Reporter
<1>5. CASE RecordLimit
  BY <1>5 DEF RecordLimit, Next, Reporter
<1>6. CASE DropLine \/ RunnerFails \/ KillFails
  BY <1>6 DEF DropLine, RunnerFails, KillFails, Fail, OnlyFault
<1>7. CASE RunnerStep
  BY <1>7 DEF RunnerStep, Spawn, ChildWaited, KillForRestart, DrainedForRestart, DrainedAfterExit,
              TryReceive, Subscribe, AwaitContinue, AwaitClosed, AwaitStatus
<1>8. CASE ChildExits
  BY <1>8 DEF ChildExits
<1>9. CASE WorldStep
  BY <1>9 DEF WorldStep, Next, Environment
<1>10. ASSUME NEW line, ChildWrites(line) PROVE UNCHANGED vars
  BY <1>10 DEF ChildWrites
<1>11. CASE UNCHANGED sessionVars
  BY <1>11 DEF sessionVars
<1> QED
  BY <1>1, <1>2, <1>3, <1>4, <1>5, <1>6, <1>7, <1>8, <1>9, <1>10, <1>11 DEF SessionNext, ParserStep

\* So the monitor's own invariant is kept.
LEMMA CoreStays == Core /\ SessionTypeOK /\ [SessionNext]_sessionVars => Core'
<1> SUFFICES ASSUME Core, SessionTypeOK, [SessionNext]_sessionVars PROVE Core'
  OBVIOUS
<1>1. CASE OnlyFault
  <2>1. faults' \in Nat
    BY <1>1 DEF OnlyFault, Core, TypeOK
  <2>2. TypeOK'
    BY <1>1, <2>1 DEF OnlyFault, Core, TypeOK, shared, locals, runner, history
  <2> QED
    BY <1>1, <2>2 DEF OnlyFault, Core, LocalsAreSet, StatusMatchesLockout, ExhaustionIsCurrent,
       NotExhaustedMeanwhile, RevisionTells, shared, locals, runner, history
<1> QED
  BY <1>1, MonitorSees, CoreStep

\* The update the parser holds changes only as the parser moves.
LEMMA ReportIsTheParsers ==
  ASSUME [SessionNext]_sessionVars, ~ParseLimit, ~RecordLimit
  PROVE  report' = report
<1> USE DEF shared, locals, runner, world, history
<1>1. CASE MonitorStep
  <2>1. CASE Startup
    BY <2>1 DEF Startup, StartupScan, StartupScanFails, StartupApply
  <2>2. CASE Watch
    BY <2>2 DEF Watch, RootUnavailable, CreateWatcher, CreateWatcherFails
  <2>3. CASE Loop
    BY <2>3 DEF Loop, ReadLockout, Decide, Wake, Receive, Disconnected
  <2>4. CASE Scan
    BY <2>4 DEF Scan, Collect, DebounceOver, OutputQuiet, BeginScan, EndScan, ScanChanged, ScanFails
  <2>5. CASE BeginExpiry \/ Announce \/ AnnounceRetry \/ Settle
    BY <2>5 DEF BeginExpiry, Announce, AnnounceRetry, Settle
  <2> QED
    BY <1>1, <2>1, <2>2, <2>3, <2>4, <2>5 DEF MonitorStep
<1>2. CASE SendContinue \/ SendFails
  BY <1>2 DEF SendContinue, SendFails, Resume
<1>3. CASE ParseSession \/ DropLine \/ RunnerFails \/ KillFails
  BY <1>3 DEF ParseSession, DropLine, RunnerFails, KillFails, Fail, vars
<1>4. CASE RunnerStep
  BY <1>4 DEF RunnerStep, Spawn, ChildWaited, KillForRestart, DrainedForRestart, DrainedAfterExit,
              TryReceive, Subscribe, AwaitContinue, AwaitClosed, AwaitStatus, vars
<1>5. CASE ChildExits \/ \E line : ChildWrites(line)
  BY <1>5 DEF ChildExits, ChildWrites, vars
<1>6. CASE WorldStep
  BY <1>6 DEF WorldStep, Tick, ChildOutput, GoQuiet, WatcherDies, WriteRow, WatcherNoise
<1>7. CASE UNCHANGED sessionVars
  BY <1>7 DEF sessionVars, vars
<1> QED
  BY <1>1, <1>2, <1>3, <1>4, <1>5, <1>6, <1>7 DEF SessionNext, ParserStep

-------------------------------------------------------------------------------
(* Types and the order of a child's life.                                  *)

\* The runner's own steps keep its types.
LEMMA RunnerTypes ==
  ASSUME TypeOK, SessionTypeOK, RunnerStep \/ RunnerFails \/ KillFails
  PROVE  SessionTypeOK'
<1> USE DEF SessionTypeOK, RunnerPCs, Results, process, output, told, OutputDrained
<1>1. app.revision \in Revision
  BY DEF TypeOK, AppStates
<1>2. CASE Spawn
  BY <1>1, <1>2 DEF Spawn
<1>3. CASE ChildWaited \/ KillForRestart \/ DrainedForRestart
  BY <1>3 DEF ChildWaited, KillForRestart, DrainedForRestart, Restart
<1>4. CASE DrainedAfterExit
  <2>1. pending' \in BOOLEAN
    BY <1>4 DEF DrainedAfterExit
  <2> QED
    BY <1>4, <2>1 DEF DrainedAfterExit
<1>5. CASE TryReceive
  <2>1. resumes' \in Nat
    BY <1>5 DEF TryReceive
  <2>2. rpc' \in RunnerPCs /\ result' \in Results
    BY <1>5 DEF TryReceive, Restart, Exit
  <2> QED
    BY <1>5, <2>1, <2>2 DEF TryReceive
<1>6. CASE Subscribe
  <2>1. rpc' \in RunnerPCs /\ result' \in Results
    BY <1>6 DEF Subscribe, Exit
  <2> QED
    BY <1>6, <2>1 DEF Subscribe
<1>7. CASE AwaitContinue \/ AwaitClosed
  BY <1>7 DEF AwaitContinue, AwaitClosed, Restart, Exit
<1>8. CASE AwaitStatus
  <2>1. rpc' \in RunnerPCs /\ result' \in Results
    BY <1>8 DEF AwaitStatus, Exit
  <2> QED
    BY <1>8, <2>1 DEF AwaitStatus
<1>9. CASE RunnerFails \/ KillFails
  BY <1>9 DEF RunnerFails, KillFails, Fail
<1> QED
  BY <1>2, <1>3, <1>4, <1>5, <1>6, <1>7, <1>8, <1>9 DEF RunnerStep

\* So do the other steps.
LEMMA SessionTypes == Core /\ SessionTypeOK /\ [SessionNext]_sessionVars => SessionTypeOK'
<1> SUFFICES ASSUME Core, SessionTypeOK, [SessionNext]_sessionVars PROVE SessionTypeOK'
  OBVIOUS
<1>1. TypeOK
  BY DEF Core
<1> USE DEF SessionTypeOK, process, output, told, own
<1>2. ASSUME Published PROVE unseen' \in BOOLEAN
  BY <1>2 DEF Published
<1>3. CASE MonitorStep
  BY <1>2, <1>3 DEF MonitorStep
<1>4. CASE SendContinue \/ SendFails
  BY <1>4 DEF SendContinue, SendFails
<1>5. CASE ParseSession \/ ParseLimit \/ DropLine
  <2>1. Tail(lines) \in Seq(Line) /\ lines' = Tail(lines)
    BY <1>5 DEF ParseSession, ParseLimit, DropLine
  <2>2. session' \in BOOLEAN
    <3>1. CASE ParseLimit
      <4>1. session' = (session \/ Head(lines).session)
        BY <3>1 DEF ParseLimit
      <4>2. Head(lines) \in Line
        BY <3>1 DEF ParseLimit
      <4>3. Head(lines).session \in BOOLEAN
        BY <4>2 DEF Line
      <4> QED
        BY <4>1, <4>3, Zenon
    <3> QED
      BY <1>5, <3>1 DEF ParseSession, DropLine
  <2> QED
    BY <1>5, <2>1, <2>2 DEF ParseSession, ParseLimit, DropLine
<1>6. CASE RecordLimit
  <2>1. reported' \in Update \cup {None}
    BY <1>1, <1>6 DEF RecordLimit, ReportApply, TypeOK
  <2>2. accepted' \in BOOLEAN
    BY <1>6, Zenon DEF RecordLimit, IsNews
  <2> QED
    BY <1>2, <1>6, <2>1, <2>2 DEF RecordLimit
<1>7. CASE RunnerStep \/ RunnerFails \/ KillFails
  BY <1>1, <1>7, RunnerTypes
<1>8. ASSUME NEW sid \in BOOLEAN, NEW row \in Rows \cup {None}, sid \/ row # None,
             ChildWrites([session |-> sid, row |-> row])
      PROVE  SessionTypeOK'
  <2>1. [session |-> sid, row |-> row] \in Line
    BY <1>8 DEF Line
  <2> QED
    BY <1>8, <2>1 DEF ChildWrites
<1>9. CASE ChildExits \/ WorldStep
  BY <1>9 DEF ChildExits, WorldStep
<1>10. CASE UNCHANGED sessionVars
  BY <1>10 DEF sessionVars
<1> QED
  BY <1>3, <1>4, <1>5, <1>6, <1>7, <1>8, <1>9, <1>10 DEF SessionNext, ParserStep

\* A child that has ended writes no more, and what it wrote is drained before
\* the runner goes on.
LEMMA EndedStays == SessionTypeOK /\ Ended /\ [SessionNext]_sessionVars => Ended'
<1> SUFFICES ASSUME SessionTypeOK, Ended, [SessionNext]_sessionVars PROVE Ended'
  OBVIOUS
<1> USE DEF Ended, OutputDrained, process, output, told, own
<1>1. CASE MonitorStep \/ SendContinue \/ SendFails \/ WorldStep
  <2>1. UNCHANGED <<rpc, child, lines>>
    BY <1>1 DEF MonitorStep, SendContinue, SendFails, WorldStep
  <2>2. report = None => report' = None
    <3>1. CASE ParseLimit
      <4>1. lines \in Seq(Line) /\ lines # <<>> /\ lines' = Tail(lines)
        BY <3>1 DEF ParseLimit, SessionTypeOK
      <4>2. Len(Tail(lines)) # Len(lines)
        BY <4>1
      <4> QED
        BY <2>1, <4>1, <4>2
    <3>2. CASE RecordLimit
      BY <3>2 DEF RecordLimit, ReportApply
    <3> QED
      BY <3>1, <3>2, ReportIsTheParsers
  <2> QED
    BY <2>1, <2>2
<1>2. CASE ParseSession \/ ParseLimit
  BY <1>2 DEF ParseSession, ParseLimit
<1>3. CASE RecordLimit
  BY <1>3 DEF RecordLimit, ReportApply
<1>4. CASE DropLine
  BY <1>4 DEF DropLine, runner
<1>5. CASE RunnerStep
  BY <1>5 DEF RunnerStep, Spawn, ChildWaited, KillForRestart, DrainedForRestart, DrainedAfterExit,
              TryReceive, Subscribe, AwaitContinue, AwaitClosed, AwaitStatus, Restart, Exit, vars, runner
<1>6. CASE RunnerFails \/ KillFails
  BY <1>6 DEF RunnerFails, KillFails, Fail
<1>7. CASE ChildExits \/ \E line : ChildWrites(line)
  BY <1>7 DEF ChildExits, ChildWrites, vars, runner
<1>8. CASE UNCHANGED sessionVars
  BY <1>8 DEF sessionVars, vars, runner
<1> QED
  BY <1>1, <1>2, <1>3, <1>4, <1>5, <1>6, <1>7, <1>8 DEF SessionNext, ParserStep

-------------------------------------------------------------------------------
(* The limit the child reported.                                           *)

\* The revision never falls, the watermark neither, and a lockout is set only by
\* an event later than the watermark.
LEMMA LimitsMoveOn ==
  ASSUME Core, SessionTypeOK, [SessionNext]_sessionVars
  PROVE  /\ app.revision \in Nat /\ app'.revision \in Nat /\ app.revision <= app'.revision
         /\ app'.watermark = app.watermark \/ Later(app'.watermark, app.watermark)
         /\ app'.watermark = app.watermark => app'.target \in {app.target, None}
<1> USE DEF Core
<1>1. CASE OnlyFault
  BY <1>1 DEF OnlyFault, shared, TypeOK, AppStates
<1>2. CASE [Next]_vars
  <2>1. app.revision \in Nat /\ app'.revision \in Nat /\ app.revision <= app'.revision
    BY <1>2, RevisionGrows
  <2>2. CASE app' = app
    BY <2>1, <2>2
  <2>3. CASE AppliesStep
    <3>1. PICK update \in Update, live \in BOOLEAN : Applies(update, live)
      BY <2>3 DEF AppliesStep
    <3>2. app' = app \/ Later(app'.watermark, app.watermark)
      BY <3>1, ApplyEffect
    <3>3. Later(app'.watermark, app.watermark) => app'.watermark # app.watermark
      BY CoreStays DEF Later, TypeOK, AppStates
    <3> QED
      BY <2>1, <3>2, <3>3
  <2>4. CASE PublishStep
    BY <2>1, <2>4, PublishEffect
  <2>5. CASE Settle
    BY <2>1, <2>5, SettleEffect
  <2> QED
    BY <1>2, <2>2, <2>3, <2>4, <2>5, AppSteps
<1> QED
  BY <1>1, <1>2, MonitorSees

\* While what was reported stays the same and the runner does not move, what is
\* known of it stays true.
LEMMA ToldStaysTrue ==
  ASSUME Core, SessionTypeOK, ToldInv, [SessionNext]_sessionVars,
         UNCHANGED <<startRev, pending, told>>,
         accepted /\ rpc' # "done" => rpc # "done",
         rpc' = "try" => rpc = "try"
  PROVE  ToldInv'
<1> USE DEF told
<1>1. startRev \in Nat /\ accepted \in BOOLEAN /\ (reported # None => reported.time \in Nat)
  BY DEF SessionTypeOK, Update
<1>2. /\ app.watermark # None => app.watermark \in Nat
      /\ app'.watermark # None => app'.watermark \in Nat
  BY CoreStays DEF Core, TypeOK, AppStates
<1>3. startRev' <= app'.revision /\ (startRev < app.revision => startRev' < app'.revision)
  BY <1>1, LimitsMoveOn DEF ToldInv
<1>4. reported' # None => IsLocked(reported')
  BY DEF ToldInv
<1>5. ASSUME accepted', rpc' # "done"
      PROVE  /\ reported # None
             /\ app'.watermark # None /\ reported.time <= app'.watermark
             /\ startRev' < app'.revision
  BY <1>1, <1>2, <1>3, <1>5, LimitsMoveOn DEF ToldInv, Later
<1>6. ASSUME accepted', rpc' = "try", ~pending'
      PROVE  app'.target = None \/ reported.time < app'.watermark
  <2>1. /\ reported # None /\ app.watermark # None /\ reported.time <= app.watermark
        /\ app.target = None \/ reported.time < app.watermark
    BY <1>6 DEF ToldInv
  <2>2. CASE app'.watermark = app.watermark
    BY <1>1, <1>2, <2>1, <2>2, LimitsMoveOn
  <2>3. CASE Later(app'.watermark, app.watermark)
    BY <1>1, <1>2, <2>1, <2>3 DEF Later
  <2> QED
    BY <2>2, <2>3, LimitsMoveOn
<1> QED
  BY <1>3, <1>4, <1>5, <1>6 DEF ToldInv

\* The news that is recorded is remembered with its time.
LEMMA RecordingIsTold ==
  ASSUME Core, SessionTypeOK, Ended, ToldInv, RecordLimit
  PROVE  ToldInv'
<1>1. [SessionNext]_sessionVars
  BY DEF SessionNext, ParserStep
<1>2. report \in Update /\ Applies(report, TRUE) /\ UNCHANGED <<rpc, startRev, pending>>
  BY DEF RecordLimit, ReportApply, Applies, Core, TypeOK, process
<1>3. CASE UNCHANGED told
  BY <1>1, <1>2, <1>3, ToldStaysTrue
<1>4. CASE IsLocked(report) /\ reported' = report /\ accepted' = IsNews(app, report)
  <2>1. startRev \in Nat /\ startRev' <= app'.revision
    BY <1>1, <1>2, LimitsMoveOn DEF SessionTypeOK, ToldInv
  <2>2. rpc \notin {"spawn", "try"}
    BY DEF Ended, OutputDrained, RecordLimit, ReportApply
  <2>3. ASSUME accepted'
        PROVE  app'.watermark = report.time /\ app'.revision = app.revision + 1
    <3>1. IsNews(app, report)
      BY <1>4, <2>3
    <3>2. app' = Accept(app, report, TRUE)
      BY <1>2, <3>1 DEF Applies, ApplyLimitUpdate
    <3> QED
      BY <3>2 DEF Accept
  <2>4. startRev <= app.revision /\ app.revision \in Nat
    BY <1>1, LimitsMoveOn DEF ToldInv
  <2>5. report # None /\ report.time \in Nat /\ report.time # None
    BY <1>2, NoneAssumption DEF RecordLimit, ReportApply, Update
  <2>6. accepted' => /\ reported' # None
                     /\ app'.watermark # None /\ reported'.time <= app'.watermark
                     /\ startRev' < app'.revision
    BY <1>2, <1>4, <2>1, <2>3, <2>4, <2>5
  <2> QED
    BY <1>2, <1>4, <2>1, <2>2, <2>6 DEF ToldInv
<1> QED
  BY <1>3, <1>4 DEF RecordLimit

\* Every step keeps what is known of the reported limit.
LEMMA ToldStays ==
  Core /\ SessionTypeOK /\ Ended /\ ToldInv /\ [SessionNext]_sessionVars => ToldInv'
<1> SUFFICES ASSUME Core, SessionTypeOK, Ended, ToldInv, [SessionNext]_sessionVars PROVE ToldInv'
  OBVIOUS
<1> USE DEF process, output, told, own
<1>1. CASE RecordLimit
  BY <1>1, RecordingIsTold
<1>2. CASE Spawn
  <2>1. app' = app /\ startRev' = app.revision /\ ~accepted' /\ reported' = None
    BY <1>2 DEF Spawn, vars, shared
  <2>2. app.revision \in Nat
    BY LimitsMoveOn
  <2> QED
    BY <2>1, <2>2 DEF ToldInv
<1>3. CASE DrainedAfterExit
  <2>1. /\ app' = app /\ rpc = "draining" /\ rpc' = "try"
        /\ UNCHANGED <<startRev, reported, accepted>>
        /\ pending' = (app.revision # startRev /\ app.target # None)
    BY <1>3 DEF DrainedAfterExit, vars, shared
  <2>2. startRev \in Nat /\ app.revision \in Nat
    BY LimitsMoveOn DEF SessionTypeOK
  <2>3. accepted => app.revision # startRev
    BY <2>1, <2>2 DEF ToldInv
  <2>4. accepted /\ ~pending' => app.target = None
    BY <2>1, <2>3, Zenon
  <2> QED
    BY <2>1, <2>4 DEF ToldInv
<1>4. CASE RunnerStep /\ ~Spawn /\ ~DrainedAfterExit
  <2>1. /\ UNCHANGED <<startRev, pending, reported, accepted>>
        /\ rpc # "done" /\ rpc' # "try"
    BY <1>4 DEF RunnerStep, ChildWaited, KillForRestart, DrainedForRestart, TryReceive, Subscribe,
                AwaitContinue, AwaitClosed, AwaitStatus, Restart, Exit
  <2> QED
    BY <2>1, ToldStaysTrue
<1>5. CASE MonitorStep \/ SendContinue \/ SendFails \/ WorldStep
  <2>1. UNCHANGED <<rpc, startRev, pending, reported, accepted>>
    BY <1>5 DEF MonitorStep, SendContinue, SendFails, WorldStep
  <2> QED
    BY <2>1, ToldStaysTrue
<1>6. CASE ParseSession \/ ParseLimit \/ DropLine \/ ChildExits \/ \E line : ChildWrites(line)
  <2>1. UNCHANGED <<rpc, startRev, pending, reported, accepted>>
    BY <1>6 DEF ParseSession, ParseLimit, DropLine, ChildExits, ChildWrites
  <2> QED
    BY <2>1, ToldStaysTrue
<1>7. CASE RunnerFails \/ KillFails
  <2>1. UNCHANGED <<startRev, pending, reported, accepted>> /\ rpc' = "done"
    BY <1>7 DEF RunnerFails, KillFails, Fail
  <2> QED
    BY <2>1, ToldStaysTrue
<1>8. CASE UNCHANGED sessionVars
  <2>1. UNCHANGED <<rpc, startRev, pending, reported, accepted>>
    BY <1>8 DEF sessionVars
  <2> QED
    BY <2>1, ToldStaysTrue
<1> QED
  BY <1>1, <1>2, <1>3, <1>4, <1>5, <1>6, <1>7, <1>8 DEF SessionNext, ParserStep

-------------------------------------------------------------------------------
(* The invariant and what follows from it.                                 *)

\* The session begins with nothing spawned and nothing reported.
LEMMA SessionInitially == SessionInit => SessionInv
<1> SUFFICES ASSUME SessionInit PROVE SessionInv
  OBVIOUS
<1>1. Core
  BY CoreInit DEF SessionInit
<1>2. SessionTypeOK
  <2>1. <<>> \in Seq(Line)
    OBVIOUS
  <2> QED
    BY <2>1 DEF SessionInit, SessionTypeOK, RunnerPCs, Results
<1>3. Ended
  BY DEF SessionInit, Init, Ended, OutputDrained
<1>4. ToldInv
  BY DEF SessionInit, Init, NewAppState, ToldInv
<1> QED
  BY <1>1, <1>2, <1>3, <1>4 DEF SessionInv

\* The monitor's status, exhaustion and types stay right beside a runner that
\* records, restarts and fails, and the runner's variables keep their types
\* (spawn_lockout_monitor together with run_stream_json_print).
THEOREM SessionInvariantHolds == SessionSpec => []SessionInv
<1>1. SessionInv /\ [SessionNext]_sessionVars => SessionInv'
  BY CoreStays, SessionTypes, EndedStays, ToldStays DEF SessionInv
<1> QED
  BY <1>1, SessionInitially, PTL DEF SessionSpec

\* The runner restarts or waits only after its child has ended and the parser
\* has recorded the last line (the awaits of the pumps and of the parser task
\* in run_stream_json_print).
THEOREM OutputIsRecordedFirst == SessionSpec => []NoOutputOutlivesItsChild
<1>1. SessionInv => NoOutputOutlivesItsChild
  BY DEF SessionInv, Ended, NoOutputOutlivesItsChild
<1> QED
  BY <1>1, SessionInvariantHolds, PTL

\* The child's exit code is not returned while the limit its output reported is
\* in force and a monitor may still continue it (await_resume_after_exit).
THEOREM ReportedLimitIsAwaited == SessionSpec => RecordedLimitIsAwaited
<1>1. SessionInv /\ [SessionNext]_sessionVars
        => [Returns => ~(ReportedInForce /\ accepted) \/ pc = "stopped"]_sessionVars
  <2> SUFFICES ASSUME SessionInv, SessionNext, Returns, ReportedInForce, accepted
               PROVE  pc = "stopped"
    OBVIOUS
  <2> USE DEF process, output, told, own
  <2>1. app.target # None
    BY DEF ReportedInForce, SessionInv, ToldInv, IsLocked
  <2>2. /\ result' = "child" /\ result = "none" /\ rpc' = "done"
    BY DEF Returns
  <2>3. ~(RunnerFails \/ KillFails)
    BY <2>2 DEF RunnerFails, KillFails, Fail
  <2>4. RunnerStep
    BY <2>2, <2>3 DEF SessionNext, ParserStep, MonitorStep, SendContinue, SendFails, ParseSession,
       ParseLimit, RecordLimit, DropLine, ChildWrites, ChildExits, WorldStep
  <2>5. AwaitClosed \/ TryReceive
    BY <2>1, <2>2, <2>4 DEF RunnerStep, Spawn, ChildWaited, KillForRestart, DrainedForRestart,
       DrainedAfterExit, Subscribe, AwaitContinue, AwaitStatus, Restart
  <2>6. CASE TryReceive
    <3>1. rpc = "try" /\ ~pending
      BY <2>2, <2>6 DEF TryReceive, Restart, Exit
    <3>2. reported.time < app.watermark /\ app.watermark = reported.time
      BY <2>1, <3>1 DEF SessionInv, ToldInv, ReportedInForce
    <3>3. reported.time \in Nat
      BY DEF SessionInv, SessionTypeOK, ReportedInForce, Update
    <3> QED
      BY <3>2, <3>3
  <2> QED
    BY <2>5, <2>6 DEF AwaitClosed
<1> QED
  BY <1>1, SessionInvariantHolds, PTL DEF SessionSpec, RecordedLimitIsAwaited
===============================================================================
