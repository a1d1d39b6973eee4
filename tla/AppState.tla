------------------------------- MODULE AppState -------------------------------
(***************************************************************************)
(* The state the monitor and the runner share under one mutex, and the     *)
(* critical sections that read or write it.  Every operator below is one   *)
(* critical section, hence atomic; the steps around them are not.          *)
(*                                                                         *)
(* The u64 revision is a natural number: a process would have to record    *)
(* 2^64 limit events before it wraps.                                      *)
(***************************************************************************)
EXTENDS LimitUpdates

Revision == Nat

\* LiveStatus, with the reasons of Monitoring spelled out.  The time of the
\* next attempt that Retrying shows is presentation and is left out.
MonitoringKinds == {"NoActiveLimit", "ContinueSent", "ClearedCancelled"}
StatusKinds == MonitoringKinds
                 \cup {"RateLimited", "Resuming", "Retrying", "ContinueFailed"}

Status == [kind : StatusKinds, target : Time \cup {None}]

Show(kind) == [kind |-> kind, target |-> None]
ShowLimited(target) == [kind |-> "RateLimited", target |-> target]

AppStates ==
  [ target    : Time \cup {None},       \* lockout_target_time
    watermark : Time \cup {None},       \* latest_rate_limit_event_time
    revision  : Revision,               \* lockout_revision
    exhausted : Revision \cup {None},   \* resume_exhausted_revision
    status    : Status ]                \* live_status

NewAppState ==
  [ target |-> None, watermark |-> None, revision |-> 0, exhausted |-> None,
    status |-> Show("NoActiveLimit") ]

\* The watermark rejects an update that is not strictly newer than the last
\* one accepted.
IsNews(app, update) == app.watermark = None \/ app.watermark < update.time

\* Not the code: a new lockout inherits the exhaustion of the last one.
AcceptExhausted(app, update, live) ==
  [ target    |-> update.target,
    watermark |-> update.time,
    revision  |-> IF live THEN app.revision + 1 ELSE app.revision,
    exhausted |-> app.exhausted,
    status    |-> IF IsLocked(update) THEN ShowLimited(update.target)
                  ELSE Show(IF live THEN "ClearedCancelled" ELSE "NoActiveLimit") ]

\* The update replaces everything but the revision, which counts live events.
Accept(app, update, live) ==
  [ target    |-> update.target,
    watermark |-> update.time,
    revision  |-> IF live THEN app.revision + 1 ELSE app.revision,
    exhausted |-> None,
    status    |-> IF IsLocked(update) THEN ShowLimited(update.target)
                  ELSE Show(IF live THEN "ClearedCancelled" ELSE "NoActiveLimit") ]

\* apply_limit_update; `live` is its increment_revision, false only for the
\* startup scan.
ApplyLimitUpdate(app, update, live) ==
  IF IsNews(app, update) THEN Accept(app, update, live) ELSE app

\* The lockout an expiry started from is still the one in force.
IsCurrent(app, target, revision) ==
  app.target = target /\ app.revision = revision

\* Not the code: the status is published without a look at the lockout.
PublishAnyway(app, target, revision, kind) == [app EXCEPT !.status = Show(kind)]

\* publish_resume_status_if_current
PublishIfCurrent(app, target, revision, kind) ==
  IF IsCurrent(app, target, revision)
    THEN [app EXCEPT !.status = Show(kind)]
    ELSE app

\* Not the code: whatever lockout is in force is dropped.
SettleAnyway(app, target, revision) ==
  [app EXCEPT !.target = None, !.status = Show("ContinueSent")]

\* The last critical section of an expiry whose continue was sent.
SettleSent(app, target, revision) ==
  IF IsCurrent(app, target, revision)
    THEN [app EXCEPT !.target = None, !.status = Show("ContinueSent")]
    ELSE app

\* Not the code: the lockout that could not be continued is dropped.
DropFailed(app, target, revision) ==
  IF IsCurrent(app, target, revision)
    THEN [app EXCEPT !.target = None, !.status = Show("ClearedCancelled")]
    ELSE app

\* The last critical section of an expiry that could not send its continue.
SettleFailed(app, target, revision) ==
  IF IsCurrent(app, target, revision)
    THEN [app EXCEPT !.exhausted = revision, !.status = Show("ContinueFailed")]
    ELSE app
===============================================================================
