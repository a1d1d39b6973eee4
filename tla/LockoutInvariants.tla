-------------------------- MODULE LockoutInvariants --------------------------
(***************************************************************************)
(* The inductive invariant behind the safety properties of LockoutMonitor: *)
(* what the monitor may rely on between two of its critical sections,      *)
(* while another task may change the AppState.                             *)
(***************************************************************************)
EXTENDS LockoutMonitor

\* handle_expiry_with, up to its last critical section, and the part of it
\* that has read the revision.
AttemptPCs == {"announce", "resume", "failed", "backoff", "settle"}
ExpiryPCs  == {"due"} \cup AttemptPCs

\* The locals that are read are set.
LocalsAreSet ==
  /\ pc \in ExpiryPCs => target # None
  /\ pc = "scanning" => scan \in ScanRecord

\* Only the end of an expiry marks a lockout exhausted, so that no lockout is
\* exhausted during an expiry.
NotExhaustedMeanwhile ==
  /\ pc = "decide" /\ ~spent => app.exhausted = None
  /\ pc \in ExpiryPCs => app.exhausted = None

\* The revision tells whether the lockout the continue was sent for is still
\* the one in force.
RevisionTells ==
  /\ pc \in AttemptPCs => revision <= app.revision
  /\ pc = "settle" /\ outcome = "Sent" /\ app.revision = revision => delivered

\* Without a runner that reports limits nothing changes the lockout behind the
\* monitor's back ...
MonitorAlone ==
  /\ report = None
  /\ pc = "decide" => app.target = target /\ (~spent => app.exhausted # app.revision)
  /\ pc \in ExpiryPCs => app.target = target /\ target <= now
  /\ pc \in AttemptPCs => app.revision = revision

\* ... and every attempt belongs to the lockout in force.
AttemptsCounted ==
  /\ pc \notin AttemptPCs /\ app.target # None /\ app.exhausted = None
       => attempts = 0 /\ ~delivered
  /\ pc = "announce" => attempts = 0 /\ attempt = 0 /\ ~delivered
  /\ pc \in {"resume", "backoff"} => attempts = attempt /\ attempt <= MaxRetries /\ ~delivered
  /\ pc = "failed" => attempts = attempt + 1 /\ attempt < MaxRetries /\ ~delivered

\* Every conjunct needs those before it to be preserved.
IInv ==
  /\ TypeOK
  /\ LocalsAreSet
  /\ StatusMatchesLockout
  /\ ExhaustionIsCurrent
  /\ NotExhaustedMeanwhile
  /\ RevisionTells
  /\ ~RunnerReports => MonitorAlone /\ AttemptsCounted
===============================================================================
