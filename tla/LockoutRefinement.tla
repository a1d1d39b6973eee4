-------------------------- MODULE LockoutRefinement --------------------------
(***************************************************************************)
(* The lockout monitor keeps the promise.  The abstract state is the part  *)
(* of the AppState that decides about continues, with the history of       *)
(* resume(); scans, watchers, debouncing, statuses and retries are         *)
(* stuttering steps or single steps of the promise.                        *)
(***************************************************************************)
EXTENDS LockoutInvariants

Promise == INSTANCE LockoutPromise WITH
             clock    <- now,
             limit    <- app.target,
             event    <- app.watermark,
             tries    <- attempts,
             answered <- delivered

\* However the writes of the program, the losses of the watcher, failing scans
\* and rescans interleave with the expiry of a limit, the AppState, the clock
\* and the calls of resume() behave as promised (spawn_lockout_monitor with
\* everything it calls, under a PTY).
KeepsPromise == Promise!Spec
===============================================================================
