---------------------------- MODULE LockoutPromise ----------------------------
(***************************************************************************)
(* What botsitter promises of one interactive session: of the limit events *)
(* the last one counts; its limit is answered by "continue" when it is     *)
(* over, at most once with success, at most 1 + MaxRetries times in all;   *)
(* and a limit is forgotten only when it has been answered.                *)
(***************************************************************************)
EXTENDS Naturals

CONSTANTS
  None,        \* no limit, no event
  MaxRetries   \* attempts after the first one

VARIABLES
  clock,      \* the wall clock
  limit,      \* when the limit in force ends, None if there is none
  event,      \* the time of the last limit event
  tries,      \* attempts to answer that event
  answered    \* whether one of them may have succeeded

promiseVars == <<clock, limit, event, tries, answered>>

Moment == Nat \cup {None}

Init ==
  /\ clock \in Nat /\ limit = None /\ event = None
  /\ tries = 0 /\ answered = FALSE

\* A limit is reported, moved or cleared by an event later than all before.
LimitEvent ==
  /\ event' \in Nat /\ (event = None \/ event < event')
  /\ limit' \in Moment
  /\ tries' = 0 /\ answered' = FALSE
  /\ UNCHANGED clock

\* An attempt to answer the limit, once it is over.
Attempt ==
  /\ limit # None /\ limit <= clock
  /\ ~answered /\ tries <= MaxRetries
  /\ tries' = tries + 1 /\ answered' \in BOOLEAN
  /\ UNCHANGED <<clock, limit, event>>

\* The answered limit is over.
Forget ==
  /\ answered /\ limit' = None
  /\ UNCHANGED <<clock, event, tries, answered>>

Tick ==
  /\ clock' = clock + 1
  /\ UNCHANGED <<limit, event, tries, answered>>

Next == LimitEvent \/ Attempt \/ Forget \/ Tick

Spec == Init /\ [][Next]_promiseVars
===============================================================================
