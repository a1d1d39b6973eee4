----------------------------- MODULE LimitUpdates -----------------------------
(***************************************************************************)
(* What the two transcript parsers make of a rate-limit row, and which of  *)
(* several rows a scan returns.                                            *)
(*                                                                         *)
(* A row is a line of a transcript (or of the stream-json output) that     *)
(* speaks of the rate limit: `time` is its timestamp and `reset` the       *)
(* moment it says the limit ends, None when it says that no limit is in    *)
(* force (only Codex writes such rows).  Lines about anything else are     *)
(* left out: every parser ignores them.                                    *)
(*                                                                         *)
(* An update is what a parser returns: the row's time and the target of    *)
(* the lockout, None when the row clears it.                               *)
(***************************************************************************)
EXTENDS Integers, Sequences

CONSTANTS
  None,      \* the absent value of every Option in the code
  Provider   \* "claude" or "codex": the parser in use

ASSUME NoneAssumption == None \notin Int
ASSUME ProviderAssumption == Provider \in {"claude", "codex"}

Time == Nat

Update == [time : Time, target : Time \cup {None}]

ASSUME UpdateAssumption == None \notin Update

\* Claude always names a reset, never before the row's own timestamp
\* (parse_reset_time rolls it to the next day or year); Codex may say that
\* no window is saturated.
Row == {row \in [time : Time, reset : Time \cup {None}] :
          IF row.reset = None THEN Provider = "codex" ELSE row.time <= row.reset}

IsLocked(update) == update.target # None

\* A row read at the moment `at`.  Past its reset, a Claude row clears the
\* lockout and a Codex row is only worth a diagnostic.
Interpret(row, at) ==
  IF row.reset = None THEN [time |-> row.time, target |-> None]
  ELSE IF row.reset > at THEN [time |-> row.time, target |-> row.reset]
  ELSE IF Provider = "claude" THEN [time |-> row.time, target |-> None]
  ELSE None

\* Of two candidates of the startup scan the later one, the first found if
\* they tie.
SelectNewest(current, candidate) ==
  IF current # None /\ current.time >= candidate.time THEN current ELSE candidate

\* What a scan of rows first..last returns, as a set with one element: the
\* update with the latest event time, None if no row has an update.  The
\* earliest row wins a tie, because the lines are read backwards and the last
\* maximum is kept.
ScanResult(rows, first, last, at) ==
  LET telling == {i \in first .. last : Interpret(rows[i], at) # None}
      Beats(i, j) == \/ rows[j].time < rows[i].time
                     \/ rows[j].time = rows[i].time /\ i <= j
  IN IF telling = {} THEN {None}
     ELSE {Interpret(rows[i], at) : i \in {k \in telling : \A j \in telling : Beats(k, j)}}
===============================================================================
