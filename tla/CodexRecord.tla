------------------------------- MODULE CodexRecord -------------------------------
(***************************************************************************)
(* What the Codex parser makes of a line of the transcript: a record has   *)
(* up to two windows, each with its use and its reset.  LimitUpdates       *)
(* speaks of rows with one reset; this module has what they stand for.     *)
(***************************************************************************)
EXTENDS LimitUpdates, FiniteSetsExt

ASSUME CodexAssumption == Provider = "codex"

Window == [full : BOOLEAN, reset : Time \cup {None}]

\* kind: another line, a token_count record, or one whose fields have the wrong
\* type; `limits` says whether it has rate_limits, `time` is its timestamp, None
\* if it cannot be read.
Record == [kind : {"other", "token_count", "malformed"}, limits : BOOLEAN,
           time : Time \cup {None}, windows : SUBSET Window]

Saturated(record) == {w \in record.windows : w.full}

Resets(record) == {w.reset : w \in Saturated(record)}

\* Not the code: the session goes on when the first window is over.
Soonest(resets) == CHOOSE t \in resets : \A u \in resets : t <= u

\* The fold with max over the saturated windows.
Latest(resets) == CHOOSE t \in resets : \A u \in resets : u <= t

\* CodexTranscriptParser::parse_line: an update, None without one.
ParseRecord(record, at) ==
  IF record.kind # "token_count" \/ ~record.limits \/ record.time = None THEN None
  ELSE IF \E t \in Resets(record) : t = None \/ t <= at THEN None
  ELSE [time |-> record.time,
        target |-> IF Resets(record) = {} THEN None ELSE Latest(Resets(record))]
===============================================================================
