---------------------------- MODULE MCStreamSession ----------------------------
(***************************************************************************)
(* Small instances of StreamSession for TLC.                               *)
(***************************************************************************)
EXTENDS StreamSession

At(time, reset) == [time |-> time, reset |-> reset]

\* Two limits with the same reset, and a later one past its reset when it is
\* read late.
SessionRows == {At(0, 1), At(1, 2)}
===============================================================================
