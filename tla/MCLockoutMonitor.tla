--------------------------- MODULE MCLockoutMonitor ---------------------------
(***************************************************************************)
(* Small instances of LockoutMonitor for TLC.                              *)
(***************************************************************************)
EXTENDS LockoutRefinement

At(time, reset) == [time |-> time, reset |-> reset]

\* Two limits with different resets, a later one with the reset of the first,
\* and a row that is past its reset once it is read.
ClaudeRows == {At(0, 2), At(1, 2), At(1, 3), At(2, 3)}

\* A saturated window, its end moved, and a window that is not saturated.
CodexRows == {At(0, 2), At(1, 3), At(1, None), At(2, None)}
===============================================================================
