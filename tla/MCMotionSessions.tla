-------------------------- MODULE MCMotionSessions --------------------------
(* MotionSessions for TLC: the faults of the runs.                         *)
EXTENDS MotionSessions

\* Everything the engine, the user and the clock may do.
AllFaults == {"timeout", "reject", "stop", "die"}

=============================================================================
