-------------------------- MODULE MCEngineManager --------------------------
(* EngineManager for TLC: the faults of the run EM_engine.                *)
EXTENDS EngineManager

\* Everything the system, the user and the clock may do.
AllFaults == {"crash", "deaf", "external", "signal", "slowkill", "port"}

=============================================================================
