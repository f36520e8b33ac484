--------------------------- MODULE MCWorkerBuild ---------------------------
(* WorkerBuild for TLC: what the runs WB_build and WB_queue share.         *)
EXTENDS WorkerBuild, TLC

AllFaults == {"build", "call", "worker", "orchestrator"}

\* A container that restarts, nothing else.
RestartOnly == {"worker"}

=============================================================================
