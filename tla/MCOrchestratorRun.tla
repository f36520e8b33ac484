------------------------- MODULE MCOrchestratorRun -------------------------
(* OrchestratorRun for TLC: what the runs OR_run and OR_route share.       *)
EXTENDS OrchestratorRun

AllFaults == {"crash", "worker"}

NoFaults == {}

\* A spec just built, and one of a run that was frozen elsewhere.
SomeStatus == {"draft", "interfaces_frozen"}

\* A failure that is routed back to BUILDING.
SomeCodes == {"WORKER_TIMEOUT"}

\* What validate_worker_result reports of a part outside its skeleton.
SkeletonOnly == {"SKELETON_CONFLICT"}

=============================================================================
