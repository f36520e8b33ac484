------------------------------ MODULE RunStates ------------------------------
(***************************************************************************)
(* The tables of orchestrator/state.py: which state of a run may follow    *)
(* which, and where a failure sends the run to be retried.                 *)
(***************************************************************************)

\* SpecStatus, in the order of the pipeline, and the two ends.
Status ==
  {"draft", "normalizing", "council_review", "layout_frozen", "interfaces_frozen", "building",
   "geometry_validating", "scoring", "release_packaging", "awaiting_human", "done", "failed"}

Final == {"done", "failed"}

\* The steps _TRANSITIONS allows besides those to "failed": onwards and back.
Steps ==
  {<<"draft", "normalizing">>, <<"normalizing", "council_review">>,
   <<"council_review", "layout_frozen">>, <<"layout_frozen", "interfaces_frozen">>,
   <<"interfaces_frozen", "building">>, <<"building", "geometry_validating">>,
   <<"geometry_validating", "scoring">>, <<"scoring", "release_packaging">>,
   <<"release_packaging", "awaiting_human">>, <<"awaiting_human", "done">>,
   <<"council_review", "draft">>, <<"layout_frozen", "council_review">>,
   <<"interfaces_frozen", "layout_frozen">>, <<"building", "building">>,
   <<"geometry_validating", "building">>, <<"geometry_validating", "council_review">>,
   <<"scoring", "council_review">>, <<"scoring", "building">>,
   <<"release_packaging", "interfaces_frozen">>, <<"release_packaging", "geometry_validating">>,
   <<"release_packaging", "scoring">>, <<"awaiting_human", "council_review">>}

\* StateMachine.transition raises ValueError for anything else.
CanStep(from, to) == <<from, to>> \in Steps \/ (from \notin Final /\ to = "failed")

FailureCode ==
  {"WORKER_TIMEOUT", "WORKER_TOOL_ERROR", "MISSING_ARTIFACT", "MANIFEST_HASH_MISMATCH",
   "INTERFACE_DIM_MISMATCH", "MEASUREMENT_DRIFT", "VERIFICATION_FAILED", "CLEARANCE_COLLISION",
   "MASS_OVER_BUDGET", "ENVELOPE_VIOLATION", "ME_CHECK_FAIL", "OBJECTIVE_THRESHOLD",
   "BUDGET_EXCEEDED", "SKELETON_CONFLICT", "ICD_INCOMPLETE", "ASSEMBLY_ACCESS_FAIL"}

RetryTarget(c) ==
  CASE c \in {"ENVELOPE_VIOLATION", "OBJECTIVE_THRESHOLD"}      -> "council_review"
    [] c \in {"SKELETON_CONFLICT", "ASSEMBLY_ACCESS_FAIL"}      -> "layout_frozen"
    [] c = "ICD_INCOMPLETE"                                     -> "interfaces_frozen"
    [] c = "BUDGET_EXCEEDED"                                    -> "failed"
    [] OTHER                                                    -> "building"
=============================================================================
