---------------------------- MODULE JobLifecycle ----------------------------
(***************************************************************************)
(* What server/jobs.py promises of a job record, whoever writes job.json:  *)
(* a record is created once, moves only along _ALLOWED_TRANSITIONS, and    *)
(* never leaves COMPLETE, FAILED or CANCELLED.  The table is the whole     *)
(* specification: DriverStudy is shown to implement it although several    *)
(* processes read, decide and write the record without a lock.             *)
(***************************************************************************)
CONSTANT Jobs           \* job ids (one per runner process)

VARIABLE job            \* job[j]: the status in job.json, "none" before create_job

JobStatus == {"pending", "running", "complete", "failed", "cancelled"}

Terminal == {"complete", "failed", "cancelled"}

\* The statuses a record may move to from status s.
AllowedTransitions(s) ==
  CASE s = "pending" -> {"running", "failed", "cancelled"}
    [] s = "running" -> Terminal
    [] OTHER -> {}

TypeOK == job \in [Jobs -> JobStatus \union {"none"}]

Init == job = [j \in Jobs |-> "none"]

Create(j) ==
  /\ job[j] = "none"
  /\ job' = [job EXCEPT ![j] = "pending"]

Move(j, s) ==
  /\ s \in AllowedTransitions(job[j])
  /\ job' = [job EXCEPT ![j] = s]

Next == \E j \in Jobs : Create(j) \/ \E s \in JobStatus : Move(j, s)

Spec == Init /\ [][Next]_job
=============================================================================
