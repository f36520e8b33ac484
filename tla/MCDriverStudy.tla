--------------------------- MODULE MCDriverStudy ---------------------------
(***************************************************************************)
(* Instances of DriverStudy for TLC, and a statement of the repository     *)
(* that the code does not keep: the only property of the run DS_zombie,    *)
(* which expects a counterexample.                                         *)
(***************************************************************************)
EXTENDS DriverStudy, TLC

RunnerSymmetry == Permutations(Runners)

\* tools_study.py:355-357 "report runner liveness and recover a study whose
\* runner died": a polled study whose runner is dead leaves its running state.
\* A dead runner is a zombie of the server, which is_alive takes for alive.
DeadRunnerNoticed ==
  \A s \in Studies :
    Abandoned(s, RunningStates, ProcState \ {"live"}) ~> study[s].status \notin RunningStates
=============================================================================
