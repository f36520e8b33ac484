------------------------- MODULE DriverStudyProofs -------------------------
(***************************************************************************)
(* Proofs about DriverStudy, for every number of studies, runners, design  *)
(* points and every set of faults and tools.                               *)
(***************************************************************************)
EXTENDS DriverStudy, TLAPS

(***************************************************************************)
(* Type correctness.                                                       *)
(***************************************************************************)

\* What a save does to the process's own variables keeps their types.
LEMMA SaveTypes ==
  ASSUME TypeOK, NEW p \in Procs, NEW st \in Study, NEW k \in Labels, Save(p, st, k)
  PROVE  /\ mem' \in [Procs -> Study]
         /\ cont' \in [Procs -> Labels]
         /\ pc' \in [Procs -> Labels]
  BY DEF TypeOK, Save, SaveBegins, Labels, Goto

\* A handler that ends leaves well-typed variables.
LEMMA EndCallTypes ==
  ASSUME TypeOK, EndCall
  PROVE  /\ mem' \in [Procs -> Study]
         /\ tgt' \in [Procs -> Runners \union {None}]
         /\ pc' \in [Procs -> Labels]
         /\ seen' \in JobStatus \union {"none"}
  BY DEF TypeOK, EndCall, Labels, Goto, NewStudy, Study, StudyStatus, Procs

\* A Study with another status, or with a run's identity, is a Study.
LEMMA StudyUpdate ==
  ASSUME NEW m \in Study, NEW st \in StudyStatus
  PROVE  /\ [m EXCEPT !.status = st] \in Study
         /\ [m EXCEPT !.status = st, !.best = None] \in Study
         /\ \A r \in Runners : [m EXCEPT !.status = st, !.best = r] \in Study
  BY DEF Study

LEMMA StudyIdentity ==
  ASSUME NEW m \in Study, NEW r \in Runners
  PROVE  [m EXCEPT !.job = r, !.pid = r] \in Study
  BY DEF Study

LEMMA InitTypes == Init => TypeOK
PROOF
  <1> SUFFICES ASSUME Init PROVE TypeOK
    OBVIOUS
  <1>1. NewStudy \in Study
    BY DEF NewStudy, Study, StudyStatus
  <1>2. sid \in [Procs -> Studies]
    BY DEF Init
  <1>3. pc \in [Procs -> Labels] /\ cont \in [Procs -> Labels]
    BY DEF Init, Labels
  <1> QED
    BY <1>1, <1>2, <1>3 DEF Init, TypeOK, JobStatus, ProcState

\* A runner that ends, and either half of a save by any process, keep the types.
LEMMA DiesTypes ==
  ASSUME TypeOK, NEW r \in Runners, RunnerDies(r)
  PROVE  TypeOK'
  BY DEF TypeOK, RunnerDies, Ended, Labels, Goto, NewStudy, Study, StudyStatus, ProcState, Procs,
         diskVars, jobVars, osVars, runVars, ctlVars, histVars

LEMMA OpenTypes ==
  ASSUME TypeOK, NEW p \in Procs, OpenStudy(p)
  PROVE  TypeOK'
  BY DEF TypeOK, OpenStudy, Labels, Goto, diskVars, jobVars, osVars, runVars, ctlVars, histVars

LEMMA WriteTypes ==
  ASSUME TypeOK, NEW p \in Procs, WriteStudy(p)
  PROVE  TypeOK'
PROOF
  <1> USE DEF diskVars, jobVars, osVars, runVars, ctlVars, histVars
  <1>1. study' \in [Studies -> Study] /\ file' \in [Studies -> {"json", "empty", "garbage"}]
    BY DEF TypeOK, WriteStudy
  <1>2. CASE cont[p] = "idle"
    BY <1>1, <1>2, EndCallTypes DEF TypeOK, WriteStudy
  <1>3. CASE cont[p] # "idle"
    BY <1>1, <1>3 DEF TypeOK, WriteStudy, Labels, Goto
  <1> QED
    BY <1>2, <1>3

\* Each step of a runner, its saves included, keeps the types.
LEMMA RunnerStepTypes ==
  ASSUME TypeOK, NEW r \in Runners, RunnerStep(r)
  PROVE  TypeOK'
PROOF
  <1> USE DEF diskVars, jobVars, osVars, runVars, ctlVars, histVars
  <1>p. r \in Procs
    BY DEF Procs
  <1>m. mem[r] \in Study /\ sid[r] \in Studies /\ study[sid[r]] \in Study
    BY <1>p DEF TypeOK
  <1>s. {"running_coarse", "cancelled", "coarse_done", "running_refined", "failed", "complete"}
          \subseteq StudyStatus
    BY DEF StudyStatus
  <1>1. CASE InstallHandler(r)
    BY <1>1 DEF InstallHandler, TypeOK, Labels, Goto
  <1>2. CASE LoadStudy(r)
    BY <1>2, <1>m DEF LoadStudy, TypeOK, Labels, Goto
  <1>3. CASE ResetFlag(r)
    BY <1>3 DEF ResetFlag, TypeOK, Labels, Goto
  <1>4. CASE ListJobs(r)
    BY <1>4 DEF ListJobs, TypeOK, Labels, Goto
  <1>5. CASE RecoverRead(r)
    <2>1. PICK j \in todo[r] :
            /\ todo' = [todo EXCEPT ![r] = @ \ {j}]
            /\ IF job[j] = "running"
               THEN Goto(r, "recoverCheck") /\ tgt' = [tgt EXCEPT ![r] = j]
               ELSE UNCHANGED <<pc, tgt>>
      BY <1>5 DEF RecoverRead
    <2>2. j \in Runners /\ todo' \in [Procs -> SUBSET Runners]
      BY <1>p, <2>1 DEF TypeOK
    <2>3. pc' \in [Procs -> Labels] /\ tgt' \in [Procs -> Runners \union {None}]
      BY <1>p, <2>1, <2>2 DEF TypeOK, Labels, Goto
    <2> QED
      BY <1>5, <2>2, <2>3 DEF RecoverRead, TypeOK
  <1>6. CASE RecoverCheck(r)
    BY <1>6 DEF RecoverCheck, TypeOK, Labels, Goto
  <1>7. CASE RecoverLoad(r)
    BY <1>7 DEF RecoverLoad, LoadToFinish, TypeOK, Labels, Goto
  <1>8. CASE RecoverWrite(r)
    BY <1>8 DEF RecoverWrite, WriteJob, JobStatus, TypeOK, Labels, Goto
  <1>9. CASE RecoverDone(r)
    BY <1>9 DEF RecoverDone, TypeOK, Labels, Goto
  <1>10. CASE ReloadStudy(r)
    BY <1>10, <1>m DEF ReloadStudy, TypeOK, Labels, Goto
  <1>11. CASE CreateJob(r)
    BY <1>11 DEF CreateJob, WriteJob, JobStatus, TypeOK, Labels, Goto
  <1>12. CASE MarkLoad(r)
    BY <1>12 DEF MarkLoad, TypeOK, Labels, Goto
  <1>13. CASE MarkWrite(r)
    <2>1. [mem[r] EXCEPT !.job = r, !.pid = r] \in Study
      BY <1>m, StudyIdentity
    <2> QED
      BY <1>13, <1>p, <2>1, SaveTypes DEF Labels, MarkWrite, WriteJob, JobStatus, TypeOK
  <1>14. CASE StartCoarse(r)
    <2>1. [mem[r] EXCEPT !.status = "running_coarse"] \in Study
      BY <1>m, <1>s, StudyUpdate
    <2> QED
      BY <1>14, <1>p, <2>1, SaveTypes DEF Labels, StartCoarse, TypeOK
  <1>15. CASE PollCancelled(r)
    <2>1. [mem[r] EXCEPT !.status = "cancelled"] \in Study
      BY <1>m, <1>s, StudyUpdate
    <2>2. CASE CancelVisible(r)
      BY <1>15, <1>p, <2>1, <2>2, SaveTypes DEF Labels, PollCancelled, TypeOK
    <2>3. CASE ~CancelVisible(r)
      BY <1>15, <2>3 DEF PollCancelled, TypeOK, Labels, Goto
    <2> QED
      BY <2>2, <2>3
  <1>16. CASE LaunchEvaluator(r)
    <2>1. late' \in [Runners -> Nat]
      BY <1>16 DEF LaunchEvaluator, TypeOK
    <2>2. pc' \in [Procs -> Labels]
      BY <1>16, <1>p DEF LaunchEvaluator, TypeOK, Labels, Goto
    <2> QED
      BY <1>16, <2>1, <2>2 DEF LaunchEvaluator, TypeOK
  <1>17. CASE Collect(r)
    <2>1. /\ mem' \in [Procs -> Study] /\ cont' \in [Procs -> Labels] /\ pc' \in [Procs -> Labels]
      BY <1>17, <1>p, <1>m, SaveTypes DEF Labels, Collect
    <2>2. feas' \in [Runners -> BOOLEAN]
      BY <1>17 DEF Collect, TypeOK
    <2> QED
      BY <1>17, <2>1, <2>2 DEF Collect, TypeOK
  <1>18. CASE BeatLoad(r)
    BY <1>18 DEF BeatLoad, TypeOK, Labels, Goto
  <1>19. CASE BeatWrite(r)
    BY <1>19 DEF BeatWrite, WriteJob, JobStatus, TypeOK, Labels, Goto
  <1>20. CASE CoarseDone(r)
    <2>1. [mem[r] EXCEPT !.status = "coarse_done"] \in Study
      BY <1>m, <1>s, StudyUpdate
    <2> QED
      BY <1>20, <1>p, <2>1, SaveTypes DEF Labels, CoarseDone, TypeOK
  <1>21. CASE RankCoarse(r)
    <2>1. /\ [mem[r] EXCEPT !.status = "running_refined"] \in Study
          /\ [mem[r] EXCEPT !.status = "failed"] \in Study
      BY <1>m, <1>s, StudyUpdate
    <2>a. {"poll", "end"} \subseteq Labels
      BY DEF Labels
    <2>b. \/ Save(r, [mem[r] EXCEPT !.status = "running_refined"], "poll")
          \/ Save(r, [mem[r] EXCEPT !.status = "failed"], "end")
      BY <1>21, Zenon DEF RankCoarse
    <2>2. mem' \in [Procs -> Study] /\ cont' \in [Procs -> Labels] /\ pc' \in [Procs -> Labels]
      BY <1>p, <2>1, <2>a, <2>b, SaveTypes
    <2>3. \/ phase' = [phase EXCEPT ![r] = "refined"] /\ idx' = [idx EXCEPT ![r] = 0]
          \/ UNCHANGED <<phase, idx>>
      BY <1>21, Zenon DEF RankCoarse
    <2>4. phase' \in [Runners -> {"coarse", "refined"}] /\ idx' \in [Runners -> Nat]
      BY <2>3 DEF TypeOK
    <2> QED
      BY <1>21, <2>2, <2>4 DEF RankCoarse, TypeOK
  <1>22. CASE RefinedDone(r)
    <2>1. [mem[r] EXCEPT !.status = "complete", !.best = r] \in Study
      BY <1>m, <1>s, StudyUpdate
    <2> QED
      BY <1>22, <1>p, <2>1, SaveTypes DEF Labels, RefinedDone, TypeOK
  <1>23. CASE EndDriver(r)
    BY <1>23, <1>p, <1>m, SaveTypes DEF Labels, EndDriver, TypeOK
  <1>24. CASE FinishLoad(r)
    BY <1>24 DEF FinishLoad, LoadToFinish, TypeOK, Labels, Goto
  <1>25. CASE FinishWrite(r)
    BY <1>25 DEF FinishWrite, WriteJob, JobOutcome, JobStatus, TypeOK, Labels, Goto
  <1>26. CASE FailWrite(r)
    BY <1>26 DEF FailWrite, WriteJob, JobStatus, TypeOK, Labels, Goto
  <1>27. CASE MarkCrashed(r)
    <2>1. [study[sid[r]] EXCEPT !.status = "failed"] \in Study
      BY <1>m, <1>s, StudyUpdate
    <2>2. CASE Readable(sid[r])
      BY <1>27, <1>p, <2>1, <2>2, SaveTypes DEF Labels, MarkCrashed, TypeOK
    <2>3. CASE ~Readable(sid[r])
      BY <1>27, <2>3 DEF MarkCrashed, TypeOK, Labels, Goto
    <2> QED
      BY <2>2, <2>3
  <1>28. CASE RunnerExit(r)
    BY <1>28, DiesTypes DEF RunnerExit
  <1>29. CASE OpenStudy(r)
    BY <1>29, <1>p, OpenTypes
  <1>30. CASE WriteStudy(r)
    BY <1>30, <1>p, WriteTypes
  <1> QED
    BY <1>1, <1>2, <1>3, <1>4, <1>5, <1>6, <1>7, <1>8, <1>9, <1>10, <1>11, <1>12, <1>13,
       <1>14, <1>15, <1>16, <1>17, <1>18, <1>19, <1>20, <1>21, <1>22, <1>23, <1>24, <1>25,
       <1>26, <1>27, <1>28, <1>29, <1>30
    DEF RunnerStep

\* While the server looks after a job or a pid, it knows which.
CallLabels == {"statusJob", "statusAlive", "statusFinish", "statusWrite",
               "cancelFlag", "cancelSignal", "cancelPid"}

TargetKnown == pc[Server] \in CallLabels => tgt[Server] \in Runners

\* Each step of the server's call in progress keeps the types.
LEMMA ServerStepTypes ==
  ASSUME TypeOK, TargetKnown, ServerStep
  PROVE  TypeOK'
PROOF
  <1> USE DEF diskVars, jobVars, osVars, runVars, ctlVars, histVars
  <1>p. Server \in Procs /\ Runners \subseteq Procs
    BY DEF Procs
  <1>m. mem[Server] \in Study /\ sid[Server] \in Studies
    BY <1>p DEF TypeOK
  <1>r. Reaped \in [Runners -> ProcState]
    BY DEF Reaped, ProcState, TypeOK
  <1>f. [mem[Server] EXCEPT !.status = "failed"] \in Study
    BY <1>m, StudyUpdate DEF StudyStatus
  <1>l. {"idle", "statusFinish", "statusWrite", "statusAlive", "cancelSignal", "dead", "boot"}
          \subseteq Labels
    BY DEF Labels
  <1>1. CASE SpawnRunner
    <2>1. PICK r \in Runners :
            /\ proc' = [Reaped EXCEPT ![r] = "live"]
            /\ reaper' = [reaper EXCEPT ![r] = Server]
            /\ sid' = [sid EXCEPT ![r] = sid[Server]]
            /\ pc' = [pc EXCEPT ![r] = "boot", ![Server] = SaveBegins]
            /\ mem' = [mem EXCEPT ![Server].pid = r]
            /\ current' = [current EXCEPT ![sid[Server]] = r]
      BY <1>1 DEF SpawnRunner
    <2>2. proc' \in [Runners -> ProcState]
      BY <1>r, <2>1 DEF ProcState
    <2>3. pc' \in [Procs -> Labels]
      BY <1>p, <2>1 DEF TypeOK, SaveBegins, Labels
    <2>4. mem' \in [Procs -> Study]
      BY <1>p, <1>m, <2>1 DEF TypeOK, Study
    <2>5. cont' \in [Procs -> Labels]
      BY <1>1, <1>l DEF SpawnRunner, TypeOK
    <2>6. /\ sid' \in [Procs -> Studies]
          /\ current' \in [Studies -> Runners \union {None}]
          /\ reaper' \in [Runners -> {Server, None}]
      BY <1>p, <1>m, <2>1 DEF TypeOK
    <2> QED
      BY <1>1, <2>2, <2>3, <2>4, <2>5, <2>6 DEF SpawnRunner, TypeOK
  <1>2. CASE StatusLoadJob
    <2>1. tgt[Server] \in Runners
      BY <1>2 DEF StatusLoadJob, At, TargetKnown, CallLabels
    <2>2. seen' \in JobStatus \union {"none"} /\ pc' \in [Procs -> Labels]
      BY <1>2, <1>l, <1>p, <2>1 DEF StatusLoadJob, TypeOK, Goto
    <2> QED
      BY <1>2, <2>2 DEF StatusLoadJob, TypeOK
  <1>3. ASSUME StatusRecoverStudy
        PROVE  /\ mem' \in [Procs -> Study]
               /\ cont' \in [Procs -> Labels]
               /\ pc' \in [Procs -> Labels]
               /\ tgt' \in [Procs -> Runners \union {None}]
               /\ seen' \in JobStatus \union {"none"}
    <2>1. CASE mem[Server].status \in RunningStates
      BY <1>3, <1>p, <1>f, <1>l, <2>1, SaveTypes DEF StatusRecoverStudy, TypeOK
    <2>2. CASE mem[Server].status \notin RunningStates
      BY <1>3, <2>2, EndCallTypes DEF StatusRecoverStudy, TypeOK
    <2> QED
      BY <2>1, <2>2
  <1>4. CASE StatusAlive
    <2>1. CASE IsAlive(tgt[Server])
      BY <1>4, <2>1, EndCallTypes DEF StatusAlive, TypeOK
    <2>2. CASE ~IsAlive(tgt[Server]) /\ seen = "running"
      BY <1>4, <1>l, <2>2 DEF StatusAlive, TypeOK, Goto
    <2>3. CASE ~IsAlive(tgt[Server]) /\ seen # "running"
      BY <1>3, <1>4, <2>3 DEF StatusAlive, TypeOK
    <2> QED
      BY <2>1, <2>2, <2>3
  <1>5. CASE StatusFinishLoad
    <2>1. CASE job[tgt[Server]] = "running"
      BY <1>5, <1>l, <2>1 DEF StatusFinishLoad, TypeOK, Goto
    <2>2. CASE job[tgt[Server]] # "running"
      BY <1>5, <2>2, EndCallTypes DEF StatusFinishLoad, TypeOK
    <2> QED
      BY <2>1, <2>2
  <1>6. CASE StatusFinishWrite
    <2>1. job' \in [Runners -> JobStatus \union {"none"}]
      BY <1>6 DEF StatusFinishWrite, WriteJob, JobStatus, TypeOK
    <2> QED
      BY <1>3, <1>6, <2>1 DEF StatusFinishWrite, TypeOK
  <1>7. CASE CancelTouchFlag
    <2>1. tgt[Server] \in Runners
      BY <1>7 DEF CancelTouchFlag, At, TargetKnown, CallLabels
    <2>2. /\ seen' \in JobStatus \union {"none"}
          /\ pc' \in [Procs -> Labels]
          /\ flag' \in [Runners -> BOOLEAN]
      BY <1>7, <1>l, <1>p, <2>1 DEF CancelTouchFlag, TypeOK, Goto
    <2> QED
      BY <1>7, <2>2 DEF CancelTouchFlag, TypeOK
  <1>9. ASSUME NEW r, TerminateAndEnd(r)
        PROVE  /\ proc' \in [Runners -> ProcState]
               /\ pc' \in [Procs -> Labels]
               /\ sig' \in [Runners -> BOOLEAN]
    <2>1. CASE Live(r) /\ At(r, "boot")
      <3>1. proc' = [proc EXCEPT ![r] = Ended(r)] /\ Ended(r) \in ProcState
        BY <1>9, <2>1 DEF TerminateAndEnd, Ended, ProcState
      <3>2. pc' = [pc EXCEPT ![r] = "dead", ![Server] = "idle"] /\ sig' = sig
        BY <1>9, <2>1 DEF TerminateAndEnd
      <3>3. pc' \in [Procs -> Labels]
        BY <1>l, <3>2 DEF TypeOK
      <3> QED
        BY <3>1, <3>2, <3>3 DEF TypeOK
    <2>2. CASE Live(r) /\ ~At(r, "boot")
      BY <1>9, <1>l, <2>2 DEF TerminateAndEnd, TypeOK, Goto
    <2>3. CASE ~Live(r)
      BY <1>9, <1>l, <2>3 DEF TerminateAndEnd, TypeOK, Goto
    <2> QED
      BY <2>1, <2>2, <2>3
  <1>10. CASE CancelSignal
    <2>1. /\ proc' \in [Runners -> ProcState]
          /\ pc' \in [Procs -> Labels]
          /\ sig' \in [Runners -> BOOLEAN]
      <3>1. CASE TerminateAndEnd(tgt[Server])
        BY <1>9, <3>1
      <3>2. CASE Goto(Server, "idle") /\ UNCHANGED <<proc, sig>>
        BY <1>l, <3>2 DEF TypeOK, Goto
      <3> QED
        BY <1>10, <3>1, <3>2 DEF CancelSignal
    <2> QED
      BY <1>10, <2>1 DEF CancelSignal, TypeOK
  <1>11. CASE CancelByPid
    BY <1>9, <1>11 DEF CancelByPid, TypeOK
  <1>12. CASE OpenStudy(Server)
    BY <1>12, <1>p, OpenTypes
  <1>13. CASE WriteStudy(Server)
    BY <1>13, <1>p, WriteTypes
  <1> QED
    BY <1>1, <1>2, <1>4, <1>5, <1>6, <1>7, <1>10, <1>11, <1>12, <1>13 DEF ServerStep

\* A tool call begins, something happens to a runner, or the server restarts.
LEMMA OtherStepTypes ==
  ASSUME TypeOK,
         \/ \E s \in Studies : ToolCall(s)
         \/ \E r \in Runners : Environment(r)
         \/ OtherSpawn \/ ServerRestart
  PROVE  TypeOK'
PROOF
  <1> USE DEF diskVars, jobVars, osVars, runVars, ctlVars, histVars
  <1>p. Server \in Procs /\ Runners \subseteq Procs
    BY DEF Procs
  <1>r. Reaped \in [Runners -> ProcState]
    BY DEF Reaped, ProcState, TypeOK
  <1>l. {"spawn", "statusJob", "cancelFlag", "cancelPid", "beat", "failJob"} \subseteq Labels
    BY DEF Labels
  <1>1. ASSUME NEW s \in Studies, StudyRun(s) PROVE TypeOK'
    <2>1. study[s] \in Study
      BY DEF TypeOK
    <2>2. [study[s] EXCEPT !.status = "draft", !.best = None] \in Study
      BY <2>1, StudyUpdate DEF StudyStatus
    <2>3. /\ mem' \in [Procs -> Study]
          /\ cont' \in [Procs -> Labels]
          /\ pc' \in [Procs -> Labels]
      BY <1>1, <1>p, <1>l, <2>2, SaveTypes DEF StudyRun
    <2> QED
      BY <1>1, <2>3 DEF StudyRun, TypeOK
  <1>2. ASSUME NEW s \in Studies, StudyStatusCall(s) PROVE TypeOK'
    <2>1. study[s] \in Study /\ study[s].job \in Runners \union {None}
      BY DEF TypeOK, Study
    <2> QED
      BY <1>2, <1>l, <2>1 DEF StudyStatusCall, TypeOK, Goto
  <1>3. ASSUME NEW s \in Studies, StudyCancel(s) PROVE TypeOK'
    <2>1. study[s].job \in Runners \union {None} /\ study[s].pid \in Runners \union {None}
      BY DEF TypeOK, Study
    <2> QED
      BY <1>3, <1>l, <2>1 DEF StudyCancel, TypeOK, Goto
  <1>4. ASSUME NEW r \in Runners, Environment(r) PROVE TypeOK'
    <2>m. mem[r] \in Study
      BY <1>p DEF TypeOK
    <2>1. CASE EvaluatorExit(r)
      BY <2>1 DEF EvaluatorExit, TypeOK
    <2>2. CASE EvaluatorTimeout(r)
      BY <2>2, <2>m, <1>p, <1>l, SaveTypes DEF EvaluatorTimeout, TypeOK
    <2>3. CASE DriverRaise(r)
      <3>1. [mem[r] EXCEPT !.status = "failed"] \in Study
        BY <2>m, StudyUpdate DEF StudyStatus
      <3> QED
        BY <2>3, <3>1, <1>p, <1>l, SaveTypes DEF DriverRaise, TypeOK
    <2>4. CASE RunnerKilled(r)
      BY <2>4, DiesTypes DEF RunnerKilled
    <2>5. CASE PidReuse(r)
      BY <2>5 DEF PidReuse, ProcState, TypeOK
    <2> QED
      BY <1>4, <2>1, <2>2, <2>3, <2>4, <2>5 DEF Environment
  <1>5. CASE OtherSpawn
    BY <1>5, <1>r DEF OtherSpawn, TypeOK
  <1>6. CASE ServerRestart
    <2>1. reaper' \in [Runners -> {Server, None}]
      BY <1>6 DEF ServerRestart
    <2> QED
      BY <1>6, <1>r, <2>1, EndCallTypes DEF ServerRestart, TypeOK
  <1> QED
    BY <1>1, <1>2, <1>3, <1>4, <1>5, <1>6 DEF ToolCall

LEMMA StutterTypes == TypeOK /\ UNCHANGED vars => TypeOK'
  BY DEF TypeOK, vars, diskVars, jobVars, osVars, runVars, ctlVars, histVars

(***************************************************************************)
(* The inductive invariant of the job records.  Each process's pc fixes    *)
(* what its own record holds while it is alive, and a process about to     *)
(* finish somebody else's job has found that job's process dead.  Death is *)
(* final, so nothing the owner does can come between.                      *)
(***************************************************************************)
StartLabels == {"boot", "load", "reset", "list", "recover", "recoverCheck",
                "recoverLoad", "recoverWrite", "reload", "create"}

RunnerConts == {"drive", "poll", "beat", "rank", "end", "finish", "failJob", "exit"}

\* What a save goes on with.
ContInv(p) ==
  pc[p] \in {"open", "write"} =>
    cont[p] \in IF p = Server THEN {"spawn", "idle"} ELSE RunnerConts

\* What a runner's own job record holds.
OwnJobInv(r) ==
  /\ proc[r] = "unborn" => job[r] = "none"
  /\ Live(r) /\ pc[r] \in StartLabels => job[r] = "none"
  /\ Live(r) /\ pc[r] \in {"mark", "markWrite"} => job[r] = "pending"
  /\ Live(r) /\ Working(r) => job[r] = "running"

Dead(r) == proc[r] \in {"gone", "reused"}

\* What process p knows of the job it is about to finish for another.
OrphanInv(p) ==
  /\ pc[p] = "recoverCheck" => tgt[p] \in Runners /\ proc[tgt[p]] # "unborn"
  /\ p = Server /\ pc[p] = "statusAlive" /\ seen = "running" => proc[tgt[p]] # "unborn"
  /\ pc[p] \in {"recoverLoad", "recoverWrite", "statusFinish", "statusWrite"}
       => tgt[p] \in Runners /\ Dead(tgt[p])
  /\ pc[p] \in {"recoverWrite", "statusWrite"} => job[tgt[p]] \in {"running", "failed"}

ProcInv(p) ==
  /\ ContInv(p)
  /\ p \in Runners => OwnJobInv(p)
  /\ OrphanInv(p)

IInv ==
  /\ TypeOK
  /\ TargetKnown
  /\ \A p \in Procs : ProcInv(p)

\* What the proofs below use of IInv: the types of the variables it relates, and
\* the parts about the processes in question.
LEMMA InvFacts ==
  ASSUME IInv
  PROVE  /\ pc \in [Procs -> Labels] /\ cont \in [Procs -> Labels]
         /\ tgt \in [Procs -> Runners \union {None}]
         /\ job \in [Runners -> JobStatus \union {"none"}]
         /\ proc \in [Runners -> ProcState]
         /\ reaper \in [Runners -> {Server, None}]
         /\ sid \in [Procs -> Studies] /\ seen \in JobStatus \union {"none"}
         /\ todo \in [Procs -> SUBSET Runners]
  BY DEF IInv, TypeOK

LEMMA ProcFacts ==
  /\ Server \in Procs /\ Runners \subseteq Procs
  /\ \A r \in Runners : r # Server
  BY ServerAssumption DEF Procs

\* Whatever runner r does, or happens to it, the invariant holds of every
\* process afterwards.
LEMMA RunnerStepInv ==
  ASSUME IInv, NEW r \in Runners, RunnerStep(r) \/ Environment(r), NEW p \in Procs
  PROVE  ProcInv(p)' /\ TargetKnown'
PROOF
  <1> USE NoneAssumption, ProcFacts, InvFacts
      DEF diskVars, jobVars, osVars, runVars, ctlVars, histVars,
          Goto, Runs, At, Live, ProcInv, ContInv, OwnJobInv, OrphanInv, TargetKnown,
          CallLabels, StartLabels, RunnerConts, Working, Dead, ProcState
  <1>i. ProcInv(p) /\ ProcInv(r) /\ TargetKnown
    BY DEF IInv
  <1>1. CASE InstallHandler(r)
    BY <1>1, <1>i DEF InstallHandler
  <1>2. CASE LoadStudy(r)
    BY <1>2, <1>i DEF LoadStudy
  <1>3. CASE ResetFlag(r)
    BY <1>3, <1>i DEF ResetFlag
  <1>4. CASE ListJobs(r)
    BY <1>4, <1>i DEF ListJobs
  <1>5. CASE RecoverRead(r)
    <2>1. PICK j \in todo[r] :
            IF job[j] = "running"
            THEN Goto(r, "recoverCheck") /\ tgt' = [tgt EXCEPT ![r] = j]
            ELSE UNCHANGED <<pc, tgt>>
      BY <1>5 DEF RecoverRead
    <2>2. j \in Runners /\ ProcInv(j)
      BY DEF IInv
    <2> QED
      BY <1>5, <1>i, <2>1, <2>2 DEF RecoverRead
  <1>6. CASE RecoverCheck(r)
    BY <1>6, <1>i DEF RecoverCheck, IsAlive
  <1>7. CASE RecoverLoad(r)
    BY <1>7, <1>i DEF RecoverLoad, LoadToFinish
  <1>8. CASE RecoverWrite(r)
    BY <1>8, <1>i DEF RecoverWrite, WriteJob
  <1>9. CASE RecoverDone(r)
    BY <1>9, <1>i DEF RecoverDone
  <1>10. CASE ReloadStudy(r)
    BY <1>10, <1>i DEF ReloadStudy
  <1>11. CASE CreateJob(r)
    BY <1>11, <1>i DEF CreateJob, WriteJob
  <1>12. CASE MarkLoad(r)
    BY <1>12, <1>i DEF MarkLoad
  <1>13. CASE MarkWrite(r)
    BY <1>13, <1>i DEF MarkWrite, WriteJob, Save, SaveBegins
  <1>14. CASE StartCoarse(r)
    BY <1>14, <1>i DEF StartCoarse, Save, SaveBegins
  <1>15. CASE PollCancelled(r)
    BY <1>15, <1>i DEF PollCancelled, Save, SaveBegins
  <1>16. CASE LaunchEvaluator(r)
    BY <1>16, <1>i DEF LaunchEvaluator
  <1>17. CASE Collect(r)
    BY <1>17, <1>i DEF Collect, Save, SaveBegins
  <1>18. CASE BeatLoad(r)
    BY <1>18, <1>i DEF BeatLoad
  <1>19. CASE BeatWrite(r)
    BY <1>19, <1>i DEF BeatWrite, WriteJob
  <1>20. CASE CoarseDone(r)
    BY <1>20, <1>i DEF CoarseDone, Save, SaveBegins
  <1>21. CASE RankCoarse(r)
    BY <1>21, <1>i DEF RankCoarse, Save, SaveBegins
  <1>22. CASE RefinedDone(r)
    BY <1>22, <1>i DEF RefinedDone, Save, SaveBegins
  <1>23. CASE EndDriver(r)
    BY <1>23, <1>i DEF EndDriver, Save, SaveBegins
  <1>24. CASE FinishLoad(r)
    BY <1>24, <1>i DEF FinishLoad, LoadToFinish
  <1>25. CASE FinishWrite(r)
    BY <1>25, <1>i DEF FinishWrite, WriteJob, JobOutcome
  <1>26. CASE FailWrite(r)
    BY <1>26, <1>i DEF FailWrite, WriteJob
  <1>27. CASE MarkCrashed(r)
    BY <1>27, <1>i DEF MarkCrashed, Save, SaveBegins
  <1>28. CASE RunnerExit(r)
    BY <1>28, <1>i DEF RunnerExit, RunnerDies, Ended
  <1>29. CASE OpenStudy(r)
    BY <1>29, <1>i DEF OpenStudy
  <1>30. CASE WriteStudy(r)
    BY <1>30, <1>i DEF WriteStudy, EndCall
  <1>31. CASE EvaluatorExit(r)
    BY <1>31, <1>i DEF EvaluatorExit
  <1>32. CASE EvaluatorTimeout(r)
    BY <1>32, <1>i DEF EvaluatorTimeout, Save, SaveBegins
  <1>33. CASE DriverRaise(r)
    BY <1>33, <1>i DEF DriverRaise, Save, SaveBegins
  <1>34. CASE RunnerKilled(r)
    BY <1>34, <1>i DEF RunnerKilled, RunnerDies, Ended
  <1>35. CASE PidReuse(r)
    BY <1>35, <1>i DEF PidReuse
  <1> QED
    BY <1>1, <1>2, <1>3, <1>4, <1>5, <1>6, <1>7, <1>8, <1>9, <1>10, <1>11, <1>12, <1>13, <1>14,
       <1>15, <1>16, <1>17, <1>18, <1>19, <1>20, <1>21, <1>22, <1>23, <1>24, <1>25, <1>26, <1>27, <1>28,
       <1>29, <1>30, <1>31, <1>32, <1>33, <1>34, <1>35
    DEF RunnerStep, Environment

\* The same of a step of the server's call in progress.
LEMMA ServerStepInv ==
  ASSUME IInv, ServerStep, NEW p \in Procs
  PROVE  ProcInv(p)' /\ TargetKnown'
PROOF
  <1> USE NoneAssumption, ProcFacts, InvFacts
      DEF diskVars, jobVars, osVars, runVars, ctlVars, histVars,
          Goto, At, Live, ProcInv, ContInv, OwnJobInv, OrphanInv, TargetKnown,
          CallLabels, StartLabels, RunnerConts, Working, Dead, ProcState
  <1>i. ProcInv(p) /\ ProcInv(Server) /\ TargetKnown
    BY DEF IInv
  <1>1. CASE SpawnRunner
    <2>1. PICK r \in Runners :
            /\ proc[r] = "unborn"
            /\ proc' = [Reaped EXCEPT ![r] = "live"]
            /\ pc' = [pc EXCEPT ![r] = "boot", ![Server] = SaveBegins]
      BY <1>1 DEF SpawnRunner
    <2>2. UNCHANGED <<job, tgt, seen>> /\ cont' = [cont EXCEPT ![Server] = "idle"]
      BY <1>1 DEF SpawnRunner
    <2>3. ProcInv(r)
      BY DEF IInv
    <2>4. SaveBegins \in {"open", "write"}
      BY DEF SaveBegins
    <2> QED
      BY <1>i, <2>1, <2>2, <2>3, <2>4 DEF Reaped
  <1>2. CASE StatusLoadJob
    <2>1. tgt[Server] \in Runners
      BY <1>2, <1>i DEF StatusLoadJob
    <2>2. ProcInv(tgt[Server])
      BY <2>1 DEF IInv
    <2> QED
      BY <1>2, <1>i, <2>1, <2>2 DEF StatusLoadJob
  <1>3. CASE StatusAlive
    BY <1>3, <1>i DEF StatusAlive, IsAlive, EndCall, StatusRecoverStudy, Save, SaveBegins
  <1>4. CASE StatusFinishLoad
    BY <1>4, <1>i DEF StatusFinishLoad, EndCall
  <1>5. CASE StatusFinishWrite
    BY <1>5, <1>i DEF StatusFinishWrite, WriteJob, EndCall, StatusRecoverStudy, Save, SaveBegins
  <1>6. CASE CancelTouchFlag
    BY <1>6, <1>i DEF CancelTouchFlag
  <1>7. CASE CancelSignal
    BY <1>7, <1>i DEF CancelSignal, TerminateAndEnd, Ended
  <1>8. CASE CancelByPid
    BY <1>8, <1>i DEF CancelByPid, TerminateAndEnd, Ended
  <1>9. CASE OpenStudy(Server)
    BY <1>9, <1>i DEF OpenStudy
  <1>10. CASE WriteStudy(Server)
    BY <1>10, <1>i DEF WriteStudy, EndCall
  <1> QED
    BY <1>1, <1>2, <1>3, <1>4, <1>5, <1>6, <1>7, <1>8, <1>9, <1>10
    DEF ServerStep

\* The same of a new tool call, another subprocess, and a server restart.
LEMMA OtherStepInv ==
  ASSUME IInv, NEW p \in Procs,
         (\E s \in Studies : ToolCall(s)) \/ OtherSpawn \/ ServerRestart
  PROVE  ProcInv(p)' /\ TargetKnown'
PROOF
  <1> USE NoneAssumption, ProcFacts, InvFacts
      DEF diskVars, jobVars, osVars, runVars, ctlVars, histVars,
          Goto, At, Live, ProcInv, ContInv, OwnJobInv, OrphanInv, TargetKnown,
          CallLabels, StartLabels, RunnerConts, Working, Dead, ProcState
  <1>i. ProcInv(p) /\ ProcInv(Server) /\ TargetKnown
    BY DEF IInv
  <1>1. ASSUME NEW s \in Studies, StudyRun(s)
        PROVE  ProcInv(p)' /\ TargetKnown'
    BY <1>1, <1>i DEF StudyRun, Idle, Save, SaveBegins
  <1>2. ASSUME NEW s \in Studies, StudyStatusCall(s)
        PROVE  ProcInv(p)' /\ TargetKnown'
    <2>1. study[s].job \in Runners
      BY <1>2 DEF StudyStatusCall, IInv, TypeOK, Study
    <2> QED
      BY <1>2, <1>i, <2>1 DEF StudyStatusCall, Idle
  <1>3. ASSUME NEW s \in Studies, StudyCancel(s)
        PROVE  ProcInv(p)' /\ TargetKnown'
    <2>1. study[s].job \in Runners \union {None} /\ study[s].pid \in Runners \union {None}
      BY DEF IInv, TypeOK, Study
    <2> QED
      BY <1>3, <1>i, <2>1 DEF StudyCancel, Idle
  <1>4. CASE OtherSpawn
    BY <1>4, <1>i DEF OtherSpawn, Idle, Reaped
  <1>5. CASE ServerRestart
    BY <1>5, <1>i DEF ServerRestart, EndCall, Reaped
  <1> QED
    BY <1>1, <1>2, <1>3, <1>4, <1>5 DEF ToolCall

LEMMA InitInv == Init => IInv
PROOF
  <1> SUFFICES ASSUME Init PROVE IInv
    OBVIOUS
  <1>1. TypeOK
    BY InitTypes
  <1>2. TargetKnown /\ \A p \in Procs : ProcInv(p)
    BY ProcFacts
    DEF Init, TargetKnown, CallLabels, ProcInv, ContInv, OwnJobInv, OrphanInv, Live
  <1> QED
    BY <1>1, <1>2 DEF IInv

LEMMA StepInv == IInv /\ [Next]_vars => IInv'
PROOF
  <1> SUFFICES ASSUME IInv, [Next]_vars PROVE IInv'
    OBVIOUS
  <1>1. TypeOK'
    BY RunnerStepTypes, ServerStepTypes, OtherStepTypes, StutterTypes DEF Next, IInv
  <1>2. ASSUME NEW p \in Procs
        PROVE  ProcInv(p)' /\ TargetKnown'
    <2>1. CASE Next
      BY <2>1, RunnerStepInv, ServerStepInv, OtherStepInv DEF Next
    <2>2. CASE UNCHANGED vars
      BY <2>2 DEF vars, diskVars, jobVars, osVars, ctlVars, IInv, ProcInv, ContInv,
                  OwnJobInv, OrphanInv, TargetKnown, Live, Working, Dead
    <2> QED
      BY <2>1, <2>2
  <1> QED
    BY <1>1, <1>2, ProcFacts DEF IInv

LEMMA Invariance == Spec => []IInv
  BY InitInv, StepInv, PTL DEF Spec

\* In every reachable state every variable holds a value the code could hold.
THEOREM TypeCorrect == Spec => []TypeOK
PROOF
  <1>1. IInv => TypeOK
    BY DEF IInv
  <1> QED
    BY <1>1, Invariance, PTL

\* No status call, restarted server or other runner ever takes the job of a
\* runner that is alive for orphaned.
THEOREM LiveJobSafe == Spec => []LiveRunnerKeepsJob
PROOF
  <1>1. IInv => LiveRunnerKeepsJob
    BY ProcFacts DEF IInv, ProcInv, LiveRunnerKeepsJob, OwnJobInv
  <1> QED
    BY <1>1, Invariance, PTL
(***************************************************************************)
(* The refinement: every step of the study system is a step of the job     *)
(* life cycle or leaves job.json alone.                                    *)
(***************************************************************************)
\* The record of job j is written with status s.
Writes(j, s) == j \in Runners /\ job' = [job EXCEPT ![j] = s]

\* A write the life cycle allows, or one that changes nothing.
LEMMA AllowedWrite ==
  ASSUME job \in [Runners -> JobStatus \union {"none"}], NEW j, NEW s, Writes(j, s),
         \/ job[j] = "none" /\ s = "pending"
         \/ job[j] = "pending" /\ s = "running"
         \/ job[j] = "running" /\ s \in {"complete", "failed", "cancelled"}
         \/ job[j] = s
  PROVE  [Lifecycle!Next]_job
PROOF
  <1>1. CASE job[j] = "none" /\ s = "pending"
    BY <1>1 DEF Writes, Lifecycle!Next, Lifecycle!Create
  <1>2. CASE job[j] = "pending" /\ s = "running"
    <2>1. Lifecycle!Move(j, s)
      BY <1>2 DEF Writes, Lifecycle!Move, Lifecycle!AllowedTransitions
    <2> QED
      BY <1>2, <2>1 DEF Writes, Lifecycle!Next, Lifecycle!JobStatus
  <1>3. CASE job[j] = "running" /\ s \in {"complete", "failed", "cancelled"}
    <2>1. Lifecycle!Move(j, s)
      BY <1>3 DEF Writes, Lifecycle!Move, Lifecycle!AllowedTransitions, Lifecycle!Terminal
    <2> QED
      BY <1>3, <2>1 DEF Writes, Lifecycle!Next, Lifecycle!JobStatus
  <1>4. CASE job[j] = s
    BY <1>4 DEF Writes
  <1> QED
    BY <1>1, <1>2, <1>3, <1>4

LEMMA RunnerRefines ==
  ASSUME IInv, NEW r \in Runners, RunnerStep(r) \/ Environment(r)
  PROVE  [Lifecycle!Next]_job
PROOF
  <1> USE ProcFacts, InvFacts DEF Runs, At, Live, WriteJob, Writes
  <1>i. ProcInv(r)
    BY DEF IInv
  <1>1. CASE CreateJob(r)
    <2>1. job[r] = "none"
      BY <1>1, <1>i DEF CreateJob, ProcInv, OwnJobInv, StartLabels
    <2> QED
      BY <1>1, <2>1, AllowedWrite DEF CreateJob
  <1>2. CASE MarkWrite(r)
    <2>1. job[r] = "pending"
      BY <1>2, <1>i DEF MarkWrite, ProcInv, OwnJobInv
    <2> QED
      BY <1>2, <2>1, AllowedWrite DEF MarkWrite
  <1>3. CASE BeatWrite(r) \/ FinishWrite(r) \/ FailWrite(r)
    <2>1. job[r] = "running"
      BY <1>3, <1>i DEF BeatWrite, FinishWrite, FailWrite, ProcInv, OwnJobInv, Working
    <2>2. JobOutcome(mem[r].status) \in {"complete", "failed", "cancelled"}
      BY DEF JobOutcome
    <2>3. \E s \in {"running", "complete", "failed", "cancelled"} : Writes(r, s)
      BY <1>3, <2>2 DEF BeatWrite, FinishWrite, FailWrite
    <2> QED
      BY <2>1, <2>3, AllowedWrite
  <1>4. CASE RecoverWrite(r)
    <2>1. tgt[r] \in Runners /\ job[tgt[r]] \in {"running", "failed"}
      BY <1>4, <1>i DEF RecoverWrite, ProcInv, OrphanInv
    <2> QED
      BY <1>4, <2>1, AllowedWrite DEF RecoverWrite
  <1>5. CASE UNCHANGED job
    BY <1>5
  <1>6. RunnerStep(r) \/ Environment(r) =>
          \/ CreateJob(r) \/ MarkWrite(r) \/ BeatWrite(r) \/ FinishWrite(r)
          \/ FailWrite(r) \/ RecoverWrite(r) \/ UNCHANGED job
    BY DEF RunnerStep, Environment, jobVars, RunnerDies,
           InstallHandler, LoadStudy, ResetFlag, ListJobs, RecoverRead, RecoverCheck,
           RecoverLoad, RecoverDone, ReloadStudy, MarkLoad, StartCoarse, PollCancelled,
           LaunchEvaluator, Collect, BeatLoad, CoarseDone, RankCoarse, RefinedDone,
           EndDriver, FinishLoad, MarkCrashed, RunnerExit, OpenStudy, WriteStudy,
           EvaluatorExit, EvaluatorTimeout, DriverRaise, RunnerKilled, PidReuse
  <1> QED
    BY <1>1, <1>2, <1>3, <1>4, <1>5, <1>6

LEMMA ServerRefines ==
  ASSUME IInv, ServerStep
  PROVE  [Lifecycle!Next]_job
PROOF
  <1> USE ProcFacts, InvFacts DEF At, WriteJob, Writes
  <1>1. CASE StatusFinishWrite
    <2>1. tgt[Server] \in Runners /\ job[tgt[Server]] \in {"running", "failed"}
      BY <1>1 DEF StatusFinishWrite, IInv, ProcInv, OrphanInv
    <2> QED
      BY <1>1, <2>1, AllowedWrite DEF StatusFinishWrite
  <1>2. CASE UNCHANGED job
    BY <1>2
  <1>3. ServerStep => StatusFinishWrite \/ UNCHANGED job
    BY DEF ServerStep, jobVars,
           SpawnRunner, StatusLoadJob, StatusAlive, StatusFinishLoad, CancelTouchFlag,
           CancelSignal, CancelByPid, OpenStudy, WriteStudy
  <1> QED
    BY <1>1, <1>2, <1>3

\* finish, heartbeat and mark_running are unlocked read-modify-writes by several
\* processes, yet every job record keeps to the table of allowed transitions.
THEOREM JobRefinement == Spec => JobsFollowLifecycle
PROOF
  <1>1. Init => Lifecycle!Init
    BY DEF Init, Lifecycle!Init
  <1>2. IInv /\ [Next]_vars => [Lifecycle!Next]_job
    <2> SUFFICES ASSUME IInv, [Next]_vars PROVE [Lifecycle!Next]_job
      OBVIOUS
    <2>1. CASE (\E s \in Studies : ToolCall(s)) \/ OtherSpawn \/ ServerRestart
      BY <2>1 DEF ToolCall, StudyRun, StudyStatusCall, StudyCancel, OtherSpawn,
                  ServerRestart, jobVars
    <2>2. CASE UNCHANGED vars
      BY <2>2 DEF vars, jobVars
    <2> QED
      BY <2>1, <2>2, RunnerRefines, ServerRefines DEF Next
  <1> QED
    BY <1>1, <1>2, Invariance, PTL DEF Spec, JobsFollowLifecycle, Lifecycle!Spec

(***************************************************************************)
(* Cancelling.  A cancel, once visible, stays visible: the flag file is    *)
(* never removed and the only reset of _CANCELLED comes before the job     *)
(* exists.  So a sweep that counted a late evaluator will stop at its next *)
(* poll, and a study that a sweep found cancelled was cancelled.           *)
(***************************************************************************)
SweepLabels == {"poll", "launch", "wait", "beat", "beatWrite", "rank", "end",
                "finish", "finishWrite"}

\* r has started its sweep and has not finished its job.
Sweeping(r) ==
  \/ pc[r] \in SweepLabels
  \/ pc[r] \in {"open", "write"} /\ cont[r] \in {"poll", "beat", "rank", "end", "finish"}

CancelledInv(r) ==
  /\ job[r] = "cancelled" => CancelVisible(r)
  /\ Live(r) /\ Sweeping(r) /\ mem[r].status = "cancelled" => CancelVisible(r)

LateInv(r) ==
  /\ late[r] <= 1
  /\ proc[r] = "unborn" => late[r] = 0
  /\ Live(r) /\ pc[r] \in StartLabels \union {"mark", "markWrite", "launch"} => late[r] = 0
  /\ Live(r) /\ late[r] # 0 => CancelVisible(r)

CancelInv(r) == CancelledInv(r) /\ LateInv(r)

LEMMA CancelFacts ==
  ASSUME IInv
  PROVE  /\ mem \in [Procs -> Study] /\ late \in [Runners -> Nat]
         /\ sig \in [Runners -> BOOLEAN] /\ flag \in [Runners -> BOOLEAN]
         /\ study \in [Studies -> Study]
  BY DEF IInv, TypeOK

\* The steps of one runner leave the invariant true of every runner.
LEMMA CancelRunnerStep ==
  ASSUME IInv, NEW r \in Runners, RunnerStep(r) \/ Environment(r),
         NEW q \in Runners, CancelInv(q)
  PROVE  CancelInv(q)'
PROOF
  <1> USE NoneAssumption, ProcFacts, InvFacts, CancelFacts
      DEF diskVars, jobVars, osVars, runVars, ctlVars, histVars, Study,
          Goto, Runs, At, Live, CancelVisible, CancelInv, CancelledInv, LateInv,
          SweepLabels, StartLabels, Sweeping, ProcState
  <1>i. ProcInv(r) /\ ProcInv(q)
    BY DEF IInv
  <1>1. CASE InstallHandler(r)
    BY <1>1, <1>i DEF InstallHandler
  <1>2. CASE LoadStudy(r)
    BY <1>2, <1>i DEF LoadStudy
  <1>3. CASE ResetFlag(r)
    BY <1>3, <1>i DEF ResetFlag, ProcInv, OwnJobInv
  <1>4. CASE ListJobs(r)
    BY <1>4, <1>i DEF ListJobs
  <1>5. CASE RecoverRead(r)
    BY <1>5, <1>i DEF RecoverRead
  <1>6. CASE RecoverCheck(r)
    BY <1>6, <1>i DEF RecoverCheck
  <1>7. CASE RecoverLoad(r)
    BY <1>7, <1>i DEF RecoverLoad, LoadToFinish
  <1>8. CASE RecoverWrite(r)
    BY <1>8, <1>i DEF RecoverWrite, WriteJob, ProcInv, OrphanInv
  <1>9. CASE RecoverDone(r)
    BY <1>9, <1>i DEF RecoverDone
  <1>10. CASE ReloadStudy(r)
    BY <1>10, <1>i DEF ReloadStudy
  <1>11. CASE CreateJob(r)
    BY <1>11, <1>i DEF CreateJob, WriteJob
  <1>12. CASE MarkLoad(r)
    BY <1>12, <1>i DEF MarkLoad
  <1>13. CASE MarkWrite(r)
    BY <1>13, <1>i DEF MarkWrite, WriteJob, Save, SaveBegins
  <1>14. CASE StartCoarse(r)
    BY <1>14, <1>i DEF StartCoarse, Save, SaveBegins
  <1>15. CASE PollCancelled(r)
    BY <1>15, <1>i DEF PollCancelled, Save, SaveBegins
  <1>16. CASE LaunchEvaluator(r)
    BY <1>16, <1>i DEF LaunchEvaluator
  <1>17. CASE Collect(r)
    BY <1>17, <1>i DEF Collect, Save, SaveBegins
  <1>18. CASE BeatLoad(r)
    BY <1>18, <1>i DEF BeatLoad
  <1>19. CASE BeatWrite(r)
    BY <1>19, <1>i DEF BeatWrite, WriteJob
  <1>20. CASE CoarseDone(r)
    BY <1>20, <1>i DEF CoarseDone, Save, SaveBegins
  <1>21. CASE RankCoarse(r)
    BY <1>21, <1>i DEF RankCoarse, Save, SaveBegins
  <1>22. CASE RefinedDone(r)
    BY <1>22, <1>i DEF RefinedDone, Save, SaveBegins
  <1>23. CASE EndDriver(r)
    BY <1>23, <1>i DEF EndDriver, Save, SaveBegins
  <1>24. CASE FinishLoad(r)
    BY <1>24, <1>i DEF FinishLoad, LoadToFinish
  <1>25. CASE FinishWrite(r)
    BY <1>25, <1>i DEF FinishWrite, WriteJob, JobOutcome
  <1>26. CASE FailWrite(r)
    BY <1>26, <1>i DEF FailWrite, WriteJob
  <1>27. CASE MarkCrashed(r)
    BY <1>27, <1>i DEF MarkCrashed, Save, SaveBegins
  <1>28. CASE RunnerExit(r)
    BY <1>28, <1>i DEF RunnerExit, RunnerDies, Ended, NewStudy
  <1>29. CASE OpenStudy(r)
    BY <1>29, <1>i DEF OpenStudy
  <1>30. CASE WriteStudy(r)
    BY <1>30, <1>i DEF WriteStudy, EndCall, NewStudy, ProcInv, ContInv, RunnerConts
  <1>31. CASE EvaluatorExit(r)
    BY <1>31, <1>i DEF EvaluatorExit
  <1>32. CASE EvaluatorTimeout(r)
    BY <1>32, <1>i DEF EvaluatorTimeout, Save, SaveBegins
  <1>33. CASE DriverRaise(r)
    BY <1>33, <1>i DEF DriverRaise, Save, SaveBegins
  <1>34. CASE RunnerKilled(r)
    BY <1>34, <1>i DEF RunnerKilled, RunnerDies, Ended, NewStudy
  <1>35. CASE PidReuse(r)
    BY <1>35, <1>i DEF PidReuse
  <1> QED
    BY <1>1, <1>2, <1>3, <1>4, <1>5, <1>6, <1>7, <1>8, <1>9, <1>10, <1>11,
       <1>12, <1>13, <1>14, <1>15, <1>16, <1>17, <1>18, <1>19, <1>20, <1>21,
       <1>22, <1>23, <1>24, <1>25, <1>26, <1>27, <1>28, <1>29, <1>30, <1>31,
       <1>32, <1>33, <1>34, <1>35
    DEF RunnerStep, Environment

\* The same of the server's steps and calls, another subprocess and a restart.
LEMMA CancelOtherStep ==
  ASSUME IInv, NEW q \in Runners, CancelInv(q),
         ServerStep \/ (\E s \in Studies : ToolCall(s)) \/ OtherSpawn \/ ServerRestart
  PROVE  CancelInv(q)'
PROOF
  <1> USE NoneAssumption, ProcFacts, InvFacts, CancelFacts
      DEF diskVars, jobVars, osVars, runVars, ctlVars, histVars, Study,
          Goto, At, Live, CancelVisible, CancelInv, CancelledInv, LateInv,
          SweepLabels, StartLabels, Sweeping, ProcState
  <1>i. ProcInv(Server) /\ ProcInv(q) /\ TargetKnown
    BY DEF IInv
  <1>1. CASE SpawnRunner
    <2>1. PICK r \in Runners :
            /\ proc[r] = "unborn"
            /\ proc' = [Reaped EXCEPT ![r] = "live"]
            /\ pc' = [pc EXCEPT ![r] = "boot", ![Server] = SaveBegins]
            /\ mem' = [mem EXCEPT ![Server].pid = r]
      BY <1>1 DEF SpawnRunner
    <2>2. UNCHANGED <<job, flag, sig, late>> /\ cont' = [cont EXCEPT ![Server] = "idle"]
      BY <1>1 DEF SpawnRunner
    <2> QED
      BY <2>1, <2>2 DEF Reaped
  <1>2. CASE StatusLoadJob
    BY <1>2 DEF StatusLoadJob
  <1>3. CASE StatusAlive
    BY <1>3 DEF StatusAlive, EndCall, StatusRecoverStudy, Save, SaveBegins
  <1>4. CASE StatusFinishLoad
    BY <1>4 DEF StatusFinishLoad, EndCall
  <1>5. CASE StatusFinishWrite
    BY <1>5, <1>i DEF StatusFinishWrite, WriteJob, EndCall, StatusRecoverStudy, Save, SaveBegins,
                      ProcInv, OrphanInv
  <1>6. CASE CancelTouchFlag
    BY <1>6, <1>i DEF CancelTouchFlag, TargetKnown, CallLabels
  <1>7. CASE CancelSignal
    BY <1>7, <1>i DEF CancelSignal, TerminateAndEnd, Ended, TargetKnown, CallLabels
  <1>8. CASE CancelByPid
    BY <1>8, <1>i DEF CancelByPid, TerminateAndEnd, Ended, TargetKnown, CallLabels
  <1>9. CASE OpenStudy(Server)
    BY <1>9 DEF OpenStudy
  <1>10. CASE WriteStudy(Server)
    BY <1>10, <1>i DEF WriteStudy, EndCall, ProcInv, ContInv
  <1>11. ASSUME NEW s \in Studies, ToolCall(s) PROVE CancelInv(q)'
    BY <1>11 DEF ToolCall, StudyRun, StudyStatusCall, StudyCancel, Idle, Save, SaveBegins
  <1>12. CASE OtherSpawn
    BY <1>12 DEF OtherSpawn, Reaped
  <1>13. CASE ServerRestart
    BY <1>13 DEF ServerRestart, EndCall, Reaped
  <1> QED
    BY <1>1, <1>2, <1>3, <1>4, <1>5, <1>6, <1>7, <1>8, <1>9, <1>10, <1>11, <1>12, <1>13
    DEF ServerStep

LEMMA CancelInvariance == Spec => [](\A q \in Runners : CancelInv(q))
PROOF
  <1>1. Init => \A q \in Runners : CancelInv(q)
    BY ProcFacts DEF Init, CancelInv, CancelledInv, LateInv, Live
  <1>2. IInv /\ (\A q \in Runners : CancelInv(q)) /\ [Next]_vars
          => (\A q \in Runners : CancelInv(q))'
    <2> SUFFICES ASSUME IInv, [Next]_vars, NEW q \in Runners, CancelInv(q) PROVE CancelInv(q)'
      OBVIOUS
    <2>1. CASE Next
      BY <2>1, CancelRunnerStep, CancelOtherStep DEF Next
    <2>2. CASE UNCHANGED vars
      BY <2>2 DEF vars, jobVars, osVars, ctlVars, histVars, CancelInv, CancelledInv, LateInv,
                  CancelVisible, Live, Sweeping
    <2> QED
      BY <2>1, <2>2
  <1> QED
    BY <1>1, <1>2, Invariance, PTL DEF Spec

\* A job ends CANCELLED only if its runner or its job was told to cancel, and
\* never because the sweep failed or crashed.
THEOREM CancelledMeansRequested == Spec => []CancelledOnlyOnRequest
PROOF
  <1>1. (\A q \in Runners : CancelInv(q)) => CancelledOnlyOnRequest
    BY DEF CancelInv, CancelledInv, CancelVisible, CancelledOnlyOnRequest
  <1> QED
    BY <1>1, CancelInvariance, PTL

\* At most one evaluator starts after a runner could have seen its cancel.
THEOREM CancelStops == Spec => []CancelStopsSweep
PROOF
  <1>1. (\A q \in Runners : CancelInv(q)) => CancelStopsSweep
    BY DEF CancelInv, LateInv, CancelStopsSweep
  <1> QED
    BY <1>1, CancelInvariance, PTL

(***************************************************************************)
(* A result is kept.  As long as no study is run again beside a live       *)
(* runner, a study has one live runner, which is the only one to complete  *)
(* it; and a server that takes a study's runner for dead, having started   *)
(* it, has a copy from before which nobody is left to go on with.          *)
(***************************************************************************)
NoneOn(s) == \A r \in Runners : Live(r) => sid[r] # s

\* Runner r has come to the end of its sweeps.
Swept(r) ==
  \/ pc[r] \in {"end", "finish", "finishWrite"}
  \/ pc[r] \in {"open", "write"} /\ cont[r] \in {"end", "finish"}

OneEach ==
  \A q, r \in Runners : Live(q) /\ Live(r) /\ sid[q] = sid[r] /\ sid[r] \notin doubled => q = r

\* What a runner, alone on its study, has of it in memory and finds in the file.
KeptRunner(r) ==
  /\ ~Live(r) => pc[r] \in {"unborn", "dead"}
  /\ proc[r] = "unborn" => mem[r].status = "draft"
  /\ Live(r) /\ Working(r) => mem[r].job = r
  /\ Live(r) /\ sid[r] \notin doubled =>
       /\ mem[r].status = "complete" => Swept(r) \/ pc[r] = "exit"
       /\ mem[r].status \in RunningStates => mem[r].job = r
       /\ study[sid[r]].status = "complete" => pc[r] = "exit" \/ (Swept(r) /\ mem[r].status = "complete")
       /\ study[sid[r]].status \in RunningStates => study[sid[r]].job = r

\* What the server knows of the study its call is about.
KeptServer ==
  /\ pc[Server] \in {"open", "write"} => mem[Server].status \in {"draft", "failed"}
  /\ pc[Server] \in {"open", "write"} /\ cont[Server] = "spawn" => mem[Server].status = "draft"
  /\ pc[Server] = "spawn" => mem[Server].status = "draft"
  /\ sid[Server] \notin doubled =>
       /\ pc[Server] \in {"open", "write"} /\ cont[Server] = "spawn" => NoneOn(sid[Server])
       /\ pc[Server] = "spawn" => NoneOn(sid[Server]) /\ study[sid[Server]].status = "draft"

\* What a server that was not restarted knows of the study it takes for orphaned.
KeptOrphan ==
  /\ \A r \in Runners : reaper[r] = Server
  /\ sid[Server] \notin doubled =>
       /\ pc[Server] \in {"open", "write"} /\ mem[Server].status = "failed"
            => NoneOn(sid[Server]) /\ study[sid[Server]].status # "complete"
       /\ pc[Server] \in {"statusJob", "statusAlive"} /\ mem[Server].status \in RunningStates
            => /\ \A r \in Runners : Live(r) /\ sid[r] = sid[Server] => r = tgt[Server]
               /\ study[sid[Server]].status = "complete" => proc[tgt[Server]] \in {"live", "zombie"}
       /\ pc[Server] \in {"statusFinish", "statusWrite"} /\ mem[Server].status \in RunningStates
            => NoneOn(sid[Server]) /\ study[sid[Server]].status # "complete"

KeptInv ==
  /\ OneEach
  /\ \A r \in Runners : KeptRunner(r)
  /\ KeptServer
  /\ restarted = FALSE => KeptOrphan

LEMMA KeptFacts ==
  ASSUME IInv
  PROVE  /\ mem \in [Procs -> Study] /\ study \in [Studies -> Study] /\ restarted \in BOOLEAN
         /\ doubled \subseteq Studies
  BY DEF IInv, TypeOK

\* What a step of one runner, or what happens to it, leaves alone.
LEMMA RunnerFrame ==
  ASSUME IInv, KeptInv, NEW r \in Runners, RunnerStep(r) \/ Environment(r)
  PROVE  /\ UNCHANGED <<sid, reaper, restarted, doubled>>
         /\ tgt'[Server] = tgt[Server]
         /\ \A p \in Procs : p # r => pc'[p] = pc[p] /\ mem'[p] = mem[p] /\ cont'[p] = cont[p]
         /\ \A q \in Runners : q # r => proc'[q] = proc[q]
         /\ \/ proc'[r] = proc[r]
            \/ proc[r] = "live" /\ proc'[r] = Ended(r)
            \/ proc[r] = "gone" /\ proc'[r] = "reused"
         /\ \/ study' = study
            \/ Live(r) /\ pc[r] = "write" /\ study' = [study EXCEPT ![sid[r]] = mem[r]]
PROOF
  <1> USE ProcFacts, InvFacts, KeptFacts
      DEF diskVars, jobVars, osVars, runVars, ctlVars, histVars, Goto, Runs, At, Live
  <1>i. ContInv(r) /\ KeptRunner(r)
    BY DEF IInv, ProcInv, KeptInv
  <1>1. CASE InstallHandler(r) \/ ResetFlag(r) \/ ListJobs(r) \/ RecoverDone(r) \/ CreateJob(r) \/ MarkLoad(r)
             \/ BeatLoad(r) \/ BeatWrite(r) \/ FinishWrite(r) \/ FailWrite(r) \/ LaunchEvaluator(r)
    BY <1>1 DEF InstallHandler, ResetFlag, ListJobs, RecoverDone, CreateJob, MarkLoad, BeatLoad, BeatWrite,
       FinishWrite, FailWrite, LaunchEvaluator, WriteJob
  <1>2. CASE LoadStudy(r) \/ ReloadStudy(r)
    BY <1>2 DEF LoadStudy, ReloadStudy
  <1>3. CASE RecoverRead(r) \/ RecoverCheck(r) \/ RecoverLoad(r) \/ RecoverWrite(r) \/ FinishLoad(r)
    BY <1>3 DEF RecoverRead, RecoverCheck, RecoverLoad, RecoverWrite, FinishLoad, LoadToFinish, WriteJob
  <1>4. CASE MarkWrite(r) \/ StartCoarse(r) \/ PollCancelled(r) \/ Collect(r) \/ CoarseDone(r) \/ RankCoarse(r)
             \/ RefinedDone(r) \/ EndDriver(r) \/ MarkCrashed(r) \/ EvaluatorTimeout(r) \/ DriverRaise(r)
    BY <1>4 DEF MarkWrite, StartCoarse, PollCancelled, Collect, CoarseDone, RankCoarse, RefinedDone, EndDriver,
       MarkCrashed, EvaluatorTimeout, DriverRaise, Save, WriteJob
  <1>5. CASE RunnerExit(r) \/ RunnerKilled(r)
    BY <1>5 DEF RunnerExit, RunnerKilled, RunnerDies
  <1>6. CASE EvaluatorExit(r) \/ PidReuse(r)
    BY <1>6 DEF EvaluatorExit, PidReuse
  <1>7. CASE OpenStudy(r)
    BY <1>7 DEF OpenStudy
  <1>8. CASE WriteStudy(r)
    <2>1. proc[r] = "live" /\ cont[r] # "idle"
      BY <1>8, <1>i DEF WriteStudy, ContInv, RunnerConts, KeptRunner
    <2> QED
      BY <1>8, <2>1 DEF WriteStudy
  <1> QED
    BY <1>1, <1>2, <1>3, <1>4, <1>5, <1>6, <1>7, <1>8 DEF RunnerStep, Environment

\* A runner's step keeps what it knows of its own study.
LEMMA RunnerKept ==
  ASSUME IInv, KeptInv, NEW r \in Runners, RunnerStep(r) \/ Environment(r)
  PROVE  KeptRunner(r)'
PROOF
  <1> USE ProcFacts, InvFacts, KeptFacts, RunnerFrame
      DEF diskVars, jobVars, osVars, runVars, ctlVars, histVars, Study, RunningStates,
          Goto, Runs, At, Live, KeptRunner, Swept, Working, ProcState
  <1>i. ContInv(r) /\ KeptRunner(r) /\ OwnJobInv(r)
    BY DEF IInv, ProcInv, KeptInv
  <1>s. UNCHANGED <<sid, doubled>>
    OBVIOUS
  <1>1. CASE InstallHandler(r) \/ ResetFlag(r) \/ ListJobs(r) \/ RecoverDone(r)
    BY <1>1, <1>i, <1>s DEF InstallHandler, ResetFlag, ListJobs, RecoverDone
  <1>2. CASE LoadStudy(r)
    BY <1>2, <1>i, <1>s DEF LoadStudy
  <1>3. CASE ReloadStudy(r)
    BY <1>3, <1>i, <1>s DEF ReloadStudy
  <1>4. CASE RecoverRead(r)
    BY <1>4, <1>i, <1>s DEF RecoverRead
  <1>5. CASE RecoverCheck(r)
    BY <1>5, <1>i, <1>s DEF RecoverCheck
  <1>6. CASE RecoverLoad(r)
    BY <1>6, <1>i, <1>s DEF RecoverLoad, LoadToFinish
  <1>7. CASE RecoverWrite(r)
    BY <1>7, <1>i, <1>s DEF RecoverWrite
  <1>8. CASE CreateJob(r)
    BY <1>8, <1>i, <1>s DEF CreateJob
  <1>9. CASE MarkLoad(r)
    BY <1>9, <1>i, <1>s DEF MarkLoad
  <1>10. CASE MarkWrite(r)
    BY <1>10, <1>i, <1>s DEF MarkWrite, Save, SaveBegins
  <1>11. CASE StartCoarse(r)
    BY <1>11, <1>i, <1>s DEF StartCoarse, Save, SaveBegins
  <1>12. CASE PollCancelled(r)
    BY <1>12, <1>i, <1>s DEF PollCancelled, Save, SaveBegins
  <1>13. CASE LaunchEvaluator(r)
    BY <1>13, <1>i, <1>s DEF LaunchEvaluator
  <1>14. CASE Collect(r)
    BY <1>14, <1>i, <1>s DEF Collect, Save, SaveBegins
  <1>15. CASE EvaluatorTimeout(r)
    BY <1>15, <1>i, <1>s DEF EvaluatorTimeout, Save, SaveBegins
  <1>16. CASE BeatLoad(r)
    BY <1>16, <1>i, <1>s DEF BeatLoad
  <1>17. CASE BeatWrite(r)
    BY <1>17, <1>i, <1>s DEF BeatWrite
  <1>18. CASE CoarseDone(r)
    BY <1>18, <1>i, <1>s DEF CoarseDone, Save, SaveBegins
  <1>19. CASE RankCoarse(r)
    <2>1. PICK st \in {"running_refined", "failed"} :
            mem' = [mem EXCEPT ![r] = [mem[r] EXCEPT !.status = st]]
      BY <1>19 DEF RankCoarse, Save
    <2>2. /\ pc' = [pc EXCEPT ![r] = SaveBegins] /\ pc[r] = "rank" /\ SaveBegins \in {"open", "write"}
          /\ proc' = proc /\ proc[r] = "live" /\ study' = study /\ sid' = sid
      BY <1>19 DEF RankCoarse, Save, SaveBegins
    <2>3. cont'[r] # "exit"
      BY <1>19 DEF RankCoarse, Save
    <2> QED
      BY <1>i, <1>s, <2>1, <2>2, <2>3
  <1>20. CASE RefinedDone(r)
    BY <1>20, <1>i, <1>s DEF RefinedDone, Save, SaveBegins
  <1>21. CASE DriverRaise(r)
    BY <1>21, <1>i, <1>s DEF DriverRaise, Save, SaveBegins
  <1>22. CASE EndDriver(r)
    BY <1>22, <1>i, <1>s DEF EndDriver, Save, SaveBegins
  <1>23. CASE FinishLoad(r)
    BY <1>23, <1>i, <1>s DEF FinishLoad, LoadToFinish, OwnJobInv
  <1>24. CASE FinishWrite(r)
    BY <1>24, <1>i, <1>s DEF FinishWrite
  <1>25. CASE FailWrite(r)
    BY <1>25, <1>i, <1>s DEF FailWrite
  <1>26. CASE MarkCrashed(r)
    BY <1>26, <1>i, <1>s DEF MarkCrashed, Save, SaveBegins
  <1>27. CASE RunnerExit(r) \/ RunnerKilled(r)
    BY <1>27, <1>i, <1>s DEF RunnerExit, RunnerKilled, RunnerDies, Ended
  <1>28. CASE EvaluatorExit(r) \/ PidReuse(r)
    BY <1>28, <1>i, <1>s DEF EvaluatorExit, PidReuse
  <1>29. CASE OpenStudy(r)
    BY <1>29, <1>i, <1>s DEF OpenStudy
  <1>30. CASE WriteStudy(r)
    BY <1>30, <1>i, <1>s DEF WriteStudy, ContInv, RunnerConts
  <1> QED
    BY <1>1, <1>2, <1>3, <1>4, <1>5, <1>6, <1>7, <1>8, <1>9, <1>10, <1>11, <1>12, <1>13, <1>14, <1>15,
       <1>16, <1>17, <1>18, <1>19, <1>20, <1>21, <1>22, <1>23, <1>24, <1>25, <1>26, <1>27, <1>28, <1>29, <1>30
    DEF RunnerStep, Environment

LEMMA RunnerStepKept ==
  ASSUME IInv, KeptInv, NEW r \in Runners, RunnerStep(r) \/ Environment(r)
  PROVE  KeptInv'
PROOF
  <1> USE ProcFacts, InvFacts, KeptFacts DEF Live, ProcState
  <1>1. KeptRunner(r)' /\ KeptRunner(r)
    BY RunnerKept DEF KeptInv
  <1>2. /\ UNCHANGED <<sid, reaper, restarted, doubled>> /\ tgt'[Server] = tgt[Server]
        /\ \A p \in Procs : p # r => pc'[p] = pc[p] /\ mem'[p] = mem[p] /\ cont'[p] = cont[p]
        /\ \A q \in Runners : proc'[q] = "live" => proc[q] = "live"
        /\ \A q \in Runners : q # r => proc'[q] = proc[q]
        /\ \A s \in Studies : study'[s] = study[s] \/ (proc[r] = "live" /\ s = sid[r])
    BY RunnerFrame DEF Ended
  <1>3. OneEach'
    BY <1>2 DEF KeptInv, OneEach
  <1>4. ASSUME NEW q \in Runners, q # r PROVE KeptRunner(q)'
    <2>1. proc[q] = "live" /\ sid[q] \notin doubled => study'[sid[q]] = study[sid[q]]
      BY <1>2, <1>4 DEF KeptInv, OneEach
    <2>2. KeptRunner(q)
      BY DEF KeptInv
    <2>3. pc'[q] = pc[q] /\ mem'[q] = mem[q] /\ cont'[q] = cont[q] /\ proc'[q] = proc[q]
          /\ sid'[q] = sid[q] /\ doubled' = doubled
      BY <1>2, <1>4
    <2> QED
      BY <2>1, <2>2, <2>3 DEF KeptRunner, Swept, Working
  <1>5. /\ pc'[Server] = pc[Server] /\ mem'[Server] = mem[Server] /\ cont'[Server] = cont[Server]
        /\ sid'[Server] = sid[Server] /\ doubled' = doubled
    BY <1>2
  <1>6. NoneOn(sid[Server]) => NoneOn(sid[Server])' /\ study'[sid[Server]] = study[sid[Server]]
    BY <1>2 DEF NoneOn
  <1>7. KeptServer'
    BY <1>5, <1>6 DEF KeptInv, KeptServer
  <1>8. ASSUME restarted' = FALSE PROVE KeptOrphan'
    <2>1. KeptOrphan
      BY <1>2, <1>8 DEF KeptInv
    <2>2. \A q \in Runners : reaper'[q] = Server
      BY <1>2, <2>1 DEF KeptOrphan
    <2>3. proc[tgt[Server]] \in {"live", "zombie"} /\ tgt[Server] \in Runners
            => proc'[tgt[Server]] \in {"live", "zombie"}
      BY <2>1, RunnerFrame DEF KeptOrphan, Ended
    <2>4. ASSUME sid[Server] \notin doubled, pc[Server] \in {"statusJob", "statusAlive"},
                 mem[Server].status \in RunningStates, study'[sid[Server]].status = "complete"
          PROVE  proc'[tgt[Server]] \in {"live", "zombie"}
      <3>1. tgt[Server] \in Runners
        BY <2>4 DEF IInv, TargetKnown, CallLabels
      <3>2. CASE study'[sid[Server]] = study[sid[Server]]
        BY <2>1, <2>3, <2>4, <3>1, <3>2 DEF KeptOrphan
      <3>3. CASE proc[r] = "live" /\ sid[Server] = sid[r]
        <4>1. tgt[Server] = r
          BY <2>1, <2>4, <3>3 DEF KeptOrphan
        <4> QED
          BY <2>3, <3>1, <3>3, <4>1
      <3> QED
        BY <1>2, <3>2, <3>3
    <2> QED
      BY <1>2, <1>5, <1>6, <2>1, <2>2, <2>4 DEF KeptOrphan
  <1> QED
    BY <1>1, <1>3, <1>4, <1>7, <1>8 DEF KeptInv

\* The steps of the server's call in progress.
LEMMA ServerStepKept ==
  ASSUME IInv, KeptInv, ServerStep
  PROVE  KeptInv'
PROOF
  <1> USE ProcFacts, InvFacts, KeptFacts
      DEF diskVars, jobVars, osVars, runVars, ctlVars, histVars, Study, RunningStates, NewStudy,
          Goto, At, Live, ProcState
  <1>i. ContInv(Server) /\ OneEach /\ KeptServer /\ (restarted = FALSE => KeptOrphan) /\ \A q \in Runners : KeptRunner(q)
    BY DEF IInv, ProcInv, KeptInv
  <1>1. CASE SpawnRunner
    <2> DEFINE s == sid[Server]
    <2>1. PICK r \in Runners :
            /\ proc[r] = "unborn"
            /\ proc' = [Reaped EXCEPT ![r] = "live"]
            /\ reaper' = [reaper EXCEPT ![r] = Server]
            /\ sid' = [sid EXCEPT ![r] = s]
            /\ pc' = [pc EXCEPT ![r] = "boot", ![Server] = SaveBegins]
            /\ mem' = [mem EXCEPT ![Server].pid = r]
      BY <1>1 DEF SpawnRunner
    <2>2. /\ UNCHANGED <<study, tgt, restarted, doubled>> /\ cont' = [cont EXCEPT ![Server] = "idle"]
          /\ pc[Server] = "spawn"
      BY <1>1 DEF SpawnRunner
    <2>3. mem[Server].status = "draft" /\ (s \notin doubled => NoneOn(s) /\ study[s].status = "draft")
      BY <1>i, <2>2 DEF KeptServer
    <2>4. /\ pc'[Server] \in {"open", "write"} /\ cont'[Server] = "idle" /\ mem'[Server].status = "draft"
          /\ sid'[Server] = s /\ sid'[r] = s /\ proc'[r] = "live" /\ pc'[r] = "boot"
          /\ mem'[r].status = "draft"
      BY <1>i, <2>1, <2>2, <2>3 DEF SaveBegins, KeptRunner, Reaped
    <2>5. ASSUME NEW q \in Runners, q # r
          PROVE  /\ proc'[q] = "live" <=> proc[q] = "live"
                 /\ proc'[q] = "unborn" <=> proc[q] = "unborn"
                 /\ sid'[q] = sid[q] /\ pc'[q] = pc[q] /\ cont'[q] = cont[q] /\ mem'[q] = mem[q]
      <3>1. proc'[q] = Reaped[q]
        BY <2>1, <2>5 DEF Reaped
      <3>2. (proc'[q] = "live" <=> proc[q] = "live") /\ (proc'[q] = "unborn" <=> proc[q] = "unborn")
        BY <2>5, <3>1 DEF Reaped
      <3>3. sid'[q] = sid[q] /\ pc'[q] = pc[q]
        BY <2>1, <2>5
      <3>4. cont'[q] = cont[q] /\ mem'[q] = mem[q]
        BY <2>1, <2>2, <2>5
      <3> QED
        BY <3>2, <3>3, <3>4
    <2>6. OneEach'
      <3>1. \A q \in Runners : q # r => (proc'[q] = "live" <=> proc[q] = "live") /\ sid'[q] = sid[q]
        BY <2>5
      <3>2. s \notin doubled => \A q \in Runners : proc[q] = "live" => sid[q] # s
        BY <2>3 DEF NoneOn
      <3>3. SUFFICES ASSUME NEW p \in Runners, NEW q \in Runners, proc'[p] = "live", proc'[q] = "live",
                            sid'[p] = sid'[q], sid'[q] \notin doubled
                     PROVE  p = q
        BY <2>2 DEF OneEach
      <3>4. CASE p # r /\ q # r
        BY <1>i, <3>1, <3>3, <3>4 DEF OneEach
      <3>5. CASE p = r \/ q = r
        BY <2>4, <3>1, <3>2, <3>3, <3>5
      <3> QED
        BY <3>4, <3>5
    <2>7. KeptRunner(r)'
      BY <2>2, <2>3, <2>4 DEF KeptRunner, Swept, Working
    <2>8. ASSUME NEW q \in Runners, q # r PROVE KeptRunner(q)'
      <3>1. KeptRunner(q)
        BY <1>i
      <3> QED
        BY <2>2, <2>5, <2>8, <3>1 DEF KeptRunner, Swept, Working
    <2>9. KeptServer'
      BY <2>4 DEF KeptServer
    <2>10. restarted' = FALSE => KeptOrphan'
      <3>1. restarted = FALSE => \A q \in Runners : reaper'[q] = Server
        BY <1>i, <2>1 DEF KeptOrphan
      <3> QED
        BY <2>2, <2>4, <3>1 DEF KeptOrphan
    <2> QED
      BY <2>6, <2>7, <2>8, <2>9, <2>10 DEF KeptInv
  <1>2. CASE StatusLoadJob \/ StatusAlive \/ StatusFinishLoad \/ StatusFinishWrite
    <2>1. UNCHANGED <<study, proc, reaper, sid, restarted, doubled>>
      BY <1>2 DEF StatusLoadJob, StatusAlive, StatusFinishLoad, StatusFinishWrite
    <2>2. \A q \in Runners : pc'[q] = pc[q] /\ mem'[q] = mem[q] /\ cont'[q] = cont[q]
      BY <1>2 DEF StatusLoadJob, StatusAlive, StatusFinishLoad, StatusFinishWrite, EndCall, StatusRecoverStudy, Save
    <2>3. OneEach' /\ \A q \in Runners : KeptRunner(q)'
      <3>1. OneEach'
        BY <1>i, <2>1 DEF OneEach
      <3>2. ASSUME NEW q \in Runners PROVE KeptRunner(q)'
        <4>1. KeptRunner(q)
          BY <1>i
        <4> QED
          BY <2>1, <2>2, <4>1 DEF KeptRunner, Swept, Working
      <3> QED
        BY <3>1, <3>2
    <2>4. \/ pc'[Server] = "idle"
          \/ /\ pc'[Server] \in {"open", "write"} /\ cont'[Server] = "idle" /\ mem'[Server].status = "failed"
             /\ mem[Server].status \in RunningStates
             /\ (pc[Server] = "statusAlive" /\ ~IsAlive(tgt[Server])) \/ pc[Server] = "statusWrite"
          \/ /\ mem'[Server] = mem[Server] /\ tgt'[Server] = tgt[Server]
             /\ \/ pc[Server] = "statusJob" /\ pc'[Server] = "statusAlive"
                \/ pc[Server] = "statusAlive" /\ pc'[Server] = "statusFinish" /\ ~IsAlive(tgt[Server])
                \/ pc[Server] = "statusFinish" /\ pc'[Server] = "statusWrite"
      <3>1. CASE StatusLoadJob
        BY <3>1 DEF StatusLoadJob
      <3>2. CASE StatusAlive
        BY <3>2 DEF StatusAlive, EndCall, StatusRecoverStudy, Save, SaveBegins
      <3>3. CASE StatusFinishLoad
        BY <3>3 DEF StatusFinishLoad, EndCall
      <3>4. CASE StatusFinishWrite
        BY <3>4 DEF StatusFinishWrite, EndCall, StatusRecoverStudy, Save, SaveBegins
      <3> QED
        BY <1>2, <3>1, <3>2, <3>3, <3>4
    <2>5. KeptServer'
      BY <2>4 DEF KeptServer
    <2>6. NoneOn(sid[Server])' <=> NoneOn(sid[Server])
      BY <2>1 DEF NoneOn
    <2>7. ASSUME restarted = FALSE, sid[Server] \notin doubled, pc[Server] = "statusAlive", ~IsAlive(tgt[Server]),
                 mem[Server].status \in RunningStates
          PROVE  NoneOn(sid[Server]) /\ study[sid[Server]].status # "complete"
      BY <1>i, <2>7 DEF KeptOrphan, IsAlive, NoneOn
    <2>8. restarted' = FALSE => KeptOrphan'
      <3>1. ASSUME restarted = FALSE PROVE KeptOrphan'
        <4>1. KeptOrphan
          BY <1>i, <3>1
        <4> QED
          BY <2>1, <2>4, <2>6, <2>7, <3>1, <4>1 DEF KeptOrphan
      <3> QED
        BY <2>1, <3>1
    <2> QED
      BY <2>3, <2>5, <2>8 DEF KeptInv
  <1>3. CASE CancelTouchFlag \/ CancelSignal \/ CancelByPid
    <2>1. UNCHANGED <<study, reaper, sid, restarted, doubled, mem, cont>>
      BY <1>3 DEF CancelTouchFlag, CancelSignal, CancelByPid
    <2>2. pc'[Server] \in {"idle", "cancelSignal"}
      BY <1>3 DEF CancelTouchFlag, CancelSignal, CancelByPid, TerminateAndEnd
    <2>3. \A q \in Runners : \/ proc'[q] = proc[q] /\ pc'[q] = pc[q]
                             \/ proc'[q] \in {"zombie", "gone"} /\ pc'[q] = "dead"
      BY <1>3 DEF CancelTouchFlag, CancelSignal, CancelByPid, TerminateAndEnd, Ended
    <2>4. OneEach'
      BY <1>i, <2>1, <2>3 DEF OneEach
    <2>5. ASSUME NEW q \in Runners PROVE KeptRunner(q)'
      <3>1. KeptRunner(q)
        BY <1>i
      <3> QED
        BY <2>1, <2>3, <3>1 DEF KeptRunner, Swept, Working
    <2>6. KeptServer' /\ (restarted' = FALSE => KeptOrphan')
      BY <1>i, <2>1, <2>2 DEF KeptServer, KeptOrphan
    <2> QED
      BY <2>4, <2>5, <2>6 DEF KeptInv
  <1>4. CASE OpenStudy(Server)
    <2>1. UNCHANGED <<study, proc, reaper, sid, restarted, doubled, mem, cont, tgt>> /\ pc' = [pc EXCEPT ![Server] = "write"]
          /\ pc[Server] = "open"
      BY <1>4 DEF OpenStudy
    <2>2. \A q \in Runners : pc'[q] = pc[q]
      BY <2>1
    <2>3. OneEach' /\ (NoneOn(sid[Server])' <=> NoneOn(sid[Server]))
      BY <1>i, <2>1 DEF OneEach, NoneOn
    <2>4. ASSUME NEW q \in Runners PROVE KeptRunner(q)'
      <3>1. KeptRunner(q)
        BY <1>i
      <3> QED
        BY <2>1, <2>2, <3>1 DEF KeptRunner, Swept, Working
    <2>5. KeptServer'
      BY <1>i, <2>1, <2>3 DEF KeptServer
    <2>6. restarted' = FALSE => KeptOrphan'
      BY <1>i, <2>1, <2>3 DEF KeptOrphan
    <2> QED
      BY <2>3, <2>4, <2>5, <2>6 DEF KeptInv
  <1>5. CASE WriteStudy(Server)
    <2>1. /\ UNCHANGED <<proc, reaper, sid, restarted, doubled, cont>>
          /\ study' = [study EXCEPT ![sid[Server]] = mem[Server]] /\ pc[Server] = "write"
          /\ \A q \in Runners : pc'[q] = pc[q] /\ mem'[q] = mem[q]
      BY <1>5 DEF WriteStudy, EndCall
    <2>2. \/ cont[Server] = "idle" /\ pc'[Server] = "idle"
          \/ cont[Server] = "spawn" /\ pc'[Server] = "spawn" /\ mem'[Server] = mem[Server]
      BY <1>5, <1>i DEF WriteStudy, EndCall, ContInv
    <2>3. mem[Server].status \in {"draft", "failed"}
      BY <1>i, <2>1 DEF KeptServer
    <2>4. OneEach' /\ (NoneOn(sid[Server])' <=> NoneOn(sid[Server]))
      BY <1>i, <2>1 DEF OneEach, NoneOn
    <2>5. ASSUME NEW q \in Runners PROVE KeptRunner(q)'
      <3>1. KeptRunner(q)
        BY <1>i
      <3>2. study'[sid[q]] = study[sid[q]] \/ study'[sid[q]].status \in {"draft", "failed"}
        BY <2>1, <2>3
      <3> QED
        BY <2>1, <3>1, <3>2 DEF KeptRunner, Swept, Working
    <2>6. KeptServer'
      <3>1. study'[sid[Server]] = mem[Server]
        BY <2>1
      <3> QED
        BY <1>i, <2>1, <2>2, <2>4, <3>1 DEF KeptServer
    <2>7. restarted' = FALSE => KeptOrphan'
      BY <1>i, <2>1, <2>2 DEF KeptOrphan
    <2> QED
      BY <2>4, <2>5, <2>6, <2>7 DEF KeptInv
  <1> QED
    BY <1>1, <1>2, <1>3, <1>4, <1>5 DEF ServerStep

\* A new tool call, another subprocess, a restart of the server.
LEMMA OtherStepKept ==
  ASSUME IInv, KeptInv, (\E s \in Studies : ToolCall(s)) \/ OtherSpawn \/ ServerRestart
  PROVE  KeptInv'
PROOF
  <1> USE ProcFacts, InvFacts, KeptFacts
      DEF diskVars, jobVars, osVars, runVars, ctlVars, histVars, Study, RunningStates, NewStudy,
          Goto, At, Live, ProcState
  <1>i. OneEach /\ KeptServer /\ (restarted = FALSE => KeptOrphan) /\ \A q \in Runners : KeptRunner(q)
    BY DEF KeptInv
  <1>1. ASSUME /\ study' = study /\ doubled \subseteq doubled'
               /\ \A q \in Runners : /\ proc'[q] = "live" <=> proc[q] = "live"
                                     /\ proc'[q] = "unborn" <=> proc[q] = "unborn"
                                     /\ sid'[q] = sid[q] /\ pc'[q] = pc[q] /\ cont'[q] = cont[q] /\ mem'[q] = mem[q]
        PROVE  OneEach' /\ \A q \in Runners : KeptRunner(q)'
    <2>1. OneEach'
      BY <1>i, <1>1 DEF OneEach
    <2>2. ASSUME NEW q \in Runners PROVE KeptRunner(q)'
      <3>1. KeptRunner(q)
        BY <1>i
      <3> QED
        BY <1>1, <3>1 DEF KeptRunner, Swept, Working
    <2> QED
      BY <2>1, <2>2
  <1>2. ASSUME NEW s \in Studies, StudyRun(s) PROVE KeptInv'
    <2>1. /\ UNCHANGED <<study, proc, reaper, restarted>> /\ sid' = [sid EXCEPT ![Server] = s]
          /\ mem' = [mem EXCEPT ![Server] = [study[s] EXCEPT !.status = "draft", !.best = None]]
          /\ cont' = [cont EXCEPT ![Server] = "spawn"] /\ pc' = [pc EXCEPT ![Server] = SaveBegins]
          /\ doubled' = doubled \union {t \in {s} : \E r \in Runners : Live(r) /\ sid[r] = t}
      BY <1>2 DEF StudyRun, Save
    <2>2. OneEach' /\ \A q \in Runners : KeptRunner(q)'
      BY <1>1, <2>1
    <2>3. sid'[Server] = s /\ mem'[Server].status = "draft" /\ pc'[Server] \in {"open", "write"}
      BY <2>1 DEF SaveBegins
    <2>4. s \notin doubled' => NoneOn(s)'
      BY <2>1 DEF NoneOn
    <2>5. KeptServer'
      BY <2>3, <2>4 DEF KeptServer
    <2>6. restarted' = FALSE => KeptOrphan'
      BY <1>i, <2>1, <2>3 DEF KeptOrphan
    <2> QED
      BY <2>2, <2>5, <2>6 DEF KeptInv
  <1>3. ASSUME NEW s \in Studies, StudyStatusCall(s) PROVE KeptInv'
    <2>1. /\ UNCHANGED <<study, proc, reaper, restarted, cont, doubled>> /\ sid' = [sid EXCEPT ![Server] = s]
          /\ mem' = [mem EXCEPT ![Server] = study[s]] /\ pc' = [pc EXCEPT ![Server] = "statusJob"]
          /\ tgt' = [tgt EXCEPT ![Server] = study[s].job]
      BY <1>3 DEF StudyStatusCall
    <2>2. OneEach' /\ \A q \in Runners : KeptRunner(q)'
      BY <1>1, <2>1
    <2>3. sid'[Server] = s /\ mem'[Server] = study[s] /\ pc'[Server] = "statusJob" /\ tgt'[Server] = study[s].job
      BY <2>1
    <2>4. KeptServer'
      BY <2>3 DEF KeptServer
    <2>5. ASSUME s \notin doubled, study[s].status \in RunningStates
          PROVE  /\ \A r \in Runners : Live(r)' /\ sid'[r] = s => r = study[s].job
                 /\ study[s].status # "complete"
      BY <1>i, <2>1, <2>5 DEF KeptRunner
    <2>6. restarted' = FALSE => KeptOrphan'
      BY <1>i, <2>1, <2>3, <2>5 DEF KeptOrphan
    <2> QED
      BY <2>2, <2>4, <2>6 DEF KeptInv
  <1>4. ASSUME NEW s \in Studies, StudyCancel(s) PROVE KeptInv'
    <2>1. /\ UNCHANGED <<study, proc, reaper, restarted, cont, mem, doubled>> /\ sid' = [sid EXCEPT ![Server] = s]
          /\ pc' = [pc EXCEPT ![Server] = "cancelFlag"] \/ pc' = [pc EXCEPT ![Server] = "cancelPid"]
      BY <1>4 DEF StudyCancel
    <2>2. OneEach' /\ \A q \in Runners : KeptRunner(q)'
      BY <1>1, <2>1
    <2>3. pc'[Server] \in {"cancelFlag", "cancelPid"}
      BY <2>1
    <2>4. KeptServer' /\ (restarted' = FALSE => KeptOrphan')
      BY <1>i, <2>1, <2>3 DEF KeptServer, KeptOrphan
    <2> QED
      BY <2>2, <2>4 DEF KeptInv
  <1>5. CASE OtherSpawn
    <2>1. UNCHANGED <<study, reaper, restarted, cont, mem, doubled, sid, pc>> /\ proc' = Reaped /\ pc[Server] = "idle"
      BY <1>5 DEF OtherSpawn, Idle
    <2>2. OneEach' /\ \A q \in Runners : KeptRunner(q)'
      BY <1>1, <2>1 DEF Reaped
    <2>3. KeptServer' /\ (restarted' = FALSE => KeptOrphan')
      BY <1>i, <2>1 DEF KeptServer, KeptOrphan
    <2> QED
      BY <2>2, <2>3 DEF KeptInv
  <1>6. CASE ServerRestart
    <2>1. /\ UNCHANGED <<study, cont, doubled, sid>> /\ proc' = Reaped /\ restarted' = TRUE
          /\ pc' = [pc EXCEPT ![Server] = "idle"] /\ mem' = [mem EXCEPT ![Server] = NewStudy]
      BY <1>6 DEF ServerRestart, EndCall
    <2>2. OneEach' /\ \A q \in Runners : KeptRunner(q)'
      BY <1>1, <2>1 DEF Reaped
    <2>3. KeptServer'
      BY <2>1 DEF KeptServer
    <2> QED
      BY <2>1, <2>2, <2>3 DEF KeptInv
  <1> QED
    BY <1>2, <1>3, <1>4, <1>5, <1>6 DEF ToolCall

LEMMA KeptInvariance == Spec => []KeptInv
PROOF
  <1>1. Init => KeptInv
    BY ProcFacts DEF Init, KeptInv, OneEach, KeptRunner, KeptServer, KeptOrphan, Live, NewStudy
  <1>2. IInv /\ KeptInv /\ [Next]_vars => KeptInv'
    <2> SUFFICES ASSUME IInv, KeptInv, [Next]_vars PROVE KeptInv'
      OBVIOUS
    <2>1. CASE Next
      BY <2>1, RunnerStepKept, ServerStepKept, OtherStepKept DEF Next
    <2>2. CASE UNCHANGED vars
      BY <2>2 DEF vars, diskVars, jobVars, osVars, ctlVars, histVars, KeptInv, OneEach, KeptRunner, KeptServer,
                  KeptOrphan, NoneOn, Live, Swept, Working
    <2> QED
      BY <2>1, <2>2
  <1> QED
    BY <1>1, <1>2, Invariance, PTL DEF Spec

\* A study that is complete is not turned into a failed one by its own runner, nor
\* by a server that started the runner and takes it for dead (CompleteKept).
THEOREM ResultKept == Spec => CompleteKept
PROOF
  <1>1. ASSUME IInv, KeptInv, Next, NEW s \in Studies,
               restarted = FALSE, s \notin doubled, study[s].status = "complete", study'[s].status = "failed"
        PROVE  FALSE
    <2>1. \A r \in Runners : ~(Live(r) /\ pc[r] = "write" /\ sid[r] = s /\ mem[r].status = "failed")
      BY <1>1 DEF KeptInv, KeptRunner
    <2>2. ASSUME NEW r \in Runners, RunnerStep(r) \/ Environment(r) PROVE FALSE
      BY <1>1, <2>1, <2>2, RunnerFrame, InvFacts, KeptFacts
    <2>3. CASE ServerStep
      <3>1. study' = study \/ (pc[Server] = "write" /\ study' = [study EXCEPT ![sid[Server]] = mem[Server]])
        BY <2>3 DEF ServerStep, SpawnRunner, StatusLoadJob, StatusAlive, StatusFinishLoad, StatusFinishWrite,
           CancelTouchFlag, CancelSignal, CancelByPid, OpenStudy, WriteStudy, At, diskVars
      <3> QED
        BY <1>1, <3>1, InvFacts, KeptFacts DEF KeptInv, KeptOrphan
    <2>4. CASE (\E t \in Studies : ToolCall(t)) \/ OtherSpawn \/ ServerRestart
      BY <1>1, <2>4 DEF ToolCall, StudyRun, StudyStatusCall, StudyCancel, OtherSpawn, ServerRestart, diskVars
    <2> QED
      BY <1>1, <2>2, <2>3, <2>4 DEF Next
  <1>2. IInv /\ KeptInv /\ [Next]_vars
          => [\A s \in Studies :
                ~restarted /\ s \notin doubled /\ study[s].status = "complete" => study'[s].status # "failed"]_vars
    <2>1. IInv => restarted \in BOOLEAN
      BY KeptFacts
    <2> QED
      BY <1>1, <2>1
  <1> QED
    BY <1>2, Invariance, KeptInvariance, PTL DEF Spec, CompleteKept

(***************************************************************************)
(* study.json names its run.  A live runner whose study was not run again  *)
(* beside it is the one spawned last, and what it has in memory past the   *)
(* draft it loaded is its own; a new one is spawned over a draft only.     *)
(***************************************************************************)
Begun == StudyStatus \ {"draft", "failed"}

\* Runner or file, st is a record of run r.
RecordOf(st, r) ==
  st.status \in Begun => st.job = r /\ (st.status = "complete" => st.best = r)

NamesInv ==
  /\ current \in [Studies -> Runners \union {None}]
  /\ \A r \in Runners : Live(r) /\ sid[r] \notin doubled =>
       current[sid[r]] = r /\ RecordOf(mem[r], r)
  /\ \A s \in Studies \ doubled :
       study[s].status \in Begun => current[s] \in Runners /\ RecordOf(study[s], current[s])

\* What a runner does to its own copy.
LEMMA RunnerNames ==
  ASSUME IInv, KeptInv, NamesInv, NEW r \in Runners, RunnerStep(r) \/ Environment(r),
         Live(r), sid[r] \notin doubled
  PROVE  RecordOf(mem'[r], r)
PROOF
  <1> USE ProcFacts, InvFacts, KeptFacts
      DEF diskVars, jobVars, osVars, runVars, ctlVars, histVars, Study, StudyStatus,
          Goto, Runs, At, Live, RecordOf, Begun
  <1>i. /\ current[sid[r]] = r /\ RecordOf(mem[r], r) /\ RecordOf(study[sid[r]], r)
        /\ Working(r) => mem[r].job = r
        /\ ContInv(r)
    BY DEF NamesInv, KeptInv, KeptRunner, IInv, ProcInv
  <1>1. CASE InstallHandler(r) \/ ResetFlag(r) \/ ListJobs(r) \/ RecoverDone(r) \/ CreateJob(r) \/ MarkLoad(r)
             \/ BeatLoad(r) \/ BeatWrite(r) \/ FinishWrite(r) \/ FailWrite(r) \/ LaunchEvaluator(r)
    BY <1>1, <1>i DEF InstallHandler, ResetFlag, ListJobs, RecoverDone, CreateJob, MarkLoad, BeatLoad, BeatWrite,
       FinishWrite, FailWrite, LaunchEvaluator
  <1>2. CASE LoadStudy(r) \/ ReloadStudy(r)
    BY <1>2, <1>i DEF LoadStudy, ReloadStudy
  <1>3. CASE RecoverRead(r) \/ RecoverCheck(r) \/ RecoverLoad(r) \/ RecoverWrite(r) \/ FinishLoad(r)
    BY <1>3, <1>i DEF RecoverRead, RecoverCheck, RecoverLoad, RecoverWrite, FinishLoad, LoadToFinish
  <1>4. CASE MarkWrite(r)
    <2>1. mem'[r] = [mem[r] EXCEPT !.job = r, !.pid = r]
      BY <1>4 DEF MarkWrite, Save
    <2> QED
      BY <1>i, <2>1
  <1>5. CASE StartCoarse(r) \/ PollCancelled(r) \/ CoarseDone(r) \/ RankCoarse(r) \/ RefinedDone(r)
             \/ DriverRaise(r) \/ Collect(r) \/ EndDriver(r) \/ EvaluatorTimeout(r)
    <2>1. Working(r)
      BY <1>5 DEF StartCoarse, PollCancelled, CoarseDone, RankCoarse, RefinedDone, DriverRaise, Collect,
         EndDriver, EvaluatorTimeout, Working
    <2>2. CASE Collect(r) \/ EndDriver(r) \/ EvaluatorTimeout(r)
      <3>1. mem'[r] = mem[r]
        BY <2>2 DEF Collect, EndDriver, EvaluatorTimeout, Save
      <3> QED
        BY <1>i, <3>1
    <2>3. CASE RefinedDone(r)
      <3>1. mem'[r] = [mem[r] EXCEPT !.status = "complete", !.best = r]
        BY <2>3 DEF RefinedDone, Save
      <3> QED
        BY <1>i, <2>1, <3>1
    <2>4. ASSUME NEW st \in StudyStatus \ {"complete"}, mem'[r] = [mem[r] EXCEPT !.status = st]
          PROVE  RecordOf(mem'[r], r)
      <3>1. mem[r] \in Study
        OBVIOUS
      <3>2. mem'[r].status = st /\ mem'[r].job = r
        BY <1>i, <2>1, <2>4, <3>1
      <3> QED
        BY <2>4, <3>2
    <2>5. CASE StartCoarse(r)
      BY <2>4, <2>5 DEF StartCoarse, Save
    <2>6. CASE CoarseDone(r)
      BY <2>4, <2>6 DEF CoarseDone, Save
    <2>7. CASE DriverRaise(r)
      BY <2>4, <2>7 DEF DriverRaise, Save
    <2>8. CASE PollCancelled(r)
      BY <1>i, <2>4, <2>8 DEF PollCancelled, Save
    <2>9. CASE RankCoarse(r)
      <3>1. \/ mem' = [mem EXCEPT ![r] = [mem[r] EXCEPT !.status = "running_refined"]]
            \/ mem' = [mem EXCEPT ![r] = [mem[r] EXCEPT !.status = "failed"]]
        BY <2>9 DEF RankCoarse, Save
      <3> QED
        BY <2>4, <3>1
    <2> QED
      BY <1>5, <2>2, <2>3, <2>5, <2>6, <2>7, <2>8, <2>9
  <1>6. CASE MarkCrashed(r)
    BY <1>6, <1>i DEF MarkCrashed, Save
  <1>7. CASE RunnerExit(r) \/ RunnerKilled(r)
    BY <1>7 DEF RunnerExit, RunnerKilled, RunnerDies, NewStudy
  <1>8. CASE EvaluatorExit(r) \/ PidReuse(r)
    BY <1>8, <1>i DEF EvaluatorExit, PidReuse
  <1>9. CASE OpenStudy(r) \/ WriteStudy(r)
    BY <1>9, <1>i DEF OpenStudy, WriteStudy, ContInv, RunnerConts
  <1> QED
    BY <1>1, <1>2, <1>3, <1>4, <1>5, <1>6, <1>7, <1>8, <1>9 DEF RunnerStep, Environment

LEMMA NamesStep ==
  ASSUME IInv, KeptInv, NamesInv, Next
  PROVE  NamesInv'
PROOF
  <1> USE ProcFacts, InvFacts, KeptFacts DEF Live
  <1>1. ASSUME NEW r \in Runners, RunnerStep(r) \/ Environment(r) PROVE NamesInv'
    <2>1. current' = current
      BY <1>1 DEF RunnerStep, Environment, InstallHandler, LoadStudy, ResetFlag, ListJobs, RecoverRead, RecoverCheck,
         RecoverLoad, RecoverWrite, RecoverDone, ReloadStudy, CreateJob, MarkLoad, MarkWrite, StartCoarse,
         PollCancelled, LaunchEvaluator, Collect, BeatLoad, BeatWrite, CoarseDone, RankCoarse, RefinedDone,
         EndDriver, FinishLoad, FinishWrite, FailWrite, MarkCrashed, RunnerExit, OpenStudy, WriteStudy,
         EvaluatorExit, EvaluatorTimeout, DriverRaise, RunnerKilled, RunnerDies, PidReuse, histVars
    <2>2. /\ UNCHANGED <<sid, doubled>>
          /\ \A q \in Runners : q # r => proc'[q] = proc[q] /\ mem'[q] = mem[q]
          /\ proc'[r] = "live" => proc[r] = "live"
          /\ \/ study' = study
             \/ Live(r) /\ study' = [study EXCEPT ![sid[r]] = mem[r]]
      BY <1>1, RunnerFrame DEF Ended
    <2>3. \A q \in Runners : Live(q)' /\ sid'[q] \notin doubled' => current'[sid'[q]] = q /\ RecordOf(mem'[q], q)
      BY <1>1, <2>1, <2>2, RunnerNames DEF NamesInv
    <2>4. ASSUME NEW s \in Studies \ doubled, study'[s].status \in Begun
          PROVE  current[s] \in Runners /\ RecordOf(study'[s], current[s])
      <3>1. CASE study'[s] = study[s]
        BY <2>4, <3>1 DEF NamesInv
      <3>2. CASE Live(r) /\ s = sid[r] /\ study'[s] = mem[r]
        BY <3>2 DEF NamesInv
      <3> QED
        BY <2>2, <3>1, <3>2
    <2> QED
      BY <2>1, <2>2, <2>3, <2>4 DEF NamesInv
  <1>2. CASE SpawnRunner
    <2> DEFINE s == sid[Server]
    <2>1. PICK r \in Runners :
            /\ proc[r] = "unborn"
            /\ proc' = [Reaped EXCEPT ![r] = "live"]
            /\ sid' = [sid EXCEPT ![r] = s]
            /\ mem' = [mem EXCEPT ![Server].pid = r]
            /\ current' = [current EXCEPT ![s] = r]
      BY <1>2 DEF SpawnRunner
    <2>2. UNCHANGED <<study, doubled>> /\ pc[Server] = "spawn"
      BY <1>2 DEF SpawnRunner, diskVars, At
    <2>3. (s \notin doubled => NoneOn(s) /\ study[s].status = "draft") /\ mem[r].status = "draft"
      BY <2>1, <2>2 DEF KeptInv, KeptServer, KeptRunner
    <2>4. \A q \in Runners : q # r => (proc'[q] = "live" => proc[q] = "live") /\ sid'[q] = sid[q] /\ mem'[q] = mem[q]
      BY <2>1 DEF Reaped
    <2>5. /\ sid'[r] = s /\ mem'[r] = mem[r] /\ current'[s] = r /\ s \in Studies
          /\ \A t \in Studies : t # s => current'[t] = current[t]
          /\ current' \in [Studies -> Runners \union {None}]
      BY <2>1 DEF NamesInv
    <2>6. \A q \in Runners : Live(q)' /\ sid'[q] \notin doubled' => current'[sid'[q]] = q /\ RecordOf(mem'[q], q)
      <3>1. ASSUME NEW q \in Runners, proc'[q] = "live", sid'[q] \notin doubled
            PROVE  current'[sid'[q]] = q /\ RecordOf(mem'[q], q)
        <4>1. CASE q = r
          BY <2>3, <2>5, <4>1 DEF RecordOf, Begun
        <4>2. CASE q # r
          <5>1. sid[q] # s /\ sid[q] \in Studies /\ proc[q] = "live"
            BY <2>3, <2>4, <3>1, <4>2 DEF NoneOn
          <5> QED
            BY <2>4, <2>5, <3>1, <4>2, <5>1 DEF NamesInv
        <4> QED
          BY <4>1, <4>2
      <3> QED
        BY <2>2, <3>1
    <2>7. \A t \in Studies \ doubled : study[t].status \in Begun => t # s
      BY <2>3 DEF Begun
    <2> QED
      BY <2>2, <2>5, <2>6, <2>7 DEF NamesInv
  <1>3. ASSUME /\ current' = current /\ doubled \subseteq doubled'
               /\ \A q \in Runners : (proc'[q] = "live" => proc[q] = "live") /\ sid'[q] = sid[q] /\ mem'[q] = mem[q]
               /\ \A s \in Studies : study'[s] = study[s] \/ study'[s].status \notin Begun
        PROVE  NamesInv'
    BY <1>3 DEF NamesInv
  <1>4. CASE StatusLoadJob \/ StatusAlive \/ StatusFinishLoad \/ StatusFinishWrite
    BY <1>3, <1>4 DEF StatusLoadJob, StatusAlive, StatusFinishLoad, StatusFinishWrite, EndCall, StatusRecoverStudy,
       Save, diskVars, osVars, histVars
  <1>5. CASE CancelTouchFlag \/ CancelSignal \/ CancelByPid
    BY <1>3, <1>5 DEF CancelTouchFlag, CancelSignal, CancelByPid, TerminateAndEnd, Ended, diskVars, osVars, histVars
  <1>6. CASE OpenStudy(Server)
    BY <1>3, <1>6 DEF OpenStudy, osVars, ctlVars, histVars
  <1>7. CASE WriteStudy(Server)
    <2>1. mem[Server].status \notin Begun
      BY <1>7 DEF WriteStudy, At, KeptInv, KeptServer, Begun
    <2> QED
      BY <1>3, <1>7, <2>1 DEF WriteStudy, EndCall, osVars, histVars
  <1>8. ASSUME NEW s \in Studies, ToolCall(s) PROVE NamesInv'
    BY <1>3, <1>8 DEF ToolCall, StudyRun, StudyStatusCall, StudyCancel, Save, diskVars, osVars, histVars
  <1>9. CASE OtherSpawn \/ ServerRestart
    BY <1>3, <1>9 DEF OtherSpawn, ServerRestart, EndCall, Reaped, diskVars, ctlVars, histVars
  <1> QED
    BY <1>1, <1>2, <1>4, <1>5, <1>6, <1>7, <1>8, <1>9 DEF Next, ServerStep

LEMMA NamesInvariance == Spec => []NamesInv
PROOF
  <1>1. Init => NamesInv
    BY ProcFacts DEF Init, NamesInv, Live, NewStudy, Begun
  <1>2. IInv /\ KeptInv /\ NamesInv /\ [Next]_vars => NamesInv'
    <2>1. NamesInv /\ UNCHANGED vars => NamesInv'
      BY DEF vars, diskVars, osVars, ctlVars, histVars, NamesInv, Live
    <2> QED
      BY <2>1, NamesStep
  <1> QED
    BY <1>1, <1>2, Invariance, KeptInvariance, PTL DEF Spec

\* Whatever study.json shows of a study that was not run twice at once, unless it
\* is a draft or FAILED, is of the run started last, job, status and best variant
\* (StudyNamesItsRun): a cancel then reaches the runner it is meant for.
THEOREM NamesItsRun == Spec => []StudyNamesItsRun
PROOF
  <1>1. IInv /\ NamesInv => StudyNamesItsRun
    BY KeptFacts DEF NamesInv, StudyNamesItsRun, RecordOf, Begun, Study
  <1> QED
    BY <1>1, Invariance, NamesInvariance, PTL

\* No study has two live runners unless study_run was called for it while one of
\* its runners was alive.
THEOREM OneRunnerEach ==
  Spec => [](\A q, r \in Runners :
                Live(q) /\ Live(r) /\ sid[q] = sid[r] /\ sid[r] \notin doubled => q = r)
PROOF
  <1>1. KeptInv => \A q, r \in Runners :
                     Live(q) /\ Live(r) /\ sid[q] = sid[r] /\ sid[r] \notin doubled => q = r
    BY DEF KeptInv, OneEach
  <1> QED
    BY <1>1, KeptInvariance, PTL
=============================================================================
