---------------------------- MODULE DriverStudy ----------------------------
(***************************************************************************)
(* Driver-mode parametric studies: the MCP server's study tools            *)
(* (server/tools_study.py), the runner processes they spawn                *)
(* (server/study_runner.main -> server/study_driver_runner, GridDriver),   *)
(* one evaluator child per design point, and the two files everybody       *)
(* shares without a lock: study.json (server/study_store.py, truncated and *)
(* rewritten in place) and job.json (server/jobs.py, replaced atomically). *)
(*                                                                         *)
(* A process is the server or a runner.  Each has a pc, and every access   *)
(* to a shared file is a step of its own, so that any other process may    *)
(* act between a load and the save that depends on it.  The runner's job   *)
(* id, its pid and its identity (pid + start ticks) are one value: the     *)
(* runner.  Design-point values, metrics and timestamps are abstracted to  *)
(* whether a feasible variant has been found.                              *)
(***************************************************************************)
EXTENDS Integers, FiniteSets

CONSTANTS
  Studies,        \* study ids
  Runners,        \* runner processes the server may ever spawn (a bound)
  Server,         \* the MCP server process
  None,           \* Python's None in study.job_id, study.pid, best_variant_id
  CoarseCount,    \* design points of the coarse grid
  RefinedCount,   \* design points of the refined grid
  Tools,          \* the tools the client calls, a subset of ToolKinds
  Faults          \* the faults that may happen, a subset of FaultKinds

ToolKinds == {"run", "status", "cancel"}

FaultKinds == {"kill",     \* a runner is killed (SIGKILL, OOM) at any step
               "raise",    \* driver.run raises (fork fails, dakota driver)
               "timeout",  \* an evaluator exceeds solver.timeout_s
               "tear",     \* a save of study.json is seen between open and write
               "restart",  \* the server dies and is restarted, once
               "spawn",    \* the server starts some other subprocess
               "reuse"}    \* the kernel gives a reaped pid to a stranger

ASSUME ServerAssumption == Server \notin Runners
ASSUME NoneAssumption   == None \notin Runners
ASSUME CountAssumption  == CoarseCount \in Nat \ {0} /\ RefinedCount \in Nat \ {0}
ASSUME FaultAssumption  == Faults \subseteq FaultKinds /\ Tools \subseteq ToolKinds

VARIABLES
  file,     \* file[s]: what study.json holds: "json", "empty" or "garbage"
  study,    \* study[s]: the study last written there
  job,      \* job[j]: status in job.json of runner j's job, "none" before
  flag,     \* flag[j]: the job's cancel flag file exists
  proc,     \* proc[r]: the state of the runner's pid in the process table
  reaper,   \* reaper[r]: who waits for r: the server, or init after a restart
  sig,      \* sig[r]: _CANCELLED in runner r
  child,    \* child[r]: r's evaluator: "none", "running" or "exited"
  phase,    \* phase[r]: the sweep r is in
  idx,      \* idx[r]: points of that sweep evaluated so far
  feas,     \* feas[r]: r has seen a feasible coarse variant
  pc,       \* pc[p]: the next step of process p
  cont,     \* cont[p]: where p goes after the save in progress
  mem,      \* mem[p]: p's in-memory Study
  sid,      \* sid[p]: the study p works on
  seen,     \* the job status the server's call loaded last
  tgt,      \* tgt[p]: the job p is finishing on someone else's behalf
  todo,     \* todo[p]: jobs recover_stale has still to look at
  restarted,\* the one server restart has happened
  current,  \* history: current[s] is the runner study_run spawned last
  late,     \* history: late[r] counts evaluators r started after its cancel was visible
  doubled   \* history: studies run again while a runner of theirs was alive

diskVars == <<file, study>>
jobVars  == <<job, flag>>
osVars   == <<proc, reaper, sig, child>>
runVars  == <<phase, idx, feas>>
ctlVars  == <<cont, mem, sid, tgt, todo, seen>>
histVars == <<restarted, current, late, doubled>>
vars == <<diskVars, jobVars, osVars, runVars, pc, ctlVars, histVars>>

Procs == Runners \union {Server}

StudyStatus == {"draft", "running_coarse", "coarse_done", "running_refined",
                "complete", "failed", "cancelled"}

JobStatus == {"pending", "running", "complete", "failed", "cancelled"}

\* The fields of a Study the tools and the runner decide by.
Study == [status : StudyStatus, job : Runners \union {None},
          pid : Runners \union {None}, best : Runners \union {None}]

NewStudy == [status |-> "draft", job |-> None, pid |-> None, best |-> None]

\* The states study_run accepts, and those study_status takes for "running".
RunnableStates == {"draft", "failed", "cancelled"}

RunningStates == {"running_coarse", "running_refined"}

-----------------------------------------------------------------------------
(***************************************************************************)
(* The operating system as the code uses it: os.kill(pid, 0) and           *)
(* /proc/<pid>/stat succeed for a zombie, and a zombie stays until its     *)
(* parent waits for it.  The server never waits for a runner; the          *)
(* subprocess module does when the server next starts a subprocess.        *)
(***************************************************************************)
ProcState == {"unborn", "live", "zombie", "gone", "reused"}

Live(r) == proc[r] = "live"

\* Faulty: recovery that does not look at the process (used by the mutants).
IsAliveNever(r) == FALSE

\* Faulty: the pid alone, without the start ticks.
IsAlivePidOnly(r) == proc[r] \in {"live", "zombie", "reused"}

\* jobs.is_alive: the pid exists and its start ticks are the recorded ones.
IsAlive(r) == proc[r] \in {"live", "zombie"}

\* What becomes of runner r's pid when r ends.
Ended(r) == IF reaper[r] = Server THEN "zombie" ELSE "gone"

\* The process table once the zombies among the server's children are reaped.
Reaped == [r \in Runners |-> IF proc[r] = "zombie" THEN "gone" ELSE proc[r]]

-----------------------------------------------------------------------------
(* Steps that every process takes: going on, loading, saving.              *)

Labels == {"unborn", "boot", "load", "reset", "list", "recover", "recoverCheck",
           "recoverLoad", "recoverWrite", "reload", "create", "mark", "markWrite",
           "drive", "poll", "launch", "wait", "beat", "beatWrite", "rank", "end",
           "finish", "finishWrite", "failJob", "failWrite", "crashed", "exit", "dead",
           "idle", "spawn", "statusJob", "statusAlive", "statusFinish", "statusWrite",
           "cancelFlag", "cancelSignal", "cancelPid", "open", "write"}

Goto(p, l) == pc' = [pc EXCEPT ![p] = l]

At(p, l) == pc[p] = l

Readable(s) == file[s] = "json"

Idle == At(Server, "idle")

\* The handler returns (or raises): its local variables are gone.
EndCall ==
  /\ Goto(Server, "idle")
  /\ mem' = [mem EXCEPT ![Server] = NewStudy]
  /\ tgt' = [tgt EXCEPT ![Server] = None]
  /\ seen' = "none"

\* A save begins with the open, unless the run takes it for one step.
SaveBegins == IF "tear" \in Faults THEN "open" ELSE "write"

\* save_study(st) followed by step k: p opens the file next.
Save(p, st, k) ==
  /\ mem'  = [mem EXCEPT ![p] = st]
  /\ cont' = [cont EXCEPT ![p] = k]
  /\ Goto(p, SaveBegins)

\* write_text opens study.json with O_TRUNC ...
OpenStudy(p) ==
  /\ At(p, "open")
  /\ file' = [file EXCEPT ![sid[p]] = "empty"]
  /\ Goto(p, "write")
  /\ UNCHANGED <<study, jobVars, osVars, runVars, ctlVars, histVars>>

\* ... and writes it.  Where another process wrote since, the longer text
\* keeps its tail behind the shorter one, which is not JSON any more.
WriteStudy(p) ==
  /\ At(p, "write")
  /\ study' = [study EXCEPT ![sid[p]] = mem[p]]
  /\ \E f \in IF "tear" \in Faults /\ file[sid[p]] # "empty"
             THEN {"json", "garbage"} ELSE {"json"} :
        file' = [file EXCEPT ![sid[p]] = f]
  /\ IF cont[p] = "idle"
     THEN EndCall
     ELSE Goto(p, cont[p]) /\ UNCHANGED <<mem, tgt, seen>>
  /\ UNCHANGED <<jobVars, osVars, runVars, cont, sid, todo, histVars>>

\* jobs.finish, first half: load the record and check the transition.
LoadToFinish(p, j, ok, illegal) ==
  Goto(p, IF job[j] = "running" THEN ok ELSE illegal)

\* Any write of job.json: os.replace of the whole record.
WriteJob(j, s) == job' = [job EXCEPT ![j] = s]

-----------------------------------------------------------------------------
(* The runner: study_runner.main and run_driver_study.                     *)

Runs(r, l) == Live(r) /\ At(r, l)

\* main installs the SIGTERM handler; until then SIGTERM kills the runner.
InstallHandler(r) ==
  /\ Runs(r, "boot")
  /\ Goto(r, "load")
  /\ UNCHANGED <<diskVars, jobVars, osVars, runVars, ctlVars, histVars>>

\* main loads the study to see that it has a driver.
LoadStudy(r) ==
  /\ Runs(r, "load")
  /\ Goto(r, IF Readable(sid[r]) THEN "reset" ELSE "crashed")
  /\ mem' = [mem EXCEPT ![r] = study[sid[r]]]
  /\ UNCHANGED <<diskVars, jobVars, osVars, runVars, cont, sid, seen, tgt, todo, histVars>>

\* run_driver_study forgets a SIGTERM that came since the handler was installed.
ResetFlag(r) ==
  /\ Runs(r, "reset")
  /\ sig' = [sig EXCEPT ![r] = FALSE]
  /\ Goto(r, "list")
  /\ UNCHANGED <<diskVars, jobVars, proc, reaper, child, runVars, ctlVars, histVars>>

\* recover_stale lists the job directories once ...
ListJobs(r) ==
  /\ Runs(r, "list")
  /\ todo' = [todo EXCEPT ![r] = {j \in Runners : job[j] # "none"}]
  /\ Goto(r, "recover")
  /\ UNCHANGED <<diskVars, jobVars, osVars, runVars, cont, mem, sid, seen, tgt, histVars>>

\* ... reads each record (job ids are random, so in any order), skipping those
\* not RUNNING ...
RecoverRead(r) ==
  /\ Runs(r, "recover")
  /\ \E j \in todo[r] :
       /\ todo' = [todo EXCEPT ![r] = @ \ {j}]
       /\ IF job[j] = "running"
          THEN Goto(r, "recoverCheck") /\ tgt' = [tgt EXCEPT ![r] = j]
          ELSE UNCHANGED <<pc, tgt>>
  /\ UNCHANGED <<diskVars, jobVars, osVars, runVars, cont, mem, sid, seen, histVars>>

\* ... asks whether its process is alive ...
RecoverCheck(r) ==
  /\ Runs(r, "recoverCheck")
  /\ IF IsAlive(tgt[r])
     THEN Goto(r, "recover") /\ tgt' = [tgt EXCEPT ![r] = None]
     ELSE Goto(r, "recoverLoad") /\ UNCHANGED tgt
  /\ UNCHANGED <<diskVars, jobVars, osVars, runVars, cont, mem, sid, todo, seen, histVars>>

\* ... and finishes it as FAILED("orphaned").  JobError ends the runner.
RecoverLoad(r) ==
  /\ Runs(r, "recoverLoad")
  /\ LoadToFinish(r, tgt[r], "recoverWrite", "crashed")
  /\ UNCHANGED <<diskVars, jobVars, osVars, runVars, ctlVars, histVars>>

RecoverWrite(r) ==
  /\ Runs(r, "recoverWrite")
  /\ WriteJob(tgt[r], "failed")
  /\ tgt' = [tgt EXCEPT ![r] = None]
  /\ Goto(r, "recover")
  /\ UNCHANGED <<diskVars, flag, osVars, runVars, cont, mem, sid, todo, seen, histVars>>

RecoverDone(r) ==
  /\ Runs(r, "recover")
  /\ todo[r] = {}
  /\ Goto(r, "reload")
  /\ UNCHANGED <<diskVars, jobVars, osVars, runVars, ctlVars, histVars>>

\* run_driver_study loads its own copy of the study, the one it will save.
ReloadStudy(r) ==
  /\ Runs(r, "reload")
  /\ Goto(r, IF Readable(sid[r]) THEN "create" ELSE "crashed")
  /\ mem' = [mem EXCEPT ![r] = study[sid[r]]]
  /\ UNCHANGED <<diskVars, jobVars, osVars, runVars, cont, sid, seen, tgt, todo, histVars>>

CreateJob(r) ==
  /\ Runs(r, "create")
  /\ WriteJob(r, "pending")
  /\ Goto(r, "mark")
  /\ UNCHANGED <<diskVars, flag, osVars, runVars, ctlVars, histVars>>

\* mark_running loads the record and checks PENDING -> RUNNING ...
MarkLoad(r) ==
  /\ Runs(r, "mark")
  /\ Goto(r, IF job[r] = "pending" THEN "markWrite" ELSE "crashed")
  /\ UNCHANGED <<diskVars, jobVars, osVars, runVars, ctlVars, histVars>>

\* Faulty: study.json learns the pid alone.
MarkWriteNoJob(r) ==
  /\ Runs(r, "markWrite")
  /\ WriteJob(r, "running")
  /\ Save(r, [mem[r] EXCEPT !.pid = r], "drive")
  /\ UNCHANGED <<diskVars, flag, osVars, runVars, sid, seen, tgt, todo, histVars>>

\* ... and writes it; then study.json learns the job id and the runner's pid.
MarkWrite(r) ==
  /\ Runs(r, "markWrite")
  /\ WriteJob(r, "running")
  /\ Save(r, [mem[r] EXCEPT !.job = r, !.pid = r], "drive")
  /\ UNCHANGED <<diskVars, flag, osVars, runVars, sid, seen, tgt, todo, histVars>>

-----------------------------------------------------------------------------
(* GridDriver.run and SubprocessEvaluatorBackend.evaluate.                 *)

PhaseCount(r) == IF phase[r] = "coarse" THEN CoarseCount ELSE RefinedCount

\* Faulty: a sweep that never asks.
CancelVisibleNever(r) == FALSE

\* cancelled(): the signal handler ran or the job's flag file exists.
CancelVisible(r) == sig[r] \/ flag[r]

\* GridDriver.run: the coarse grid is built and RUNNING_COARSE saved.
StartCoarse(r) ==
  /\ Runs(r, "drive")
  /\ phase' = [phase EXCEPT ![r] = "coarse"]
  /\ idx' = [idx EXCEPT ![r] = 0]
  /\ Save(r, [mem[r] EXCEPT !.status = "running_coarse"], "poll")
  /\ UNCHANGED <<diskVars, jobVars, osVars, feas, sid, seen, tgt, todo, histVars>>

\* cancelled() is asked before each point.
PollCancelled(r) ==
  /\ Runs(r, "poll")
  /\ idx[r] < PhaseCount(r)
  /\ IF CancelVisible(r)
     THEN Save(r, [mem[r] EXCEPT !.status = "cancelled"], "end")
     ELSE Goto(r, "launch") /\ UNCHANGED <<mem, cont>>
  /\ UNCHANGED <<diskVars, jobVars, osVars, runVars, sid, seen, tgt, todo, histVars>>

LaunchEvaluator(r) ==
  /\ Runs(r, "launch")
  /\ child' = [child EXCEPT ![r] = "running"]
  /\ Goto(r, "wait")
  /\ late' = [late EXCEPT ![r] = @ + (IF sig[r] \/ flag[r] THEN 1 ELSE 0)]
  /\ UNCHANGED <<diskVars, jobVars, proc, reaper, sig, runVars, ctlVars, restarted, current, doubled>>

\* The evaluator process ends by itself.
EvaluatorExit(r) ==
  /\ child[r] = "running"
  /\ child' = [child EXCEPT ![r] = "exited"]
  /\ UNCHANGED <<diskVars, jobVars, proc, reaper, sig, runVars, pc, ctlVars, histVars>>

\* communicate() returns: the variant is recorded done or failed, saved, and
\* the job's heartbeat follows.
Collect(r) ==
  /\ Runs(r, "wait")
  /\ child[r] = "exited"
  /\ child' = [child EXCEPT ![r] = "none"]
  /\ idx' = [idx EXCEPT ![r] = @ + 1]
  /\ \E feasible \in BOOLEAN : feas' = [feas EXCEPT ![r] = @ \/ feasible]
  /\ Save(r, mem[r], "beat")
  /\ UNCHANGED <<diskVars, jobVars, proc, reaper, sig, phase, sid, seen, tgt, todo, histVars>>

\* Faulty: a point that timed out is evaluated again.
EvaluatorTimeoutRetry(r) ==
  /\ "timeout" \in Faults
  /\ Runs(r, "wait")
  /\ child[r] = "running"
  /\ child' = [child EXCEPT ![r] = "none"]
  /\ Save(r, mem[r], "beat")
  /\ UNCHANGED <<diskVars, jobVars, proc, reaper, sig, runVars, sid, seen, tgt, todo, histVars>>

\* communicate(timeout) expires: terminate_current escalates from SIGTERM to
\* SIGKILL and returns with the child dead; the variant failed.
EvaluatorTimeout(r) ==
  /\ "timeout" \in Faults
  /\ Runs(r, "wait")
  /\ child[r] = "running"
  /\ child' = [child EXCEPT ![r] = "none"]
  /\ idx' = [idx EXCEPT ![r] = @ + 1]
  /\ Save(r, mem[r], "beat")
  /\ UNCHANGED <<diskVars, jobVars, proc, reaper, sig, phase, feas, sid, seen, tgt, todo, histVars>>

\* heartbeat loads the record; its JobError is swallowed ...
BeatLoad(r) ==
  /\ Runs(r, "beat")
  /\ Goto(r, IF job[r] = "running" THEN "beatWrite" ELSE "poll")
  /\ UNCHANGED <<diskVars, jobVars, osVars, runVars, ctlVars, histVars>>

\* ... and writes the record it read back, RUNNING, with a new time.
BeatWrite(r) ==
  /\ Runs(r, "beatWrite")
  /\ WriteJob(r, "running")
  /\ Goto(r, "poll")
  /\ UNCHANGED <<diskVars, flag, osVars, runVars, ctlVars, histVars>>

\* All points of the coarse grid evaluated: COARSE_DONE is saved, then ranked.
CoarseDone(r) ==
  /\ Runs(r, "poll")
  /\ phase[r] = "coarse" /\ idx[r] = CoarseCount
  /\ Save(r, [mem[r] EXCEPT !.status = "coarse_done"], "rank")
  /\ UNCHANGED <<diskVars, jobVars, osVars, runVars, sid, seen, tgt, todo, histVars>>

RankCoarse(r) ==
  /\ Runs(r, "rank")
  /\ IF feas[r]
     THEN /\ phase' = [phase EXCEPT ![r] = "refined"]
          /\ idx' = [idx EXCEPT ![r] = 0]
          /\ Save(r, [mem[r] EXCEPT !.status = "running_refined"], "poll")
     ELSE /\ UNCHANGED <<phase, idx>>
          /\ Save(r, [mem[r] EXCEPT !.status = "failed"], "end")
  /\ UNCHANGED <<diskVars, jobVars, osVars, feas, sid, seen, tgt, todo, histVars>>

\* Both sweeps done: the best variant is this run's, the study COMPLETE.
RefinedDone(r) ==
  /\ Runs(r, "poll")
  /\ phase[r] = "refined" /\ idx[r] = RefinedCount
  /\ Save(r, [mem[r] EXCEPT !.status = "complete", !.best = r], "end")
  /\ UNCHANGED <<diskVars, jobVars, osVars, runVars, sid, seen, tgt, todo, histVars>>

\* driver.run raises: the study is saved FAILED, then the job is finished.
DriverRaise(r) ==
  /\ "raise" \in Faults
  /\ Runs(r, "drive") \/ Runs(r, "launch")
  /\ Save(r, [mem[r] EXCEPT !.status = "failed"], "failJob")
  /\ UNCHANGED <<diskVars, jobVars, osVars, runVars, sid, seen, tgt, todo, histVars>>

\* driver.run returned: the child is gone already, finished_at is saved.
EndDriver(r) ==
  /\ Runs(r, "end")
  /\ Save(r, mem[r], "finish")
  /\ UNCHANGED <<diskVars, jobVars, osVars, runVars, sid, seen, tgt, todo, histVars>>

\* Faulty: everything that is not COMPLETE counts as cancelled.
JobOutcomeBinary(s) == IF s = "complete" THEN s ELSE "cancelled"

\* The job status the study's final status maps to.
JobOutcome(s) == IF s \in {"complete", "cancelled"} THEN s ELSE "failed"

FinishLoad(r) ==
  /\ Runs(r, "finish") \/ Runs(r, "failJob")
  /\ LoadToFinish(r, r, IF At(r, "finish") THEN "finishWrite" ELSE "failWrite", "crashed")
  /\ UNCHANGED <<diskVars, jobVars, osVars, runVars, ctlVars, histVars>>

FinishWrite(r) ==
  /\ Runs(r, "finishWrite")
  /\ WriteJob(r, JobOutcome(mem[r].status))
  /\ Goto(r, "exit")
  /\ UNCHANGED <<diskVars, flag, osVars, runVars, ctlVars, histVars>>

\* After a crash of the driver the job is FAILED and the exception goes on.
FailWrite(r) ==
  /\ Runs(r, "failWrite")
  /\ WriteJob(r, "failed")
  /\ Goto(r, "crashed")
  /\ UNCHANGED <<diskVars, flag, osVars, runVars, ctlVars, histVars>>

\* main's except clause: reload the study, mark it FAILED, exit with 1.  An
\* unreadable study is passed over.
MarkCrashed(r) ==
  /\ Runs(r, "crashed")
  /\ IF Readable(sid[r])
     THEN Save(r, [study[sid[r]] EXCEPT !.status = "failed"], "exit")
     ELSE Goto(r, "exit") /\ UNCHANGED <<mem, cont>>
  /\ UNCHANGED <<diskVars, jobVars, osVars, runVars, sid, seen, tgt, todo, histVars>>

\* The process ends and its memory with it.  An evaluator it leaves behind only
\* writes to the artifact store, so it is not followed any further.
RunnerDies(r) ==
  /\ proc' = [proc EXCEPT ![r] = Ended(r)]
  /\ Goto(r, "dead")
  /\ child' = [child EXCEPT ![r] = "none"]
  /\ phase' = [phase EXCEPT ![r] = "coarse"]
  /\ idx' = [idx EXCEPT ![r] = 0]
  /\ feas' = [feas EXCEPT ![r] = FALSE]
  /\ mem' = [mem EXCEPT ![r] = NewStudy]
  /\ cont' = [cont EXCEPT ![r] = "idle"]
  /\ tgt' = [tgt EXCEPT ![r] = None]
  /\ todo' = [todo EXCEPT ![r] = {}]
  /\ UNCHANGED <<diskVars, jobVars, reaper, sig, sid, seen, histVars>>

RunnerExit(r) == Runs(r, "exit") /\ RunnerDies(r)

\* SIGKILL, out of memory: no handler runs.
RunnerKilled(r) == "kill" \in Faults /\ Live(r) /\ RunnerDies(r)

-----------------------------------------------------------------------------
(***************************************************************************)
(* The MCP server.  Its dispatch loop runs one tool call at a time, so one *)
(* handler is in progress at most.                                         *)
(***************************************************************************)
\* study_run: the guard, the reset for a re-run and its save.  job_id, pid and
\* the job of an earlier run stay in the record.
StudyRun(s) ==
  /\ "run" \in Tools
  /\ Idle
  /\ Readable(s)
  /\ study[s].status \in RunnableStates
  /\ \E r \in Runners : proc[r] = "unborn"
  /\ sid' = [sid EXCEPT ![Server] = s]
  /\ Save(Server, [study[s] EXCEPT !.status = "draft", !.best = None], "spawn")
  /\ doubled' = doubled \union {t \in {s} : \E r \in Runners : Live(r) /\ sid[r] = t}
  /\ UNCHANGED <<diskVars, jobVars, osVars, runVars, seen, tgt, todo, restarted, current, late>>

\* subprocess.Popen (which first reaps dead children), then the second save of
\* the copy in memory, with the pid.
SpawnRunner ==
  /\ At(Server, "spawn")
  /\ \E r \in Runners :
       /\ proc[r] = "unborn"
       /\ proc' = [Reaped EXCEPT ![r] = "live"]
       /\ reaper' = [reaper EXCEPT ![r] = Server]
       /\ sid' = [sid EXCEPT ![r] = sid[Server]]
       /\ pc' = [pc EXCEPT ![r] = "boot", ![Server] = SaveBegins]
       /\ mem' = [mem EXCEPT ![Server].pid = r]
       /\ current' = [current EXCEPT ![sid[Server]] = r]
  /\ cont' = [cont EXCEPT ![Server] = "idle"]
  /\ UNCHANGED <<diskVars, jobVars, sig, child, runVars, seen, tgt, todo, restarted, late, doubled>>

\* study_status loads the study; without a job id it changes nothing.
StudyStatusCall(s) ==
  /\ "status" \in Tools
  /\ Idle
  /\ Readable(s)
  /\ study[s].job # None
  /\ sid' = [sid EXCEPT ![Server] = s]
  /\ mem' = [mem EXCEPT ![Server] = study[s]]
  /\ tgt' = [tgt EXCEPT ![Server] = study[s].job]
  /\ Goto(Server, "statusJob")
  /\ UNCHANGED <<diskVars, jobVars, osVars, runVars, cont, seen, todo, histVars>>

\* It loads the job, then asks whether its process is alive ...
StatusLoadJob ==
  /\ At(Server, "statusJob")
  /\ seen' = job[tgt[Server]]
  /\ Goto(Server, "statusAlive")
  /\ UNCHANGED <<diskVars, jobVars, osVars, runVars, cont, mem, sid, tgt, todo, histVars>>

\* Faulty: the job's error becomes the status of the study.
StatusRecoverOrphaned ==
  IF mem[Server].status \in RunningStates
  THEN /\ Save(Server, [mem[Server] EXCEPT !.status = "orphaned"], "idle")
       /\ UNCHANGED <<tgt, seen>>
  ELSE EndCall /\ UNCHANGED cont

\* The study half of the recovery: FAILED("runner died") over the copy loaded
\* before, if that was in a running state.
StatusRecoverStudy ==
  IF mem[Server].status \in RunningStates
  THEN /\ Save(Server, [mem[Server] EXCEPT !.status = "failed"], "idle")
       /\ UNCHANGED <<tgt, seen>>
  ELSE EndCall /\ UNCHANGED cont

StatusAlive ==
  /\ At(Server, "statusAlive")
  /\ CASE IsAlive(tgt[Server]) -> EndCall /\ UNCHANGED cont
       [] ~IsAlive(tgt[Server]) /\ seen = "running" ->
            Goto(Server, "statusFinish") /\ UNCHANGED <<cont, mem, tgt, seen>>
       [] OTHER -> StatusRecoverStudy
  /\ UNCHANGED <<diskVars, jobVars, osVars, runVars, sid, todo, histVars>>

\* ... and finishes a dead runner's job first.  A JobError ends the call.
StatusFinishLoad ==
  /\ At(Server, "statusFinish")
  /\ IF job[tgt[Server]] = "running"
     THEN Goto(Server, "statusWrite") /\ UNCHANGED <<mem, tgt, seen>>
     ELSE EndCall
  /\ UNCHANGED <<diskVars, jobVars, osVars, runVars, cont, sid, todo, histVars>>

StatusFinishWrite ==
  /\ At(Server, "statusWrite")
  /\ WriteJob(tgt[Server], "failed")
  /\ StatusRecoverStudy
  /\ UNCHANGED <<diskVars, flag, osVars, runVars, sid, todo, histVars>>

\* study_cancel goes by the job id if the record has one, else by the pid.
StudyCancel(s) ==
  /\ "cancel" \in Tools
  /\ Idle
  /\ Readable(s)
  /\ \/ /\ study[s].job # None
        /\ tgt' = [tgt EXCEPT ![Server] = study[s].job]
        /\ Goto(Server, "cancelFlag")
     \/ /\ study[s].job = None /\ study[s].pid # None
        /\ tgt' = [tgt EXCEPT ![Server] = study[s].pid]
        /\ Goto(Server, "cancelPid")
  /\ sid' = [sid EXCEPT ![Server] = s]
  /\ UNCHANGED <<diskVars, jobVars, osVars, runVars, cont, mem, seen, todo, histVars>>

\* SIGTERM to runner r, which before the handler is installed kills it; then
\* the call returns.
TerminateAndEnd(r) ==
  \/ /\ Live(r) /\ At(r, "boot")
     /\ proc' = [proc EXCEPT ![r] = Ended(r)]
     /\ pc' = [pc EXCEPT ![r] = "dead", ![Server] = "idle"]
     /\ UNCHANGED sig
  \/ /\ Live(r) /\ ~At(r, "boot")
     /\ sig' = [sig EXCEPT ![r] = TRUE]
     /\ Goto(Server, "idle")
     /\ UNCHANGED proc
  \/ ~Live(r) /\ Goto(Server, "idle") /\ UNCHANGED <<proc, sig>>

\* request_cancel: load the record, write the flag ...
CancelTouchFlag ==
  /\ At(Server, "cancelFlag")
  /\ seen' = job[tgt[Server]]
  /\ flag' = [flag EXCEPT ![tgt[Server]] = TRUE]
  /\ Goto(Server, "cancelSignal")
  /\ UNCHANGED <<diskVars, job, osVars, runVars, cont, mem, sid, tgt, todo, histVars>>

\* ... then nudge the runner if the record said RUNNING and its pid is alive.
CancelSignal ==
  /\ At(Server, "cancelSignal")
  /\ IF seen = "running" /\ IsAlive(tgt[Server])
     THEN TerminateAndEnd(tgt[Server])
     ELSE Goto(Server, "idle") /\ UNCHANGED <<proc, sig>>
  /\ tgt' = [tgt EXCEPT ![Server] = None]
  /\ seen' = "none"
  /\ UNCHANGED <<diskVars, jobVars, reaper, child, runVars, cont, mem, sid, todo, histVars>>

\* Without a job id: os.kill on the recorded pid, whoever has it now.
CancelByPid ==
  /\ At(Server, "cancelPid")
  /\ TerminateAndEnd(tgt[Server])
  /\ tgt' = [tgt EXCEPT ![Server] = None]
  /\ UNCHANGED <<diskVars, jobVars, reaper, child, runVars, cont, mem, sid, todo, seen, histVars>>

\* Another tool of the server starts a subprocess, which reaps dead children.
OtherSpawn ==
  /\ "spawn" \in Faults
  /\ Idle
  /\ proc' = Reaped
  /\ UNCHANGED <<diskVars, jobVars, reaper, sig, child, runVars, pc, ctlVars, histVars>>

\* The server dies in whatever it was doing and a new one starts: its zombies
\* are reaped, its live children pass to init.
ServerRestart ==
  /\ "restart" \in Faults
  /\ ~restarted
  /\ restarted' = TRUE
  /\ proc' = Reaped
  /\ reaper' = [r \in Runners |-> None]
  /\ EndCall
  /\ UNCHANGED <<diskVars, jobVars, sig, child, runVars, cont, sid, todo, current, late, doubled>>

PidReuse(r) ==
  /\ "reuse" \in Faults
  /\ proc[r] = "gone"
  /\ proc' = [proc EXCEPT ![r] = "reused"]
  /\ UNCHANGED <<diskVars, jobVars, reaper, sig, child, runVars, pc, ctlVars, histVars>>

-----------------------------------------------------------------------------
Init ==
  /\ file      = [s \in Studies |-> "json"]
  /\ study     = [s \in Studies |-> NewStudy]
  /\ job       = [j \in Runners |-> "none"]
  /\ flag      = [j \in Runners |-> FALSE]
  /\ proc      = [r \in Runners |-> "unborn"]
  /\ reaper    = [r \in Runners |-> Server]
  /\ sig       = [r \in Runners |-> FALSE]
  /\ child     = [r \in Runners |-> "none"]
  /\ phase     = [r \in Runners |-> "coarse"]
  /\ idx       = [r \in Runners |-> 0]
  /\ feas      = [r \in Runners |-> FALSE]
  /\ pc        = [p \in Procs |-> IF p = Server THEN "idle" ELSE "unborn"]
  /\ cont      = [p \in Procs |-> "idle"]
  /\ mem       = [p \in Procs |-> NewStudy]
  /\ sid       \in {[p \in Procs |-> s] : s \in Studies}
  /\ seen      = "none"
  /\ tgt       = [p \in Procs |-> None]
  /\ todo      = [p \in Procs |-> {}]
  /\ restarted = FALSE
  /\ current   = [s \in Studies |-> None]
  /\ late      = [r \in Runners |-> 0]
  /\ doubled   = {}

\* What runner r does by itself, whatever the machine does to it.
RunnerStep(r) ==
  \/ InstallHandler(r) \/ LoadStudy(r) \/ ResetFlag(r)
  \/ ListJobs(r) \/ RecoverRead(r) \/ RecoverCheck(r) \/ RecoverLoad(r)
  \/ RecoverWrite(r) \/ RecoverDone(r)
  \/ ReloadStudy(r) \/ CreateJob(r) \/ MarkLoad(r) \/ MarkWrite(r)
  \/ StartCoarse(r) \/ PollCancelled(r) \/ LaunchEvaluator(r) \/ Collect(r)
  \/ BeatLoad(r) \/ BeatWrite(r) \/ CoarseDone(r) \/ RankCoarse(r) \/ RefinedDone(r)
  \/ EndDriver(r) \/ FinishLoad(r) \/ FinishWrite(r) \/ FailWrite(r)
  \/ MarkCrashed(r) \/ RunnerExit(r)
  \/ OpenStudy(r) \/ WriteStudy(r)

\* What the server does to end the call in progress.
ServerStep ==
  \/ SpawnRunner
  \/ StatusLoadJob \/ StatusAlive \/ StatusFinishLoad \/ StatusFinishWrite
  \/ CancelTouchFlag \/ CancelSignal \/ CancelByPid
  \/ OpenStudy(Server) \/ WriteStudy(Server)

\* A tool call of the client.
ToolCall(s) == StudyRun(s) \/ StudyStatusCall(s) \/ StudyCancel(s)

Environment(r) ==
  EvaluatorExit(r) \/ EvaluatorTimeout(r) \/ DriverRaise(r) \/ RunnerKilled(r) \/ PidReuse(r)

Next ==
  \/ \E r \in Runners : RunnerStep(r) \/ Environment(r)
  \/ ServerStep
  \/ \E s \in Studies : ToolCall(s)
  \/ OtherSpawn
  \/ ServerRestart

Spec == Init /\ [][Next]_vars

\* The operating system runs every live process; the server ends its calls.
ProcessFairness == (\A r \in Runners : WF_vars(RunnerStep(r))) /\ WF_vars(ServerStep)

\* communicate(timeout) does expire when the evaluator hangs.
TimeoutFairness == \A r \in Runners : WF_vars(EvaluatorTimeout(r))

\* The client keeps polling study_status, as the tool's description asks.
PollFairness == \A s \in Studies : SF_vars(StudyStatusCall(s))

FairSpec == Spec /\ ProcessFairness /\ TimeoutFairness /\ PollFairness

-----------------------------------------------------------------------------
(* Types and safety.                                                       *)

TypeOK ==
  /\ file \in [Studies -> {"json", "empty", "garbage"}]
  /\ study \in [Studies -> Study]
  /\ job \in [Runners -> JobStatus \union {"none"}]
  /\ flag \in [Runners -> BOOLEAN]
  /\ proc \in [Runners -> ProcState]
  /\ reaper \in [Runners -> {Server, None}]
  /\ sig \in [Runners -> BOOLEAN]
  /\ child \in [Runners -> {"none", "running", "exited"}]
  /\ phase \in [Runners -> {"coarse", "refined"}]
  /\ idx \in [Runners -> Nat]
  /\ feas \in [Runners -> BOOLEAN]
  /\ pc \in [Procs -> Labels]
  /\ cont \in [Procs -> Labels]
  /\ mem \in [Procs -> Study]
  /\ sid \in [Procs -> Studies]
  /\ seen \in JobStatus \union {"none"}
  /\ tgt \in [Procs -> Runners \union {None}]
  /\ todo \in [Procs -> SUBSET Runners]
  /\ restarted \in BOOLEAN
  /\ current \in [Studies -> Runners \union {None}]
  /\ late \in [Runners -> Nat]
  /\ doubled \subseteq Studies

\* Every job record moves only as jobs.py allows and never leaves a terminal
\* status, although finish, heartbeat and mark_running load and write without
\* a lock and study_status and recover_stale finish jobs that are not theirs.
Lifecycle == INSTANCE JobLifecycle WITH Jobs <- Runners
JobsFollowLifecycle == Lifecycle!Spec

\* The steps between mark_running and the write of finish, the saves included.
Working(r) ==
  \/ pc[r] \in {"drive", "poll", "launch", "wait", "beat", "beatWrite", "rank",
                "end", "finish", "finishWrite", "failJob", "failWrite"}
  \/ /\ pc[r] \in {"open", "write"}
     /\ cont[r] # "exit"

\* A runner that is alive finds its own job RUNNING until it finishes it itself:
\* no status call, restarted server or other runner takes it for orphaned.
LiveRunnerKeepsJob == \A r \in Runners : Live(r) /\ Working(r) => job[r] = "running"

\* A job ends CANCELLED only if a cancel was addressed to that runner or to that
\* job: a failed or crashed sweep is never reported as cancelled.
CancelledOnlyOnRequest ==
  \A r \in Runners : job[r] = "cancelled" => sig[r] \/ flag[r]

\* Cancelling stops the sweep between points: once a runner can see its cancel,
\* it starts one more evaluator at most (the poll may have been just before).
CancelStopsSweep == \A r \in Runners : late[r] <= 1

\* A finished result stays: study.json never goes from COMPLETE back to FAILED
\* while the server that started the runner lives, and so its runner is no
\* orphan: study_status decides on a copy loaded before it asks is_alive.  Only a
\* second runner, of a study_run before the first had saved RUNNING_COARSE, may
\* do that.
CompleteKept ==
  [][\A s \in Studies :
       ~restarted /\ s \notin doubled /\ study[s].status = "complete"
         => study'[s].status # "failed"]_vars

\* study.json names the run it shows: a study in a state only its runner writes
\* carries the job of the runner study_run spawned last, which study_cancel and
\* study_status go by, and a COMPLETE one has the best variant of that run, although
\* the server saves an older copy with the job and the pid of an earlier run while
\* the new runner is starting.
StudyNamesItsRun ==
  \A s \in Studies \ doubled :
    study[s].status \notin {"draft", "failed"} =>
      /\ current[s] \in Runners /\ study[s].job = current[s]
      /\ study[s].status = "complete" => study[s].best = current[s]

-----------------------------------------------------------------------------
(* Liveness.                                                               *)

\* Every runner ends, also when its evaluators hang.
RunnerEnds == \A r \in Runners : Live(r) ~> ~Live(r)

\* study.json shows s in one of states st, and its runner's pid is one of ps.
Abandoned(s, st, ps) ==
  /\ Readable(s)
  /\ study[s].status \in st
  /\ study[s].job # None
  /\ proc[study[s].job] \in ps

\* A polled study whose runner is dead and reaped leaves its running state, also
\* when the server is restarted meanwhile; unless it dies itself in the save.
ReapedRunnerNoticed ==
  \A s \in Studies :
    Abandoned(s, RunningStates, {"gone", "reused"})
      ~> study[s].status \notin RunningStates \/ ~Readable(s)
=============================================================================
