# A TLA+ model of SolidMind CAD

SolidMind CAD lets a language model drive FreeCAD, parametric studies, remote
build workers and simulation engines through one MCP server. This directory
holds TLA+ modules for the parts of it that run concurrently or must survive
crashes, TLC configurations that check them on small instances, and TLAPS
proofs of their invariants for all instances.

To check: `tlc -config DS_live.cfg MCDriverStudy.tla`, or any `.cfg` with the MC
module of its prefix: `DS_` MCDriverStudy, `ES_` MCEvalStore, `FB_`
MCFreeCadBridge, `EM_` MCEngineManager, `WB_` MCWorkerBuild, `OR_`
MCOrchestratorRun, `MS_` MCMotionSessions. To prove: `tlapm` on any module whose
name ends in `Proofs`.

## The system

| Component | Code | State | Operations | Hard behaviour |
|---|---|---|---|---|
| Job records | `server/jobs.py` | `job.json`, cancel flag and heartbeat per job | create, mark_running, heartbeat, finish, request_cancel, is_alive, recover_stale | several processes read, modify and write one file with no lock; dead, zombie and reused pids |
| Driver-mode study runner | `server/study_driver_runner.py`, `study_drivers.py`, `study_runner.py`, `study_store.py` | `study.json`, the evaluator child, the SIGTERM flag | the sweep: poll cancel, launch, wait, collect, save, heartbeat; rank; finish; crash handler | killed at any step; shares `study.json` with the server |
| Study tools | `server/tools_study.py` | a copy of the study per call | study_run, study_status, study_cancel | decide on copies that are stale when used; the server may be restarted |
| Evaluator and artifact store | `server/evaluator.py`, `artifact_store.py`, `dg_store.py`, `eval_models.py`, `env_identity.py` | `objects/`, `lineage/`, `refs/`; request and result files | commit_revision, evaluate_request, replay | evaluators race and crash between writes, and share work directories |
| FreeCAD bridge | `server/freecad_client.py`, `freecad_addon/socket_server.py`, `protocol.py` | sockets, job queue, timer | send_command; accept, dispatch, process jobs; start, stop | two timeouts per call, no message ids, threads that outlive stop |
| Engine manager | `server/sim_engine_manager.py`, hooks in `main.py` | a record per engine under a lock, processes | start_engine, stop_engine, shutdown_all, health | the lock is released while engines launch and drain; a signal interrupts anything |
| Simulation and teleoperation sessions | `server/tools_motion.py`, `sim_adapter.py`, `engine_client.py`, `reference_engine/` | one socket with its handshake, `_active_sessions`; the engine's two session tables | motion.simulate, teleop start, command, state, stop; the engine's verbs | timeouts keep the socket; a poll without a deadline; engines stop, die and are started again |
| Worker dispatch | `orchestrator/worker.py`, `a2a_client.py`, `a2a_server.py`, `worker_entry.py` | tasks in a worker's memory, its output files | submit, poll, cancel; build, export, package | cancel races with completion; threads cannot be stopped; workers restart |
| Orchestrator run | `orchestrator/runner.py`, `state.py`, `__main__.py`, `worker_subprocess.py` | `spec.yaml`, `state.json`, retry counts, worker processes | init_run, load_run, transition, record_failure; the headless command with gates G0 to G7 | two files, counts in memory only, kills between writes, workers that outlive a driver |
| Everything else | CAD handlers, geometry planner, calculators, solvers, gates | documents | mostly pure | |

How they interact: the MCP server is single-threaded, one tool call at a time.
`study_run` starts a runner process and forgets it; from then on server and
runner meet only in `study.json`, `job.json`, the cancel flag and signals. The
runner starts one evaluator process per design point and meets it in
`evals/<tag>/request.json`, `result.json` and an exit code. Evaluators of all
studies meet in the artifact store. CAD tools reach FreeCAD through the bridge.
The engine manager starts simulation engines, which the motion tools then reach
over a socket of their own. The orchestrator is a command of its own: it drives
a run through its two files and has parts built either by local `claude` processes
or by worker containers over HTTP. `PROJECT.json` lists every component and what
is left out.

What must be right, by component: a job's status moves forward only and a live
runner keeps its job; a dead runner's study is given up, a live or finished one
never; a cancel stops the work and is not reported unasked; whatever a ref names
is complete at every instant; the cache is a memo table over cache keys; a point
gets the metrics of its own bindings; a CAD command runs at most once, in order,
and its caller gets its own response; no engine process is forgotten, and none
outlives the server; a simulation's answer is of its own run, and no session is
left that nobody can stop; a build reported as a success delivers this round's
geometry; a transition puts a run's two files in agreement, whatever came between, it moves only along the table of its states,
its failures are bounded, and it releases what it has built itself.

## The modules

| Module | Models |
|---|---|
| `DriverStudy` | server, runners, evaluator children, `study.json` and `job.json`: one action per file access, process step or decision |
| `JobLifecycle` | the abstract job: `_ALLOWED_TRANSITIONS`. `DriverStudy` implements it (`JobsFollowLifecycle`) |
| `EvalStore` | commits, evaluators, store, and the work directories through which studies call evaluators |
| `EvalMemo` | the abstract cache, a memo table over cache keys. `EvalStore` implements it (`MemoTable`) |
| `FreeCadBridge` | clients, connections with both directions of their byte streams, connection threads, job queue, main thread |
| `BridgeContract` | what `send_command` promises its caller. `FreeCadBridge` implements it (`KeepsBridgeContract`) |
| `EngineManager` | the manager's records, engine processes and ports, the calls and the frame of a signal or exit handler on top of them |
| `MotionSessions` | the tool call, the engine client's socket and the engine behind it, as one composition |
| `WorkerBuild` | a coroutine per part, the calls to the worker, its tasks, build threads and files |
| `BuildContract` | what a dispatch promises. `WorkerBuild` implements it (`KeepsContract`) |
| `OrchestratorRun` | the two files of a run, one driver after another, its worker processes |
| `RunStates` | the tables of `state.py` |
| `RunLifecycle` | the abstract run over them. `OrchestratorRun` implements it (`KeepsLifecycle`) |
| `...Proofs` | the theorems about the module of that name |
| `MC...` | instances for TLC, and statements of docs and comments that the code does not keep |

Definitions that a comment calls faulty or wrong (`IsAliveNever`, `ConnectKeepsBuffer`,
...) are variants with a plausible bug that no action uses; `PROJECT.json`, "mutants",
says which property notices each.

**DriverStudy.** `pc[p]` is where process `p`, a runner or the server, is in its
code. A load of a file puts a copy into `mem[p]` or `seen`; every load and every
write of `study.json` and `job.json` is a step of its own, because that is where
the processes interleave. A job is identified with the runner that created it
and a runner with its pid. `proc[r]` is the kernel's view: live, zombie (dead
and not waited for), gone, or its pid reused; `is_alive` is defined from it. A
save of `study.json` is `write_text`, so under the fault `tear` it is two steps,
truncate and write. `flag` and `sig` are the two roads of a cancel. `late`,
`current`, `restarted` and `doubled` are history. Metrics and rankings are reduced
to "a feasible point was seen".

**EvalStore.** An object and its hash are one value. A result is a record of its
cache key and of the order its request listed bindings in, the only part of a
request that a result shows and the key does not. Every put, lineage record, ref
and read is a step. `Fate` says how an evaluation with given bindings ends. A
directory of `Dirs` belongs to one study and variant; a runner may die there and
the next one launch an evaluator beside the old one (`lost`).

**FreeCadBridge.** A message is the number of the call it belongs to, which the
protocol itself does not carry. `inbox` and `outbox` are the two streams of a
connection; `recv` may take one command or several. The thread of a connection
checks `_running` between batches and `_timer` at each command, as the code
does. The main thread starts, stops and restarts the server, and a server
instance has its own queue.

**EngineManager.** A call is one step per section under `_lock` and one per wait.
`handle[b]` is `EngineState.process`; `proc[p]` is what `poll()` and the port
show of a process. Whether something listens decides a start (`Listening`), so a
process that lives and does not listen can be launched over; the history
variable `lost` keeps those, and `raced` the engines two calls were about at once,
which takes a second thread (the run has one). A signal runs `shutdown_all` in a frame of its own
(`Exit`) on top of the main thread, wherever that is; `StopRaises` is the
`TimeoutExpired` that leaves `stop_engine` when a process survives SIGKILL for
two seconds, with the three places it can end up in.

**MotionSessions.** A call first asks for capabilities (`pc = "gate"`, `asks` the
queries left; an answer is cached in `hello` for as long as the socket lives), then
sends its commands; `out` says that it is reading. `req` and `rsp` are the two
streams. A response shows the client what its fields show: which command it is
a result of, an error, and the session or run in it. A session is known by the
number of the call that started it. `late` is history: a read on this socket has
timed out. The engine is up, stopping (`_stop_event`) or down; when its end closes,
what was on the way may be lost (`Break`).

**WorkerBuild.** A call to the worker is three steps: the request is out, the
event loop has handled it, the client has the answer. `phase[t]` is the build
thread of a task, which nothing can stop; what a file holds is the round it was
built for. A worker restart loses tasks and threads and keeps files; an
orchestrator restart loses the coroutines and tells nobody.

**OrchestratorRun.** `mem` is the driver's run, `specFile` and `stateFile` what is
on disk; each write is a step, and a kill in it leaves the file torn. A driver is a
session, which calls the runner's functions in any order, or the command line,
which goes from a frozen spec to AWAITING_HUMAN. What the gates find in the
documents is a choice, except G4, which looks for STEP files: `step[w]` is the
dispatch whose worker wrote the one that is there. Worker processes outlive
their driver. The spec's own status is set by `transition`, which saves both files;
a session that works on the spec or replaces it and calls `save_spec`
(`SessionEdits`), a person (`EditByHand`) and the command line, of a spec from
elsewhere (`TakeSpec`), write `spec.yaml` alone, with whatever status that spec has
(`OtherStatus`). `init_run` (`NewRun`) may find a run in its directory, and writes over
its two files. `cut` and `edited` are history: since the last whole save of both files
one was killed halfway, or other hands changed the spec's status.

## The runs

| Run | Expect | Instance | Shows |
|---|---|---|---|
| `DS_recovery` | pass | 1 study, 2 runners, kill, raise, server restart | `TypeOK`, `LiveRunnerKeepsJob`, `StudyNamesItsRun`, `JobsFollowLifecycle`, `CompleteKept` |
| `DS_live` | pass | 1 runner, all faults and tools, fair | `CancelledOnlyOnRequest`, `CancelStopsSweep`, `RunnerEnds`, `ReapedRunnerNoticed` |
| `DS_zombie` | violation | server does not spawn again | `DeadRunnerNoticed` |
| `ES_store` | pass | 2 revisions, 2 bindings, 2 environments, 2 evaluators, 2 directories, kill, orphan | `TypeOK`, `RefsComplete`, `FailuresJustified`, `OutcomeOfRequest`, `MemoTable` |
| `FB_bridge` | pass | 1 client, 2 calls, 2 connections, 2 server instances, all faults, fair | `TypeOK`, `RunInOrder`, `OwnAnswer`, `KeepsBridgeContract`, `CallReturns`, `QueueServed` |
| `FB_desync` | violation | client timeout | `ResultOfCommand` |
| `EM_engine` | pass | 2 engines, 2 processes each, 1 thread and the signal, all faults, fair | `TypeOK`, `NothingForgotten`, `ExitStopsTracked`, `CallsEnd`, `CrashNoticed` |
| `MS_sessions` | pass | 3 tool calls, 1 restart of the engine, all faults, fair | `TypeOK`, `AnswersOwnRun`, `SessionsAccounted`, `CallsEnd` |
| `WB_build` | pass | 1 part, 3 dispatches, all faults | `TypeOK`, `DeliversOwnBuild`, `EndedStaysEnded`, `KeepsContract` |
| `WB_queue` | pass | 3 parts, 2 at a time, worker restarts, fair | `DispatchEnds` |
| `OR_run` | pass | 1 part, 2 workers, 2 dispatches, 1 retry, 1 failure code, specs from elsewhere with 2 statuses, all faults, fair | `TypeOK`, `FilesAgree`, `BudgetEndsRun`, `ReleasesThisBuild`, `KeepsLifecycle`, `CommandEnds` |
| `OR_route` | violation | a session, no faults | `ValidationFailuresRouted` |

Each property is stated in words above its definition. The violated ones quote a
docstring or a document; `PROJECT.json`, "findings", has the line of each and the
line of the code that breaks it. In short: a runner that dies while its server
lives stays a zombie, and is polled as alive for ever; after a read timeout a
FreeCAD command returns the late response of the one before; and a skeleton
conflict found while validating geometry has a route that the table of
transitions refuses, after its budget was charged.

**Bounds.** Two runners of one study are the least that lets a runner meet the
job of another, in recovery, re-run and cancellation. One point per sweep reaches
every step of the sweep. Two evaluators suffice for every race of the store, each
property relating one evaluator to the store or two to each other; the run lists
requests in one order, and the theorem is for any number. Two calls, two
connections and two server instances of the bridge allow a late response, a
reconnect and a restart, each once. Two engines let a signal's shutdown fail at
one and so miss the other; two processes per engine let one be launched over
another. Three tool calls are a start, a use and a stop of one robot, or a run
beside it. Three dispatches of one part are two builds that overlap and one that
does not; three parts at two permits make one wait. Two dispatches of a run make
the files of the first stale in the second. A spec from elsewhere says draft, as a new
`MasterSpec` does, or is frozen, as one of another run may be. For the invariants larger instances
are covered by the proofs, which fix none of these numbers; the liveness
properties are about one process, call or coroutine waiting on others, of which
each instance has one of every kind. The runs stop when the bounds are used up,
so deadlock is not checked; the liveness properties are what notices a process
that hangs.

**Fairness.** The weakest each code's scheduling gives:

- `DriverStudy`: the operating system runs every live process
  (`ProcessFairness`), `communicate(timeout=...)` expires (`TimeoutFairness`), and
  the client goes on polling `study_status`, as the tool asks it to
  (`PollFairness`; strong, because a call is only possible between other calls).
- `FreeCadBridge`: every thread and FreeCAD's event loop run, and connecting
  succeeds or is given up.
- `EngineManager`: a call goes on, its waits expire, the signal's frame goes on,
  SIGKILL works in the end, and a status call or the monitor looks again.
- `MotionSessions`: only the server's own thread; nothing is assumed of the engine.
- `WorkerBuild`: the event loop runs, a request is answered or raises, and the
  deadline passes (strong, since it is only looked at between polls).
- `OrchestratorRun`: the command runs on, and a worker process is started and
  reaches its deadline.

Faults, tool calls, signals, restarts, kills and sessions are never fair.

## The proofs

All are safety, for all values of the constants, from the assumptions stated in
the modules alone. Each module has one inductive invariant, `IInv`, which TLC
found no exception to on the instance of the run, and one lemma per group of
actions.

`DriverStudyProofs`:

- `TypeCorrect`; `LiveJobSafe` (`LiveRunnerKeepsJob`), which is not inductive: `IInv`
  adds what each process about to write another's job knows. A server in its
  recovery of job `j`, or a runner in `recover_stale`, has seen `j` dead, and the
  dead stay dead; a runner has no job record before it creates one.
- `JobRefinement`: each step is a step of `JobLifecycle` or a stutter: whoever
  writes a status has read one from which the transition is allowed, and nobody
  else wrote in between.
- `ResultKept` (`CompleteKept`): from `KeptInv`. As long as no study is run again
  beside a live runner, a study has one live runner, which alone completes it; and a
  server that takes a runner it started for dead has a copy of the study that was
  loaded before, and nobody is left to go on with the study. `OneRunnerEach` states
  the first half.
- `NamesItsRun` (`StudyNamesItsRun`): `NamesInv` adds to it that the live runner is
  the one spawned last, that it is spawned over a draft, and that whatever it has
  beyond the draft carries its own job.
- `CancelledMeansRequested` and `CancelStops`: from a second invariant,
  `CancelInv`, which follows a visible cancel from the poll to the outcome and
  counts the evaluators started after it.

`EvalStoreProofs` (`NoneAssumption` says that the values that stand for an absent
file or a failure are not results, requests or names):

- `CommitInv(r)`: what commit `r` has put by the step it is at. `RefInv(k)`: the
  entry of a cache key is of that key and complete. `RunInv(e)`: what evaluator `e`
  holds, what the store had when it began and so has still, what it has written.
  `DirInv(d)`: where no runner was lost only the caller's evaluator is alive, and
  `result.json` is its own once it has ended well. An evaluator killed before it
  writes leaves the result of an earlier call behind, and only the exit code tells.
- Steps of one process keep the parts of the others by three lemmas (`KeepsRun`,
  `KeepsCommit`, `KeepsRef`) from `Grows`: nothing leaves the store.
- `TypeCorrect`, `StoreComplete`, `FailuresHaveReason`, `OutcomesOwn`, and `CacheIsUsed`:
  a point that is in the cache when its evaluator starts is not computed again.
- `CacheIsMemo`: `MemoTable`. A held object is of the key its evaluator looked up, and
  a key's entry, once there, is only replaced by another of that key (`HoldInv`); two
  evaluators that race on one key may do so, and then the order in which the request
  was listed may change from one answer to the next, and nothing else.

`EngineManagerProofs`: `TypeCorrect`, `NothingIsForgotten`, `ExitStops`, for any number
of threads that call the manager. The lock keeps two calls apart only section by
section, so both properties leave out the engines of `raced`: those two calls were
about at once, or one during a shutdown, and there both are false (a stop that ends
drops the handle a start has recorded since; a shutdown passes by an engine another
thread is launching). With the one thread the server has, `raced` stays empty
(`OneThreadNeverRaces`), and nothing is left out. The invariant (`SInv`) says what an
engine outside `raced` is owed:

- `AloneInv`: at most one call is about it, besides the one a signal handler stands on.
- `DrainInv(f)`: whoever drains it holds the handle it drains, and takes that handle
  away itself. `RecordInv`: while a call is starting it, its record is not "stopped",
  which is what a `StopSection` looks at.
- `ExitInv`: where the shutdown's frame may stand, and that an engine it is done with
  has no handle and no call of another thread.
- The steps of one call keep the others' parts by `RecordsKept` and `NoRace`.

`MotionSessionsProofs`: `TypeCorrect`, `OwnRunAnswered`, `NoSessionLeft`. Requests and
responses are paired by order alone, so `AnswersOwnRun` needs what is on the way:
at most one request or its response while the client reads, and nothing while it
does not (`PairInv`). `SessionsAccounted` needs that an engine gets and loses
sessions only with the one socket (`EngineInv`), what the engine holds of the call
at each of its commands (`HeldInv`), and that a response that says "no such session"
is still true when it is read (`SaidInv`).

`WorkerBuildProofs`: `TypeCorrect`, `DeliversOwn`, `EndsStay`, and `ContractKept`, the
refinement of `BuildContract`. `TaskInv` ties a task's status to the phase of its
thread, `PartInv` says what a coroutine knows of its task, `OwnInv` which writes can
have been to a part's files since its build began.

`OrchestratorRunProofs`: `TypeCorrect`, `FilesInStep`, `BudgetsEnd`, `ReleasesOwn`,
`RunRefinement` (`KeepsLifecycle`), `EndsForGood`. `SaveInv` says what each file holds
at each step of a save and after a kill in it, and that outside these the two differ
only where the spec's status was changed alone: it is this that makes every whole save
the end of a disagreement. `EndsForGood` holds until `init_run` starts the run anew:
`EndInv` says that any other driver of a run that is over on disk is in the same final
state, from which no step leads. `BuildInv` follows the STEP files from
the dispatch through G4 to the release; `BudgetEndsRun` is inductive with both.

`FreeCadBridgeProofs`: `TypeCorrect`, `RunsAsSent` (`RunInOrder`), `RunsOnce` (no
command runs twice), which follows from it, `ReadsOwnAnswer` and `BridgeRefinement`. The stream of a connection is what its thread
has received and what it has yet to receive. `SentInv`: a stream increases and holds
only calls sent over that connection, and what runs or is queued came over a
connection of the current server. `OrderInv`: of one connection's calls, those run
come before the one being run, that before those queued, and these before the rest of
the stream. A thread runs a call itself only where no timer runs, and there nothing of
its connection is queued (`MainInv`). `PairInv` is the pairing of requests and responses.

`BridgeRefinement` is the refinement of `BridgeContract`, in which a call is only sent,
run once, and returned: `CallInv` says that all earlier calls of a client's connection
have returned and none found it broken, and that a client that is not clean had one
time out; `OutInv` that the responses on the way are what the handlers said and are,
in their order, after those returned and before those still to come.

## What is only model-checked

Liveness (`RunnerEnds`, `ReapedRunnerNoticed`, `CallReturns`, `QueueServed`, `CallsEnd`
of both modules, `CrashNoticed`, `DispatchEnds`, `CommandEnds`), which is out of the
prover's reach.

## Not modelled

Inside the modelled parts:

- Loss of power. Nothing is synced, and a kill is the only crash in the models.
- The Dakota driver and the legacy in-process study runner; malformed requests and
  unknown models; headless FreeCAD, which has no timer; `ping`, which never
  reaches the queue.
- Overrides of an engine's pid and port by hand; two servers at the same engines.
- Interactive runs and the fall-back for a verb an engine does not support (the
  reference engine has neither), screenshots, and other tools' requests on the
  same socket, each of which is one request and its response.
- Two drivers of one run at the same time, and an edit of `spec.yaml` by hand while a
  driver is at work. What gates G0 to G3 and G5 to G7 find is a choice.
- The stream of task events and the agent card of a worker, which only read.

Outside: most of the repository's lines are pure computation (calculators,
solvers, exporters, validators), scripts of kernel calls in which the kernel,
FreeCAD's, is all the behaviour there is (`freecad_addon/commands.py`,
`server/tools_cad.py`), JSON schemas (`server/main.py`) and data. They keep no state
between calls, meet no other process and hold nothing a step could violate;
unit tests fit them better than a state machine. `PROJECT.json` gives the reason
component by component. So the map covers a small share of all lines, and nearly
all of those that run concurrently or must survive a crash.

## Observations

Met while modelling. The first three are the violation runs above; no run is kept
for these:

- `study_cancel` does not terminate the evaluator in flight, although
  `study_driver_runner.py:9-11` says so (`:207` only polls between points). After a
  re-run it sends the cancel to the previous run's job until the new runner has
  saved its own (`tools_study.py:435`).
- A server that was restarted during the runner's last save may write FAILED over
  COMPLETE (`tools_study.py:370`); a kill inside a save leaves a `study.json` no tool
  can load (`study_store.py:30`); a study left in COARSE_DONE by a kill between the
  sweeps is neither recovered nor runnable (`tools_study.py:367`).
- A `study_run` accepted before the first runner has saved RUNNING_COARSE starts a
  second runner on the same study (`tools_study.py:269`); whichever ends last decides,
  and FAILED may replace COMPLETE. `CompleteKept` excepts these studies (`doubled`).
- A SIGTERM before `run_driver_study` resets `_CANCELLED` is lost
  (`study_driver_runner.py:155`).
- The cache key does not tell the order a request lists its bindings in, the cached
  document does (`evaluator.py:245`): replay is not byte-identical across orders.
- While the addon is stopping or starting, `_timer` is None and a command is run on
  its connection's thread, not on FreeCAD's (`socket_server.py:285`).
- The engine client keeps socket and buffer after a read timeout
  (`engine_client.py:296`), so later calls take late responses: a simulation may read
  a handshake as its result, and a start whose response was missed leaves its
  session in the engine. This is why the properties of `MotionSessions` speak of
  sockets without a timeout. `reset_client` (`engine_client.py:347`, "used after
  restarts") is never called, so the first call after an engine's restart fails.
- `_send_shutdown` sends a key the engines do not read (`sim_engine_manager.py:515`):
  every stop falls back to SIGTERM. An engine that hangs without listening is
  launched over by the next start and survives the server
  (`sim_engine_manager.py:399`, against `main.py:5663` "Make the engines we start die
  with us"). The monitor marks an attached engine failed because of an older, dead
  handle. With two threads the manager is not "Thread-safe" (`sim_engine_manager.py:10`).
- A build that was cancelled goes on writing the part's files, and a later success
  may deliver them (`a2a_client.py:276`, the set `stale` in the model).
- A new run in DRAFT cannot be resumed as `orchestrator/README.md:57` says: the
  command ends in a ValueError (`__main__.py:111-113`). With `--run-dir` set to the
  directory of a spec without `state.json`, the spec is overwritten by a blank one.
  A torn file makes a run unloadable. G4 accepts STEP files of an earlier dispatch;
  failures of G6 and G7 do not stop the run. Retry counts are lost on every reload,
  and the command never calls `record_failure`.
- `spec.yaml` may name another state than `state.json` with no crash and nobody at
  work: a session that replaces `run.spec` saves the new spec's DRAFT
  (`runner.py:128-131`, `spec.py:413`), `--spec` of a file outside a run directory copies
  that spec's status beside a `state.json` that says draft (`__main__.py:133-138`), and
  a person may write any. The state machine goes by `state.json`; the command prints the
  spec's (`__main__.py:140`), and so does the release report (`release.py:237`), after the
  next transition has put it right. `FilesAgree` excepts these (`edited`).
- `init_run` takes a directory that holds a run: its two files start anew, a finished
  run included, and the old output directories stay (`runner.py:94`), where G4 accepts
  their STEP files.
- The second save of `study_run` (`tools_study.py:290`) may turn a study that its runner
  has completed back into a draft. No property forbids it, as the code prevents it nowhere.
- Child processes with a PIPE nobody drains while they run: `worker_entry.py:114`,
  `tools_rl.py:167`. `rl_stop_training` forgets the process before it has waited for it.

## Plan

Done: the study driver with its jobs, the evaluation store, the FreeCAD bridge, the
engine manager, the motion sessions, worker dispatch and the orchestrator run, with
proofs of the safety properties of each. Open: several drivers of one run,
several servers over one job directory, the composition of `OrchestratorRun` with
`WorkerBuild` (the docker mode within a whole run), and RL training jobs.
