----------------------------- MODULE WorkerBuild -----------------------------
(***************************************************************************)
(* Builds on a remote worker: the orchestrator's client                    *)
(* (orchestrator/worker.py, a2a_client.py) and one worker container        *)
(* (a2a_server.py, worker_entry.py).                                       *)
(*                                                                         *)
(* A dispatch runs one coroutine per part, MaxParallel at a time.  Each    *)
(* submits its task, polls its status and, past the deadline, cancels it.  *)
(* A call is three steps, so that others come in between: the request is   *)
(* out, the server has handled it, the client has the answer.  The server  *)
(* handles one request at a time on its event loop, and builds in threads  *)
(* that nothing can stop: task/cancel writes the record and no more.       *)
(*                                                                         *)
(* Every build of a part writes the same two files, so what a file holds   *)
(* is the round whose spec it was built from.                              *)
(***************************************************************************)
EXTENDS Naturals, FiniteSets

CONSTANTS
  Parts,       \* subsystems this worker builds
  MaxRounds,   \* bound on the dispatches
  MaxParallel, \* max_parallel: coroutines past the semaphore
  FaultKinds   \* subset of {"build", "call", "worker", "orchestrator"}

ASSUME RoundsAssumption == MaxRounds \in Nat
ASSUME ParallelAssumption == MaxParallel \in Nat \ {0}

VARIABLES
  round,       \* the dispatch under way, 0 before the first
  pc,          \* [Parts -> Labels]: where the part's coroutine is
  reply,       \* [Parts -> Reply]: the answer to its call, on its way
  outcome,     \* [Parts -> Outcomes]: its WorkerResult
  delivered,   \* [Parts -> Artifacts]: what was collected into its output_dir, ever
  status,      \* [Tasks -> Status]: WorkerTask.status, "none" when not in _tasks
  phase,       \* [Tasks -> Phases]: how far the task's thread is
  artifacts,   \* [Tasks -> Artifacts]: what the thread read back to return
  files,       \* [Parts -> Artifacts]: OUTPUT_DIR/<part> on the worker
  built,       \* history: the tasks ever completed
  clashed      \* history: tasks begun while an earlier one of the part was still building

clientVars == <<pc, reply, outcome, delivered>>
serverVars == <<status, phase, artifacts, files>>
histVars == <<built, clashed>>
vars == <<round, clientVars, serverVars, histVars>>

\* The task a round's coroutine submits for a part (task_id).
Tasks == Parts \X (1..MaxRounds)
Artifacts == [step: 0..MaxRounds, meta: 0..MaxRounds]
NoArtifacts == [step |-> 0, meta |-> 0]
Status == {"none", "working", "completed", "failed", "canceled"}
Final == {"completed", "failed", "canceled"}                 \* TERMINAL_STATES
Phases == {"none", "building", "exported", "written", "packaged", "ended"}
Building == {"building", "exported", "written", "packaged"}
Labels == {"idle", "queued", "send", "loop", "get", "cancel"}
Calls == {"send", "get", "cancel"}
Outcomes == {"none", "success", "failed"}
\* "none": no answer yet; "broken": no answer ever; "error": a JSON-RPC error.
Reply == [is: Status \cup {"submitted", "broken", "error"}, art: Artifacts]
NoReply == [is |-> "none", art |-> NoArtifacts]

Mine(p) == <<p, round>>
Silent(p) == reply[p].is = "none"

----------------------------------------------------------------------------
(* The client                                                              *)

\* _dispatch_docker: gather over one coroutine per task, none left from before.
Dispatch ==
  /\ \A p \in Parts : pc[p] = "idle"
  /\ round < MaxRounds
  /\ round' = round + 1
  /\ pc' = [p \in Parts |-> "queued"]
  /\ outcome' = [p \in Parts |-> "none"]
  /\ UNCHANGED <<reply, delivered, serverVars, histVars>>

\* async with sem, then submit_task's request goes out.
Acquire(p) ==
  /\ pc[p] = "queued"
  /\ Cardinality({q \in Parts : pc[q] \notin {"idle", "queued"}}) < MaxParallel
  /\ pc' = [pc EXCEPT ![p] = "send"]
  /\ UNCHANGED <<round, reply, outcome, delivered, serverVars, histVars>>

\* One round of wait_for_completion before the deadline: sleep, then ask.
Poll(p) ==
  /\ pc[p] = "loop"
  /\ pc' = [pc EXCEPT ![p] = "get"]
  /\ UNCHANGED <<round, reply, outcome, delivered, serverVars, histVars>>

\* remaining <= 0: the task is canceled, on the word of the last poll.
TimeOut(p) ==
  /\ pc[p] = "loop"
  /\ pc' = [pc EXCEPT ![p] = "cancel"]
  /\ UNCHANGED <<round, reply, outcome, delivered, serverVars, histVars>>

\* The coroutine ends with a WorkerResult and leaves the semaphore.
EndsWith(p, o) ==
  /\ outcome' = [outcome EXCEPT ![p] = o]
  /\ pc' = [pc EXCEPT ![p] = "idle"]

\* Faulty: any terminal status is taken for a build that is done.
ReceiveAnyFinal(p) ==
  LET is == reply[p].is IN
  /\ pc[p] \in Calls /\ ~Silent(p)
  /\ \/ /\ is = "broken" \/ pc[p] = "cancel"
        /\ EndsWith(p, "failed") /\ UNCHANGED delivered
     \/ /\ is # "broken" /\ pc[p] # "cancel" /\ is \in Final
        /\ delivered' = [delivered EXCEPT ![p] = reply[p].art]
        /\ EndsWith(p, "success")
     \/ /\ is \notin Final \cup {"broken"} /\ pc[p] # "cancel"
        /\ pc' = [pc EXCEPT ![p] = "loop"]
        /\ UNCHANGED <<outcome, delivered>>
  /\ reply' = [reply EXCEPT ![p] = NoReply]
  /\ UNCHANGED <<round, serverVars, histVars>>

\* Faulty: a cancel that is refused sends the coroutine back to polling.
ReceiveInsists(p) ==
  LET is == reply[p].is IN
  /\ pc[p] \in Calls /\ ~Silent(p)
  /\ \/ /\ is = "broken" \/ (pc[p] = "cancel" /\ is # "error")
        /\ EndsWith(p, "failed") /\ UNCHANGED delivered
     \/ /\ pc[p] = "get" /\ is = "completed"
        /\ delivered' = [delivered EXCEPT ![p] = reply[p].art]
        /\ EndsWith(p, "success")
     \/ /\ pc[p] = "get" /\ is \in {"failed", "canceled"}
        /\ EndsWith(p, "failed") /\ UNCHANGED delivered
     \/ /\ is \notin Final \cup {"broken"} /\ (pc[p] = "cancel" => is = "error")
        /\ pc' = [pc EXCEPT ![p] = "loop"]
        /\ UNCHANGED <<outcome, delivered>>
  /\ reply' = [reply EXCEPT ![p] = NoReply]
  /\ UNCHANGED <<round, serverVars, histVars>>

\* The answer to a call.  An exception ends a coroutine whose call was no cancel
\* (one that was is "canceled" whatever the answer); "completed" is collected; a
\* final status ends it; anything else, an error for an unknown task too, polls on.
Receive(p) ==
  LET is == reply[p].is IN
  /\ pc[p] \in Calls /\ ~Silent(p)
  /\ \/ /\ is = "broken" \/ pc[p] = "cancel"
        /\ EndsWith(p, "failed") /\ UNCHANGED delivered
     \/ /\ pc[p] = "get" /\ is = "completed"
        /\ delivered' = [delivered EXCEPT ![p] = reply[p].art]
        /\ EndsWith(p, "success")
     \/ /\ pc[p] = "get" /\ is \in {"failed", "canceled"}
        /\ EndsWith(p, "failed") /\ UNCHANGED delivered
     \/ /\ is \notin Final \cup {"broken"} /\ pc[p] # "cancel"
        /\ pc' = [pc EXCEPT ![p] = "loop"]
        /\ UNCHANGED <<outcome, delivered>>
  /\ reply' = [reply EXCEPT ![p] = NoReply]
  /\ UNCHANGED <<round, serverVars, histVars>>

----------------------------------------------------------------------------
(* The server's event loop                                                 *)

Answer(p, is, art) == reply' = [reply EXCEPT ![p] = [is |-> is, art |-> art]]

\* message/send: a new task and a build thread; the answer says "submitted".  The
\* status is "working" before the loop can handle a request that knows the task.
HandleSend(p) ==
  LET t == Mine(p) IN
  /\ pc[p] = "send" /\ Silent(p)
  /\ status' = [status EXCEPT ![t] = "working"]
  /\ phase' = [phase EXCEPT ![t] = "building"]
  /\ clashed' = IF \E u \in Tasks : u[1] = p /\ phase[u] \in Building
                THEN clashed \cup {t} ELSE clashed
  /\ Answer(p, "submitted", NoArtifacts)
  /\ UNCHANGED <<round, pc, outcome, delivered, artifacts, files, built>>

\* task/get: the status, with the artifacts once there are any.
HandleGet(p) ==
  LET t == Mine(p) IN
  /\ pc[p] = "get" /\ Silent(p)
  /\ IF status[t] = "none" THEN Answer(p, "error", NoArtifacts)
     ELSE Answer(p, status[t], IF status[t] = "completed" THEN artifacts[t] ELSE NoArtifacts)
  /\ UNCHANGED <<round, pc, outcome, delivered, serverVars, histVars>>

\* Faulty: a task that has ended is canceled like any other.
HandleCancelAny(p) ==
  LET t == Mine(p) IN
  /\ pc[p] = "cancel" /\ Silent(p)
  /\ IF status[t] = "none" THEN Answer(p, "error", NoArtifacts) /\ UNCHANGED status
     ELSE /\ status' = [status EXCEPT ![t] = "canceled"]
          /\ Answer(p, "canceled", NoArtifacts)
  /\ UNCHANGED <<round, pc, outcome, delivered, phase, artifacts, files, histVars>>

\* task/cancel: the record of a task that has not ended; its thread goes on.
HandleCancel(p) ==
  LET t == Mine(p) IN
  /\ pc[p] = "cancel" /\ Silent(p)
  /\ IF status[t] \in Final \cup {"none"}
     THEN Answer(p, "error", NoArtifacts) /\ UNCHANGED status
     ELSE /\ status' = [status EXCEPT ![t] = "canceled"]
          /\ Answer(p, "canceled", NoArtifacts)
  /\ UNCHANGED <<round, pc, outcome, delivered, phase, artifacts, files, histVars>>

----------------------------------------------------------------------------
(* A build: build_from_spec in a thread, its result in _run_build          *)

StepTo(t, l) == phase' = [phase EXCEPT ![t] = l]

\* Faulty: a STEP export that fails is passed over, as a failed measurement is.
ExportPassedOver(t) ==
  /\ phase[t] = "building"
  /\ \/ files' = [files EXCEPT ![t[1]].step = t[2]]
     \/ "build" \in FaultKinds /\ UNCHANGED files
  /\ StepTo(t, "exported")
  /\ UNCHANGED <<round, clientVars, status, artifacts, histVars>>

\* The geometry is built and exported over the part's files of any other round.
Export(t) ==
  /\ phase[t] = "building"
  /\ files' = [files EXCEPT ![t[1]].step = t[2]]
  /\ StepTo(t, "exported")
  /\ UNCHANGED <<round, clientVars, status, artifacts, histVars>>

WriteMetadata(t) ==
  /\ phase[t] = "exported"
  /\ files' = [files EXCEPT ![t[1]].meta = t[2]]
  /\ StepTo(t, "written")
  /\ UNCHANGED <<round, clientVars, status, artifacts, histVars>>

\* The artifacts are what the files hold by now.
Package(t) ==
  /\ phase[t] = "written"
  /\ artifacts' = [artifacts EXCEPT ![t] = files[t[1]]]
  /\ StepTo(t, "packaged")
  /\ UNCHANGED <<round, clientVars, status, files, histVars>>

\* Back on the loop: COMPLETED, over a cancel as well.
Complete(t) ==
  /\ phase[t] = "packaged"
  /\ status' = [status EXCEPT ![t] = "completed"]
  /\ built' = built \cup {t}
  /\ StepTo(t, "ended")
  /\ UNCHANGED <<round, clientVars, artifacts, files, clashed>>

\* A FreeCAD command, a file or the thread raises: FAILED, over a cancel as well.
BuildFails(t) ==
  /\ "build" \in FaultKinds /\ phase[t] \in Building \ {"packaged"}
  /\ status' = [status EXCEPT ![t] = "failed"]
  /\ StepTo(t, "ended")
  /\ UNCHANGED <<round, clientVars, artifacts, files, histVars>>

----------------------------------------------------------------------------
(* Faults                                                                  *)

\* A call that raises: no connection, no answer within the timeout, an HTTP error;
\* whether or not the server has handled it.
CallBreaks(p) ==
  /\ "call" \in FaultKinds /\ pc[p] \in Calls /\ reply[p].is # "broken"
  /\ Answer(p, "broken", NoArtifacts)
  /\ UNCHANGED <<round, pc, outcome, delivered, serverVars, histVars>>

\* Faulty: the server starts over beside the threads of the old one.
RestartsKeepingThreads ==
  /\ "worker" \in FaultKinds /\ \E t \in Tasks : status[t] # "none"
  /\ status' = [t \in Tasks |-> "none"]
  /\ artifacts' = [t \in Tasks |-> NoArtifacts]
  /\ UNCHANGED <<round, clientVars, phase, files, histVars>>

\* The container restarts, with something to lose: tasks and threads are gone, files
\* stay, calls break.
WorkerRestarts ==
  /\ "worker" \in FaultKinds /\ \E t \in Tasks : status[t] # "none"
  /\ status' = [t \in Tasks |-> "none"]
  /\ phase' = [t \in Tasks |-> "none"]
  /\ artifacts' = [t \in Tasks |-> NoArtifacts]
  /\ reply' = [p \in Parts |-> IF pc[p] \in Calls /\ Silent(p)
                               THEN [NoReply EXCEPT !.is = "broken"] ELSE reply[p]]
  /\ UNCHANGED <<round, pc, outcome, delivered, files, histVars>>

\* The orchestrator is killed and run again; nothing tells the worker.
OrchestratorDies ==
  /\ "orchestrator" \in FaultKinds /\ \E p \in Parts : pc[p] # "idle"
  /\ pc' = [p \in Parts |-> "idle"]
  /\ reply' = [p \in Parts |-> NoReply]
  /\ outcome' = [p \in Parts |-> "none"]
  /\ UNCHANGED <<round, delivered, serverVars, histVars>>

Init ==
  /\ round = 0
  /\ pc = [p \in Parts |-> "idle"]
  /\ reply = [p \in Parts |-> NoReply]
  /\ outcome = [p \in Parts |-> "none"]
  /\ delivered = [p \in Parts |-> NoArtifacts]
  /\ status = [t \in Tasks |-> "none"]
  /\ phase = [t \in Tasks |-> "none"]
  /\ artifacts = [t \in Tasks |-> NoArtifacts]
  /\ files = [p \in Parts |-> NoArtifacts]
  /\ built = {} /\ clashed = {}

Next ==
  \/ Dispatch \/ WorkerRestarts \/ OrchestratorDies
  \/ \E p \in Parts : \/ Acquire(p) \/ Poll(p) \/ TimeOut(p) \/ Receive(p)
                      \/ HandleSend(p) \/ HandleGet(p) \/ HandleCancel(p) \/ CallBreaks(p)
  \/ \E t \in Tasks : \/ Export(t) \/ WriteMetadata(t) \/ Package(t) \/ Complete(t)
                      \/ BuildFails(t)

Spec == Init /\ [][Next]_vars

\* The orchestrator's loop runs what is ready; a call is answered or raises (the
\* server handles what it gets, httpx has a timeout); a deadline that is checked
\* again and again has passed at last.
Fairness ==
  \A p \in Parts :
    /\ WF_vars(Acquire(p)) /\ WF_vars(Receive(p))
    /\ WF_vars(HandleSend(p) \/ HandleGet(p) \/ HandleCancel(p))
    /\ SF_vars(TimeOut(p))

FairSpec == Spec /\ Fairness

----------------------------------------------------------------------------
(* Properties                                                              *)

\* The variables have their types, and a thread runs exactly for the tasks the
\* server knows of.
TypeOK ==
  /\ round \in 0..MaxRounds
  /\ pc \in [Parts -> Labels]
  /\ reply \in [Parts -> Reply]
  /\ outcome \in [Parts -> Outcomes]
  /\ delivered \in [Parts -> Artifacts]
  /\ status \in [Tasks -> Status]
  /\ phase \in [Tasks -> Phases]
  /\ artifacts \in [Tasks -> Artifacts]
  /\ files \in [Parts -> Artifacts]
  /\ built \subseteq Tasks
  /\ clashed \subseteq Tasks
  /\ \A t \in Tasks : phase[t] = "none" <=> status[t] = "none"

\* A build that the server says is completed or failed stays so until the server
\* restarts: no late cancel and no other build changes its record.
EndedStaysEnded ==
  [][\A t \in Tasks : status[t] \in {"completed", "failed"} =>
                        status'[t] \in {status[t], "none"}]_vars

\* A part reported as a success whose build no earlier build of the part overlapped
\* was delivered the geometry and the metadata of this round's spec, whatever timed
\* out, broke, failed or restarted on the way.
DeliversOwnBuild ==
  \A p \in Parts : outcome[p] = "success" /\ Mine(p) \notin clashed =>
                     delivered[p] = [step |-> round, meta |-> round]

\* Every part of a dispatch gets its turn and its answer.
DispatchEnds == \A p \in Parts : pc[p] = "queued" ~> pc[p] = "idle"

\* The client and the worker together keep the contract of a dispatch: "success" is
\* said once, and only of a build of this round that the worker completed.
asked == {p \in Parts : pc[p] # "idle"}
Contract == INSTANCE BuildContract
KeepsContract == Contract!Spec
=============================================================================
