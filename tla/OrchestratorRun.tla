--------------------------- MODULE OrchestratorRun ---------------------------
(***************************************************************************)
(* One orchestration run and whoever drives it (orchestrator/runner.py,    *)
(* state.py, __main__.py, worker_subprocess.py).                           *)
(*                                                                         *)
(* A run is two files, spec.yaml and state.json, and the workers' output   *)
(* directories.  Its drivers come one after the other: the command line,   *)
(* which takes a frozen spec from BUILDING to AWAITING_HUMAN, and a        *)
(* session, which calls the runner's functions in any order.  A driver can *)
(* be killed anywhere; a file it was writing is then left torn.  Workers   *)
(* are processes of their own and outlive it.                              *)
(*                                                                         *)
(* The spec has a status field of its own.  transition sets it; a spec     *)
(* that a session, a person or --spec puts in place comes with any.        *)
(***************************************************************************)
EXTENDS RunStates, Naturals

CONSTANTS
  Subsystems,  \* what a failure is counted against
  Workers,     \* the variants of generated subsystems: one output directory each
  MaxAttempts, \* bound on the dispatches
  MaxRetries,  \* max_retries of a runtime policy
  Codes,       \* the failure codes a session records
  OtherStatus, \* what the status field of a spec from elsewhere says
  FaultKinds   \* subset of {"crash", "worker"}

ASSUME AttemptsAssumption == MaxAttempts \in Nat
ASSUME RetriesAssumption == MaxRetries \in Nat
ASSUME CodesAssumption == Codes \subseteq FailureCode
ASSUME OtherAssumption == OtherStatus \subseteq Status

VARIABLES
  specFile,    \* spec.yaml: [is, status]
  stateFile,   \* state.json: [is, current]
  mem,         \* the driver's OrchestratorRun: [current, status]
  counts,      \* [Counters -> Nat]: its StateMachine.retry_counts
  pc,          \* what the driver is about to do, "off" when there is none
  cont,        \* where it goes on after saving
  attempt,     \* the last dispatch
  proc,        \* [Procs -> ProcState]: the worker processes of every dispatch
  step,        \* [Workers -> 0..MaxAttempts]: whose STEP file is in output/, 0 is none
  cut,         \* history: a driver was killed between the two files of a save
  edited,      \* history: since the last such save, other hands changed the spec's status
  clashed      \* history: dispatches begun while an earlier one's worker was running

fileVars == <<specFile, stateFile>>
buildVars == <<attempt, step, clashed>>
saveVars == <<cut, edited>>
vars == <<fileVars, mem, counts, pc, cont, proc, buildVars, saveVars>>

FileState == {"absent", "ok", "torn"}
Procs == Workers \X (1..MaxAttempts)
\* "ran" and "wrote" are alive; a worker that exits 0 without a STEP file is "idled".
\* How one ended is known to the driver that waited for it; for others it is "none",
\* as one that was not started, and its STEP file is all it leaves.
ProcState == {"none", "ran", "wrote", "ok", "idled", "failed"}
Alive(p) == proc[p] \in {"ran", "wrote"}
Counters == Subsystems \X Codes
Labels == {"off", "session", "takeSpec", "saveSpec", "saveState", "editSpec",
           "dispatch", "g4", "g5", "g6", "g7"}

\* What a spec of status s may say of itself once it is edited, or another in its place.
Edited(s) == OtherStatus \cup {s}

Fresh == [current |-> "draft", status |-> "draft"]
Loaded == [current |-> IF stateFile.is = "absent" THEN "draft" ELSE stateFile.current,
           status |-> specFile.status]
NoCounts == [k \in Counters |-> 0]

Goto(l) == pc' = l /\ UNCHANGED cont

\* The driver is gone, with all it knew: a session's end, an error, the end of the command.
Off ==
  /\ pc' = "off" /\ cont' = "off" /\ mem' = Fresh /\ counts' = NoCounts
  /\ proc' = [p \in Procs |-> IF Alive(p) THEN proc[p] ELSE "none"]

----------------------------------------------------------------------------
(* Saving: runner.transition, init_run                                     *)

\* Faulty: the state is saved and the spec is not.
SaveStateThen(k) == pc' = "saveState" /\ cont' = k

\* The two files of transition and init_run, one write each.
SaveThen(k) == pc' = "saveSpec" /\ cont' = k

SaveSpec ==
  /\ pc = "saveSpec"
  /\ specFile' = [is |-> "ok", status |-> mem.status]
  /\ Goto("saveState")
  /\ UNCHANGED <<stateFile, mem, counts, proc, buildVars, saveVars>>

SaveState ==
  /\ pc = "saveState"
  /\ stateFile' = [is |-> "ok", current |-> mem.current]
  /\ cut' = FALSE /\ edited' = FALSE
  /\ IF cont = "off" THEN Off ELSE Goto(cont) /\ UNCHANGED <<mem, counts, proc>>
  /\ UNCHANGED <<specFile, buildVars>>

\* save_spec alone, of an edited or another spec: the state is not saved with it.
EditThen(s, k) ==
  /\ mem' = [mem EXCEPT !.status = s]
  /\ pc' = "editSpec" /\ cont' = k

SaveEdited ==
  /\ pc = "editSpec"
  /\ specFile' = [is |-> "ok", status |-> mem.status]
  /\ edited' = (edited \/ mem.status # specFile.status)
  /\ IF cont = "off" THEN Off ELSE Goto(cont) /\ UNCHANGED <<mem, counts, proc>>
  /\ UNCHANGED <<stateFile, buildVars, cut>>

\* Faulty: the state machine moves and the spec's own status is forgotten.
EnterStateOnly(to, k) ==
  /\ CanStep(mem.current, to)
  /\ mem' = [mem EXCEPT !.current = to]
  /\ SaveThen(k)

\* runner.transition: a legal step, noted in the spec, then both files.
Enter(to, k) ==
  /\ CanStep(mem.current, to)
  /\ mem' = [mem EXCEPT !.current = to, !.status = to]
  /\ SaveThen(k)

----------------------------------------------------------------------------
(* A session                                                               *)

\* init_run, by a session or the command line (which goes on to "takeSpec"), in a
\* directory that may hold a run already: its two files are written over, the
\* workers' output stays.
NewRun(k) ==
  /\ pc = "off"
  /\ mem' = Fresh /\ counts' = NoCounts
  /\ SaveThen(k)
  /\ UNCHANGED <<fileVars, proc, buildVars, saveVars>>

\* load_run; a file that does not parse, or is not there, raises.  Of the state
\* machine only the current state comes back.
StartSession ==
  /\ pc = "off" /\ specFile.is = "ok" /\ stateFile.is # "torn"
  /\ mem' = Loaded /\ counts' = NoCounts
  /\ Goto("session")
  /\ UNCHANGED <<fileVars, proc, buildVars, saveVars>>

\* Gates are the session's own business: it may enter any state the table allows.
SessionEnter(to) ==
  /\ pc = "session" /\ Enter(to, "session")
  /\ UNCHANGED <<fileVars, counts, proc, buildVars, saveVars>>

\* run.spec is worked on, or replaced by another MasterSpec, then save_spec.
SessionEdits(s) ==
  /\ pc = "session" /\ EditThen(s, "session")
  /\ UNCHANGED <<fileVars, counts, proc, buildVars, saveVars>>

\* Faulty: a failure past the budget is routed like the ones before.
RecordFailureAgain(s, c) ==
  LET k == <<s, c>>
      to == RetryTarget(c)
  IN
  /\ pc = "session" /\ counts[k] <= MaxRetries
  /\ counts' = [counts EXCEPT ![k] = @ + 1]
  /\ IF CanStep(mem.current, to)
     THEN mem' = [mem EXCEPT !.current = to]
     ELSE UNCHANGED mem
  /\ UNCHANGED <<fileVars, proc, buildVars, pc, cont, saveVars>>

\* StateMachine.record_failure: counted first, then routed or, past the budget,
\* failed; a step the table does not allow raises.  Nothing is saved.
RecordFailure(s, c) ==
  LET k == <<s, c>>
      spent == counts[k] >= MaxRetries
      to == IF spent THEN "failed" ELSE RetryTarget(c)
  IN
  /\ pc = "session" /\ counts[k] <= MaxRetries        \* bound: one past the budget
  /\ counts' = [counts EXCEPT ![k] = @ + 1]
  /\ IF CanStep(mem.current, to)
     THEN mem' = [mem EXCEPT !.current = to]
     ELSE UNCHANGED mem
  /\ UNCHANGED <<fileVars, proc, buildVars, pc, cont, saveVars>>

EndSession ==
  /\ pc = "session" /\ Off
  /\ UNCHANGED <<fileVars, buildVars, saveVars>>

----------------------------------------------------------------------------
(* The command line: python -m orchestrator --spec                         *)

\* Someone populates the spec of a run by hand, or puts another in its place.
EditByHand(s) ==
  /\ pc = "off" /\ specFile.is = "ok"
  /\ specFile' = [specFile EXCEPT !.status = s]
  /\ edited' = (edited \/ s # specFile.status)
  /\ UNCHANGED <<stateFile, mem, counts, pc, cont, proc, buildVars, cut>>

\* The command line has made a run.  Over its blank spec goes the same with a worker
\* mode, or what --spec names when there is no state.json beside that; the run is
\* DRAFT, from which nothing can be dispatched, so the command ends.
TakeSpec(s) ==
  /\ pc = "takeSpec" /\ EditThen(s, "off")
  /\ UNCHANGED <<fileVars, counts, proc, buildVars, saveVars>>

\* Faulty: the spec is dispatched whatever state the run is in.
ResumeAnyState ==
  /\ pc = "off" /\ attempt < MaxAttempts
  /\ specFile.is = "ok" /\ stateFile.is = "ok"
  /\ mem' = [Loaded EXCEPT !.current = "building", !.status = "building"]
  /\ counts' = NoCounts
  /\ SaveThen("dispatch")
  /\ attempt' = attempt + 1
  /\ clashed' = IF \E p \in Procs : Alive(p) THEN clashed \cup {attempt + 1} ELSE clashed
  /\ UNCHANGED <<fileVars, proc, step, saveVars>>

\* If the spec passes the gates G0 to G3, BUILDING if the table
\* allows it; otherwise nothing is written.
Resume ==
  /\ pc = "off" /\ attempt < MaxAttempts
  /\ specFile.is = "ok" /\ stateFile.is = "ok"
  /\ CanStep(Loaded.current, "building")
  /\ mem' = [Loaded EXCEPT !.current = "building", !.status = "building"]
  /\ counts' = NoCounts
  /\ SaveThen("dispatch")
  /\ attempt' = attempt + 1
  /\ clashed' = IF \E p \in Procs : Alive(p) THEN clashed \cup {attempt + 1} ELSE clashed
  /\ UNCHANGED <<fileVars, proc, step, saveVars>>

\* dispatch_workers starts a process in a directory that keeps what earlier ones
\* left there (when max_parallel lets it, which is not said here).
Launch(w) ==
  /\ pc = "dispatch" /\ proc[<<w, attempt>>] = "none"
  /\ proc' = [proc EXCEPT ![<<w, attempt>>] = "ran"]
  /\ UNCHANGED <<fileVars, mem, counts, pc, cont, attempt, step, clashed, saveVars>>

\* Faulty: only a worker that shows for something is timed out.
TimeOutIfWrote(w) ==
  /\ pc = "dispatch" /\ proc[<<w, attempt>>] = "wrote"
  /\ proc' = [proc EXCEPT ![<<w, attempt>>] = "failed"]
  /\ UNCHANGED <<fileVars, mem, counts, pc, cont, attempt, step, clashed, saveVars>>

\* launch_worker kills a process that is past its policy's timeout.
TimeOut(w) ==
  /\ pc = "dispatch" /\ Alive(<<w, attempt>>)
  /\ proc' = [proc EXCEPT ![<<w, attempt>>] = "failed"]
  /\ UNCHANGED <<fileVars, mem, counts, pc, cont, attempt, step, clashed, saveVars>>

Results(a) == {proc[<<w, a>>] : w \in Workers}

\* Faulty: a worker that has failed does not count against the dispatch.
AssessLeniently ==
  /\ pc = "dispatch" /\ Results(attempt) \subseteq {"ok", "idled", "failed"}
  /\ IF Results(attempt) \cap {"ok", "idled"} # {} THEN Enter("geometry_validating", "g4")
     ELSE Enter("failed", "off")
  /\ UNCHANGED <<fileVars, counts, proc, buildVars, saveVars>>

\* All results are in: assess_results.
Assess ==
  /\ pc = "dispatch" /\ Results(attempt) \subseteq {"ok", "idled", "failed"}
  /\ IF "failed" \in Results(attempt) THEN Enter("failed", "off")
     ELSE Enter("geometry_validating", "g4")
  /\ UNCHANGED <<fileVars, counts, proc, buildVars, saveVars>>

\* G4: a STEP file for everyone, or the command ends where the run stands.
GateG4 ==
  /\ pc = "g4"
  /\ IF \A w \in Workers : step[w] # 0
     THEN Goto("g5") /\ UNCHANGED <<mem, counts, proc>>
     ELSE Off
  /\ UNCHANGED <<fileVars, buildVars, saveVars>>

\* G5, on what the validator finds of the files.
GateG5 ==
  /\ pc = "g5"
  /\ Enter("scoring", "g6") \/ Enter("failed", "off")
  /\ UNCHANGED <<fileVars, counts, proc, buildVars, saveVars>>

\* G6 and G7 are printed; the run goes on whatever they say.
GateG6 ==
  /\ pc = "g6" /\ Enter("release_packaging", "g7")
  /\ UNCHANGED <<fileVars, counts, proc, buildVars, saveVars>>

GateG7 ==
  /\ pc = "g7" /\ Enter("awaiting_human", "off")
  /\ UNCHANGED <<fileVars, counts, proc, buildVars, saveVars>>

----------------------------------------------------------------------------
(* Worker processes and faults                                             *)

\* A worker, of this dispatch or left over from an earlier one, exports its STEP file.
Writes(p) ==
  /\ proc[p] = "ran"
  /\ proc' = [proc EXCEPT ![p] = "wrote"]
  /\ step' = [step EXCEPT ![p[1]] = p[2]]
  /\ UNCHANGED <<fileVars, mem, counts, pc, cont, attempt, clashed, saveVars>>

\* How it ends is seen by the dispatch that waits for it, if that still does.
Exits(p) ==
  LET awaited == pc = "dispatch" /\ p[2] = attempt IN
  /\ Alive(p)
  /\ \/ awaited /\ proc' = [proc EXCEPT ![p] = IF @ = "wrote" THEN "ok" ELSE "idled"]
     \/ awaited /\ "worker" \in FaultKinds /\ proc' = [proc EXCEPT ![p] = "failed"]
     \/ ~awaited /\ proc' = [proc EXCEPT ![p] = "none"]
  /\ UNCHANGED <<fileVars, mem, counts, pc, cont, attempt, step, clashed, saveVars>>

\* The driver is killed or raises; a file it was writing may be left half written.
Crash ==
  /\ "crash" \in FaultKinds /\ pc # "off"
  /\ \/ UNCHANGED fileVars
     \/ /\ pc \in {"saveSpec", "editSpec"}
        /\ specFile' = [is |-> "torn", status |-> "draft"] /\ UNCHANGED stateFile
     \/ /\ pc = "saveState"
        /\ stateFile' = [stateFile EXCEPT !.is = "torn"] /\ UNCHANGED specFile
  /\ cut' = (cut \/ pc = "saveState")
  /\ Off
  /\ UNCHANGED <<buildVars, edited>>

Init ==
  /\ specFile = [is |-> "absent", status |-> "draft"]
  /\ stateFile = [is |-> "absent", current |-> "draft"]
  /\ mem = Fresh /\ counts = NoCounts
  /\ pc = "off" /\ cont = "off"
  /\ attempt = 0 /\ clashed = {}
  /\ proc = [p \in Procs |-> "none"]
  /\ step = [w \in Workers |-> 0]
  /\ cut = FALSE /\ edited = FALSE

Next ==
  \/ SaveSpec \/ SaveState \/ SaveEdited
  \/ NewRun("takeSpec") \/ NewRun("session") \/ StartSession \/ EndSession
  \/ \E to \in Status : SessionEnter(to)
  \/ \E s \in Subsystems, c \in Codes : RecordFailure(s, c)
  \/ \E s \in Edited(mem.status) : SessionEdits(s) \/ TakeSpec(s)
  \/ \E s \in Edited(specFile.status) : EditByHand(s)
  \/ Resume
  \/ \E w \in Workers : Launch(w) \/ TimeOut(w)
  \/ Assess \/ GateG4 \/ GateG5 \/ GateG6 \/ GateG7 \/ Crash
  \/ \E p \in Procs : Writes(p) \/ Exits(p)

Spec == Init /\ [][Next]_vars

\* The command line is sequential code that runs on, and launch_worker has a timeout.
FairSpec ==
  /\ Spec
  /\ WF_vars(SaveSpec \/ SaveState \/ Assess \/ GateG4 \/ GateG5 \/ GateG6 \/ GateG7)
  /\ \A w \in Workers : WF_vars(Launch(w)) /\ WF_vars(TimeOut(w))

----------------------------------------------------------------------------
(* Properties                                                              *)

\* The variables have their types; no driver, no memory; only a dispatch that was
\* made has processes and STEP files; a run nobody has made has no state either.
TypeOK ==
  /\ specFile \in [is: FileState, status: Status]
  /\ stateFile \in [is: FileState, current: Status]
  /\ mem \in [current: Status, status: Status]
  /\ counts \in [Counters -> 0..(MaxRetries + 1)]
  /\ pc \in Labels /\ cont \in Labels
  /\ attempt \in 0..MaxAttempts
  /\ proc \in [Procs -> ProcState]
  /\ step \in [Workers -> 0..MaxAttempts]
  /\ cut \in BOOLEAN /\ edited \in BOOLEAN
  /\ clashed \subseteq 1..MaxAttempts
  /\ pc = "off" => mem = Fresh /\ counts = NoCounts
  /\ \A p \in Procs : p[2] > attempt => proc[p] = "none"
  /\ \A w \in Workers : step[w] <= attempt
  /\ specFile.is = "absent" => stateFile.is = "absent"

\* When no driver is at work, spec.yaml and state.json say the same of the run,
\* whichever of the two a tool reads, but for two cases: a driver was killed between
\* the two files of a save, or a session, a person or --spec gave the spec another
\* status.  The next save of both ends either, whatever came before it.
FilesAgree ==
  pc = "off" /\ ~cut /\ ~edited /\ specFile.is = "ok" /\ stateFile.is = "ok"
    => specFile.status = stateFile.current

\* A failure past the budget ends the run: no series of failures, refused ones among
\* them, leaves a driver retrying once a count is over its limit.
BudgetEndsRun ==
  \A k \in Counters : counts[k] > MaxRetries => mem.current \in Final

\* What goes on to validation, scoring and release is this dispatch's work: unless a
\* worker of an earlier one was still running, every worker that wrote a STEP file
\* in this dispatch left the one that is there, and no worker failed.
ReleasesThisBuild ==
  pc \in {"g5", "g6", "g7"} /\ attempt \notin clashed =>
    \A w \in Workers : \/ step[w] = attempt
                       \/ step[w] # 0 /\ proc[<<w, attempt>>] = "idled"

\* orchestrator-plan-cad-rewrite.md, stage 5: "Skeleton or access failures go to
\* Stage 2": a failure of validation that is within its budget is routed.
ValidationFailuresRouted ==
  [][\A s \in Subsystems, c \in Codes :
       LET n == counts'[<<s, c>>] IN
       mem.current = "geometry_validating" /\ n = counts[<<s, c>>] + 1 /\ n <= MaxRetries
         => mem'.current = RetryTarget(c)]_vars

\* The command line ends, whatever its workers do.
CommandEnds == pc = "dispatch" ~> pc = "off"

\* The run, with its files and one driver after another, keeps the life cycle of
\* state.py: a driver that is killed, or that counts a failure without saving it,
\* costs the steps since the last save and nothing else, and only init_run takes
\* the run back to its start.
Lifecycle ==
  INSTANCE RunLifecycle WITH
    current <- IF pc = "off" THEN Loaded.current ELSE mem.current,
    saved <- Loaded.current
KeepsLifecycle == Lifecycle!Spec
=============================================================================
