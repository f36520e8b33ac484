--------------------------- MODULE EngineManager ---------------------------
(***************************************************************************)
(* Start, stop and shutdown of simulation engines                          *)
(* (server/sim_engine_manager.py, server/main.py: _install_engine_cleanup).*)
(*                                                                         *)
(* The manager keeps one record per engine: a status and a process handle. *)
(* _lock guards every read and write of a record, but start_engine drops   *)
(* it while it launches and stop_engine while it drains, so a call is      *)
(* several steps here: one per locked section and one per wait.  A signal  *)
(* interrupts the main thread between any two of them (the lock is         *)
(* re-entrant, so inside a section too: what follows the handler then      *)
(* never runs, and the sections write nothing a half of which matters).    *)
(*                                                                         *)
(* A process is alive and not listening ("silent"), alive and listening on *)
(* its engine's port ("serving"), or "dead".  Something the manager did *)
(* not start may listen on the port as well (external).                    *)
(***************************************************************************)
EXTENDS Naturals, FiniteSets

CONSTANTS
  Backends,    \* engines the registry knows
  Threads,     \* threads that call start_engine and stop_engine
  Main,        \* the thread signals are delivered to
  Exit,        \* the frame in which shutdown_all runs, on top of Main's
  MaxProcs,    \* bound on the processes ever launched
  FaultKinds   \* subset of {"crash", "deaf", "external", "signal", "slowkill", "port"}

ASSUME ThreadsAssumption == Main \in Threads /\ Exit \notin Threads
ASSUME ProcsAssumption == MaxProcs \in Nat
ASSUME BackendsAssumption == Backends # {}

VARIABLES
  status,      \* [Backends -> Status]: EngineState.status
  handle,      \* [Backends -> 0..MaxProcs]: EngineState.process, 0 is None
  proc,        \* [1..MaxProcs -> ProcState]
  owner,       \* [1..MaxProcs -> Backends]: the engine a process was launched for
  sent,        \* [1..MaxProcs -> {"none", "term", "kill"}]: the last signal sent to it
  external,    \* the engines whose port something else listens on
  pc,          \* [Frames -> Labels]: where each call is
  arg,         \* [Frames -> Backends]: the engine each call is about
  mine,        \* [Frames -> 0..MaxProcs]: the local variable proc of each call
  server,      \* "up", "handler", "atexit" or "gone"
  todo,        \* the engines shutdown_all has still to stop
  aborted,     \* the last shutdown_all was ended by an exception
  lost,        \* history: live processes whose handle was overwritten or never stored
  raced        \* history: engines two calls were about at once, or one during a shutdown

vars == <<status, handle, proc, owner, sent, external, pc, arg, mine, server, todo,
          aborted, lost, raced>>
procVars == <<proc, owner, sent, external>>
exitVars == <<server, todo, aborted>>
histVars == <<lost, raced>>

Frames == Threads \cup {Exit}
Procs == 1..MaxProcs
NoBackend == CHOOSE b \in Backends : TRUE    \* a value for what is not set yet
Status == {"stopped", "init", "ready", "draining", "failed"}
ProcState == {"none", "silent", "serving", "dead"}
StopLabels == {"drain", "term", "kill", "stopEnd"}
Labels == {"idle", "launch", "spawned", "wait", "started", "startFailed"} \cup StopLabels

Alive(p) == proc[p] \in {"silent", "serving"}

\* _tcp_ping: whether anything accepts connections on the engine's port.
Listening(b) == b \in external \/ \E p \in Procs : owner[p] = b /\ proc[p] = "serving"

\* state.process is set and poll() returns an exit code.
HandleDead(b) == handle[b] # 0 /\ ~Alive(handle[b])

\* The main thread does nothing else while a handler runs on top of it.
CanRun(f) == server # "gone" /\ (f = Main => server = "up")

\* A call of frame f about engine b begins while another one about b is under way
\* (other than the call a signal handler stands on), or while shutdown_all runs.
Races(f, b) ==
  \/ f # Exit /\ server # "up"
  \/ \E g \in Frames \ {f} : pc[g] # "idle" /\ arg[g] = b /\ ~(f = Exit /\ g = Main)

NoteRace(f, b) == raced' = IF Races(f, b) THEN raced \cup {b} ELSE raced

Goto(f, l) == pc' = [pc EXCEPT ![f] = l]

\* The end of a call, with its local variables.
Return(f) ==
  /\ pc' = [pc EXCEPT ![f] = "idle"]
  /\ arg' = [arg EXCEPT ![f] = NoBackend]
  /\ mine' = [mine EXCEPT ![f] = 0]

----------------------------------------------------------------------------
(* start_engine                                                            *)

\* The first locked section: a listener of any kind ends the call with
\* "already_running" and READY; otherwise the engine is INIT and launched.
StartBegin(t, b) ==
  /\ CanRun(t) /\ pc[t] = "idle"
  /\ \/ /\ Listening(b)
        /\ status' = [status EXCEPT ![b] = "ready"]
        /\ UNCHANGED <<pc, arg>>
     \/ /\ ~Listening(b)
        /\ status' = [status EXCEPT ![b] = "init"]
        /\ arg' = [arg EXCEPT ![t] = b]
        /\ Goto(t, "launch")
     \/ /\ ~Listening(b) /\ "port" \in FaultKinds      \* PORT_UNAVAILABLE
        /\ status' = [status EXCEPT ![b] = IF @ = "ready" /\ HandleDead(b) THEN "failed" ELSE @]
        /\ UNCHANGED <<pc, arg>>
  /\ NoteRace(t, b)
  /\ UNCHANGED <<handle, procVars, mine, exitVars, lost>>

\* Popen, which gives the process to this call alone.
Launch(t) ==
  /\ CanRun(t) /\ pc[t] = "launch"
  /\ \E p \in Procs :
       /\ proc[p] = "none" /\ \A q \in 1..(p - 1) : proc[q] # "none"
       /\ proc' = [proc EXCEPT ![p] = "silent"]
       /\ owner' = [owner EXCEPT ![p] = arg[t]]
       /\ mine' = [mine EXCEPT ![t] = p]
  /\ Goto(t, "spawned")
  /\ UNCHANGED <<status, handle, sent, external, arg, exitVars, histVars>>

\* Faulty: a launch that failed goes on as if it had a process.
LaunchFailsUnnoticed(t) ==
  /\ CanRun(t) /\ pc[t] = "launch"
  /\ Goto(t, "spawned")
  /\ UNCHANGED <<status, handle, procVars, arg, mine, exitVars, histVars>>

\* No launch command, no log file, no such program.
LaunchFails(t) ==
  /\ CanRun(t) /\ pc[t] = "launch"
  /\ Goto(t, "startFailed")
  /\ UNCHANGED <<status, handle, procVars, arg, mine, exitVars, histVars>>

\* The second locked section stores the handle over whatever was there.
Record(t) ==
  LET b == arg[t] IN
  /\ CanRun(t) /\ pc[t] = "spawned"
  /\ handle' = [handle EXCEPT ![b] = mine[t]]
  /\ lost' = lost \cup {p \in Procs : p = handle[b] /\ Alive(p)}
  /\ Goto(t, "wait")
  /\ UNCHANGED <<status, procVars, arg, mine, exitVars, raced>>

\* One round of the readiness loop, or its deadline: the process has died, the
\* port answers (whoever listens), or the process is told to terminate.
AwaitReady(t) ==
  LET p == mine[t] IN
  /\ CanRun(t) /\ pc[t] = "wait"
  /\ \/ ~Alive(p) /\ Goto(t, "startFailed") /\ UNCHANGED sent
     \/ Alive(p) /\ Listening(arg[t]) /\ Goto(t, "started") /\ UNCHANGED sent
     \/ /\ Alive(p) /\ ~Listening(arg[t])
        /\ sent' = [sent EXCEPT ![p] = "term"]
        /\ Goto(t, "startFailed")
  /\ UNCHANGED <<status, handle, proc, owner, external, arg, mine, exitVars, histVars>>

\* The last locked section: READY or FAILED, whatever the status is by now.
StartEnd(t) ==
  /\ CanRun(t) /\ pc[t] \in {"started", "startFailed"}
  /\ status' = [status EXCEPT ![arg[t]] = IF pc[t] = "started" THEN "ready" ELSE "failed"]
  /\ Return(t)
  /\ UNCHANGED <<handle, procVars, exitVars, histVars>>

----------------------------------------------------------------------------
(* stop_engine, called by a thread or by shutdown_all                      *)

\* Faulty: a FAILED engine counts as stopped, though its process may be alive.
StopSectionSkipsFailed(f, b) ==
  /\ \/ /\ status[b] \in {"stopped", "failed"}
        /\ UNCHANGED <<status, handle, external, pc, arg, mine>>
     \/ /\ status[b] \notin {"stopped", "failed"}
        /\ handle[b] = 0 \/ HandleDead(b)
        /\ status' = [status EXCEPT ![b] = "stopped"]
        /\ handle' = [handle EXCEPT ![b] = 0]
        /\ UNCHANGED <<external, pc, arg, mine>>
     \/ /\ status[b] \notin {"stopped", "failed"}
        /\ handle[b] # 0 /\ Alive(handle[b])
        /\ status' = [status EXCEPT ![b] = "draining"]
        /\ arg' = [arg EXCEPT ![f] = b]
        /\ mine' = [mine EXCEPT ![f] = handle[b]]
        /\ external' \in {external, external \ {b}}
        /\ Goto(f, "drain")
        /\ UNCHANGED handle
  /\ UNCHANGED <<proc, owner, sent, lost>>

\* The first locked section, and the shutdown message to whatever listens.
StopSection(f, b) ==
  /\ \/ /\ status[b] = "stopped"
        /\ UNCHANGED <<status, handle, external, pc, arg, mine>>
     \/ /\ status[b] # "stopped"
        /\ handle[b] = 0 \/ HandleDead(b)
        /\ status' = [status EXCEPT ![b] = "stopped"]
        /\ handle' = [handle EXCEPT ![b] = 0]
        /\ UNCHANGED <<external, pc, arg, mine>>
     \/ /\ status[b] # "stopped"
        /\ handle[b] # 0 /\ Alive(handle[b])
        /\ status' = [status EXCEPT ![b] = "draining"]
        /\ arg' = [arg EXCEPT ![f] = b]
        /\ mine' = [mine EXCEPT ![f] = handle[b]]
        /\ external' \in {external, external \ {b}}
        /\ Goto(f, "drain")
        /\ UNCHANGED handle
  /\ UNCHANGED <<proc, owner, sent, lost>>

StopBegin(t, b) ==
  /\ CanRun(t) /\ pc[t] = "idle"
  /\ StopSection(t, b)
  /\ NoteRace(t, b)
  /\ UNCHANGED exitVars

\* proc.wait returned: before the drain timeout, after SIGTERM or after SIGKILL.
Waited(f) ==
  /\ CanRun(f) /\ pc[f] \in {"drain", "term", "kill"}
  /\ ~Alive(mine[f])
  /\ Goto(f, "stopEnd")
  /\ UNCHANGED <<status, handle, procVars, arg, mine, exitVars, histVars>>

\* Faulty: SIGTERM is not followed up: stop_engine believes it has worked.
EscalateTermOnly(f) ==
  /\ CanRun(f) /\ pc[f] \in {"drain", "term"}
  /\ Alive(mine[f])
  /\ sent' = [sent EXCEPT ![mine[f]] = "term"]
  /\ Goto(f, IF pc[f] = "drain" THEN "term" ELSE "stopEnd")
  /\ UNCHANGED <<status, handle, proc, owner, external, arg, mine, exitVars, histVars>>

\* Faulty: the second wait has no timeout: an engine that ignores SIGTERM is waited for.
EscalateWaits(f) ==
  /\ CanRun(f) /\ pc[f] = "drain"
  /\ Alive(mine[f])
  /\ sent' = [sent EXCEPT ![mine[f]] = "term"]
  /\ Goto(f, "term")
  /\ UNCHANGED <<status, handle, proc, owner, external, arg, mine, exitVars, histVars>>

\* proc.wait timed out: SIGTERM after the drain, SIGKILL five seconds later.
Escalate(f) ==
  /\ CanRun(f) /\ pc[f] \in {"drain", "term"}
  /\ Alive(mine[f])
  /\ sent' = [sent EXCEPT ![mine[f]] = IF pc[f] = "drain" THEN "term" ELSE "kill"]
  /\ Goto(f, IF pc[f] = "drain" THEN "term" ELSE "kill")
  /\ UNCHANGED <<status, handle, proc, owner, external, arg, mine, exitVars, histVars>>

\* The last locked section clears whatever handle is there by now.
StopEnd(f) ==
  /\ CanRun(f) /\ pc[f] = "stopEnd"
  /\ status' = [status EXCEPT ![arg[f]] = "stopped"]
  /\ handle' = [handle EXCEPT ![arg[f]] = 0]
  /\ Return(f)
  /\ UNCHANGED <<procVars, exitVars, histVars>>

\* A process that is not gone two seconds after SIGKILL: TimeoutExpired leaves
\* stop_engine.  It ends a tool call; in shutdown_all it ends the shutdown: at
\* exit for good, in the signal handler by unwinding what the signal
\* interrupted, which is a tool call (answered "Internal error", the server
\* goes on) or the read of the next line (the server exits after all).
StopRaises(f) ==
  /\ "slowkill" \in FaultKinds
  /\ CanRun(f) /\ pc[f] = "kill" /\ Alive(mine[f])
  /\ \/ f # Exit /\ Return(f) /\ UNCHANGED <<exitVars, lost>>
     \/ /\ f = Exit /\ server = "atexit"
        /\ server' = "gone" /\ aborted' = TRUE
        /\ Return(f) /\ UNCHANGED <<todo, lost>>
     \/ /\ f = Exit /\ server = "handler" /\ pc[Main] = "idle"
        /\ server' = "atexit" /\ todo' = Backends
        /\ Return(f) /\ UNCHANGED <<aborted, lost>>
     \/ /\ f = Exit /\ server = "handler" /\ pc[Main] # "idle"
        /\ server' = "up" /\ todo' = {}
        /\ pc' = [pc EXCEPT ![f] = "idle", ![Main] = "idle"]
        /\ arg' = [arg EXCEPT ![f] = NoBackend, ![Main] = NoBackend]
        /\ mine' = [mine EXCEPT ![f] = 0, ![Main] = 0]
        /\ lost' = lost \cup {p \in Procs : pc[Main] = "spawned" /\ p = mine[Main]}
        /\ UNCHANGED aborted
  /\ UNCHANGED <<status, handle, procVars, raced>>

----------------------------------------------------------------------------
(* shutdown_all, and what it is called from                                *)

\* SIGTERM or SIGINT, at any moment.
Signal ==
  /\ "signal" \in FaultKinds
  /\ server = "up"
  /\ server' = "handler" /\ todo' = Backends
  /\ UNCHANGED <<status, handle, procVars, pc, arg, mine, aborted, histVars>>

\* The client closes stdin: serve returns and the atexit hook runs.
EndOfInput ==
  /\ server = "up" /\ \A t \in Threads : pc[t] = "idle"
  /\ server' = "atexit" /\ todo' = Backends
  /\ UNCHANGED <<status, handle, procVars, pc, arg, mine, aborted, histVars>>

ShutdownNext(b) ==
  /\ server \in {"handler", "atexit"} /\ pc[Exit] = "idle"
  /\ b \in todo
  /\ StopSection(Exit, b)
  /\ NoteRace(Exit, b)
  /\ todo' = todo \ {b}
  /\ UNCHANGED <<server, aborted>>

ShutdownEnd ==
  /\ server \in {"handler", "atexit"} /\ pc[Exit] = "idle" /\ todo = {}
  /\ server' = "gone"
  /\ UNCHANGED <<status, handle, procVars, pc, arg, mine, todo, aborted, histVars>>

\* Faulty: the monitor asks the port, not the process.
NoticeCrashByPort ==
  /\ server # "gone"
  /\ status' = [b \in Backends |->
       IF status[b] = "ready" /\ HandleDead(b) /\ ~Listening(b) THEN "failed" ELSE status[b]]
  /\ UNCHANGED <<handle, procVars, pc, arg, mine, exitVars, histVars>>

\* engine_status, or one round of the monitor thread: a READY engine whose
\* process has died is FAILED.
NoticeCrash ==
  /\ server # "gone"
  /\ status' = [b \in Backends |->
       IF status[b] = "ready" /\ HandleDead(b) THEN "failed" ELSE status[b]]
  /\ UNCHANGED <<handle, procVars, pc, arg, mine, exitVars, histVars>>

----------------------------------------------------------------------------
(* The processes and the network, while there is a server to see them      *)

World == server # "gone"

\* It binds its port and listens; a port that is taken ends it.
ProcReady(p) ==
  /\ World
  /\ proc[p] = "silent"
  /\ proc' = [proc EXCEPT ![p] = IF Listening(owner[p]) THEN "dead" ELSE "serving"]
  /\ UNCHANGED <<status, handle, owner, sent, external, pc, arg, mine, exitVars, histVars>>

\* Alive, and no longer accepting connections.
ProcDeaf(p) ==
  /\ World
  /\ "deaf" \in FaultKinds
  /\ proc[p] = "serving"
  /\ proc' = [proc EXCEPT ![p] = "silent"]
  /\ UNCHANGED <<status, handle, owner, sent, external, pc, arg, mine, exitVars, histVars>>

\* It crashes, or obeys a signal (SIGTERM may be ignored), or the message.
ProcDies(p) ==
  /\ World
  /\ Alive(p)
  /\ "crash" \in FaultKinds \/ sent[p] # "none" \/ status[owner[p]] = "draining"
  /\ proc' = [proc EXCEPT ![p] = "dead"]
  /\ UNCHANGED <<status, handle, owner, sent, external, pc, arg, mine, exitVars, histVars>>

ExternalChanges(b) ==
  /\ World
  /\ "external" \in FaultKinds
  /\ \/ b \in external /\ external' = external \ {b}
     \/ ~Listening(b) /\ external' = external \cup {b}
  /\ UNCHANGED <<status, handle, proc, owner, sent, pc, arg, mine, exitVars, histVars>>

----------------------------------------------------------------------------

Init ==
  /\ status = [b \in Backends |-> "stopped"]
  /\ handle = [b \in Backends |-> 0]
  /\ proc = [p \in Procs |-> "none"]
  /\ owner = [p \in Procs |-> NoBackend]
  /\ sent = [p \in Procs |-> "none"]
  /\ external = {}
  /\ pc = [f \in Frames |-> "idle"]
  /\ arg = [f \in Frames |-> NoBackend]
  /\ mine = [f \in Frames |-> 0]
  /\ server = "up" /\ todo = {} /\ aborted = FALSE
  /\ lost = {} /\ raced = {}

CallStep(t) ==
  \/ Launch(t) \/ LaunchFails(t) \/ Record(t) \/ AwaitReady(t) \/ StartEnd(t)

StopStep(f) == Waited(f) \/ Escalate(f) \/ StopEnd(f) \/ StopRaises(f)

ExitStep == ShutdownEnd \/ \E b \in Backends : ShutdownNext(b)

Next ==
  \/ \E t \in Threads : CallStep(t) \/ \E b \in Backends : StartBegin(t, b) \/ StopBegin(t, b)
  \/ \E f \in Frames : StopStep(f)
  \/ Signal \/ EndOfInput \/ ExitStep \/ NoticeCrash
  \/ \E p \in Procs : ProcReady(p) \/ ProcDeaf(p) \/ ProcDies(p)
  \/ \E b \in Backends : ExternalChanges(b)

Spec == Init /\ [][Next]_vars

----------------------------------------------------------------------------
(* Properties                                                              *)

\* A handle is of a process that was launched for its engine, and a call that
\* works on a process has one; only shutdown_all runs in the Exit frame, and it
\* only drains.
TypeOK ==
  /\ status \in [Backends -> Status]
  /\ handle \in [Backends -> 0..MaxProcs]
  /\ proc \in [Procs -> ProcState]
  /\ owner \in [Procs -> Backends]
  /\ sent \in [Procs -> {"none", "term", "kill"}]
  /\ external \subseteq Backends
  /\ pc \in [Frames -> Labels]
  /\ arg \in [Frames -> Backends]
  /\ mine \in [Frames -> 0..MaxProcs]
  /\ server \in {"up", "handler", "atexit", "gone"}
  /\ todo \subseteq Backends
  /\ aborted \in BOOLEAN
  /\ lost \subseteq Procs /\ raced \subseteq Backends
  /\ \A b \in Backends : handle[b] # 0 => owner[handle[b]] = b /\ proc[handle[b]] # "none"
  /\ \A f \in Frames : pc[f] \in {"spawned", "wait"} \cup StopLabels => mine[f] # 0
  /\ pc[Exit] \in {"idle"} \cup StopLabels

\* A process the manager launched stays within reach of stop_engine for as long
\* as it lives: its engine's record holds its handle, or the call that spawned
\* it is about to store it.  The exceptions are in lost: a relaunch over a
\* process that was alive and silent, or a spawn that a signal unwound; and in
\* raced: the lock does not keep one call about an engine out of another.
NothingForgotten ==
  \A p \in Procs : Alive(p) =>
    \/ handle[owner[p]] = p
    \/ p \in lost \/ owner[p] \in raced
    \/ \E t \in Threads : pc[t] = "spawned" /\ mine[t] = p

\* "Make the engines we start die with us" (main.py), as far as it goes: when
\* the server has gone and no exception cut its shutdown short, an engine it
\* launched lives on only if its handle was lost, or was not stored yet when the
\* signal came, or another thread had a call about it as the server went.
ExitStopsTracked ==
  server = "gone" /\ ~aborted =>
    \A p \in Procs : Alive(p) =>
      p \in lost \/ owner[p] \in raced \/ (pc[Main] = "spawned" /\ mine[Main] = p)

Fairness ==
  /\ \A t \in Threads : WF_vars(CallStep(t))
  /\ \A f \in Frames : WF_vars(Waited(f) \/ Escalate(f) \/ StopEnd(f))
  /\ WF_vars(ExitStep)
  /\ WF_vars(NoticeCrash)
  /\ \A p \in Procs : WF_vars(sent[p] = "kill" /\ ProcDies(p))

FairSpec == Spec /\ Fairness

\* Every start and every stop returns, the engine may do what it likes, unless
\* the server goes while the call is under way.
CallsEnd == \A f \in Frames : pc[f] # "idle" ~> (pc[f] = "idle" \/ server = "gone")

\* An engine that dies behind a READY status does not stay READY, whatever else
\* is listening on its port by then.
CrashNoticed ==
  \A b \in Backends :
    (status[b] = "ready" /\ HandleDead(b)) ~> (status[b] # "ready" \/ ~HandleDead(b) \/ server = "gone")

=============================================================================
