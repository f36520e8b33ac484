---------------------------- MODULE MotionSessions ----------------------------
(***************************************************************************)
(* Simulation and teleoperation sessions: the motion tools of the MCP      *)
(* server (server/tools_motion.py, sim_adapter.py, engine_client.py) and   *)
(* an engine (reference_engine/bridge_server.py, runtime.py).              *)
(*                                                                         *)
(* The server runs one tool call at a time.  A call asks the engine's      *)
(* capabilities, a number of times, and then sends its commands, each over *)
(* the one socket the client keeps: a request goes out, and the next line  *)
(* that comes in is taken for its response.  The engine reads the socket   *)
(* in a thread and holds the sessions.  It may be stopped, die and be      *)
(* started again at any moment.                                            *)
(*                                                                         *)
(* A tool call starts one session at most, so a session, with the run or   *)
(* the robot in it, is known by the number of the call that started it.    *)
(***************************************************************************)
EXTENDS Naturals, Sequences

CONSTANTS
  MaxCalls,    \* bound on the tool calls
  MaxStarts,   \* bound on the engine's restarts
  TeleopAsks,  \* subset of 2..4: how many queries the start of a session makes
  FaultKinds   \* subset of {"timeout", "reject", "stop", "die"}

ASSUME CallsAssumption == MaxCalls \in Nat /\ MaxStarts \in Nat /\ TeleopAsks \subseteq 2..4

VARIABLES
  calls,       \* the number of the last tool call
  tool,        \* its kind, "none" between calls
  pc,          \* "idle", "gate" (asking for capabilities) or the command it is at
  asks,        \* capability queries before its first command
  sid,         \* session_id, 0 before there is one
  out,         \* a request is out: the client is reading
  active,      \* _active_sessions
  sock,        \* the client's socket, see Sockets
  hello,       \* EngineClient._hello: "none", "caps", or "other", which has no capabilities
  late,        \* history: a read on this socket has timed out
  req, rsp,    \* the two streams of the socket
  engine,      \* "up", "stopping" (_stop_event is set) or "down"
  starts,      \* how often the engine was started again
  sims,        \* its _sim_sessions
  teleops,     \* its _teleop_sessions
  result       \* history: the "ok" of the last call, see Results

callVars == <<calls, tool, pc, asks, sid, out>>
sockVars == <<sock, hello, late, req, rsp>>
engineVars == <<engine, starts, sims, teleops>>
vars == <<callVars, active, sockVars, engineVars, result>>

Ids == 1..MaxCalls
Tools == {"simulate", "teleopStart", "teleopCommand", "teleopState", "teleopStop"}
Starts == {"simulate_start", "teleop_start"}
Commands == {"simulate", "simulate_status", "simulate_stop", "teleop_command",
             "teleop_state", "teleop_stop"} \cup Starts
\* "none" before a connection and after an error; "unserved" when the engine was
\* stopping already; "broken" once the engine has closed its end.
Sockets == {"none", "served", "unserved", "broken"}
Request == [cmd: Commands \cup {"hello"}, id: 0..MaxCalls]
\* What the client can see of a response is in of (by its fields) and err; id is
\* the session or, for simulate, the call whose result it carries.
Response == [of: Commands \cup {"hello"}, err: {"no", "notfound", "error"}, id: 0..MaxCalls]
HasSession == {"simulate_start", "simulate_status", "simulate_stop", "teleop_start", "teleop_state"}
HasSamples == {"simulate", "simulate_stop"}
\* An answer's run and the one that was due; sure if nothing had timed out.
Results == [due: 0..MaxCalls, run: 0..MaxCalls, sure: BOOLEAN]
NoResult == [due |-> 0, run |-> 0, sure |-> FALSE]

Fault(k) == k \in FaultKinds
Sending == IF pc = "gate" THEN "hello" ELSE pc

----------------------------------------------------------------------------
(* Tool calls                                                              *)

Begin(t, n, s) ==
  /\ pc = "idle" /\ calls < MaxCalls
  /\ calls' = calls + 1
  /\ tool' = t /\ pc' = "gate" /\ asks' = n /\ sid' = s
  /\ result' = NoResult
  /\ UNCHANGED <<out, active, sockVars, engineVars>>

\* motion.simulate: the model format unless a model file is given, then the mode.
Simulate == \E n \in 1..2 : Begin("simulate", n, 0)

\* motion.teleop_start asks for the mode, the format unless a model file is given, and
\* a feature; motion.simulate in teleop mode has asked for the mode before it.
TeleopStart == \E n \in TeleopAsks : Begin("teleopStart", n, 0)

\* An engine's axes are asked before it is commanded.
TeleopCommand == \E s \in active : Begin("teleopCommand", 1, s)

TeleopRead == \E s \in active, t \in {"teleopState", "teleopStop"} : Begin(t, 0, s)

\* Wrong: the session a call was about is kept for the next call.
EndKeepsSession ==
  /\ tool' = "none" /\ pc' = "idle" /\ asks' = 0 /\ out' = FALSE
  /\ UNCHANGED <<calls, sid>>

End ==
  /\ tool' = "none" /\ pc' = "idle" /\ asks' = 0 /\ sid' = 0 /\ out' = FALSE
  /\ UNCHANGED calls

\* The call goes on with another command.
Then(c, s) ==
  /\ pc' = c /\ sid' = s /\ out' = FALSE
  /\ UNCHANGED <<calls, tool, asks>>

\* A capability query that gets no answer is answered {}.
Asked ==
  /\ asks' = asks - 1 /\ out' = FALSE
  /\ UNCHANGED <<calls, tool, pc, sid>>

\* A command that gets none, or an error, ends the call.
Fails == IF pc = "gate" THEN Asked ELSE End

----------------------------------------------------------------------------
(* The client                                                              *)

\* Wrong: the buffer of the lost socket is kept for the new one.
ConnectKeepsBuffer ==
  /\ pc # "idle" /\ ~out /\ sock = "none" /\ (pc = "gate" => asks > 0)
  /\ \/ /\ engine # "down"
        /\ sock' = IF engine = "up" THEN "served" ELSE "unserved"
        /\ hello' = "none" /\ late' = FALSE /\ req' = <<>>
        /\ UNCHANGED <<callVars, rsp>>
     \/ /\ engine # "up"
        /\ Fails /\ UNCHANGED sockVars
  /\ UNCHANGED <<active, engineVars, result>>

\* get_client connects if the socket is not there; nobody may be listening.
Connect ==
  /\ pc # "idle" /\ ~out /\ sock = "none" /\ (pc = "gate" => asks > 0)
  /\ \/ /\ engine # "down"
        /\ sock' = IF engine = "up" THEN "served" ELSE "unserved"
        /\ hello' = "none" /\ late' = FALSE /\ req' = <<>> /\ rsp' = <<>>
        /\ UNCHANGED callVars
     \/ /\ engine # "up"
        /\ Fails /\ UNCHANGED sockVars
  /\ UNCHANGED <<active, engineVars, result>>

\* What the handshake said is cached for as long as the client has the socket: the
\* queries that are left touch nothing else.
UseCached ==
  /\ pc = "gate" /\ asks > 0 /\ ~out /\ sock # "none" /\ hello # "none"
  /\ asks' = 0 /\ UNCHANGED <<calls, tool, pc, sid, out>>
  /\ UNCHANGED <<active, sockVars, engineVars, result>>

\* An argument is refused: parameters, a pre-flight, a model format, or an axis that
\* the engine does not have.
Refuse ==
  /\ pc = "gate" /\ ~out
  /\ \/ tool \in {"simulate", "teleopStart"}
     \/ tool = "teleopCommand" /\ asks = 0 /\ sock # "none" /\ hello = "caps"
  /\ End
  /\ UNCHANGED <<active, sockVars, engineVars, result>>

\* All is asked: an engine whose answer has no sessions, or that has not answered,
\* is given the one command every engine has.
PassGate ==
  /\ pc = "gate" /\ asks = 0
  /\ pc' = CASE tool = "simulate"      -> IF sock # "none" /\ hello = "caps"
                                          THEN "simulate_start" ELSE "simulate"
             [] tool = "teleopStart"   -> "teleop_start"
             [] tool = "teleopCommand" -> "teleop_command"
             [] tool = "teleopState"   -> "teleop_state"
             [] OTHER                  -> "teleop_stop"
  /\ UNCHANGED <<calls, tool, asks, sid, out, active, sockVars, engineVars, result>>

\* send_command: the request goes out, or the socket turns out to be broken.
Send ==
  /\ pc # "idle" /\ ~out /\ sock # "none"
  /\ pc = "gate" => asks > 0 /\ hello = "none"
  /\ \/ /\ out' = TRUE
        /\ req' = IF sock = "served"
                  THEN Append(req, [cmd |-> Sending, id |-> IF sid = 0 THEN calls ELSE sid])
                  ELSE req
        /\ UNCHANGED <<calls, tool, pc, asks, sid, sock, hello, late, rsp>>
     \/ /\ sock = "broken" /\ sock' = "none"
        /\ Fails /\ UNCHANGED <<hello, late, req, rsp>>
  /\ UNCHANGED <<active, engineVars, result>>

\* The tool answers ok with this run, when that one was due.
Answers(due, run) == End /\ result' = [due |-> due, run |-> run, sure |-> ~late]

\* The next line is the response, whatever it responds to.
Reply == Head(rsp)
Ok == Reply.err = "no"
Takes ==
  /\ out /\ rsp # <<>>
  /\ rsp' = Tail(rsp)
  /\ UNCHANGED <<sock, late, req, engineVars>>

\* A result that is no handshake has no capabilities, and is cached as one.
ReadHello ==
  /\ Takes /\ pc = "gate" /\ Asked
  /\ hello' = IF ~Ok THEN hello ELSE IF Reply.of = "hello" THEN "caps" ELSE "other"
  /\ UNCHANGED <<active, result>>

\* Wrong: any error makes it.
ForgottenOnError == IF tool \notin {"simulate", "teleopStart"} THEN {sid} ELSE {}

\* Only an engine that does not know a session makes the server forget it.
Forgotten == IF tool \notin {"simulate", "teleopStart"} /\ Reply.err = "notfound" THEN {sid} ELSE {}

ReadError ==
  /\ Takes /\ pc # "gate" /\ ~Ok /\ End
  /\ active' = active \ Forgotten
  /\ UNCHANGED <<hello, result>>

\* A run is polled; a robot is active from here on.  Without a session_id the
\* call is over.
ReadStart ==
  /\ Takes /\ pc \in Starts /\ Ok
  /\ IF Reply.of \notin HasSession THEN End /\ UNCHANGED <<active, result>>
     ELSE IF pc = "simulate_start"
          THEN Then("simulate_status", Reply.id) /\ UNCHANGED <<active, result>>
          ELSE Answers(calls, Reply.id) /\ active' = active \cup {Reply.id}
  /\ UNCHANGED hello

\* Wrong: it is polled until the status is complete, whatever the response.
ReadStatusInsists ==
  /\ Takes /\ pc = "simulate_status"
  /\ Then(IF Ok /\ Reply.of = "simulate_status" THEN "simulate_stop" ELSE pc, sid)
  /\ UNCHANGED <<active, hello, result>>

\* Polled until the status is complete, as it is at the first poll of the reference
\* engine; every other response is no such status.
ReadStatus ==
  /\ Takes /\ pc = "simulate_status" /\ Ok
  /\ Then(IF Reply.of = "simulate_status" THEN "simulate_stop" ELSE pc, sid)
  /\ UNCHANGED <<active, hello, result>>

ReadSamples ==
  /\ Takes /\ pc \in {"simulate", "simulate_stop"} /\ Ok
  /\ Answers(calls, IF Reply.of \in HasSamples THEN Reply.id ELSE 0)
  /\ UNCHANGED <<active, hello>>

ReadTeleop ==
  /\ Takes /\ pc \in {"teleop_command", "teleop_state", "teleop_stop"} /\ Ok
  /\ Answers(sid, Reply.id)
  /\ active' = IF pc = "teleop_stop" THEN active \ {sid} ELSE active
  /\ UNCHANGED hello

Read == ReadHello \/ ReadError \/ ReadStart \/ ReadStatus \/ ReadSamples \/ ReadTeleop

\* A read that times out raises and keeps the socket.
TimeOut ==
  /\ out /\ rsp = <<>> /\ Fault("timeout") /\ sock # "broken"
  /\ late' = TRUE
  /\ Fails
  /\ UNCHANGED <<active, sock, hello, req, rsp, engineVars, result>>

\* A read at the end of the stream drops it.
Closed ==
  /\ out /\ rsp = <<>> /\ sock = "broken"
  /\ sock' = "none"
  /\ Fails
  /\ UNCHANGED <<active, hello, late, req, rsp, engineVars, result>>

----------------------------------------------------------------------------
(* The engine                                                              *)

\* What a handler does to the sessions, and its error; an engine may refuse the
\* arguments of a run or of a setpoint, before it keeps anything of it.
Handled(q, err, sims2, teleops2) ==
  \/ /\ q.cmd \in {"hello", "simulate"}
     /\ err = "no" /\ sims2 = sims /\ teleops2 = teleops
  \/ /\ q.cmd = "simulate_start"
     /\ err = "no" /\ sims2 = sims \cup {q.id} /\ teleops2 = teleops
  \/ /\ q.cmd = "teleop_start"
     /\ err = "no" /\ sims2 = sims /\ teleops2 = teleops \cup {q.id}
  \/ /\ q.cmd \in {"simulate_status", "simulate_stop"}
     /\ err = IF q.id \in sims THEN "no" ELSE "notfound"
     /\ sims2 = IF q.cmd = "simulate_stop" THEN sims \ {q.id} ELSE sims
     /\ teleops2 = teleops
  \/ /\ q.cmd \in {"teleop_command", "teleop_state", "teleop_stop"}
     /\ err = IF q.id \in teleops THEN "no" ELSE "notfound"
     /\ teleops2 = IF q.cmd = "teleop_stop" THEN teleops \ {q.id} ELSE teleops
     /\ sims2 = sims
  \/ /\ Fault("reject") /\ q.cmd \in {"simulate", "teleop_command"} \cup Starts
     /\ err = "error" /\ sims2 = sims /\ teleops2 = teleops

\* The thread of the connection answers the first line it has read.
Handle ==
  /\ sock = "served" /\ req # <<>>
  /\ \E err \in {"no", "notfound", "error"} :
       /\ Handled(Head(req), err, sims', teleops')
       /\ rsp' = Append(rsp, [of |-> Head(req).cmd, err |-> err, id |-> Head(req).id])
  /\ req' = Tail(req)
  /\ UNCHANGED <<callVars, active, sock, hello, late, engine, starts, result>>

\* SIGTERM, or the shutdown verb from some other client, which clears the sessions.
Stop ==
  /\ Fault("stop") /\ engine = "up"
  /\ engine' = "stopping"
  /\ \/ UNCHANGED <<sims, teleops>>
     \/ sims' = {} /\ teleops' = {}
  /\ UNCHANGED <<callVars, active, sockVars, starts, result>>

\* Its end of the connection is closed; what was on the way may be lost.
Break ==
  /\ sock' = IF sock = "none" THEN "none" ELSE "broken"
  /\ req' = <<>>
  /\ \E n \in 0..Len(rsp) : rsp' = SubSeq(rsp, 1, n)
  /\ UNCHANGED <<hello, late>>

\* A connection's thread sees the event before its next read, and the main thread
\* closes the listening socket on the connections it has not accepted.
LeaveThread ==
  /\ engine = "stopping" /\ sock \in {"served", "unserved"}
  /\ Break
  /\ UNCHANGED <<callVars, active, engineVars, result>>

\* The process ends, with its sessions.
Die ==
  /\ engine = "stopping" \/ (engine = "up" /\ Fault("die"))
  /\ engine' = "down" /\ sims' = {} /\ teleops' = {}
  /\ Break
  /\ UNCHANGED <<callVars, active, starts, result>>

Start ==
  /\ engine = "down" /\ starts < MaxStarts
  /\ engine' = "up" /\ starts' = starts + 1
  /\ UNCHANGED <<callVars, active, sockVars, sims, teleops, result>>

Init ==
  /\ calls = 0 /\ tool = "none" /\ pc = "idle" /\ asks = 0 /\ sid = 0 /\ out = FALSE
  /\ active = {}
  /\ sock = "none" /\ hello = "none" /\ late = FALSE /\ req = <<>> /\ rsp = <<>>
  /\ engine = "up" /\ starts = 0 /\ sims = {} /\ teleops = {}
  /\ result = NoResult

ClientStep == Connect \/ UseCached \/ Refuse \/ PassGate \/ Send \/ Read \/ TimeOut \/ Closed

Next ==
  \/ Simulate \/ TeleopStart \/ TeleopCommand \/ TeleopRead
  \/ ClientStep
  \/ Handle \/ Stop \/ LeaveThread \/ Die \/ Start

Spec == Init /\ [][Next]_vars

\* The server's thread runs on, and a read that gets nothing times out; nothing is
\* assumed of the engine.
FairSpec == Spec /\ WF_vars(ClientStep)

----------------------------------------------------------------------------
(* Properties                                                              *)

\* Every variable has its type; sessions are numbers of calls that were made, and
\* between calls nothing of the last one is left.
TypeOK ==
  /\ calls \in 0..MaxCalls /\ tool \in Tools \cup {"none"}
  /\ pc \in Commands \cup {"idle", "gate"}
  /\ asks \in 0..4 /\ sid \in 0..calls /\ out \in BOOLEAN
  /\ active \subseteq 1..calls
  /\ sock \in Sockets /\ hello \in {"none", "caps", "other"} /\ late \in BOOLEAN
  /\ req \in Seq(Request) /\ rsp \in Seq(Response)
  /\ engine \in {"up", "stopping", "down"} /\ starts \in 0..MaxStarts
  /\ sims \subseteq 1..calls /\ teleops \subseteq 1..calls
  /\ result \in Results
  /\ pc = "idle" <=> tool = "none"
  /\ pc = "idle" => asks = 0 /\ sid = 0 /\ ~out

\* On a socket where no read has timed out a tool that answers ok answers with the
\* run it made or the robot it was asked about, whatever the engine did in between
\* (died, was stopped, was started again, refused): the client pairs requests and
\* responses by their order alone.
AnswersOwnRun == result.sure => result.run = result.due

\* While the engine is up and no read has timed out, every session it holds is
\* known to the server, as an active teleop session or as that of the call in
\* progress: no failure along _simulate_session or motion_teleop_start leaves
\* one behind that nobody can stop.
SessionsAccounted ==
  engine = "up" /\ ~late => \A n \in sims \cup teleops : n \in active \/ (n = calls /\ pc # "idle")

\* Every tool call returns, the status poll without a deadline included, whatever
\* the engine does, answers that come late and are taken for others' among it.
CallsEnd == pc # "idle" ~> pc = "idle"
=============================================================================
