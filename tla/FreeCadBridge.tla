--------------------------- MODULE FreeCadBridge ---------------------------
(***************************************************************************)
(* The bridge between the MCP server and FreeCAD: the blocking client      *)
(* (server/freecad_client.py), newline-delimited JSON over TCP             *)
(* (freecad_addon/protocol.py), and the addon's socket server              *)
(* (freecad_addon/socket_server.py), which has one thread per connection   *)
(* and a job queue that a QTimer empties on FreeCAD's main thread.         *)
(*                                                                         *)
(* A call of send_command is known by its number, and a message by the     *)
(* call it belongs to: the protocol itself carries no number.  Both ends   *)
(* have timeouts, so either may give up on a call that the main thread     *)
(* still runs.  The main thread may stop and restart the server            *)
(* (freecad_addon.restart, after a code change), which leaves the threads  *)
(* of open connections behind, blocked in recv.                            *)
(***************************************************************************)
EXTENDS Integers, Sequences

CONSTANTS
  Clients,        \* client processes: an MCP server, an orchestrator worker
  MaxCalls,       \* bound on the calls of send_command, all clients together
  MaxConns,       \* bound on the connections
  MaxServers,     \* bound on the server instances (starts of the addon)
  None,           \* no socket, no call
  Faults          \* the faults that may happen, a subset of FaultKinds

FaultKinds == {"clientTimeout",  \* recv waits longer than the call's timeout
               "serverTimeout",  \* the main thread takes longer than the addon's
               "clientRestart",  \* the client process goes away
               "stop"}           \* the addon is stopped while connections are open

ASSUME BoundAssumption == MaxCalls \in Nat /\ MaxConns \in Nat /\ MaxServers \in Nat
ASSUME FaultAssumption == Faults \subseteq FaultKinds /\ None \notin Nat

Calls   == 1 .. MaxCalls
Conns   == 1 .. MaxConns
Servers == 1 .. MaxServers

VARIABLES
  calls,    \* the number of calls made
  cpc,      \* cpc[k]: where client k is in send_command
  cur,      \* cur[k]: its call in progress
  sock,     \* sock[k]: the connection in self._sock, or None
  clean,    \* history: no read of client k timed out on that connection
  answer,   \* answer[n]: what call n returned, Pending before
  conns,    \* the number of connections made
  srv,      \* srv[c]: the server instance that accepted connection c
  inbox,    \* inbox[c]: calls sent and not yet received by the addon
  outbox,   \* outbox[c]: responses not yet read by the client
  copen,    \* copen[c]: the client's end is open
  hpc,      \* hpc[c]: where the thread of connection c is
  lines,    \* lines[c]: calls it has received and not yet answered
  server,   \* the current server instance, 0 before the first start
  running,  \* running[s]: self._running
  timer,    \* timer[s]: self._timer is set, so jobs go to the main thread
  queue,    \* queue[s]: self._job_queue
  mpc,      \* what the main thread does: "idle", "starting", "running"
  job,      \* the call whose handler it runs, or None
  response, \* response[n]: job.response, or the value of the handler: "none" before
  via,      \* history: via[n]: the connection call n was sent over, or None
  log       \* history: the handlers run so far: <<call, thread>>

clientVars == <<calls, cpc, cur, sock, clean, answer>>
connVars   == <<conns, srv, inbox, outbox, copen, via>>
threadVars == <<hpc, lines>>
mainVars   == <<server, running, timer, mpc, job>>
vars == <<clientVars, connVars, threadVars, mainVars, queue, response, log>>

Outcomes == {"result", "error"}

\* A response on the wire: the call it answers and what it says.
Response == Calls \X (Outcomes \union {"timeout"})

\* What a call of send_command may return or raise; a failure that comes from
\* no response carries the number 0, and Pending is no outcome yet.
Failed(why) == <<0, why>>
Pending == Failed("none")
Returned ==
  Response \union {Failed(why) : why \in {"none", "unreachable", "lost", "timed out"}}

-----------------------------------------------------------------------------
(* The client.                                                             *)

ClientAt(k, l) == cpc[k] = l

ClientGoto(k, l) == cpc' = [cpc EXCEPT ![k] = l]

\* send_command returns or raises.
Return(k, what) ==
  /\ ClientGoto(k, "idle")
  /\ cur' = [cur EXCEPT ![k] = None]
  /\ answer' = [answer EXCEPT ![cur[k]] = what]

Call(k) ==
  /\ ClientAt(k, "idle")
  /\ calls < MaxCalls
  /\ calls' = calls + 1
  /\ cur' = [cur EXCEPT ![k] = calls + 1]
  /\ ClientGoto(k, IF sock[k] = None THEN "connect" ELSE "send")
  /\ UNCHANGED <<sock, clean, answer, connVars, threadVars, mainVars, queue, response, log>>

\* The kernel accepts, and _accept_loop will start the connection's thread.
Connect(k) ==
  /\ ClientAt(k, "connect")
  /\ server # 0 /\ running[server]
  /\ conns < MaxConns
  /\ conns' = conns + 1
  /\ sock' = [sock EXCEPT ![k] = conns + 1]
  /\ clean' = [clean EXCEPT ![k] = TRUE]
  /\ srv' = [srv EXCEPT ![conns + 1] = server]
  /\ copen' = [copen EXCEPT ![conns + 1] = TRUE]
  /\ hpc' = [hpc EXCEPT ![conns + 1] = "new"]
  /\ ClientGoto(k, "send")
  /\ UNCHANGED <<calls, cur, answer, inbox, outbox, via, lines, mainVars, queue, response, log>>

\* connect_with_retry gives up after its last attempt.
ConnectFails(k) ==
  /\ ClientAt(k, "connect")
  /\ Return(k, Failed("unreachable"))
  /\ UNCHANGED <<calls, sock, clean, connVars, threadVars, mainVars, queue, response, log>>

ServerOpen(c) == hpc[c] # "closed"

\* sendall; a message to an end already closed may still be taken by the kernel.
Send(k) ==
  /\ ClientAt(k, "send")
  /\ inbox' = [inbox EXCEPT ![sock[k]] =
       IF ServerOpen(sock[k]) THEN Append(@, cur[k]) ELSE @]
  /\ via' = [via EXCEPT ![cur[k]] = sock[k]]
  /\ ClientGoto(k, "read")
  /\ UNCHANGED <<calls, cur, sock, clean, answer, conns, srv, outbox, copen,
                 threadVars, mainVars, queue, response, log>>

\* Faulty: recv returning nothing is not taken for the end.
ConnectionLostAtSend(k) ==
  /\ ClientAt(k, "send")
  /\ ~ServerOpen(sock[k])
  /\ copen' = [copen EXCEPT ![sock[k]] = FALSE]
  /\ sock' = [sock EXCEPT ![k] = None]
  /\ Return(k, Failed("lost"))
  /\ UNCHANGED <<calls, clean, conns, srv, inbox, outbox, via, threadVars, mainVars,
                 queue, response, log>>

\* The connection is found broken, by sendall or by recv after the last response.
ConnectionLost(k) ==
  /\ \/ ClientAt(k, "send")
     \/ ClientAt(k, "read") /\ outbox[sock[k]] = <<>>
  /\ ~ServerOpen(sock[k])
  /\ copen' = [copen EXCEPT ![sock[k]] = FALSE]
  /\ sock' = [sock EXCEPT ![k] = None]
  /\ Return(k, Failed("lost"))
  /\ UNCHANGED <<calls, clean, conns, srv, inbox, outbox, via, threadVars, mainVars,
                 queue, response, log>>

\* _read_response returns the next line, whichever call it answers.
Read(k) ==
  /\ ClientAt(k, "read")
  /\ outbox[sock[k]] # <<>>
  /\ outbox' = [outbox EXCEPT ![sock[k]] = Tail(@)]
  /\ Return(k, Head(outbox[sock[k]]))
  /\ UNCHANGED <<calls, sock, clean, conns, srv, inbox, copen, via, threadVars, mainVars,
                 queue, response, log>>

\* recv times out: the call raises, the socket stays.
ReadTimeout(k) ==
  /\ "clientTimeout" \in Faults
  /\ ClientAt(k, "read")
  /\ outbox[sock[k]] = <<>>
  /\ ServerOpen(sock[k])
  /\ clean' = [clean EXCEPT ![k] = FALSE]
  /\ Return(k, Failed("timed out"))
  /\ UNCHANGED <<calls, sock, connVars, threadVars, mainVars, queue, response, log>>

\* The client process ends and another takes its place.
ClientRestart(k) ==
  /\ "clientRestart" \in Faults
  /\ sock[k] # None
  /\ copen' = [copen EXCEPT ![sock[k]] = FALSE]
  /\ sock' = [sock EXCEPT ![k] = None]
  /\ ClientGoto(k, "idle")
  /\ cur' = [cur EXCEPT ![k] = None]
  /\ UNCHANGED <<calls, clean, answer, conns, srv, inbox, outbox, via, threadVars, mainVars,
                 queue, response, log>>

ClientStep(k) == Connect(k) \/ Send(k) \/ ConnectionLost(k) \/ Read(k) \/ ReadTimeout(k)

-----------------------------------------------------------------------------
(* The thread of a connection: _handle_client and _dispatch.               *)

ThreadAt(c, l) == hpc[c] = l

ThreadGoto(c, l) == hpc' = [hpc EXCEPT ![c] = l]

\* The thread looks at _running once before its first recv.
ThreadStart(c) ==
  /\ ThreadAt(c, "new")
  /\ ThreadGoto(c, IF running[srv[c]] THEN "recv" ELSE "closed")
  /\ UNCHANGED <<clientVars, connVars, lines, mainVars, queue, response, log>>

\* recv returns what has come, up to 4096 bytes: one call or several.  The
\* thread may have been blocked in recv since before the server was stopped.
Receive(c) ==
  /\ ThreadAt(c, "recv")
  /\ \E n \in 1 .. Len(inbox[c]) :
       /\ lines' = [lines EXCEPT ![c] = SubSeq(inbox[c], 1, n)]
       /\ inbox' = [inbox EXCEPT ![c] = SubSeq(@, n + 1, Len(@))]
  /\ ThreadGoto(c, "dispatch")
  /\ UNCHANGED <<clientVars, conns, srv, outbox, copen, via, mainVars, queue, response, log>>

ReceiveEof(c) ==
  /\ ThreadAt(c, "recv")
  /\ inbox[c] = <<>> /\ ~copen[c]
  /\ ThreadGoto(c, "closed")
  /\ UNCHANGED <<clientVars, connVars, lines, mainVars, queue, response, log>>

\* Faulty: the latest call first.
EnqueueFront(c) ==
  /\ ThreadAt(c, "dispatch")
  /\ timer[srv[c]]
  /\ queue' = [queue EXCEPT ![srv[c]] = <<Head(lines[c])>> \o @]
  /\ ThreadGoto(c, "wait")
  /\ UNCHANGED <<clientVars, connVars, lines, mainVars, response, log>>

\* With a timer the call becomes a job of the main thread ...
Enqueue(c) ==
  /\ ThreadAt(c, "dispatch")
  /\ timer[srv[c]]
  /\ queue' = [queue EXCEPT ![srv[c]] = Append(@, Head(lines[c]))]
  /\ ThreadGoto(c, "wait")
  /\ UNCHANGED <<clientVars, connVars, lines, mainVars, response, log>>

\* ... without one its handler runs here and now.
RunDirect(c) ==
  /\ ThreadAt(c, "dispatch")
  /\ ~timer[srv[c]]
  /\ \E o \in Outcomes : response' = [response EXCEPT ![Head(lines[c])] = o]
  /\ log' = Append(log, <<Head(lines[c]), "connection">>)
  /\ ThreadGoto(c, "reply")
  /\ UNCHANGED <<clientVars, connVars, lines, mainVars, queue>>

\* After an answer: the next line; then, if the server still runs, recv again.
AfterReply(c) ==
  CASE Len(lines[c]) > 1 -> "dispatch"
    [] Len(lines[c]) = 1 /\ running[srv[c]] -> "recv"
    [] OTHER -> "closed"

\* sendall; when the client is gone the thread may notice now or at its next read.
Answer(c, what) ==
  /\ outbox' = [outbox EXCEPT ![c] = Append(@, <<Head(lines[c]), what>>)]
  /\ \/ ThreadGoto(c, AfterReply(c))
     \/ ~copen[c] /\ ThreadGoto(c, "closed")
  /\ lines' = [lines EXCEPT ![c] = Tail(@)]
  /\ UNCHANGED <<clientVars, conns, srv, inbox, copen, via, mainVars, queue, response, log>>

\* The handler has run: on this thread, or on the main thread (event.set).
ReplyDone(c) ==
  /\ ThreadAt(c, "wait") \/ ThreadAt(c, "reply")
  /\ response[Head(lines[c])] # "none"
  /\ Answer(c, response[Head(lines[c])])

\* Faulty: the response is sent without looking whether there is one.
ReplyTimeoutUnchecked(c) ==
  /\ "serverTimeout" \in Faults
  /\ ThreadAt(c, "wait")
  /\ Answer(c, response[Head(lines[c])])

\* Faulty: the timeout is reported and the job still waited for.
ReplyTimeoutStays(c) ==
  /\ "serverTimeout" \in Faults
  /\ ThreadAt(c, "wait")
  /\ response[Head(lines[c])] = "none"
  /\ outbox' = [outbox EXCEPT ![c] = Append(@, <<Head(lines[c]), "timeout">>)]
  /\ ThreadGoto(c, "reply")
  /\ UNCHANGED <<clientVars, conns, srv, inbox, copen, via, lines, mainVars,
                 queue, response, log>>

\* event.wait times out with no response there; the job stays in the queue.
ReplyTimeout(c) ==
  /\ "serverTimeout" \in Faults
  /\ ThreadAt(c, "wait")
  /\ response[Head(lines[c])] = "none"
  /\ Answer(c, "timeout")

ThreadStep(c) ==
  \/ ThreadStart(c) \/ Receive(c) \/ ReceiveEof(c) \/ Enqueue(c) \/ RunDirect(c) \/ ReplyDone(c) \/ ReplyTimeout(c)

-----------------------------------------------------------------------------
(* The main thread of FreeCAD.                                             *)

\* start(): the accept loop runs before the timer does.
StartServer ==
  /\ mpc = "idle"
  /\ server < MaxServers
  /\ server # 0 => ~running[server]
  /\ server' = server + 1
  /\ running' = [running EXCEPT ![server + 1] = TRUE]
  /\ mpc' = "starting"
  /\ UNCHANGED <<clientVars, connVars, threadVars, timer, job, queue, response, log>>

StartTimer ==
  /\ mpc = "starting"
  /\ timer' = [timer EXCEPT ![server] = TRUE]
  /\ mpc' = "idle"
  /\ UNCHANGED <<clientVars, connVars, threadVars, server, running, job, queue, response, log>>

\* stop(): neither the queue nor the threads of connections are looked after.
StopServer ==
  /\ "stop" \in Faults
  /\ mpc = "idle"
  /\ server # 0 /\ running[server]
  /\ running' = [running EXCEPT ![server] = FALSE]
  /\ timer' = [timer EXCEPT ![server] = FALSE]
  /\ UNCHANGED <<clientVars, connVars, threadVars, server, mpc, job, queue, response, log>>

\* Faulty: the job stays in the queue until it has run.
TakeJobPeek ==
  /\ mpc = "idle"
  /\ server # 0 /\ timer[server]
  /\ queue[server] # <<>>
  /\ job' = Head(queue[server])
  /\ mpc' = "running"
  /\ UNCHANGED <<clientVars, connVars, threadVars, server, running, timer, queue, response, log>>

\* _process_jobs takes the next job ...
TakeJob ==
  /\ mpc = "idle"
  /\ server # 0 /\ timer[server]
  /\ queue[server] # <<>>
  /\ job' = Head(queue[server])
  /\ queue' = [queue EXCEPT ![server] = Tail(@)]
  /\ mpc' = "running"
  /\ UNCHANGED <<clientVars, connVars, threadVars, server, running, timer, response, log>>

\* Faulty: an exception of a handler leaves _process_jobs for good.
FinishJobUncaught ==
  /\ mpc = "running"
  /\ \E o \in Outcomes :
       /\ response' = [response EXCEPT ![job] = IF o = "error" THEN "none" ELSE o]
       /\ mpc' = IF o = "error" THEN "raised" ELSE "idle"
  /\ log' = Append(log, <<job, "main">>)
  /\ job' = None
  /\ UNCHANGED <<clientVars, connVars, threadVars, server, running, timer, queue>>

\* ... and runs it; an exception becomes a response like any other.
FinishJob ==
  /\ mpc = "running"
  /\ \E o \in Outcomes : response' = [response EXCEPT ![job] = o]
  /\ log' = Append(log, <<job, "main">>)
  /\ job' = None
  /\ mpc' = "idle"
  /\ UNCHANGED <<clientVars, connVars, threadVars, server, running, timer, queue>>

MainStep == StartTimer \/ TakeJob \/ FinishJob

-----------------------------------------------------------------------------
Init ==
  /\ calls = 0
  /\ cpc = [k \in Clients |-> "idle"]
  /\ cur = [k \in Clients |-> None]
  /\ sock = [k \in Clients |-> None]
  /\ clean = [k \in Clients |-> TRUE]
  /\ answer = [n \in Calls |-> Pending]
  /\ conns = 0
  /\ srv = [c \in Conns |-> 0]
  /\ inbox = [c \in Conns |-> <<>>]
  /\ outbox = [c \in Conns |-> <<>>]
  /\ copen = [c \in Conns |-> FALSE]
  /\ hpc = [c \in Conns |-> "closed"]
  /\ lines = [c \in Conns |-> <<>>]
  /\ server = 0
  /\ running = [s \in Servers |-> FALSE]
  /\ timer = [s \in Servers |-> FALSE]
  /\ queue = [s \in Servers |-> <<>>]
  /\ mpc = "idle"
  /\ job = None
  /\ response = [n \in Calls |-> "none"]
  /\ via = [n \in Calls |-> None]
  /\ log = <<>>

Next ==
  \/ \E k \in Clients : Call(k) \/ ClientStep(k) \/ ConnectFails(k) \/ ClientRestart(k)
  \/ \E c \in Conns : ThreadStep(c)
  \/ MainStep \/ StartServer \/ StopServer

Spec == Init /\ [][Next]_vars

\* Clients, threads and FreeCAD's event loop run; a timeout does expire, and
\* connecting succeeds or is given up.
Fairness ==
  /\ \A k \in Clients : WF_vars(ClientStep(k) \/ ConnectFails(k))
  /\ \A c \in Conns : WF_vars(ThreadStep(c))
  /\ WF_vars(MainStep)

FairSpec == Spec /\ Fairness

-----------------------------------------------------------------------------
(* Types, safety and liveness.                                             *)

TypeOK ==
  /\ calls \in 0 .. MaxCalls
  /\ cpc \in [Clients -> {"idle", "connect", "send", "read"}]
  /\ cur \in [Clients -> Calls \union {None}]
  /\ sock \in [Clients -> Conns \union {None}]
  /\ clean \in [Clients -> BOOLEAN]
  /\ answer \in [Calls -> Returned]
  /\ conns \in 0 .. MaxConns
  /\ srv \in [Conns -> Servers \union {0}]
  /\ inbox \in [Conns -> Seq(Calls)]
  /\ outbox \in [Conns -> Seq(Response)]
  /\ copen \in [Conns -> BOOLEAN]
  /\ hpc \in [Conns -> {"new", "recv", "dispatch", "wait", "reply", "closed"}]
  /\ lines \in [Conns -> Seq(Calls)]
  /\ server \in Servers \union {0}
  /\ running \in [Servers -> BOOLEAN]
  /\ timer \in [Servers -> BOOLEAN]
  /\ queue \in [Servers -> Seq(Calls)]
  /\ mpc \in {"idle", "starting", "running"}
  /\ job \in Calls \union {None}
  /\ response \in [Calls -> Outcomes \union {"none"}]
  /\ via \in [Calls -> Conns \union {None}]
  /\ log \in Seq(Calls \X {"main", "connection"})

\* A command changes the document once: no retry, restart or timeout makes its
\* handler run again.
RunsAtMostOnce ==
  \A i, j \in 1 .. Len(log) : log[i][1] = log[j][1] => i = j

\* The commands sent over one connection run in the order they were sent: giving
\* up on one, at either end, never lets a later one overtake it.
RunInOrder ==
  \A i, j \in 1 .. Len(log) :
    i < j /\ via[log[i][1]] = via[log[j][1]] => log[i][1] < log[j][1]

\* As long as no read timed out on its connection, a client reads the response
\* of its own call, although messages carry no number.
OwnAnswer ==
  \A k \in Clients :
    ClientAt(k, "read") /\ clean[k] /\ outbox[sock[k]] # <<>>
      => Head(outbox[sock[k]])[1] = cur[k]

\* Clients, addon and what may go wrong between them keep what a caller relies on.
Contract == INSTANCE BridgeContract
KeepsBridgeContract == Contract!Spec

\* Every call of send_command returns or raises.
CallReturns == \A k \in Clients : ~ClientAt(k, "idle") ~> ClientAt(k, "idle")

Ran(n) == \E i \in 1 .. Len(log) : log[i][1] = n

Queued(n, s) == \E i \in 1 .. Len(queue[s]) : queue[s][i] = n

\* A command that has become a job runs, whatever the jobs before it did and
\* whoever gave up on it, unless the addon is stopped.
QueueServed == \A n \in Calls, s \in Servers : Queued(n, s) ~> Ran(n) \/ ~timer[s]
=============================================================================
