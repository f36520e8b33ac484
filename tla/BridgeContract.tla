--------------------------- MODULE BridgeContract ---------------------------
(***************************************************************************)
(* What send_command promises a caller, whatever times out, breaks or is   *)
(* restarted on the way to FreeCAD: calls go over a connection one at a    *)
(* time and are run in that order, each once at the most and only if it    *)
(* was sent.  What a call returns is an outcome its handler has had, and   *)
(* of its own command, unless an earlier call over the same connection     *)
(* timed out; then it is that of an earlier call, still in order and each  *)
(* once.  A call that times out or loses its connection may be run or not, *)
(* before or after it has returned.                                        *)
(***************************************************************************)
EXTENDS Naturals, Sequences

CONSTANTS
  Calls,      \* calls of send_command, numbers in the order they are made
  Conns,      \* connections
  None        \* no connection

VARIABLES
  via,        \* via[n]: the connection call n was sent over, or None
  response,   \* response[n]: the outcome of its handler, "none" before
  answer,     \* answer[n]: what it returned: <<m, outcome of m>>, or <<0, failure>>
  log         \* the handlers run so far: <<call, thread>>

vars == <<via, response, answer, log>>

Failed(why) == <<0, why>>
Pending == Failed("none")

Init ==
  /\ via = [n \in Calls |-> None]
  /\ response = [n \in Calls |-> "none"]
  /\ answer = [n \in Calls |-> Pending]
  /\ log = <<>>

Before(n, c) == {m \in Calls : m # n /\ via[m] = c}

\* The call before has returned, and has not found the connection broken.
Send(n, c) ==
  /\ answer[n] = Pending /\ via[n] = None
  /\ \A m \in Before(n, c) : m < n /\ answer[m] \notin {Pending, Failed("lost")}
  /\ via' = [via EXCEPT ![n] = c]
  /\ UNCHANGED <<response, answer, log>>

Run(n, outcome, thread) ==
  /\ via[n] # None
  /\ response[n] = "none"
  /\ \A m \in Before(n, via[n]) : response[m] # "none" => m < n
  /\ response' = [response EXCEPT ![n] = outcome]
  /\ log' = Append(log, <<n, thread>>)
  /\ UNCHANGED <<via, answer>>

Fail(n, why) ==
  /\ answer[n] = Pending
  /\ why = "unreachable" => via[n] = None
  /\ why = "timed out" => via[n] # None
  /\ answer' = [answer EXCEPT ![n] = Failed(why)]
  /\ UNCHANGED <<via, response, log>>

Answer(n, m, outcome) ==
  /\ answer[n] = Pending
  /\ via[n] # None /\ via[m] = via[n]
  /\ outcome # "timeout" => response[m] = outcome
  /\ \A l \in Before(n, via[n]) : answer[l][1] < m
  /\ m # n => m < n /\ \E l \in Before(n, via[n]) : answer[l] = Failed("timed out")
  /\ answer' = [answer EXCEPT ![n] = <<m, outcome>>]
  /\ UNCHANGED <<via, response, log>>

Next ==
  \E n \in Calls :
    \/ \E c \in Conns : Send(n, c)
    \/ \E outcome \in {"result", "error"}, thread \in {"main", "connection"} : Run(n, outcome, thread)
    \/ \E why \in {"unreachable", "lost", "timed out"} : Fail(n, why)
    \/ \E m \in Calls, outcome \in {"result", "error", "timeout"} : Answer(n, m, outcome)

Spec == Init /\ [][Next]_vars
=============================================================================
