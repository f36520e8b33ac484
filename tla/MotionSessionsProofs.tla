------------------------ MODULE MotionSessionsProofs ------------------------
(***************************************************************************)
(* Tool calls against an engine keep their types, answer with what was     *)
(* asked and leave no session behind, for any number of calls and of       *)
(* restarts of the engine and with every fault.  The invariant says where  *)
(* a call is and what it is about (CallInv), which request or response is  *)
(* on the way when no read has timed out (PairInv), what the engine holds  *)
(* of the call (EngineInv, HeldInv) and what a response says about that    *)
(* (SaidInv).                                                              *)
(***************************************************************************)
EXTENDS MotionSessions, SequenceTheorems, TLAPS

-----------------------------------------------------------------------------
(* Types.                                                                  *)

Lines == Commands \cup {"hello"}
RequestNow == [cmd: Lines, id: 1..calls]
ResponseNow == [of: Lines, err: {"no", "notfound", "error"}, id: 1..calls]

OfRobot == {"teleopCommand", "teleopState", "teleopStop"}
ToRobot == {"teleop_command", "teleop_state", "teleop_stop"}
OfRun == {"simulate_start", "simulate_status", "simulate_stop"}

\* A call is about its own run, or a robot that is active; it has a socket for as
\* long as its run is in the engine, and while it reads.
CallInv ==
  /\ req \in Seq(RequestNow) /\ rsp \in Seq(ResponseNow)
  /\ pc # "idle" => calls # 0 /\ calls \notin active
  /\ pc \in OfRun \cup {"simulate"} => tool = "simulate"
  /\ pc = "teleop_start" => tool = "teleopStart"
  /\ pc \in ToRobot => tool \in OfRobot
  /\ tool \in OfRobot => sid \in active
  /\ tool \in {"simulate", "teleopStart"} /\ pc \notin {"simulate_status", "simulate_stop"} => sid = 0
  /\ pc \in {"simulate_status", "simulate_stop"} => sid # 0
  /\ pc \in OfRun => sock # "none"
  /\ out => pc # "idle" /\ sock # "none" /\ (pc = "gate" => asks > 0)

TInv == TypeOK /\ CallInv

LEMMA Constants == MaxCalls \in Nat /\ MaxStarts \in Nat /\ TeleopAsks \subseteq 2..4
BY CallsAssumption

\* What a call that goes on, or ends, is about.
LEMMA NowIsTyped ==
  ASSUME TypeOK
  PROVE  Seq(RequestNow) \subseteq Seq(Request) /\ Seq(ResponseNow) \subseteq Seq(Response)
<1>1. RequestNow \subseteq Request /\ ResponseNow \subseteq Response
  BY Constants DEF TypeOK, RequestNow, ResponseNow, Request, Response, Lines
<1> QED
  BY <1>1, SeqMonotonic

LEMMA InitTypes == Init => TInv
<1> SUFFICES ASSUME Init PROVE TInv
  OBVIOUS
<1>1. req \in Seq(RequestNow) /\ rsp \in Seq(ResponseNow) /\ req \in Seq(Request) /\ rsp \in Seq(Response)
  BY EmptySeq DEF Init
<1>2. NoResult \in Results
  BY Constants DEF NoResult, Results
<1>3. out \in BOOLEAN /\ late \in BOOLEAN
  BY DEF Init
<1>4. TypeOK
  BY <1>1, <1>2, <1>3, Constants DEF Init, TypeOK, Sockets
<1>5. CallInv
  BY <1>1 DEF Init, CallInv, OfRun, ToRobot, OfRobot
<1> QED
  BY <1>4, <1>5 DEF TInv

LEMMA BeginTypes ==
  ASSUME TInv, NEW t \in Tools, NEW n \in 0..4, NEW s \in 0..calls, Begin(t, n, s),
         t \in OfRobot => s \in active, t \notin OfRobot => s = 0
  PROVE  TInv'
<1>1. calls' \in 1..MaxCalls /\ calls' = calls + 1
  BY Constants DEF Begin, TInv, TypeOK
<1>2. RequestNow \subseteq RequestNow' /\ ResponseNow \subseteq ResponseNow'
  BY <1>1, Constants DEF RequestNow, ResponseNow, TInv, TypeOK
<1>3. req' \in Seq(RequestNow') /\ rsp' \in Seq(ResponseNow')
  BY <1>2, SeqMonotonic DEF Begin, TInv, CallInv, sockVars
<1>4. NoResult \in Results
  BY Constants DEF NoResult, Results
<1>5. TypeOK'
  BY <1>1, <1>4, Constants DEF Begin, TInv, TypeOK, CallInv, Commands, sockVars, engineVars, Tools
<1>6. CallInv'
  BY <1>1, <1>3, Constants DEF Begin, TInv, TypeOK, CallInv, sockVars, OfRun, ToRobot, OfRobot, Commands, Starts, Tools
<1> QED
  BY <1>5, <1>6 DEF TInv

\* What may happen to the rest at a step of the client.
ClientFrame ==
  /\ UNCHANGED engineVars
  /\ sock' \in Sockets /\ hello' \in {"none", "caps", "other"} /\ late' \in BOOLEAN
  /\ req' \in Seq(RequestNow) /\ rsp' \in Seq(ResponseNow)

LEMMA FrameTypes ==
  ASSUME TypeOK, ClientFrame, UNCHANGED calls
  PROVE  /\ req' \in Seq(Request) /\ rsp' \in Seq(Response)
         /\ req' \in Seq(RequestNow)' /\ rsp' \in Seq(ResponseNow)'
<1>1. RequestNow' = RequestNow /\ ResponseNow' = ResponseNow
  BY DEF RequestNow, ResponseNow
<1> QED
  BY <1>1, NowIsTyped DEF ClientFrame

LEMMA AskedTypes ==
  ASSUME TInv, pc = "gate", asks > 0, Asked, ClientFrame, UNCHANGED <<active, result>>
  PROVE  TInv'
<1>1. out' \in BOOLEAN
  BY DEF Asked
<1>2. TypeOK'
  BY <1>1, FrameTypes, Constants DEF TInv, TypeOK, Asked, ClientFrame, engineVars
<1>3. CallInv'
  BY FrameTypes, Constants DEF TInv, TypeOK, CallInv, Asked, OfRun, ToRobot
<1> QED
  BY <1>2, <1>3 DEF TInv

LEMMA EndTypes ==
  ASSUME TInv, End, ClientFrame, active' \subseteq 1..calls, result' \in Results
  PROVE  TInv'
<1>1. out' \in BOOLEAN
  BY DEF End
<1>2. TypeOK'
  BY <1>1, FrameTypes, Constants DEF TInv, TypeOK, End, ClientFrame, engineVars, Tools
<1>3. CallInv'
  BY FrameTypes, Constants DEF TInv, TypeOK, CallInv, End, OfRun, ToRobot, OfRobot
<1> QED
  BY <1>2, <1>3 DEF TInv

LEMMA FailsTypes ==
  ASSUME TInv, Fails, ClientFrame, UNCHANGED <<active, result>>, pc = "gate" => asks > 0
  PROVE  TInv'
<1>1. active \subseteq 1..calls /\ result \in Results
  BY DEF TInv, TypeOK
<1> QED
  BY <1>1, AskedTypes, EndTypes DEF Fails

LEMMA ThenTypes ==
  ASSUME TInv, pc \in OfRun, NEW c \in {"simulate_status", "simulate_stop"}, NEW s \in 1..calls, Then(c, s),
         ClientFrame, UNCHANGED <<active, result, sock>>
  PROVE  TInv'
<1>1. out' \in BOOLEAN
  BY DEF Then
<1>2. TypeOK'
  BY <1>1, FrameTypes, Constants DEF TInv, TypeOK, CallInv, Then, ClientFrame, engineVars, Commands, OfRun
<1>3. CallInv'
  BY FrameTypes, Constants DEF TInv, TypeOK, CallInv, Then, OfRun, ToRobot, OfRobot, Starts
<1> QED
  BY <1>2, <1>3 DEF TInv

LEMMA TakesTypes ==
  ASSUME TInv, Takes
  PROVE  /\ rsp' \in Seq(ResponseNow) /\ Reply \in ResponseNow /\ Reply.id \in 1..calls
         /\ pc # "idle" /\ sock # "none" /\ (pc = "gate" => asks > 0)
         /\ UNCHANGED <<sock, late, req, engineVars>>
<1>1. rsp' \in Seq(ResponseNow) /\ Reply \in ResponseNow
  BY HeadTailProperties DEF TInv, CallInv, Takes, Reply
<1> QED
  BY <1>1 DEF TInv, CallInv, Takes, ResponseNow

LEMMA AnswerTypes ==
  ASSUME TInv, NEW due \in 0..calls, NEW run \in 0..calls, Answers(due, run)
  PROVE  End /\ result' \in Results
<1>1. late \in BOOLEAN
  BY DEF TInv, TypeOK
<1>2. (~late) \in BOOLEAN
  BY <1>1, Zenon
<1>3. due \in 0..MaxCalls /\ run \in 0..MaxCalls
  BY Constants DEF TInv, TypeOK
<1>4. End /\ result' = [due |-> due, run |-> run, sure |-> ~late]
  BY Zenon DEF Answers
<1>5. [due |-> due, run |-> run, sure |-> ~late] \in Results
  BY <1>2, <1>3, Zenon DEF Results
<1> QED
  BY <1>4, <1>5, Zenon

LEMMA ReadTypes == TInv /\ Read => TInv'
<1> SUFFICES ASSUME TInv, Read PROVE TInv'
  OBVIOUS
<1>1. Takes
  BY DEF Read, ReadHello, ReadError, ReadStart, ReadStatus, ReadSamples, ReadTeleop
<1>2. sock' = sock /\ late' = late /\ req' = req /\ UNCHANGED engineVars
  BY <1>1, Zenon DEF Takes
<1>3. hello' \in {"none", "caps", "other"}
  BY DEF TInv, TypeOK, Read, ReadHello, ReadError, ReadStart, ReadStatus, ReadSamples, ReadTeleop
<1>4. sock' \in Sockets /\ req' \in Seq(RequestNow)
  BY <1>2 DEF TInv, TypeOK, CallInv
<1>4a. late' \in BOOLEAN
  BY <1>2, Zenon DEF TInv, TypeOK
<1>5. ClientFrame
  BY <1>1, <1>2, <1>3, <1>4, <1>4a, TakesTypes, Zenon DEF ClientFrame
<1>6. active \subseteq 1..calls /\ result \in Results
  BY DEF TInv, TypeOK
<1>7. Reply.id \in 1..calls
  BY <1>1, TakesTypes
<1>8. calls \in 0..calls /\ Reply.id \in 0..calls /\ 0 \in 0..calls /\ sid \in 0..calls
  BY <1>7, Constants DEF TInv, TypeOK
<1>9. CASE ReadHello
  BY <1>5, <1>1, <1>9, TakesTypes, AskedTypes DEF ReadHello
<1>10. CASE ReadError
  BY <1>5, <1>6, <1>10, EndTypes DEF ReadError
<1>11. CASE ReadStart
  <2>1. CASE End /\ UNCHANGED <<active, result>>
    BY <2>1, <1>5, <1>6, EndTypes
  <2>2. CASE pc = "simulate_start" /\ Then("simulate_status", Reply.id) /\ UNCHANGED <<active, result>>
    BY <2>2, <1>2, <1>5, <1>7, ThenTypes DEF OfRun
  <2>3. CASE Answers(calls, Reply.id) /\ active' = active \cup {Reply.id}
    <3>1. End /\ result' \in Results
      BY <2>3, <1>8, AnswerTypes
    <3>2. active' \subseteq 1..calls
      BY <2>3, <1>6, <1>7
    <3> QED
      BY <3>1, <3>2, <1>5, EndTypes
  <2> QED
    BY <2>1, <2>2, <2>3, <1>11 DEF ReadStart
<1>12. CASE ReadStatus
  <2>1. sid \in 1..calls /\ pc = "simulate_status"
    BY <1>12 DEF ReadStatus, TInv, TypeOK, CallInv
  <2>2. Then(IF Ok /\ Reply.of = "simulate_status" THEN "simulate_stop" ELSE pc, sid) /\ UNCHANGED <<active, result>>
    BY <1>12, <2>1 DEF ReadStatus
  <2> QED
    BY <2>1, <2>2, <1>2, <1>5, ThenTypes DEF OfRun
<1>13. CASE ReadSamples
  <2>1. End /\ result' \in Results /\ active' = active
    BY <1>13, <1>8, AnswerTypes DEF ReadSamples
  <2> QED
    BY <2>1, <1>5, <1>6, EndTypes
<1>14. CASE ReadTeleop
  <2>1. End /\ result' \in Results
    BY <1>14, <1>8, AnswerTypes DEF ReadTeleop
  <2>2. active' \subseteq 1..calls
    BY <1>14, <1>6 DEF ReadTeleop
  <2> QED
    BY <2>1, <2>2, <1>5, EndTypes
<1> QED
  BY <1>9, <1>10, <1>11, <1>12, <1>13, <1>14 DEF Read

LEMMA ClientTypes == TInv /\ ClientStep => TInv'
<1> SUFFICES ASSUME TInv, ClientStep PROVE TInv'
  OBVIOUS
<1>1. req \in Seq(RequestNow) /\ rsp \in Seq(ResponseNow) /\ <<>> \in Seq(RequestNow) /\ <<>> \in Seq(ResponseNow)
  BY EmptySeq DEF TInv, CallInv
<1>2. /\ sock \in Sockets /\ hello \in {"none", "caps", "other"} /\ late \in BOOLEAN
      /\ active \subseteq 1..calls /\ result \in Results
  BY Zenon DEF TInv, TypeOK
<1>3. CASE Connect
  <2>1. sock' \in Sockets
    BY <1>2, <1>3 DEF Connect, Sockets, sockVars
  <2>2. hello' \in {"none", "caps", "other"}
    BY <1>2, <1>3 DEF Connect, sockVars
  <2>3. late' \in BOOLEAN
    BY <1>2, <1>3, Zenon DEF Connect, sockVars
  <2>4. req' \in Seq(RequestNow) /\ rsp' \in Seq(ResponseNow)
    BY <1>1, <1>3 DEF Connect, sockVars
  <2>5. ClientFrame /\ UNCHANGED <<active, result>>
    BY <2>1, <2>2, <2>3, <2>4, <1>3, Zenon DEF ClientFrame, Connect
  <2>6. CASE Fails
    BY <2>5, <2>6, <1>3, FailsTypes DEF Connect
  <2>7. CASE UNCHANGED callVars /\ sock' # "none"
    BY <2>5, <2>7, FrameTypes DEF TInv, TypeOK, CallInv, ClientFrame, callVars, engineVars, OfRun, ToRobot, OfRobot
  <2> QED
    BY <2>6, <2>7, <1>3 DEF Connect
<1>4. CASE UseCached
  <2>1. ClientFrame
    BY <1>1, <1>2, <1>4, Zenon DEF ClientFrame, UseCached, sockVars
  <2> QED
    BY <2>1, <1>4, FrameTypes DEF UseCached, TInv, TypeOK, CallInv, ClientFrame, engineVars, sockVars, OfRun, ToRobot, OfRobot
<1>5. CASE Refuse
  <2>1. ClientFrame /\ End /\ UNCHANGED <<active, result>>
    BY <1>1, <1>2, <1>5, Zenon DEF ClientFrame, Refuse, sockVars
  <2> QED
    BY <2>1, <1>2, EndTypes
<1>6. CASE PassGate
  <2>1. ClientFrame
    BY <1>1, <1>2, <1>6, Zenon DEF ClientFrame, PassGate, sockVars
  <2>2. tool \in Tools /\ ~out
    BY <1>6 DEF PassGate, TInv, TypeOK, CallInv
  <2>3. /\ pc' \in {"simulate_start", "simulate", "teleop_start", "teleop_command", "teleop_state", "teleop_stop"}
        /\ pc' = "simulate_start" => tool = "simulate" /\ sock # "none"
        /\ pc' = "simulate" => tool = "simulate"
        /\ pc' = "teleop_start" => tool = "teleopStart"
        /\ pc' \in ToRobot => tool \in OfRobot
    BY <1>6, <2>2 DEF PassGate, Tools, OfRobot, ToRobot
  <2>4. TypeOK'
    BY <2>1, <2>3, <1>6, FrameTypes DEF PassGate, TInv, TypeOK, ClientFrame, engineVars, sockVars, Commands, Starts
  <2>5. CallInv'
    BY <2>1, <2>2, <2>3, <1>6, FrameTypes DEF PassGate, TInv, TypeOK, CallInv, ClientFrame, engineVars, sockVars, OfRun, ToRobot, OfRobot
  <2> QED
    BY <2>4, <2>5 DEF TInv
<1>7. CASE Send
  <2>1. late' \in BOOLEAN /\ UNCHANGED <<hello, late, rsp, active, engineVars, result>>
    BY <1>2, <1>7, Zenon DEF Send
  <2>2. sock' \in Sockets
    BY <1>2, <1>7 DEF Send, Sockets
  <2>3. [cmd |-> Sending, id |-> IF sid = 0 THEN calls ELSE sid] \in RequestNow
    <3>1. calls \in 1..calls /\ sid \in 0..calls
      BY <1>7, Constants DEF Send, TInv, TypeOK, CallInv
    <3>2. Sending \in Lines
      BY <1>7 DEF Send, TInv, TypeOK, Sending, Lines
    <3> QED
      BY <3>1, <3>2, Constants DEF RequestNow, TInv, TypeOK
  <2>4. req' \in Seq(RequestNow)
    BY <1>1, <1>7, <2>3, AppendProperties DEF Send
  <2>5. ClientFrame
    BY <1>1, <1>2, <2>1, <2>2, <2>4, Zenon DEF ClientFrame
  <2>6. CASE Fails
    BY <2>1, <2>5, <2>6, <1>7, FailsTypes DEF Send
  <2>7. CASE out' = TRUE /\ UNCHANGED <<calls, tool, pc, asks, sid, sock>>
    <3>1. out' \in BOOLEAN
      BY <2>7
    <3>2. TypeOK'
      BY <3>1, <2>1, <2>5, <2>7, <1>7, FrameTypes DEF Send, TInv, TypeOK, ClientFrame, engineVars
    <3>3. CallInv'
      BY <2>1, <2>5, <2>7, <1>7, FrameTypes DEF Send, TInv, TypeOK, CallInv, ClientFrame, engineVars, OfRun, ToRobot, OfRobot
    <3> QED
      BY <3>2, <3>3 DEF TInv
  <2> QED
    BY <2>6, <2>7, <1>7 DEF Send
<1>8. CASE Read
  BY <1>8, ReadTypes
<1>9. CASE TimeOut
  <2>1. ClientFrame /\ Fails /\ UNCHANGED <<active, result>>
    BY <1>1, <1>2, <1>9, Zenon DEF ClientFrame, TimeOut
  <2>2. pc = "gate" => asks > 0
    BY <1>9 DEF TimeOut, TInv, CallInv
  <2> QED
    BY <2>1, <2>2, FailsTypes
<1>10. CASE Closed
  <2>1. sock' \in Sockets
    BY <1>10 DEF Closed, Sockets
  <2>2. ClientFrame /\ Fails /\ UNCHANGED <<active, result>>
    BY <1>1, <1>2, <1>10, <2>1, Zenon DEF ClientFrame, Closed
  <2>3. pc = "gate" => asks > 0
    BY <1>10 DEF Closed, TInv, CallInv
  <2> QED
    BY <2>2, <2>3, FailsTypes
<1> QED
  BY <1>3, <1>4, <1>5, <1>6, <1>7, <1>8, <1>9, <1>10 DEF ClientStep

LEMMA EngineTypes ==
  ASSUME TInv, Handle \/ Stop \/ LeaveThread \/ Die \/ Start
  PROVE  TInv'
<1>1. /\ req \in Seq(RequestNow) /\ rsp \in Seq(ResponseNow) /\ <<>> \in Seq(RequestNow)
      /\ late \in BOOLEAN /\ out \in BOOLEAN
  BY EmptySeq, Zenon DEF TInv, CallInv, TypeOK
<1>2. UNCHANGED <<callVars, active, hello, late, result>>
  BY Zenon DEF Handle, Stop, LeaveThread, Die, Start, Break, sockVars
<1>3. late' \in BOOLEAN /\ out' \in BOOLEAN
  BY <1>1, <1>2, Zenon DEF callVars
<1>4. /\ sock' \in Sockets /\ engine' \in {"up", "stopping", "down"} /\ starts' \in 0..MaxStarts
      /\ (sock = "none" <=> sock' = "none")
  BY Constants DEF Handle, Stop, LeaveThread, Die, Start, Break, sockVars, Sockets, TInv, TypeOK, engineVars
<1>5. ASSUME Break PROVE req' \in Seq(RequestNow) /\ rsp' \in Seq(ResponseNow)
  <2>1. PICK n \in 0..Len(rsp) : rsp' = SubSeq(rsp, 1, n)
    BY <1>5 DEF Break
  <2>2. \A i \in 1..n : i \in 1..Len(rsp)
    BY <1>1, LenProperties
  <2> QED
    BY <1>1, <1>5, <2>1, <2>2, SubSeqProperties DEF Break
<1>6. ASSUME Handle
      PROVE  req' \in Seq(RequestNow) /\ rsp' \in Seq(ResponseNow) /\ sims' \subseteq 1..calls /\ teleops' \subseteq 1..calls
  <2>1. Head(req) \in RequestNow /\ req' \in Seq(RequestNow)
    BY <1>1, <1>6, HeadTailProperties DEF Handle
  <2>2. PICK err \in {"no", "notfound", "error"} :
          /\ Handled(Head(req), err, sims', teleops')
          /\ rsp' = Append(rsp, [of |-> Head(req).cmd, err |-> err, id |-> Head(req).id])
    BY <1>6 DEF Handle
  <2>3. [of |-> Head(req).cmd, err |-> err, id |-> Head(req).id] \in ResponseNow
    BY <2>1 DEF RequestNow, ResponseNow
  <2>4. rsp' \in Seq(ResponseNow)
    BY <1>1, <2>2, <2>3, AppendProperties
  <2>5. sims' \subseteq 1..calls /\ teleops' \subseteq 1..calls
    BY <2>1, <2>2 DEF Handled, RequestNow, TInv, TypeOK
  <2> QED
    BY <2>1, <2>4, <2>5
<1>7. req' \in Seq(RequestNow) /\ rsp' \in Seq(ResponseNow)
  BY <1>1, <1>5, <1>6 DEF Stop, LeaveThread, Die, Start, sockVars
<1>8. sims' \subseteq 1..calls /\ teleops' \subseteq 1..calls
  BY <1>6 DEF Stop, LeaveThread, Die, Start, engineVars, TInv, TypeOK
<1>9. /\ req' \in Seq(Request) /\ rsp' \in Seq(Response)
      /\ req' \in Seq(RequestNow)' /\ rsp' \in Seq(ResponseNow)'
  <2>1. RequestNow' = RequestNow /\ ResponseNow' = ResponseNow
    BY <1>2 DEF RequestNow, ResponseNow, callVars
  <2> QED
    BY <1>7, <2>1, NowIsTyped DEF TInv
<1>10. TypeOK'
  BY <1>2, <1>3, <1>4, <1>8, <1>9 DEF TInv, TypeOK, callVars
<1>11. CallInv'
  BY <1>2, <1>4, <1>9 DEF TInv, CallInv, callVars, OfRun, ToRobot, OfRobot
<1> QED
  BY <1>10, <1>11 DEF TInv

LEMMA TypeStep == TInv /\ [Next]_vars => TInv'
<1> SUFFICES ASSUME TInv, [Next]_vars PROVE TInv'
  OBVIOUS
<1>1. 1..2 \subseteq 0..4 /\ TeleopAsks \subseteq 0..4 /\ 0 \in 0..calls /\ active \subseteq 0..calls
      /\ 0 \in 0..4 /\ 1 \in 0..4
  BY Constants DEF TInv, TypeOK
<1>2. CASE Simulate
  <2>1. PICK n \in 1..2 : Begin("simulate", n, 0)
    BY <1>2 DEF Simulate
  <2> QED
    BY <1>1, <2>1, BeginTypes DEF Tools, OfRobot
<1>3. CASE TeleopStart
  <2>1. PICK n \in TeleopAsks : Begin("teleopStart", n, 0)
    BY <1>3 DEF TeleopStart
  <2> QED
    BY <1>1, <2>1, BeginTypes DEF Tools, OfRobot
<1>4. CASE TeleopCommand
  <2>1. PICK s \in active : Begin("teleopCommand", 1, s)
    BY <1>4 DEF TeleopCommand
  <2> QED
    BY <1>1, <2>1, BeginTypes DEF Tools, OfRobot
<1>5. CASE TeleopRead
  <2>1. PICK s \in active, t \in {"teleopState", "teleopStop"} : Begin(t, 0, s)
    BY <1>5 DEF TeleopRead
  <2> QED
    BY <1>1, <2>1, BeginTypes DEF Tools, OfRobot
<1>6. CASE ClientStep
  BY <1>6, ClientTypes
<1>7. CASE Handle \/ Stop \/ LeaveThread \/ Die \/ Start
  BY <1>7, EngineTypes
<1>8. CASE UNCHANGED vars
  <2>1. TypeOK'
    BY <1>8 DEF TInv, TypeOK, vars, callVars, sockVars, engineVars
  <2>2. CallInv'
    BY <1>8 DEF TInv, CallInv, vars, callVars, sockVars, engineVars, RequestNow, ResponseNow
  <2> QED
    BY <2>1, <2>2 DEF TInv
<1> QED
  BY <1>2, <1>3, <1>4, <1>5, <1>6, <1>7, <1>8 DEF Next

\* Every variable keeps its type, and between two tool calls nothing of the last
\* one is left in the server (TypeOK), whatever the engine did meanwhile.
THEOREM TypeCorrect == Spec => []TypeOK
<1>1. TInv => TypeOK
  BY DEF TInv
<1> QED
  BY InitTypes, TypeStep, <1>1, PTL DEF Spec

-----------------------------------------------------------------------------
(* Requests and responses.                                                 *)

Target == IF sid = 0 THEN calls ELSE sid

\* While no read has timed out one request or its response is on the way when the
\* client reads, and nothing otherwise.
PairInv == ~late =>
  /\ ~out => req = <<>> /\ rsp = <<>>
  /\ Len(req) + Len(rsp) <= 1
  /\ req # <<>> => Head(req) = [cmd |-> Sending, id |-> Target]
  /\ rsp # <<>> => Head(rsp).of = Sending /\ Head(rsp).id = Target
  /\ pc \in {"simulate_status", "simulate_stop"} => sid = calls

-----------------------------------------------------------------------------
(* Sessions.                                                               *)

\* Only over the one socket does an engine get sessions, and it loses the socket
\* only when it goes, with its sessions.
EngineInv ==
  /\ engine = "up" => sock # "unserved"
  /\ engine = "up" /\ sock # "served" => sims = {} /\ teleops = {}
  /\ engine = "down" => sims = {} /\ teleops = {} /\ sock \in {"none", "broken"}
  /\ sock # "served" => req = <<>>

\* What the engine holds is active or belongs to the call, which knows of it or is
\* about to read of it.
HeldInv == ~late /\ engine = "up" =>
  /\ \A n \in sims : n = calls /\ pc \in OfRun
  /\ \A n \in teleops : n \in active \/ (n = calls /\ pc = "teleop_start")
  /\ pc \in Starts /\ calls \in sims \cup teleops => out /\ req = <<>> /\ rsp # <<>>

\* What a response says of its session.
SaidInv == ~late /\ rsp # <<>> =>
  /\ Head(rsp).err = "error" => pc \in {"simulate", "teleop_command"} \cup Starts
  /\ Head(rsp).err = "notfound" => pc \notin {"gate", "simulate"} \cup Starts
  /\ Head(rsp).err = "error" /\ pc \in Starts /\ engine = "up" => Target \notin sims \cup teleops
  /\ Head(rsp).err = "notfound" => Target \notin IF tool = "simulate" THEN sims ELSE teleops
  /\ Head(rsp).err = "no" /\ pc = "simulate_stop" => Target \notin sims
  /\ Head(rsp).err = "no" /\ pc = "teleop_stop" => Target \notin teleops

IInv == TInv /\ EngineInv /\ PairInv /\ HeldInv /\ SaidInv /\ AnswersOwnRun

LEMMA InitHolds == Init => IInv
<1> SUFFICES ASSUME Init PROVE IInv
  OBVIOUS
<1>1. TInv
  BY InitTypes
<1>2. EngineInv /\ HeldInv /\ SaidInv /\ AnswersOwnRun
  BY DEF Init, EngineInv, HeldInv, SaidInv, AnswersOwnRun, NoResult
<1>3. PairInv
  BY DEF Init, PairInv
<1> QED
  BY <1>1, <1>2, <1>3 DEF IInv

\* The response that is taken is the one that was asked for, and the only one.
LEMMA Taken ==
  ASSUME IInv, Takes, ~late
  PROVE  /\ req' = <<>> /\ rsp' = <<>> /\ req = <<>> /\ rsp # <<>> /\ ~late'
         /\ Reply = Head(rsp) /\ Reply.of = Sending /\ Reply.id = Target
<1>1. rsp \in Seq(ResponseNow) /\ req \in Seq(RequestNow)
  BY DEF IInv, TInv, CallInv
<1>2. Len(rsp) = 1 /\ Len(req) = 0
  <2>1. Len(rsp) \in Nat /\ Len(req) \in Nat
    BY <1>1, LenProperties
  <2>2. Len(rsp) # 0
    BY <1>1, EmptySeq DEF Takes
  <2>3. Len(req) + Len(rsp) <= 1
    BY DEF IInv, PairInv
  <2>4. \A a, b \in Nat : b # 0 /\ a + b <= 1 => b = 1 /\ a = 0
    OBVIOUS
  <2> QED
    BY <2>1, <2>2, <2>3, <2>4, Zenon
<1>3. req = <<>>
  BY <1>1, <1>2, EmptySeq
<1>4. rsp' = <<>>
  BY <1>1, <1>2, HeadTailProperties, EmptySeq DEF Takes
<1> QED
  BY <1>3, <1>4 DEF Takes, Reply, IInv, PairInv

\* What the end of a connection leaves of a stream.
LEMMA Broken ==
  ASSUME TInv, Break
  PROVE  rsp' = <<>> \/ (rsp # <<>> /\ Head(rsp') = Head(rsp) /\ Len(rsp') <= Len(rsp))
<1>1. rsp \in Seq(ResponseNow) /\ Len(rsp) \in Nat
  BY LenProperties DEF TInv, CallInv
<1>2. PICK n \in 0..Len(rsp) : rsp' = SubSeq(rsp, 1, n)
  BY DEF Break
<1>3. \A i \in 1..n : i \in 1..Len(rsp)
  BY <1>1
<1>4. /\ rsp' \in Seq(ResponseNow) /\ Len(rsp') = n
      /\ \A i \in 1..n : rsp'[i] = rsp[i]
  BY <1>1, <1>2, <1>3, SubSeqProperties
<1>5. CASE n = 0
  BY <1>4, <1>5, EmptySeq
<1>6. CASE n # 0
  <2>1. 1 \in 1..n /\ n <= Len(rsp) /\ rsp # <<>> /\ rsp' # <<>>
    BY <1>1, <1>4, <1>6, EmptySeq
  <2>2. Head(rsp') = rsp'[1] /\ Head(rsp) = rsp[1]
    BY <1>1, <1>4, <2>1, HeadTailProperties
  <2> QED
    BY <1>4, <2>1, <2>2
<1> QED
  BY <1>5, <1>6

-----------------------------------------------------------------------------
(* Steps.  Where the client goes on without the socket, and nothing was on *)
(* the way unless a read had timed out.                                    *)

LEMMA QuietStep ==
  ASSUME IInv, UNCHANGED <<sockVars, engineVars, active>>, ~out, pc \notin OfRun \cup {"teleop_start"},
         pc' \notin {"simulate_status", "simulate_stop"}, result' \in {result, NoResult}, ~out',
         pc' = "gate" \/ (calls' = calls /\ pc # "idle")
  PROVE  EngineInv' /\ PairInv' /\ HeldInv' /\ SaidInv' /\ AnswersOwnRun'
<1>1. EngineInv'
  BY DEF IInv, EngineInv, sockVars, engineVars
<1>2. ~late => req = <<>> /\ rsp = <<>> /\ Len(req) = 0 /\ Len(rsp) = 0
  BY DEF IInv, PairInv
<1>3. PairInv'
  BY <1>2 DEF PairInv, sockVars
<1>4. ~late /\ engine = "up" => sims = {} /\ \A n \in teleops : n \in active
  BY DEF IInv, HeldInv
<1>5. pc' \in Starts => calls' = calls /\ calls \notin active
  BY DEF IInv, TInv, CallInv, TypeOK, Starts
<1>6. HeldInv'
  BY <1>4, <1>5 DEF HeldInv, sockVars, engineVars, Starts
<1>7. SaidInv'
  BY <1>2 DEF SaidInv, sockVars
<1>8. AnswersOwnRun'
  BY DEF IInv, AnswersOwnRun, NoResult
<1> QED
  BY <1>1, <1>3, <1>6, <1>7, <1>8

\* Without the session of the engine that was, nothing is held.
LEMMA LostStep ==
  ASSUME IInv, UNCHANGED <<engineVars, active, result>>,
         engine # "up" \/ sock # "served",
         engine = "up" => sock' # "unserved",
         engine = "down" => sock' = "none",
         late' \/ (req' = <<>> /\ rsp' = <<>>), sock' # "served" => req' = <<>>,
         ~out', pc' \notin {"simulate_status", "simulate_stop"}
  PROVE  EngineInv' /\ PairInv' /\ HeldInv' /\ SaidInv' /\ AnswersOwnRun'
<1>1. EngineInv' /\ HeldInv'
  BY DEF IInv, EngineInv, HeldInv, engineVars
<1>2. PairInv' /\ SaidInv'
  BY DEF PairInv, SaidInv
<1> QED
  BY <1>1, <1>2 DEF IInv, AnswersOwnRun

LEMMA CallStep ==
  ASSUME IInv, Simulate \/ TeleopStart \/ TeleopCommand \/ TeleopRead \/ UseCached \/ Refuse \/ PassGate
  PROVE  IInv'
<1>1. TInv'
  BY TypeStep DEF IInv, Next, ClientStep
<1>2. /\ UNCHANGED <<sockVars, engineVars, active>>
      /\ pc \in {"idle", "gate"} /\ ~out /\ result' \in {result, NoResult}
      /\ pc' \notin {"simulate_status", "simulate_stop"}
      /\ pc' = "gate" \/ (calls' = calls /\ pc # "idle")
  BY DEF Simulate, TeleopStart, TeleopCommand, TeleopRead, Begin, UseCached, Refuse, End, PassGate, IInv, TInv, TypeOK,
         CallInv
<1>3. ~out'
  BY <1>2 DEF Simulate, TeleopStart, TeleopCommand, TeleopRead, Begin, UseCached, Refuse, End, PassGate
<1>4. EngineInv' /\ PairInv' /\ HeldInv' /\ SaidInv' /\ AnswersOwnRun'
  BY <1>2, <1>3, QuietStep DEF OfRun
<1> QED
  BY <1>1, <1>4 DEF IInv

\* A call that loses its socket, and one that gets another.
LEMMA SocketStep ==
  ASSUME IInv, Connect \/ Closed \/ (Send /\ out' # TRUE)
  PROVE  IInv'
<1>1. TInv'
  BY TypeStep DEF IInv, Next, ClientStep
<1>2. CASE Connect
  <2>1. /\ UNCHANGED <<engineVars, active, result>> /\ ~out' /\ sock = "none"
        /\ pc' \notin {"simulate_status", "simulate_stop"}
    BY <1>2 DEF Connect, Fails, Asked, End, callVars, IInv, TInv, CallInv, OfRun
  <2>2. /\ engine = "up" => sock' # "unserved"
        /\ engine = "down" => sock' = "none"
        /\ sock' # "served" => req' = <<>>
    BY <1>2 DEF Connect, sockVars, IInv, EngineInv
  <2>3. late' \/ (req' = <<>> /\ rsp' = <<>>)
    BY <1>2 DEF Connect, sockVars, IInv, PairInv
  <2> QED
    BY <1>1, <2>1, <2>2, <2>3, LostStep DEF IInv
<1>3. CASE Closed
  <2>1. /\ UNCHANGED <<engineVars, active, result>> /\ ~out' /\ sock = "broken" /\ sock' = "none"
        /\ pc' \notin {"simulate_status", "simulate_stop"}
        /\ req' = <<>> /\ rsp' = <<>>
    BY <1>3 DEF Closed, Fails, Asked, End, IInv, EngineInv
  <2> QED
    BY <1>1, <2>1, LostStep DEF IInv
<1>4. CASE Send /\ out' # TRUE
  <2>1. /\ UNCHANGED <<engineVars, active, result>> /\ ~out' /\ sock = "broken" /\ sock' = "none"
        /\ pc' \notin {"simulate_status", "simulate_stop"}
        /\ req' = <<>> /\ UNCHANGED <<late, rsp>>
    BY <1>4 DEF Send, Fails, Asked, End, IInv, EngineInv
  <2>2. late' \/ (req' = <<>> /\ rsp' = <<>>)
    BY <1>4, <2>1 DEF Send, IInv, PairInv
  <2> QED
    BY <1>1, <2>1, <2>2, LostStep DEF IInv
<1> QED
  BY <1>2, <1>3, <1>4

LEMMA SendStep ==
  ASSUME IInv, Send, out' = TRUE
  PROVE  IInv'
<1>1. TInv'
  BY TypeStep DEF IInv, Next, ClientStep
<1>2. /\ ~out /\ sock # "none"
      /\ UNCHANGED <<calls, tool, pc, asks, sid, sock, hello, late, rsp, active, engineVars, result>>
      /\ req' = IF sock = "served" THEN Append(req, [cmd |-> Sending, id |-> Target]) ELSE req
  BY DEF Send, Target, Fails, Asked, End
<1>3. ~late => req = <<>> /\ rsp = <<>>
  BY <1>2 DEF IInv, PairInv
<1>4. EngineInv'
  BY <1>2 DEF IInv, EngineInv, engineVars
<1>5. Sending' = Sending /\ Target' = Target
  BY <1>2 DEF Sending, Target
<1>6. ASSUME ~late PROVE req' = <<>> \/ req' = <<[cmd |-> Sending, id |-> Target]>>
  BY <1>2, <1>3, <1>6
<1>7. ASSUME ~late
      PROVE  Len(req') + Len(rsp') <= 1 /\ (req' # <<>> => Head(req') = [cmd |-> Sending, id |-> Target])
  BY <1>2, <1>3, <1>6, <1>7
<1>8. PairInv'
  BY <1>2, <1>3, <1>5, <1>7 DEF PairInv, IInv
<1>9. HeldInv'
  BY <1>2 DEF IInv, HeldInv, engineVars
<1>10. SaidInv'
  BY <1>2, <1>3 DEF SaidInv
<1>11. AnswersOwnRun'
  BY <1>2 DEF IInv, AnswersOwnRun
<1> QED
  BY <1>1, <1>4, <1>8, <1>9, <1>10, <1>11 DEF IInv

LEMMA TimeOutStep ==
  ASSUME IInv, TimeOut
  PROVE  IInv'
<1>1. TInv'
  BY TypeStep DEF IInv, Next, ClientStep
<1>2. late' = TRUE /\ UNCHANGED <<sock, req, engineVars, result>>
  BY DEF TimeOut
<1> QED
  BY <1>1, <1>2 DEF IInv, EngineInv, PairInv, HeldInv, SaidInv, AnswersOwnRun, engineVars

\* A response is taken: what is needed is what the next step is about, and that
\* every session is still known.
LEMMA ReadEffect ==
  ASSUME IInv, Takes, TInv',
         ~late /\ pc' \in {"simulate_status", "simulate_stop"} => sid' = calls',
         ~late /\ engine = "up" => HeldInv',
         AnswersOwnRun'
  PROVE  IInv'
<1>1. UNCHANGED <<sock, late, req, engineVars>>
  BY DEF Takes
<1>2. EngineInv'
  BY <1>1 DEF IInv, EngineInv, engineVars
<1>3. ~late => req' = <<>> /\ rsp' = <<>> /\ Len(req') = 0 /\ Len(rsp') = 0
  BY Taken
<1>4. PairInv' /\ SaidInv'
  BY <1>1, <1>3 DEF PairInv, SaidInv
<1>5. HeldInv'
  BY <1>1 DEF HeldInv, engineVars
<1> QED
  BY <1>2, <1>4, <1>5 DEF IInv

\* Which run the call is about, if nothing was late.
LEMMA TargetIs ==
  ASSUME IInv, pc # "idle"
  PROVE  /\ pc \in Starts \cup {"simulate"} => Target = calls
         /\ pc \in ToRobot => sid \in active /\ Target = sid
         /\ ~late /\ pc \in {"simulate_status", "simulate_stop"} => sid = calls /\ Target = calls
  BY DEF IInv, TInv, TypeOK, CallInv, PairInv, Target, Starts, OfRun, ToRobot, OfRobot

LEMMA ReadHelloStep == ASSUME IInv, ReadHello PROVE IInv'
<1>1. TInv'
  BY TypeStep DEF IInv, Next, ClientStep, Read
<1>2. /\ Takes /\ pc = "gate" /\ pc' = "gate" /\ UNCHANGED <<late, engineVars, active, result, calls>>
  BY DEF ReadHello, Asked, Takes
<1>3. ~late /\ engine = "up" => HeldInv'
  BY <1>2 DEF IInv, HeldInv, engineVars, OfRun, Starts
<1>4. AnswersOwnRun'
  BY <1>2 DEF IInv, AnswersOwnRun
<1> QED
  BY <1>1, <1>2, <1>3, <1>4, ReadEffect

LEMMA ReadErrorStep == ASSUME IInv, ReadError PROVE IInv'
<1>1. TInv'
  BY TypeStep DEF IInv, Next, ClientStep, Read
<1>2. /\ Takes /\ pc # "gate" /\ pc # "idle" /\ Reply.err # "no" /\ pc' = "idle"
      /\ UNCHANGED <<late, engineVars, result, calls>>
      /\ active' = active \ Forgotten
  BY DEF ReadError, End, Takes, Ok, IInv, TInv, CallInv
<1>3. ASSUME ~late, engine = "up" PROVE HeldInv'
  <2>1. Reply = Head(rsp) /\ rsp # <<>> /\ Reply.err \in {"notfound", "error"}
    BY <1>2, <1>3, Taken, TakesTypes DEF IInv, ResponseNow
  <2>2. /\ \A n \in sims : n = calls /\ pc \in OfRun
        /\ \A n \in teleops : n \in active \/ (n = calls /\ pc = "teleop_start")
    BY <1>3 DEF IInv, HeldInv
  <2>3. /\ Reply.err = "error" => pc \in {"simulate", "teleop_command"} \cup Starts
        /\ Reply.err = "notfound" => pc \notin {"gate", "simulate"} \cup Starts
        /\ Reply.err = "error" /\ pc \in Starts => Target \notin sims \cup teleops
        /\ Reply.err = "notfound" => Target \notin IF tool = "simulate" THEN sims ELSE teleops
    BY <1>3, <2>1 DEF IInv, SaidInv
  <2>4. sims = {}
    BY <1>2, <1>3, <2>1, <2>2, <2>3, TargetIs DEF OfRun, Starts, IInv, TInv, CallInv
  <2>5. \A n \in teleops : n \in active
    BY <1>2, <2>1, <2>2, <2>3, TargetIs DEF Starts
  <2>6. \A n \in Forgotten : n \notin teleops
    <3>1. SUFFICES ASSUME Forgotten # {} PROVE sid \notin teleops
      BY DEF Forgotten
    <3>2. tool \notin {"simulate", "teleopStart"} /\ Reply.err = "notfound"
      BY <3>1 DEF Forgotten
    <3>3. tool \in OfRobot
      BY <1>2, <3>2 DEF IInv, TInv, TypeOK, Tools, OfRobot
    <3>4. Target = sid
      BY <3>3 DEF IInv, TInv, TypeOK, CallInv, Target
    <3> QED
      BY <2>3, <3>2, <3>4
  <2> QED
    BY <1>2, <2>4, <2>5, <2>6 DEF HeldInv, engineVars, Starts
<1>4. AnswersOwnRun'
  BY <1>2 DEF IInv, AnswersOwnRun
<1> QED
  BY <1>1, <1>2, <1>3, <1>4, ReadEffect

LEMMA ReadStartStep == ASSUME IInv, ReadStart PROVE IInv'
<1>1. TInv'
  BY TypeStep DEF IInv, Next, ClientStep, Read
<1>2. Takes /\ pc \in Starts /\ Reply.err = "no" /\ UNCHANGED <<late, engineVars, calls>>
  BY DEF ReadStart, Takes, Ok, Then, Answers, End
<1>3. ASSUME ~late PROVE Reply.of \in HasSession /\ Reply.id = calls
  BY <1>2, <1>3, Taken, TargetIs DEF Sending, Starts, HasSession
<1>4. CASE pc = "simulate_start" /\ ~late
  <2>1. pc' = "simulate_status" /\ sid' = calls /\ UNCHANGED <<active, result>>
    BY <1>3, <1>4 DEF ReadStart, Then
  <2>2. engine = "up" => HeldInv'
    BY <1>2, <1>4, <2>1 DEF IInv, HeldInv, engineVars, OfRun, Starts
  <2>3. AnswersOwnRun'
    BY <2>1 DEF IInv, AnswersOwnRun
  <2> QED
    BY <1>1, <1>2, <2>1, <2>2, <2>3, ReadEffect
<1>5. CASE pc = "teleop_start" /\ ~late
  <2>1. pc' = "idle" /\ active' = active \cup {calls} /\ result' = [due |-> calls, run |-> calls, sure |-> ~late]
    BY <1>3, <1>5 DEF ReadStart, Answers, End
  <2>2. engine = "up" => HeldInv'
    BY <1>2, <1>5, <2>1 DEF IInv, HeldInv, engineVars, OfRun, Starts
  <2>3. AnswersOwnRun'
    BY <2>1 DEF AnswersOwnRun
  <2> QED
    BY <1>1, <1>2, <2>1, <2>2, <2>3, ReadEffect
<1>6. CASE late
  <2>1. result' = result \/ result' = [due |-> calls, run |-> Reply.id, sure |-> ~late]
    BY DEF ReadStart, Answers
  <2>2. CASE result' = result
    BY <1>1, <1>2, <1>6, <2>2, ReadEffect DEF IInv, AnswersOwnRun
  <2>3. CASE result' = [due |-> calls, run |-> Reply.id, sure |-> ~late]
    <3>1. result'.sure = ~late
      BY <2>3
    <3>2. AnswersOwnRun'
      BY <1>6, <3>1, Zenon DEF AnswersOwnRun
    <3> QED
      BY <1>1, <1>2, <1>6, <3>2, ReadEffect
  <2> QED
    BY <2>1, <2>2, <2>3
<1> QED
  BY <1>2, <1>4, <1>5, <1>6 DEF Starts

LEMMA ReadStatusStep == ASSUME IInv, ReadStatus PROVE IInv'
<1>1. TInv'
  BY TypeStep DEF IInv, Next, ClientStep, Read
<1>2. /\ Takes /\ pc = "simulate_status" /\ pc' \in {"simulate_status", "simulate_stop"}
      /\ UNCHANGED <<late, engineVars, calls, sid, active, result>>
  BY DEF ReadStatus, Takes, Then
<1>3. ~late => sid' = calls'
  BY <1>2, TargetIs
<1>4. ~late /\ engine = "up" => HeldInv'
  BY <1>2 DEF IInv, HeldInv, engineVars, OfRun, Starts
<1>5. AnswersOwnRun'
  BY <1>2 DEF IInv, AnswersOwnRun
<1> QED
  BY <1>1, <1>2, <1>3, <1>4, <1>5, ReadEffect

LEMMA ReadSamplesStep == ASSUME IInv, ReadSamples PROVE IInv'
<1>1. TInv'
  BY TypeStep DEF IInv, Next, ClientStep, Read
<1>2. /\ Takes /\ pc \in {"simulate", "simulate_stop"} /\ Reply.err = "no" /\ pc' = "idle"
      /\ result' = [due |-> calls, run |-> IF Reply.of \in HasSamples THEN Reply.id ELSE 0, sure |-> ~late]
      /\ UNCHANGED <<late, engineVars, calls, active>>
  BY DEF ReadSamples, Takes, Answers, End, Ok
<1>3. ~late => Reply.of \in HasSamples /\ Reply.id = calls
  BY <1>2, Taken, TargetIs DEF Sending, HasSamples
<1>4. ASSUME ~late, engine = "up" PROVE HeldInv'
  <2>1. sims = {}
    BY <1>2, <1>4, Taken, TargetIs DEF IInv, HeldInv, SaidInv, OfRun
  <2> QED
    BY <1>2, <1>4, <2>1 DEF IInv, HeldInv, engineVars, Starts
<1>5. AnswersOwnRun'
  BY <1>2, <1>3 DEF AnswersOwnRun
<1> QED
  BY <1>1, <1>2, <1>4, <1>5, ReadEffect

LEMMA ReadTeleopStep == ASSUME IInv, ReadTeleop PROVE IInv'
<1>1. TInv'
  BY TypeStep DEF IInv, Next, ClientStep, Read
<1>2. /\ Takes /\ pc \in ToRobot /\ Reply.err = "no" /\ pc' = "idle"
      /\ result' = [due |-> sid, run |-> Reply.id, sure |-> ~late]
      /\ active' = IF pc = "teleop_stop" THEN active \ {sid} ELSE active
      /\ UNCHANGED <<late, engineVars, calls>>
  BY DEF ReadTeleop, Takes, Answers, End, Ok, ToRobot
<1>3. ~late => Reply.id = sid
  BY <1>2, Taken, TargetIs DEF ToRobot
<1>4. ASSUME ~late, engine = "up" PROVE HeldInv'
  <2>1. sims = {} /\ \A n \in teleops : n \in active
    BY <1>2, <1>4 DEF IInv, HeldInv, OfRun, ToRobot
  <2>2. pc = "teleop_stop" => sid \notin teleops
    BY <1>2, <1>4, Taken, TargetIs DEF IInv, SaidInv, ToRobot
  <2> QED
    BY <1>2, <1>4, <2>1, <2>2 DEF HeldInv, engineVars, Starts
<1>5. AnswersOwnRun'
  BY <1>2, <1>3 DEF AnswersOwnRun
<1> QED
  BY <1>1, <1>2, <1>4, <1>5, ReadEffect

LEMMA HandleStep == ASSUME IInv, Handle PROVE IInv'
<1>1. TInv'
  BY TypeStep DEF IInv, Next
<1>2. PICK err \in {"no", "notfound", "error"} :
        /\ Handled(Head(req), err, sims', teleops')
        /\ rsp' = Append(rsp, [of |-> Head(req).cmd, err |-> err, id |-> Head(req).id])
  BY DEF Handle
<1>3. /\ sock = "served" /\ req # <<>> /\ req' = Tail(req)
      /\ UNCHANGED <<calls, tool, pc, asks, sid, out, active, sock, hello, late, engine, starts, result>>
  BY DEF Handle, callVars
<1>4. EngineInv'
  BY <1>3 DEF IInv, EngineInv
<1>5. AnswersOwnRun'
  BY <1>3 DEF IInv, AnswersOwnRun
<1>6. ASSUME ~late PROVE PairInv' /\ HeldInv' /\ SaidInv'
  <2> DEFINE reply == [of |-> Sending, err |-> err, id |-> Target]
  <2>1. req \in Seq(RequestNow) /\ rsp \in Seq(ResponseNow)
    BY DEF IInv, TInv, CallInv
  <2>2. Len(req) = 1 /\ Len(rsp) = 0
    <3>1. Len(req) \in Nat /\ Len(rsp) \in Nat /\ Len(req) # 0
      BY <1>3, <2>1, LenProperties, EmptySeq
    <3>2. Len(req) + Len(rsp) <= 1
      BY <1>6 DEF IInv, PairInv
    <3>3. \A a, b \in Nat : a # 0 /\ a + b <= 1 => a = 1 /\ b = 0
      OBVIOUS
    <3> QED
      BY <3>1, <3>2, <3>3, Zenon
  <2>3. rsp = <<>> /\ req' = <<>>
    BY <1>3, <2>1, <2>2, EmptySeq, HeadTailProperties
  <2>4. out /\ pc # "idle" /\ Head(req) = [cmd |-> Sending, id |-> Target]
    BY <1>3, <1>6 DEF IInv, PairInv, TInv, CallInv
  <2>5. rsp' = <<reply>> /\ Handled([cmd |-> Sending, id |-> Target], err, sims', teleops')
    BY <1>2, <2>3, <2>4
  <2>6. rsp' # <<>> /\ Head(rsp') = reply /\ Len(rsp') = 1 /\ Len(req') = 0
    BY <2>3, <2>5
  <2>7. Sending' = Sending /\ Target' = Target
    BY <1>3 DEF Sending, Target
  <2>8. PairInv'
    BY <1>3, <1>6, <2>3, <2>4, <2>6, <2>7 DEF IInv, PairInv
  <2>9. Sending = IF pc = "gate" THEN "hello" ELSE pc
    BY DEF Sending
  <2>10. /\ pc \in OfRun \cup {"simulate"} => tool = "simulate"
         /\ pc = "teleop_start" => tool = "teleopStart"
         /\ pc \in ToRobot => tool \in OfRobot
         /\ pc \in Commands \cup {"gate"}
    BY <2>4 DEF IInv, TInv, TypeOK, CallInv
  <2>11. /\ pc \in Starts \cup {"simulate"} => Target = calls
         /\ pc \in ToRobot => Target \in active
         /\ pc \in {"simulate_status", "simulate_stop"} => Target = calls
    BY <1>6, <2>4, TargetIs
  <2>12. engine = "up" =>
           /\ \A n \in sims : n = calls /\ pc \in OfRun
           /\ \A n \in teleops : n \in active \/ (n = calls /\ pc = "teleop_start")
           /\ pc \in Starts => calls \notin sims \cup teleops
    BY <1>3, <1>6 DEF IInv, HeldInv
  <2>13. HeldInv'
    BY <1>3, <2>3, <2>4, <2>5, <2>6, <2>9, <2>10, <2>11, <2>12 DEF HeldInv, Handled, OfRun, ToRobot, Starts
  <2>14. SaidInv'
    BY <1>3, <2>5, <2>6, <2>7, <2>9, <2>10, <2>11, <2>12 DEF SaidInv, Handled, OfRun, ToRobot, OfRobot, Starts, Commands
  <2> QED
    BY <2>8, <2>13, <2>14
<1>7. PairInv' /\ HeldInv' /\ SaidInv'
  BY <1>3, <1>6 DEF PairInv, HeldInv, SaidInv
<1> QED
  BY <1>1, <1>4, <1>5, <1>7 DEF IInv

\* The engine goes, or comes back.
LEMMA EngineStep == ASSUME IInv, Stop \/ LeaveThread \/ Die \/ Start PROVE IInv'
<1>1. TInv'
  BY TypeStep DEF IInv, Next
<1>2. /\ UNCHANGED <<calls, tool, pc, asks, sid, out, active, hello, late, result>>
      /\ sims' \subseteq sims /\ teleops' \subseteq teleops
  BY DEF Stop, LeaveThread, Die, Start, callVars, sockVars, engineVars, Break
<1>3. EngineInv' /\ (engine' = "up" => sims' = {} /\ teleops' = {})
  BY DEF Stop, LeaveThread, Die, Start, sockVars, engineVars, Break, IInv, TInv, TypeOK, EngineInv, Sockets
<1>4. HeldInv'
  BY DEF Stop, LeaveThread, Die, Start, sockVars, engineVars, IInv, EngineInv, HeldInv
<1>5. Sending' = Sending /\ Target' = Target
  BY <1>2 DEF Sending, Target
<1>6. PairInv' /\ SaidInv'
  <2>1. CASE UNCHANGED <<req, rsp>>
    BY <1>2, <1>3, <1>5, <2>1 DEF IInv, PairInv, SaidInv
  <2>2. CASE req' = <<>> /\ rsp' = <<>>
    <3>1. Len(req') = 0 /\ Len(rsp') = 0
      BY <2>2
    <3> QED
      BY <1>2, <1>3, <2>2, <3>1 DEF IInv, PairInv, SaidInv
  <2>3. CASE req' = <<>> /\ rsp # <<>> /\ Head(rsp') = Head(rsp) /\ Len(rsp') <= Len(rsp)
    <3>1. Len(req') = 0 /\ Len(req) \in Nat /\ Len(rsp) \in Nat /\ Len(rsp') \in Nat
      BY <1>1, <2>3, LenProperties DEF IInv, TInv, CallInv
    <3>2. \A a, b, c \in Nat : a + b <= 1 /\ c <= b => 0 + c <= 1
      OBVIOUS
    <3>3. ~late => Len(req') + Len(rsp') <= 1
      <4>1. ~late => Len(req) + Len(rsp) <= 1
        BY DEF IInv, PairInv
      <4> QED
        BY <2>3, <3>1, <3>2, <4>1, Zenon
    <3>4. ~late => out
      BY <2>3 DEF IInv, PairInv
    <3> QED
      BY <1>2, <1>3, <1>5, <2>3, <3>3, <3>4 DEF IInv, PairInv, SaidInv
  <2>4. Break => req' = <<>>
    BY DEF Break
  <2> QED
    BY <2>1, <2>2, <2>3, <2>4, Broken DEF Stop, LeaveThread, Die, Start, sockVars, IInv
<1>7. AnswersOwnRun'
  BY <1>2 DEF IInv, AnswersOwnRun
<1> QED
  BY <1>1, <1>3, <1>4, <1>6, <1>7 DEF IInv

LEMMA Step == IInv /\ [Next]_vars => IInv'
<1> SUFFICES ASSUME IInv, [Next]_vars PROVE IInv'
  OBVIOUS
<1>1. CASE Send
  BY <1>1, SocketStep, SendStep
<1>2. CASE Read
  BY <1>2, ReadHelloStep, ReadErrorStep, ReadStartStep, ReadStatusStep, ReadSamplesStep, ReadTeleopStep DEF Read
<1>3. CASE UNCHANGED vars
  <2>1. TInv'
    BY TypeStep DEF IInv
  <2>2. EngineInv' /\ PairInv' /\ HeldInv' /\ SaidInv' /\ AnswersOwnRun'
    BY <1>3 DEF IInv, EngineInv, PairInv, HeldInv, SaidInv, AnswersOwnRun, vars, callVars, sockVars, engineVars, Sending, Target
  <2> QED
    BY <2>1, <2>2 DEF IInv
<1> QED
  BY <1>1, <1>2, <1>3, CallStep, SocketStep, TimeOutStep, HandleStep, EngineStep DEF Next, ClientStep

LEMMA Invariant == Spec => []IInv
  BY InitHolds, Step, PTL DEF Spec

-----------------------------------------------------------------------------

\* Requests and responses are paired by their order alone (EngineClient.send_command
\* reads the next line), and still a tool answers ok only with its own run, as long
\* as no read on the socket has timed out.
THEOREM OwnRunAnswered == Spec => []AnswersOwnRun
<1>1. IInv => AnswersOwnRun
  BY DEF IInv
<1> QED
  BY Invariant, <1>1, PTL

\* No failure along _simulate_session or motion_teleop_start leaves a session in a
\* live engine that the server does not know.
THEOREM NoSessionLeft == Spec => []SessionsAccounted
<1>1. IInv => SessionsAccounted
  BY DEF IInv, HeldInv, SessionsAccounted, OfRun
<1> QED
  BY Invariant, <1>1, PTL
=============================================================================
