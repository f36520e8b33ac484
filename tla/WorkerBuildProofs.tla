------------------------- MODULE WorkerBuildProofs -------------------------
(***************************************************************************)
(* The client and the worker keep the contract of a dispatch, and what a   *)
(* build has ended with is not undone, for every set of parts, any number  *)
(* of rounds, any parallelism and every fault.  The invariant follows a    *)
(* task from its submission to its answer (TaskInv, PartInv), and the      *)
(* files of a part whose build no other build overlaps (OwnInv).           *)
(***************************************************************************)
EXTENDS WorkerBuild, TLAPS

-----------------------------------------------------------------------------
(* The invariant.                                                          *)

\* A thread's record says it is building, or canceled, until the thread has ended;
\* the tasks of later rounds are not there yet.
TaskInv(t) ==
  /\ t[2] > round => status[t] = "none"
  /\ phase[t] \in Building => status[t] \in {"working", "canceled"}
  /\ phase[t] = "ended" => status[t] \in {"completed", "failed"}
  /\ status[t] = "completed" => t \in built

\* A coroutine submits its task once, and believes only what the server has said.
PartInv(p) ==
  /\ pc[p] \notin Calls => Silent(p)
  /\ pc[p] # "idle" \/ outcome[p] # "none" => round # 0
  /\ pc[p] = "queued" \/ (pc[p] = "send" /\ Silent(p)) => status[Mine(p)] = "none"
  /\ pc[p] = "get" /\ reply[p].is = "completed" => Mine(p) \in built

OwnArtifacts == [step |-> round, meta |-> round]

\* A build of this round that began alone has the part's files to itself.
OwnInv(p) ==
  round # 0 /\ Mine(p) \notin clashed =>
    /\ phase[Mine(p)] # "none" =>
         \A u \in Tasks : u[1] = p /\ u # Mine(p) => phase[u] \notin Building
    /\ phase[Mine(p)] \in {"exported", "written", "packaged"} => files[p].step = round
    /\ phase[Mine(p)] \in {"written", "packaged"} => files[p].meta = round
    /\ phase[Mine(p)] = "packaged" \/ status[Mine(p)] = "completed" =>
         artifacts[Mine(p)] = OwnArtifacts
    /\ pc[p] = "get" /\ reply[p].is = "completed" => reply[p].art = OwnArtifacts
    /\ outcome[p] = "success" => delivered[p] = OwnArtifacts

IInv ==
  /\ TypeOK
  /\ \A t \in Tasks : TaskInv(t)
  /\ \A p \in Parts : PartInv(p) /\ OwnInv(p)

-----------------------------------------------------------------------------

LEMMA NoReplyType ==
  /\ NoArtifacts \in Artifacts
  /\ NoReply \in Reply /\ NoReply.is = "none" /\ NoReply.art = NoArtifacts
BY RoundsAssumption DEF NoArtifacts, Artifacts, NoReply, Reply, Status

LEMMA TaskType ==
  ASSUME TypeOK, NEW p \in Parts, round # 0
  PROVE  Mine(p) \in Tasks /\ Mine(p)[1] = p /\ Mine(p)[2] = round
BY RoundsAssumption DEF TypeOK, Mine, Tasks

LEMMA InitInv == Init => IInv
<1> SUFFICES ASSUME Init PROVE IInv
  OBVIOUS
<1> USE NoReplyType, RoundsAssumption DEF Init
<1>1. TypeOK
  <2>1. pc \in [Parts -> Labels] /\ outcome \in [Parts -> Outcomes]
    BY DEF Labels, Outcomes
  <2>2. status \in [Tasks -> Status] /\ phase \in [Tasks -> Phases]
    BY DEF Status, Phases
  <2>3. \A t \in Tasks : phase[t] = "none" <=> status[t] = "none"
    OBVIOUS
  <2> QED
    BY <2>1, <2>2, <2>3 DEF TypeOK
<1>2. \A t \in Tasks : TaskInv(t)
  BY DEF TaskInv, Building
<1>3. \A p \in Parts : PartInv(p) /\ OwnInv(p)
  BY DEF PartInv, OwnInv, Silent
<1> QED
  BY <1>1, <1>2, <1>3 DEF IInv

-----------------------------------------------------------------------------
(* Types.                                                                  *)

LEMMA TypeStep ==
  ASSUME TypeOK, \A p \in Parts : PartInv(p), [Next]_vars
  PROVE  TypeOK'
<1> USE NoReplyType, RoundsAssumption DEF TypeOK
<1>1. CASE Dispatch
  BY <1>1 DEF Dispatch, serverVars, histVars, Labels, Outcomes
<1>2. ASSUME NEW p \in Parts, Acquire(p) \/ Poll(p) \/ TimeOut(p)
      PROVE  TypeOK'
  BY <1>2 DEF Acquire, Poll, TimeOut, serverVars, histVars, Labels
<1>3. ASSUME NEW p \in Parts, Receive(p)
      PROVE  TypeOK'
  <2>1. reply' \in [Parts -> Reply] /\ UNCHANGED <<round, serverVars, histVars>>
    BY <1>3 DEF Receive
  <2>2. delivered' \in [Parts -> Artifacts]
    BY <1>3 DEF Receive, EndsWith, Reply
  <2>3. pc' \in [Parts -> Labels] /\ outcome' \in [Parts -> Outcomes]
    BY <1>3 DEF Receive, EndsWith, Labels, Outcomes
  <2> QED
    BY <2>1, <2>2, <2>3 DEF serverVars, histVars
<1>4. ASSUME NEW p \in Parts, HandleSend(p)
      PROVE  TypeOK'
  <2>1. Mine(p) \in Tasks
    BY <1>4, TaskType DEF HandleSend, PartInv
  <2>2. reply' \in [Parts -> Reply]
    BY <1>4 DEF HandleSend, Answer, Reply
  <2>3. status' \in [Tasks -> Status] /\ phase' \in [Tasks -> Phases] /\ clashed' \subseteq Tasks
    BY <1>4, <2>1 DEF HandleSend, Status, Phases
  <2>4. \A t \in Tasks : phase'[t] = "none" <=> status'[t] = "none"
    BY <1>4, <2>1 DEF HandleSend
  <2> QED
    BY <1>4, <2>2, <2>3, <2>4 DEF HandleSend
<1>5. ASSUME NEW p \in Parts, HandleGet(p)
      PROVE  TypeOK'
  <2>1. Mine(p) \in Tasks
    BY <1>5, TaskType DEF HandleGet, PartInv
  <2>2. reply' \in [Parts -> Reply]
    BY <1>5, <2>1 DEF HandleGet, Answer, Reply
  <2> QED
    BY <1>5, <2>2 DEF HandleGet, serverVars, histVars
<1>6. ASSUME NEW p \in Parts, HandleCancel(p)
      PROVE  TypeOK'
  <2>1. Mine(p) \in Tasks
    BY <1>6, TaskType DEF HandleCancel, PartInv
  <2>2. reply' \in [Parts -> Reply]
    BY <1>6 DEF HandleCancel, Answer, Reply, Status
  <2>3. status' \in [Tasks -> Status] /\ \A t \in Tasks : phase[t] = "none" <=> status'[t] = "none"
    BY <1>6, <2>1 DEF HandleCancel, Status
  <2> QED
    BY <1>6, <2>2, <2>3 DEF HandleCancel, histVars
<1>7. ASSUME NEW t \in Tasks, Export(t) \/ WriteMetadata(t)
      PROVE  TypeOK'
  <2>1. t[1] \in Parts /\ t[2] \in 0..MaxRounds
    BY DEF Tasks
  <2>2. files' \in [Parts -> Artifacts]
    BY <1>7, <2>1 DEF Export, WriteMetadata, Artifacts
  <2>3. phase' \in [Tasks -> Phases] /\ \A u \in Tasks : phase'[u] = "none" <=> status[u] = "none"
    BY <1>7 DEF Export, WriteMetadata, StepTo, Phases
  <2> QED
    BY <1>7, <2>2, <2>3 DEF Export, WriteMetadata, clientVars, histVars
<1>8. ASSUME NEW t \in Tasks, Package(t)
      PROVE  TypeOK'
  <2>1. artifacts' \in [Tasks -> Artifacts]
    BY <1>8 DEF Package, Tasks
  <2>2. phase' \in [Tasks -> Phases] /\ \A u \in Tasks : phase'[u] = "none" <=> status[u] = "none"
    BY <1>8 DEF Package, StepTo, Phases
  <2> QED
    BY <1>8, <2>1, <2>2 DEF Package, clientVars, histVars
<1>9. ASSUME NEW t \in Tasks, Complete(t) \/ BuildFails(t)
      PROVE  TypeOK'
  <2>1. /\ phase' \in [Tasks -> Phases] /\ status' \in [Tasks -> Status] /\ built' \subseteq Tasks
        /\ \A u \in Tasks : phase'[u] = "none" <=> status'[u] = "none"
    BY <1>9 DEF Complete, BuildFails, StepTo, Phases, Status, Building, histVars
  <2> QED
    BY <1>9, <2>1 DEF Complete, BuildFails, clientVars, histVars
<1>10. ASSUME NEW p \in Parts, CallBreaks(p)
       PROVE  TypeOK'
  BY <1>10 DEF CallBreaks, Answer, Reply, serverVars, histVars
<1>11. CASE WorkerRestarts
  <2>1. reply' \in [Parts -> Reply]
    BY <1>11 DEF WorkerRestarts, Reply, NoReply
  <2>2. status' \in [Tasks -> Status] /\ phase' \in [Tasks -> Phases]
    BY <1>11 DEF WorkerRestarts, Status, Phases
  <2>3. artifacts' \in [Tasks -> Artifacts] /\ \A t \in Tasks : phase'[t] = "none" <=> status'[t] = "none"
    BY <1>11 DEF WorkerRestarts
  <2> QED
    BY <1>11, <2>1, <2>2, <2>3 DEF WorkerRestarts, histVars
<1>12. CASE OrchestratorDies
  BY <1>12 DEF OrchestratorDies, serverVars, histVars, Labels, Outcomes
<1>13. CASE UNCHANGED vars
  BY <1>13 DEF vars, clientVars, serverVars, histVars
<1> QED
  BY <1>1, <1>2, <1>3, <1>4, <1>5, <1>6, <1>7, <1>8, <1>9, <1>10, <1>11, <1>12, <1>13 DEF Next

-----------------------------------------------------------------------------
(* Tasks.                                                                  *)

LEMMA TaskStep ==
  ASSUME IInv, [Next]_vars, NEW t \in Tasks
  PROVE  TaskInv(t)'
<1> USE DEF TaskInv
<1>0. TypeOK /\ TaskInv(t) /\ round \in Nat /\ t[2] \in Nat
  BY RoundsAssumption DEF IInv, TypeOK, Tasks
<1>1. ASSUME UNCHANGED <<round, status, phase, built>>
      PROVE  TaskInv(t)'
  BY <1>0, <1>1
<1>2. CASE Dispatch
  BY <1>0, <1>2 DEF Dispatch, serverVars, histVars
<1>3. ASSUME NEW p \in Parts, HandleSend(p)
      PROVE  TaskInv(t)'
  <2>1. Mine(p) \in Tasks /\ Mine(p)[2] = round
    BY <1>0, <1>3, TaskType DEF IInv, PartInv, HandleSend
  <2> QED
    BY <1>0, <1>3, <2>1 DEF HandleSend, TypeOK, Building
<1>4. ASSUME NEW p \in Parts, HandleCancel(p)
      PROVE  TaskInv(t)'
  <2>1. Mine(p) \in Tasks /\ Mine(p)[2] = round
    BY <1>0, <1>4, TaskType DEF IInv, PartInv, HandleCancel
  <2> QED
    BY <1>0, <1>4, <2>1 DEF HandleCancel, TypeOK, Final, histVars
<1>5. ASSUME NEW u \in Tasks, Export(u) \/ WriteMetadata(u) \/ Package(u)
      PROVE  TaskInv(t)'
  BY <1>0, <1>5 DEF Export, WriteMetadata, Package, StepTo, TypeOK, Building, clientVars, histVars
<1>6. ASSUME NEW u \in Tasks, Complete(u) \/ BuildFails(u)
      PROVE  TaskInv(t)'
  <2>1. status[u] # "none"
    BY <1>0, <1>6 DEF Complete, BuildFails, TypeOK, Building
  <2>2. u[2] <= round
    BY <2>1, RoundsAssumption DEF IInv, TaskInv, TypeOK, Tasks
  <2> QED
    BY <1>0, <1>6, <2>2 DEF Complete, BuildFails, StepTo, TypeOK, Building, clientVars, histVars
<1>7. CASE WorkerRestarts
  BY <1>0, <1>7 DEF WorkerRestarts, histVars, Building
<1>8. CASE \/ OrchestratorDies \/ UNCHANGED vars
           \/ \E p \in Parts : Acquire(p) \/ Poll(p) \/ TimeOut(p) \/ Receive(p)
                               \/ HandleGet(p) \/ CallBreaks(p)
  BY <1>1, <1>8 DEF OrchestratorDies, Acquire, Poll, TimeOut, Receive, HandleGet, CallBreaks, vars,
                    serverVars, histVars
<1> QED
  BY <1>2, <1>3, <1>4, <1>5, <1>6, <1>7, <1>8 DEF Next

-----------------------------------------------------------------------------
(* Coroutines.                                                             *)

\* A thread has been submitted, so its part's coroutine is past that.
LEMMA ThreadFacts ==
  ASSUME IInv, NEW t \in Tasks, phase[t] \in Building
  PROVE  status[t] # "none" /\ t[2] <= round /\ t[1] \in Parts /\ t[2] \in 1..MaxRounds
BY RoundsAssumption DEF IInv, TaskInv, TypeOK, Tasks, Building

LEMMA PartStep ==
  ASSUME IInv, [Next]_vars, NEW p \in Parts
  PROVE  PartInv(p)'
<1> USE NoReplyType DEF PartInv, Silent, Calls
<1>0. /\ TypeOK /\ PartInv(p) /\ round \in Nat
      /\ round # 0 => Mine(p) \in Tasks /\ Mine(p)[1] = p /\ Mine(p)[2] = round
  BY RoundsAssumption, TaskType DEF IInv, TypeOK
<1>1. ASSUME UNCHANGED <<round, pc, reply, outcome, status, built>>
      PROVE  PartInv(p)'
  BY <1>0, <1>1 DEF Mine
<1>2. CASE Dispatch
  <2>1. Mine(p)' = <<p, round + 1>> /\ Mine(p)' \in Tasks /\ round' = round + 1
    BY <1>0, <1>2, RoundsAssumption DEF Dispatch, Mine, Tasks, TypeOK
  <2>2. status[<<p, round + 1>>] = "none"
    BY <1>0, <2>1 DEF IInv, TaskInv
  <2> QED
    BY <1>0, <1>2, <2>1, <2>2 DEF Dispatch, serverVars
<1>3. ASSUME NEW q \in Parts, Acquire(q) \/ Poll(q) \/ TimeOut(q)
      PROVE  PartInv(p)'
  BY <1>0, <1>3 DEF Acquire, Poll, TimeOut, TypeOK, Mine, serverVars, histVars
<1>4. ASSUME NEW q \in Parts, Receive(q)
      PROVE  PartInv(p)'
  BY <1>0, <1>4 DEF Receive, EndsWith, TypeOK, Mine, serverVars, histVars
<1>5. ASSUME NEW q \in Parts, HandleSend(q)
      PROVE  PartInv(p)'
  <2>1. Mine(q) \in Tasks /\ (q # p => Mine(q) # Mine(p))
    BY <1>0, <1>5, TaskType DEF IInv, PartInv, HandleSend, Mine
  <2> QED
    BY <1>0, <1>5, <2>1 DEF HandleSend, Answer, TypeOK, Mine
<1>6. ASSUME NEW q \in Parts, HandleGet(q)
      PROVE  PartInv(p)'
  <2>1. pc[q] = "get" /\ UNCHANGED <<round, pc, status, built>>
    BY <1>6 DEF HandleGet, serverVars, histVars
  <2>2. CASE q # p
    BY <1>0, <1>6, <2>1, <2>2 DEF HandleGet, Answer, TypeOK, Mine
  <2>3. CASE q = p
    <3>1. reply'[p].is = "completed" => status[Mine(p)] = "completed"
      BY <1>0, <1>6, <2>3 DEF HandleGet, Answer, TypeOK
    <3>2. status[Mine(p)] = "completed" => Mine(p) \in built
      BY <1>0, <2>1, <2>3 DEF IInv, TaskInv
    <3> QED
      BY <1>0, <2>1, <2>3, <3>1, <3>2 DEF Mine
  <2> QED
    BY <2>2, <2>3
<1>7. ASSUME NEW q \in Parts, HandleCancel(q)
      PROVE  PartInv(p)'
  <2>1. Mine(q) \in Tasks /\ (q # p => Mine(q) # Mine(p))
    BY <1>0, <1>7, TaskType DEF IInv, PartInv, HandleCancel, Mine
  <2> QED
    BY <1>0, <1>7, <2>1 DEF HandleCancel, Answer, TypeOK, Mine, histVars
<1>8. ASSUME NEW t \in Tasks, Complete(t) \/ BuildFails(t)
      PROVE  PartInv(p)'
  <2>1. status[t] # "none" /\ UNCHANGED <<round, pc, reply, outcome>> /\ built \subseteq built'
        /\ \A u \in Tasks : status[u] = "none" => status'[u] = "none"
    BY <1>0, <1>8 DEF Complete, BuildFails, TypeOK, Building, clientVars, histVars
  <2> QED
    BY <1>0, <2>1 DEF Mine
<1>9. CASE \E t \in Tasks : Export(t) \/ WriteMetadata(t) \/ Package(t)
  BY <1>1, <1>9 DEF Export, WriteMetadata, Package, clientVars, histVars
<1>10. ASSUME NEW q \in Parts, CallBreaks(q)
       PROVE  PartInv(p)'
  BY <1>0, <1>10 DEF CallBreaks, Answer, TypeOK, Mine, serverVars, histVars
<1>11. CASE WorkerRestarts
  <2>1. /\ UNCHANGED <<round, pc, outcome, built>>
        /\ \A t \in Tasks : status'[t] = "none"
        /\ reply'[p].is = IF pc[p] \in Calls /\ reply[p].is = "none" THEN "broken" ELSE reply[p].is
    BY <1>11 DEF WorkerRestarts, histVars
  <2> QED
    BY <1>0, <2>1 DEF Mine
<1>12. CASE OrchestratorDies
  BY <1>0, <1>12 DEF OrchestratorDies
<1>13. CASE UNCHANGED vars
  BY <1>1, <1>13 DEF vars, clientVars, serverVars, histVars
<1> QED
  BY <1>2, <1>3, <1>4, <1>5, <1>6, <1>7, <1>8, <1>9, <1>10, <1>11, <1>12, <1>13 DEF Next

-----------------------------------------------------------------------------
(* A part's own build.                                                     *)

\* A step of a thread of another part, or of a thread that would overlap the build.
LEMMA OtherThread ==
  ASSUME IInv, NEW p \in Parts, round # 0, Mine(p) \notin clashed,
         NEW u \in Tasks, phase[u] \in Building, u # Mine(p)
  PROVE  u[1] # p \/ (phase[Mine(p)] = "none" /\ status[Mine(p)] = "none")
BY TaskType DEF IInv, OwnInv, TypeOK

LEMMA ThreadStep ==
  ASSUME IInv, NEW p \in Parts, NEW u \in Tasks,
         Export(u) \/ WriteMetadata(u) \/ Package(u) \/ Complete(u) \/ BuildFails(u)
  PROVE  OwnInv(p)'
<1>1. /\ UNCHANGED <<round, pc, reply, outcome, delivered, clashed>>
      /\ Mine(p)' = Mine(p) /\ OwnArtifacts' = OwnArtifacts
      /\ TypeOK /\ OwnInv(p) /\ phase[u] \in Building
      /\ phase' = [phase EXCEPT ![u] = phase'[u]]
  BY DEF Export, WriteMetadata, Package, Complete, BuildFails, StepTo, clientVars, histVars, Mine,
         OwnArtifacts, IInv, Building, TypeOK
<1>2. SUFFICES ASSUME round # 0, Mine(p) \notin clashed
               PROVE  /\ phase'[Mine(p)] # "none" =>
                           \A v \in Tasks : v[1] = p /\ v # Mine(p) => phase'[v] \notin Building
                      /\ phase'[Mine(p)] \in {"exported", "written", "packaged"} => files'[p].step = round
                      /\ phase'[Mine(p)] \in {"written", "packaged"} => files'[p].meta = round
                      /\ phase'[Mine(p)] = "packaged" \/ status'[Mine(p)] = "completed" =>
                           artifacts'[Mine(p)] = OwnArtifacts
                      /\ pc[p] = "get" /\ reply[p].is = "completed" => reply[p].art = OwnArtifacts
                      /\ outcome[p] = "success" => delivered[p] = OwnArtifacts
  BY <1>1 DEF OwnInv
<1>3. Mine(p) \in Tasks /\ Mine(p)[1] = p /\ Mine(p)[2] = round /\ round \in 0..MaxRounds
  BY <1>1, <1>2, TaskType DEF TypeOK
<1>4. /\ phase[Mine(p)] # "none" =>
           \A v \in Tasks : v[1] = p /\ v # Mine(p) => phase[v] \notin Building
      /\ phase[Mine(p)] \in {"exported", "written", "packaged"} => files[p].step = round
      /\ phase[Mine(p)] \in {"written", "packaged"} => files[p].meta = round
      /\ phase[Mine(p)] = "packaged" \/ status[Mine(p)] = "completed" =>
           artifacts[Mine(p)] = OwnArtifacts
      /\ pc[p] = "get" /\ reply[p].is = "completed" => reply[p].art = OwnArtifacts
      /\ outcome[p] = "success" => delivered[p] = OwnArtifacts
  BY <1>1, <1>2 DEF OwnInv
<1>5. CASE u # Mine(p)
  <2>1. /\ phase'[Mine(p)] = phase[Mine(p)] /\ status'[Mine(p)] = status[Mine(p)]
        /\ artifacts'[Mine(p)] = artifacts[Mine(p)]
    BY <1>1, <1>3, <1>5 DEF Export, WriteMetadata, Package, Complete, BuildFails, TypeOK
  <2>2. CASE u[1] # p
    <3>1. files'[p] = files[p]
      BY <1>1, <2>2 DEF Export, WriteMetadata, Package, Complete, BuildFails, TypeOK
    <3>2. \A v \in Tasks : v[1] = p => phase'[v] = phase[v]
      BY <1>1, <2>2 DEF TypeOK
    <3> QED
      BY <1>4, <2>1, <3>1, <3>2
  <2>3. CASE phase[Mine(p)] = "none" /\ status[Mine(p)] = "none"
    BY <1>4, <2>1, <2>3
  <2> QED
    BY <1>1, <1>2, <1>5, <2>2, <2>3, OtherThread
<1>6. CASE u = Mine(p)
  <2>1. \A v \in Tasks : v[1] = p /\ v # Mine(p) => phase'[v] \notin Building
    BY <1>1, <1>3, <1>4, <1>6 DEF TypeOK, Building
  <2>2. CASE Export(u)
    <3>1. phase'[u] = "exported" /\ status' = status /\ files'[p].step = round /\ phase[u] = "building"
      BY <1>1, <1>3, <1>6, <2>2 DEF Export, StepTo, TypeOK, Artifacts
    <3>2. status[u] # "completed"
      BY <1>1, <3>1 DEF IInv, TaskInv, Building
    <3> QED
      BY <1>4, <1>6, <2>1, <3>1, <3>2
  <2>3. CASE WriteMetadata(u)
    <3>1. /\ phase'[u] = "written" /\ status' = status /\ files'[p].meta = round
          /\ files'[p].step = files[p].step /\ phase[u] = "exported"
      BY <1>1, <1>3, <1>6, <2>3 DEF WriteMetadata, StepTo, TypeOK, Artifacts
    <3>2. status[u] # "completed"
      BY <1>1, <3>1 DEF IInv, TaskInv, Building
    <3> QED
      BY <1>4, <1>6, <2>1, <3>1, <3>2
  <2>4. CASE Package(u)
    <3>1. /\ phase'[u] = "packaged" /\ files' = files /\ artifacts'[u] = files[p]
          /\ phase[u] = "written"
      BY <1>1, <1>3, <1>6, <2>4 DEF Package, StepTo, TypeOK
    <3>2. files[p] = OwnArtifacts
      BY <1>1, <1>4, <1>6, <3>1 DEF TypeOK, Artifacts, OwnArtifacts
    <3> QED
      BY <1>4, <1>6, <2>1, <3>1, <3>2
  <2>5. CASE Complete(u)
    <3>1. phase'[u] = "ended" /\ UNCHANGED <<files, artifacts>> /\ phase[u] = "packaged"
      BY <1>1, <2>5 DEF Complete, StepTo, TypeOK
    <3> QED
      BY <1>4, <1>6, <2>1, <3>1
  <2>6. CASE BuildFails(u)
    <3>1. phase'[u] = "ended" /\ status'[u] = "failed" /\ UNCHANGED <<files, artifacts>>
      BY <1>1, <2>6 DEF BuildFails, StepTo, TypeOK
    <3> QED
      BY <1>1, <1>4, <1>6, <2>1, <3>1 DEF Building
  <2> QED
    BY <2>2, <2>3, <2>4, <2>5, <2>6
<1> QED
  BY <1>5, <1>6

LEMMA OwnStep ==
  ASSUME IInv, [Next]_vars, NEW p \in Parts
  PROVE  OwnInv(p)'
<1> USE NoReplyType
<1>0. /\ TypeOK /\ PartInv(p) /\ OwnInv(p) /\ round \in Nat
      /\ round # 0 => Mine(p) \in Tasks /\ Mine(p)[1] = p /\ Mine(p)[2] = round
  BY RoundsAssumption, TaskType DEF IInv, TypeOK
<1>1. CASE Dispatch
  <2>1. Mine(p)' = <<p, round + 1>> /\ Mine(p)' \in Tasks /\ Mine(p)'[2] = round + 1
    BY <1>0, <1>1, RoundsAssumption DEF Dispatch, Mine, Tasks, TypeOK
  <2>2. status[<<p, round + 1>>] = "none" /\ phase[<<p, round + 1>>] = "none"
    BY <1>0, <2>1 DEF IInv, TaskInv, TypeOK
  <2> QED
    BY <1>1, <2>1, <2>2 DEF Dispatch, serverVars, OwnInv
<1>2. ASSUME NEW q \in Parts, Acquire(q) \/ Poll(q) \/ TimeOut(q)
      PROVE  OwnInv(p)'
  <2>1. pc'[p] = "get" => pc[p] = "get" \/ reply[p].is = "none"
    BY <1>0, <1>2 DEF Acquire, Poll, TimeOut, TypeOK, PartInv, Silent, Calls
  <2> QED
    BY <1>0, <1>2, <2>1 DEF Acquire, Poll, TimeOut, OwnInv, OwnArtifacts, Mine, serverVars, histVars
<1>3. ASSUME NEW q \in Parts, Receive(q)
      PROVE  OwnInv(p)'
  <2>1. UNCHANGED <<round, status, phase, artifacts, files, clashed>>
    BY <1>3 DEF Receive, serverVars, histVars
  <2>2. CASE q # p
    <3>1. UNCHANGED <<pc[p], reply[p], outcome[p], delivered[p]>>
      BY <1>0, <1>3, <2>2 DEF Receive, EndsWith, TypeOK
    <3> QED
      BY <1>0, <2>1, <3>1 DEF OwnInv, OwnArtifacts, Mine
  <2>3. CASE q = p
    <3>1. reply'[p].is = "none"
      BY <1>0, <1>3, <2>3 DEF Receive, TypeOK
    <3>2. outcome'[p] = "success" =>
            \/ delivered'[p] = delivered[p] /\ outcome[p] = "success"
            \/ /\ pc[p] = "get" /\ reply[p].is = "completed"
               /\ delivered'[p] = reply[p].art
      BY <1>0, <1>3, <2>3 DEF Receive, EndsWith, TypeOK
    <3> QED
      BY <1>0, <2>1, <3>1, <3>2 DEF OwnInv, OwnArtifacts, Mine
  <2> QED
    BY <2>2, <2>3
<1>4. ASSUME NEW q \in Parts, HandleSend(q)
      PROVE  OwnInv(p)'
  <2>1. /\ UNCHANGED <<round, pc, outcome, delivered, artifacts, files>>
        /\ clashed \subseteq clashed' /\ pc[q] = "send" /\ round # 0 /\ Mine(q) \in Tasks
    BY <1>4, TaskType DEF HandleSend, IInv, PartInv
  <2>2. CASE q # p
    <3>1. Mine(q) # Mine(p) /\ Mine(q)[1] = q
      BY <2>2 DEF Mine
    <3>2. /\ status'[Mine(p)] = status[Mine(p)] /\ reply'[p] = reply[p]
          /\ \A u \in Tasks : u[1] = p => phase'[u] = phase[u]
      BY <1>0, <1>4, <2>1, <2>2, <3>1 DEF HandleSend, Answer, TypeOK
    <3> QED
      BY <1>0, <2>1, <3>2 DEF OwnInv, OwnArtifacts, Mine
  <2>3. CASE q = p
    <3>1. phase'[Mine(p)] = "building" /\ status'[Mine(p)] = "working"
      BY <1>0, <1>4, <2>1, <2>3 DEF HandleSend, TypeOK
    <3>2. Mine(p) \notin clashed' => \A u \in Tasks : u[1] = p => phase[u] \notin Building
      BY <1>4, <2>3 DEF HandleSend
    <3>3. \A u \in Tasks : u # Mine(p) => phase'[u] = phase[u]
      BY <1>0, <1>4, <2>3 DEF HandleSend, TypeOK
    <3> QED
      BY <1>0, <2>1, <2>3, <3>1, <3>2, <3>3 DEF OwnInv, OwnArtifacts, Mine
  <2> QED
    BY <2>2, <2>3
<1>5. ASSUME NEW q \in Parts, HandleGet(q)
      PROVE  OwnInv(p)'
  <2>1. UNCHANGED <<round, pc, outcome, delivered, status, phase, artifacts, files, clashed>>
    BY <1>5 DEF HandleGet, serverVars, histVars
  <2>2. CASE q # p
    <3>1. reply'[p] = reply[p]
      BY <1>0, <1>5, <2>2 DEF HandleGet, Answer, TypeOK
    <3> QED
      BY <1>0, <2>1, <3>1 DEF OwnInv, OwnArtifacts, Mine
  <2>3. CASE q = p
    <3>1. reply'[p].is = "completed" =>
            status[Mine(p)] = "completed" /\ reply'[p].art = artifacts[Mine(p)]
      BY <1>0, <1>5, <2>3 DEF HandleGet, Answer, TypeOK
    <3> QED
      BY <1>0, <2>1, <3>1 DEF OwnInv, OwnArtifacts, Mine
  <2> QED
    BY <2>2, <2>3
<1>6. ASSUME NEW q \in Parts, HandleCancel(q)
      PROVE  OwnInv(p)'
  <2>1. /\ UNCHANGED <<round, pc, outcome, delivered, phase, artifacts, files, clashed>>
        /\ status'[Mine(p)] = "completed" => status[Mine(p)] = "completed"
        /\ pc[p] = "get" => reply'[p] = reply[p]
    <3>1. UNCHANGED <<round, pc, outcome, delivered, phase, artifacts, files, clashed>>
      BY <1>6 DEF HandleCancel, histVars
    <3>2. pc[p] = "get" => reply'[p] = reply[p]
      BY <1>0, <1>6 DEF HandleCancel, Answer, TypeOK
    <3>3. Mine(q) \in Tasks /\ round # 0
      BY <1>6, TaskType DEF HandleCancel, IInv, PartInv
    <3>4. status'[Mine(p)] = "completed" => status[Mine(p)] = "completed"
      BY <1>0, <1>6, <3>3 DEF HandleCancel, TypeOK
    <3> QED
      BY <3>1, <3>2, <3>4
  <2> QED
    BY <1>0, <2>1 DEF OwnInv, OwnArtifacts, Mine
<1>7. CASE \E u \in Tasks : \/ Export(u) \/ WriteMetadata(u) \/ Package(u) \/ Complete(u)
                            \/ BuildFails(u)
  BY <1>7, ThreadStep
<1>8. ASSUME NEW q \in Parts, CallBreaks(q)
      PROVE  OwnInv(p)'
  <2>1. reply'[p] = reply[p] \/ reply'[p].is = "broken"
    BY <1>0, <1>8 DEF CallBreaks, Answer, TypeOK
  <2> QED
    BY <1>0, <1>8, <2>1 DEF CallBreaks, OwnInv, OwnArtifacts, Mine, serverVars, histVars
<1>9. CASE WorkerRestarts
  <2>1. /\ UNCHANGED <<round, pc, outcome, delivered, clashed>>
        /\ \A t \in Tasks : status'[t] = "none" /\ phase'[t] = "none"
        /\ reply'[p] = reply[p] \/ reply'[p].is = "broken"
    BY <1>9 DEF WorkerRestarts, NoReply, histVars
  <2> QED
    BY <1>0, <2>1 DEF OwnInv, OwnArtifacts, Mine
<1>10. CASE OrchestratorDies
  BY <1>0, <1>10 DEF OrchestratorDies, OwnInv, OwnArtifacts, Mine, serverVars, histVars
<1>11. CASE UNCHANGED vars
  BY <1>0, <1>11 DEF vars, OwnInv, OwnArtifacts, Mine, clientVars, serverVars, histVars
<1> QED
  BY <1>1, <1>2, <1>3, <1>4, <1>5, <1>6, <1>7, <1>8, <1>9, <1>10, <1>11 DEF Next

-----------------------------------------------------------------------------
(* The theorems.                                                           *)

LEMMA Invariance == Spec => []IInv
<1>1. IInv /\ [Next]_vars => IInv'
  <2> SUFFICES ASSUME IInv, [Next]_vars PROVE IInv'
    OBVIOUS
  <2>1. TypeOK'
    BY TypeStep DEF IInv
  <2>2. \A t \in Tasks : TaskInv(t)'
    BY TaskStep
  <2>3. \A p \in Parts : PartInv(p)' /\ OwnInv(p)'
    BY PartStep, OwnStep
  <2> QED
    BY <2>1, <2>2, <2>3 DEF IInv
<1> QED
  BY InitInv, <1>1, PTL DEF Spec

\* Every reachable state of client and worker is well typed, and threads run for
\* exactly the tasks the server knows.
THEOREM TypeCorrect == Spec => []TypeOK
<1>1. IInv => TypeOK
  BY DEF IInv
<1> QED
  BY Invariance, <1>1, PTL

\* A success whose build began alone is delivered whole and of its own round.
THEOREM DeliversOwn == Spec => []DeliversOwnBuild
<1>1. ASSUME IInv PROVE DeliversOwnBuild
  <2>1. ASSUME NEW p \in Parts, outcome[p] = "success", Mine(p) \notin clashed
        PROVE  delivered[p] = OwnArtifacts
    BY <1>1, <2>1 DEF IInv, OwnInv, PartInv
  <2> QED
    BY <2>1 DEF DeliversOwnBuild, OwnArtifacts
<1> QED
  BY Invariance, <1>1, PTL

\* What a build has ended with stays on record until the worker restarts.
THEOREM EndsStay == Spec => EndedStaysEnded
<1> DEFINE Stays == \A t \in Tasks : status[t] \in {"completed", "failed"} =>
                                       status'[t] \in {status[t], "none"}
<1>1. ASSUME IInv, [Next]_vars PROVE Stays
  <2> SUFFICES ASSUME NEW t \in Tasks, status[t] \in {"completed", "failed"}
               PROVE  status'[t] \in {status[t], "none"}
    OBVIOUS
  <2>0. TypeOK /\ phase[t] \notin Building
    BY <1>1 DEF IInv, TaskInv
  <2>1. ASSUME NEW p \in Parts, HandleSend(p)
        PROVE  status'[t] = status[t]
    <3>1. Mine(p) # t
      BY <1>1, <2>1 DEF IInv, PartInv, HandleSend
    <3> QED
      BY <2>0, <2>1, <3>1 DEF HandleSend, TypeOK
  <2>2. ASSUME NEW p \in Parts, HandleCancel(p)
        PROVE  status'[t] = status[t]
    BY <2>0, <2>2 DEF HandleCancel, TypeOK, Final
  <2>3. ASSUME NEW u \in Tasks, Complete(u) \/ BuildFails(u)
        PROVE  status'[t] = status[t]
    BY <2>0, <2>3 DEF Complete, BuildFails, TypeOK, Building
  <2>4. CASE WorkerRestarts
    BY <2>4 DEF WorkerRestarts
  <2>5. CASE \/ Dispatch \/ OrchestratorDies \/ UNCHANGED vars
             \/ \E p \in Parts : Acquire(p) \/ Poll(p) \/ TimeOut(p) \/ Receive(p)
                                 \/ HandleGet(p) \/ CallBreaks(p)
             \/ \E u \in Tasks : Export(u) \/ WriteMetadata(u) \/ Package(u)
    BY <2>5 DEF Dispatch, OrchestratorDies, Acquire, Poll, TimeOut, Receive, HandleGet, CallBreaks,
                Export, WriteMetadata, Package, vars, serverVars
  <2> QED
    BY <1>1, <2>1, <2>2, <2>3, <2>4, <2>5 DEF Next
<1> QED
  BY <1>1, Invariance, PTL DEF Spec, EndedStaysEnded

LEMMA ContractStep ==
  ASSUME IInv, [Next]_vars
  PROVE  [Contract!Next]_<<round, asked, outcome, built>>
<1>0. TypeOK /\ \A p \in Parts : PartInv(p)
  BY DEF IInv
<1>1. ASSUME UNCHANGED <<round, outcome, built>>, asked' = asked
      PROVE  [Contract!Next]_<<round, asked, outcome, built>>
  BY <1>1
<1>2. CASE Dispatch
  <2>1. asked = {} /\ asked' = Parts
    BY <1>2 DEF Dispatch, asked
  <2>2. Contract!Begin
    BY <1>2, <2>1 DEF Dispatch, Contract!Begin, histVars
  <2> QED
    BY <2>2 DEF Contract!Next
<1>3. ASSUME NEW p \in Parts, Acquire(p) \/ Poll(p) \/ TimeOut(p)
      PROVE  [Contract!Next]_<<round, asked, outcome, built>>
  <2>1. asked' = asked
    BY <1>0, <1>3 DEF Acquire, Poll, TimeOut, asked, TypeOK
  <2> QED
    BY <1>1, <1>3, <2>1 DEF Acquire, Poll, TimeOut, histVars
<1>4. ASSUME NEW p \in Parts, Receive(p)
      PROVE  [Contract!Next]_<<round, asked, outcome, built>>
  <2>1. p \in asked /\ UNCHANGED <<round, built>>
    BY <1>4 DEF Receive, asked, Calls, histVars
  <2>2. ASSUME NEW o \in {"success", "failed"}, EndsWith(p, o), o = "success" => Mine(p) \in built
        PROVE  [Contract!Next]_<<round, asked, outcome, built>>
    <3>1. asked' = asked \ {p}
      BY <1>0, <2>2 DEF EndsWith, asked, TypeOK
    <3>2. Contract!Answer(p, o)
      BY <2>1, <2>2, <3>1 DEF Contract!Answer, EndsWith, Mine
    <3> QED
      BY <3>2 DEF Contract!Next
  <2>3. CASE EndsWith(p, "failed")
    BY <2>2, <2>3
  <2>4. CASE pc[p] = "get" /\ reply[p].is = "completed" /\ EndsWith(p, "success")
    BY <1>0, <2>2, <2>4 DEF PartInv
  <2>5. CASE pc' = [pc EXCEPT ![p] = "loop"] /\ outcome' = outcome
    <3>1. asked' = asked
      BY <1>0, <1>4, <2>5 DEF Receive, asked, TypeOK, Calls
    <3> QED
      BY <1>1, <2>1, <2>5, <3>1
  <2> QED
    BY <1>4, <2>3, <2>4, <2>5 DEF Receive
<1>5. ASSUME NEW t \in Tasks, Complete(t)
      PROVE  [Contract!Next]_<<round, asked, outcome, built>>
  <2>1. t[1] \in Parts /\ t[2] \in 1..MaxRounds /\ t[2] \in 1..round /\ t = <<t[1], t[2]>>
    BY <1>0, <1>5, ThreadFacts, RoundsAssumption DEF Complete, Building, TypeOK, Tasks
  <2>2. built' = built \cup {t} /\ asked' = asked /\ UNCHANGED <<round, outcome>>
    BY <1>5 DEF Complete, clientVars, asked
  <2>3. CASE t \in built
    BY <1>1, <2>2, <2>3
  <2>4. CASE t \notin built
    <3>1. Contract!Build(t[1], t[2])
      BY <2>1, <2>2, <2>4 DEF Contract!Build
    <3> QED
      BY <2>1, <3>1 DEF Contract!Next
  <2> QED
    BY <2>3, <2>4
<1>6. CASE OrchestratorDies
  <2>1. asked' = {}
    BY <1>6 DEF OrchestratorDies, asked
  <2>2. Contract!GiveUp
    BY <1>6, <2>1 DEF OrchestratorDies, Contract!GiveUp, histVars
  <2> QED
    BY <2>2 DEF Contract!Next
<1>7. CASE \/ WorkerRestarts \/ UNCHANGED vars
           \/ \E p \in Parts : HandleSend(p) \/ HandleGet(p) \/ HandleCancel(p) \/ CallBreaks(p)
           \/ \E t \in Tasks : Export(t) \/ WriteMetadata(t) \/ Package(t) \/ BuildFails(t)
  <2>1. UNCHANGED <<round, pc, outcome, built>>
    BY <1>7 DEF WorkerRestarts, HandleSend, HandleGet, HandleCancel, CallBreaks, Export, WriteMetadata,
                Package, BuildFails, vars, clientVars, histVars
  <2> QED
    BY <1>1, <2>1 DEF asked
<1> QED
  BY <1>2, <1>3, <1>4, <1>5, <1>6, <1>7 DEF Next

\* Client and worker together implement the contract of a dispatch: each answer is
\* given once, and "success" only for a build of the round that was completed.
THEOREM ContractKept == Spec => KeepsContract
<1>1. Init => Contract!Init
  BY DEF Init, Contract!Init, asked
<1>2. IInv /\ [Next]_vars => [Contract!Next]_<<round, asked, outcome, built>>
  BY ContractStep
<1> QED
  BY <1>1, <1>2, Invariance, PTL DEF Spec, KeepsContract, Contract!Spec
=============================================================================
